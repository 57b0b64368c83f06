-------------------------- MODULE SequencerProofs --------------------------
(***************************************************************************)
(* Theorems about the sequencer, for every number of clients, every        *)
(* schedule, countdown and checkpoint, and both kinds of lifecycle.        *)
(*                                                                         *)
(* Four parts: the invariants of single states and single steps; the       *)
(* timeline; how a day ends; and what callers get back.                    *)
(***************************************************************************)
EXTENDS Sequencer, FiniteSetTheorems, TLAPS

\* What LogicalFrom returns, and that a later moment never shows less.
LEMMA LogicalFromNat ==
    ASSUME NEW s, NEW base \in Nat, NEW from \in Nat, NEW at \in Nat
    PROVE  LogicalFrom(s, base, from, at) \in Nat /\ LogicalFrom(s, base, from, at) >= base
BY DEF LogicalFrom

\* A later moment of the clock never shows an earlier logical time (logicalAt).
LEMMA LogicalFromMonotone ==
    ASSUME NEW s, NEW base \in Nat, NEW from \in Nat, NEW at \in Nat, NEW later \in Nat,
           at <= later
    PROVE  LogicalFrom(s, base, from, at) <= LogicalFrom(s, base, from, later)
BY DEF LogicalFrom

\* The head of the schedule is a time, and the next head is not before it.
LEMMA ScheduleHead ==
    ASSUME NEW n \in Nat, n < Len(Dues)
    PROVE  /\ Dues[n + 1] \in Nat
           /\ n + 1 < Len(Dues) => Dues[n + 1] <= Dues[n + 2]
BY ConstantsAssumption DEF ConstantsAssumption

\* armTimerAt leaves a time or no timer.
LEMMA ArmTimerType ==
    ASSUME TypeOK, NEW s, NEW base \in Nat, NEW from \in Nat, ArmTimerAt(s, base, from)
    PROVE  timer' \in Nat \cup {NoTimer}
<1>1. LogicalFrom(s, base, from, now) \in Nat
  BY LogicalFromNat DEF TypeOK
<1>2. HasCandidate => CandidateDue \in Nat
  BY ScheduleHead, ConstantsAssumption DEF HasCandidate, CandidateDue, TypeOK, ConstantsAssumption
<1> QED BY <1>1, <1>2 DEF ArmTimerAt, Max0, TypeOK

\* A loaded candidate has a due time, and can be committed.
LEMMA CandidateDueNat ==
    ASSUME TypeOK, HasCandidate
    PROVE  CandidateDue \in Nat /\ nextScheduled + 1 \in 0..Len(Dues)
BY ScheduleHead, ConstantsAssumption DEF HasCandidate, CandidateDue, TypeOK, ConstantsAssumption

\* execute() keeps the types of the history.
LEMMA ExecuteType ==
    ASSUME TypeOK, NEW req, NEW at \in Nat, NEW d \in Dispositions,
           req.kind \in ActionKinds \/ req = NoRequest, Execute(req, at, d)
    PROVE  /\ sequence' \in Nat /\ recorded' \in [ActionIDs -> Records]
           /\ attempts' \in [ActionIDs -> Nat] /\ lastAt' \in Nat /\ viewed' \in Nat
<1>1. ASSUME NEW id \in ActionIDs, id = req.id, d # "fail"
      PROVE  [kind |-> req.kind, disposition |-> d] \in Records
  <2>1. req.kind \in ActionKinds
    BY <1>1, ConstantsAssumption DEF ConstantsAssumption, NoRequest
  <2> QED BY <2>1, <1>1 DEF Records, Dispositions
<1>2. recorded' \in [ActionIDs -> Records]
  BY <1>1 DEF Execute, TypeOK
<1> QED BY <1>2 DEF Execute, TypeOK

\* The variables of a day, as TypeOK has them.
DayTypeOK ==
    /\ status \in Statuses /\ elapsed \in Nat
    /\ anchor \in Nat /\ countdownAnchor \in Nat
    /\ nextScheduled \in 0..Len(Dues)
    /\ timer \in Nat \cup {NoTimer}

HistoryTypeOK ==
    /\ sequence \in Nat
    /\ recorded \in [ActionIDs -> Records]
    /\ attempts \in [ActionIDs -> Nat]
    /\ lastAt \in Nat /\ viewed \in Nat

LoopTypeOK ==
    /\ phase \in {"top", "select", "fired", "handle", "gate", "due", "after", "exit"}
    /\ cur \in Requests \cup {NoRequest}
    /\ viaTimer \in BOOLEAN /\ firedAt \in Nat /\ target \in Nat

AdmissionTypeOK ==
    /\ now \in Nat /\ accepting \in BOOLEAN /\ wake \in BOOLEAN
    /\ pending \in Seq(Requests)
    /\ client \in [Clients -> {"idle", "waking", "waiting"}]
    /\ reply \in [Clients -> Replies \cup {NoReply}]
    /\ admitted \in Nat

\* TypeOK by groups of variables, to prove each group where it changes.
LEMMA TypeOKParts == TypeOK <=> DayTypeOK /\ HistoryTypeOK /\ LoopTypeOK /\ AdmissionTypeOK
BY DEF TypeOK, DayTypeOK, HistoryTypeOK, LoopTypeOK, AdmissionTypeOK

\* The groups together, after a step.
LEMMA TypeOKPartsPrime ==
    ASSUME DayTypeOK', HistoryTypeOK', LoopTypeOK', AdmissionTypeOK' PROVE TypeOK'
BY DEF TypeOK, DayTypeOK, HistoryTypeOK, LoopTypeOK, AdmissionTypeOK

\* fail() keeps the types of the day.
LEMMA FailType ==
    ASSUME TypeOK, NEW at \in Nat, Fail(at) PROVE DayTypeOK'
BY DEF Fail, StopTimer, DayTypeOK, TypeOK, Statuses, NoTimer

\* Answering a request keeps the types of the loop and of the queue.
LEMMA FinishType ==
    ASSUME TypeOK, NEW r \in Replies, Finish(r) PROVE LoopTypeOK' /\ AdmissionTypeOK'
BY DEF Finish, Forget, LoopTypeOK, AdmissionTypeOK, TypeOK, admission

\* completeCountdown() keeps the types of the day and the history.
LEMMA CompleteCountdownType ==
    ASSUME TypeOK, CompleteCountdown PROVE DayTypeOK' /\ HistoryTypeOK'
<1>1. PICK d \in Dispositions :
        /\ Execute(NoRequest, 0, d)
        /\ \/ /\ d = "continue"
              /\ status' = "running" /\ anchor' = now
              /\ ArmTimerAt("running", elapsed, now)
              /\ UNCHANGED <<elapsed, countdownAnchor, nextScheduled>>
           \/ d # "continue" /\ Fail(0)
  BY DEF CompleteCountdown
<1>2. HistoryTypeOK'
  BY <1>1, ExecuteType DEF HistoryTypeOK
<1>3. ASSUME status' = "running", anchor' = now, ArmTimerAt("running", elapsed, now),
             UNCHANGED <<elapsed, countdownAnchor, nextScheduled>>
      PROVE  DayTypeOK'
  <2>1. timer' \in Nat \cup {NoTimer}
    BY <1>3, ArmTimerType DEF TypeOK
  <2> QED BY <1>3, <2>1 DEF DayTypeOK, TypeOK, Statuses
<1> QED BY <1>1, <1>2, <1>3, FailType

\* Taking a request from the queue keeps the types.
LEMMA HandleType ==
    ASSUME TypeOK, NEW drained \in BOOLEAN, Handle(drained) PROVE TypeOK'
<1>1. Head(pending) \in Requests /\ Tail(pending) \in Seq(Requests)
  BY DEF Handle, TypeOK
<1> QED BY <1>1 DEF Handle, TypeOK, day, history

\* Every step keeps the types.
LEMMA TypeStep == TypeOK /\ [Next]_vars => TypeOK'
<1> SUFFICES ASSUME TypeOK, [Next]_vars PROVE TypeOK'
  OBVIOUS
<1>elapsed. elapsed \in Nat /\ target \in Nat /\ now \in Nat /\ cur.received \in Nat /\ At \in Nat
  BY DEF TypeOK, Requests, NoRequest, At
<1>parts. DayTypeOK /\ HistoryTypeOK /\ LoopTypeOK /\ AdmissionTypeOK
  BY TypeOKParts
<1>arm. ASSUME NEW s, NEW base \in Nat, NEW from \in Nat, ArmTimerAt(s, base, from)
        PROVE  timer' \in Nat \cup {NoTimer}
  BY <1>arm, ArmTimerType
<1>replies. {"ok", "rejected", "invalid", "failed", "closed"} = Replies
  BY DEF Replies
<1>1. CASE Dequeue
  BY <1>1, HandleType DEF Dequeue, TypeOK, admission, day, history
<1>2. CASE SelectWake
  BY <1>2 DEF SelectWake, TypeOK, day, history
<1>3. CASE SelectTimer
  BY <1>3 DEF SelectTimer, StopTimer, TypeOK, admission, history, NoTimer
<1>4. CASE FiredWithRequest
  BY <1>4, HandleType DEF FiredWithRequest
<1>5. CASE FiredRunning
  <2>1. LogicalAt(firedAt) \in Nat
    BY LogicalFromNat DEF TypeOK, LogicalAt
  <2> QED BY <1>5, <2>1 DEF FiredRunning, TypeOK, admission, day, history
<1>6. CASE FiredCountdown
  <2>1. LoopTypeOK' /\ AdmissionTypeOK'
    BY <1>6, <1>parts DEF FiredCountdown, Forget, LoopTypeOK, AdmissionTypeOK, admission
  <2> QED BY <1>6, <2>1, CompleteCountdownType, TypeOKPartsPrime DEF FiredCountdown
<1>7. CASE FiredDone
  <2>1. timer' \in Nat \cup {NoTimer}
    BY <1>7, <1>arm DEF FiredDone, ArmTimer, TypeOK
  <2> QED BY <1>7, <2>1 DEF FiredDone, Forget, TypeOK, admission, history
<1>8. CASE AfterRequest
  <2>1. timer' \in Nat \cup {NoTimer}
    BY <1>8, ConstantsAssumption DEF AfterRequest, RearmCountdown, Max0, TypeOK, ConstantsAssumption
  <2> QED BY <1>8, <2>1 DEF AfterRequest, TypeOK, admission, history
<1>9. CASE Replay
  <2>1. PICK r \in Replies : Finish(r)
    BY <1>9, <1>replies DEF Replay
  <2>2. DayTypeOK' /\ HistoryTypeOK'
    BY <1>9, <1>parts DEF Replay, DayTypeOK, HistoryTypeOK, day, history
  <2> QED BY <2>1, <2>2, FinishType, TypeOKPartsPrime
<1>10. CASE LateCountdown
  <2>1. LoopTypeOK' /\ AdmissionTypeOK'
    BY <1>10, <1>parts DEF LateCountdown, LoopTypeOK, AdmissionTypeOK, admission
  <2> QED BY <1>10, <2>1, CompleteCountdownType, TypeOKPartsPrime DEF LateCountdown
<1>11. CASE RefuseEnded
  <2>1. PICK r \in Replies : Finish(r)
    BY <1>11, <1>replies DEF RefuseEnded
  <2>2. DayTypeOK' /\ HistoryTypeOK'
    BY <1>11, <1>parts DEF RefuseEnded, DayTypeOK, HistoryTypeOK, day, history
  <2> QED BY <2>1, <2>2, FinishType, TypeOKPartsPrime
<1>12. CASE RefuseStatus
  <2>1. PICK r \in Replies : Finish(r)
    BY <1>12, <1>replies DEF RefuseStatus
  <2>2. DayTypeOK' /\ HistoryTypeOK'
    BY <1>12, <1>parts DEF RefuseStatus, DayTypeOK, HistoryTypeOK, day, history
  <2> QED BY <2>1, <2>2, FinishType, TypeOKPartsPrime
<1>13. CASE BeginDue
  <2>1. LogicalAt(cur.received) \in Nat
    BY <1>elapsed, LogicalFromNat DEF TypeOK, LogicalAt
  <2> QED BY <1>13, <2>1 DEF BeginDue, TypeOK, admission, day, history
<1>14. CASE ProcessDue
  <2>1. HasCandidate /\ CandidateDue \in Nat /\ nextScheduled + 1 \in 0..Len(Dues)
    BY <1>14, CandidateDueNat DEF ProcessDue, DueBy
  <2>2. HistoryTypeOK'
    BY <1>14, <2>1, ExecuteType DEF ProcessDue, HistoryTypeOK
  <2>3. DayTypeOK'
    BY <1>14, <1>parts, <2>1, FailType DEF ProcessDue, StopTimer, DayTypeOK, Statuses
  <2>4. LoopTypeOK' /\ AdmissionTypeOK'
    BY <1>14, <1>parts DEF ProcessDue, LoopTypeOK, AdmissionTypeOK, admission, loop
  <2> QED BY <2>2, <2>3, <2>4, TypeOKPartsPrime
<1>15. CASE DueEnded
  <2>1. PICK r \in Replies : Finish(r)
    BY <1>15, <1>replies DEF DueEnded
  <2>2. DayTypeOK' /\ HistoryTypeOK'
    BY <1>15, <1>parts DEF DueEnded, DayTypeOK, HistoryTypeOK, day, history
  <2> QED BY <2>1, <2>2, FinishType, TypeOKPartsPrime
<1>16. CASE Start
  <2>1. DayTypeOK'
    BY <1>16, <1>parts, <1>elapsed, <1>arm DEF Start, DayTypeOK, Statuses
  <2> QED BY <1>16, <2>1, <1>parts, <1>replies, FinishType, TypeOKPartsPrime
          DEF Start, HistoryTypeOK, history
<1>17. CASE Pause
  <2>1. DayTypeOK'
    BY <1>17, <1>parts, <1>elapsed DEF Pause, StopTimer, DayTypeOK, Statuses
  <2> QED BY <1>17, <2>1, <1>parts, <1>replies, FinishType, TypeOKPartsPrime
          DEF Pause, HistoryTypeOK, history
<1>18. CASE Resume
  <2>1. DayTypeOK'
    BY <1>18, <1>parts, <1>elapsed, <1>arm DEF Resume, DayTypeOK, Statuses
  <2> QED BY <1>18, <2>1, <1>parts, <1>replies, FinishType, TypeOKPartsPrime
          DEF Resume, HistoryTypeOK, history
<1>19. CASE StartAction
  <2>1. HistoryTypeOK'
    BY <1>19, ExecuteType DEF StartAction, Acting, ActionKinds, LifecycleKinds, HistoryTypeOK
  <2>2. DayTypeOK'
    BY <1>19, <1>parts, <1>elapsed, FailType, ConstantsAssumption
       DEF StartAction, DayTypeOK, Statuses, day, ConstantsAssumption
  <2> QED BY <1>19, <2>1, <2>2, <1>replies, FinishType, TypeOKPartsPrime DEF StartAction
<1>20. CASE Submit
  <2>1. HistoryTypeOK'
    BY <1>20, <1>elapsed, ExecuteType DEF Submit, Acting, ActionKinds, HistoryTypeOK
  <2>2. DayTypeOK'
    BY <1>20, <1>parts, <1>elapsed, <1>arm, FailType
       DEF Submit, ArmTimer, StopTimer, DayTypeOK, Statuses
  <2> QED BY <1>20, <2>1, <2>2, <1>replies, FinishType, TypeOKPartsPrime DEF Submit
<1>21. CASE PauseAction
  <2>1. HistoryTypeOK'
    BY <1>21, <1>elapsed, ExecuteType
       DEF PauseAction, Acting, ActionKinds, LifecycleKinds, HistoryTypeOK
  <2>2. DayTypeOK'
    BY <1>21, <1>parts, <1>elapsed, FailType DEF PauseAction, StopTimer, DayTypeOK, Statuses
  <2> QED BY <1>21, <2>1, <2>2, <1>replies, FinishType, TypeOKPartsPrime DEF PauseAction
<1>22. CASE ResumeAction
  <2>1. HistoryTypeOK'
    BY <1>22, <1>elapsed, ExecuteType
       DEF ResumeAction, Acting, ActionKinds, LifecycleKinds, HistoryTypeOK
  <2>2. DayTypeOK'
    BY <1>22, <1>parts, <1>elapsed, <1>arm, FailType DEF ResumeAction, DayTypeOK, Statuses
  <2> QED BY <1>22, <2>1, <2>2, <1>replies, FinishType, TypeOKPartsPrime DEF ResumeAction
<1>23. CASE CompleteAction
  <2>1. HistoryTypeOK'
    BY <1>23, <1>elapsed, ExecuteType
       DEF CompleteAction, Acting, ActionKinds, LifecycleKinds, HistoryTypeOK
  <2>2. DayTypeOK'
    BY <1>23, <1>parts, <1>elapsed, <1>arm, FailType
       DEF CompleteAction, ArmTimer, StopTimer, DayTypeOK, Statuses
  <2> QED BY <1>23, <2>1, <2>2, <1>replies, FinishType, TypeOKPartsPrime DEF CompleteAction
<1>24. CASE View
  <2>1. LogicalAt(cur.received) \in Nat
    BY <1>elapsed, LogicalFromNat DEF TypeOK, LogicalAt
  <2>2. DayTypeOK' /\ HistoryTypeOK'
    BY <1>24, <1>parts, <1>arm, <2>1 DEF View, ArmTimer, DayTypeOK, HistoryTypeOK
  <2> QED BY <1>24, <2>2, <1>replies, FinishType, TypeOKPartsPrime DEF View
<1>25. CASE Snapshot
  <2>1. DayTypeOK' /\ HistoryTypeOK'
    BY <1>25, <1>parts DEF Snapshot, DayTypeOK, HistoryTypeOK, day, history
  <2> QED BY <1>25, <2>1, <1>replies, FinishType, TypeOKPartsPrime DEF Snapshot
<1>26. CASE Close
  <2>1. DayTypeOK' /\ HistoryTypeOK'
    BY <1>26, <1>parts, <1>elapsed DEF Close, StopTimer, DayTypeOK, HistoryTypeOK, Statuses, history
  <2>2. reply' \in [Clients -> Replies \cup {NoReply}]
    BY <1>26, <1>parts, <1>replies DEF Close, AdmissionTypeOK
  <2>3. /\ pending' = <<>> /\ accepting' = FALSE
        /\ cur' = NoRequest /\ phase' = "exit" /\ Forget
        /\ UNCHANGED <<now, wake, client, admitted>>
    BY <1>26 DEF Close
  <2>4. pending' \in Seq(Requests)
    BY <2>3
  <2>5. LoopTypeOK'
    BY <2>3 DEF Forget, LoopTypeOK
  <2>6. AdmissionTypeOK'
    BY <1>parts, <2>2, <2>3, <2>4 DEF AdmissionTypeOK
  <2> QED BY <2>1, <2>5, <2>6, TypeOKPartsPrime
<1>27. CASE ClientStep
  <2>1. ASSUME NEW c \in Clients, NEW kind \in Kinds, NEW id \in IDsFor(kind), Admit(c, kind, id)
        PROVE  TypeOK'
    <3>1. [client |-> c, kind |-> kind, id |-> id, received |-> now] \in Requests
      BY <2>1, ConstantsAssumption DEF ConstantsAssumption, Requests, IDsFor, TypeOK
    <3> QED BY <2>1, <3>1 DEF Admit, TypeOK, loop, day, history
  <2>2. ASSUME NEW c \in Clients, Wake(c) PROVE TypeOK'
    BY <2>2 DEF Wake, TypeOK, loop, day, history
  <2>3. ASSUME NEW c \in Clients, Return(c) PROVE TypeOK'
    BY <2>3 DEF Return, TypeOK, loop, day, history
  <2> QED BY <1>27, <2>1, <2>2, <2>3 DEF ClientStep
<1>28. CASE Tick
  BY <1>28 DEF Tick, TypeOK, admission, loop, day, history
<1>29. CASE UNCHANGED vars
  BY <1>29 DEF TypeOK, vars, admission, loop, day, history
<1> QED
  BY <1>1, <1>2, <1>3, <1>4, <1>5, <1>6, <1>7, <1>8, <1>9, <1>10, <1>11, <1>12, <1>13, <1>14,
     <1>15, <1>16, <1>17, <1>18, <1>19, <1>20, <1>21, <1>22, <1>23, <1>24, <1>25, <1>26, <1>27,
     <1>28, <1>29
     DEF Next, LoopStep

\* A sequencer started from a valid checkpoint is well typed.
LEMMA TypeInit == Init => TypeOK
<1> SUFFICES ASSUME Init PROVE TypeOK
  OBVIOUS
<1>1. PICK c \in Checkpoints :
        /\ status = c.status /\ elapsed = c.elapsed /\ sequence = c.sequence
        /\ nextScheduled = c.nextScheduled /\ lastAt = c.elapsed /\ viewed = c.elapsed
        /\ anchor = 0 /\ countdownAnchor = 0 /\ timer = NoTimer
        /\ recorded = [id \in ActionIDs |-> NoRecord] /\ attempts = [id \in ActionIDs |-> 0]
  BY DEF Init
<1>2. ValidCheckpoint(c)
  BY ConstantsAssumption DEF ConstantsAssumption
<1>3. DayTypeOK /\ HistoryTypeOK
  BY <1>1, <1>2 DEF ValidCheckpoint, DayTypeOK, HistoryTypeOK, Statuses, Records
<1>4. /\ now = 0 /\ accepting = TRUE /\ pending = <<>> /\ wake = FALSE /\ admitted = 0
      /\ phase = "top" /\ cur = NoRequest /\ viaTimer = FALSE /\ firedAt = 0 /\ target = 0
  BY DEF Init
<1>5. pending \in Seq(Requests)
  BY <1>4
<1>6. client \in [Clients -> {"idle", "waking", "waiting"}] /\ reply \in [Clients -> Replies \cup {NoReply}]
  BY DEF Init
<1>7. LoopTypeOK
  BY <1>4 DEF LoopTypeOK
<1>8. AdmissionTypeOK
  BY <1>4, <1>5, <1>6 DEF AdmissionTypeOK
<1> QED BY <1>3, <1>7, <1>8, TypeOKParts

\* Every reachable state is well typed.
THEOREM TypeCorrect == Spec => []TypeOK
BY TypeInit, TypeStep, PTL DEF Spec

-----------------------------------------------------------------------------
(* The phases of the loop *)

\* Which phase goes with which request and which status.
PhaseInv ==
    /\ phase = "due" => /\ status \in {"running", "completed", "failed"}
                        /\ cur = NoRequest \/ cur.kind \in DueFirst
    /\ phase \in {"handle", "gate"} => cur \in Requests
    /\ phase \in {"top", "select", "fired", "after", "exit"} => cur = NoRequest
    /\ status = "closed" => phase = "exit"

\* What the loop handles is the oldest queued request.
LEMMA HandledRequest ==
    ASSUME TypeOK, NEW drained, Handle(drained)
    PROVE  cur' = Head(pending) /\ cur' \in Requests /\ phase' = "handle"
BY DEF Handle, TypeOK

\* completeCountdown() leaves the day running or failed.
LEMMA CountdownEnding ==
    ASSUME CompleteCountdown PROVE status' \in {"running", "failed"}
BY DEF CompleteCountdown, Fail

\* An answered request is forgotten, and the loop goes back to its top.
LEMMA FinishPhase ==
    ASSUME NEW r, Finish(r) PROVE phase' \in {"after", "top"} /\ cur' = NoRequest
BY DEF Finish

\* The handler's actions run in three phases.
LEMMA HandlingPhase ==
    /\ Gate => phase \in {"handle", "gate"}
    /\ Open => Gate
    /\ DueDone => phase = "due"
    /\ \A kind : Acting(kind) => phase \in {"handle", "gate", "due"}
BY DEF Gate, Open, DueDone, Acting

\* Every step keeps phase, request and status together.
LEMMA PhaseStep ==
    ASSUME TypeOK, PhaseInv, [Next]_vars PROVE PhaseInv'
<1>1. CASE Dequeue
  <2>1. CASE Handle(FALSE)
    BY <1>1, <2>1, HandledRequest DEF Dequeue, Handle, PhaseInv, day
  <2> QED BY <1>1, <2>1 DEF Dequeue, PhaseInv, day
<1>2. CASE SelectWake
  BY <1>2 DEF SelectWake, day, PhaseInv
<1>3. CASE SelectTimer
  BY <1>3 DEF SelectTimer, PhaseInv
<1>4. CASE FiredWithRequest
  BY <1>4, HandledRequest DEF FiredWithRequest, Handle, PhaseInv, day
<1>5. CASE FiredRunning
  BY <1>5 DEF FiredRunning, day, PhaseInv
<1>6. CASE FiredCountdown
  BY <1>6, CountdownEnding DEF FiredCountdown, PhaseInv
<1>7. CASE FiredDone
  BY <1>7, HandlingPhase DEF FiredDone, PhaseInv
<1>8. CASE AfterRequest
  BY <1>8 DEF AfterRequest, PhaseInv
<1>9. CASE Replay
  BY <1>9, FinishPhase, HandlingPhase DEF Replay, PhaseInv, day, Replayable
<1>10. CASE LateCountdown
  BY <1>10, CountdownEnding DEF LateCountdown, PhaseInv
<1>11. CASE RefuseEnded
  BY <1>11, FinishPhase, HandlingPhase DEF RefuseEnded, PhaseInv, day
<1>12. CASE RefuseStatus
  BY <1>12, FinishPhase, HandlingPhase DEF RefuseStatus, PhaseInv, day
<1>13. CASE BeginDue
  BY <1>13 DEF BeginDue, PhaseInv, day
<1>14. CASE ProcessDue
  BY <1>14 DEF ProcessDue, Fail, loop, PhaseInv
<1>15. CASE DueEnded
  BY <1>15, FinishPhase, HandlingPhase DEF DueEnded, PhaseInv, day
<1>16. CASE Start
  BY <1>16, FinishPhase, HandlingPhase DEF Start, Fail, PhaseInv, day
<1>17. CASE Pause
  BY <1>17, FinishPhase, HandlingPhase DEF Pause, Fail, PhaseInv, day
<1>18. CASE Resume
  BY <1>18, FinishPhase, HandlingPhase DEF Resume, Fail, PhaseInv, day
<1>19. CASE StartAction
  BY <1>19, FinishPhase, HandlingPhase DEF StartAction, Fail, PhaseInv, day
<1>20. CASE Submit
  BY <1>20, FinishPhase, HandlingPhase DEF Submit, Fail, PhaseInv, day
<1>21. CASE PauseAction
  BY <1>21, FinishPhase, HandlingPhase DEF PauseAction, Fail, PhaseInv, day
<1>22. CASE ResumeAction
  BY <1>22, FinishPhase, HandlingPhase DEF ResumeAction, Fail, PhaseInv, day
<1>23. CASE CompleteAction
  BY <1>23, FinishPhase, HandlingPhase DEF CompleteAction, Fail, PhaseInv, day
<1>24. CASE View
  BY <1>24, FinishPhase, HandlingPhase DEF View, Fail, PhaseInv, day
<1>25. CASE Snapshot
  BY <1>25, FinishPhase, HandlingPhase DEF Snapshot, PhaseInv, day
<1>26. CASE Close
  BY <1>26 DEF Close, PhaseInv
<1>27. CASE Tick
  BY <1>27 DEF Tick, loop, day, PhaseInv
<1>28. CASE ClientStep
  BY <1>28 DEF ClientStep, Admit, Wake, Return, PhaseInv, loop, day
<1>29. CASE UNCHANGED vars
  BY <1>29 DEF PhaseInv, vars, loop, day
<1> QED
  BY <1>1, <1>2, <1>3, <1>4, <1>5, <1>6, <1>7, <1>8, <1>9, <1>10, <1>11, <1>12, <1>13, <1>14,
     <1>15, <1>16, <1>17, <1>18, <1>19, <1>20, <1>21, <1>22, <1>23, <1>24, <1>25, <1>26, <1>27,
     <1>28, <1>29
     DEF Next, LoopStep

\* The loop starts at its top, without a request.
LEMMA PhaseInit == Init => PhaseInv
BY ConstantsAssumption DEF Init, PhaseInv, ConstantsAssumption, ValidCheckpoint

\* Phase, request and status always go together.
LEMMA PhasesHold == Spec => [](TypeOK /\ PhaseInv)
BY TypeCorrect, PhaseInit, PhaseStep, PTL DEF Spec

-----------------------------------------------------------------------------
(* Wake-ups *)

\* A step of the loop enters the select only with an empty queue.
LEMMA SelectedEmpty ==
    ASSUME LoopStep, phase' = "select" PROVE pending' = <<>>
<1>1. CASE Dequeue
  BY <1>1 DEF Dequeue, Handle, admission
<1>2. CASE SelectWake
  BY <1>2 DEF SelectWake
<1>3. CASE SelectTimer
  BY <1>3 DEF SelectTimer
<1>4. CASE FiredWithRequest
  BY <1>4 DEF FiredWithRequest, Handle
<1>5. CASE FiredRunning
  BY <1>5 DEF FiredRunning
<1>6. CASE FiredCountdown
  BY <1>6 DEF FiredCountdown
<1>7. CASE FiredDone
  BY <1>7 DEF FiredDone
<1>8. CASE AfterRequest
  BY <1>8 DEF AfterRequest
<1>9. CASE Replay
  BY <1>9, FinishPhase DEF Replay
<1>10. CASE LateCountdown
  BY <1>10 DEF LateCountdown
<1>11. CASE RefuseEnded
  BY <1>11, FinishPhase DEF RefuseEnded
<1>12. CASE RefuseStatus
  BY <1>12, FinishPhase DEF RefuseStatus
<1>13. CASE BeginDue
  BY <1>13 DEF BeginDue
<1>14. CASE ProcessDue
  BY <1>14 DEF ProcessDue, loop
<1>15. CASE DueEnded
  BY <1>15, FinishPhase DEF DueEnded
<1>16. CASE Start
  BY <1>16, FinishPhase DEF Start
<1>17. CASE Pause
  BY <1>17, FinishPhase DEF Pause
<1>18. CASE Resume
  BY <1>18, FinishPhase DEF Resume
<1>19. CASE StartAction
  BY <1>19, FinishPhase DEF StartAction
<1>20. CASE Submit
  BY <1>20, FinishPhase DEF Submit
<1>21. CASE PauseAction
  BY <1>21, FinishPhase DEF PauseAction
<1>22. CASE ResumeAction
  BY <1>22, FinishPhase DEF ResumeAction
<1>23. CASE CompleteAction
  BY <1>23, FinishPhase DEF CompleteAction
<1>24. CASE View
  BY <1>24, FinishPhase DEF View
<1>25. CASE Snapshot
  BY <1>25, FinishPhase DEF Snapshot
<1>26. CASE Close
  BY <1>26 DEF Close
<1> QED
  BY <1>1, <1>2, <1>3, <1>4, <1>5, <1>6, <1>7, <1>8, <1>9, <1>10, <1>11, <1>12, <1>13, <1>14,
     <1>15, <1>16, <1>17, <1>18, <1>19, <1>20, <1>21, <1>22, <1>23, <1>24, <1>25, <1>26
     DEF LoopStep

\* No step of a client or of the loop loses a wake-up.
LEMMA WakeupStep ==
    ASSUME TypeOK, NoLostWakeup, [Next]_vars PROVE NoLostWakeup'
<1>1. CASE LoopStep
  BY <1>1, SelectedEmpty DEF NoLostWakeup
<1>2. ASSUME NEW c \in Clients, NEW kind \in Kinds, NEW id \in IDsFor(kind), Admit(c, kind, id)
      PROVE  NoLostWakeup'
  <2>1. client'[c] = "waking"
    BY <1>2 DEF Admit, TypeOK
  <2> QED BY <2>1 DEF NoLostWakeup
<1>3. ASSUME NEW c \in Clients, Wake(c) PROVE NoLostWakeup'
  BY <1>3 DEF Wake, NoLostWakeup
<1>4. ASSUME NEW c \in Clients, Return(c) PROVE NoLostWakeup'
  <2>1. ASSUME NEW d \in Clients, client[d] = "waking" PROVE client'[d] = "waking"
    BY <1>4, <2>1 DEF Return, TypeOK
  <2> QED BY <1>4, <2>1 DEF Return, NoLostWakeup, loop
<1>5. CASE Tick
  BY <1>5 DEF Tick, NoLostWakeup, admission, loop
<1>6. CASE UNCHANGED vars
  BY <1>6 DEF NoLostWakeup, vars, admission, loop
<1> QED BY <1>1, <1>2, <1>3, <1>4, <1>5, <1>6 DEF Next, ClientStep

\* No wake-up is lost: a request that waits while the loop is in its select has
\* a wake in the channel or a client that is about to send one.
THEOREM WakeupsNotLost == Spec => []NoLostWakeup
<1>1. Init => NoLostWakeup
  BY DEF Init, NoLostWakeup
<1> QED BY <1>1, TypeCorrect, WakeupStep, PTL DEF Spec

-----------------------------------------------------------------------------
(* Identifiers execute at most once *)

\* A request past the replay lookup is not recorded, and what was executed is
\* recorded or has failed the day.
OnceInv ==
    /\ phase \in {"gate", "due"} /\ cur.kind \in ActionKinds => recorded[cur.id] = NoRecord
    /\ DurableLifecycle => \A id \in ActionIDs :
         /\ attempts[id] <= 1
         /\ attempts[id] = 0 \/ recorded[id] # NoRecord \/ status \in {"failed", "closed"}

\* Scheduled and countdown actions carry no participant identifier.
LEMMA SystemExecutesNothingNamed ==
    ASSUME NEW at, NEW d, TypeOK, Execute(NoRequest, at, d)
    PROVE  attempts' = attempts /\ recorded' = recorded
BY ConstantsAssumption DEF Execute, NoRequest, TypeOK, ConstantsAssumption

\* An action of its own runs for an identifier that was never executed.
LEMMA ExecuteOnce ==
    ASSUME TypeOK, OnceInv, NEW at, NEW d \in Dispositions,
           status \notin {"failed", "closed"}, cur.kind \in ActionKinds,
           recorded[cur.id] = NoRecord, Execute(cur, at, d),
           d = "fail" => status' = "failed", phase' \in {"top", "after"}
    PROVE  OnceInv'
<1>1. ASSUME DurableLifecycle, NEW id \in ActionIDs
      PROVE  /\ attempts'[id] <= 1
             /\ attempts'[id] = 0 \/ recorded'[id] # NoRecord \/ status' \in {"failed", "closed"}
  <2>1. CASE id = cur.id
    <3>1. attempts[id] = 0
      BY <1>1, <2>1 DEF OnceInv
    <3>2. attempts'[id] = 1
      BY <2>1, <3>1 DEF Execute
    <3>3. d # "fail" => recorded'[id] = [kind |-> cur.kind, disposition |-> d]
      BY <1>1, <2>1 DEF Execute
    <3>4. [kind |-> cur.kind, disposition |-> d] # NoRecord
      BY DEF NoRecord, ActionKinds, LifecycleKinds
    <3> QED BY <3>2, <3>3, <3>4
  <2>2. CASE id # cur.id
    <3>1. attempts'[id] = attempts[id] /\ recorded'[id] = recorded[id]
      BY <2>2 DEF Execute, TypeOK
    <3> QED BY <1>1, <3>1 DEF OnceInv
  <2> QED BY <2>1, <2>2
<1> QED BY <1>1 DEF OnceInv

\* A participant action acts only if the replay lookup found nothing for it.
LEMMA UnrecordedActing ==
    ASSUME OnceInv, NEW kind \in ActionKinds, Acting(kind)
    PROVE  recorded[cur.id] = NoRecord
BY DEF OnceInv, Acting, DueDone, Open, Gate, Replayable

\* A served action finds the day neither failed nor closed.
LEMMA ActingOpen ==
    ASSUME PhaseInv, NEW kind \in ActionKinds, Acting(kind)
    PROVE  status \notin {"failed", "closed"}
BY DEF PhaseInv, Acting, DueDone, Open, Gate, RefusedFailed, ActionKinds, LifecycleKinds

\* A request that acts was not refused by the gates.
LEMMA ServedOpen ==
    ASSUME PhaseInv, NEW kind \in {"start", "pause", "resume"}, Acting(kind)
    PROVE  status \notin {"failed", "closed", "completed"}
BY DEF PhaseInv, Acting, DueDone, Open, Gate, RefusedFailed, RefusedCompleted

\* Every step keeps an identifier at one execution.
LEMMA OnceStep ==
    ASSUME TypeOK, PhaseInv, OnceInv, [Next]_vars PROVE OnceInv'
<1>1. CASE Dequeue
  BY <1>1 DEF Dequeue, Handle, OnceInv, day, history
<1>2. CASE SelectWake
  BY <1>2 DEF SelectWake, OnceInv, day, history
<1>3. CASE SelectTimer
  BY <1>3 DEF SelectTimer, OnceInv, day, history
<1>4. CASE FiredWithRequest
  BY <1>4 DEF FiredWithRequest, Handle, OnceInv, day, history
<1>5. CASE FiredRunning
  BY <1>5 DEF FiredRunning, OnceInv, PhaseInv, NoRequest, ActionKinds, LifecycleKinds, day, history
<1>6. CASE FiredCountdown
  <2>1. attempts' = attempts /\ recorded' = recorded
    BY <1>6, SystemExecutesNothingNamed DEF FiredCountdown, CompleteCountdown
  <2> QED BY <1>6, <2>1 DEF FiredCountdown, OnceInv
<1>7. CASE FiredDone
  BY <1>7 DEF FiredDone, OnceInv, day, history
<1>8. CASE AfterRequest
  BY <1>8 DEF AfterRequest, OnceInv, day, history
<1>9. CASE Replay
  BY <1>9, FinishPhase DEF Replay, OnceInv, day, history
<1>10. CASE LateCountdown
  <2>1. attempts' = attempts /\ recorded' = recorded
    BY <1>10, SystemExecutesNothingNamed DEF LateCountdown, CompleteCountdown
  <2> QED BY <1>10, <2>1 DEF LateCountdown, Replayable, CountdownLapsed, OnceInv
<1>11. CASE RefuseEnded
  BY <1>11, FinishPhase DEF RefuseEnded, OnceInv, day, history
<1>12. CASE RefuseStatus
  BY <1>12, FinishPhase DEF RefuseStatus, OnceInv, day, history
<1>13. CASE BeginDue
  BY <1>13 DEF BeginDue, Open, Gate, Replayable, OnceInv, day, history
<1>14. CASE ProcessDue
  <2>1. attempts' = attempts /\ recorded' = recorded
    BY <1>14, SystemExecutesNothingNamed DEF ProcessDue
  <2> QED BY <1>14, <2>1 DEF ProcessDue, OnceInv, loop
<1>15. CASE DueEnded
  BY <1>15, FinishPhase DEF DueEnded, OnceInv, day, history
<1>16. CASE Start
  BY <1>16, FinishPhase, ServedOpen DEF Start, OnceInv, history
<1>17. CASE Pause
  BY <1>17, FinishPhase, ServedOpen DEF Pause, OnceInv, history
<1>18. CASE Resume
  BY <1>18, FinishPhase, ServedOpen DEF Resume, OnceInv, history
<1>19. CASE StartAction
  <2>1. cur.kind \in ActionKinds /\ recorded[cur.id] = NoRecord /\ status \notin {"failed", "closed"}
    BY <1>19, UnrecordedActing, ActingOpen DEF StartAction, Acting, ActionKinds, LifecycleKinds
  <2>2. PICK d \in Dispositions :
        /\ Execute(cur, 0, d)
        /\ \E r : Finish(r)
        /\ d = "fail" => status' = "failed"
    BY <1>19 DEF StartAction, Fail
  <2>3. phase' \in {"top", "after"}
    BY <2>2, FinishPhase
  <2> QED BY <2>1, <2>2, <2>3, ExecuteOnce
<1>20. CASE Submit
  <2>1. cur.kind \in ActionKinds /\ recorded[cur.id] = NoRecord /\ status \notin {"failed", "closed"}
    BY <1>20, UnrecordedActing, ActingOpen DEF Submit, Acting, ActionKinds, LifecycleKinds
  <2>2. PICK d \in Dispositions :
        /\ Execute(cur, target, d)
        /\ \E r : Finish(r)
        /\ d = "fail" => status' = "failed"
    BY <1>20 DEF Submit, Fail
  <2>3. phase' \in {"top", "after"}
    BY <2>2, FinishPhase
  <2> QED BY <2>1, <2>2, <2>3, ExecuteOnce
<1>21. CASE PauseAction
  <2>1. cur.kind \in ActionKinds /\ recorded[cur.id] = NoRecord /\ status \notin {"failed", "closed"}
    BY <1>21, UnrecordedActing, ActingOpen DEF PauseAction, Acting, ActionKinds, LifecycleKinds
  <2>2. PICK d \in Dispositions :
        /\ Execute(cur, At, d)
        /\ \E r : Finish(r)
        /\ d = "fail" => status' = "failed"
    BY <1>21 DEF PauseAction, Fail
  <2>3. phase' \in {"top", "after"}
    BY <2>2, FinishPhase
  <2> QED BY <2>1, <2>2, <2>3, ExecuteOnce
<1>22. CASE ResumeAction
  <2>1. cur.kind \in ActionKinds /\ recorded[cur.id] = NoRecord /\ status \notin {"failed", "closed"}
    BY <1>22, UnrecordedActing, ActingOpen DEF ResumeAction, Acting, ActionKinds, LifecycleKinds
  <2>2. PICK d \in Dispositions :
        /\ Execute(cur, elapsed, d)
        /\ \E r : Finish(r)
        /\ d = "fail" => status' = "failed"
    BY <1>22 DEF ResumeAction, Fail
  <2>3. phase' \in {"top", "after"}
    BY <2>2, FinishPhase
  <2> QED BY <2>1, <2>2, <2>3, ExecuteOnce
<1>23. CASE CompleteAction
  <2>1. cur.kind \in ActionKinds /\ recorded[cur.id] = NoRecord /\ status \notin {"failed", "closed"}
    BY <1>23, UnrecordedActing, ActingOpen DEF CompleteAction, Acting, ActionKinds, LifecycleKinds
  <2>2. PICK d \in Dispositions :
        /\ Execute(cur, At, d)
        /\ \E r : Finish(r)
        /\ d = "fail" => status' = "failed"
    BY <1>23 DEF CompleteAction, Fail
  <2>3. phase' \in {"top", "after"}
    BY <2>2, FinishPhase
  <2> QED BY <2>1, <2>2, <2>3, ExecuteOnce
<1>24. CASE View
  BY <1>24, FinishPhase DEF View, OnceInv
<1>25. CASE Snapshot
  BY <1>25, FinishPhase DEF Snapshot, OnceInv, day, history
<1>26. CASE Close
  BY <1>26 DEF Close, OnceInv, history
<1>27. CASE Tick
  BY <1>27 DEF Tick, OnceInv, loop, day, history
<1>28. CASE ClientStep
  BY <1>28 DEF ClientStep, Admit, Wake, Return, OnceInv, loop, day, history
<1>29. CASE UNCHANGED vars
  BY <1>29 DEF OnceInv, vars, loop, day, history
<1> QED
  BY <1>1, <1>2, <1>3, <1>4, <1>5, <1>6, <1>7, <1>8, <1>9, <1>10, <1>11, <1>12, <1>13, <1>14,
     <1>15, <1>16, <1>17, <1>18, <1>19, <1>20, <1>21, <1>22, <1>23, <1>24, <1>25, <1>26, <1>27,
     <1>28, <1>29
     DEF Next, LoopStep

\* Whatever is retried, an identifier of a journalled day executes at most once.
THEOREM IdempotentActions == Spec => []ExecutedAtMostOnce
<1>1. Init => OnceInv
  BY DEF Init, OnceInv
<1>2. OnceInv => ExecutedAtMostOnce
  BY DEF OnceInv, ExecutedAtMostOnce
<1> QED BY <1>1, <1>2, PhasesHold, OnceStep, PTL DEF Spec

-----------------------------------------------------------------------------
(***************************************************************************)
(* The timeline of a day: time never moves back, and a participant's       *)
(* action comes after the scheduled work that was due at its receipt.      *)
(*                                                                         *)
(* Neither follows from the invariants alone that TLC checks.  A request   *)
(* executes at the logical time of its receipt, which lies in the past by  *)
(* the time it is handled, so the induction has to carry along that        *)
(* whatever still waits was received late enough: after the last action,   *)
(* and after the moment up to which due work is being processed.           *)
(***************************************************************************)

\* Receipts are ordered, and none lies in the future.
QueueInv ==
    /\ \A i, j \in 1..Len(pending) : i <= j => pending[i].received <= pending[j].received
    /\ \A i \in 1..Len(pending) : pending[i].received <= now
    /\ phase \in {"handle", "gate"} =>
         /\ cur.received <= now
         /\ \A i \in 1..Len(pending) : cur.received <= pending[i].received
    /\ firedAt <= now

\* What waits, and what is yet to come, was received at t or later.
Beyond(t) ==
    /\ t <= LogicalAt(now)
    /\ \A i \in 1..Len(pending) : t <= LogicalAt(pending[i].received)

ClockInv ==
    /\ status \in {"preparing", "countdown"} => lastAt = 0 /\ elapsed = 0
    /\ status \in {"preparing", "countdown", "paused"} =>
         /\ lastAt <= elapsed
         /\ HasCandidate => elapsed <= CandidateDue
    /\ status = "running" =>
         /\ HasCandidate => lastAt <= CandidateDue
         /\ Beyond(lastAt)
         /\ phase \in {"handle", "gate"} => lastAt <= LogicalAt(cur.received)
    /\ phase = "due" /\ status = "running" =>
         /\ Beyond(target)
         /\ cur # NoRequest => lastAt <= target

-----------------------------------------------------------------------------
(* The queue *)

\* Queued requests are requests, with a receipt time.
LEMMA PendingReceipts ==
    ASSUME TypeOK, NEW i \in 1..Len(pending)
    PROVE  pending[i] \in Requests /\ pending[i].received \in Nat
<1>1. pending \in Seq(Requests)
  BY DEF TypeOK
<1>2. pending[i] \in Requests
  BY <1>1
<1> QED BY <1>2 DEF Requests

\* Taking the oldest request shifts the others by one.
LEMMA HandleQueue ==
    ASSUME TypeOK, NEW drained, Handle(drained)
    PROVE  /\ cur' = pending[1] /\ 1 \in 1..Len(pending)
           /\ Len(pending') = Len(pending) - 1
           /\ \A i \in 1..Len(pending') : i + 1 \in 1..Len(pending) /\ pending'[i] = pending[i + 1]
BY DEF Handle, TypeOK

\* Admission appends a request received now, and moves nothing else.
LEMMA AdmitQueue ==
    ASSUME TypeOK, NEW c, NEW kind, NEW id, Admit(c, kind, id)
    PROVE  /\ Len(pending') = Len(pending) + 1
           /\ \A i \in 1..Len(pending) : pending'[i] = pending[i]
           /\ pending'[Len(pending) + 1].received = now
           /\ UNCHANGED <<now, phase, cur, firedAt, status, elapsed, anchor, nextScheduled, lastAt, target>>
BY DEF Admit, TypeOK, loop, day, history

\* Taking a request keeps receipts in order.
LEMMA QueueHandled ==
    ASSUME TypeOK, QueueInv, NEW drained, Handle(drained) PROVE QueueInv'
<1>1. now' = now /\ firedAt' = 0 /\ now \in Nat /\ Len(pending) \in Nat
  BY DEF Handle, TypeOK
<1>2. /\ cur' = pending[1] /\ 1 \in 1..Len(pending)
      /\ Len(pending') = Len(pending) - 1
      /\ \A i \in 1..Len(pending') : i + 1 \in 1..Len(pending) /\ pending'[i] = pending[i + 1]
  BY HandleQueue
<1>3. \A i, j \in 1..Len(pending') : i <= j => pending'[i].received <= pending'[j].received
  <2> TAKE i, j \in 1..Len(pending')
  <2> HAVE i <= j
  <2>1. i + 1 \in 1..Len(pending) /\ j + 1 \in 1..Len(pending) /\ i + 1 <= j + 1
    BY <1>1, <1>2
  <2>2. pending[i + 1].received <= pending[j + 1].received
    BY <2>1 DEF QueueInv
  <2> QED BY <1>2, <2>2
<1>4. \A i \in 1..Len(pending') : pending'[i].received <= now'
  BY <1>1, <1>2 DEF QueueInv
<1>5. cur'.received <= now'
  BY <1>1, <1>2 DEF QueueInv
<1>6. \A i \in 1..Len(pending') : cur'.received <= pending'[i].received
  <2> TAKE i \in 1..Len(pending')
  <2>1. i + 1 \in 1..Len(pending) /\ 1 <= i + 1
    BY <1>1, <1>2
  <2>2. pending[1].received <= pending[i + 1].received
    BY <1>2, <2>1 DEF QueueInv
  <2> QED BY <1>2, <2>2
<1> QED BY <1>1, <1>3, <1>4, <1>5, <1>6 DEF QueueInv

\* Answering a request keeps receipts in order.
LEMMA QueueFinished ==
    ASSUME TypeOK, QueueInv, NEW r, Finish(r) PROVE QueueInv'
<1>1. now' = now /\ pending' = pending /\ firedAt' = 0 /\ phase' \in {"after", "top"} /\ now \in Nat
  BY DEF Finish, Forget, TypeOK, admission
<1> QED BY <1>1 DEF QueueInv

\* Every step keeps receipts in order (the stamp under the admission mutex).
LEMMA QueueStep ==
    ASSUME TypeOK, QueueInv, [Next]_vars PROVE QueueInv'
<1>1. CASE Dequeue
  BY <1>1, QueueHandled DEF Dequeue, QueueInv, admission
<1>2. CASE SelectWake
  BY <1>2 DEF SelectWake, QueueInv
<1>3. CASE SelectTimer
  BY <1>3 DEF SelectTimer, QueueInv, TypeOK, NoTimer, admission
<1>4. CASE FiredWithRequest
  BY <1>4, QueueHandled DEF FiredWithRequest
<1>5. CASE FiredRunning
  BY <1>5 DEF FiredRunning, QueueInv, admission
<1>6. CASE FiredCountdown
  <2>1. now' = now /\ pending' = pending /\ phase' = "top" /\ firedAt' = 0
    BY <1>6 DEF FiredCountdown, Forget, admission
  <2>2. now \in Nat
    BY DEF TypeOK
  <2> QED BY <2>1, <2>2 DEF QueueInv
<1>7. CASE FiredDone
  <2>1. now' = now /\ pending' = pending /\ phase' = "top" /\ firedAt' = 0
    BY <1>7 DEF FiredDone, Forget, admission
  <2>2. now \in Nat
    BY DEF TypeOK
  <2> QED BY <2>1, <2>2 DEF QueueInv
<1>8. CASE AfterRequest
  BY <1>8 DEF AfterRequest, QueueInv, admission
<1>9. CASE Replay
  BY <1>9, QueueFinished DEF Replay
<1>10. CASE LateCountdown
  BY <1>10 DEF LateCountdown, QueueInv, admission
<1>11. CASE RefuseEnded
  BY <1>11, QueueFinished DEF RefuseEnded
<1>12. CASE RefuseStatus
  BY <1>12, QueueFinished DEF RefuseStatus
<1>13. CASE BeginDue
  BY <1>13 DEF BeginDue, QueueInv, admission
<1>14. CASE ProcessDue
  BY <1>14 DEF ProcessDue, QueueInv, admission, loop
<1>15. CASE DueEnded
  BY <1>15, QueueFinished DEF DueEnded
<1>16. CASE Start
  BY <1>16, QueueFinished DEF Start
<1>17. CASE Pause
  BY <1>17, QueueFinished DEF Pause
<1>18. CASE Resume
  BY <1>18, QueueFinished DEF Resume
<1>19. CASE StartAction
  BY <1>19, QueueFinished DEF StartAction
<1>20. CASE Submit
  BY <1>20, QueueFinished DEF Submit
<1>21. CASE PauseAction
  BY <1>21, QueueFinished DEF PauseAction
<1>22. CASE ResumeAction
  BY <1>22, QueueFinished DEF ResumeAction
<1>23. CASE CompleteAction
  BY <1>23, QueueFinished DEF CompleteAction
<1>24. CASE View
  BY <1>24, QueueFinished DEF View
<1>25. CASE Snapshot
  BY <1>25, QueueFinished DEF Snapshot
<1>26. CASE Close
  BY <1>26 DEF Close, Forget, QueueInv, TypeOK
<1>27. CASE Tick
  BY <1>27, PendingReceipts DEF Tick, QueueInv, TypeOK, Requests, NoRequest, admission, loop
<1>28. CASE ClientStep
  <2>1. ASSUME NEW c \in Clients, NEW kind \in Kinds, NEW id \in IDsFor(kind), Admit(c, kind, id)
        PROVE  QueueInv'
    <3>1. /\ Len(pending') = Len(pending) + 1 /\ Len(pending) \in Nat /\ now \in Nat
          /\ \A i \in 1..Len(pending) : pending'[i] = pending[i]
          /\ pending'[Len(pending) + 1].received = now
      BY <2>1, AdmitQueue DEF TypeOK
    <3>2. UNCHANGED <<now, phase, cur, firedAt>>
      BY <2>1, AdmitQueue
    <3>3. \A i \in 1..Len(pending') : i \in 1..Len(pending) \/ i = Len(pending) + 1
      BY <3>1
    <3>4. \A i \in 1..Len(pending') : pending'[i].received <= now
      BY <3>1, <3>3 DEF QueueInv
    <3>5. \A i, j \in 1..Len(pending') : i <= j => pending'[i].received <= pending'[j].received
      <4> TAKE i, j \in 1..Len(pending')
      <4> HAVE i <= j
      <4>1. CASE j = Len(pending) + 1
        BY <3>1, <3>4, <4>1
      <4>2. CASE j \in 1..Len(pending)
        <5>1. i \in 1..Len(pending)
          BY <3>1, <4>2
        <5> QED BY <3>1, <4>2, <5>1 DEF QueueInv
      <4> QED BY <3>3, <4>1, <4>2
    <3>6. phase' \in {"handle", "gate"} =>
            cur'.received <= now' /\ \A i \in 1..Len(pending') : cur'.received <= pending'[i].received
      BY <3>1, <3>2, <3>3 DEF QueueInv
    <3> QED BY <3>2, <3>4, <3>5, <3>6 DEF QueueInv
  <2>2. ASSUME NEW c \in Clients, Wake(c) \/ Return(c) PROVE QueueInv'
    BY <2>2 DEF Wake, Return, QueueInv, loop
  <2> QED BY <1>28, <2>1, <2>2 DEF ClientStep
<1>29. CASE UNCHANGED vars
  BY <1>29 DEF QueueInv, vars, admission, loop
<1> QED
  BY <1>1, <1>2, <1>3, <1>4, <1>5, <1>6, <1>7, <1>8, <1>9, <1>10, <1>11, <1>12, <1>13, <1>14,
     <1>15, <1>16, <1>17, <1>18, <1>19, <1>20, <1>21, <1>22, <1>23, <1>24, <1>25, <1>26, <1>27,
     <1>28, <1>29
     DEF Next, LoopStep

-----------------------------------------------------------------------------
(* When the handler's actions run *)

\* Due work is done and the day still runs: nothing that is left is due by the
\* target, and the request is not earlier than what was executed.
DueWorkDone ==
    /\ phase = "due" /\ status = "running" /\ cur # NoRequest
    /\ HasCandidate => target < CandidateDue

\* Whatever acts while the day runs comes after the due work.
LEMMA ActingAfterDue ==
    ASSUME TypeOK, NEW kind, kind # "none", Acting(kind), DueDone, status = "running"
    PROVE  DueWorkDone
<1>1. HasCandidate => CandidateDue \in Nat
  BY CandidateDueNat
<1> QED BY <1>1 DEF Acting, DueDone, DueBy, DueWorkDone, NoRequest, TypeOK

\* submit and pause act only on a running day, after its due work.
LEMMA ActingSubmit ==
    ASSUME TypeOK, PhaseInv, NEW kind \in {"submit", "pause"}, Acting(kind) PROVE DueWorkDone
<1>1. DueDone /\ status = "running"
  BY DEF Acting, Open, Served, DueFirst
<1> QED BY <1>1, ActingAfterDue

\* Only a prepared day is started.
LEMMA ActingStart ==
    ASSUME TypeOK, PhaseInv, NEW kind \in {"start", "startAction"}, Acting(kind) PROVE status = "preparing"
BY DEF Acting, DueDone, PhaseInv, Open, Served, DueFirst, NoRequest

\* Only a paused day is resumed.
LEMMA ActingResume ==
    ASSUME TypeOK, PhaseInv, NEW kind \in {"resume", "resumeAction"}, Acting(kind) PROVE status = "paused"
BY DEF Acting, DueDone, PhaseInv, Open, Served, DueFirst, NoRequest

\* A pause acts at the target of a running day, or on a countdown.
LEMMA ActingPause ==
    ASSUME TypeOK, PhaseInv, Acting("pauseAction")
    PROVE  \/ DueWorkDone /\ At = target
           \/ status = "countdown" /\ At = elapsed
<1>1. CASE DueDone /\ status = "running"
  BY <1>1, ActingAfterDue DEF At, DueWorkDone
<1>2. CASE Open /\ status # "running"
  BY <1>2 DEF Acting, Open, Served, At, Gate
<1> QED BY <1>1, <1>2 DEF Acting, DueFirst

\* A completion acts at the target of a running day, or where a day stands.
LEMMA ActingComplete ==
    ASSUME TypeOK, PhaseInv, Acting("completeAction")
    PROVE  \/ DueWorkDone /\ At = target
           \/ status \in {"preparing", "countdown", "paused"} /\ At = elapsed
<1>1. CASE DueDone /\ status = "running"
  BY <1>1, ActingAfterDue DEF At, DueWorkDone
<1>2. CASE Open /\ status # "running"
  BY <1>2 DEF Acting, Open, Served, At, Gate
<1> QED BY <1>1, <1>2 DEF Acting, DueFirst

-----------------------------------------------------------------------------
(* The clock: what the steps of the loop have in common *)

\* Logical time is a natural number.
LEMMA LogicalAtNat ==
    ASSUME TypeOK, NEW at \in Nat PROVE LogicalAt(at) \in Nat
BY LogicalFromNat DEF LogicalAt, TypeOK

\* Logical time follows the clock (logicalAt).
LEMMA LogicalAtMonotone ==
    ASSUME TypeOK, NEW at \in Nat, NEW later \in Nat, at <= later
    PROVE  LogicalAt(at) <= LogicalAt(later)
BY LogicalFromMonotone DEF LogicalAt, TypeOK

\* A step that moves neither the day nor the queue, and handles no request.
LEMMA ClockKept ==
    ASSUME ClockInv, UNCHANGED <<status, elapsed, anchor, nextScheduled, lastAt, now, pending>>,
           \/ phase' \notin {"handle", "gate", "due"}
           \/ UNCHANGED <<phase, cur, target>>
    PROVE  ClockInv'
BY DEF ClockInv, Beyond, LogicalAt, HasCandidate, CandidateDue

\* An answer that moves nothing of the day.
LEMMA ClockAnswered ==
    ASSUME ClockInv, UNCHANGED <<status, elapsed, anchor, nextScheduled, lastAt>>, NEW r, Finish(r)
    PROVE  ClockInv'
<1>1. UNCHANGED <<now, pending>> /\ phase' \in {"after", "top"}
  BY DEF Finish, admission
<1> QED BY <1>1, ClockKept

\* Nothing is asked of an ended day.
LEMMA ClockEnded ==
    ASSUME status' \in {"completed", "failed", "closed"} PROVE ClockInv'
BY DEF ClockInv

\* A day that stands still: its time covers what was executed, and nothing of
\* the schedule lies before it.
LEMMA ClockStands ==
    ASSUME lastAt' <= elapsed', HasCandidate' => elapsed' <= CandidateDue',
           \/ status' = "paused"
           \/ status' \in {"preparing", "countdown"} /\ lastAt' = 0 /\ elapsed' = 0
    PROVE  ClockInv'
BY DEF ClockInv

\* A day that starts to run from the time at which it stood.
LEMMA ClockStarts ==
    ASSUME TypeOK, TypeOK', lastAt' <= elapsed', HasCandidate' => lastAt' <= CandidateDue',
           status' = "running", phase' # "due"
    PROVE  ClockInv'
<1>0. /\ elapsed' \in Nat /\ anchor' \in Nat /\ now' \in Nat /\ lastAt' \in Nat
      /\ \A i \in 1..Len(pending') : pending'[i].received \in Nat
  <2>1. pending' \in Seq(Requests)
    BY DEF TypeOK
  <2>2. \A i \in 1..Len(pending') : pending'[i] \in Requests
    BY <2>1
  <2>3. \A i \in 1..Len(pending') : pending'[i].received \in Nat
    BY <2>2 DEF Requests
  <2> QED BY <2>3 DEF TypeOK
<1>1. \A at \in Nat : LogicalFrom(status', elapsed', anchor', at) \in Nat
                      /\ elapsed' <= LogicalFrom(status', elapsed', anchor', at)
  BY <1>0, LogicalFromNat
<1>2. cur'.received \in Nat
  <2>1. cur' \in Requests \cup {NoRequest}
    BY DEF TypeOK
  <2> QED BY <2>1 DEF Requests, NoRequest
<1>3. \A at \in Nat : lastAt' <= LogicalFrom(status', elapsed', anchor', at)
  BY <1>0, <1>1
<1> QED BY <1>0, <1>2, <1>3 DEF ClockInv, Beyond, LogicalAt

\* The next request was received no earlier than the last action executed.
LEMMA ClockHandled ==
    ASSUME TypeOK, ClockInv, NEW drained, Handle(drained) PROVE ClockInv'
<1>1. UNCHANGED <<status, elapsed, anchor, nextScheduled, lastAt, now>> /\ phase' = "handle"
  BY DEF Handle, day, history
<1>2. /\ cur' = pending[1] /\ 1 \in 1..Len(pending)
      /\ \A i \in 1..Len(pending') : i + 1 \in 1..Len(pending) /\ pending'[i] = pending[i + 1]
  BY HandleQueue
<1> QED BY <1>1, <1>2 DEF ClockInv, Beyond, LogicalAt, HasCandidate, CandidateDue

\* Due work is done and the target is executed: the day runs on from there.
LEMMA ClockExecuted ==
    ASSUME TypeOK, ClockInv, DueWorkDone, lastAt' = target,
           UNCHANGED <<status, elapsed, anchor, nextScheduled>>, NEW r, Finish(r)
    PROVE  ClockInv'
<1>1. UNCHANGED <<now, pending>> /\ phase' \in {"after", "top"}
  BY DEF Finish, admission
<1>2. HasCandidate => CandidateDue \in Nat
  BY CandidateDueNat
<1>3. target \in Nat
  BY DEF TypeOK
<1>4. status' = "running" /\ (HasCandidate' => lastAt' <= CandidateDue')
  BY <1>2, <1>3 DEF DueWorkDone, HasCandidate, CandidateDue
<1>5. Beyond(lastAt)'
  BY <1>1 DEF ClockInv, DueWorkDone, Beyond, LogicalAt
<1> QED BY <1>1, <1>4, <1>5 DEF ClockInv

\* What lies between the last action and the target.
LEMMA TargetCovers ==
    ASSUME TypeOK, ClockInv, DueWorkDone
    PROVE  lastAt <= target /\ (HasCandidate => target <= CandidateDue)
<1>1. HasCandidate => CandidateDue \in Nat
  BY CandidateDueNat
<1> QED BY <1>1 DEF ClockInv, DueWorkDone, TypeOK

\* A day that comes out of its countdown starts at zero.
LEMMA ClockCountdown ==
    ASSUME TypeOK, TypeOK', ClockInv, status = "countdown", CompleteCountdown, phase' # "due"
    PROVE  ClockInv'
<1>1. CASE status' = "failed"
  BY <1>1, ClockEnded
<1>2. CASE status' = "running"
  <2>1. UNCHANGED <<elapsed, nextScheduled>> /\ lastAt' = 0
    BY <1>2 DEF CompleteCountdown, Execute, Fail
  <2>2. elapsed' = 0
    BY <2>1 DEF ClockInv
  <2>3. HasCandidate => CandidateDue \in Nat
    BY CandidateDueNat
  <2>4. HasCandidate' => 0 <= CandidateDue'
    BY <2>1, <2>3 DEF HasCandidate, CandidateDue
  <2> QED BY <1>2, <2>1, <2>2, <2>4, ClockStarts
<1> QED BY <1>1, <1>2, CountdownEnding

-----------------------------------------------------------------------------
(* The clock: every step *)

\* Every step keeps what waits beyond what was executed.
LEMMA ClockStep ==
    ASSUME TypeOK, TypeOK', PhaseInv, QueueInv, ClockInv, [Next]_vars PROVE ClockInv'
<1>nat. /\ now \in Nat /\ firedAt \in Nat /\ target \in Nat /\ elapsed \in Nat /\ lastAt \in Nat
        /\ cur.received \in Nat
  <2>1. cur \in Requests \cup {NoRequest}
    BY DEF TypeOK
  <2>2. cur.received \in Nat
    BY <2>1 DEF Requests, NoRequest
  <2> QED BY <2>2 DEF TypeOK
<1>due. HasCandidate => CandidateDue \in Nat
  BY CandidateDueNat
<1>1. CASE Dequeue
  <2>1. CASE Handle(FALSE)
    BY <2>1, ClockHandled
  <2>2. CASE ~Handle(FALSE)
    BY <1>1, <2>2, ClockKept DEF Dequeue, admission, day, history
  <2> QED BY <2>1, <2>2
<1>2. CASE SelectWake
  BY <1>2, ClockKept DEF SelectWake, day, history
<1>3. CASE SelectTimer
  BY <1>3, ClockKept DEF SelectTimer, admission, history
<1>4. CASE FiredWithRequest
  BY <1>4, ClockHandled DEF FiredWithRequest
<1>5. CASE FiredRunning
  <2>1. /\ pending = <<>> /\ status = "running" /\ phase' = "due" /\ target' = LogicalAt(firedAt)
        /\ UNCHANGED <<now, pending, cur, status, elapsed, anchor, nextScheduled, lastAt>>
        /\ cur = NoRequest
    BY <1>5 DEF FiredRunning, admission, day, history, PhaseInv
  <2>2. LogicalAt(firedAt) <= LogicalAt(now)
    BY <1>nat, LogicalAtMonotone DEF QueueInv
  <2>3. Beyond(target)'
    BY <2>1, <2>2 DEF Beyond, LogicalAt
  <2>4. /\ HasCandidate' => lastAt' <= CandidateDue'
        /\ Beyond(lastAt)'
    BY <2>1 DEF ClockInv, Beyond, LogicalAt, HasCandidate, CandidateDue
  <2> QED BY <2>1, <2>3, <2>4 DEF ClockInv
<1>6. CASE FiredCountdown
  BY <1>6, ClockCountdown DEF FiredCountdown
<1>7. CASE FiredDone
  BY <1>7, ClockKept DEF FiredDone, admission, history
<1>8. CASE AfterRequest
  BY <1>8, ClockKept DEF AfterRequest, admission, history
<1>9. CASE Replay
  BY <1>9, ClockAnswered DEF Replay, day, history
<1>10. CASE LateCountdown
  BY <1>10, ClockCountdown DEF LateCountdown, CountdownLapsed
<1>11. CASE RefuseEnded
  BY <1>11, ClockAnswered DEF RefuseEnded, day, history
<1>12. CASE RefuseStatus
  BY <1>12, ClockAnswered DEF RefuseStatus, day, history
<1>13. CASE BeginDue
  <2>1. /\ phase \in {"handle", "gate"} /\ status = "running" /\ phase' = "due"
        /\ target' = LogicalAt(cur.received)
        /\ UNCHANGED <<now, pending, cur, status, elapsed, anchor, nextScheduled, lastAt>>
    BY <1>13, HandlingPhase DEF BeginDue, admission, day, history
  <2>2. LogicalAt(cur.received) <= LogicalAt(now)
    BY <1>nat, <2>1, LogicalAtMonotone DEF QueueInv
  <2>3. \A i \in 1..Len(pending) : LogicalAt(cur.received) <= LogicalAt(pending[i].received)
    BY <1>nat, <2>1, LogicalAtMonotone, PendingReceipts DEF QueueInv
  <2>4. Beyond(target)'
    BY <2>1, <2>2, <2>3 DEF Beyond, LogicalAt
  <2>5. /\ HasCandidate' => lastAt' <= CandidateDue'
        /\ Beyond(lastAt)'
        /\ lastAt' <= target'
    BY <2>1 DEF ClockInv, Beyond, LogicalAt, HasCandidate, CandidateDue
  <2> QED BY <2>1, <2>4, <2>5 DEF ClockInv
<1>14. CASE ProcessDue
  <2>1. /\ phase = "due" /\ status = "running" /\ HasCandidate /\ CandidateDue <= target
        /\ lastAt' = CandidateDue /\ UNCHANGED <<now, pending, phase, cur, target>>
    BY <1>14 DEF ProcessDue, DueBy, Execute, admission, loop
  <2>2. \/ status' \in {"completed", "failed"}
        \/ UNCHANGED <<status, elapsed, anchor>> /\ nextScheduled' = nextScheduled + 1
    BY <1>14 DEF ProcessDue, Fail
  <2>3. CASE UNCHANGED <<status, elapsed, anchor>> /\ nextScheduled' = nextScheduled + 1
    <3>1. HasCandidate' => lastAt' <= CandidateDue'
      <4>1. nextScheduled \in Nat /\ nextScheduled < Len(Dues)
        BY <2>1 DEF TypeOK, HasCandidate
      <4>2. nextScheduled + 1 < Len(Dues) => Dues[nextScheduled + 1] <= Dues[nextScheduled + 2]
        BY <4>1, ScheduleHead
      <4>3. (nextScheduled + 1) + 1 = nextScheduled + 2
        BY <4>1
      <4> QED BY <2>1, <2>3, <4>2, <4>3 DEF HasCandidate, CandidateDue
    <3>2. Beyond(target)'
      BY <2>1, <2>3 DEF ClockInv, Beyond, LogicalAt
    <3>3. Beyond(lastAt)'
      <4>1. CandidateDue <= LogicalAt(now)
        BY <1>nat, <1>due, <2>1, LogicalAtNat DEF ClockInv, Beyond
      <4>2. \A i \in 1..Len(pending) : CandidateDue <= LogicalAt(pending[i].received)
        <5> TAKE i \in 1..Len(pending)
        <5>1. pending[i].received \in Nat
          BY PendingReceipts
        <5>2. LogicalAt(pending[i].received) \in Nat
          BY <5>1, LogicalAtNat
        <5> QED BY <1>nat, <1>due, <2>1, <5>2 DEF ClockInv, Beyond
      <4> QED BY <2>1, <2>3, <4>1, <4>2 DEF Beyond, LogicalAt
    <3> QED BY <2>1, <2>3, <3>1, <3>2, <3>3 DEF ClockInv
  <2> QED BY <2>2, <2>3, ClockEnded
<1>15. CASE DueEnded
  BY <1>15, ClockAnswered DEF DueEnded, day, history
<1>16. CASE Start
  <2>1. /\ status' = "running" /\ elapsed' = 0 /\ phase' \in {"after", "top"}
        /\ UNCHANGED <<lastAt, nextScheduled>>
    BY <1>16, FinishPhase DEF Start, history
  <2>2. status = "preparing"
    BY <1>16, ActingStart DEF Start
  <2>3. lastAt' = 0
    BY <2>1, <2>2 DEF ClockInv
  <2>4. HasCandidate' => 0 <= CandidateDue'
    BY <1>due, <2>1 DEF HasCandidate, CandidateDue
  <2> QED BY <2>1, <2>3, <2>4, ClockStarts
<1>17. CASE Pause
  <2>1. status' = "paused" /\ elapsed' = target /\ UNCHANGED <<lastAt, nextScheduled>>
    BY <1>17 DEF Pause, history
  <2>2. lastAt <= target /\ (HasCandidate => target <= CandidateDue)
    BY <1>17, ActingSubmit, TargetCovers DEF Pause
  <2>3. HasCandidate' => elapsed' <= CandidateDue'
    BY <2>1, <2>2 DEF HasCandidate, CandidateDue
  <2> QED BY <2>1, <2>2, <2>3, ClockStands
<1>18. CASE Resume
  <2>1. /\ status' = "running" /\ phase' \in {"after", "top"}
        /\ UNCHANGED <<elapsed, lastAt, nextScheduled>>
    BY <1>18, FinishPhase DEF Resume, history
  <2>2. status = "paused"
    BY <1>18, ActingResume DEF Resume
  <2>3. lastAt <= elapsed /\ (HasCandidate => lastAt <= CandidateDue)
    BY <1>nat, <1>due, <2>2 DEF ClockInv
  <2>4. HasCandidate' => lastAt' <= CandidateDue'
    BY <2>1, <2>3 DEF HasCandidate, CandidateDue
  <2> QED BY <2>1, <2>3, <2>4, ClockStarts
<1>19. CASE StartAction
  <2>1. status = "preparing" /\ lastAt' = 0
    BY <1>19, ActingStart DEF StartAction, Execute
  <2>2. elapsed = 0
    BY <2>1 DEF ClockInv
  <2>3. \/ status' = "failed"
        \/ status' \in {"preparing", "countdown"} /\ elapsed' = 0 /\ UNCHANGED nextScheduled
    BY <1>19, <2>1, <2>2 DEF StartAction, Fail, day
  <2>4. CASE status' \in {"preparing", "countdown"} /\ elapsed' = 0 /\ UNCHANGED nextScheduled
    <3>1. HasCandidate' => 0 <= CandidateDue'
      BY <1>due, <2>4 DEF HasCandidate, CandidateDue
    <3> QED BY <2>1, <2>4, <3>1, ClockStands
  <2> QED BY <2>3, <2>4, ClockEnded
<1>20. CASE Submit
  <2>1. DueWorkDone /\ lastAt' = target
    BY <1>20, ActingSubmit DEF Submit, Execute
  <2>2. \/ status' \in {"completed", "failed"}
        \/ /\ UNCHANGED <<status, elapsed, anchor, nextScheduled>>
           /\ \E r \in {"ok", "rejected"} : Finish(r)
    BY <1>20 DEF Submit, Fail
  <2> QED BY <2>1, <2>2, ClockEnded, ClockExecuted
<1>21. CASE PauseAction
  <2>1. lastAt' = At
    BY <1>21 DEF PauseAction, Execute
  <2>2. \/ status' = "failed"
        \/ status' = "paused" /\ elapsed' = At /\ UNCHANGED nextScheduled
    BY <1>21 DEF PauseAction, Fail
  <2>3. HasCandidate => At <= CandidateDue
    BY <1>21, ActingPause, TargetCovers DEF PauseAction, ClockInv
  <2>4. At \in Nat
    BY <1>nat DEF At
  <2>5. CASE status' = "paused" /\ elapsed' = At /\ UNCHANGED nextScheduled
    <3>1. HasCandidate' => elapsed' <= CandidateDue'
      BY <2>3, <2>5 DEF HasCandidate, CandidateDue
    <3> QED BY <2>1, <2>4, <2>5, <3>1, ClockStands
  <2> QED BY <2>2, <2>5, ClockEnded
<1>22. CASE ResumeAction
  <2>1. status = "paused" /\ lastAt' = elapsed /\ phase' \in {"after", "top"}
    BY <1>22, ActingResume, FinishPhase DEF ResumeAction, Execute
  <2>2. \/ status' = "failed"
        \/ status' = "running" /\ UNCHANGED <<elapsed, nextScheduled>>
    BY <1>22 DEF ResumeAction, Fail
  <2>3. CASE status' = "running" /\ UNCHANGED <<elapsed, nextScheduled>>
    <3>1. HasCandidate' => lastAt' <= CandidateDue'
      BY <2>1, <2>3 DEF ClockInv, HasCandidate, CandidateDue
    <3> QED BY <1>nat, <2>1, <2>3, <3>1, ClockStarts
  <2> QED BY <2>2, <2>3, ClockEnded
<1>23. CASE CompleteAction
  <2>1. lastAt' = At
    BY <1>23 DEF CompleteAction, Execute
  <2>2. \/ status' \in {"completed", "failed"}
        \/ UNCHANGED <<status, elapsed, anchor, nextScheduled>> /\ Finish("rejected")
    BY <1>23 DEF CompleteAction, Fail
  <2>3. \/ DueWorkDone /\ At = target
        \/ status \in {"preparing", "countdown", "paused"} /\ At = elapsed
    BY <1>23, ActingComplete DEF CompleteAction
  <2>4. CASE UNCHANGED <<status, elapsed, anchor, nextScheduled>> /\ Finish("rejected")
    <3>1. CASE DueWorkDone /\ At = target
      BY <2>1, <2>4, <3>1, ClockExecuted
    <3>2. CASE status \in {"preparing", "countdown", "paused"} /\ At = elapsed
      <4>1. HasCandidate' => elapsed' <= CandidateDue'
        BY <2>4, <3>2 DEF ClockInv, HasCandidate, CandidateDue
      <4>2. status \in {"preparing", "countdown"} => elapsed = 0
        BY DEF ClockInv
      <4> QED BY <1>nat, <2>1, <2>4, <3>2, <4>1, <4>2, ClockStands
    <3> QED BY <2>3, <3>1, <3>2
  <2> QED BY <2>2, <2>4, ClockEnded
<1>24. CASE View
  BY <1>24, ClockAnswered DEF View
<1>25. CASE Snapshot
  BY <1>25, ClockAnswered DEF Snapshot, day, history
<1>26. CASE Close
  BY <1>26, ClockEnded DEF Close
<1>27. CASE Tick
  <2>1. /\ now' = now + 1
        /\ UNCHANGED <<pending, phase, cur, target, status, elapsed, anchor, nextScheduled, lastAt>>
    BY <1>27 DEF Tick, admission, loop, day, history
  <2>2. LogicalAt(now) <= LogicalAt(now + 1) /\ LogicalAt(now) \in Nat /\ LogicalAt(now + 1) \in Nat
    BY <1>nat, LogicalAtMonotone, LogicalAtNat
  <2>3. \A t \in Nat : Beyond(t) => t <= LogicalAt(now + 1)
    BY <2>2 DEF Beyond
  <2>4. /\ status = "running" => lastAt <= LogicalAt(now + 1)
        /\ phase = "due" /\ status = "running" => target <= LogicalAt(now + 1)
    BY <1>nat, <2>3 DEF ClockInv
  <2> QED BY <2>1, <2>4 DEF ClockInv, Beyond, LogicalAt, HasCandidate, CandidateDue
<1>28. CASE ClientStep
  <2>1. ASSUME NEW c \in Clients, NEW kind \in Kinds, NEW id \in IDsFor(kind), Admit(c, kind, id)
        PROVE  ClockInv'
    <3>1. /\ Len(pending') = Len(pending) + 1
          /\ \A i \in 1..Len(pending) : pending'[i] = pending[i]
          /\ pending'[Len(pending) + 1].received = now
          /\ UNCHANGED <<now, phase, cur, target, status, elapsed, anchor, nextScheduled, lastAt>>
      BY <2>1, AdmitQueue
    <3>2. Len(pending) \in Nat
      BY DEF TypeOK
    <3>3. \A i \in 1..Len(pending') : i \in 1..Len(pending) \/ i = Len(pending) + 1
      BY <3>1, <3>2
    <3>4. /\ status = "running" => Beyond(lastAt)'
          /\ phase = "due" /\ status = "running" => Beyond(target)'
      BY <3>1, <3>3 DEF ClockInv, Beyond, LogicalAt
    <3> QED BY <3>1, <3>4 DEF ClockInv, LogicalAt, HasCandidate, CandidateDue
  <2>2. ASSUME NEW c \in Clients, Wake(c) \/ Return(c) PROVE ClockInv'
    BY <2>2, ClockKept DEF Wake, Return, loop, day, history
  <2> QED BY <1>28, <2>1, <2>2 DEF ClientStep
<1>29. CASE UNCHANGED vars
  BY <1>29, ClockKept DEF vars, admission, loop, day, history
<1> QED
  BY <1>1, <1>2, <1>3, <1>4, <1>5, <1>6, <1>7, <1>8, <1>9, <1>10, <1>11, <1>12, <1>13, <1>14,
     <1>15, <1>16, <1>17, <1>18, <1>19, <1>20, <1>21, <1>22, <1>23, <1>24, <1>25, <1>26, <1>27,
     <1>28, <1>29
     DEF Next, LoopStep

\* A valid checkpoint has executed nothing beyond its time, and nothing of
\* its schedule lies before it.
LEMMA ClockInit == Init => QueueInv /\ ClockInv
<1> SUFFICES ASSUME Init PROVE QueueInv /\ ClockInv
  OBVIOUS
<1>1. PICK c \in Checkpoints :
        /\ status = c.status /\ elapsed = c.elapsed /\ nextScheduled = c.nextScheduled
        /\ lastAt = c.elapsed /\ now = 0 /\ firedAt = 0 /\ pending = <<>> /\ phase = "top"
  BY DEF Init
<1>2. /\ c.status \in {"preparing", "paused", "completed"} /\ c.elapsed \in Nat
      /\ c.nextScheduled \in 0..Len(Dues)
      /\ c.status = "preparing" => c.elapsed = 0
      /\ \A k \in 1..Len(Dues) : k > c.nextScheduled => Dues[k] >= c.elapsed
  BY ConstantsAssumption DEF ConstantsAssumption, ValidCheckpoint
<1>3. QueueInv
  BY <1>1 DEF QueueInv
<1>4. HasCandidate => elapsed <= CandidateDue
  <2> HAVE HasCandidate
  <2>1. nextScheduled + 1 \in 1..Len(Dues) /\ nextScheduled + 1 > c.nextScheduled
    BY <1>1, <1>2, ConstantsAssumption DEF HasCandidate, ConstantsAssumption
  <2>2. Dues[nextScheduled + 1] \in Nat
    BY <2>1, ConstantsAssumption DEF ConstantsAssumption
  <2>3. Dues[nextScheduled + 1] >= c.elapsed
    BY <1>2, <2>1
  <2> QED BY <1>1, <1>2, <2>2, <2>3 DEF CandidateDue
<1>5. lastAt <= elapsed /\ (status = "preparing" => lastAt = 0 /\ elapsed = 0)
      /\ status \in {"preparing", "paused", "completed"} /\ phase = "top"
  BY <1>1, <1>2
<1> QED BY <1>3, <1>4, <1>5 DEF ClockInv

\* The strengthened invariant of the timeline.
LEMMA ClockHolds == Spec => [](TypeOK /\ PhaseInv /\ QueueInv /\ ClockInv)
<1>1. TypeOK /\ TypeOK' /\ PhaseInv /\ QueueInv /\ ClockInv /\ [Next]_vars => QueueInv' /\ ClockInv'
  BY QueueStep, ClockStep
<1> QED BY <1>1, PhasesHold, ClockInit, PTL DEF Spec

-----------------------------------------------------------------------------
(* The theorems *)

\* The steps that execute an action, and when they do.
ExecutedAt ==
    \/ UNCHANGED <<lastAt, attempts>>
    \/ status \in {"preparing", "countdown"} /\ lastAt' = 0
    \/ status = "running" /\ HasCandidate /\ lastAt' = CandidateDue /\ UNCHANGED attempts
    \/ DueWorkDone /\ lastAt' = target
    \/ status \in {"countdown", "paused", "preparing"} /\ lastAt' = elapsed

\* Every step executes nothing, or executes at one of the times of ExecutedAt.
LEMMA ExecutionTimes ==
    ASSUME TypeOK, PhaseInv, ClockInv, [Next]_vars PROVE ExecutedAt
<1>1. ASSUME CompleteCountdown PROVE lastAt' = 0
  BY <1>1 DEF CompleteCountdown, Execute
<1>2. CASE FiredCountdown \/ LateCountdown
  BY <1>1, <1>2 DEF FiredCountdown, LateCountdown, CountdownLapsed, ExecutedAt
<1>3. CASE ProcessDue
  <2>1. PICK d \in Dispositions : Execute(NoRequest, CandidateDue, d)
    BY <1>3 DEF ProcessDue
  <2> QED BY <1>3, <2>1, SystemExecutesNothingNamed DEF ProcessDue, DueBy, Execute, ExecutedAt
<1>4. CASE StartAction
  BY <1>4, ActingStart DEF StartAction, Execute, ExecutedAt
<1>5. CASE Submit
  BY <1>5, ActingSubmit DEF Submit, Execute, ExecutedAt
<1>6. CASE PauseAction
  BY <1>6, ActingPause DEF PauseAction, Execute, ExecutedAt
<1>7. CASE ResumeAction
  BY <1>7, ActingResume DEF ResumeAction, Execute, ExecutedAt
<1>8. CASE CompleteAction
  BY <1>8, ActingComplete DEF CompleteAction, Execute, ExecutedAt
<1>9. ASSUME NEW drained, Handle(drained) PROVE ExecutedAt
  BY <1>9 DEF Handle, history, ExecutedAt
<1>10. CASE Dequeue \/ SelectWake \/ SelectTimer \/ FiredWithRequest \/ FiredRunning \/ FiredDone
            \/ AfterRequest
  BY <1>9, <1>10
     DEF Dequeue, SelectWake, SelectTimer, FiredWithRequest, FiredRunning, FiredDone, AfterRequest,
         history, ExecutedAt
<1>11. CASE Replay \/ RefuseEnded \/ RefuseStatus \/ BeginDue \/ DueEnded \/ Start \/ Pause
            \/ Resume \/ View \/ Snapshot \/ Close
  BY <1>11
     DEF Replay, RefuseEnded, RefuseStatus, BeginDue, DueEnded, Start, Pause, Resume, View, Snapshot,
         Close, history, ExecutedAt
<1>12. CASE Tick \/ ClientStep \/ UNCHANGED vars
  BY <1>12 DEF Tick, ClientStep, Admit, Wake, Return, vars, history, ExecutedAt
<1> QED
  BY <1>2, <1>3, <1>4, <1>5, <1>6, <1>7, <1>8, <1>10, <1>11, <1>12 DEF Next, LoopStep

\* No step executes at an earlier time than the step before it.
LEMMA TimelineStep ==
    ASSUME TypeOK, PhaseInv, ClockInv, [Next]_vars PROVE lastAt' >= lastAt
<1>1. lastAt \in Nat /\ elapsed \in Nat /\ target \in Nat
  BY DEF TypeOK
<1>2. CASE status \in {"preparing", "countdown"} /\ lastAt' = 0
  BY <1>1, <1>2 DEF ClockInv
<1>3. CASE status = "running" /\ HasCandidate /\ lastAt' = CandidateDue
  BY <1>1, <1>3, CandidateDueNat DEF ClockInv
<1>4. CASE DueWorkDone /\ lastAt' = target
  BY <1>1, <1>4, TargetCovers
<1>5. CASE status \in {"countdown", "paused", "preparing"} /\ lastAt' = elapsed
  BY <1>1, <1>5 DEF ClockInv
<1>6. CASE UNCHANGED lastAt
  BY <1>1, <1>6
<1> QED BY <1>2, <1>3, <1>4, <1>5, <1>6, ExecutionTimes DEF ExecutedAt

\* No participant action executes while scheduled work is due by its time.
LEMMA ParticipantStep ==
    ASSUME TypeOK, PhaseInv, ClockInv, [Next]_vars,
           status = "running", \E id \in ActionIDs : attempts'[id] # attempts[id]
    PROVE  ~(HasCandidate /\ CandidateDue <= lastAt')
<1>1. DueWorkDone /\ lastAt' = target
  BY ExecutionTimes DEF ExecutedAt
<1>2. HasCandidate => CandidateDue \in Nat /\ target \in Nat
  BY CandidateDueNat DEF TypeOK
<1> QED BY <1>1, <1>2 DEF DueWorkDone

\* Whatever clients, timers, pauses and resumes do, and however late a request
\* is handled, an action never executes at an earlier logical time than the one
\* before it.
THEOREM TimelineNeverMovesBack == Spec => TimelineMonotone
<1>1. (TypeOK /\ PhaseInv /\ QueueInv /\ ClockInv) /\ [Next]_vars => [lastAt' >= lastAt]_vars
  BY TimelineStep
<1> QED BY <1>1, ClockHolds, PTL DEF Spec, TimelineMonotone

\* While the day runs, a participant's action never overtakes scheduled work
\* that was due when the action was received.
THEOREM ParticipantsNeverOvertake == Spec => DueBeforeParticipant
<1>1. (TypeOK /\ PhaseInv /\ QueueInv /\ ClockInv) /\ [Next]_vars
        => [(status = "running" /\ \E id \in ActionIDs : attempts'[id] # attempts[id])
              => ~(HasCandidate /\ CandidateDue <= lastAt')]_vars
  BY ParticipantStep
<1> QED BY <1>1, ClockHolds, PTL DEF Spec, DueBeforeParticipant

-----------------------------------------------------------------------------
(***************************************************************************)
(* The lifecycle of a day: an ended day stays as it ended, and a countdown *)
(* is never left without the timer that ends it.                           *)
(***************************************************************************)

-----------------------------------------------------------------------------
(* Ended days *)

Ended == {"completed", "failed", "closed"}

\* No step executes anything once the day has ended: what acts needs a day
\* that is prepared, counting down, running or paused.
LEMMA EndedStep ==
    ASSUME TypeOK, PhaseInv, [Next]_vars, status \in Ended
    PROVE  status' \in {status, "closed"} /\ UNCHANGED <<elapsed, nextScheduled, sequence>>
<1>handle. ASSUME NEW drained, Handle(drained)
           PROVE  UNCHANGED <<status, elapsed, nextScheduled, sequence>>
  BY <1>handle DEF Handle, day, history
<1>1. CASE Dequeue \/ SelectWake \/ SelectTimer \/ FiredWithRequest \/ FiredRunning \/ FiredDone
           \/ AfterRequest
  BY <1>1, <1>handle
     DEF Dequeue, SelectWake, SelectTimer, FiredWithRequest, FiredRunning, FiredDone, AfterRequest,
         day, history
<1>2. CASE Replay \/ RefuseEnded \/ RefuseStatus \/ BeginDue \/ DueEnded \/ View \/ Snapshot
  BY <1>2 DEF Replay, RefuseEnded, RefuseStatus, BeginDue, DueEnded, View, Snapshot, day, history
<1>3. CASE FiredCountdown \/ LateCountdown \/ ProcessDue
  BY <1>3 DEF FiredCountdown, LateCountdown, CountdownLapsed, ProcessDue, Ended
<1>4. CASE Start \/ StartAction
  BY <1>4, ActingStart DEF Start, StartAction, Ended
<1>5. CASE Resume \/ ResumeAction
  BY <1>5, ActingResume DEF Resume, ResumeAction, Ended
<1>6. CASE Pause \/ Submit
  BY <1>6, ActingSubmit DEF Pause, Submit, DueWorkDone, Ended
<1>7. CASE PauseAction
  BY <1>7, ActingPause DEF PauseAction, DueWorkDone, Ended
<1>8. CASE CompleteAction
  BY <1>8, ActingComplete DEF CompleteAction, DueWorkDone, Ended
<1>9. CASE Close
  BY <1>9 DEF Close, history, Ended
<1>10. CASE Tick \/ ClientStep \/ UNCHANGED vars
  BY <1>10 DEF Tick, ClientStep, Admit, Wake, Return, vars, day, history
<1> QED
  BY <1>1, <1>2, <1>3, <1>4, <1>5, <1>6, <1>7, <1>8, <1>9, <1>10 DEF Next, LoopStep

\* A completed, failed or closed day executes nothing more and keeps its time,
\* whatever is still queued and whichever timer still fires.
THEOREM EndedDaysStayEnded == Spec => EndedStaysEnded
<1>1. (TypeOK /\ PhaseInv) /\ [Next]_vars
        => [(status \in {"completed", "failed", "closed"})
              => (status' \in {status, "closed"} /\ UNCHANGED <<elapsed, nextScheduled, sequence>>)]_vars
  BY EndedStep DEF Ended
<1> QED BY <1>1, PhasesHold, PTL DEF Spec, EndedStaysEnded

-----------------------------------------------------------------------------
(* The countdown's timer *)

\* An armed timer fires by the countdown's deadline, or at once.
InTime == timer <= countdownAnchor + Countdown \/ timer <= now

\* The places where the timer was consumed and is not armed again yet.
Consumed ==
    \/ phase \in {"fired", "after"}
    \/ phase \in {"handle", "gate"} /\ viaTimer

CountdownInv ==
    status = "countdown" => /\ timer # NoTimer => InTime
                            /\ timer = NoTimer => Consumed

\* An answer leaves a consumed timer to AfterRequest.
LEMMA ConsumedAnswered ==
    ASSUME NEW r, Finish(r), Consumed, phase \in {"handle", "gate"} PROVE Consumed'
BY DEF Consumed, Finish

\* A step that leaves the countdown and its timer alone.
LEMMA CountdownKept ==
    ASSUME CountdownInv, UNCHANGED <<now, status, countdownAnchor, timer>>, Consumed => Consumed'
    PROVE  CountdownInv'
BY DEF CountdownInv, InTime

\* A request that is answered while the countdown runs, and leaves it alone.
LEMMA CountdownAnswered ==
    ASSUME TypeOK, PhaseInv, CountdownInv, NEW r, Finish(r), phase \in {"handle", "gate", "due"},
           UNCHANGED <<status, countdownAnchor>>, status = "countdown" => UNCHANGED timer
    PROVE  CountdownInv'
<1>1. now' = now
  BY DEF Finish
<1>2. CASE status # "countdown"
  BY <1>2 DEF CountdownInv
<1>3. CASE status = "countdown"
  <2>1. phase \in {"handle", "gate"}
    BY <1>3 DEF PhaseInv
  <2> QED BY <1>1, <1>3, <2>1, ConsumedAnswered, CountdownKept
<1> QED BY <1>2, <1>3

\* Every step leaves a countdown with a timer, or with AfterRequest to come.
LEMMA CountdownStep ==
    ASSUME TypeOK, TypeOK', PhaseInv, CountdownInv, [Next]_vars PROVE CountdownInv'
<1>away. ASSUME status' # "countdown" PROVE CountdownInv'
  BY <1>away DEF CountdownInv
<1>finish. ASSUME NEW r, Finish(r), phase \in {"handle", "gate", "due"},
                  UNCHANGED <<status, countdownAnchor>>, status = "countdown" => UNCHANGED timer
           PROVE  CountdownInv'
  BY <1>finish, CountdownAnswered
<1>1. CASE Dequeue
  <2>1. UNCHANGED <<now, status, countdownAnchor, timer>> /\ phase = "top"
    BY <1>1 DEF Dequeue, Handle, day
  <2> QED BY <2>1, CountdownKept DEF Consumed
<1>2. CASE SelectWake
  BY <1>2, CountdownKept DEF SelectWake, day, Consumed
<1>3. CASE SelectTimer
  BY <1>3 DEF SelectTimer, StopTimer, CountdownInv, Consumed
<1>4. CASE FiredWithRequest
  <2>1. UNCHANGED <<now, status, countdownAnchor, timer>> /\ phase' = "handle" /\ viaTimer' = TRUE
    BY <1>4 DEF FiredWithRequest, Handle, day
  <2> QED BY <2>1, CountdownKept DEF Consumed
<1>5. CASE FiredRunning
  BY <1>5, <1>away DEF FiredRunning, day
<1>6. CASE FiredCountdown \/ LateCountdown
  BY <1>6, <1>away, CountdownEnding DEF FiredCountdown, LateCountdown
<1>7. CASE FiredDone
  BY <1>7, <1>away DEF FiredDone, DueDone, PhaseInv
<1>8. CASE AfterRequest
  <2>1. UNCHANGED <<now, status, countdownAnchor>> /\ RearmCountdown
    BY <1>8 DEF AfterRequest
  <2>2. now \in Nat /\ countdownAnchor \in Nat /\ Countdown \in Nat /\ timer \in Nat \cup {NoTimer}
    BY ConstantsAssumption DEF TypeOK, ConstantsAssumption
  <2>3. CASE status = "countdown" /\ timer = NoTimer
    <3>1. timer' = now + Max0(countdownAnchor + Countdown - now)
      BY <2>1, <2>3 DEF RearmCountdown
    <3>2. timer' = countdownAnchor + Countdown \/ timer' = now
      BY <2>2, <3>1 DEF Max0
    <3> QED BY <2>1, <2>2, <3>2 DEF CountdownInv, InTime, NoTimer
  <2>4. CASE ~(status = "countdown" /\ timer = NoTimer)
    BY <2>1, <2>4 DEF RearmCountdown, CountdownInv, InTime
  <2> QED BY <2>3, <2>4
<1>9. CASE Replay
  BY <1>9, <1>finish DEF Replay, day
<1>10. CASE RefuseEnded \/ RefuseStatus
  BY <1>10, <1>finish, HandlingPhase DEF RefuseEnded, RefuseStatus, day
<1>11. CASE BeginDue
  BY <1>11, <1>away DEF BeginDue, day
<1>12. CASE ProcessDue
  BY <1>12, <1>away DEF ProcessDue, Fail
<1>13. CASE DueEnded
  BY <1>13, <1>finish, HandlingPhase DEF DueEnded, day
<1>14. CASE Start \/ Pause \/ Resume \/ ResumeAction \/ PauseAction \/ Close
  BY <1>14, <1>away DEF Start, Pause, Resume, ResumeAction, PauseAction, Close, Fail
<1>15. CASE StartAction
  <2>1. status = "preparing"
    BY <1>15, ActingStart DEF StartAction
  <2>2. \/ status' # "countdown"
        \/ now' = now /\ countdownAnchor' = now /\ timer' = now + Countdown
    BY <1>15, <2>1 DEF StartAction, Fail, Finish, day
  <2>3. now \in Nat /\ Countdown \in Nat
    BY ConstantsAssumption DEF TypeOK, ConstantsAssumption
  <2>4. CASE now' = now /\ countdownAnchor' = now /\ timer' = now + Countdown
    BY <2>3, <2>4 DEF CountdownInv, InTime, NoTimer
  <2> QED BY <2>2, <2>4, <1>away
<1>16. CASE Submit
  <2>1. status = "running"
    BY <1>16, ActingSubmit DEF Submit, DueWorkDone
  <2> QED BY <1>16, <2>1, <1>away DEF Submit, Fail
<1>17. CASE CompleteAction
  <2>1. phase \in {"handle", "gate", "due"}
    BY <1>17, HandlingPhase DEF CompleteAction
  <2>2. \/ status' \in {"completed", "failed"}
        \/ /\ UNCHANGED <<status, countdownAnchor>> /\ Finish("rejected")
           /\ status = "countdown" => UNCHANGED timer
    BY <1>17 DEF CompleteAction, Fail
  <2> QED BY <2>1, <2>2, <1>away, <1>finish
<1>18. CASE View
  <2>1. phase \in {"handle", "gate", "due"}
    BY <1>18, HandlingPhase DEF View
  <2>2. Finish("ok") /\ UNCHANGED <<status, countdownAnchor>> /\ (status = "countdown" => UNCHANGED timer)
    BY <1>18 DEF View
  <2> QED BY <2>1, <2>2, <1>finish
<1>19. CASE Snapshot
  BY <1>19, <1>finish, HandlingPhase DEF Snapshot, day
<1>20. CASE Tick
  <2>1. now' = now + 1 /\ UNCHANGED <<status, countdownAnchor, timer, phase, viaTimer>>
    BY <1>20 DEF Tick, day, loop
  <2>2. now \in Nat /\ timer \in Nat \cup {NoTimer}
    BY DEF TypeOK
  <2>3. InTime /\ timer # NoTimer => InTime'
    BY <2>1, <2>2 DEF InTime
  <2>4. Consumed => Consumed'
    BY <2>1 DEF Consumed
  <2> QED BY <2>1, <2>3, <2>4 DEF CountdownInv
<1>21. CASE ClientStep \/ UNCHANGED vars
  <2>1. UNCHANGED <<now, status, countdownAnchor, timer, phase, viaTimer>>
    BY <1>21 DEF ClientStep, Admit, Wake, Return, vars, day, loop
  <2> QED BY <2>1, CountdownKept DEF Consumed
<1> QED
  BY <1>1, <1>2, <1>3, <1>4, <1>5, <1>6, <1>7, <1>8, <1>9, <1>10, <1>11, <1>12, <1>13, <1>14,
     <1>15, <1>16, <1>17, <1>18, <1>19, <1>20, <1>21
     DEF Next, LoopStep

\* Whenever the loop waits during a countdown, a timer is armed that fires by
\* the deadline or at once, whatever requests took the place of earlier timers.
THEOREM CountdownStaysArmed == Spec => []CountdownArmed
<1>1. Init => CountdownInv
  BY ConstantsAssumption DEF Init, CountdownInv, ConstantsAssumption, ValidCheckpoint
<1>2. CountdownInv => CountdownArmed
  BY DEF CountdownInv, CountdownArmed, Consumed, InTime
<1>3. TypeOK /\ TypeOK' /\ PhaseInv /\ CountdownInv /\ [Next]_vars => CountdownInv'
  BY CountdownStep
<1> QED BY <1>1, <1>2, <1>3, PhasesHold, PTL DEF Spec

-----------------------------------------------------------------------------
(***************************************************************************)
(* What callers get back: every waiting caller is in one place, and what   *)
(* Views show never moves back.                                            *)
(***************************************************************************)

Queued(c) == \E i \in 1..Len(pending) : pending[i].client = c

\* A caller that waits is in the queue, in the loop's hands or answered, and
\* in no two of them, nor twice in the queue.
PlaceInv ==
    /\ \A i, j \in 1..Len(pending) : pending[i].client = pending[j].client => i = j
    /\ \A c \in Clients :
         /\ client[c] # "idle" <=> (Queued(c) \/ cur.client = c \/ reply[c] # NoReply)
         /\ ~(Queued(c) /\ cur.client = c)
         /\ reply[c] # NoReply => ~Queued(c) /\ cur.client # c

(***************************************************************************)
(* What was viewed bounds the day like what was executed: no action, no    *)
(* later request and nothing in the schedule lies before it.               *)
(***************************************************************************)
ViewInv ==
    /\ status \in {"preparing", "countdown", "paused", "completed"} => viewed <= elapsed
    /\ status = "completed" => lastAt <= elapsed
    /\ status = "running" =>
         /\ HasCandidate => viewed <= CandidateDue
         /\ Beyond(viewed)
         /\ phase \in {"handle", "gate"} => viewed <= LogicalAt(cur.received)
    /\ phase = "due" /\ status = "running" /\ cur # NoRequest =>
         viewed <= target /\ target = LogicalAt(cur.received)

-----------------------------------------------------------------------------
(* Where callers are *)

\* A request is somebody's, and nobody's is no caller.
LEMMA RequestsHaveClients ==
    /\ \A r \in Requests : r.client \in Clients /\ r.kind \in RequestKinds /\ r # NoRequest
    /\ NoRequest.client \notin Clients
<1>1. \A r \in Requests : r.client \in Clients /\ r.kind \in RequestKinds
  BY DEF Requests
<1>2. NoRequest.kind \notin RequestKinds
  BY DEF NoRequest, RequestKinds, ActionKinds, LifecycleKinds, ControlKinds
<1>3. NoRequest.client \notin Clients
  BY ConstantsAssumption DEF ConstantsAssumption, NoRequest
<1> QED BY <1>1, <1>2, <1>3

\* A step that moves no request and no answer.
LEMMA PlaceKept ==
    ASSUME PlaceInv, UNCHANGED <<pending, client, cur, reply>> PROVE PlaceInv'
BY DEF PlaceInv, Queued

\* Taking a request moves its caller from the queue into the loop's hands.
LEMMA PlaceHandled ==
    ASSUME TypeOK, PlaceInv, cur = NoRequest, NEW drained, Handle(drained) PROVE PlaceInv'
<1>1. /\ cur' = pending[1] /\ 1 \in 1..Len(pending)
      /\ Len(pending') = Len(pending) - 1 /\ Len(pending) \in Nat
      /\ \A i \in 1..Len(pending') : i + 1 \in 1..Len(pending) /\ pending'[i] = pending[i + 1]
  BY HandleQueue DEF TypeOK
<1>2. UNCHANGED <<client, reply>>
  BY DEF Handle
<1>3. ASSUME NEW c \in Clients
      PROVE  /\ Queued(c) <=> Queued(c)' \/ cur'.client = c
             /\ ~(Queued(c)' /\ cur'.client = c)
             /\ cur.client # c
  <2>1. Queued(c)' => Queued(c) /\ pending[1].client # c
    <3> SUFFICES ASSUME NEW i \in 1..Len(pending'), pending'[i].client = c
                 PROVE  Queued(c) /\ pending[1].client # c
      BY DEF Queued
    <3>1. i + 1 \in 1..Len(pending) /\ pending[i + 1].client = c /\ i + 1 # 1
      BY <1>1
    <3> QED BY <1>1, <3>1 DEF PlaceInv, Queued
  <2>2. Queued(c) => Queued(c)' \/ pending[1].client = c
    <3> SUFFICES ASSUME NEW i \in 1..Len(pending), pending[i].client = c, i # 1
                 PROVE  Queued(c)'
      BY DEF Queued
    <3>1. i - 1 \in 1..Len(pending') /\ (i - 1) + 1 = i
      BY <1>1
    <3>2. pending'[i - 1] = pending[i]
      BY <1>1, <3>1
    <3> QED BY <3>1, <3>2 DEF Queued
  <2>3. cur.client # c
    BY RequestsHaveClients
  <2>4. pending[1].client = c => Queued(c)
    BY <1>1 DEF Queued
  <2> QED BY <1>1, <2>1, <2>2, <2>3, <2>4
<1>4. \A i, j \in 1..Len(pending') : pending'[i].client = pending'[j].client => i = j
  <2> TAKE i, j \in 1..Len(pending')
  <2> HAVE pending'[i].client = pending'[j].client
  <2>1. i + 1 \in 1..Len(pending) /\ j + 1 \in 1..Len(pending)
        /\ pending[i + 1].client = pending[j + 1].client
    BY <1>1
  <2>2. i + 1 = j + 1
    BY <2>1 DEF PlaceInv
  <2> QED BY <1>1, <2>2
<1> QED BY <1>2, <1>3, <1>4 DEF PlaceInv

\* An answer moves the caller out of the loop's hands.
LEMMA PlaceAnswered ==
    ASSUME TypeOK, PlaceInv, cur \in Requests, NEW r \in Replies, Finish(r) PROVE PlaceInv'
<1>1. cur.client \in Clients /\ NoRequest.client \notin Clients
  BY RequestsHaveClients
<1>2. /\ UNCHANGED <<pending, client>> /\ cur' = NoRequest
      /\ reply' = [reply EXCEPT ![cur.client] = r]
  BY DEF Finish, admission
<1>3. r # NoReply
  BY DEF Replies, NoReply
<1>4. \A c \in Clients : reply'[c] = IF c = cur.client THEN r ELSE reply[c]
  BY <1>2 DEF TypeOK
<1>5. \A c \in Clients : Queued(c)' <=> Queued(c)
  BY <1>2 DEF Queued
<1>6. ASSUME NEW c \in Clients
      PROVE  /\ client'[c] # "idle" <=> (Queued(c)' \/ cur'.client = c \/ reply'[c] # NoReply)
             /\ ~(Queued(c)' /\ cur'.client = c)
             /\ reply'[c] # NoReply => ~Queued(c)' /\ cur'.client # c
  BY <1>1, <1>2, <1>3, <1>4, <1>5 DEF PlaceInv
<1> QED BY <1>2, <1>6 DEF PlaceInv

\* The requests that the loop answers are requests.
LEMMA AnsweredRequests ==
    ASSUME TypeOK, PhaseInv,
           \/ Replay \/ RefuseEnded \/ RefuseStatus \/ DueEnded
           \/ \E kind \in RequestKinds : Acting(kind)
           \/ View \/ Close
    PROVE  cur \in Requests
<1>1. cur \in Requests \cup {NoRequest} /\ NoRequest.kind = "none" /\ "none" \notin RequestKinds
  BY DEF TypeOK, NoRequest, RequestKinds, ActionKinds, LifecycleKinds, ControlKinds
<1>2. CASE Replay \/ RefuseEnded \/ RefuseStatus
  BY <1>2 DEF Replay, RefuseEnded, RefuseStatus, Gate, PhaseInv
<1>3. CASE DueEnded
  BY <1>1, <1>3 DEF DueEnded
<1>4. CASE \E kind \in RequestKinds : Acting(kind)
  BY <1>1, <1>4 DEF Acting
<1>5. CASE View \/ Close
  <2>1. cur.kind \in {"view", "close"}
    BY <1>5 DEF View, Close, Acting
  <2> QED BY <1>1, <2>1
<1> QED BY <1>2, <1>3, <1>4, <1>5

\* Every step leaves each caller in one place (request, stopAdmission).
LEMMA PlaceStep ==
    ASSUME TypeOK, PhaseInv, PlaceInv, [Next]_vars PROVE PlaceInv'
<1>replies. {"ok", "rejected", "invalid", "failed", "closed"} = Replies
  BY DEF Replies
<1>1. CASE Dequeue
  <2>1. cur = NoRequest
    BY <1>1 DEF Dequeue, PhaseInv
  <2> QED BY <1>1, <2>1, PlaceHandled, PlaceKept DEF Dequeue, admission
<1>2. CASE FiredWithRequest
  <2>1. cur = NoRequest
    BY <1>2 DEF FiredWithRequest, PhaseInv
  <2> QED BY <1>2, <2>1, PlaceHandled DEF FiredWithRequest
<1>3. CASE \/ SelectWake \/ SelectTimer \/ FiredRunning \/ FiredCountdown \/ FiredDone
           \/ AfterRequest \/ LateCountdown \/ BeginDue \/ ProcessDue
  <2>1. UNCHANGED <<pending, client, cur, reply>>
    BY <1>3
       DEF SelectWake, SelectTimer, FiredRunning, FiredCountdown, FiredDone, AfterRequest,
           LateCountdown, BeginDue, ProcessDue, admission, loop
  <2> QED BY <2>1, PlaceKept
<1>4. CASE Replay \/ RefuseEnded \/ RefuseStatus \/ DueEnded
  <2>1. \E r \in Replies : Finish(r)
    BY <1>4, <1>replies DEF Replay, RefuseEnded, RefuseStatus, DueEnded
  <2> QED BY <1>4, <2>1, AnsweredRequests, PlaceAnswered
<1>5. CASE \/ Start \/ Pause \/ Resume \/ StartAction \/ Submit \/ PauseAction \/ ResumeAction
           \/ CompleteAction \/ Snapshot
  <2>1. \E kind \in RequestKinds : Acting(kind)
    BY <1>5
       DEF Start, Pause, Resume, StartAction, Submit, PauseAction, ResumeAction, CompleteAction,
           Snapshot, RequestKinds, ActionKinds, LifecycleKinds, ControlKinds
  <2>2. \E r \in Replies : Finish(r)
    BY <1>5, <1>replies
       DEF Start, Pause, Resume, StartAction, Submit, PauseAction, ResumeAction, CompleteAction, Snapshot
  <2> QED BY <2>1, <2>2, AnsweredRequests, PlaceAnswered
<1>6. CASE View
  <2>1. Finish("ok") /\ "ok" \in Replies
    BY <1>6, <1>replies DEF View
  <2> QED BY <1>6, <2>1, AnsweredRequests, PlaceAnswered
<1>7. CASE Close
  <2>1. /\ pending' = <<>> /\ cur' = NoRequest /\ UNCHANGED client
        /\ \A c \in Clients : reply'[c] =
             CASE c = cur.client -> IF status = "failed" THEN "failed" ELSE "ok"
               [] Queued(c) -> "closed"
               [] OTHER -> reply[c]
    BY <1>7 DEF Close, Queued
  <2>2. \A c \in Clients : ~Queued(c)' /\ cur'.client # c
    BY <2>1, RequestsHaveClients DEF Queued
  <2>3. \A c \in Clients : reply'[c] # NoReply <=> (Queued(c) \/ cur.client = c \/ reply[c] # NoReply)
    BY <2>1 DEF NoReply
  <2>4. \A i, j \in 1..Len(pending') : pending'[i].client = pending'[j].client => i = j
    BY <2>1
  <2> QED BY <2>1, <2>2, <2>3, <2>4 DEF PlaceInv
<1>8. CASE Tick
  BY <1>8, PlaceKept DEF Tick, admission, loop
<1>9. CASE ClientStep
  <2>1. ASSUME NEW c \in Clients, NEW kind \in Kinds, NEW id \in IDsFor(kind), Admit(c, kind, id)
        PROVE  PlaceInv'
    <3>1. /\ Len(pending') = Len(pending) + 1 /\ Len(pending) \in Nat
          /\ \A i \in 1..Len(pending) : pending'[i] = pending[i]
          /\ pending'[Len(pending) + 1].client = c
      BY <2>1 DEF Admit, TypeOK
    <3>2. /\ UNCHANGED <<cur, reply>> /\ client[c] = "idle"
          /\ \A d \in Clients : client'[d] = IF d = c THEN "waking" ELSE client[d]
      BY <2>1 DEF Admit, TypeOK, loop
    <3>3. ~Queued(c) /\ cur.client # c /\ reply[c] = NoReply
      BY <3>2 DEF PlaceInv
    <3>4. \A i \in 1..Len(pending') : i \in 1..Len(pending) \/ i = Len(pending) + 1
      BY <3>1
    <3>5. \A i \in 1..Len(pending) : i \in 1..Len(pending')
      BY <3>1
    <3>6. Len(pending) + 1 \in 1..Len(pending')
      BY <3>1
    <3>7. \A d \in Clients : Queued(d)' <=> Queued(d) \/ d = c
      BY <3>1, <3>4, <3>5, <3>6 DEF Queued
    <3>8. \A i, j \in 1..Len(pending') : pending'[i].client = pending'[j].client => i = j
      <4> TAKE i, j \in 1..Len(pending')
      <4> HAVE pending'[i].client = pending'[j].client
      <4>1. CASE i \in 1..Len(pending) /\ j \in 1..Len(pending)
        BY <3>1, <4>1 DEF PlaceInv
      <4>2. CASE i = Len(pending) + 1 /\ j \in 1..Len(pending)
        BY <3>1, <3>3, <4>2 DEF Queued
      <4>3. CASE j = Len(pending) + 1 /\ i \in 1..Len(pending)
        BY <3>1, <3>3, <4>3 DEF Queued
      <4> QED BY <3>4, <4>1, <4>2, <4>3
    <3> QED BY <3>2, <3>3, <3>7, <3>8 DEF PlaceInv
  <2>2. ASSUME NEW c \in Clients, Wake(c) PROVE PlaceInv'
    <3>1. /\ UNCHANGED <<pending, cur, reply>>
          /\ \A d \in Clients : client'[d] # "idle" <=> client[d] # "idle"
      BY <2>2 DEF Wake, TypeOK, loop
    <3> QED BY <3>1 DEF PlaceInv, Queued
  <2>3. ASSUME NEW c \in Clients, Return(c) PROVE PlaceInv'
    <3>1. /\ UNCHANGED <<pending, cur>> /\ reply[c] # NoReply
          /\ \A d \in Clients : /\ client'[d] = IF d = c THEN "idle" ELSE client[d]
                                /\ reply'[d] = IF d = c THEN NoReply ELSE reply[d]
      BY <2>3 DEF Return, TypeOK, loop
    <3>2. \A d \in Clients : Queued(d)' <=> Queued(d)
      BY <3>1 DEF Queued
    <3> QED BY <3>1, <3>2 DEF PlaceInv
  <2> QED BY <1>9, <2>1, <2>2, <2>3 DEF ClientStep
<1>10. CASE UNCHANGED vars
  BY <1>10, PlaceKept DEF vars, admission, loop
<1> QED
  BY <1>1, <1>2, <1>3, <1>4, <1>5, <1>6, <1>7, <1>8, <1>9, <1>10 DEF Next, LoopStep

\* At first nobody waits.
LEMMA PlaceInit == Init => PlaceInv
<1> SUFFICES ASSUME Init PROVE PlaceInv
  OBVIOUS
<1>1. pending = <<>> /\ cur = NoRequest /\ \A c \in Clients : client[c] = "idle" /\ reply[c] = NoReply
  BY DEF Init
<1>2. \A c \in Clients : ~Queued(c) /\ cur.client # c
  BY <1>1, RequestsHaveClients DEF Queued
<1> QED BY <1>1, <1>2 DEF PlaceInv

\* The invariant of callers.
LEMMA PlacesHold == Spec => [](TypeOK /\ PhaseInv /\ PlaceInv)
<1>1. TypeOK /\ PhaseInv /\ PlaceInv /\ [Next]_vars => PlaceInv'
  BY PlaceStep
<1> QED BY <1>1, PhasesHold, PlaceInit, PTL DEF Spec

\* Every caller that waits is in exactly one place, and nobody is answered
\* twice or forgotten, also not by a Close.
THEOREM CallersAnsweredOnce == Spec => []AnsweredOnce
<1>1. ASSUME TypeOK, PlaceInv PROVE AnsweredOnce
  <2> SUFFICES ASSUME NEW c \in Clients
               PROVE  Cardinality({i \in 1..Len(pending) : pending[i].client = c})
                        + (IF cur.client = c THEN 1 ELSE 0)
                        + (IF reply[c] # NoReply THEN 1 ELSE 0)
                      = (IF client[c] = "idle" THEN 0 ELSE 1)
    BY DEF AnsweredOnce
  <2> DEFINE places == {i \in 1..Len(pending) : pending[i].client = c}
  <2>1. Cardinality(places) = IF Queued(c) THEN 1 ELSE 0
    <3>1. CASE Queued(c)
      <4>1. PICK i \in 1..Len(pending) : pending[i].client = c
        BY <3>1 DEF Queued
      <4>2. places = {i}
        BY <1>1, <4>1 DEF PlaceInv
      <4> QED BY <3>1, <4>2, FS_Singleton
    <3>2. CASE ~Queued(c)
      <4>1. places = {}
        BY <3>2 DEF Queued
      <4> QED BY <3>2, <4>1, FS_EmptySet
    <3> QED BY <3>1, <3>2
  <2> HIDE DEF places
  <2>2. /\ client[c] # "idle" <=> (Queued(c) \/ cur.client = c \/ reply[c] # NoReply)
        /\ ~(Queued(c) /\ cur.client = c)
        /\ reply[c] # NoReply => ~Queued(c) /\ cur.client # c
    BY <1>1 DEF PlaceInv
  <2>3. Cardinality(places) + (IF cur.client = c THEN 1 ELSE 0) + (IF reply[c] # NoReply THEN 1 ELSE 0)
          = (IF client[c] = "idle" THEN 0 ELSE 1)
    BY <2>1, <2>2
  <2> QED BY <2>3 DEF places
<1> QED BY <1>1, PlacesHold, PTL

-----------------------------------------------------------------------------
(* What is viewed *)

\* A step that shows nothing and moves neither the day nor the queue.
LEMMA ViewKept ==
    ASSUME ViewInv,
           UNCHANGED <<status, elapsed, anchor, nextScheduled, lastAt, viewed, now, pending>>,
           \/ phase' \notin {"handle", "gate", "due"}
           \/ UNCHANGED <<phase, cur, target>>
    PROVE  ViewInv'
BY DEF ViewInv, Beyond, LogicalAt, HasCandidate, CandidateDue

\* An answer that moves nothing of the day, nor shows it.
LEMMA ViewAnswered ==
    ASSUME ViewInv, UNCHANGED <<status, elapsed, anchor, nextScheduled, lastAt, viewed>>,
           NEW r, Finish(r)
    PROVE  ViewInv'
<1>1. UNCHANGED <<now, pending>> /\ phase' \in {"after", "top"}
  BY DEF Finish, admission
<1> QED BY <1>1, ViewKept

\* A failed or closed day shows nothing any more.
LEMMA ViewEnded == ASSUME status' \in {"failed", "closed"} PROVE ViewInv'
BY DEF ViewInv

\* A day that stands still shows the time at which it stands.
LEMMA ViewStands ==
    ASSUME viewed' <= elapsed', status' \in {"preparing", "countdown", "paused", "completed"},
           status' = "completed" => lastAt' <= elapsed'
    PROVE  ViewInv'
BY DEF ViewInv

\* A day that starts to run from the time at which it stood.
LEMMA ViewStarts ==
    ASSUME TypeOK', viewed' <= elapsed', HasCandidate' => viewed' <= CandidateDue',
           status' = "running", phase' # "due"
    PROVE  ViewInv'
<1>1. /\ elapsed' \in Nat /\ anchor' \in Nat /\ now' \in Nat /\ viewed' \in Nat
      /\ \A i \in 1..Len(pending') : pending'[i].received \in Nat
  <2>1. pending' \in Seq(Requests)
    BY DEF TypeOK
  <2>2. \A i \in 1..Len(pending') : pending'[i] \in Requests
    BY <2>1
  <2>3. \A i \in 1..Len(pending') : pending'[i].received \in Nat
    BY <2>2 DEF Requests
  <2> QED BY <2>3 DEF TypeOK
<1>2. \A at \in Nat : LogicalFrom(status', elapsed', anchor', at) \in Nat
                      /\ elapsed' <= LogicalFrom(status', elapsed', anchor', at)
  BY <1>1, LogicalFromNat
<1>3. cur'.received \in Nat
  <2>1. cur' \in Requests \cup {NoRequest}
    BY DEF TypeOK
  <2> QED BY <2>1 DEF Requests, NoRequest
<1>4. \A at \in Nat : viewed' <= LogicalFrom(status', elapsed', anchor', at)
  BY <1>1, <1>2
<1> QED BY <1>1, <1>3, <1>4 DEF ViewInv, Beyond, LogicalAt

\* The next request was received no earlier than what was viewed.
LEMMA ViewHandled ==
    ASSUME TypeOK, ViewInv, NEW drained, Handle(drained) PROVE ViewInv'
<1>1. UNCHANGED <<status, elapsed, anchor, nextScheduled, lastAt, viewed, now>> /\ phase' = "handle"
  BY DEF Handle, day, history
<1>2. /\ cur' = pending[1] /\ 1 \in 1..Len(pending)
      /\ \A i \in 1..Len(pending') : i + 1 \in 1..Len(pending) /\ pending'[i] = pending[i + 1]
  BY HandleQueue
<1> QED BY <1>1, <1>2 DEF ViewInv, Beyond, LogicalAt, HasCandidate, CandidateDue

\* What was viewed does not lie beyond the target.
LEMMA TargetViewed ==
    ASSUME ViewInv, DueWorkDone PROVE viewed <= target /\ target = LogicalAt(cur.received)
BY DEF ViewInv, DueWorkDone

\* A day that comes out of its countdown was viewed at zero.
LEMMA ViewCountdown ==
    ASSUME TypeOK, TypeOK', ClockInv, ViewInv, status = "countdown", CompleteCountdown, phase' # "due"
    PROVE  ViewInv'
<1>1. CASE status' = "failed"
  BY <1>1, ViewEnded
<1>2. CASE status' = "running"
  <2>1. UNCHANGED <<elapsed, nextScheduled, viewed>>
    BY <1>2 DEF CompleteCountdown, Execute, Fail
  <2>2. viewed' <= elapsed' /\ elapsed' = 0 /\ viewed' \in Nat
    BY <2>1 DEF ClockInv, ViewInv, TypeOK
  <2>3. HasCandidate => CandidateDue \in Nat
    BY CandidateDueNat
  <2>4. HasCandidate' => viewed' <= CandidateDue'
    BY <2>1, <2>2, <2>3 DEF HasCandidate, CandidateDue
  <2> QED BY <1>2, <2>2, <2>4, ViewStarts
<1> QED BY <1>1, <1>2, CountdownEnding

\* When a View answers, and what it shows.
LEMMA ViewShows ==
    ASSUME TypeOK, PhaseInv, ClockInv, ViewInv, View
    PROVE  /\ viewed' >= viewed /\ viewed' >= lastAt /\ viewed' \in Nat
           /\ \/ DueWorkDone /\ viewed' = target
              \/ /\ status \in {"preparing", "countdown", "paused", "completed"}
                 /\ viewed' = elapsed
<1>nat. viewed \in Nat /\ lastAt \in Nat /\ elapsed \in Nat /\ target \in Nat
  BY DEF TypeOK
<1>1. CASE status = "running"
  <2>1. Acting("view") /\ DueDone
    BY <1>1 DEF View, Acting, DueFirst
  <2>2. DueWorkDone
    BY <1>1, <2>1, ActingAfterDue
  <2>3. viewed' = target /\ viewed <= target /\ lastAt <= target
    BY <2>2, TargetViewed, TargetCovers DEF View
  <2> QED BY <1>nat, <2>2, <2>3
<1>2. CASE status # "running"
  <2>1. viewed' = elapsed
    BY <1>2 DEF View, LogicalAt, LogicalFrom
  <2>2. cur.kind = "view" /\ cur # NoRequest
    BY DEF View, Acting, NoRequest
  <2>3. status # "failed"
    BY <1>2, <2>2 DEF View, Acting, Open, RefusedFailed
  <2>4. status # "closed"
    BY <2>2 DEF PhaseInv
  <2>5. status \in {"preparing", "countdown", "paused", "completed"}
    BY <1>2, <2>3, <2>4 DEF TypeOK, Statuses
  <2>6. viewed <= elapsed /\ lastAt <= elapsed
    BY <2>5, <1>nat DEF ViewInv, ClockInv
  <2> QED BY <1>nat, <2>1, <2>5, <2>6
<1> QED BY <1>1, <1>2

\* Every step keeps what waits beyond what was viewed.
LEMMA ViewStep ==
    ASSUME TypeOK, TypeOK', PhaseInv, QueueInv, ClockInv, ViewInv, [Next]_vars PROVE ViewInv'
<1>nat. /\ now \in Nat /\ target \in Nat /\ elapsed \in Nat /\ lastAt \in Nat /\ viewed \in Nat
        /\ cur.received \in Nat
  <2>1. cur \in Requests \cup {NoRequest}
    BY DEF TypeOK
  <2>2. cur.received \in Nat
    BY <2>1 DEF Requests, NoRequest
  <2> QED BY <2>2 DEF TypeOK
<1>due. HasCandidate => CandidateDue \in Nat
  BY CandidateDueNat
<1>1. CASE Dequeue
  <2>1. CASE Handle(FALSE)
    BY <2>1, ViewHandled
  <2>2. CASE ~Handle(FALSE)
    BY <1>1, <2>2, ViewKept DEF Dequeue, admission, day, history
  <2> QED BY <2>1, <2>2
<1>2. CASE SelectWake
  BY <1>2, ViewKept DEF SelectWake, day, history
<1>3. CASE SelectTimer
  BY <1>3, ViewKept DEF SelectTimer, admission, history
<1>4. CASE FiredWithRequest
  BY <1>4, ViewHandled DEF FiredWithRequest
<1>5. CASE FiredRunning
  <2>1. /\ status = "running" /\ phase' = "due" /\ cur = NoRequest
        /\ UNCHANGED <<now, pending, cur, status, elapsed, anchor, nextScheduled, lastAt, viewed>>
    BY <1>5 DEF FiredRunning, admission, day, history, PhaseInv
  <2> QED BY <2>1 DEF ViewInv, Beyond, LogicalAt, HasCandidate, CandidateDue
<1>6. CASE FiredCountdown
  BY <1>6, ViewCountdown DEF FiredCountdown
<1>7. CASE FiredDone
  BY <1>7, ViewKept DEF FiredDone, admission, history
<1>8. CASE AfterRequest
  BY <1>8, ViewKept DEF AfterRequest, admission, history
<1>9. CASE Replay
  BY <1>9, ViewAnswered DEF Replay, day, history
<1>10. CASE LateCountdown
  BY <1>10, ViewCountdown DEF LateCountdown, CountdownLapsed
<1>11. CASE RefuseEnded
  BY <1>11, ViewAnswered DEF RefuseEnded, day, history
<1>12. CASE RefuseStatus
  BY <1>12, ViewAnswered DEF RefuseStatus, day, history
<1>13. CASE BeginDue
  <2>1. /\ phase \in {"handle", "gate"} /\ status = "running" /\ phase' = "due"
        /\ target' = LogicalAt(cur.received)
        /\ UNCHANGED <<now, pending, cur, status, elapsed, anchor, nextScheduled, lastAt, viewed>>
    BY <1>13, HandlingPhase DEF BeginDue, admission, day, history
  <2>2. viewed <= LogicalAt(cur.received)
    BY <2>1 DEF ViewInv
  <2> QED BY <2>1, <2>2 DEF ViewInv, Beyond, LogicalAt, HasCandidate, CandidateDue
<1>14. CASE ProcessDue
  <2>1. /\ phase = "due" /\ status = "running" /\ HasCandidate
        /\ lastAt' = CandidateDue /\ UNCHANGED <<now, pending, phase, cur, target, viewed>>
    BY <1>14 DEF ProcessDue, DueBy, Execute, admission, loop
  <2>2. \/ status' = "failed"
        \/ status' = "completed" /\ elapsed' = CandidateDue
        \/ UNCHANGED <<status, elapsed, anchor>> /\ nextScheduled' = nextScheduled + 1
    BY <1>14 DEF ProcessDue, Fail
  <2>3. viewed <= CandidateDue
    BY <2>1 DEF ViewInv
  <2>4. CASE status' = "completed" /\ elapsed' = CandidateDue
    BY <1>due, <2>1, <2>3, <2>4, ViewStands
  <2>5. CASE UNCHANGED <<status, elapsed, anchor>> /\ nextScheduled' = nextScheduled + 1
    <3>1. HasCandidate' => viewed' <= CandidateDue'
      <4>1. nextScheduled \in Nat /\ nextScheduled < Len(Dues)
        BY <2>1 DEF TypeOK, HasCandidate
      <4>2. nextScheduled + 1 < Len(Dues) =>
              Dues[nextScheduled + 1] <= Dues[nextScheduled + 2] /\ Dues[nextScheduled + 2] \in Nat
        BY <4>1, ScheduleHead
      <4>3. (nextScheduled + 1) + 1 = nextScheduled + 2
        BY <4>1
      <4>4. nextScheduled + 1 < Len(Dues) => viewed <= Dues[nextScheduled + 2]
        BY <1>nat, <1>due, <2>1, <2>3, <4>2 DEF CandidateDue
      <4> QED BY <2>1, <2>5, <4>3, <4>4 DEF HasCandidate, CandidateDue
    <3>2. Beyond(viewed)'
      BY <2>1, <2>5 DEF ViewInv, Beyond, LogicalAt
    <3>3. cur' # NoRequest => viewed' <= target' /\ target' = LogicalAt(cur.received)'
      BY <2>1, <2>5 DEF ViewInv, LogicalAt
    <3> QED BY <2>1, <2>5, <3>1, <3>2, <3>3 DEF ViewInv
  <2> QED BY <2>2, <2>4, <2>5, ViewEnded
<1>15. CASE DueEnded
  BY <1>15, ViewAnswered DEF DueEnded, day, history
<1>16. CASE Start
  <2>1. /\ status' = "running" /\ elapsed' = 0 /\ phase' \in {"after", "top"}
        /\ UNCHANGED <<viewed, nextScheduled>>
    BY <1>16, FinishPhase DEF Start, history
  <2>2. status = "preparing"
    BY <1>16, ActingStart DEF Start
  <2>3. viewed' <= elapsed' /\ viewed' \in Nat
    BY <1>nat, <2>1, <2>2 DEF ClockInv, ViewInv
  <2>4. HasCandidate' => viewed' <= CandidateDue'
    BY <1>due, <2>1, <2>3 DEF HasCandidate, CandidateDue
  <2> QED BY <2>1, <2>3, <2>4, ViewStarts
<1>17. CASE Pause
  <2>1. status' = "paused" /\ elapsed' = target /\ UNCHANGED viewed
    BY <1>17 DEF Pause, history
  <2>2. viewed <= target
    BY <1>17, ActingSubmit, TargetViewed DEF Pause
  <2> QED BY <2>1, <2>2, ViewStands
<1>18. CASE Resume
  <2>1. /\ status' = "running" /\ phase' \in {"after", "top"}
        /\ UNCHANGED <<elapsed, viewed, nextScheduled>>
    BY <1>18, FinishPhase DEF Resume, history
  <2>2. status = "paused"
    BY <1>18, ActingResume DEF Resume
  <2>3. viewed <= elapsed /\ (HasCandidate => viewed <= CandidateDue)
    BY <1>nat, <1>due, <2>2 DEF ClockInv, ViewInv
  <2>4. HasCandidate' => viewed' <= CandidateDue'
    BY <2>1, <2>3 DEF HasCandidate, CandidateDue
  <2> QED BY <2>1, <2>3, <2>4, ViewStarts
<1>19. CASE StartAction
  <2>1. status = "preparing" /\ viewed' = viewed
    BY <1>19, ActingStart DEF StartAction, Execute
  <2>2. viewed <= elapsed /\ elapsed = 0
    BY <2>1 DEF ClockInv, ViewInv
  <2>3. \/ status' = "failed"
        \/ status' \in {"preparing", "countdown"} /\ elapsed' = 0
    BY <1>19, <2>1, <2>2 DEF StartAction, Fail, day
  <2> QED BY <2>1, <2>2, <2>3, ViewStands, ViewEnded
<1>20. CASE Submit
  <2>1. DueWorkDone /\ lastAt' = target /\ viewed' = viewed
    BY <1>20, ActingSubmit DEF Submit, Execute
  <2>2. viewed <= target
    BY <2>1, TargetViewed
  <2>3. \/ status' = "failed"
        \/ status' = "completed" /\ elapsed' = target
        \/ /\ UNCHANGED <<status, elapsed, anchor, nextScheduled>>
           /\ \E r \in {"ok", "rejected"} : Finish(r)
    BY <1>20 DEF Submit, Fail
  <2>4. CASE status' = "completed" /\ elapsed' = target
    BY <1>nat, <2>1, <2>2, <2>4, ViewStands
  <2>5. CASE /\ UNCHANGED <<status, elapsed, anchor, nextScheduled>>
             /\ \E r \in {"ok", "rejected"} : Finish(r)
    <3>1. UNCHANGED <<now, pending>> /\ phase' \in {"after", "top"} /\ status = "running"
      BY <2>1, <2>5 DEF Finish, admission, DueWorkDone
    <3> QED BY <2>1, <2>5, <3>1 DEF ViewInv, Beyond, LogicalAt, HasCandidate, CandidateDue
  <2> QED BY <2>3, <2>4, <2>5, ViewEnded
<1>21. CASE PauseAction
  <2>1. viewed' = viewed
    BY <1>21 DEF PauseAction, Execute
  <2>2. \/ status' = "failed"
        \/ status' = "paused" /\ elapsed' = At
    BY <1>21 DEF PauseAction, Fail
  <2>3. viewed <= At
    BY <1>21, ActingPause, TargetViewed DEF PauseAction, ViewInv
  <2> QED BY <2>1, <2>2, <2>3, ViewStands, ViewEnded
<1>22. CASE ResumeAction
  <2>1. status = "paused" /\ viewed' = viewed /\ phase' \in {"after", "top"}
    BY <1>22, ActingResume, FinishPhase DEF ResumeAction, Execute
  <2>2. \/ status' = "failed"
        \/ status' = "running" /\ UNCHANGED <<elapsed, nextScheduled>>
    BY <1>22 DEF ResumeAction, Fail
  <2>3. CASE status' = "running" /\ UNCHANGED <<elapsed, nextScheduled>>
    <3>1. viewed <= elapsed /\ (HasCandidate => viewed <= CandidateDue)
      BY <1>nat, <1>due, <2>1 DEF ClockInv, ViewInv
    <3>2. HasCandidate' => viewed' <= CandidateDue'
      BY <2>1, <2>3, <3>1 DEF HasCandidate, CandidateDue
    <3> QED BY <2>1, <2>3, <3>1, <3>2, ViewStarts
  <2> QED BY <2>2, <2>3, ViewEnded
<1>23. CASE CompleteAction
  <2>1. lastAt' = At /\ viewed' = viewed /\ At \in Nat
    BY <1>nat, <1>23 DEF CompleteAction, Execute, At
  <2>2. \/ status' = "failed"
        \/ status' = "completed" /\ elapsed' = At
        \/ UNCHANGED <<status, elapsed, anchor, nextScheduled>> /\ Finish("rejected")
    BY <1>23 DEF CompleteAction, Fail
  <2>3. \/ DueWorkDone /\ At = target
        \/ status \in {"preparing", "countdown", "paused"} /\ At = elapsed
    BY <1>23, ActingComplete DEF CompleteAction
  <2>4. viewed <= At
    BY <2>3, TargetViewed DEF ViewInv
  <2>5. CASE status' = "completed" /\ elapsed' = At
    BY <2>1, <2>4, <2>5, ViewStands
  <2>6. CASE UNCHANGED <<status, elapsed, anchor, nextScheduled>> /\ Finish("rejected")
    <3>1. UNCHANGED <<now, pending>> /\ phase' \in {"after", "top"} /\ status # "completed"
      BY <2>3, <2>6 DEF Finish, admission, DueWorkDone
    <3> QED BY <2>1, <2>6, <3>1 DEF ViewInv, Beyond, LogicalAt, HasCandidate, CandidateDue
  <2> QED BY <2>2, <2>5, <2>6, ViewEnded
<1>24. CASE View
  <2>1. /\ UNCHANGED <<status, elapsed, anchor, nextScheduled, lastAt, now, pending>>
        /\ phase' \in {"after", "top"}
    BY <1>24 DEF View, Finish, admission
  <2>2. \/ DueWorkDone /\ viewed' = target
        \/ /\ status \in {"preparing", "countdown", "paused", "completed"}
           /\ viewed' = elapsed
    BY <1>24, ViewShows
  <2>3. CASE DueWorkDone /\ viewed' = target
    <3>1. HasCandidate' => viewed' <= CandidateDue'
      BY <1>nat, <1>due, <2>1, <2>3 DEF DueWorkDone, HasCandidate, CandidateDue
    <3>2. Beyond(viewed)'
      BY <2>1, <2>3 DEF ClockInv, DueWorkDone, Beyond, LogicalAt
    <3>3. status' = "running"
      BY <2>1, <2>3 DEF DueWorkDone
    <3> QED BY <2>1, <3>1, <3>2, <3>3 DEF ViewInv
  <2>4. CASE /\ status \in {"preparing", "countdown", "paused", "completed"}
             /\ viewed' = elapsed
    <3>1. status = "completed" => lastAt <= elapsed
      BY DEF ViewInv
    <3> QED BY <1>nat, <2>1, <2>4, <3>1, ViewStands
  <2> QED BY <2>2, <2>3, <2>4
<1>25. CASE Snapshot
  BY <1>25, ViewAnswered DEF Snapshot, day, history
<1>26. CASE Close
  BY <1>26, ViewEnded DEF Close
<1>27. CASE Tick
  <2>1. /\ now' = now + 1
        /\ UNCHANGED <<pending, phase, cur, target, status, elapsed, anchor, nextScheduled, lastAt, viewed>>
    BY <1>27 DEF Tick, admission, loop, day, history
  <2>2. LogicalAt(now) <= LogicalAt(now + 1) /\ LogicalAt(now) \in Nat /\ LogicalAt(now + 1) \in Nat
    BY <1>nat, LogicalAtMonotone, LogicalAtNat
  <2>3. status = "running" => viewed <= LogicalAt(now + 1)
    BY <1>nat, <2>2 DEF ViewInv, Beyond
  <2> QED BY <2>1, <2>3 DEF ViewInv, Beyond, LogicalAt, HasCandidate, CandidateDue
<1>28. CASE ClientStep
  <2>1. ASSUME NEW c \in Clients, NEW kind \in Kinds, NEW id \in IDsFor(kind), Admit(c, kind, id)
        PROVE  ViewInv'
    <3>0. Len(pending) \in Nat
      BY DEF TypeOK
    <3>1. /\ Len(pending') = Len(pending) + 1
          /\ \A i \in 1..Len(pending) : pending'[i] = pending[i]
          /\ pending'[Len(pending) + 1].received = now
          /\ UNCHANGED <<now, phase, cur, target, status, elapsed, anchor, nextScheduled, lastAt>>
      BY <2>1, AdmitQueue
    <3>2. UNCHANGED viewed
      BY <2>1 DEF Admit, history
    <3>3. \A i \in 1..Len(pending') : i \in 1..Len(pending) \/ i = Len(pending) + 1
      BY <3>0, <3>1
    <3>4. status = "running" => Beyond(viewed)'
      BY <3>1, <3>2, <3>3 DEF ViewInv, Beyond, LogicalAt
    <3> QED BY <3>1, <3>2, <3>4 DEF ViewInv, LogicalAt, HasCandidate, CandidateDue
  <2>2. ASSUME NEW c \in Clients, Wake(c) \/ Return(c) PROVE ViewInv'
    BY <2>2, ViewKept DEF Wake, Return, loop, day, history
  <2> QED BY <1>28, <2>1, <2>2 DEF ClientStep
<1>29. CASE UNCHANGED vars
  BY <1>29, ViewKept DEF vars, admission, loop, day, history
<1> QED
  BY <1>1, <1>2, <1>3, <1>4, <1>5, <1>6, <1>7, <1>8, <1>9, <1>10, <1>11, <1>12, <1>13, <1>14,
     <1>15, <1>16, <1>17, <1>18, <1>19, <1>20, <1>21, <1>22, <1>23, <1>24, <1>25, <1>26, <1>27,
     <1>28, <1>29
     DEF Next, LoopStep

\* A restored day was viewed up to the time of its checkpoint.
LEMMA ViewInit == Init => ViewInv
<1> SUFFICES ASSUME Init PROVE ViewInv
  OBVIOUS
<1>1. PICK c \in Checkpoints :
        /\ status = c.status /\ elapsed = c.elapsed /\ phase = "top"
        /\ lastAt = c.elapsed /\ viewed = c.elapsed
  BY DEF Init
<1>2. c.status \in {"preparing", "paused", "completed"} /\ c.elapsed \in Nat
  BY ConstantsAssumption DEF ConstantsAssumption, ValidCheckpoint
<1>3. status \in {"preparing", "paused", "completed"} /\ viewed <= elapsed /\ lastAt <= elapsed
  BY <1>1, <1>2
<1> QED BY <1>1, <1>3 DEF ViewInv

\* The invariant of the timeline with what was viewed.
LEMMA ViewHolds == Spec => [](TypeOK /\ PhaseInv /\ QueueInv /\ ClockInv /\ ViewInv)
<1>1. TypeOK /\ TypeOK' /\ PhaseInv /\ QueueInv /\ ClockInv /\ ViewInv /\ [Next]_vars => ViewInv'
  BY ViewStep
<1> QED BY <1>1, ClockHolds, ViewInit, PTL DEF Spec

\* A request being handled has no answer yet, and only the step that answers
\* it gives it one.
LEMMA UnansweredWhileHandled ==
    ASSUME TypeOK, PhaseInv, PlaceInv, [Next]_vars, cur.kind = "view", reply'[cur.client] = "ok"
    PROVE  View
<1>1. cur \in Requests /\ cur.client \in Clients /\ cur # NoRequest
  <2>1. NoRequest.kind # "view"
    BY DEF NoRequest
  <2>2. cur \in Requests
    BY <2>1 DEF TypeOK
  <2> QED BY <2>2, RequestsHaveClients
<1>2. reply[cur.client] = NoReply /\ NoReply # "ok"
  BY <1>1 DEF PlaceInv, NoReply
<1>3. UNCHANGED reply => FALSE
  BY <1>2
<1>4. ASSUME NEW r, Finish(r), r # "ok" PROVE FALSE
  BY <1>1, <1>4 DEF Finish, TypeOK
<1>5. phase \in {"handle", "gate", "due"}
  BY <1>1 DEF PhaseInv, TypeOK
<1>6. ASSUME NEW drained, Handle(drained) PROVE FALSE
  BY <1>3, <1>6 DEF Handle
<1>7. CASE \/ Dequeue \/ SelectWake \/ SelectTimer \/ FiredWithRequest \/ FiredRunning
           \/ FiredCountdown \/ FiredDone \/ AfterRequest
           \/ LateCountdown \/ BeginDue \/ ProcessDue
  BY <1>3, <1>6, <1>7
     DEF Dequeue, SelectWake, SelectTimer, FiredWithRequest, FiredRunning, FiredCountdown, FiredDone,
         AfterRequest, LateCountdown, BeginDue, ProcessDue
<1>8. CASE Replay
  BY <1>8 DEF Replay, Replayable, ActionKinds, LifecycleKinds
<1>9. CASE RefuseEnded \/ RefuseStatus
  BY <1>4, <1>9 DEF RefuseEnded, RefuseStatus
<1>10. CASE DueEnded
  BY <1>4, <1>10 DEF DueEnded
<1>11. CASE \/ Start \/ Pause \/ Resume \/ StartAction \/ Submit \/ PauseAction \/ ResumeAction
            \/ CompleteAction \/ Snapshot \/ Close
  BY <1>11
     DEF Start, Pause, Resume, StartAction, Submit, PauseAction, ResumeAction, CompleteAction,
         Snapshot, Close, Acting
<1>12. CASE Tick
  BY <1>3, <1>12 DEF Tick
<1>13. CASE ClientStep
  <2>1. ASSUME NEW c \in Clients, Return(c) PROVE FALSE
    BY <1>1, <1>2, <2>1 DEF Return, TypeOK
  <2> QED BY <1>3, <1>13, <2>1 DEF ClientStep, Admit, Wake
<1>14. CASE UNCHANGED vars
  BY <1>3, <1>14 DEF vars
<1> QED
  BY <1>7, <1>8, <1>9, <1>10, <1>11, <1>12, <1>13, <1>14 DEF Next, LoopStep

\* Whatever is queued, paused, resumed or delayed in between, a later View
\* never shows an earlier moment, nor one before an action that was executed.
THEOREM ViewsNeverMoveBack == Spec => ViewsMonotone
<1>1. ASSUME TypeOK, PhaseInv, ClockInv, ViewInv, PlaceInv, [Next]_vars
      PROVE  (cur.kind = "view" /\ reply'[cur.client] = "ok")
               => (viewed' >= viewed /\ viewed' >= lastAt)
  BY <1>1, UnansweredWhileHandled, ViewShows
<1>2. (TypeOK /\ PhaseInv /\ QueueInv /\ ClockInv /\ ViewInv) /\ PlaceInv /\ [Next]_vars
        => [(cur.kind = "view" /\ reply'[cur.client] = "ok")
              => (viewed' >= viewed /\ viewed' >= lastAt)]_vars
  BY <1>1
<1> QED BY <1>2, ViewHolds, PlacesHold, PTL DEF Spec, ViewsMonotone
=============================================================================
