----------------------------- MODULE Sequencer -----------------------------
(***************************************************************************)
(* The authoritative sequencer of a real-time trading day                  *)
(* (internal/realtime/sequencer.go).                                       *)
(*                                                                         *)
(* Client goroutines admit requests under the admission mutex, which       *)
(* stamps each with its receipt time and appends it to `pending', then     *)
(* send on the one-slot `wake' channel and wait for their reply.  One      *)
(* goroutine runs the loop of run(): it dequeues requests, waits on wake   *)
(* and on its timer, and executes the scheduled actions that are due       *)
(* before whatever a request asks for.  The goroutine is cut at the points *)
(* where another goroutine or the clock can be seen to move: the dequeue,  *)
(* the select, each scheduled action, and the end of the handler.          *)
(*                                                                         *)
(* The executor, the replay lookup, the schedule and the clock are         *)
(* parameters of the code (Config).  The executor is any choice of a       *)
(* disposition; the replay lookup answers from what the executor recorded, *)
(* as the server's does; the schedule is a fixed list of due times; the    *)
(* clock is monotonic, as the comment on Clock demands, and a clock, timer *)
(* or schedule that panics is left out.                                    *)
(***************************************************************************)
EXTENDS Integers, Sequences, FiniteSets

CONSTANTS
    Clients,            \* goroutines that call the sequencer
    ActionIDs,          \* identifiers of participant actions
    Kinds,              \* the request kinds the clients use
    Dues,               \* due times of the schedule, in order
    Countdown,          \* Config.Countdown
    DurableLifecycle,   \* Config.DurableLifecycle (with a replay lookup)
    Checkpoints,        \* the checkpoints the sequencer may start from
    MaxTime,            \* bound on the wall clock
    MaxRequests         \* bound on the number of admitted requests

LifecycleKinds == {"startAction", "pauseAction", "resumeAction", "completeAction"}
ActionKinds    == LifecycleKinds \cup {"submit"}
ControlKinds   == {"start", "pause", "resume", "view", "snapshot", "close"}
RequestKinds   == ActionKinds \cup ControlKinds

Statuses ==
    {"preparing", "countdown", "running", "paused", "completed", "failed", "closed"}

Dispositions == {"continue", "complete", "reject", "fail"}

\* What a caller gets back: no error, the executor's rejection, ErrInvalidState,
\* ErrFailed or ErrClosed.
Replies == {"ok", "rejected", "invalid", "failed", "closed"}

NoID     == "no id"
NoReply  == "no reply"
NoTimer  == -1
NoRecord == [kind |-> "none", disposition |-> "none"]

Records == {NoRecord} \cup [kind : ActionKinds, disposition : {"continue", "complete", "reject"}]

\* validateCheckpoint: only a non-active lifecycle can be restored.  The
\* schedule of a restored day has been advanced by replay, so its head is not
\* due before the restored time.
ValidCheckpoint(c) ==
    /\ c.status \in {"preparing", "paused", "completed"}
    /\ c.elapsed \in Nat /\ c.sequence \in Nat
    /\ c.nextScheduled \in 0..Len(Dues)
    /\ c.nextScheduled <= c.sequence
    /\ c.status = "preparing" => c.elapsed = 0 /\ c.nextScheduled = 0 /\ c.sequence = 0
    /\ c.status = "completed" => c.sequence > 0
    /\ \A k \in 1..Len(Dues) :
         /\ k <= c.nextScheduled => Dues[k] <= c.elapsed
         /\ k > c.nextScheduled  => Dues[k] >= c.elapsed

ASSUME ConstantsAssumption ==
    /\ Kinds \subseteq RequestKinds
    /\ Dues \in Seq(Nat)
    /\ \A j, k \in 1..Len(Dues) : j <= k => Dues[j] <= Dues[k]
    /\ Countdown \in Nat \ {0}
    /\ DurableLifecycle \in BOOLEAN
    /\ MaxTime \in Nat /\ MaxRequests \in Nat
    /\ NoID \notin ActionIDs
    /\ "none" \notin Clients
    /\ \A c \in Checkpoints : ValidCheckpoint(c)

VARIABLES
    now,              \* the clock
    accepting,        \* s.accepting, false once Close has run
    pending,          \* s.pending, in order of admission
    wake,             \* whether the one-slot wake channel is full
    client,           \* where each client is: idle, waking or waiting
    reply,            \* what is in each client's reply channel
    admitted,         \* how many requests were admitted (bounds the model)
    phase,            \* where the loop is
    cur,              \* the request being handled, or NoRequest
    viaTimer,         \* cur was dequeued after the timer channel was drained
    firedAt,          \* the time received from the timer channel
    target,           \* the logical time due work is processed up to
    status,           \* lifecycle status
    elapsed,          \* logical time at the last anchor
    anchor,           \* wall time from which a running day counts
    countdownAnchor,  \* wall time at which the countdown began
    nextScheduled,    \* how many scheduled actions were committed
    sequence,         \* how many actions were executed
    timer,            \* wall time at which the armed timer fires, or NoTimer
    recorded,         \* what the replay lookup finds for an identifier
    attempts,         \* how often each participant action was executed
    lastAt,           \* logical time of the last executed action
    viewed            \* the last logical time shown by a View

admission == <<accepting, pending, wake, client, admitted>>
loop      == <<phase, cur, viaTimer, firedAt, target>>
day       == <<status, elapsed, anchor, countdownAnchor, nextScheduled, timer>>
history   == <<sequence, recorded, attempts, lastAt, viewed>>
vars      == <<now, admission, reply, loop, day, history>>

NoRequest == [client |-> "none", kind |-> "none", id |-> NoID, received |-> 0]

Requests ==
    [client : Clients, kind : RequestKinds, id : ActionIDs \cup {NoID}, received : Nat]

-----------------------------------------------------------------------------
(* Time *)

Max0(n) == IF n > 0 THEN n ELSE 0

\* Mutant of LogicalFrom: a receipt before the anchor runs time backwards.
LogicalFromUnclamped(s, base, from, at) ==
    IF s # "running" THEN base ELSE base + (at - from)

\* logicalAt for a given status, base and anchor.
LogicalFrom(s, base, from, at) ==
    IF s # "running" \/ at < from THEN base ELSE base + (at - from)

LogicalAt(at) == LogicalFrom(status, elapsed, anchor, at)

\* loadCandidate: the head of the schedule.
HasCandidate == nextScheduled < Len(Dues)
CandidateDue == Dues[nextScheduled + 1]

\* armTimerAt: a running day with a candidate waits until it is due.
ArmTimerAt(s, base, from) ==
    timer' = IF s = "running" /\ HasCandidate
               THEN now + Max0(CandidateDue - LogicalFrom(s, base, from, now))
               ELSE NoTimer

ArmTimer == ArmTimerAt(status, elapsed, anchor)

StopTimer == timer' = NoTimer

-----------------------------------------------------------------------------
(* Clients: request(), and the callers that wait in it *)

\* The shutdown mutex lets one Close be in flight.
CloseInFlight ==
    \/ cur.kind = "close"
    \/ \E i \in 1..Len(pending) : pending[i].kind = "close"

IDsFor(kind) == IF kind \in ActionKinds THEN ActionIDs ELSE {NoID}

\* Under the admission mutex the request is stamped and queued.
Admit(c, kind, id) ==
    /\ client[c] = "idle" /\ accepting
    /\ admitted < MaxRequests
    /\ kind = "close" => ~CloseInFlight
    /\ pending' = Append(pending, [client |-> c, kind |-> kind, id |-> id, received |-> now])
    /\ client' = [client EXCEPT ![c] = "waking"]
    /\ admitted' = admitted + 1
    /\ UNCHANGED <<now, accepting, wake, reply, loop, day, history>>

\* Mutant of Wake: no send while a timer is armed, as that wakes the loop too.
WakeUnlessTimer(c) ==
    /\ client[c] = "waking"
    /\ client' = [client EXCEPT ![c] = "waiting"]
    /\ wake' = (wake \/ timer = NoTimer)
    /\ UNCHANGED <<now, accepting, pending, admitted, reply, loop, day, history>>

\* After the mutex is released: a send that never blocks.
Wake(c) ==
    /\ client[c] = "waking"
    /\ client' = [client EXCEPT ![c] = "waiting"]
    /\ wake' = TRUE
    /\ UNCHANGED <<now, accepting, pending, admitted, reply, loop, day, history>>

\* return <-req.reply: the caller has no other way out.
Return(c) ==
    /\ client[c] = "waiting" /\ reply[c] # NoReply
    /\ client' = [client EXCEPT ![c] = "idle"]
    /\ reply' = [reply EXCEPT ![c] = NoReply]
    /\ UNCHANGED <<now, accepting, pending, wake, admitted, loop, day, history>>

\* The clock moves whatever the goroutines do.
Tick ==
    /\ now < MaxTime
    /\ now' = now + 1
    /\ UNCHANGED <<admission, reply, loop, day, history>>

-----------------------------------------------------------------------------
(* Executing an action *)

\* Mutant of Execute: a failed action is recorded as well.
ExecuteRecordsFailure(req, at, disposition) ==
    /\ sequence' = sequence + 1
    /\ lastAt' = at
    /\ attempts' = [id \in ActionIDs |-> IF id = req.id THEN attempts[id] + 1 ELSE attempts[id]]
    /\ recorded' =
         [id \in ActionIDs |->
            IF DurableLifecycle /\ id = req.id
              THEN [kind |-> req.kind, disposition |-> disposition]
              ELSE recorded[id]]
    /\ UNCHANGED viewed

\* execute(): the sequence advances whatever the executor decides.  What a
\* durable executor does not fail it has recorded, rejections included.
Execute(req, at, disposition) ==
    /\ sequence' = sequence + 1
    /\ lastAt' = at
    /\ attempts' = [id \in ActionIDs |-> IF id = req.id THEN attempts[id] + 1 ELSE attempts[id]]
    /\ recorded' =
         [id \in ActionIDs |->
            IF DurableLifecycle /\ id = req.id /\ disposition # "fail"
              THEN [kind |-> req.kind, disposition |-> disposition]
              ELSE recorded[id]]
    /\ UNCHANGED viewed

\* fail()
Fail(at) ==
    /\ status' = "failed" /\ elapsed' = at
    /\ StopTimer
    /\ UNCHANGED <<anchor, countdownAnchor, nextScheduled>>

\* completeCountdown(): the countdown action must continue, and the day then
\* runs from the clock as read after it.
CompleteCountdown ==
    \E d \in Dispositions :
        /\ Execute(NoRequest, 0, d)
        /\ \/ /\ d = "continue"
              /\ status' = "running" /\ anchor' = now
              /\ ArmTimerAt("running", elapsed, now)
              /\ UNCHANGED <<elapsed, countdownAnchor, nextScheduled>>
           \/ d # "continue" /\ Fail(0)

\* An iteration of processDue(): the head of the schedule is executed at its
\* own due time, then committed.
\* Mutant of DueBy: what is due exactly at the receipt is left for later.
DueByStrict(t) == HasCandidate /\ CandidateDue < t

DueBy(t) == HasCandidate /\ CandidateDue <= t

\* Mutant of ProcessDue: the loop goes on after an action completed the day.
ProcessDuePastEnd ==
    /\ phase = "due" /\ status \in {"running", "completed"} /\ DueBy(target)
    /\ \E d \in Dispositions :
         /\ Execute(NoRequest, CandidateDue, d)
         /\ nextScheduled' = nextScheduled + 1
         /\ status' = IF d = "complete" THEN "completed" ELSE status
         /\ UNCHANGED <<elapsed, anchor, countdownAnchor, timer>>
    /\ UNCHANGED <<now, admission, reply, loop>>

ProcessDue ==
    /\ phase = "due" /\ status = "running" /\ DueBy(target)
    /\ \E d \in Dispositions :
         /\ Execute(NoRequest, CandidateDue, d)
         /\ \/ /\ d = "continue"
               /\ nextScheduled' = nextScheduled + 1
               /\ UNCHANGED <<status, elapsed, anchor, countdownAnchor, timer>>
            \/ /\ d = "complete"
               /\ nextScheduled' = nextScheduled + 1
               /\ status' = "completed" /\ elapsed' = CandidateDue
               /\ StopTimer
               /\ UNCHANGED <<anchor, countdownAnchor>>
            \/ d \in {"reject", "fail"} /\ Fail(CandidateDue)
    /\ UNCHANGED <<now, admission, reply, loop>>

DueDone == phase = "due" /\ ~(status = "running" /\ DueBy(target))

-----------------------------------------------------------------------------
(* The loop of run() *)

\* The locals of an iteration are dead once it is over.
Forget == viaTimer' = FALSE /\ firedAt' = 0 /\ target' = 0

Handle(drained) ==
    /\ pending # <<>>
    /\ cur' = Head(pending) /\ pending' = Tail(pending)
    /\ phase' = "handle" /\ viaTimer' = drained
    /\ firedAt' = 0 /\ target' = 0
    /\ UNCHANGED <<now, accepting, wake, client, admitted, reply, day, history>>

\* Requests that wait at the admission point come before timers.
Dequeue ==
    /\ phase = "top"
    /\ \/ Handle(FALSE)
       \/ /\ pending = <<>>
          /\ phase' = "select"
          /\ UNCHANGED <<now, admission, reply, cur, viaTimer, firedAt, target, day, history>>

SelectWake ==
    /\ phase = "select" /\ wake
    /\ wake' = FALSE /\ phase' = "top"
    /\ UNCHANGED <<now, accepting, pending, client, admitted, reply,
                   cur, viaTimer, firedAt, target, day, history>>

\* The channel delivers the time at which the timer fired, and is then empty.
SelectTimer ==
    /\ phase = "select" /\ timer # NoTimer /\ timer <= now
    /\ firedAt' \in timer..now
    /\ StopTimer
    /\ phase' = "fired"
    /\ UNCHANGED <<now, admission, reply, cur, viaTimer, target,
                   status, elapsed, anchor, countdownAnchor, nextScheduled, history>>

\* A request that was admitted before the timer was consumed is handled instead.
FiredWithRequest == phase = "fired" /\ Handle(TRUE)

FiredRunning ==
    /\ phase = "fired" /\ pending = <<>> /\ status = "running"
    /\ phase' = "due" /\ target' = LogicalAt(firedAt)
    /\ UNCHANGED <<now, admission, reply, cur, viaTimer, firedAt, day, history>>

FiredCountdown ==
    /\ phase = "fired" /\ pending = <<>> /\ status = "countdown"
    /\ CompleteCountdown
    /\ phase' = "top" /\ Forget
    /\ UNCHANGED <<now, admission, reply, cur>>

\* Mutant of FiredDone: the timer is not armed again.
FiredDoneUnarmed ==
    /\ DueDone /\ cur = NoRequest
    /\ phase' = "top" /\ Forget
    /\ UNCHANGED <<now, admission, reply, cur, day, history>>

\* The timer's own work is done: armTimer restores it if the day still runs.
FiredDone ==
    /\ DueDone /\ cur = NoRequest
    /\ ArmTimer
    /\ phase' = "top" /\ Forget
    /\ UNCHANGED <<now, admission, reply, cur, status, elapsed, anchor,
                   countdownAnchor, nextScheduled, history>>

\* Mutant of RearmCountdown: the consumed countdown timer stays lost.
RearmNothing == UNCHANGED timer

\* After a request that was handled in place of the timer, a countdown that
\* is left without a timer gets it back.
RearmCountdown ==
    IF status = "countdown" /\ timer = NoTimer
      THEN timer' = now + Max0(countdownAnchor + Countdown - now)
      ELSE UNCHANGED timer

AfterRequest ==
    /\ phase = "after"
    /\ RearmCountdown
    /\ phase' = "top"
    /\ UNCHANGED <<now, admission, reply, cur, viaTimer, firedAt, target, status,
                   elapsed, anchor, countdownAnchor, nextScheduled, history>>

-----------------------------------------------------------------------------
(* handleRequest() *)

Finish(r) ==
    /\ reply' = [reply EXCEPT ![cur.client] = r]
    /\ cur' = NoRequest
    /\ phase' = IF viaTimer THEN "after" ELSE "top"
    /\ Forget
    /\ UNCHANGED <<now, admission>>

\* Mutant of Replayable: a recorded rejection is executed again.
ReplayableUnlessRejected ==
    cur.kind \in ActionKinds /\ recorded[cur.id].disposition \in {"continue", "complete"}

\* The identifier was recorded before: the original outcome is returned, and
\* nothing is executed, processed or armed.
Replayable == cur.kind \in ActionKinds /\ recorded[cur.id] # NoRecord

Replay ==
    /\ phase = "handle" /\ Replayable
    /\ Finish(IF recorded[cur.id].kind # cur.kind \/ recorded[cur.id].disposition = "reject"
                THEN "rejected" ELSE "ok")
    /\ UNCHANGED <<day, history>>

\* A request received at the countdown's deadline completes the countdown.
CountdownLapsed ==
    /\ cur.kind \in {"pauseAction", "completeAction", "submit", "view"}
    /\ status = "countdown"
    /\ cur.received >= countdownAnchor + Countdown

LateCountdown ==
    /\ phase = "handle" /\ ~Replayable /\ CountdownLapsed
    /\ CompleteCountdown
    /\ phase' = "gate"
    /\ UNCHANGED <<now, admission, reply, cur, viaTimer, firedAt, target>>

Gate == phase = "gate" \/ (phase = "handle" /\ ~Replayable /\ ~CountdownLapsed)

\* A failed or a completed day answers reads and Close only.
RefusedFailed    == status = "failed" /\ cur.kind \notin {"snapshot", "close"}
RefusedCompleted == status = "completed" /\ cur.kind \notin {"snapshot", "view", "close"}

RefuseEnded ==
    /\ Gate
    /\ \/ RefusedFailed /\ Finish("failed")
       \/ RefusedCompleted /\ Finish("invalid")
    /\ UNCHANGED <<day, history>>

\* The statuses in which each kind is served.  A durable lifecycle disables
\* the in-memory controls.
Served ==
    [ start          |-> IF DurableLifecycle THEN {} ELSE {"preparing"},
      pause          |-> IF DurableLifecycle THEN {} ELSE {"running"},
      resume         |-> IF DurableLifecycle THEN {} ELSE {"paused"},
      startAction    |-> {"preparing"},
      submit         |-> {"running"},
      pauseAction    |-> {"running", "countdown"},
      resumeAction   |-> {"paused"},
      completeAction |-> {"preparing", "countdown", "running", "paused"},
      view           |-> Statuses,
      snapshot       |-> Statuses,
      close          |-> Statuses ]

Open == Gate /\ ~RefusedFailed /\ ~RefusedCompleted /\ status \in Served[cur.kind]

RefuseStatus ==
    /\ Gate /\ ~RefusedFailed /\ ~RefusedCompleted
    /\ status \notin Served[cur.kind]
    /\ Finish("invalid")
    /\ UNCHANGED <<day, history>>

\* While the day runs, what is due at the receipt of a request comes first.
DueFirst == {"submit", "pause", "pauseAction", "completeAction", "view", "close"}

BeginDue ==
    /\ Open /\ status = "running" /\ cur.kind \in DueFirst
    /\ phase' = "due" /\ target' = LogicalAt(cur.received)
    /\ UNCHANGED <<now, admission, reply, cur, viaTimer, firedAt, day, history>>

\* Due work failed the day, or completed it.
DueEnded ==
    /\ DueDone /\ cur.kind \notin {"none", "close"}
    /\ \/ status = "failed" /\ Finish("failed")
       \/ /\ status = "completed" /\ cur.kind # "view"
          /\ Finish(IF cur.kind = "pause" THEN "ok" ELSE "invalid")
    /\ UNCHANGED <<day, history>>

\* The request's own work is next: at the receipt time once due work is done,
\* otherwise at the time at which the day stands.
Acting(kind) ==
    /\ cur.kind = kind
    /\ \/ DueDone /\ status = "running"
       \/ Open /\ (status # "running" \/ kind \notin DueFirst)

At == IF phase = "due" THEN target ELSE elapsed

\* In-memory controls, for callers that do not journal the lifecycle.
Start ==
    /\ Acting("start")
    /\ status' = "running" /\ elapsed' = 0 /\ anchor' = cur.received
    /\ ArmTimerAt("running", 0, cur.received)
    /\ Finish("ok")
    /\ UNCHANGED <<countdownAnchor, nextScheduled, history>>

Pause ==
    /\ Acting("pause")
    /\ status' = "paused" /\ elapsed' = target
    /\ StopTimer
    /\ Finish("ok")
    /\ UNCHANGED <<anchor, countdownAnchor, nextScheduled, history>>

Resume ==
    /\ Acting("resume")
    /\ status' = "running" /\ anchor' = cur.received
    /\ ArmTimerAt("running", elapsed, cur.received)
    /\ Finish("ok")
    /\ UNCHANGED <<elapsed, countdownAnchor, nextScheduled, history>>

\* The countdown runs from the clock as read after the action was executed.
StartAction ==
    /\ Acting("startAction")
    /\ \E d \in Dispositions :
         /\ Execute(cur, 0, d)
         /\ \/ /\ d = "continue"
               /\ status' = "countdown" /\ elapsed' = 0 /\ countdownAnchor' = now
               /\ timer' = now + Countdown
               /\ Finish("ok")
               /\ UNCHANGED <<anchor, nextScheduled>>
            \/ d = "reject" /\ Finish("rejected") /\ UNCHANGED day
            \/ d \in {"complete", "fail"} /\ Fail(0) /\ Finish("failed")

Submit ==
    /\ Acting("submit")
    /\ \E d \in Dispositions :
         /\ Execute(cur, target, d)
         /\ \/ /\ d \in {"continue", "reject"}
               /\ ArmTimer
               /\ Finish(IF d = "reject" THEN "rejected" ELSE "ok")
               /\ UNCHANGED <<status, elapsed, anchor, countdownAnchor, nextScheduled>>
            \/ /\ d = "complete"
               /\ status' = "completed" /\ elapsed' = target
               /\ StopTimer
               /\ Finish("ok")
               /\ UNCHANGED <<anchor, countdownAnchor, nextScheduled>>
            \/ d = "fail" /\ Fail(target) /\ Finish("failed")

\* Mutant of PauseAction: the day stops without keeping the time it reached.
PauseActionKeepsElapsed ==
    /\ Acting("pauseAction")
    /\ Execute(cur, At, "continue")
    /\ status' = "paused"
    /\ StopTimer
    /\ Finish("ok")
    /\ UNCHANGED <<elapsed, anchor, countdownAnchor, nextScheduled>>

\* A pause that is not recorded fails the day.  Countdown progress is discarded.
PauseAction ==
    /\ Acting("pauseAction")
    /\ \E d \in Dispositions :
         /\ Execute(cur, At, d)
         /\ \/ /\ d = "continue"
               /\ status' = "paused" /\ elapsed' = At
               /\ StopTimer
               /\ Finish("ok")
               /\ UNCHANGED <<anchor, countdownAnchor, nextScheduled>>
            \/ d # "continue" /\ Fail(At) /\ Finish("failed")

ResumeAction ==
    /\ Acting("resumeAction")
    /\ \E d \in Dispositions :
         /\ Execute(cur, elapsed, d)
         /\ \/ /\ d = "continue"
               /\ status' = "running" /\ anchor' = now
               /\ ArmTimerAt("running", elapsed, now)
               /\ Finish("ok")
               /\ UNCHANGED <<elapsed, countdownAnchor, nextScheduled>>
            \/ d # "continue" /\ Fail(elapsed) /\ Finish("failed")

CompleteAction ==
    /\ Acting("completeAction")
    /\ \E d \in Dispositions :
         /\ Execute(cur, At, d)
         /\ \/ /\ d = "complete"
               /\ status' = "completed" /\ elapsed' = At
               /\ StopTimer
               /\ Finish("ok")
               /\ UNCHANGED <<anchor, countdownAnchor, nextScheduled>>
            \/ /\ d = "reject"
               /\ IF status = "running" THEN ArmTimer ELSE UNCHANGED timer
               /\ Finish("rejected")
               /\ UNCHANGED <<status, elapsed, anchor, countdownAnchor, nextScheduled>>
            \/ d \in {"continue", "fail"} /\ Fail(At) /\ Finish("failed")

\* A view shows the day at the receipt of the request, due work included.
View ==
    /\ \/ Acting("view")
       \/ DueDone /\ cur.kind = "view" /\ status = "completed"
    /\ viewed' = LogicalAt(cur.received)
    /\ IF status = "running" THEN ArmTimer ELSE UNCHANGED timer
    /\ Finish("ok")
    /\ UNCHANGED <<status, elapsed, anchor, countdownAnchor, nextScheduled,
                   sequence, recorded, attempts, lastAt>>

Snapshot ==
    /\ Acting("snapshot")
    /\ Finish("ok")
    /\ UNCHANGED <<day, history>>

\* Mutant of Close: what is still queued is dropped without an answer.
CloseDropsPending ==
    /\ cur.kind = "close"
    /\ DueDone \/ (Open /\ status # "running")
    /\ status' = "closed"
    /\ StopTimer
    /\ accepting' = FALSE /\ pending' = <<>>
    /\ reply' = [reply EXCEPT ![cur.client] = "ok"]
    /\ cur' = NoRequest /\ phase' = "exit" /\ Forget
    /\ UNCHANGED <<now, wake, client, admitted, elapsed, anchor, countdownAnchor, nextScheduled, history>>

\* Close freezes a day that runs or counts down, stops admission, and answers
\* what is still queued with ErrClosed.
Close ==
    /\ cur.kind = "close"
    /\ DueDone \/ (Open /\ status # "running")
    /\ elapsed' = CASE status = "running"   -> target
                    [] status = "countdown" -> 0
                    [] OTHER                -> elapsed
    /\ status' = "closed"
    /\ StopTimer
    /\ accepting' = FALSE /\ pending' = <<>>
    /\ reply' = [c \in Clients |->
                   CASE c = cur.client -> IF status = "failed" THEN "failed" ELSE "ok"
                     [] \E i \in 1..Len(pending) : pending[i].client = c -> "closed"
                     [] OTHER -> reply[c]]
    /\ cur' = NoRequest /\ phase' = "exit" /\ Forget
    /\ UNCHANGED <<now, wake, client, admitted, anchor, countdownAnchor, nextScheduled, history>>

-----------------------------------------------------------------------------
(* The specification *)

\* NewConfigured: the goroutine starts from a checkpoint.
Init ==
    \E c \in Checkpoints :
        /\ now = 0
        /\ accepting = TRUE /\ pending = <<>> /\ wake = FALSE
        /\ client = [d \in Clients |-> "idle"]
        /\ reply = [d \in Clients |-> NoReply]
        /\ admitted = 0
        /\ phase = "top" /\ cur = NoRequest
        /\ viaTimer = FALSE /\ firedAt = 0 /\ target = 0
        /\ status = c.status /\ elapsed = c.elapsed
        /\ anchor = 0 /\ countdownAnchor = 0
        /\ nextScheduled = c.nextScheduled /\ sequence = c.sequence
        /\ timer = NoTimer
        /\ recorded = [id \in ActionIDs |-> NoRecord]
        /\ attempts = [id \in ActionIDs |-> 0]
        /\ lastAt = c.elapsed /\ viewed = c.elapsed

LoopStep ==
    \/ Dequeue \/ SelectWake \/ SelectTimer
    \/ FiredWithRequest \/ FiredRunning \/ FiredCountdown \/ FiredDone \/ AfterRequest
    \/ Replay \/ LateCountdown \/ RefuseEnded \/ RefuseStatus
    \/ BeginDue \/ ProcessDue \/ DueEnded
    \/ Start \/ Pause \/ Resume
    \/ StartAction \/ Submit \/ PauseAction \/ ResumeAction \/ CompleteAction
    \/ View \/ Snapshot \/ Close

ClientStep ==
    \E c \in Clients :
        \/ \E kind \in Kinds : \E id \in IDsFor(kind) : Admit(c, kind, id)
        \/ Wake(c)
        \/ Return(c)

Next == LoopStep \/ ClientStep \/ Tick

Spec == Init /\ [][Next]_vars

\* The scheduler runs every goroutine that can run, the executor returns (the
\* comment on Executor demands it), and time passes.  No client has to call.
Fairness ==
    /\ WF_vars(LoopStep)
    /\ WF_vars(Tick)
    /\ \A c \in Clients : WF_vars(Wake(c)) /\ WF_vars(Return(c))

FairSpec == Spec /\ Fairness

-----------------------------------------------------------------------------
(* Properties *)

\* Every variable holds a value of its kind.
TypeOK ==
    /\ now \in Nat /\ accepting \in BOOLEAN /\ wake \in BOOLEAN
    /\ pending \in Seq(Requests)
    /\ client \in [Clients -> {"idle", "waking", "waiting"}]
    /\ reply \in [Clients -> Replies \cup {NoReply}]
    /\ admitted \in Nat
    /\ phase \in {"top", "select", "fired", "handle", "gate", "due", "after", "exit"}
    /\ cur \in Requests \cup {NoRequest}
    /\ viaTimer \in BOOLEAN /\ firedAt \in Nat /\ target \in Nat
    /\ status \in Statuses /\ elapsed \in Nat
    /\ anchor \in Nat /\ countdownAnchor \in Nat
    /\ nextScheduled \in 0..Len(Dues) /\ sequence \in Nat
    /\ timer \in Nat \cup {NoTimer}
    /\ recorded \in [ActionIDs -> Records]
    /\ attempts \in [ActionIDs -> Nat]
    /\ lastAt \in Nat /\ viewed \in Nat

\* The day's timeline never moves back: an action executes at a logical time
\* no earlier than the one before it, whichever of timer, requests, pauses and
\* resumes drove either (logicalAt, processDue and the receipt stamps).
TimelineMonotone == [][lastAt' >= lastAt]_vars

\* A participant's action executes only after every scheduled action that was
\* due when it was received (processDue before execute in handleRequest).
DueBeforeParticipant ==
    [][(status = "running" /\ \E id \in ActionIDs : attempts'[id] # attempts[id])
         => ~(HasCandidate /\ CandidateDue <= lastAt')]_vars

\* What a View shows never moves back, and never shows a moment before an
\* action that was already executed (View after processDue, logicalAt).
ViewsMonotone ==
    [][(cur.kind = "view" /\ reply'[cur.client] = "ok")
         => (viewed' >= viewed /\ viewed' >= lastAt)]_vars

\* A journalled identifier executes once, however often it is retried and
\* whatever the first execution decided (replay lookup, the failed gate).
ExecutedAtMostOnce ==
    DurableLifecycle => \A id \in ActionIDs : attempts[id] <= 1

\* No lost wake-up: while the loop waits, a queued request has its wake in the
\* channel or its client is about to send it (request(), the one-slot wake).
NoLostWakeup ==
    (phase = "select" /\ pending # <<>>) => (wake \/ \E c \in Clients : client[c] = "waking")

\* A caller that waits has exactly one of: a place in the queue, the loop's
\* attention, or an answer (the buffered reply channels, stopAdmission).
AnsweredOnce ==
    \A c \in Clients :
        Cardinality({i \in 1..Len(pending) : pending[i].client = c})
          + (IF cur.client = c THEN 1 ELSE 0)
          + (IF reply[c] # NoReply THEN 1 ELSE 0)
        = (IF client[c] = "idle" THEN 0 ELSE 1)

\* An ended day stays ended and executes nothing more (the failed and completed
\* gates, Close).
EndedStaysEnded ==
    [][(status \in {"completed", "failed", "closed"})
         => (status' \in {status, "closed"} /\ UNCHANGED <<elapsed, nextScheduled, sequence>>)]_vars

\* A countdown that waits always has a timer that fires by its deadline, or now
\* (armCountdownTimer, and rearmCountdownTimer when a request took its place).
CountdownArmed ==
    (phase = "select" /\ status = "countdown")
        => timer # NoTimer /\ (timer <= countdownAnchor + Countdown \/ timer <= now)

\* Every admitted request is answered (request() waits for nothing else).
EveryRequestAnswered ==
    \A c \in Clients : (client[c] # "idle") ~> (client[c] = "idle")

\* A countdown at its deadline ends, whatever the clients do or do not do.
CountdownEnds ==
    (status = "countdown" /\ now >= countdownAnchor + Countdown) ~> (status # "countdown")

\* A running day progresses without player input: a scheduled action that is
\* due gets executed, or the day stops running (the timer of armTimerAt).
DueWorkHappens ==
    \A k \in 0..Len(Dues) - 1 :
        (status = "running" /\ nextScheduled = k /\ CandidateDue <= LogicalAt(now))
            ~> (nextScheduled > k \/ status # "running")
=============================================================================
