---------------------------- MODULE GameSession ----------------------------
(***************************************************************************)
(* One game of the server (cmd/server/exchange.go): the entry that holds   *)
(* its engine and its records in memory, the log it appends to, and, for a *)
(* real-time game, the sequencer and the generator, through failed         *)
(* appends, crashes, reloads and shutdowns.                                *)
(*                                                                         *)
(* Module Sequencer has the goroutines inside of the sequencer and module  *)
(* EventLog the file under the log.  Here the sequencer is a status, a     *)
(* logical time and the request its loop is at; each action it executes is *)
(* a step, because the process can end between any two.  The file is the   *)
(* sequence of its complete records, the last of them in doubt while no    *)
(* sync has confirmed it.                                                  *)
(*                                                                         *)
(* The engine is deterministic and is reduced to how many changes it made  *)
(* and whether the game is over; module Exchange has the rest.  Creation,  *)
(* coaching, recaps and the older schemas are left out.  A clock or a      *)
(* schedule that panics is left out too.                                   *)
(***************************************************************************)
EXTENDS Generator, Sequences, SequencesExt

CONSTANTS
    IDs,          \* command ids of clients, none of them the create command's
                  \* or with the prefix of the system's
    Modes,        \* play modes a game may be created in
    Seeds,        \* what the random streams of a game may draw, and after how
                  \* many changes a market action ruins the player; the last
                  \* interval of a stream is drawn again and again
    Openings,     \* what the opening quotes of clients may be
    MaxArg,       \* bound on the revisions and versions clients expect
    MaxRecords    \* bound on the records of the log

TurnBased == "turn_based"
RealTime  == "real_time"

\* Opening quotes, and the argument of a quote at the revision it expects: the
\* engine refuses the crossed ones.
Sound   == 0
Crossed == 1
CrossedQuote == 0

\* The identifiers that the program gives to actions of its own, which clients
\* may not use (SystemActionIDPrefix).
SystemIDs ==
    ((ScheduledKinds \cup {"recovery", "shutdown", "loop"}) \X Nat) \cup ({"countdown"} \X IDs)

ASSUME SessionAssumption ==
    /\ Modes \subseteq {TurnBased, RealTime}
    /\ \A id \in IDs : id \notin SystemIDs
    /\ \A s \in Seeds : /\ s.customer \in Seq(CustomerCadence) \ {<<>>}
                        /\ s.mark \in Seq(MarkCadence) \ {<<>>}
    /\ Openings \subseteq {Sound, Crossed}
    /\ MaxArg \in Nat /\ MaxRecords \in Nat

VARIABLES
    mode, seed,  \* fixed by the creation of the game
    file,        \* the complete records of events.jsonl
    doubtful,    \* whether the last of them may not be on the medium
    loaded,      \* whether the server holds the entry
    failed,      \* entry.storageFailed
    commands,    \* entry.commands, in the order of their versions
    engine,      \* entry.engine: its changes, and whether the game is over
    revision,    \* entry.realtimeExec.quoteRevision
    status,      \* the sequencer's status, "none" before there is one
    elapsed,     \* its logical time
    job,         \* the request its loop is processing
    stopping,    \* how far Shutdown is
    pauseNumber, \* the number in the name of the pause that it is to send
    broken,      \* whether an error of the engine failed the sequencer
    told,        \* the answers about committed commands that clients got
    shown        \* the last state a client was shown

fixed   == <<mode, seed>>
storage == <<file, doubtful>>
memory  == <<commands, engine, revision, generator>>
loop    == <<status, elapsed, job>>
shutdown == <<stopping, pauseNumber, broken>>
clients == <<told, shown>>
vars    == <<fixed, storage, loaded, failed, memory, loop, shutdown, clients>>

Lifecycles == {"preparing", "countdown", "running", "paused", "completed"}
Active     == {"countdown", "running"}

\* What may end the game by ruining the player.
EngineKinds == MarketKinds \cup {"submit_quote"}

\* Actions from outside of the schedule, as replay sees them.
ExternalKinds == {"quote", "pause", "resume", "quit"}

Action(id, kind, arg) == [id |-> id, kind |-> kind, arg |-> arg]

NoJob    == Action(<<"loop", 0>>, "none", 0)
TimerJob == Action(<<"loop", 0>>, "timer", 0)
ViewJob  == Action(<<"loop", 0>>, "view", 0)

\* What clients send: the argument is the revision or version they expect, the
\* opening quote, or the sign of a crossed quote.
Requests ==
    IF mode = RealTime
      THEN {Action(id, "start", opening) : id \in IDs, opening \in Openings}
             \cup {Action(id, "quote", n) : id \in IDs, n \in 0..MaxArg}
             \cup {Action(id, kind, 0) : id \in IDs, kind \in {"pause", "resume", "quit"}}
      ELSE {Action(id, kind, n) : id \in IDs, kind \in {"submit_quote", "quit"}, n \in 0..MaxArg}

\* The initial lifecycle is the metadata's; afterwards it is the last record's.
LifecycleOf(records) == IF records = <<>> THEN "preparing" ELSE Last(records).lifecycle
ElapsedOf(records)   == IF records = <<>> THEN 0 ELSE Last(records).elapsed

-----------------------------------------------------------------------------
(* Executing an action *)

Changed(e, over) == [applied |-> e.applied + 1, over |-> over]

Accept(e, rev) == [rejection |-> "none", engine |-> e, revision |-> rev]
Reject(code, e, rev) == [rejection |-> code, engine |-> e, revision |-> rev]

\* executeParticipant() for a quote, which moves the revision.
Quote(e, rev) == Accept(Changed(e, FALSE), rev + 1)

\* ValidateRealTimeQuote() and UpdateQuote() refuse the prices.
Refuses(a) ==
    \/ a.kind = "start" /\ a.arg = Crossed
    \/ a.kind = "quote" /\ a.arg = CrossedQuote

\* Mutant of Execute: a day resumed out of its countdown has no quote yet.
ExecuteNoOpening(a, e, rev) ==
    CASE Refuses(a) -> Reject("command_rejected", e, rev)
      [] a.kind = "countdown" -> Quote(e, rev)
      [] a.kind = "quote" /\ ~Refuses(a) /\ a.arg = rev -> Quote(e, rev)
      [] a.kind = "quote" /\ ~Refuses(a) /\ a.arg # rev -> Reject("quote_revision_conflict", e, rev)
      [] a.kind \in EngineKinds -> Accept(Changed(e, e.applied + 1 = seed.ruin), rev)
      [] a.kind \in {"quit", "expired"} -> Accept(Changed(e, TRUE), rev)
      [] OTHER -> Accept(e, rev)

\* Mutant of Execute: the revision a client expects is not looked at.
ExecuteAnyRevision(a, e, rev) ==
    CASE Refuses(a) -> Reject("command_rejected", e, rev)
      [] a.kind = "countdown" \/ (a.kind = "quote" /\ ~Refuses(a)) -> Quote(e, rev)
      [] a.kind = "resume" /\ rev = 0 -> Quote(e, rev)
      [] a.kind \in EngineKinds -> Accept(Changed(e, e.applied + 1 = seed.ruin), rev)
      [] a.kind \in {"quit", "expired"} -> Accept(Changed(e, TRUE), rev)
      [] OTHER -> Accept(e, rev)

\* The switch of executeRealTimeAction() with the executor behind it.  Only a
\* day that was paused out of its countdown resumes without a quote.
Execute(a, e, rev) ==
    CASE Refuses(a) -> Reject("command_rejected", e, rev)
      [] a.kind = "countdown" \/ (a.kind = "resume" /\ rev = 0) -> Quote(e, rev)
      [] a.kind = "quote" /\ ~Refuses(a) /\ a.arg = rev -> Quote(e, rev)
      [] a.kind = "quote" /\ ~Refuses(a) /\ a.arg # rev -> Reject("quote_revision_conflict", e, rev)
      [] a.kind \in EngineKinds -> Accept(Changed(e, e.applied + 1 = seed.ruin), rev)
      [] a.kind \in {"quit", "expired"} -> Accept(Changed(e, TRUE), rev)
      [] OTHER -> Accept(e, rev)

\* The lifecycle that the record of the action carries.
LifecycleAfter(previous, a, out) ==
    CASE a.kind = "start" /\ out.rejection = "none" -> "countdown"
      [] a.kind \in {"countdown", "resume"} -> "running"
      [] a.kind = "pause" -> "paused"
      [] a.kind \notin {"start", "countdown", "resume", "pause"}
           /\ out.rejection = "none" /\ out.engine.over -> "completed"
      [] OTHER -> previous

Record(a, at, lifecycle, out) ==
    [id |-> a.id, kind |-> a.kind, arg |-> a.arg, elapsed |-> at, lifecycle |-> lifecycle,
     rejection |-> out.rejection, over |-> out.engine.over, result |-> out.engine.applied]

-----------------------------------------------------------------------------
(* Replay *)

\* What the log checks of a record on its own and against the one before.
Log == INSTANCE EventLog
         WITH RealTime <- TRUE, Kinds <- {}, CreateID <- "create", MaxElapsed <- Duration,
              MaxLines <- MaxRecords, disk <- file, log <- job, acked <- commands

LogKind(kind) == IF kind \in MarketKinds THEN "market" ELSE kind

LogAccepts(records, r) ==
    /\ \A i \in DOMAIN records : records[i].id # r.id
    /\ mode = RealTime =>
         /\ r.elapsed >= ElapsedOf(records)
         /\ r.lifecycle = Log!LifecycleAfter(LifecycleOf(records),
                [kind |-> LogKind(r.kind), elapsed |-> r.elapsed, over |-> r.over,
                 rejected |-> r.rejection # "none"])

\* The interval that the seed draws next for a kind.
Drawn(stream, n) == IF n \in DOMAIN stream THEN stream[n] ELSE Last(stream)

Draw(g, kind) ==
    CASE kind = "customer" -> Drawn(seed.customer, g.drawn["customer"] + 1)
      [] kind = "mark"     -> Drawn(seed.mark, g.drawn["mark"] + 1)
      [] OTHER             -> CarryCadence

ScheduledID(g, k) == <<k, g.candidates[k].sequence>>

Scheduled(g, k) == Action(ScheduledID(g, k), k, 0)

\* The head of the schedule is due at a time.
DueBy(g, at) == \E k \in Pending(g) : g.candidates[k].due <= at

\* newRealtimeRuntime() over a new engine.
NewRuntime ==
    [ok |-> TRUE, records |-> <<>>, engine |-> [applied |-> 0, over |-> FALSE], revision |-> 0,
     generator |-> NewGenerator(seed.customer[1], seed.mark[1])]

\* One turn of the loop of replayRealTimeRecords() or replayRecords(), after
\* the one of parseRecords(): the record must be what this game does next.
Replays(p, r, out) ==
    /\ LogAccepts(p.records, r)
    /\ r.kind \in ScheduledKinds =>
         /\ IsHead(p.generator, r.kind)
         /\ r.id = ScheduledID(p.generator, r.kind)
         /\ r.elapsed = p.generator.candidates[r.kind].due
    /\ mode = RealTime /\ r.kind \in ExternalKinds => ~DueBy(p.generator, r.elapsed)
    /\ out.rejection = r.rejection
    /\ out.engine = [applied |-> r.result, over |-> r.over]

Advanced(g, r) ==
    IF r.kind \in ScheduledKinds THEN CommitKind(g, r.kind, Draw(g, r.kind)) ELSE g

After(p, r, out) ==
    IF p.ok /\ Replays(p, r, out)
      THEN [ok |-> TRUE, records |-> Append(p.records, r), engine |-> out.engine,
            revision |-> out.revision, generator |-> Advanced(p.generator, r)]
      ELSE [p EXCEPT !.ok = FALSE]

ReplayRecord(p, r) == After(p, r, Execute(r, p.engine, p.revision))

Replay(records) == FoldLeft(ReplayRecord, NewRuntime, records)

-----------------------------------------------------------------------------
(* Committing an action *)

\* Mutant of Commits: the append returns before its sync.
CommitsUnsynced(r, out) ==
    /\ LogAccepts(commands, r)
    /\ file' = Append(file, r) /\ doubtful' = TRUE
    /\ commands' = Append(commands, r)
    /\ engine' = out.engine /\ revision' = out.revision
    /\ generator' = Advanced(generator, r)
    /\ UNCHANGED failed

\* executeRealTimeAction() up to a successful Append, and the commit of the
\* generator that follows it in the loop.
Commits(r, out) ==
    /\ LogAccepts(commands, r)
    /\ file' = Append(file, r) /\ doubtful' = FALSE
    /\ commands' = Append(commands, r)
    /\ engine' = out.engine /\ revision' = out.revision
    /\ generator' = Advanced(generator, r)
    /\ UNCHANGED failed

\* The append fails, with or without a line left in the file.  The engine has
\* moved and an entry with a sequencer cannot be rebuilt: it is fenced.
AppendFails(r, out) ==
    /\ \/ file' = Append(file, r) /\ doubtful' = TRUE
       \/ UNCHANGED storage
    /\ engine' = out.engine /\ revision' = out.revision
    /\ failed' = TRUE
    /\ UNCHANGED <<commands, generator>>

\* The record of an action executed by the entry as it stands.
RecordOf(a, at, out) == Record(a, at, LifecycleAfter(LifecycleOf(commands), a, out), out)

Outcome(a) == Execute(a, engine, revision)

\* The loop executes an action; the sequencer goes where the code takes it.
LoopExecutes(a, next) ==
    /\ Len(file) < MaxRecords
    /\ \/ Commits(RecordOf(a, elapsed, Outcome(a)), Outcome(a)) /\ status' = next
       \/ AppendFails(RecordOf(a, elapsed, Outcome(a)), Outcome(a)) /\ status' = "failed"
    /\ UNCHANGED <<fixed, loaded>>

-----------------------------------------------------------------------------
(* The sequencer *)

Idle == status # "none" /\ job = NoJob

\* ensureRealTimeSequencer(), for the first request that needs a sequencer:
\* validateCheckpoint() takes what replay left.
CheckpointValid ==
    CASE LifecycleOf(commands) = "preparing" -> commands = <<>>
      [] LifecycleOf(commands) = "completed" -> commands # <<>>
      [] OTHER -> LifecycleOf(commands) = "paused"

BuildSequencer ==
    /\ loaded /\ mode = RealTime /\ status = "none" /\ stopping = "up"
    /\ CheckpointValid
    /\ status' = LifecycleOf(commands)
    /\ elapsed' = ElapsedOf(commands)
    /\ UNCHANGED <<fixed, storage, loaded, failed, memory, job, shutdown, clients>>

\* Market time passes only while the day runs; the timer may lag behind it.
Tick ==
    /\ Idle /\ status = "running" /\ elapsed <= Duration
    /\ elapsed' = elapsed + 1
    /\ UNCHANGED <<fixed, storage, loaded, failed, memory, status, job, shutdown, clients>>

TimerFires ==
    /\ Idle /\ status = "running" /\ DueBy(generator, elapsed)
    /\ job' = TimerJob
    /\ UNCHANGED <<fixed, storage, loaded, failed, memory, status, elapsed, shutdown, clients>>

\* completeCountdown(): the action is named after the start that it ends.
CountdownCompletes ==
    /\ Idle /\ status = "countdown"
    /\ LoopExecutes(Action(<<"countdown", Last(commands).id>>, "countdown", 0), "running")
    /\ UNCHANGED <<elapsed, job, shutdown, clients>>

\* Mutant of Admitted: a failed sequencer still serves views.
AdmittedAfterFailure(kind) ==
    CASE kind = "start"  -> status = "preparing"
      [] kind = "quote"  -> status = "running"
      [] kind = "pause"  -> status \in Active
      [] kind = "resume" -> status = "paused"
      [] kind = "quit"   -> status \in Active \cup {"preparing", "paused"}
      [] kind = "view"   -> TRUE

\* Where each kind of action is admitted, and where it leads when accepted.
Admitted(kind) ==
    CASE kind = "start"  -> status = "preparing"
      [] kind = "quote"  -> status = "running"
      [] kind = "pause"  -> status \in Active
      [] kind = "resume" -> status = "paused"
      [] kind = "quit"   -> status \in Active \cup {"preparing", "paused"}
      [] kind = "view"   -> status # "failed"

Leads(a, out) ==
    CASE out.rejection # "none" -> status
      [] OTHER -> LifecycleAfter(status, a, out)

\* A request is dequeued that no record answers.
Receive(a) ==
    /\ Idle /\ stopping = "up"
    /\ \A r \in Range(commands) : r.id # a.id
    /\ Admitted(a.kind)
    /\ job' = a
    /\ UNCHANGED <<fixed, storage, loaded, failed, memory, status, elapsed, shutdown, clients>>

\* processDue(): each scheduled action at its own time.
ExecuteDue(k) ==
    /\ job # NoJob /\ status = "running"
    /\ IsHead(generator, k) /\ generator.candidates[k].due <= elapsed
    /\ Len(file) < MaxRecords
    /\ LET a   == Scheduled(generator, k)
           out == Outcome(a)
           r   == RecordOf(a, generator.candidates[k].due, out)
       IN  \/ /\ Commits(r, out)
              /\ status' = r.lifecycle
              /\ elapsed' = IF r.lifecycle = "completed" THEN r.elapsed ELSE elapsed
              /\ job' = IF r.lifecycle = "completed" /\ job # ViewJob THEN NoJob ELSE job
           \/ /\ AppendFails(r, out)
              /\ status' = "failed" /\ elapsed' = r.elapsed /\ job' = NoJob
    /\ UNCHANGED <<fixed, loaded, shutdown, clients>>

\* The engine meets an error in a scheduled action, the fall of the mark to
\* nothing or a customer who knows that it comes: no record is appended, and
\* the entry is not fenced.
DueActionFails(k) ==
    /\ job # NoJob /\ status = "running"
    /\ IsHead(generator, k) /\ generator.candidates[k].due <= elapsed
    /\ status' = "failed" /\ broken' = TRUE
    /\ elapsed' = generator.candidates[k].due /\ job' = NoJob
    /\ UNCHANGED <<fixed, storage, loaded, failed, memory, stopping, pauseNumber, clients>>

\* Mutant of DueDone: a request is handled as soon as it is received.
DueDoneSkipped == TRUE

\* Nothing is left that was due when the request was received.
DueDone == status = "running" => ~DueBy(generator, elapsed)

Answer(r, at) == [id |-> r.id, kind |-> r.kind, arg |-> r.arg, at |-> at, rejection |-> r.rejection]

Seen == [through |-> Len(commands), engine |-> engine, revision |-> revision]

\* The loop turns to the request itself, at its logical time, once nothing is
\* due before it; the handler tells the client what became a record.
Finish ==
    /\ job \notin {NoJob, TimerJob, ViewJob} /\ DueDone
    /\ LoopExecutes(job, Leads(job, Outcome(job)))
    /\ told' = IF commands' # commands /\ job.id \in IDs
                 THEN told \cup {Answer(Last(commands'), Len(commands'))}
                 ELSE told
    /\ job' = NoJob
    /\ UNCHANGED <<elapsed, shutdown, shown>>

FinishView ==
    /\ job = ViewJob /\ DueDone
    /\ shown' = Seen
    /\ job' = NoJob
    /\ UNCHANGED <<fixed, storage, loaded, failed, memory, status, elapsed, shutdown, told>>

FinishTimer ==
    /\ job = TimerJob /\ DueDone
    /\ job' = NoJob
    /\ UNCHANGED <<fixed, storage, loaded, failed, memory, status, elapsed, shutdown, clients>>

\* A command whose id has a record is answered from it, before the sequencer's
\* state or the expected version is looked at; other contents conflict.  The
\* fence is read before a real-time game's sequencer is asked, so the sequencer
\* may have failed in between.
AnsweredFromRecord(a, i) ==
    /\ commands[i].id = a.id /\ commands[i].kind = a.kind /\ commands[i].arg = a.arg
    /\ told' = told \cup {Answer(commands[i], i)}

Retry(a) ==
    /\ loaded /\ stopping = "up"
    /\ IF mode = RealTime THEN Idle ELSE ~failed
    /\ \E i \in DOMAIN commands : AnsweredFromRecord(a, i)
    /\ UNCHANGED <<fixed, storage, loaded, failed, memory, loop, shutdown, shown>>

-----------------------------------------------------------------------------
(* The turn-based entry: a handler under the entry's mutex *)

\* handleExchangeCommand(), up to the engine.
TurnAdmitted(a) ==
    /\ mode = TurnBased /\ loaded /\ ~failed /\ stopping = "up"
    /\ \A r \in Range(commands) : r.id # a.id
    /\ a.arg = engine.applied
    /\ ~engine.over
    /\ Len(file) < MaxRecords

TurnRecord(a) == Record(a, 0, "none", Outcome(a))

TurnCommand(a) ==
    /\ TurnAdmitted(a)
    /\ Commits(TurnRecord(a), Outcome(a))
    /\ told' = told \cup {Answer(TurnRecord(a), Len(commands'))}
    /\ UNCHANGED <<fixed, loaded, loop, shutdown, shown>>

\* recover(): the entry is rebuilt from what the log recovered and synced.
Rebuild(p) ==
    /\ p.ok
    /\ commands' = file' /\ engine' = p.engine /\ revision' = p.revision
    /\ generator' = p.generator
    /\ failed' = FALSE /\ doubtful' = FALSE

\* Mutant of TurnCommandFails: a failed recovery does not fence the entry.
TurnCommandFailsUnfenced(a) ==
    /\ TurnAdmitted(a)
    /\ file' \in {file, Append(file, TurnRecord(a))}
    /\ engine' = Outcome(a).engine
    /\ doubtful' = (file' # file)
    /\ UNCHANGED <<fixed, loaded, failed, commands, revision, generator, loop, shutdown, clients>>

\* The append fails: the entry is recovered, or else fenced.
TurnCommandFails(a) ==
    /\ TurnAdmitted(a)
    /\ file' \in {file, Append(file, TurnRecord(a))}
    /\ \/ Rebuild(Replay(file'))
       \/ /\ failed' = TRUE /\ engine' = Outcome(a).engine
          /\ doubtful' = (file' # file)
          /\ UNCHANGED <<commands, revision, generator>>
    /\ UNCHANGED <<fixed, loaded, loop, shutdown, clients>>

TurnView ==
    /\ mode = TurnBased /\ loaded /\ ~failed /\ stopping = "up"
    /\ shown' = Seen
    /\ UNCHANGED <<fixed, storage, loaded, failed, memory, loop, shutdown, told>>

-----------------------------------------------------------------------------
(* Ends and beginnings of the process *)

Forget ==
    /\ loaded' = FALSE /\ failed' = FALSE /\ commands' = <<>>
    /\ engine' = NewRuntime.engine /\ revision' = 0 /\ generator' = NewRuntime.generator
    /\ status' = "none" /\ elapsed' = 0 /\ job' = NoJob
    /\ stopping' = "up" /\ pauseNumber' = 0 /\ broken' = FALSE
    /\ UNCHANGED <<fixed, clients>>

\* The process ends, by itself or not; what it wrote stays.
ProcessEnds == loaded /\ Forget /\ UNCHANGED storage

\* The machine ends: a record in doubt is there afterwards, or is not.
MachineCrash ==
    /\ file' \in {file} \cup (IF doubtful THEN {Front(file)} ELSE {})
    /\ doubtful' = FALSE
    /\ Forget

RecoveryPause == Action(<<"recovery", Len(file)>>, "pause", 0)

PauseRecord(out) == Record(RecoveryPause, ElapsedOf(file), "paused", out)

\* Mutant of Load: an interrupted day is not paused.
LoadRunning(p) ==
    /\ ~loaded /\ p.ok
    /\ loaded' = TRUE /\ doubtful' = FALSE
    /\ commands' = file /\ engine' = p.engine /\ revision' = p.revision
    /\ generator' = p.generator
    /\ UNCHANGED <<fixed, file, failed, loop, shutdown, clients>>

\* loadLocked(), where the log opens, syncs and replays: a day that was
\* interrupted gets a recovery pause at its last committed time.
Load(p) ==
    /\ ~loaded /\ p.ok
    /\ loaded' = TRUE /\ doubtful' = FALSE
    /\ engine' = p.engine /\ revision' = p.revision /\ generator' = p.generator
    /\ IF mode = RealTime /\ LifecycleOf(file) \in Active
         THEN /\ Len(file) < MaxRecords
              /\ file' = Append(file, PauseRecord(Execute(RecoveryPause, p.engine, p.revision)))
         ELSE UNCHANGED file
    /\ commands' = file'
    /\ UNCHANGED <<fixed, failed, loop, shutdown, clients>>

\* The recovery pause may be in the file although its append failed; the entry
\* is not kept.
LoadFails(p) ==
    /\ ~loaded /\ p.ok
    /\ mode = RealTime /\ LifecycleOf(file) \in Active /\ Len(file) < MaxRecords
    /\ file' = Append(file, PauseRecord(Execute(RecoveryPause, p.engine, p.revision)))
    /\ doubtful' = TRUE
    /\ UNCHANGED <<fixed, loaded, failed, memory, loop, shutdown, clients>>

-----------------------------------------------------------------------------
(* Shutdown *)

\* serve(): the listener is drained before the runtime is shut down.
Drain ==
    /\ loaded /\ stopping = "up" /\ job \in {NoJob, TimerJob}
    /\ stopping' = IF status = "none" THEN "stopped" ELSE "drained"
    /\ UNCHANGED <<fixed, storage, loaded, failed, memory, loop, pauseNumber, broken, clients>>

\* The pause is named after the sequence of the Snapshot; scheduled actions can
\* be committed before it is sent.
ShutdownSnapshot ==
    /\ stopping = "drained" /\ Idle
    /\ IF status \in Active
         THEN stopping' = "snapped" /\ pauseNumber' = Len(commands) + 1
         ELSE stopping' = "closing" /\ UNCHANGED pauseNumber
    /\ UNCHANGED <<fixed, storage, loaded, failed, memory, loop, broken, clients>>

ShutdownPause == Action(<<"shutdown", pauseNumber>>, "pause", 0)

\* Mutant of Settled: a pause that fails is an error in any case.
SettledNever == FALSE

\* A pause that is refused, or fails, is an error unless the day completed.
Settled == status = "completed"

SendShutdownPause ==
    /\ stopping = "snapped" /\ Idle
    /\ IF Admitted("pause")
         THEN job' = ShutdownPause /\ stopping' = "pausing"
         ELSE UNCHANGED job /\ stopping' = IF Settled THEN "closing" ELSE "aborted"
    /\ UNCHANGED <<fixed, storage, loaded, failed, memory, status, elapsed, pauseNumber, broken>>
    /\ UNCHANGED clients

ShutdownPauseReturns ==
    /\ stopping = "pausing" /\ Idle
    /\ stopping' = IF status = "paused" \/ Settled THEN "closing" ELSE "aborted"
    /\ UNCHANGED <<fixed, storage, loaded, failed, memory, loop, pauseNumber, broken, clients>>

\* Shutdown() of the sequencer, whose error is the failure it had.
ShutdownCloses ==
    /\ stopping = "closing" /\ Idle
    /\ stopping' = IF status = "failed" THEN "aborted" ELSE "stopped"
    /\ status' = "closed"
    /\ UNCHANGED <<fixed, storage, loaded, failed, memory, elapsed, job, pauseNumber, broken>>
    /\ UNCHANGED clients

-----------------------------------------------------------------------------

Init ==
    /\ mode \in Modes /\ seed \in Seeds
    /\ file = <<>> /\ doubtful = FALSE
    /\ loaded = TRUE /\ failed = FALSE
    /\ commands = <<>> /\ engine = NewRuntime.engine /\ revision = 0
    /\ generator = NewRuntime.generator
    /\ status = "none" /\ elapsed = 0 /\ job = NoJob
    /\ stopping = "up" /\ pauseNumber = 0 /\ broken = FALSE
    /\ told = {} /\ shown = [through |-> 0, engine |-> NewRuntime.engine, revision |-> 0]

RealTimeNext ==
    \/ BuildSequencer \/ Tick \/ TimerFires \/ CountdownCompletes
    \/ \E a \in Requests \cup {ViewJob} : Receive(a)
    \/ \E k \in ScheduledKinds : ExecuteDue(k)
    \/ \E k \in {"customer", "mark"} : DueActionFails(k)
    \/ Finish \/ FinishView \/ FinishTimer

ShutdownNext ==
    Drain \/ ShutdownSnapshot \/ SendShutdownPause \/ ShutdownPauseReturns \/ ShutdownCloses

Next ==
    \/ RealTimeNext
    \/ ShutdownNext
    \/ \E a \in Requests : TurnCommand(a) \/ TurnCommandFails(a) \/ Retry(a)
    \/ TurnView
    \/ ProcessEnds \/ MachineCrash
    \/ Load(Replay(file)) \/ LoadFails(Replay(file))

Spec == Init /\ [][Next]_vars

-----------------------------------------------------------------------------
(* Properties *)

\* What survives a crash of the machine.
Durable == IF doubtful THEN Front(file) ELSE file

\* The log can always be replayed: nothing that failed appends, crashes,
\* reloads and retries leave in it makes replayRealTimeRecords, replayRecords
\* or the log's own validation refuse it, which would take the game away.
LogReplays == Replay(file).ok /\ Replay(Durable).ok

\* The entry that serves a game is the one a replay of its log would build, to
\* the engine, the quote revision and the cursor of the generator
\* (executeRealTimeAction and recover against replayRealTimeRecords).
MemoryMatchesLog ==
    loaded /\ ~failed =>
        /\ commands = file
        /\ [ok |-> TRUE, records |-> commands, engine |-> engine, revision |-> revision,
            generator |-> generator] = Replay(file)

\* What a client was told of a command is record `at' of the log and stays so:
\* no crash, fence or reload loses it, and no retry is told anything else.
ToldIsRecorded ==
    \A t \in told : t.at <= Len(Durable) /\ t = Answer(Durable[t.at], t.at)

\* No client is shown a state that a crash can take back: what was shown is
\* what the records it goes through replay to ("do not publish uncommitted
\* state").
ShownIsRecorded ==
    /\ shown.through <= Len(Durable)
    /\ LET p == Replay(SubSeq(Durable, 1, shown.through))
       IN  p.engine = shown.engine /\ p.revision = shown.revision

Accepted(i, kind) == file[i].kind = kind /\ file[i].rejection = "none"

\* A day that runs has had its opening quote, also when it was paused out of
\* its countdown, lost with the process and resumed from the log
\* (openingQuoteFromRecords).
RunningDayIsQuoted ==
    loaded /\ ~failed /\ LifecycleOf(commands) = "running" => revision > 0

\* No two accepted quotes were sent against the same quote revision, whatever
\* happened in between: a crash does not make an old revision current again.
RevisionUsedOnce ==
    \A i, j \in DOMAIN file :
        i < j /\ Accepted(i, "quote") /\ Accepted(j, "quote") => file[i].arg < file[j].arg

\* A day that the server loads, or creates, is not running before a client
\* resumes it, however it was interrupted ("Process restart restores
\* interrupted solo sessions as paused").
RestoredAsPaused ==
    loaded /\ mode = RealTime /\ status = "none" => LifecycleOf(commands) \notin Active

\* A shutdown that succeeds leaves no day running in the log, and one that
\* fails does so because an append or the engine did: the day that ends by
\* itself while it is being paused is no error.
ShutdownSettles ==
    /\ stopping = "stopped" /\ mode = RealTime => LifecycleOf(file) \notin Active
    /\ stopping = "aborted" => failed \/ broken

\* The server can always build the sequencer of a game it loaded
\* (validateCheckpoint): it can be played on, or at least be looked at.
RestoredDayIsServed ==
    loaded /\ mode = RealTime /\ status = "none" => CheckpointValid
=============================================================================
