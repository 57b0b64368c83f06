----------------------------- MODULE EventLog ------------------------------
(***************************************************************************)
(* The event log of one game (internal/eventlog/log.go): a file of JSON    *)
(* lines, the Log that one process keeps in memory about it, and the       *)
(* failures of writes and syncs, of the process and of the machine.        *)
(*                                                                         *)
(* A line is a record or Torn, a line cut short, which can only be last.   *)
(* Sizes count lines.  Append, Recover, Sync and Open run under the log's  *)
(* mutex in the one process that owns the directory, so each is a step;    *)
(* what a crash inside of one leaves behind is what its failure leaves     *)
(* behind, followed by a crash.  A failure that leaves nothing behind, and *)
(* a record that is refused, are no step.                                  *)
(*                                                                         *)
(* The file as processes see it is `file', what is known to be on the      *)
(* medium `disk'.  A successful sync makes them equal; a machine crash     *)
(* leaves disk or any part of what was written since.  Checksums, file     *)
(* identity, metadata and the older schemas are left out: nothing but the  *)
(* log writes to the file.                                                 *)
(***************************************************************************)
EXTENDS Integers, Sequences, SequencesExt

CONSTANTS
    IDs,          \* identifiers of commands and actions
    CreateID,     \* the identifier that created the game
    Kinds,        \* the kinds of records the owner appends
    MaxElapsed,   \* bound on the logical time of a record
    MaxLines,     \* maxEventsBytes, in lines
    RealTime      \* the game's mode

Lifecycles == {"preparing", "countdown", "running", "paused", "completed"}

RealTimeKinds == {"start", "countdown", "pause", "resume", "quit", "quote", "market", "expired"}

Participant == {"start", "quote", "resume", "quit"}

ASSUME LogAssumption ==
    /\ CreateID \notin IDs
    /\ Kinds \subseteq (IF RealTime THEN RealTimeKinds ELSE {"command"})
    /\ MaxElapsed \in Nat /\ MaxLines \in Nat /\ RealTime \in BOOLEAN

VARIABLES
    file,   \* the lines of events.jsonl
    disk,   \* the lines a machine crash cannot take away
    log,    \* the Log, with the phase of its owner
    acked   \* the records that some caller was told are committed

vars == <<file, disk, log, acked>>

Torn == [version |-> 0]

IsTorn(lines) == lines # <<>> /\ Last(lines) = Torn

\* loadRecords() cuts an unterminated last line.
Complete(lines) == IF IsTorn(lines) THEN Front(lines) ELSE lines

Records ==
    [version : 1..MaxLines, id : IDs, kind : Kinds, elapsed : 0..MaxElapsed,
     rejected : BOOLEAN, over : BOOLEAN, lifecycle : Lifecycles \cup {"none"}]

-----------------------------------------------------------------------------
(* Validation *)

\* validateLifecycleTransition(): where the session goes, or "invalid".
LifecycleAfter(previous, r) ==
    IF \/ previous = "completed"
       \/ /\ r.kind \in {"start", "countdown"} \/ (r.kind = "pause" /\ previous = "countdown")
          /\ r.elapsed # 0
      THEN "invalid" ELSE
    CASE r.kind = "start" /\ previous = "preparing" ->
           IF r.rejected THEN previous ELSE "countdown"
      [] r.kind = "countdown" /\ previous = "countdown" /\ ~r.rejected -> "running"
      [] r.kind = "pause" /\ previous \in {"running", "countdown"} /\ ~r.rejected -> "paused"
      [] r.kind = "resume" /\ previous = "paused" /\ ~r.rejected -> "running"
      [] r.kind = "quit" /\ (r.rejected \/ r.over) ->
           IF r.rejected THEN previous ELSE "completed"
      [] r.kind = "quote" /\ previous = "running" ->
           IF r.over /\ ~r.rejected THEN "completed" ELSE previous
      [] r.kind = "market" /\ previous = "running" /\ ~r.rejected ->
           IF r.over THEN "completed" ELSE previous
      [] r.kind = "expired" /\ previous = "running" /\ ~r.rejected /\ r.over -> "completed"
      [] OTHER -> "invalid"

\* Mutant of Valid: logical time may move back.
ValidUntimed(l, r) ==
    /\ r.version = l.next
    /\ r.id \notin l.ids
    /\ RealTime => r.lifecycle = LifecycleAfter(l.lifecycle, r)

\* validateRecordInput() and validateRecord(), against what precedes.
Valid(l, r) ==
    /\ r.version = l.next
    /\ r.id \notin l.ids
    /\ IF RealTime
         THEN /\ r.elapsed >= l.elapsed
              /\ r.rejected => r.kind \in Participant
              /\ r.lifecycle = LifecycleAfter(l.lifecycle, r)
         ELSE r.elapsed = 0 /\ ~r.rejected /\ r.lifecycle = "none"

\* createAtWithMode(): the Log of a new game.
NewLog ==
    [phase |-> "active", next |-> 1, ids |-> {CreateID}, elapsed |-> 0,
     lifecycle |-> IF RealTime THEN "preparing" ELSE "none", size |-> 0]

\* The Log after a record.
Advance(l, r) ==
    [l EXCEPT !.next = @ + 1, !.ids = @ \cup {r.id}, !.elapsed = r.elapsed,
              !.lifecycle = r.lifecycle, !.size = @ + 1]

\* parseRecords(): the lines read one by one; `ok' is lost on the first that
\* is not valid, and what follows it is not looked at.
ParseLine(p, line) ==
    IF p.ok /\ line # Torn /\ Valid(p.log, line)
      THEN [p EXCEPT !.log = Advance(@, line), !.records = Append(@, line)]
      ELSE [p EXCEPT !.ok = FALSE]

Parse(lines, from) == FoldLeft(ParseLine, [ok |-> TRUE, log |-> from, records |-> <<>>], lines)

-----------------------------------------------------------------------------
(* The operations *)

\* Mutant of Unextended: a file with an uncertain line passes.
UnextendedOrLonger == Len(file) >= log.size

\* verifyActiveFile(), for a file nobody else replaces.
Unextended == Len(file) = log.size

Closed == [NewLog EXCEPT !.phase = "closed"]

\* Mutant of Append1: acknowledged before it is synced.
AppendUnsynced(r) ==
    /\ log.phase = "active" /\ Valid(log, r)
    /\ Unextended /\ log.size < MaxLines
    /\ file' = Append(file, r)
    /\ log' = Advance(log, r)
    /\ acked' = Append(acked, r)
    /\ UNCHANGED disk

\* Append(): written, synced and only then acknowledged.
Append1(r) ==
    /\ log.phase = "active" /\ Valid(log, r)
    /\ Unextended /\ log.size < MaxLines
    /\ file' = Append(file, r) /\ disk' = file'
    /\ log' = Advance(log, r)
    /\ acked' = Append(acked, r)

\* Mutant of AppendFails: the Log moves before the outcome is known.
AppendFailsAdvanced(r) ==
    /\ log.phase = "active" /\ Valid(log, r)
    /\ Unextended /\ log.size < MaxLines
    /\ \E line \in {r, Torn} : file' = Append(file, line)
    /\ log' = Advance(log, r)
    /\ UNCHANGED <<disk, acked>>

\* The write is cut short, or the sync or what follows it fails: an error is
\* returned and the Log does not move.
AppendFails(r) ==
    /\ log.phase = "active" /\ Valid(log, r)
    /\ Unextended /\ log.size < MaxLines
    /\ \E line \in {r, Torn} : file' = Append(file, line)
    /\ disk' = disk \/ (file' = Append(file, r) /\ disk' = file')
    /\ UNCHANGED <<log, acked>>

\* recoverData(): the acknowledged prefix must be what the Log knows; of the
\* rest, complete valid records stay and everything after them is cut.
Acknowledged == Parse(SubSeq(file, 1, log.size), NewLog)

PrefixHolds ==
    /\ Len(file) >= log.size
    /\ Acknowledged.ok
    /\ Acknowledged.log = log

Recovered == Parse(SubSeq(file, log.size + 1, Len(file)), log)

RecoveredFile == SubSeq(file, 1, log.size) \o Recovered.records

\* Mutant of Recover: the identifiers it found are not remembered.
RecoverForgetsIDs ==
    /\ log.phase = "active" /\ PrefixHolds
    /\ file' = RecoveredFile /\ disk' = file'
    /\ log' = [Recovered.log EXCEPT !.ids = log.ids]
    /\ acked' = file'

Recover ==
    /\ log.phase = "active" /\ PrefixHolds
    /\ file' = RecoveredFile /\ disk' = file'
    /\ log' = Recovered.log
    /\ acked' = file'

\* The file was cut but the sync failed.
RecoverFails ==
    /\ log.phase = "active" /\ PrefixHolds
    /\ file' = RecoveredFile
    /\ UNCHANGED <<disk, log, acked>>

\* Open(): the whole file must be valid, an unterminated last line aside.
Loaded == Parse(Complete(file), NewLog)

Open ==
    /\ log.phase = "closed"
    /\ file' = Complete(file)
    /\ disk' = IF IsTorn(file) THEN file' ELSE disk
    /\ log' = IF Loaded.ok THEN [Loaded.log EXCEPT !.phase = "opened"] ELSE log
    /\ UNCHANGED acked

\* The last line was cut but the sync failed.
OpenFails ==
    /\ log.phase = "closed" /\ IsTorn(file)
    /\ file' = Complete(file)
    /\ UNCHANGED <<disk, log, acked>>

\* loadLocked() serves nothing from a log it could not Sync().
Sync ==
    /\ log.phase = "opened" /\ Unextended
    /\ disk' = file
    /\ log' = [log EXCEPT !.phase = "active"]
    /\ acked' = file
    /\ UNCHANGED file

SyncFails ==
    /\ log.phase = "opened"
    /\ log' = Closed
    /\ UNCHANGED <<file, disk, acked>>

\* The process ends, the files stay.
ProcessCrash ==
    /\ log.phase # "closed"
    /\ log' = Closed
    /\ UNCHANGED <<file, disk, acked>>

\* The machine ends: the disk as it was, or with a part of what was written.
Surviving ==
    {disk}
      \cup {SubSeq(file, 1, n) : n \in Len(LongestCommonPrefix({disk, file}))..Len(file)}
      \cup {SubSeq(file, 1, n) \o <<Torn>> :
              n \in Len(LongestCommonPrefix({disk, file}))..Len(file) - 1}

MachineCrash ==
    /\ file' \in Surviving
    /\ disk' = file'
    /\ log' = Closed
    /\ UNCHANGED acked

-----------------------------------------------------------------------------

Init ==
    /\ file = <<>> /\ disk = <<>>
    /\ log = NewLog
    /\ acked = <<>>

\* A record the owner can build for the log as it stands.
Candidates ==
    {[version |-> log.next, id |-> id, kind |-> kind, elapsed |-> elapsed, rejected |-> rejected,
      over |-> over, lifecycle |-> lifecycle] :
        id \in IDs, kind \in Kinds, elapsed \in 0..MaxElapsed, rejected \in BOOLEAN,
        over \in BOOLEAN, lifecycle \in Lifecycles \cup {"none"}}

Next ==
    \/ \E r \in Candidates : Append1(r) \/ AppendFails(r)
    \/ Recover \/ RecoverFails
    \/ Open \/ OpenFails \/ Sync \/ SyncFails
    \/ ProcessCrash \/ MachineCrash

Spec == Init /\ [][Next]_vars

-----------------------------------------------------------------------------
(* Properties *)

\* What a caller was told is committed is in the file and on the disk, and
\* stays there whatever fails or crashes ("each record is fsynced before
\* acknowledgement").
AcknowledgedSurvives == IsPrefix(acked, file) /\ IsPrefix(acked, disk)

\* The game can always be opened: no sequence of failed appends, recoveries and
\* crashes leaves a file whose complete lines are not one valid session, now or
\* after a crash (Open, parseRecords).
AlwaysLoadable == \A lines \in Surviving : Parse(Complete(lines), NewLog).ok

\* The recovery of an active log cannot be refused: what it knows is the
\* acknowledged prefix (recoverData, matchesAcknowledgedRecords).
RecoverNeverRefused == log.phase = "active" => PrefixHolds

\* At most one record is uncertain at a time, and nothing is appended after it
\* before it is resolved (the size check of verifyActiveFile); it counts towards
\* the limit of the file like any other.
OneUncertain ==
    /\ Len(file) <= MaxLines
    /\ log.phase = "active" => Len(acked) = log.size /\ Len(file) <= log.size + 1

\* The log implements the promise: what callers were told grows one record at
\* a time into a legal session.
Promise == INSTANCE CommandLog WITH committed <- acked

ImplementsCommandLog == Promise!Spec
=============================================================================
