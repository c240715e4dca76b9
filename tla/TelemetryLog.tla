---------------------------- MODULE TelemetryLog ----------------------------
(***************************************************************************)
(* The bounded JSONL log of src/crates/libmcp/src/telemetry.rs: several    *)
(* TelemetryLog instances append to one file, in threads of one process    *)
(* and in processes of their own.                                          *)
(*                                                                         *)
(* A record is a row of cells, the last one standing for its newline.  The *)
(* system may take the bytes of one write_all in several pieces.  A mutex  *)
(* orders the threads of a process, and a lock on the file the processes.  *)
(* Any operation on the file may fail, and a process may be killed.        *)
(***************************************************************************)
EXTENDS Integers, Sequences, FiniteSets

CONSTANTS
    Logs,          \* the instances
    ProcessOf,     \* [Logs -> a process]
    Lengths,       \* the lengths an event may have
    SnapshotLength,
    MaxBytes,      \* TELEMETRY_MAX_BYTES
    SnapshotEvery,
    NoLog,
    Events, Troubles  \* the bounds: [Logs -> records], failures and kills

ASSUME LogAssumption ==
    /\ MaxBytes \in Nat /\ SnapshotEvery \in Nat \ {0}
    /\ Lengths \cup {SnapshotLength} \subseteq Nat \ {0}
    /\ NoLog \notin Logs /\ Events \in [Logs -> Nat] /\ Troubles \in Nat

VARIABLES
    file,      \* the cells: [log, number, cell, of]
    mutex,     \* [process -> the log that holds TELEMETRY_WRITE_LOCK]
    fileLock,  \* the log whose handle has the file locked
    log,       \* per instance: [at, kind, length, put, failed]
    begun,     \* records each instance has begun to write
    emitted,   \* emitted_tool_events of each instance
    counted,   \* the requests in its by_path
    whole,     \* history: events each instance has written to their end
    alive,     \* the processes that run
    troubles

logVars == <<file, mutex, fileLock, log, begun, emitted, counted, whole,
             alive, troubles>>

Processes == {ProcessOf[l] : l \in Logs}

Resting == [at |-> "Idle", kind |-> "event", length |-> 0, put |-> 0, failed |-> FALSE]

LogInit ==
    /\ file = <<>>
    /\ mutex = [p \in Processes |-> NoLog] /\ fileLock = NoLog
    /\ log = [l \in Logs |-> Resting]
    /\ begun = [l \in Logs |-> 0]
    /\ emitted = [l \in Logs |-> 0] /\ counted = [l \in Logs |-> 0]
    /\ whole = [l \in Logs |-> 0]
    /\ alive = Processes
    /\ troubles = Troubles

Runs(l) == ProcessOf[l] \in alive

Steps(l, from, to) ==
    /\ Runs(l)
    /\ log[l].at = from
    /\ log' = [log EXCEPT ![l].at = to]

\* The operation of l that is under way fails.
Trouble(l) ==
    /\ troubles > 0 /\ troubles' = troubles - 1
    /\ log' = [log EXCEPT ![l].at = "Unlocking", ![l].failed = TRUE]

Begins(l, kind, length) ==
    log' = [log EXCEPT ![l] = [Resting EXCEPT !.at = "Locking", !.kind = kind,
                                              !.length = length]]

countVars == <<emitted, counted, whole>>

-----------------------------------------------------------------------------
\* record_tool_completion, up to its first write.  The new counters are worked
\* out here, and assigned when the line is written.
RecordToolCompletion(l, length) ==
    /\ Runs(l) /\ log[l].at = "Idle"
    /\ begun[l] < Events[l]
    /\ begun' = [begun EXCEPT ![l] = @ + 1]
    /\ Begins(l, "event", length)
    /\ UNCHANGED <<file, mutex, fileLock, countVars, alive, troubles>>

\* write_json_line: the mutex of the process
LockProcess(l) ==
    LET p == ProcessOf[l] IN
    /\ mutex[p] = NoLog
    /\ Steps(l, "Locking", "LockingFile")
    /\ mutex' = [mutex EXCEPT ![p] = l]
    /\ UNCHANGED <<file, fileLock, begun, countVars, alive, troubles>>

\* Mutant: the file is not locked, or not for the other processes.
LockFileOfProcess(l) ==
    /\ Steps(l, "LockingFile", "Bounding")
    /\ fileLock' = l
    /\ UNCHANGED <<file, mutex, begun, countVars, alive, troubles>>

\* lock_file_append, which waits while another handle has the file locked
LockFile(l) ==
    /\ \/ /\ fileLock = NoLog
          /\ Steps(l, "LockingFile", "Bounding")
          /\ fileLock' = l
          /\ UNCHANGED troubles
       \/ /\ Runs(l) /\ log[l].at = "LockingFile"
          /\ Trouble(l)
          /\ UNCHANGED fileLock
    /\ UNCHANGED <<file, mutex, begun, countVars, alive>>

\* bounded_append: a record over the bound is refused, a file that would pass
\* the bound is emptied.
Bound(l) ==
    /\ Runs(l) /\ log[l].at = "Bounding"
    /\ IF log[l].length > MaxBytes
       THEN log' = [log EXCEPT ![l].at = "Unlocking", ![l].failed = TRUE]
            /\ UNCHANGED <<file, troubles>>
       ELSE \/ /\ Steps(l, "Bounding", "Writing")
               /\ file' = IF Len(file) + log[l].length > MaxBytes THEN <<>> ELSE file
               /\ UNCHANGED troubles
            \/ Trouble(l) /\ UNCHANGED file
    /\ UNCHANGED <<mutex, fileLock, begun, countVars, alive>>

Cells(l, first, last) ==
    [i \in 1..(last - first + 1) |->
        [log |-> l, number |-> begun[l], cell |-> first + i - 1, of |-> log[l].length]]

\* write_all: some of the cells that are left, at the end of the file
Write(l) ==
    /\ Runs(l) /\ log[l].at = "Writing"
    /\ \/ \E last \in (log[l].put + 1)..log[l].length :
            /\ file' = file \o Cells(l, log[l].put + 1, last)
            /\ log' = [log EXCEPT ![l].put = last,
                        ![l].at = IF last = log[l].length THEN "Flushing" ELSE @]
            /\ UNCHANGED troubles
       \/ Trouble(l) /\ UNCHANGED file
    /\ UNCHANGED <<mutex, fileLock, begun, countVars, alive>>

\* The flush policy; the line is in the file, whatever comes of it.
Flush(l) ==
    /\ Runs(l) /\ log[l].at = "Flushing"
    /\ \/ Steps(l, "Flushing", "Unlocking") /\ UNCHANGED troubles
       \/ Trouble(l)
    /\ whole' = IF log[l].kind = "event" THEN [whole EXCEPT ![l] = @ + 1] ELSE whole
    /\ UNCHANGED <<file, mutex, fileLock, begun, emitted, counted, alive>>

Unlocks(l) ==
    /\ fileLock' = IF fileLock = l THEN NoLog ELSE fileLock
    /\ mutex' = [mutex EXCEPT ![ProcessOf[l]] = NoLog]

\* The caller goes on: every so many events with a snapshot.
Follows(l) ==
    IF emitted'[l] % SnapshotEvery = 0
    THEN /\ Begins(l, "snapshot", SnapshotLength)
         /\ begun' = [begun EXCEPT ![l] = @ + 1]
    ELSE log' = [log EXCEPT ![l] = Resting] /\ UNCHANGED begun

\* Mutant: an event is counted when it is begun with, written or not.
ReturnCounting(l) ==
    /\ Runs(l) /\ log[l].at = "Unlocking"
    /\ Unlocks(l)
    /\ IF log[l].kind = "event"
       THEN /\ emitted' = [emitted EXCEPT ![l] = @ + 1]
            /\ Follows(l)
       ELSE log' = [log EXCEPT ![l] = Resting] /\ UNCHANGED <<begun, emitted>>
    /\ UNCHANGED <<file, counted, whole, alive, troubles>>

\* The end of write_json_line, and what its caller makes of the result: an
\* event that is written is counted, with or without a path; a snapshot that
\* fails is reported as a failure of the event before it.
Return(l) ==
    /\ Runs(l) /\ log[l].at = "Unlocking"
    /\ Unlocks(l)
    /\ IF log[l].kind = "event" /\ ~ log[l].failed
       THEN /\ emitted' = [emitted EXCEPT ![l] = @ + 1]
            /\ \E hinted \in {0, 1} : counted' = [counted EXCEPT ![l] = @ + hinted]
            /\ Follows(l)
       ELSE log' = [log EXCEPT ![l] = Resting] /\ UNCHANGED <<begun, emitted, counted>>
    /\ UNCHANGED <<file, whole, alive, troubles>>

\* The process is killed: its locks are released, what it has written stays.
Killed(p) ==
    /\ p \in alive /\ troubles > 0
    /\ troubles' = troubles - 1
    /\ alive' = alive \ {p}
    /\ mutex' = [mutex EXCEPT ![p] = NoLog]
    /\ fileLock' = IF fileLock # NoLog /\ ProcessOf[fileLock] = p THEN NoLog ELSE fileLock
    /\ UNCHANGED <<file, log, begun, countVars>>

LogNext ==
    \/ \E l \in Logs :
        \/ \E length \in Lengths : RecordToolCompletion(l, length)
        \/ LockProcess(l) \/ LockFile(l) \/ Bound(l) \/ Write(l) \/ Flush(l) \/ Return(l)
    \/ \E p \in Processes : Killed(p)

LogSpec == LogInit /\ [][LogNext]_logVars

-----------------------------------------------------------------------------
(* Properties                                                              *)

\* The cell at i is the first of its record, or follows the cell before it.
InPlace(i) ==
    \/ file[i].cell = 1
    \/ i > 1 /\ file[i - 1] = [file[i] EXCEPT !.cell = @ - 1]

\* The record of the cell at i goes no further.
Torn(i) ==
    /\ file[i].cell < file[i].of
    /\ i = Len(file) \/ file[i + 1] # [file[i] EXCEPT !.cell = @ + 1]

\* The record of the cell at i is being written.
UnderWay(i) ==
    LET l == file[i].log IN
    /\ i = Len(file) /\ fileLock = l /\ log[l].at = "Writing"
    /\ file[i].number = begun[l] /\ file[i].cell = log[l].put

\* The file never passes its bound, and the records of concurrent writers stand
\* in it one after the other, no byte of one between two of another, and none
\* cut short except where a write failed or a process was killed.
BoundedRecords ==
    /\ Len(file) <= MaxBytes
    /\ \A i \in 1..Len(file) : InPlace(i)
    /\ Cardinality({i \in 1..Len(file) : Torn(i) /\ ~ UnderWay(i)}) <= Troubles - troubles

\* What an instance counts is what it has written: no event before its record is
\* in the file, and none missed, save the one it is about to count and those
\* for which an operation failed after the write.
CountedAreWritten ==
    \A l \in Logs :
        LET counting == IF log[l].at = "Unlocking" /\ log[l].kind = "event" THEN 1 ELSE 0
        IN /\ counted[l] <= emitted[l] /\ emitted[l] <= whole[l]
           /\ whole[l] <= emitted[l] + counting + (Troubles - troubles)

=============================================================================
