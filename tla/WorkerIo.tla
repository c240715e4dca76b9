------------------------------ MODULE WorkerIo ------------------------------
(***************************************************************************)
(* The tasks and queues between the public client, the host and a worker   *)
(* (src/crates/libmcp/src/supervisor.rs).  Module Supervisor knows of them *)
(* only that a mailbox is open or closed, and that WorkerGone is a         *)
(* worker's last event; here they are what it abstracts from:              *)
(*                                                                         *)
(*   client reader --> events --> host --> mailbox --> writer --> stdin    *)
(*                       ^                                          |      *)
(*                       +------ reader <-- stdout <-- worker <-----+      *)
(*                                                                         *)
(* Each queue is bounded, and whoever finds one full waits, holding one    *)
(* frame.  The host takes one event at a time, and waits inside a handler. *)
(* The worker is the slowest one the code provides for: it neither reads   *)
(* nor computes while it writes.                                           *)
(*                                                                         *)
(* A pipe holds PipeCapacity frames.  Host and client are never made to    *)
(* wait by the client: it reads all that is written to it.                 *)
(***************************************************************************)
EXTENDS Integers, Sequences, SequencesExt, FiniteSets

CONSTANTS
    EventCapacity,    \* EVENT_CAPACITY
    PendingCapacity,  \* PENDING_CAPACITY
    MailboxCapacity,  \* WORKER_COMMAND_CAPACITY
    PipeCapacity,
    Requests, Others, Notices, Faults, Retirements  \* the bounds of left

ASSUME CapacityAssumption ==
    /\ {EventCapacity, PendingCapacity, PipeCapacity} \subseteq Nat \ {0}
    /\ MailboxCapacity = PendingCapacity

VARIABLES
    events,     \* the event queue of the host
    client,     \* the client reader: [has, open]
    host,       \* [at, has]: what it does, and the frame it is sending
    handle,     \* whether the host holds the WorkerHandle
    pending,    \* requests admitted to this worker and not answered
    mailbox,    \* the commands of this worker
    writer,     \* the frame the writer has in hand
    stdin, stdout,
    worker,     \* the process: [is, out], out being what it has to write
    reader,     \* the frame the reader has in hand
    io,         \* worker_io_loop: how it stands, or why it ended
    reported,   \* whether WorkerGone has been sent, and the mailbox dropped
    emitted,    \* how many frames the worker has written
    handled,    \* how many of them the host has handled
    left        \* what client and worker may still do

hostVars == <<host, handle, pending, handled>>
inputVars == <<mailbox, writer, stdin>>
outputVars == <<stdout, reader, emitted>>
ioVars == <<io, reported>>
vars == <<events, client, hostVars, inputVars, worker, outputVars, ioVars, left>>

\* Frames to the worker are requests, which the host admits, and others:
\* notifications, cancellations and answers to callbacks.  Frames of the worker
\* are numbered.
Nothing == [kind |-> "nothing", n |-> 0]
ToWorker == {[kind |-> k, n |-> 0] : k \in {"request", "other"}}
Request == [kind |-> "request", n |-> 0]
Gone == [kind |-> "gone", n |-> 0]
End == [kind |-> "end", n |-> 0]

Ended == [is |-> "dead", out |-> <<>>]

IsFromWorker(f) == f.kind \in {"reply", "notice"}

Bounds == [requests |-> Requests, others |-> Others, notices |-> Notices,
           faults |-> Faults, retirements |-> Retirements]

InitWith(bounds) ==
    /\ events = <<>>
    /\ client = [has |-> Nothing, open |-> TRUE]
    /\ host = [at |-> "Idle", has |-> Nothing]
    /\ handle = TRUE /\ pending = 0 /\ handled = 0
    /\ mailbox = <<>> /\ writer = Nothing /\ stdin = <<>>
    /\ worker = [is |-> "up", out |-> <<>>]
    /\ stdout = <<>> /\ reader = Nothing /\ emitted = 0
    /\ io = "Running" /\ reported = FALSE
    /\ left = bounds

Init == InitWith(Bounds)

HasRoom(queue, capacity) == Len(queue) < capacity

-----------------------------------------------------------------------------
(* The client and its reader                                               *)

ReadClient(f) ==
    LET kind == IF f = Request THEN "requests" ELSE "others" IN
    /\ client = [has |-> Nothing, open |-> TRUE]
    /\ left[kind] > 0
    /\ left' = [left EXCEPT ![kind] = @ - 1]
    /\ client' = [client EXCEPT !.has = f]
    /\ UNCHANGED <<events, hostVars, inputVars, worker, outputVars, ioVars>>

\* The client closes its end: the reader sends ClientEnd, and stops.
ReadClientEnd ==
    /\ client = [has |-> Nothing, open |-> TRUE]
    /\ client' = [has |-> End, open |-> FALSE]
    /\ UNCHANGED <<events, hostVars, inputVars, worker, outputVars, ioVars, left>>

SendClientEvent ==
    /\ client.has # Nothing
    /\ HasRoom(events, EventCapacity)
    /\ events' = Append(events, client.has)
    /\ client' = [client EXCEPT !.has = Nothing]
    /\ UNCHANGED <<hostVars, inputVars, worker, outputVars, ioVars, left>>

-----------------------------------------------------------------------------
(* The host                                                                *)

Takes(f) ==
    /\ host.at = "Idle"
    /\ events # <<>> /\ Head(events) = f
    /\ events' = Tail(events)
    /\ UNCHANGED <<client, inputVars, worker, outputVars, left>>

\* Mutant: requests are admitted without end.
AdmitsAll(f) == TRUE

\* A request crosses while it is one of PendingCapacity (MayBegin of the
\* kernel); nothing counts the other frames.
Admits(f) == f = Request => pending < PendingCapacity

\* What the host does not send to the worker it refuses, or keeps elsewhere.
TakeClientFrame(f) ==
    /\ Takes(f)
    /\ IF handle /\ Admits(f)
       THEN /\ host' = [at |-> "Sending", has |-> f]
            /\ pending' = pending + (IF f = Request THEN 1 ELSE 0)
       ELSE UNCHANGED <<host, pending>>
    /\ UNCHANGED <<handle, handled, ioVars>>

\* The handle is given up: the signal of kill, or of its drop.  What is pending
\* is requeued or rejected, and no longer this worker's.
Drops == handle' = FALSE /\ pending' = 0

\* An answer for the client; without the handle the frame is of a retired
\* worker, and ignored.
TakeWorkerFrame(f) ==
    /\ IsFromWorker(f)
    /\ Takes(f)
    /\ handled' = handled + 1
    /\ pending' = IF handle /\ f.kind = "reply" THEN pending - 1 ELSE pending
    /\ UNCHANGED <<host, handle, ioVars>>

TakeWorkerGone ==
    /\ Takes(Gone)
    /\ Drops
    /\ UNCHANGED <<host, handled, ioVars>>

\* ClientEnd: shutdown, and the end of the runtime with all its tasks; the
\* worker is killed on drop.
TakeClientEnd ==
    /\ host.at = "Idle"
    /\ events # <<>> /\ Head(events) = End
    /\ events' = Tail(events)
    /\ host' = [host EXCEPT !.at = "Down"]
    /\ Drops
    /\ worker' = Ended
    /\ io' = (IF io = "Running" THEN "retired" ELSE io) /\ reported' = TRUE
    /\ UNCHANGED <<client, inputVars, outputVars, handled, left>>

\* WorkerHandle::send goes through, or finds the mailbox dropped, which loses
\* the worker.  Otherwise the host waits.
Send ==
    /\ host.at = "Sending"
    /\ \/ /\ ~ reported
          /\ HasRoom(mailbox, MailboxCapacity)
          /\ mailbox' = Append(mailbox, host.has)
          /\ UNCHANGED <<handle, pending>>
       \/ reported /\ Drops /\ UNCHANGED mailbox
    /\ host' = [at |-> "Idle", has |-> Nothing]
    /\ UNCHANGED <<events, client, handled, writer, stdin, worker, outputVars,
                   ioVars, left>>

\* WorkerHandle::kill, at a tick or for a frame that is not lawful.
Retire ==
    /\ host.at = "Idle" /\ handle
    /\ left.retirements > 0
    /\ left' = [left EXCEPT !.retirements = @ - 1]
    /\ Drops
    /\ UNCHANGED <<events, client, host, handled, inputVars, worker, outputVars, ioVars>>

-----------------------------------------------------------------------------
(* worker_io_loop: three futures, whichever ends first                     *)

\* The select ends, and kill_worker_tree follows it.  Pipes and what the
\* futures hold are dropped; the mailbox is not.
Ends(why) ==
    /\ io = "Running"
    /\ io' = why
    /\ worker' = Ended
    /\ writer' = Nothing /\ reader' = Nothing
    /\ stdin' = <<>> /\ stdout' = <<>>
    /\ UNCHANGED <<events, client, hostVars, mailbox, emitted, reported, left>>

\* Mutant: retirement is a command like others.
ReapedInTurn == ~ handle /\ mailbox = <<>> /\ writer = Nothing /\ Ends("retired")

Reaped == ~ handle /\ Ends("retired")

WriterReceives ==
    /\ io = "Running"
    /\ writer = Nothing /\ mailbox # <<>>
    /\ writer' = Head(mailbox) /\ mailbox' = Tail(mailbox)
    /\ UNCHANGED <<events, client, hostVars, stdin, worker, outputVars, ioVars, left>>

WriterWrites ==
    /\ io = "Running"
    /\ writer # Nothing
    /\ worker.is # "dead" /\ HasRoom(stdin, PipeCapacity)
    /\ stdin' = Append(stdin, writer) /\ writer' = Nothing
    /\ UNCHANGED <<events, client, hostVars, mailbox, worker, outputVars, ioVars, left>>

\* The pipe is broken.  The reader, polled first, may not have heard of the
\* output yet, or be waiting for room in events.
WriterFails == writer # Nothing /\ worker.is = "dead" /\ Ends("broken")

\* Mutant: while a write waits, no output is read.
ReaderReadsBetweenWrites ==
    /\ io = "Running" /\ writer = Nothing
    /\ reader = Nothing /\ stdout # <<>>
    /\ reader' = Head(stdout) /\ stdout' = Tail(stdout)
    /\ UNCHANGED <<events, client, hostVars, inputVars, worker, emitted, ioVars, left>>

ReaderReads ==
    /\ io = "Running"
    /\ reader = Nothing /\ stdout # <<>>
    /\ reader' = Head(stdout) /\ stdout' = Tail(stdout)
    /\ UNCHANGED <<events, client, hostVars, inputVars, worker, emitted, ioVars, left>>

ReaderSends ==
    /\ io = "Running"
    /\ reader # Nothing
    /\ HasRoom(events, EventCapacity)
    /\ events' = Append(events, reader) /\ reader' = Nothing
    /\ UNCHANGED <<client, hostVars, inputVars, worker, stdout, emitted, ioVars, left>>

\* Mutant: the loop waits for the child, not for the end of its output.
ReaderEndsAtExit == worker.is = "dead" /\ Ends("eof")

\* The end of the output, with all of it read
ReaderEnds ==
    /\ worker.is = "dead" /\ stdout = <<>> /\ reader = Nothing
    /\ Ends("eof")

\* The task's last event; then its end of the mailbox is dropped.
Report ==
    /\ io # "Running" /\ ~ reported
    /\ HasRoom(events, EventCapacity)
    /\ events' = Append(events, Gone)
    /\ reported' = TRUE
    /\ UNCHANGED <<client, hostVars, inputVars, worker, outputVars, io, left>>

-----------------------------------------------------------------------------
(* The worker                                                              *)

WorkerReads ==
    /\ worker.is = "up" /\ worker.out = <<>> /\ stdin # <<>>
    /\ stdin' = Tail(stdin)
    /\ worker' = [worker EXCEPT !.out = IF Head(stdin) = Request THEN <<"reply">> ELSE <<>>]
    /\ UNCHANGED <<events, client, hostVars, mailbox, writer, outputVars, ioVars, left>>

\* A notification, before the answer it is working on or between requests
WorkerAnnounces ==
    /\ worker.is = "up" /\ left.notices > 0
    /\ "notice" \notin Range(worker.out)
    /\ left' = [left EXCEPT !.notices = @ - 1]
    /\ worker' = [worker EXCEPT !.out = <<"notice">> \o @]
    /\ UNCHANGED <<events, client, hostVars, inputVars, outputVars, ioVars>>

WorkerWrites ==
    /\ worker.is = "up" /\ worker.out # <<>>
    /\ HasRoom(stdout, PipeCapacity)
    /\ emitted' = emitted + 1
    /\ stdout' = Append(stdout, [kind |-> Head(worker.out), n |-> emitted + 1])
    /\ worker' = [worker EXCEPT !.out = Tail(@)]
    /\ UNCHANGED <<events, client, hostVars, inputVars, reader, ioVars, left>>

\* It exits: what it has written stays in its pipe, what it has not read is lost.
WorkerDies ==
    /\ worker.is # "dead" /\ left.faults > 0
    /\ left' = [left EXCEPT !.faults = @ - 1]
    /\ worker' = Ended
    /\ stdin' = <<>>
    /\ UNCHANGED <<events, client, hostVars, mailbox, writer, outputVars, ioVars>>

\* It neither reads nor writes any more.
WorkerHangs ==
    /\ worker.is = "up" /\ left.faults > 0
    /\ left' = [left EXCEPT !.faults = @ - 1]
    /\ worker' = [worker EXCEPT !.is = "hung"]
    /\ UNCHANGED <<events, client, hostVars, inputVars, outputVars, ioVars>>

-----------------------------------------------------------------------------
TakeEvent ==
    \/ \E f \in ToWorker : TakeClientFrame(f)
    \/ \E f \in {events[i] : i \in DOMAIN events} : TakeWorkerFrame(f)
    \/ TakeWorkerGone
    \/ TakeClientEnd

Host == TakeEvent \/ Send

Reader == ReaderReads \/ ReaderSends \/ ReaderEnds

Writer == WriterReceives \/ WriterWrites \/ WriterFails

Worker == WorkerReads \/ WorkerWrites

Next ==
    \/ \E f \in ToWorker : ReadClient(f)
    \/ ReadClientEnd \/ SendClientEvent
    \/ Host \/ Retire
    \/ Reaped \/ Reader \/ Writer \/ Report
    \/ Worker \/ WorkerAnnounces \/ WorkerDies \/ WorkerHangs

\* Every task runs when it can; a live worker reads on and writes what it has.
\* A sender that waits for a place in events gets it in its turn.
Fairness ==
    /\ WF_vars(Host)
    /\ SF_vars(SendClientEvent) /\ SF_vars(ReaderSends) /\ SF_vars(Report)
    /\ WF_vars(Reaped) /\ WF_vars(ReaderReads) /\ WF_vars(ReaderEnds)
    /\ WF_vars(Writer) /\ WF_vars(Worker)

Spec == Init /\ [][Next]_vars /\ Fairness

-----------------------------------------------------------------------------
(* Properties                                                              *)

HostWaits ==
    /\ host.at = "Sending" /\ ~ reported
    /\ ~ HasRoom(mailbox, MailboxCapacity)

\* A request the host has admitted finds room in the mailbox, and so does
\* whatever follows it, as long as only requests are in it: "Every admitted
\* request must fit without waiting for responses to drain".
RequestsFit ==
    HostWaits => \E f \in Range(mailbox) \cup {host.has} : f # Request

\* Without that proviso: a send ends, in one way or the other.
SendCompletes == host.at = "Sending" ~> host.at # "Sending"

\* How many of the first n of a queue are frames of the worker.
WorkerFrames(queue, n) == Cardinality({j \in 1..n : IsFromWorker(queue[j])})

\* The host gets the frames of a worker in the order they were written, without
\* a gap, and WorkerGone after all others: a frame's number is its place in what
\* has been handled, is queued, is with the reader and in the pipe.  Nothing that
\* was written is missing then, unless the host retired the worker or a write to
\* it had failed.
NothingMissing ==
    LET queued == handled + WorkerFrames(events, Len(events))
        read == queued + (IF reader = Nothing THEN 0 ELSE 1)
    IN /\ \A i \in 1..Len(events) : IsFromWorker(events[i]) =>
            events[i].n = handled + WorkerFrames(events, i)
       /\ reader # Nothing => reader.n = read
       /\ \A i \in 1..Len(stdout) : stdout[i].n = read + i
       /\ io \in {"Running", "eof"} => read + Len(stdout) = emitted
       /\ \A i \in 1..Len(events) : events[i] = Gone =>
            \A j \in (i + 1)..Len(events) : ~ IsFromWorker(events[j])

\* "a full command mailbox or blocked pipe cannot delay" retirement: whatever
\* the queues hold, a worker that is given up is reaped.
RetirementCompletes == ~ handle ~> worker.is = "dead" /\ reported

RequestsOnly == left.others = 0 /\ \A f \in Range(mailbox) \cup Range(events)
                    \cup Range(stdin) \cup {host.has, writer, client.has} : f.kind # "other"

\* As long as the client sends requests only, nothing between client, host and
\* worker waits in a circle: what the host has admitted is answered, unless the
\* worker fails or is retired, and the end of the client is reached even when
\* the worker hangs.
RequestsProgress ==
    /\ pending > 0 /\ RequestsOnly ~> pending = 0 \/ worker.is # "up"
    /\ ~ client.open /\ RequestsOnly ~> host.at = "Down"

=============================================================================
