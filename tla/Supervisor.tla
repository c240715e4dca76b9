----------------------------- MODULE Supervisor -----------------------------
(***************************************************************************)
(* The stable host of src/crates/libmcp/src/supervisor.rs over the kernel  *)
(* of HostKernel: one public MCP session, the active worker, at most one   *)
(* candidate, and the rollover and recovery protocols between them.        *)
(*                                                                         *)
(* The host is one task.  It handles one event at a time (a client frame,  *)
(* a worker frame, a worker's end, a tick), and a handler that tail-calls  *)
(* another method goes on there: host.at names the method that runs next,  *)
(* and only at "Idle" is the next event taken.  Workers go on meanwhile.   *)
(*                                                                         *)
(* A frame a worker has emitted is delivered when the host handles it, so  *)
(* a request the worker owes an answer to may be answered while the worker *)
(* runs and also after it has closed its mailbox, up to its WorkerGone.    *)
(* Deadlines and back-off are armed or not; time is not counted.           *)
(*                                                                         *)
(* left bounds what the environment may still do: client frames, faults (a *)
(* worker dies, misbehaves, fails an answer or is late), requests of a     *)
(* worker to the client, and publications of a release.                    *)
(***************************************************************************)
EXTENDS EffectContract, Integers, Sequences, FiniteSets

CONSTANTS
    Ids, Frames, NoFrame, NoId,                           \* see HostKernel
    QueueCapacity, PendingCapacity, MaxAttempts, MaxSequence,
    Tokens,           \* worker identities; a retired one is free again
    NoWorker,
    Releases,         \* release generations
    NoRelease,
    InitialRelease,
    Accepts,          \* <<h, g>>: release h reads the state format of g
    Catalogs,
    NoCatalog,
    CatalogOf,        \* [Releases -> Catalogs]: what tools/list answers
    Declared,         \* [Catalogs -> [tool -> declaration]]
    JournalCapacity,  \* JOURNAL_MAX_ENTRIES
    ClientFrames, Faults, Callbacks, Publications  \* the bounds of left

ASSUME RolesAssumption ==
    /\ NoWorker \notin Tokens
    /\ InitialRelease \in Releases /\ NoRelease \notin Releases
    /\ CatalogOf \in [Releases -> Catalogs] /\ NoCatalog \notin Catalogs
    /\ JournalCapacity \in Nat

ASSUME BoundsAssumption == {ClientFrames, Faults, Callbacks, Publications} \subseteq Nat

\* A catalog that is served has been parsed.  The body of a call names its tool
\* and says whether its arguments hold the keys the tool's contract points at.
ASSUME CatalogsAssumption ==
    /\ \A catalog \in Catalogs : \A tool \in DOMAIN Declared[catalog] :
            /\ Declared[catalog][tool] \in Declarations
            /\ ~ Refused(Declared[catalog][tool])
    /\ \A f \in Frames : f.method = "call" => f.body.keyed \in BOOLEAN

VARIABLES
    phase, seed, notified, pending, queue, nextSequence, ledger, \* the kernel
    host,             \* where the host task is: [at, frame, caught]
    active,           \* token of the active worker
    candidate,        \* [token, purpose, stage, deadline]
    published,        \* published_catalog
    internal,         \* requests of the host's own: [worker, action, index]
    callbacks,        \* requests of a worker before the client: [worker, number]
    journal,          \* compacted session transitions, by tool
    sealed,           \* journal.pinned or journal.checkpointed
    rollover,         \* RolloverPhase
    recoveryRelease, rejectedGeneration, refreshRequest,
    workers,          \* the processes: [status, release, owes, applied]
    channel,          \* the release the channel names
    unanswered,       \* ids of client requests without a terminal response
    left              \* what the environment may still do

kernelVars == <<phase, seed, notified, pending, queue, nextSequence, ledger>>
roleVars == <<active, candidate, rollover, internal>>
releaseVars == <<recoveryRelease, rejectedGeneration, channel>>
publicVars == <<published, refreshRequest>>
journalVars == <<journal, sealed>>
vars == <<kernelVars, host, roleVars, releaseVars, publicVars, journalVars,
          callbacks, workers, unanswered, left>>

K == INSTANCE HostKernel

\* The constants of the kernel are as it needs them.
ASSUME KernelAssumption == K!FramesAssumption /\ K!LimitsAssumption

Steps == {"Idle", "Initialize", "TryBeginRestore", "Activate", "Reject", "Lose",
          "Flush", "Route"}
Failures == {"FailedRestore", "FailedCatalog"}
Purposes == {"Rollover", "Recovery"}
Stages == {"Initializing", "Catalog", "Ready", "Restoring"}
RolloverPhases == {"None", "AwaitingCatalogRefresh", "Draining", "Recovering"}
InternalActions == {"ActiveCatalog", "CandidateInitialize",
                    "CandidateCatalog", "RestoreJournal"}

\* no candidate, or a process just spawned for the role
Candidate(token, purpose) ==
    [token |-> token, purpose |-> purpose, stage |-> "Initializing",
     deadline |-> token # NoWorker]

NoCandidate == Candidate(NoWorker, "Rollover")

Retired == [status |-> "retired", release |-> InitialRelease,
            owes |-> {}, applied |-> <<>>]

Spawned(release) == [Retired EXCEPT !.status = "running", !.release = release]

-----------------------------------------------------------------------------
(* Helpers                                                                 *)

At(step) == host.at = step

\* The handler goes on in method step, or is done.
Go(step) ==
    host' = [at |-> step, frame |-> NoFrame,
             caught |-> host.caught /\ step = "Flush"]

\* WorkerHandle::send succeeds: the worker's task still holds its mailbox.
Running(t) == workers[t].status = "running"

HasActive == active # NoWorker

HasCandidate == candidate.token # NoWorker

GatingNewWork == rollover \in {"Draining", "Recovering"}

\* Mutant: the scheduled invocations are the ones that count.
ScheduledIsInFlight ==
    \E id \in DOMAIN pending : pending[id].disposition # K!None

HasInFlightDispatches ==
    \E id \in DOMAIN pending : pending[id].disposition = K!None

ActiveCallbacks == {c \in callbacks : c.worker = active}

InternalOf(t) == {r \in internal : r.worker = t}

\* Mutant: nothing is withdrawn.
DisownedNone(t) == internal

\* What stays of internal once worker t is given up.
Disowned(t) == internal \ InternalOf(t)

\* the one request of the host's own that asks worker t for action
Asking(t, action, index) == [worker |-> t, action |-> action, index |-> index]

\* kill: the processes of ts are reaped, what they still owe is void.
Reap(ts) ==
    workers' = [w \in Tokens |-> IF w \in ts THEN Retired ELSE workers[w]]

\* The contract the published catalog gives to the tool frame f calls.
ContractFor(f) ==
    IF /\ f.method = "call" /\ published # NoCatalog
       /\ f.body.tool \in DOMAIN Declared[published]
    THEN ParseContract(Declared[published][f.body.tool])
    ELSE Uncontracted

\* Mutant: a deduplicated call is trusted to carry its key.
RecoveryTrusted(f) ==
    IF ContractFor(f).recovery = "ProbeRequired" THEN "AtMostOnce"
    ELSE ContractFor(f).recovery

\* No consumer resolves probes here, and without its key a call cannot be
\* deduplicated: both are repeated under no circumstances.
RecoveryOf(f) ==
    IF \/ ContractFor(f).recovery = "ProbeRequired"
       \/ ContractFor(f).recovery = "Deduplicated" /\ ~ f.body.keyed
    THEN "AtMostOnce"
    ELSE ContractFor(f).recovery

(* classify_request *)
Classify(f) ==
    ReplayContract(
        IF f.method \in {"initialize", "list"} THEN "ReplaySafe" ELSE RecoveryOf(f))

\* The first entry of the key, if there is one, is taken out.
Compacted(entries, tool) ==
    IF \E i \in DOMAIN entries : entries[i] = tool
    THEN LET first == CHOOSE i \in DOMAIN entries :
                        entries[i] = tool /\ \A j \in 1..(i - 1) : entries[j] # tool
         IN SubSeq(entries, 1, first - 1) \o SubSeq(entries, first + 1, Len(entries))
    ELSE entries

\* Mutant: an older entry of the same key stays.
RecordWithoutCompaction(tool) ==
    IF Len(journal) >= JournalCapacity
    THEN UNCHANGED journal /\ sealed' = TRUE
    ELSE journal' = Append(journal, tool) /\ UNCHANGED sealed

\* SessionJournal::record, and the seal its failure leads to
RecordTransition(tool) ==
    IF Len(Compacted(journal, tool)) >= JournalCapacity
    THEN journal' = Compacted(journal, tool) /\ sealed' = TRUE
    ELSE journal' = Append(Compacted(journal, tool), tool) /\ UNCHANGED sealed

\* The transition has a journal key: its contract's, or one in its arguments.
Journals(f) ==
    \/ ContractFor(f).state = "Journaled"
    \/ ContractFor(f).state = "JournaledByArgument" /\ f.body.keyed

\* record_session_transition of a successful response to frame f.  What cannot
\* be journaled pins the session to this generation.
RecordSessionTransition(f) ==
    CASE ContractFor(f).state = "Stateless" -> UNCHANGED journalVars
      [] Journals(f) -> RecordTransition(f.body.tool)
      [] OTHER -> sealed' = TRUE /\ UNCHANGED journal

\* Mutant: a failed send is ignored.
SendAndForget(id, next) ==
    /\ Go(next)
    /\ workers' = IF Running(active)
                  THEN [workers EXCEPT ![active].owes = @ \cup {id}] ELSE workers

\* A request crosses to the active worker, or the worker's mailbox is closed
\* and the worker is lost.
SendActive(id, next) ==
    IF Running(active)
    THEN /\ workers' = [workers EXCEPT ![active].owes = @ \cup {id}]
         /\ Go(next)
    ELSE UNCHANGED workers /\ Go("Lose")

\* One worker of a release serves, and nothing has happened.
InitRest(release, bounds) ==
    /\ host = [at |-> "Idle", frame |-> NoFrame, caught |-> FALSE]
    /\ \E t \in Tokens :
        /\ active = t
        /\ workers = [w \in Tokens |->
                IF w = t THEN Spawned(release) ELSE Retired]
    /\ candidate = NoCandidate
    /\ internal = {} /\ callbacks = {}
    /\ journal = <<>> /\ sealed = FALSE
    /\ rollover = "None"
    /\ recoveryRelease = release
    /\ rejectedGeneration = NoRelease
    /\ refreshRequest = NoFrame
    /\ channel = release
    /\ unanswered = {}
    /\ left = bounds

Bounds == [frames |-> ClientFrames, faults |-> Faults,
           callbacks |-> Callbacks, publications |-> Publications]

InitWith(bounds) == K!Init /\ published = NoCatalog /\ InitRest(InitialRelease, bounds)

Init == InitWith(Bounds)

-----------------------------------------------------------------------------
(* handle_client_payload.  A request refused at once is answered with an   *)
(* error and leaves everything else alone; so does a list answered from    *)
(* the published catalog, and a notification that reaches its worker.      *)
(* None of these is an action.  The client does not reuse the id of an     *)
(* unanswered request.                                                     *)

Receives(f) ==
    /\ At("Idle")
    /\ left.frames > 0
    /\ left' = [left EXCEPT !.frames = @ - 1]
    /\ UNCHANGED <<active, releaseVars, published, journalVars, callbacks>>

ReceivesRequest(f) ==
    /\ Receives(f)
    /\ f.id \notin unanswered
    /\ unanswered' = unanswered \cup {f.id}

\* Frames that wait for a worker, for the first catalog, or for the fence.
MustQueue(f) ==
    \/ GatingNewWork
    \/ f.method \in {"call", "list"} /\ published = NoCatalog
    \/ f.method # "list" /\ ~ HasActive

\* A request is dispatched to the active worker, or refused and answered.
Dispatch(f, next) ==
    IF K!MayBegin(f)
    THEN /\ K!BeginRequestDispatch(f, Classify(f))
         /\ SendActive(f.id, next)
         /\ UNCHANGED unanswered
    ELSE /\ unanswered' = unanswered \ {f.id}
         /\ Go(next)
         /\ UNCHANGED <<kernelVars, workers>>

\* initialize is observed first, and routed then: the seed stays even when
\* the frame is refused for want of room.
ClientInitializes(f) ==
    /\ ReceivesRequest(f)
    /\ K!ObserveInitialize(f)
    /\ host' = [at |-> "Initialize", frame |-> f, caught |-> FALSE]
    /\ UNCHANGED <<candidate, rollover, internal, refreshRequest, workers>>

RouteInitialize ==
    LET f == host.frame IN
    /\ At("Initialize")
    /\ \/ ~ MustQueue(f) /\ Dispatch(f, "Idle")
       \/ /\ MustQueue(f) /\ K!QueueClientFrame(f)
          /\ Go("Idle")
          /\ UNCHANGED <<unanswered, workers>>
       \/ /\ MustQueue(f) /\ Len(queue) >= QueueCapacity
          /\ unanswered' = unanswered \ {f.id}
          /\ Go("Idle")
          /\ UNCHANGED <<kernelVars, workers>>
    /\ UNCHANGED <<roleVars, releaseVars, publicVars, journalVars, callbacks, left>>

\* notifications/initialized: forwarded, and the active worker is asked for
\* its catalog (request_active_catalog).  Without an active worker only the
\* session moves on.
ClientInitialized(f) ==
    /\ Receives(f)
    /\ K!ObserveInitialized(f)
    /\ internal' = internal \cup
            {Asking(t, "ActiveCatalog", 0) : t \in {u \in {active} \ {NoWorker} : Running(u)}}
    /\ Go(IF HasActive /\ ~ Running(active) THEN "Lose" ELSE "Idle")
    /\ UNCHANGED <<candidate, rollover, refreshRequest, unanswered, workers>>

ClientQueues(f) ==
    /\ f.method \in {"call", "list", "other"}
    /\ IF K!IsRequest(f) THEN ReceivesRequest(f) ELSE Receives(f) /\ UNCHANGED unanswered
    /\ MustQueue(f)
    /\ K!QueueClientFrame(f)
    /\ Go("Idle")
    /\ UNCHANGED <<candidate, rollover, internal, refreshRequest, workers>>

\* tools/list while a changed catalog waits for it: the refresh sets the fence.
ClientRefreshes(f) ==
    /\ f.method = "list" /\ published # NoCatalog
    /\ rollover = "AwaitingCatalogRefresh"
    /\ ReceivesRequest(f)
    /\ refreshRequest' = f
    /\ rollover' = "Draining"
    /\ candidate' = [candidate EXCEPT !.deadline = FALSE]
    /\ Go("TryBeginRestore")
    /\ UNCHANGED <<kernelVars, internal, workers>>

ClientCalls(f) ==
    /\ f.method = "call" /\ ~ MustQueue(f)
    /\ ReceivesRequest(f)
    /\ K!BeginRequestDispatch(f, Classify(f))
    /\ SendActive(f.id, "Idle")
    /\ UNCHANGED <<candidate, rollover, internal, refreshRequest>>

\* A notification, or the cancellation of a pending request (which no fence
\* holds back), finds the active worker's mailbox closed.
ClientNotifies(f) ==
    /\ f.method = "other"
    /\ ~ MustQueue(f) \/ (HasActive /\ DOMAIN pending # {})
    /\ ~ Running(active)
    /\ Receives(f)
    /\ Go("Lose")
    /\ UNCHANGED <<kernelVars, candidate, rollover, internal, refreshRequest,
                   unanswered, workers>>

\* route_callback_response: the client answers a worker's request.
ClientAnswers(c) ==
    /\ At("Idle")
    /\ c \in callbacks
    /\ callbacks' = callbacks \ {c}
    /\ Go(IF c.worker = active /\ ~ Running(active) THEN "Lose" ELSE "Idle")
    /\ UNCHANGED <<kernelVars, roleVars, releaseVars, publicVars, journalVars,
                   workers, unanswered, left>>

-----------------------------------------------------------------------------
(* handle_worker_payload: a frame of worker t.                             *)

Emits(t) ==
    /\ At("Idle")
    /\ t # NoWorker
    /\ workers[t].status # "retired"

\* A worker may fail in an answer, misbehave or die: left.faults counts it.
Fault == left.faults > 0 /\ left' = [left EXCEPT !.faults = @ - 1]

\* The session state of a worker after one more transition.
Applying(tool, applied) == Append(Compacted(applied, tool), tool)

\* The active worker answers an invocation.  A success may be a session
\* transition, which the journal takes before the client sees the answer.
ActiveResponds(id, hasError) ==
    /\ Emits(active)
    /\ id \in workers[active].owes
    /\ K!CompleteResponse(id, hasError)
    /\ LET f == pending[id].frame
           moves == ~ hasError /\ Journals(f)
       IN /\ IF hasError THEN UNCHANGED journalVars ELSE RecordSessionTransition(f)
          /\ workers' = [workers EXCEPT
                ![active].owes = @ \ {id},
                ![active].applied = IF moves THEN Applying(f.body.tool, @) ELSE @]
    /\ unanswered' = unanswered \ {id}
    /\ Go("TryBeginRestore")
    /\ UNCHANGED <<roleVars, releaseVars, publicVars, callbacks, left>>

\* The active worker asks the client something.
ActiveAsks ==
    /\ Emits(active)
    /\ left.callbacks > 0
    /\ left' = [left EXCEPT !.callbacks = @ - 1]
    /\ callbacks' = callbacks \cup {[worker |-> active, number |-> left.callbacks]}
    /\ UNCHANGED <<kernelVars, host, roleVars, releaseVars, publicVars,
                   journalVars, workers, unanswered>>

\* Invalid JSON-RPC or an unexpected response from the active worker; invalid
\* JSON-RPC or a client request from a candidate.
Misbehaves(t) ==
    /\ Emits(t)
    /\ Fault
    /\ t \in {active, candidate.token}
    /\ Go(IF t = active THEN "Lose" ELSE "Reject")
    /\ UNCHANGED <<kernelVars, roleVars, releaseVars, publicVars, journalVars,
                   callbacks, workers, unanswered>>

(* handle_internal_response: worker t answers a request of the host's own. *)
Answers(t, action, index, hasError) ==
    /\ Emits(t)
    /\ Asking(t, action, index) \in internal
    /\ IF hasError THEN Fault ELSE UNCHANGED left
    /\ UNCHANGED <<kernelVars, active, releaseVars, refreshRequest, journalVars,
                   callbacks, unanswered>>

ActiveCatalogArrives(hasError) ==
    /\ Answers(active, "ActiveCatalog", 0, hasError)
    /\ internal' = internal \ {Asking(active, "ActiveCatalog", 0)}
    /\ published' = IF hasError THEN published ELSE CatalogOf[workers[active].release]
    /\ Go(IF hasError THEN "Lose" ELSE "Flush")
    /\ UNCHANGED <<candidate, rollover, workers>>

\* seed_candidate_catalog follows, unless the public session itself still
\* waits for its initialized notification.
CandidateInitialized(hasError) ==
    LET t == candidate.token
        done == internal \ {Asking(t, "CandidateInitialize", 0)}
        proceeds == ~ hasError /\ phase # "AwaitingInitialized" /\ Running(t)
    IN /\ Answers(t, "CandidateInitialize", 0, hasError)
       /\ internal' = IF proceeds THEN done \cup {Asking(t, "CandidateCatalog", 0)}
                                  ELSE done
       /\ candidate' = IF proceeds THEN [candidate EXCEPT !.stage = "Catalog"]
                                   ELSE candidate
       /\ Go(CASE proceeds -> "Idle"
               [] ~ hasError /\ phase = "AwaitingInitialized" -> "Activate"
               [] OTHER -> "Reject")
       /\ UNCHANGED <<published, rollover, workers>>

\* on_candidate_ready: an identical catalog sets the fence at once, a changed
\* one waits for the client's refresh or the end of the grace.
CandidateReady(hasError) ==
    LET t == candidate.token
        same == published = CatalogOf[workers[t].release]
    IN /\ Answers(t, "CandidateCatalog", 0, hasError)
       /\ internal' = internal \ {Asking(t, "CandidateCatalog", 0)}
       /\ IF hasError
          THEN Go("Reject") /\ UNCHANGED <<candidate, rollover>>
          ELSE /\ candidate' = [candidate EXCEPT !.stage = "Ready", !.deadline = ~ same]
               /\ rollover' = IF same THEN "Draining" ELSE "AwaitingCatalogRefresh"
               /\ Go(IF same THEN "TryBeginRestore" ELSE "Idle")
       /\ UNCHANGED <<published, workers>>

\* One journal entry is replayed; continue_restore sends the next, or
\* activates.
CandidateRestored(index, hasError) ==
    LET t == candidate.token
        done == internal \ {Asking(t, "RestoreJournal", index)}
        proceeds == ~ hasError /\ index < Len(journal) /\ Running(t)
    IN /\ Answers(t, "RestoreJournal", index, hasError)
       /\ workers' = IF hasError THEN workers
                     ELSE [workers EXCEPT ![t].applied = Applying(journal[index], @)]
       /\ internal' = IF proceeds THEN done \cup {Asking(t, "RestoreJournal", index + 1)}
                                  ELSE done
       /\ candidate' = IF proceeds THEN [candidate EXCEPT !.deadline = TRUE] ELSE candidate
       /\ Go(CASE proceeds -> "Idle"
               [] ~ hasError /\ index >= Len(journal) -> "Activate"
               [] OTHER -> "Reject")
       /\ UNCHANGED <<published, rollover>>

-----------------------------------------------------------------------------
(* The methods handlers end in.                                            *)

(* try_begin_restore: once the fence is set and the incumbent owns nothing,*)
(* replay the journal into the candidate.  A failed first send leaves this *)
(* method with an error that no caller handles.                            *)
TryBeginRestore ==
    LET t == candidate.token
        quiescent == /\ rollover = "Draining"
                     /\ ~ HasInFlightDispatches
                     /\ ActiveCallbacks = {}
        restores == quiescent /\ ~ sealed /\ journal # <<>> /\ HasCandidate
    IN /\ At("TryBeginRestore")
       /\ Go(CASE ~ quiescent -> "Idle"
               [] quiescent /\ sealed -> "Reject"
               [] quiescent /\ ~ sealed /\ journal = <<>> /\ HasCandidate -> "Activate"
               [] restores /\ ~ Running(t) -> "FailedRestore"
               [] OTHER -> "Idle")
       /\ IF restores
          THEN /\ candidate' = [candidate EXCEPT !.stage = "Restoring", !.deadline = TRUE]
               /\ internal' = internal \cup {Asking(t, "RestoreJournal", 1)}
          ELSE UNCHANGED <<candidate, internal>>
       /\ UNCHANGED <<kernelVars, active, rollover, releaseVars, publicVars,
                      journalVars, callbacks, workers, unanswered, left>>

\* Mutant: the incumbent's catalog stays published.
PublishedCatalog == published

\* candidate.worker.catalog
CandidateCatalog ==
    IF candidate.stage \in {"Ready", "Restoring"}
    THEN CatalogOf[workers[candidate.token].release] ELSE NoCatalog

\* Mutant: the refresh is dropped.
RefreshForgotten == {}

\* The refresh that activation answers.
RefreshAnswered ==
    {f.id : f \in {refreshRequest} \ {NoFrame}}

\* Mutant: the phase that held requests back stays.
PhaseKept == rollover

\* The rollover phase once a candidate has authority.
PhaseActivated == "None"

(* activate_candidate: the one place authority changes hands.              *)
ActivateCandidate ==
    LET t == candidate.token
        fails == refreshRequest # NoFrame /\ CandidateCatalog = NoCatalog
    IN /\ At("Activate")
       /\ HasCandidate
       /\ published' = CandidateCatalog
       /\ recoveryRelease' = workers[t].release
       /\ active' = t
       /\ candidate' = NoCandidate
       /\ callbacks' = callbacks \ ActiveCallbacks
       /\ Reap({active})
       /\ rollover' = PhaseActivated
       /\ refreshRequest' = NoFrame
       /\ unanswered' = IF fails THEN unanswered ELSE unanswered \ RefreshAnswered
       /\ Go(IF fails THEN "FailedCatalog" ELSE "Flush")
       /\ UNCHANGED <<kernelVars, rejectedGeneration, channel, journalVars, internal, left>>

(* reject_candidate: with an incumbent the host serves again, without one  *)
(* the rollover phase stays what it was.                                   *)
RejectCandidate ==
    /\ At("Reject")
    /\ rejectedGeneration' =
            IF HasCandidate /\ candidate.purpose = "Rollover"
            THEN workers[candidate.token].release ELSE rejectedGeneration
    /\ candidate' = NoCandidate
    /\ internal' = Disowned(candidate.token)
    /\ Reap({candidate.token})
    /\ IF HasActive
       THEN rollover' = "None" /\ refreshRequest' = NoFrame /\ Go("Flush")
       ELSE UNCHANGED <<rollover, refreshRequest>> /\ Go("Idle")
    /\ UNCHANGED <<kernelVars, active, recoveryRelease, channel, published,
                   journalVars, callbacks, unanswered, left>>

\* Mutants: no pending invocation is answered when a worker is lost, or every
\* one is.
RejectedNone == {}
RejectedAll == DOMAIN pending

\* The invocations requeueing has refused, which are answered at once.
Rejected == {id \in DOMAIN pending : id \notin DOMAIN pending'}

(* handle_worker_loss_by_id of the active worker. *)
LoseActive ==
    /\ At("Lose")
    /\ active' = NoWorker
    /\ callbacks' = callbacks \ ActiveCallbacks
    /\ candidate' = NoCandidate
    /\ internal' = {}
    /\ rollover' = "Recovering"
    /\ K!RequeuePendingForReplay
    /\ unanswered' = unanswered \ Rejected
    /\ Reap({active, candidate.token})
    /\ Go("Idle")
    /\ UNCHANGED <<releaseVars, publicVars, journalVars, left>>

(* flush_queue: one frame at a time, until the queue is empty or held, or  *)
(* the worker is lost again.                                               *)
Flushes ==
    /\ rollover = "None" /\ HasActive
    /\ queue # <<>>
    /\ ~ (K!NamesPending(Head(queue)) /\ K!Held(Head(queue).id))

FlushEnds ==
    /\ At("Flush") /\ ~ Flushes
    /\ Go("Idle")
    /\ UNCHANGED <<kernelVars, roleVars, releaseVars, publicVars, journalVars,
                   callbacks, workers, unanswered, left>>

FlushReplays ==
    /\ At("Flush") /\ Flushes
    /\ K!PopReplay
    /\ SendActive(Head(queue).id, "Flush")
    /\ UNCHANGED <<roleVars, releaseVars, publicVars, journalVars,
                   callbacks, unanswered, left>>

FlushPops ==
    /\ At("Flush") /\ Flushes
    /\ K!PopClientFrame
    /\ host' = [host EXCEPT !.at = "Route", !.frame = Head(queue)]
    /\ UNCHANGED <<roleVars, releaseVars, publicVars, journalVars,
                   callbacks, workers, unanswered, left>>

\* A list is answered from the published catalog; without one the error
\* leaves every caller but on_tick, which only logs it.
RouteFrame ==
    LET f == host.frame IN
    /\ At("Route")
    /\ \/ /\ f.method = "list" /\ published # NoCatalog
          /\ unanswered' = unanswered \ {f.id}
          /\ host' = [host EXCEPT !.at = "Flush", !.frame = NoFrame]
          /\ UNCHANGED <<kernelVars, workers>>
       \/ /\ f.method = "list" /\ published = NoCatalog
          /\ Go(IF host.caught THEN "Idle" ELSE "FailedCatalog")
          /\ UNCHANGED <<kernelVars, workers, unanswered>>
       \/ K!IsRequest(f) /\ f.method # "list" /\ Dispatch(f, "Flush")
       \/ /\ ~ K!IsRequest(f)
          /\ Go(IF Running(active) THEN "Flush" ELSE "Lose")
          /\ UNCHANGED <<kernelVars, workers, unanswered>>
    /\ UNCHANGED <<roleVars, releaseVars, publicVars, journalVars, callbacks, left>>

-----------------------------------------------------------------------------
(* The end of a worker (worker_io_loop, handle_worker_loss).               *)

\* Its output has ended or its input has failed: WorkerGone is on its way,
\* behind the frames it has emitted, and the mailbox is closed.
WorkerCloses(t) ==
    /\ Running(t)
    /\ Fault
    /\ workers' = [workers EXCEPT ![t].status = "closed"]
    /\ UNCHANGED <<kernelVars, host, roleVars, releaseVars, publicVars,
                   journalVars, callbacks, unanswered>>

\* Mutant: the host serves again, without a worker.
DropAndServe ==
    /\ candidate.purpose = "Recovery"
    /\ candidate' = NoCandidate
    /\ internal' = Disowned(candidate.token)
    /\ Reap({candidate.token})
    /\ rollover' = "None"
    /\ UNCHANGED host

\* A recovery candidate is dropped, and another one tried later.
DropRecoveryCandidate ==
    /\ candidate.purpose = "Recovery"
    /\ candidate' = NoCandidate
    /\ internal' = Disowned(candidate.token)
    /\ Reap({candidate.token})
    /\ rollover' = "Recovering"
    /\ UNCHANGED host

WorkerGone(t) ==
    /\ At("Idle")
    /\ workers[t].status = "closed"
    /\ \/ t = candidate.token /\ DropRecoveryCandidate
       \/ /\ t = candidate.token => candidate.purpose = "Rollover"
          /\ Go(IF t = active THEN "Lose" ELSE "Reject")
          /\ UNCHANGED <<candidate, internal, workers, rollover>>
    /\ UNCHANGED <<kernelVars, active, releaseVars, publicVars, journalVars,
                   callbacks, unanswered, left>>

-----------------------------------------------------------------------------
(* on_tick                                                                 *)

Deadlined == At("Idle") /\ HasCandidate /\ candidate.deadline

\* Mutant: the grace ends for a candidate behind the fence.
AwaitsFence == candidate.stage = "Ready" /\ rollover = "Draining"

AwaitsRefresh == candidate.stage = "Ready" /\ rollover = "AwaitingCatalogRefresh"

GraceExpires ==
    /\ Deadlined
    /\ candidate.purpose = "Rollover" /\ AwaitsRefresh
    /\ rollover' = "Draining"
    /\ candidate' = [candidate EXCEPT !.deadline = FALSE]
    /\ Go("TryBeginRestore")
    /\ UNCHANGED <<kernelVars, active, internal, releaseVars, publicVars,
                   journalVars, callbacks, workers, unanswered, left>>

\* Being late is a fault, except where nothing but the client's refresh
\* could have been in time.
DeadlineExpires ==
    /\ Deadlined
    /\ IF AwaitsRefresh THEN UNCHANGED left ELSE Fault
    /\ \/ DropRecoveryCandidate
       \/ /\ candidate.purpose = "Rollover" /\ ~ AwaitsRefresh
          /\ Go("Reject")
          /\ UNCHANGED <<candidate, internal, workers, rollover>>
    /\ UNCHANGED <<kernelVars, active, releaseVars, publicVars, journalVars,
                   callbacks, unanswered>>

\* A process spawned for a candidate is asked to initialize at once.
Launches(t, release, purpose) ==
    /\ workers[t].status = "retired"
    /\ workers' = [workers EXCEPT ![t] = Spawned(release)]
    /\ candidate' = Candidate(t, purpose)
    /\ internal' = internal \cup {Asking(t, "CandidateInitialize", 0)}

(* start_recovery: before the public session is initialized the new worker *)
(* is active at once, and an error of the flush is only logged.            *)
StartRecovery(t) ==
    /\ At("Idle")
    /\ rollover = "Recovering" /\ ~ HasCandidate
    /\ IF phase \in {"Cold", "Initializing"}
       THEN /\ workers[t].status = "retired"
            /\ workers' = [workers EXCEPT ![t] = Spawned(recoveryRelease)]
            /\ active' = t
            /\ rollover' = "None"
            /\ host' = [host EXCEPT !.at = "Flush", !.caught = TRUE]
            /\ UNCHANGED <<candidate, internal>>
       ELSE /\ Launches(t, recoveryRelease, "Recovery")
            /\ UNCHANGED <<host, active, rollover>>
    /\ UNCHANGED <<kernelVars, releaseVars, publicVars, journalVars,
                   callbacks, unanswered, left>>

ObservesNewRelease ==
    /\ At("Idle")
    /\ rollover = "None" /\ ~ HasCandidate
    /\ phase = "Live" /\ published # NoCatalog
    /\ HasActive
    /\ channel \notin {workers[active].release, rejectedGeneration}

Readable == <<channel, workers[active].release>> \in Accepts

StartRollover(t) ==
    /\ ObservesNewRelease
    /\ Readable
    /\ Launches(t, channel, "Rollover")
    /\ UNCHANGED <<kernelVars, host, active, rollover, releaseVars, publicVars,
                   journalVars, callbacks, unanswered, left>>

\* A release that cannot read the incumbent's state, cannot be verified or
\* cannot be launched is not tried again.
RefuseRelease ==
    /\ ObservesNewRelease
    /\ IF Readable THEN Fault ELSE UNCHANGED left
    /\ rejectedGeneration' = channel
    /\ UNCHANGED <<kernelVars, host, roleVars, recoveryRelease, channel, publicVars,
                   journalVars, callbacks, workers, unanswered>>

\* The release channel names another release.
Publish(release) ==
    /\ left.publications > 0
    /\ left' = [left EXCEPT !.publications = @ - 1]
    /\ release # channel
    /\ channel' = release
    /\ UNCHANGED <<kernelVars, host, roleVars, recoveryRelease, rejectedGeneration,
                   publicVars, journalVars, callbacks, workers, unanswered>>

-----------------------------------------------------------------------------
Client ==
    \/ \E f \in Frames :
        \/ ClientInitializes(f) \/ ClientInitialized(f) \/ ClientQueues(f)
        \/ ClientRefreshes(f) \/ ClientCalls(f) \/ ClientNotifies(f)
    \/ \E c \in callbacks : ClientAnswers(c)

ActiveWorker ==
    \/ \E id \in Ids, hasError \in BOOLEAN : ActiveResponds(id, hasError)
    \/ ActiveAsks
    \/ \E hasError \in BOOLEAN : ActiveCatalogArrives(hasError)

CandidateWorker ==
    \E hasError \in BOOLEAN :
        \/ CandidateInitialized(hasError) \/ CandidateReady(hasError)
        \/ \E index \in DOMAIN journal : CandidateRestored(index, hasError)

Continue ==
    \/ RouteInitialize \/ TryBeginRestore
    \/ ActivateCandidate \/ RejectCandidate \/ LoseActive
    \/ FlushEnds \/ FlushReplays \/ FlushPops \/ RouteFrame

Tick ==
    \/ GraceExpires \/ DeadlineExpires \/ RefuseRelease
    \/ \E t \in Tokens : StartRecovery(t) \/ StartRollover(t)

Next ==
    \/ Client
    \/ ActiveWorker
    \/ CandidateWorker
    \/ \E t \in Tokens : Misbehaves(t) \/ WorkerCloses(t) \/ WorkerGone(t)
    \/ Continue
    \/ Tick
    \/ \E release \in Releases : Publish(release)

\* The host task is never starved, its ticks come, a worker that stays alive
\* answers what it was asked, the end of a worker is noticed, and the client
\* answers what a worker asks it.  Nothing obliges the client to send, a
\* worker to fail, a deadline to pass unprovoked, or a release to appear.
Fairness ==
    /\ WF_vars(Continue)
    /\ WF_vars(\E t \in Tokens : StartRecovery(t))
    /\ WF_vars(\E t \in Tokens : StartRollover(t))
    /\ WF_vars(RefuseRelease /\ ~ Readable)
    /\ WF_vars(GraceExpires)
    /\ WF_vars(DeadlineExpires /\ AwaitsRefresh)
    /\ \A id \in Ids : WF_vars(\E hasError \in BOOLEAN : ActiveResponds(id, hasError))
    /\ WF_vars(ActiveCatalogArrives(FALSE))
    /\ WF_vars(CandidateWorker)
    /\ \A t \in Tokens : WF_vars(WorkerGone(t))
    /\ WF_vars(\E c \in callbacks : ClientAnswers(c))

Spec == Init /\ [][Next]_vars

FairSpec == Spec /\ Fairness

-----------------------------------------------------------------------------
(* Properties                                                              *)

Failed == host.at \in Failures

\* Every variable keeps its type.
TypeOK ==
    /\ K!TypeOK
    /\ host \in [at : Steps \cup Failures, frame : Frames \cup {NoFrame}, caught : BOOLEAN]
    /\ active \in Tokens \cup {NoWorker}
    /\ candidate \in [token : Tokens \cup {NoWorker}, purpose : Purposes,
                      stage : Stages, deadline : BOOLEAN]
    /\ published \in Catalogs \cup {NoCatalog}
    /\ internal \subseteq [worker : Tokens, action : InternalActions,
                           index : 0..JournalCapacity]
    /\ callbacks \subseteq [worker : Tokens, number : 1..Callbacks]
    /\ Len(journal) <= JournalCapacity /\ sealed \in BOOLEAN
    /\ rollover \in RolloverPhases
    /\ {recoveryRelease, channel} \subseteq Releases
    /\ rejectedGeneration \in Releases \cup {NoRelease}
    /\ refreshRequest \in Frames \cup {NoFrame}
    /\ \A t \in Tokens :
        /\ workers[t].status \in {"retired", "running", "closed"}
        /\ workers[t].release \in Releases
        /\ workers[t].owes \subseteq Ids
    /\ unanswered \subseteq Ids

InFlight == {id \in DOMAIN pending : pending[id].disposition = K!None}

\* The invocations the kernel holds in flight are exactly those the active
\* worker owes an answer to: none is pinned to a worker that is gone, none is
\* waited for that no worker has, and no other worker's answer could complete
\* one (formal_semantics.md I3).  Only while a failed send turns into the loss
\* of the worker is an invocation in flight to nobody.
GenerationPinned ==
    /\ \A t \in Tokens \ {active} : workers[t].owes = {}
    /\ ~ At("Lose") => InFlight = IF HasActive THEN workers[active].owes ELSE {}

Kept ==
    DOMAIN pending \cup K!QueuedIds
        \cup {f.id : f \in {g \in {host.frame, refreshRequest} \ {NoFrame} : K!IsRequest(g)}}

\* What the host still holds of a request (pending, queued, in hand or waiting
\* for a catalog) has not been answered yet, so no path answers a request
\* twice: not the loss of a worker, nor a late answer, nor a refresh (I4).
NoSecondReply == Kept \subseteq unanswered

\* An unanswered request is held somewhere (Theorem 10; docs/spec.md, Bounded
\* Recovery: "without silently dropping").
NothingForgotten == ~ Failed => unanswered \subseteq Kept

\* The law of effects, read off the declarations: after a loss a call goes out
\* again only if the catalog declares its tool free of repeated effects, or the
\* call carries the key under which a durable authority deduplicates it (effect
\* contracts of the README; I6).
MayRepeat(declaration, keyed) ==
    \/ declaration.explicit /\ declaration.recovery = "replay_safe"
    \/ declaration.explicit /\ declaration.recovery = "deduplicated" /\ keyed
    \/ ~ declaration.explicit /\ declaration.annotation = "convergent"
    \/ /\ ~ declaration.explicit /\ declaration.annotation = "unknown"
       /\ declaration.hinted

OnlyRepeatable ==
    \A id \in DOMAIN pending :
        LET f == pending[id].frame
        IN pending[id].attempts > 0 /\ f.method = "call" =>
            \E catalog \in Catalogs :
                /\ f.body.tool \in DOMAIN Declared[catalog]
                /\ MayRepeat(Declared[catalog][f.body.tool], f.body.keyed)

\* The journal is the state of the active worker, transition by transition,
\* as long as it is not sealed, and a candidate that waits for entry i to be
\* replayed has replayed the entries before it (I9, Theorem 7).
SessionPrefix ==
    /\ HasActive /\ ~ sealed => workers[active].applied = journal
    /\ \A r \in internal : r.action = "RestoreJournal" =>
        workers[r.worker].applied = SubSeq(journal, 1, r.index - 1)

\* The public catalog is the one of the worker that answers for it, now or
\* after recovery, however rollovers, rejections and losses interleave (I10).
CatalogCoherence ==
    /\ HasActive => workers[active].release = recoveryRelease
    /\ published # NoCatalog => published = CatalogOf[recoveryRelease]

\* the answer a candidate waits for in each stage of its preparation
Expected ==
    [stage \in Stages |->
        CASE stage = "Initializing" -> {"CandidateInitialize"}
          [] stage = "Catalog" -> {"CandidateCatalog"}
          [] stage = "Ready" -> {}
          [] stage = "Restoring" -> {"RestoreJournal"}]

\* Between events the host waits for exactly the answers its roles call for,
\* and for none of a worker it has given up: a candidate for the one of its
\* stage, which a deadline bounds, and the active worker for its first catalog.
\* A late answer of a retired worker thus finds no request of the host's.
ConversationOwned ==
    At("Idle") =>
        /\ \A r \in internal : r.worker \in {active, candidate.token}
        /\ HasCandidate =>
            /\ {r.action : r \in InternalOf(candidate.token)} = Expected[candidate.stage]
            /\ Cardinality(InternalOf(candidate.token)) <= 1
            /\ candidate.deadline <=> candidate.stage # "Ready" \/ rollover # "Draining"
        /\ \A r \in InternalOf(active) : r.action = "ActiveCatalog" /\ published = NoCatalog

\* A fence is never left standing in front of an active worker: whenever the
\* host holds back new work, there is the candidate it is held back for; a
\* candidate for recovery exists only without an active worker, and without
\* one the host never believes that it serves.
FenceHasCause ==
    /\ HasCandidate => (candidate.purpose = "Recovery" <=> ~ HasActive)
    /\ ~ HasActive => rollover # "None"
    /\ HasActive /\ rollover # "None" /\ ~ At("Lose") => HasCandidate

\* What the session looks like without workers and handlers: a worker stands
\* for its release, and the session is what the active worker has of it or, if
\* there is none, what the journal holds.
Law == INSTANCE SessionLaw WITH
    Transitions <- {f.body.tool : f \in Frames},
    outstanding <- unanswered,
    dispatched <- InFlight,
    unknown <- DOMAIN pending \ InFlight,
    serving <- IF HasActive THEN workers[active].release ELSE NoRelease,
    fenced <- HasActive /\ GatingNewWork,
    generation <- recoveryRelease,
    catalog <- published,
    session <- IF sealed THEN <<>>
               ELSE IF HasActive THEN workers[active].applied ELSE journal,
    portable <- ~ sealed

\* The host keeps the law of the session, whatever handlers, workers, losses,
\* rollovers and recoveries do to each other: authority passes from a live
\* incumbent only behind a fence, with nothing in flight, to a generation that
\* reads its state and has the same session; after a loss the same generation
\* goes on with the session and the catalog the client knows; and the host
\* itself answers only what no worker has seen (Theorems 3, 4 and 6; I7, I9).
ImplementsSessionLaw == Law!Spec

\* The requests nothing in the host stands for any more, and nobody has
\* answered, are requests for the catalog: what a client asks of the business
\* is never forgotten.
ForgottenAreLists ==
    [][\A id \in (unanswered' \ Kept') \ (unanswered \ Kept) :
            \E f \in {host.frame, refreshRequest} \ {NoFrame} :
                f.method = "list" /\ f.id = id]_vars

\* Faults of workers do not end the host (Theorem 8; Theorem 5 for candidates).
HostSurvives == ~ Failed

\* Every accepted request is answered (Theorem 10).
RequestTermination == \A id \in Ids : id \in unanswered ~> id \notin unanswered

\* A release the channel keeps naming becomes active, or is rejected
\* (Theorem 11).
RolloverProgress ==
    \A release \in Releases :
        channel = release ~>
            \/ channel # release \/ rejectedGeneration = release
            \/ HasActive /\ workers[active].release = release

\* The host comes back to serving, after a loss as after a rollover
\* (Theorem 12).
ServiceResumes == rollover # "None" ~> rollover = "None"

=============================================================================
