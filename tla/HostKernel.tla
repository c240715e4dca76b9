----------------------------- MODULE HostKernel -----------------------------
(***************************************************************************)
(* The continuity kernel of src/crates/libmcp/src/host.rs: the state that  *)
(* outlives every worker.  It remembers the public initialization, each    *)
(* dispatched invocation that has no terminal outcome yet, and the frames  *)
(* waiting for a worker.  One action is one successful kernel call; a call *)
(* that is refused without touching the state is a disabled action.        *)
(*                                                                         *)
(* phase, seed, notified  session_phase and initialization_seed            *)
(* pending                HashMap<RequestId, PendingRequest>               *)
(* queue                  queued_frames, front first                       *)
(* nextSequence           next_pending_sequence                            *)
(* ledger                 history only: what happened to every invocation, *)
(*                        indexed by its sequence number                   *)
(***************************************************************************)
EXTENDS ReplayLaw, Integers, Sequences, FiniteSets

CONSTANTS
    Ids,              \* JSON-RPC request ids
    Frames,           \* client frames: [method, id, body]
    NoFrame,          \* no initialization seed
    NoId,             \* the id of a frame that is not a request
    QueueCapacity,    \* queue_capacity of every call
    PendingCapacity,  \* pending_capacity of every call
    MaxAttempts,      \* ReplayBudget::max_attempts, a u8
    MaxSequence       \* the last value of the u64 sequence counter

RequestMethods == {"initialize", "call", "list"}
Methods == RequestMethods \cup {"initialized", "other"}

\* "other" is any frame without a role of its own in the kernel: a
\* notification or a client's response.  body tells payloads apart.
ASSUME FramesAssumption ==
    /\ \A f \in Frames :
        /\ f.method \in Methods
        /\ f.method \in RequestMethods => f.id \in Ids
        /\ f.method \notin RequestMethods => f.id = NoId
    /\ NoFrame \notin Frames
    /\ NoId \notin Ids

ASSUME LimitsAssumption ==
    /\ QueueCapacity \in Nat
    /\ PendingCapacity \in Nat
    /\ MaxAttempts \in 0..AttemptLimit
    /\ MaxSequence \in Nat

VARIABLES phase, seed, notified, pending, queue, nextSequence, ledger

session == <<phase, seed, notified>>
vars == <<phase, seed, notified, pending, queue, nextSequence, ledger>>

Phases == {"Cold", "Initializing", "AwaitingInitialized", "Live"}

SequenceNumbers == 0..(MaxSequence - 1)

PendingRequest ==
    [frame : Frames, sequence : SequenceNumbers, contract : Contracts,
     knowledge : Knowledge, attempts : 0..AttemptLimit,
     disposition : Dispositions \cup {None}]

Outcomes == {"Response", "Probe", "Rejected"}

LedgerEntry ==
    [contract : Contracts \cup {None}, dispatches : Nat, evidence : BOOLEAN,
     outcome : Outcomes \cup {"Absent", "Open"}]

Unwritten ==
    [contract |-> None, dispatches |-> 0, evidence |-> FALSE,
     outcome |-> "Absent"]

-----------------------------------------------------------------------------
(* Helpers                                                                 *)

IsRequest(f) == f.method \in RequestMethods

IsInitialize(f) == f.method = "initialize"

QueuedIds == {queue[k].id : k \in {j \in DOMAIN queue : IsRequest(queue[j])}}

\* A frame that requeueing or popping matches with a pending invocation.
NamesPending(f) == IsRequest(f) /\ f.id \in DOMAIN pending

\* Mutant: nothing is removed.
Retained(map, ids) == map

Without(map, ids) == [i \in DOMAIN map \ ids |-> map[i]]

\* The ways to list the finite set S in ascending order of key: there is one
\* when the keys are distinct.  Listing a set of positions filters a sequence,
\* listing a set of ids sorts it; both are free of recursion.
Listings(S, key) ==
    {l \in [1..Cardinality(S) -> S] :
        /\ \A i, j \in DOMAIN l : i < j => key[l[i]] < key[l[j]]
        /\ \A x \in S : \E i \in DOMAIN l : l[i] = x}

\* frames at the given positions, in queue order
Selections(positions) ==
    {[i \in DOMAIN l |-> queue[l[i]]] :
        l \in Listings(positions, [k \in positions |-> k])}

\* remove_queued_request
WithoutRequest(id) ==
    Selections({k \in DOMAIN queue : ~ (IsRequest(queue[k]) /\ queue[k].id = id)})

\* History: one more dispatch of an invocation, evidence about it, and the
\* losses that make evidence old.
DispatchedAgain(entry) == [entry EXCEPT !.dispatches = @ + 1]

Evidenced(entry) == [entry EXCEPT !.evidence = TRUE]

Unevidenced(history) ==
    [s \in SequenceNumbers |-> [history[s] EXCEPT !.evidence = FALSE]]

\* History: the invocations numbered S have terminated in outcome.
Settled(S, outcome) ==
    [s \in SequenceNumbers |->
        IF s \in S THEN [ledger[s] EXCEPT !.outcome = outcome] ELSE ledger[s]]

-----------------------------------------------------------------------------
Init ==
    /\ phase = "Cold"
    /\ seed = NoFrame
    /\ notified = FALSE
    /\ pending = [i \in {} |-> {}]
    /\ queue = <<>>
    /\ nextSequence = 0
    /\ ledger = [s \in SequenceNumbers |-> Unwritten]

-----------------------------------------------------------------------------
(* observe_client_frame: the two frames with a role in the public          *)
(* handshake.                                                              *)

ObserveInitialize(f) ==
    /\ IsInitialize(f)
    /\ phase = "Cold"
    /\ seed = NoFrame
    /\ seed' = f
    /\ notified' = FALSE
    /\ UNCHANGED <<phase, pending, queue, nextSequence, ledger>>

ObserveInitialized(f) ==
    /\ f.method = "initialized"
    /\ phase = "AwaitingInitialized"
    /\ seed # NoFrame
    /\ notified' = TRUE
    /\ phase' = "Live"
    /\ UNCHANGED <<seed, pending, queue, nextSequence, ledger>>

(* queue_client_frame *)
QueueClientFrame(f) ==
    /\ Len(queue) < QueueCapacity
    /\ IsRequest(f) => f.id \notin DOMAIN pending /\ f.id \notin QueuedIds
    /\ queue' = Append(queue, f)
    /\ UNCHANGED <<session, pending, nextSequence, ledger>>

(* pop_next_dispatch, outcome ClientFrame: the frame is only dequeued. *)
PopClientFrame ==
    /\ queue # <<>>
    /\ ~ NamesPending(Head(queue))
    /\ queue' = Tail(queue)
    /\ UNCHANGED <<session, pending, nextSequence, ledger>>

MayRedispatch(request) ==
    /\ request.disposition = "Replay"
    /\ AfterDispatch(request.knowledge, "Replay") # None
    /\ request.attempts < AttemptLimit

Redispatched(request) ==
    [request EXCEPT !.knowledge = AfterDispatch(@, "Replay"),
                    !.attempts = @ + 1,
                    !.disposition = None]

(* pop_next_dispatch, outcome Replay: the attempt is consumed here.  The   *)
(* outcomes Empty and HeldForProbe change nothing.                         *)
PopReplay ==
    /\ queue # <<>>
    /\ NamesPending(Head(queue))
    /\ MayRedispatch(pending[Head(queue).id])
    /\ pending' = [pending EXCEPT ![Head(queue).id] = Redispatched(@)]
    /\ ledger' = [ledger EXCEPT ![pending[Head(queue).id].sequence] = DispatchedAgain(@)]
    /\ queue' = Tail(queue)
    /\ UNCHANGED <<session, nextSequence>>

-----------------------------------------------------------------------------
(* begin_request_dispatch: the first dispatch of a routed request under    *)
(* the contract its consumer classified it with.                           *)

\* Mutant: the sequence number is taken after the counter has moved.
SequencedLate(f, contract) ==
    [frame |-> f, sequence |-> nextSequence + 1, contract |-> contract,
     knowledge |-> "InFlight", attempts |-> 0, disposition |-> None]

FirstDispatchOf(f, contract) ==
    [frame |-> f, sequence |-> nextSequence, contract |-> contract,
     knowledge |-> "InFlight", attempts |-> 0, disposition |-> None]

\* Mutant: an id is not checked against the pending ones.
MayBeginTwice(f) ==
    /\ IsRequest(f)
    /\ f.id \notin QueuedIds
    /\ Cardinality(DOMAIN pending) < PendingCapacity
    /\ nextSequence < MaxSequence
    /\ IsInitialize(f) => phase = "Cold" /\ seed \in {NoFrame, f}

MayBegin(f) ==
    /\ IsRequest(f)
    /\ f.id \notin DOMAIN pending
    /\ f.id \notin QueuedIds
    /\ Cardinality(DOMAIN pending) < PendingCapacity
    /\ nextSequence < MaxSequence
    /\ IsInitialize(f) => phase = "Cold" /\ seed \in {NoFrame, f}

BeginRequestDispatch(f, contract) ==
    /\ MayBegin(f)
    /\ IF IsInitialize(f)
       THEN seed' = f /\ phase' = "Initializing"
       ELSE UNCHANGED <<seed, phase>>
    /\ nextSequence' = nextSequence + 1
    /\ pending' = [i \in DOMAIN pending \cup {f.id} |->
            IF i = f.id THEN FirstDispatchOf(f, contract) ELSE pending[i]]
    /\ ledger' = [ledger EXCEPT ![nextSequence] =
            [contract |-> contract, dispatches |-> 1, evidence |-> FALSE,
             outcome |-> "Open"]]
    /\ UNCHANGED <<notified, queue>>

(* complete_response: one exact terminal response.  A response may still   *)
(* arrive for an invocation that is scheduled for recovery; its queued     *)
(* frame is then taken back.                                               *)
CompleteResponse(id, hasError) ==
    /\ id \in DOMAIN pending
    /\ AfterTerminalOutcome(pending[id].knowledge) # None
    /\ IF IsInitialize(pending[id].frame)
       THEN /\ phase = "Initializing"
            /\ phase' = IF hasError THEN "Cold" ELSE "AwaitingInitialized"
            /\ seed' = IF hasError THEN NoFrame ELSE seed
            /\ notified' = IF hasError THEN FALSE ELSE notified
       ELSE UNCHANGED session
    /\ pending' = Without(pending, {id})
    /\ queue' \in WithoutRequest(id)
    /\ ledger' = Settled({pending[id].sequence}, "Response")
    /\ UNCHANGED nextSequence

-----------------------------------------------------------------------------
(* requeue_pending_for_replay: worker loss.  Every pending invocation is   *)
(* judged by the recovery law; those it allows are scheduled ahead of the  *)
(* client backlog in their original order, as far as the queue has room.   *)
(* The others are returned as rejected and leave the pending map.          *)

\* Mutant: the attempts already made are not counted.
AttemptsForgotten(id) ==
    RequestDisposition(AfterWorkerLoss(pending[id].knowledge),
                       pending[id].contract, None, 0, MaxAttempts)

LossDisposition(id) ==
    RequestDisposition(AfterWorkerLoss(pending[id].knowledge),
                       pending[id].contract, None,
                       pending[id].attempts, MaxAttempts)

Scheduled(id) ==
    [pending[id] EXCEPT !.knowledge = AfterWorkerLoss(@),
                        !.disposition = LossDisposition(id)]

Replayable ==
    {id \in DOMAIN pending : LossDisposition(id) \in {"Replay", "HoldForProbe"}}

BacklogPositions == {k \in DOMAIN queue : ~ NamesPending(queue[k])}

Older(id) == {o \in Replayable : pending[o].sequence < pending[id].sequence}

\* Mutant: the room left in the queue is not looked at.
RescheduledAll == Replayable

Rescheduled ==
    {id \in Replayable :
        Cardinality(Older(id)) + Cardinality(BacklogPositions) < QueueCapacity}

\* Mutant: the newest invocation first.
NewestFirst ==
    {[i \in DOMAIN l |-> pending[l[i]].frame] :
        l \in Listings(Rescheduled,
                       [id \in Rescheduled |-> 0 - pending[id].sequence])}

RecoveryQueues ==
    {[i \in DOMAIN l |-> pending[l[i]].frame] :
        l \in Listings(Rescheduled,
                       [id \in Rescheduled |-> pending[id].sequence])}

RequeuePendingForReplay ==
    /\ pending' = [id \in Rescheduled |-> Scheduled(id)]
    /\ \E recovered \in RecoveryQueues, backlog \in Selections(BacklogPositions) :
            queue' = recovered \o backlog
    /\ ledger' = Unevidenced(Settled(
            {pending[id].sequence : id \in DOMAIN pending \ Rescheduled}, "Rejected"))
    /\ UNCHANGED <<session, nextSequence>>

-----------------------------------------------------------------------------
(* resolve_probe: a consumer's evidence about a held invocation.           *)

ProbeDisposition(id, resolution) ==
    RequestDisposition(pending[id].knowledge, pending[id].contract, resolution,
                       pending[id].attempts, MaxAttempts)

Held(id) == id \in DOMAIN pending /\ pending[id].disposition = "HoldForProbe"

Authorized(request) == [request EXCEPT !.disposition = "Replay"]

ProbeAuthorizesReplay(id, resolution) ==
    /\ Held(id)
    /\ ProbeDisposition(id, resolution) = "Replay"
    /\ pending' = [pending EXCEPT ![id] = Authorized(@)]
    /\ ledger' = [ledger EXCEPT ![pending[id].sequence] = Evidenced(@)]
    /\ UNCHANGED <<session, queue, nextSequence>>

ProbeCompletes(id, resolution) ==
    /\ Held(id)
    /\ ProbeDisposition(id, resolution) = "CompleteFromProbe"
    /\ AfterCompletedProbe(pending[id].knowledge) # None
    /\ pending' = Without(pending, {id})
    /\ queue' \in WithoutRequest(id)
    /\ ledger' = Settled({pending[id].sequence}, "Probe")
    /\ UNCHANGED <<session, nextSequence>>

(* The budget is spent: the call fails, and removes the invocation. *)
ProbeExhausted(id, resolution) ==
    /\ Held(id)
    /\ ProbeDisposition(id, resolution) = "RejectReplayExhausted"
    /\ pending' = Without(pending, {id})
    /\ queue' \in WithoutRequest(id)
    /\ ledger' = Settled({pending[id].sequence}, "Rejected")
    /\ UNCHANGED <<session, nextSequence>>

-----------------------------------------------------------------------------
Next ==
    \/ \E f \in Frames :
        \/ ObserveInitialize(f)
        \/ ObserveInitialized(f)
        \/ QueueClientFrame(f)
        \/ \E contract \in Contracts : BeginRequestDispatch(f, contract)
    \/ PopClientFrame
    \/ PopReplay
    \/ \E id \in Ids, hasError \in BOOLEAN : CompleteResponse(id, hasError)
    \/ RequeuePendingForReplay
    \/ \E id \in Ids, resolution \in Resolutions :
        \/ ProbeAuthorizesReplay(id, resolution)
        \/ ProbeCompletes(id, resolution)
        \/ ProbeExhausted(id, resolution)

Spec == Init /\ [][Next]_vars

-----------------------------------------------------------------------------
(* Properties                                                              *)

\* Every variable keeps its type: queued frames are client frames, every
\* pending invocation is filed under the id of its own immutable frame, and
\* the sequence counter stays below the top of its type.
TypeOK ==
    /\ phase \in Phases
    /\ seed \in {f \in Frames : IsInitialize(f)} \cup {NoFrame}
    /\ notified \in BOOLEAN
    /\ DOMAIN pending \subseteq Ids
    /\ pending \in [DOMAIN pending -> PendingRequest]
    /\ \A id \in DOMAIN pending :
            IsRequest(pending[id].frame) /\ pending[id].frame.id = id
    /\ queue \in Seq(Frames)
    /\ nextSequence \in 0..MaxSequence
    /\ ledger \in [SequenceNumbers -> LedgerEntry]

Open == {s \in SequenceNumbers : ledger[s].outcome = "Open"}

\* No invocation is dropped in silence and none is kept twice: an accepted
\* invocation has exactly one pending entry until it has been given an
\* outcome, whatever requeueing, probing and answering did in between
\* (docs/spec.md, Bounded Recovery).
NoSilentDrop ==
    /\ \A s \in SequenceNumbers :
            ledger[s].outcome # "Absent" <=> s < nextSequence
    /\ \A id \in DOMAIN pending : pending[id].sequence \in Open
    /\ \A s \in Open : \E id \in DOMAIN pending :
            /\ pending[id].sequence = s
            /\ pending[id].contract = ledger[s].contract
            /\ \A other \in DOMAIN pending :
                    pending[other].sequence = s => other = id

\* What the host knows about a pending invocation and what it has scheduled
\* agree with what was really dispatched: an attempt is counted when it is
\* redispatched and never when it is queued, only an unknown outcome is
\* scheduled, and no invocation exceeds its budget, which is one dispatch for
\* NeverReplay (formal_semantics.md I5, I6).
AttemptsAreDispatches ==
    \A id \in DOMAIN pending :
        LET request == pending[id] IN
        /\ ledger[request.sequence].dispatches = request.attempts + 1
        /\ request.attempts <= MaxAttempts
        /\ request.contract = "NeverReplay" => request.attempts = 0
        /\ request.disposition = None <=> request.knowledge = "InFlight"
        /\ request.disposition = "Replay" => request.attempts < MaxAttempts

\* At most one dispatch of a NeverReplay invocation and at most MaxAttempts
\* replays of any other, over its whole life (I6, Theorem 2).
BoundedDispatch ==
    \A s \in SequenceNumbers :
        ledger[s].dispatches <=
            IF ledger[s].contract = "NeverReplay" THEN 1 ELSE 1 + MaxAttempts

RepeatsWithAuthority ==
    \A s \in SequenceNumbers :
        /\ ledger[s].dispatches > 0
        /\ ledger'[s].dispatches # ledger[s].dispatches
        => \/ ledger[s].contract = "Convergent"
           \/ ledger[s].contract = "ProbeRequired" /\ ledger[s].evidence

\* An invocation is dispatched again only by its contract or, when the
\* contract asks for a probe, by evidence given since the last worker was
\* lost: evidence about an earlier attempt says nothing of a later one
\* (I5, Theorem 6).
AuthorizedRepetition == [][RepeatsWithAuthority]_vars

OutcomesAreFinal ==
    \A s \in SequenceNumbers :
        ledger[s].outcome \in Outcomes =>
            /\ ledger'[s].outcome = ledger[s].outcome
            /\ ledger'[s].dispatches = ledger[s].dispatches

\* A terminal outcome is final: after it the invocation is neither dispatched
\* nor answered again, even when a frame of it was still queued (I4).
SingleTerminalOutcome == [][OutcomesAreFinal]_vars

ScheduledBefore(s) ==
    {id \in DOMAIN pending :
        pending[id].disposition # None /\ pending[id].sequence < s}

RecoversInOrder ==
    /\ \A s \in SequenceNumbers :
            /\ ledger[s].dispatches > 0
            /\ ledger'[s].dispatches > ledger[s].dispatches
            => ScheduledBefore(s) = {}
    /\ PopClientFrame => ScheduledBefore(MaxSequence) = {}

\* Recovered invocations leave the queue in their original order, whatever
\* losses and probes happened while they waited, and no client frame leaves
\* the queue while one is scheduled (docs/spec.md, Ordered Recovery).
OrderedRecovery == [][RecoversInOrder]_vars

-----------------------------------------------------------------------------
(* The kernel implements the invocation law: one invocation's life, as the *)
(* formal semantics tells it, without ids, frames or queues.               *)

RequestOf(s) == CHOOSE id \in DOMAIN pending : pending[id].sequence = s

Stage ==
    [s \in SequenceNumbers |->
        CASE ledger[s].outcome = "Absent" -> "Absent"
          [] ledger[s].outcome = "Open" -> pending[RequestOf(s)].knowledge
          [] OTHER -> "Settled"]

Law == INSTANCE InvocationLaw WITH
    Numbers <- SequenceNumbers,
    stage <- Stage,
    contract <- [s \in SequenceNumbers |-> ledger[s].contract],
    dispatches <- [s \in SequenceNumbers |-> ledger[s].dispatches],
    evidence <- [s \in SequenceNumbers |-> ledger[s].evidence]

\* Every kernel step is a step of the abstract law of one invocation, or one
\* that no invocation notices.
ImplementsInvocationLaw == Law!Spec
=============================================================================
