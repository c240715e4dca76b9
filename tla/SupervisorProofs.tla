-------------------------- MODULE SupervisorProofs --------------------------
(***************************************************************************)
(* Theorems about the host: how it reads a catalog, that it uses the       *)
(* kernel by its operations only, and the invariant of its roles.          *)
(*                                                                         *)
(* The layers, each of which rests on those before it:                     *)
(*   - what a tool declares decides whether its calls are repeated;        *)
(*   - the kernel of the host (K) is the kernel of HostSnapshotProofs (KP) *)
(*     over the same variables, and its proved invariant holds of it;      *)
(*   - a handler makes at most one call of the kernel, and KernelHolds,    *)
(*     InFlight and phase are all of its effect the host looks at;         *)
(*   - types, action by action (Typed);                                    *)
(*   - the roles, action by action (Coordinated): who serves, who is       *)
(*     prepared, what the fence is held for, who owes which answer;        *)
(*   - HostInv, both together, is inductive, and the theorems follow.      *)
(*                                                                         *)
(* A lemma <Action>Typed or <Action>Coordinated says that a step of that   *)
(* action keeps the respective part of the invariant.                      *)
(***************************************************************************)
EXTENDS Supervisor, FiniteSetTheorems, SequenceTheorems, TLAPS

\* A declaration that is not refused becomes a contract.
LEMMA ContractTyped ==
    ASSUME NEW d \in Declarations, ~ Refused(d)
    PROVE  ParseContract(d) \in Contract
<1>1. CASE d.explicit
    <2>1. d.recovery \in DOMAIN RecoveryKinds
        BY <1>1 DEF Refused, Declarations
    <2>2. RecoveryKinds[d.recovery] \in EffectRecovery
        BY <2>1 DEF RecoveryKinds, EffectRecovery
    <2>3. StateOf(d) \in SessionStateContract
        BY DEF StateOf, SessionStateContract
    <2> QED
        BY <1>1, <2>2, <2>3 DEF ParseContract, Contract
<1>2. CASE ~ d.explicit
    <2>1. InferredRecovery(d) \in EffectRecovery
        BY DEF InferredRecovery, EffectRecovery, Annotations
    <2> QED
        BY <1>2, <2>1 DEF ParseContract, Contract, SessionStateContract
<1> QED
    BY <1>1, <1>2

\* The transitions a journal keeps are those of tools whose calls may be
\* repeated without a repeated effect: replaying the journal into a candidate
\* (restore) is lawful for every catalog that parses.
THEOREM JournaledIsRepeatable ==
    ASSUME NEW d \in Declarations, ~ Refused(d),
           ParseContract(d).state \in {"Journaled", "JournaledByArgument"}
    PROVE  ReplayContract(ParseContract(d).recovery) = "Convergent"
<1>1. d.explicit
    BY DEF ParseContract
<1>2. d.state = "journaled"
    BY <1>1 DEF ParseContract, StateOf, Declarations, StateKinds
<1>3. d.recovery \in {"replay_safe", "deduplicated"}
    BY <1>1, <1>2 DEF Refused
<1> QED
    BY <1>1, <1>3 DEF ParseContract, RecoveryKinds, ReplayContract

\* A call is classified as convergent, which is what lets the kernel send it
\* again, only if the published catalog declares its tool repeatable, or
\* repeatable with a key that this call carries.
THEOREM ClassifiedByDeclaration ==
    ASSUME NEW f \in Frames, f.method = "call",
           published \in Catalogs \cup {NoCatalog},
           Classify(f) = "Convergent"
    PROVE  /\ published \in Catalogs
           /\ f.body.tool \in DOMAIN Declared[published]
           /\ MayRepeat(Declared[published][f.body.tool], f.body.keyed)
<1> DEFINE d == Declared[published][f.body.tool]
<1>1. RecoveryOf(f) \in {"ReplaySafe", "Deduplicated"}
    BY DEF Classify, ReplayContract
<1>2. /\ ContractFor(f).recovery \in {"ReplaySafe", "Deduplicated"}
      /\ ContractFor(f).recovery = "Deduplicated" => f.body.keyed
    BY <1>1 DEF RecoveryOf
<1>3. published \in Catalogs /\ f.body.tool \in DOMAIN Declared[published]
    BY <1>2 DEF ContractFor, Uncontracted
<1>4. ContractFor(f) = ParseContract(d)
    BY <1>3, RolesAssumption DEF ContractFor
<1>5. d \in Declarations /\ ~ Refused(d)
    BY <1>3, CatalogsAssumption
<1> HIDE DEF d
<1>6. CASE d.explicit
    <2>1. ParseContract(d).recovery = RecoveryKinds[d.recovery]
        BY <1>6 DEF ParseContract
    <2>2. d.recovery \in DOMAIN RecoveryKinds
        BY <1>5, <1>6 DEF Refused, Declarations
    <2>3. \/ d.recovery = "replay_safe"
          \/ d.recovery = "deduplicated" /\ f.body.keyed
        BY <1>2, <1>4, <2>1, <2>2 DEF RecoveryKinds
    <2>4. MayRepeat(d, f.body.keyed)
        BY <1>6, <2>3 DEF MayRepeat
    <2> QED
        BY <1>3, <2>4 DEF d
<1>7. CASE ~ d.explicit
    <2>1. ParseContract(d).recovery = InferredRecovery(d)
        BY <1>7 DEF ParseContract
    <2>2. d.annotation = "convergent" \/ (d.annotation = "unknown" /\ d.hinted)
        BY <1>2, <1>4, <1>5, <2>1 DEF InferredRecovery, Annotations, Declarations
    <2>3. MayRepeat(d, f.body.keyed)
        BY <1>7, <2>2 DEF MayRepeat
    <2> QED
        BY <1>3, <2>3 DEF d
<1> QED
    BY <1>6, <1>7

-----------------------------------------------------------------------------
(* The kernel of the host is the kernel that has been proved about: its    *)
(* operators, named through Supervisor or through its proofs, are the same *)

KP == INSTANCE HostSnapshotProofs

LEMMA KernelConstants == KP!FramesAssumption /\ KP!LimitsAssumption
BY KernelAssumption
    DEF K!FramesAssumption, K!LimitsAssumption, KP!FramesAssumption, KP!LimitsAssumption,
        K!Methods, KP!Methods, K!RequestMethods, KP!RequestMethods,
        K!AttemptLimit, KP!AttemptLimit

-----------------------------------------------------------------------------
(* The kernel of the host and the kernel of the proofs are the same module *)

LEMMA SameConstants ==
    /\ K!None = KP!None /\ K!Phases = KP!Phases /\ K!AttemptLimit = KP!AttemptLimit
    /\ K!SequenceNumbers = KP!SequenceNumbers /\ K!RequestMethods = KP!RequestMethods
    /\ K!Contracts = KP!Contracts
BY DEF K!None, KP!None, K!Phases, KP!Phases, K!AttemptLimit, KP!AttemptLimit,
       K!SequenceNumbers, KP!SequenceNumbers, K!RequestMethods, KP!RequestMethods,
       K!Contracts, KP!Contracts

LEMMA SameCardinality == \A S : K!Cardinality(S) = KP!Cardinality(S)
BY DEF K!Cardinality, KP!Cardinality

LEMMA SameFrames ==
    /\ \A f : K!IsRequest(f) <=> KP!IsRequest(f)
    /\ \A f : K!IsInitialize(f) <=> KP!IsInitialize(f)
    /\ \A f : K!NamesPending(f) <=> KP!NamesPending(f)
    /\ K!QueuedIds = KP!QueuedIds
BY Zenon DEF K!IsRequest, KP!IsRequest, K!IsInitialize, KP!IsInitialize, K!NamesPending,
       KP!NamesPending, K!QueuedIds, KP!QueuedIds, K!RequestMethods, KP!RequestMethods

LEMMA SameHistory ==
    /\ K!Unwritten = KP!Unwritten
    /\ \A e : K!DispatchedAgain(e) = KP!DispatchedAgain(e)
    /\ \A h : K!Unevidenced(h) = KP!Unevidenced(h)
    /\ \A S, o : K!Settled(S, o) = KP!Settled(S, o)
BY Zenon DEF K!Unwritten, KP!Unwritten, K!None, KP!None, K!DispatchedAgain,
    KP!DispatchedAgain,
       K!Unevidenced, KP!Unevidenced, K!Settled, KP!Settled,
       K!SequenceNumbers, KP!SequenceNumbers

LEMMA SameSelections ==
    /\ \A m, ids : K!Without(m, ids) = KP!Without(m, ids)
    /\ \A S, key : K!Listings(S, key) = KP!Listings(S, key)
    /\ \A positions : K!Selections(positions) = KP!Selections(positions)
    /\ \A id : K!WithoutRequest(id) = KP!WithoutRequest(id)
<1>1. \A m, ids : K!Without(m, ids) = KP!Without(m, ids)
    BY Zenon DEF K!Without, KP!Without
<1>2. \A S, key : K!Listings(S, key) = KP!Listings(S, key)
    BY SameCardinality, SMT DEF K!Listings, KP!Listings
<1>3. \A positions : K!Selections(positions) = KP!Selections(positions)
    BY <1>2, SMT DEF K!Selections, KP!Selections
<1>4. \A id : K!WithoutRequest(id) = KP!WithoutRequest(id)
    BY <1>3, SameFrames, SMT DEF K!WithoutRequest, KP!WithoutRequest
<1> QED
    BY <1>1, <1>2, <1>3, <1>4

LEMMA SameLaw ==
    /\ \A k : K!AfterWorkerLoss(k) = KP!AfterWorkerLoss(k)
    /\ \A k, d : K!AfterDispatch(k, d) = KP!AfterDispatch(k, d)
    /\ \A k : K!AfterTerminalOutcome(k) = KP!AfterTerminalOutcome(k)
    /\ \A k, c, r, a, m : K!RequestDisposition(k, c, r, a, m) = KP!RequestDisposition(k, c, r, a, m)
<1>1. \A k : K!AfterWorkerLoss(k) = KP!AfterWorkerLoss(k)
    BY Zenon DEF K!AfterWorkerLoss, KP!AfterWorkerLoss
<1>2. \A k, d : K!AfterDispatch(k, d) = KP!AfterDispatch(k, d)
    BY Zenon DEF K!AfterDispatch, KP!AfterDispatch, K!None, KP!None
<1>3. \A k : K!AfterTerminalOutcome(k) = KP!AfterTerminalOutcome(k)
    BY Zenon DEF K!AfterTerminalOutcome, KP!AfterTerminalOutcome, K!None, KP!None
<1>4. \A k, c, r, a, m : K!RequestDisposition(k, c, r, a, m) = KP!RequestDisposition(k, c, r, a, m)
    BY SMT DEF K!RequestDisposition, KP!RequestDisposition, K!UnknownDisposition,
        KP!UnknownDisposition,
      K!ReplayOrExhausted, KP!ReplayOrExhausted, K!HasNextAttempt, KP!HasNextAttempt, K!AttemptLimit, KP!AttemptLimit,
      K!None, KP!None
<1> QED
    BY <1>1, <1>2, <1>3, <1>4

LEMMA SameObserve ==
    /\ K!Init <=> KP!Init
    /\ \A f : K!ObserveInitialize(f) <=> KP!ObserveInitialize(f)
    /\ \A f : K!ObserveInitialized(f) <=> KP!ObserveInitialized(f)
    /\ \A f : K!QueueClientFrame(f) <=> KP!QueueClientFrame(f)
    /\ K!PopClientFrame <=> KP!PopClientFrame
<1>1. K!Init <=> KP!Init
    BY Zenon DEF K!Init, KP!Init, K!Unwritten, KP!Unwritten, K!None, KP!None,
        K!SequenceNumbers, KP!SequenceNumbers
<1>2. \A f : K!ObserveInitialize(f) <=> KP!ObserveInitialize(f)
    BY SameFrames, Zenon DEF K!ObserveInitialize, KP!ObserveInitialize
<1>3. \A f : K!ObserveInitialized(f) <=> KP!ObserveInitialized(f)
    BY Zenon DEF K!ObserveInitialized, KP!ObserveInitialized
<1>4. \A f : K!QueueClientFrame(f) <=> KP!QueueClientFrame(f)
    BY SameFrames, Zenon DEF K!QueueClientFrame, KP!QueueClientFrame, K!session,
        KP!session
<1>5. K!PopClientFrame <=> KP!PopClientFrame
    BY SameFrames, Zenon DEF K!PopClientFrame, KP!PopClientFrame, K!session, KP!session
<1> QED
    BY <1>1, <1>2, <1>3, <1>4, <1>5

LEMMA SamePopReplay == K!PopReplay <=> KP!PopReplay
<1>1. \A r : K!MayRedispatch(r) <=> KP!MayRedispatch(r)
    BY SameLaw, SameConstants, Zenon DEF K!MayRedispatch, KP!MayRedispatch
<1>2. \A r : K!Redispatched(r) = KP!Redispatched(r)
    BY Zenon DEF K!Redispatched, KP!Redispatched, K!AfterDispatch, KP!AfterDispatch,
        K!None, KP!None
<1> QED
    BY <1>1, <1>2, SameHistory, SameFrames, SMT DEF K!PopReplay, KP!PopReplay,
        K!session, KP!session

LEMMA SameBegin == \A f, c : K!BeginRequestDispatch(f, c) <=> KP!BeginRequestDispatch(f, c)
<1>1. \A f : K!MayBegin(f) <=> KP!MayBegin(f)
    BY SameFrames, SameCardinality, SMT DEF K!MayBegin, KP!MayBegin
<1>2. \A f, c : K!FirstDispatchOf(f, c) = KP!FirstDispatchOf(f, c)
    BY Zenon DEF K!FirstDispatchOf, KP!FirstDispatchOf, K!None, KP!None
<1> QED
    BY <1>1, <1>2, SameFrames, SMT DEF K!BeginRequestDispatch, KP!BeginRequestDispatch

LEMMA SameComplete == \A id, e : K!CompleteResponse(id, e) <=> KP!CompleteResponse(id, e)
<1> SUFFICES ASSUME NEW id, NEW e
             PROVE  K!CompleteResponse(id, e) <=> KP!CompleteResponse(id, e)
    OBVIOUS
<1>1. \A k : K!AfterTerminalOutcome(k) # K!None <=> KP!AfterTerminalOutcome(k) # KP!None
    BY SameLaw, SameConstants
<1>2. K!Without(pending, {id}) = KP!Without(pending, {id}) /\ K!WithoutRequest(id) = KP!WithoutRequest(id)
    BY SameSelections
<1>3. K!Settled({pending[id].sequence}, "Response") = KP!Settled({pending[id].sequence}, "Response")
    BY SameHistory
<1>4. K!IsInitialize(pending[id].frame) <=> KP!IsInitialize(pending[id].frame)
    BY SameFrames
<1> QED
    BY <1>1, <1>2, <1>3, <1>4, Zenon
        DEF K!CompleteResponse, KP!CompleteResponse, K!session, KP!session

LEMMA SameRequeue == K!RequeuePendingForReplay <=> KP!RequeuePendingForReplay
<1>1. \A id : K!LossDisposition(id) = KP!LossDisposition(id)
    BY SameLaw, SameConstants, SMT DEF K!LossDisposition, KP!LossDisposition
<1>2. \A id : K!Scheduled(id) = KP!Scheduled(id)
    BY <1>1, SameLaw, Zenon DEF K!Scheduled, KP!Scheduled
<1>3. K!Replayable = KP!Replayable
    BY <1>1, SMT DEF K!Replayable, KP!Replayable
<1>4. K!BacklogPositions = KP!BacklogPositions
    BY SameFrames, SMT DEF K!BacklogPositions, KP!BacklogPositions
<1>5. \A id : K!Older(id) = KP!Older(id)
    BY <1>3, SMT DEF K!Older, KP!Older
<1>6. K!Rescheduled = KP!Rescheduled
    BY <1>3, <1>4, <1>5, SameCardinality, SMT DEF K!Rescheduled, KP!Rescheduled
<1>7. K!RecoveryQueues = KP!RecoveryQueues
    BY <1>6, SameSelections, SMT DEF K!RecoveryQueues, KP!RecoveryQueues
<1>8. [id \in K!Rescheduled |-> K!Scheduled(id)] = [id \in KP!Rescheduled |-> KP!Scheduled(id)]
    BY <1>2, <1>6, Zenon
<1>9. K!Selections(K!BacklogPositions) = KP!Selections(KP!BacklogPositions)
    BY <1>4, SameSelections
<1>10. K!Unevidenced(K!Settled({pending[id].sequence : id \in DOMAIN pending \ K!Rescheduled}, "Rejected"))
        = KP!Unevidenced(KP!Settled({pending[id].sequence : id \in DOMAIN pending \ KP!Rescheduled}, "Rejected"))
    BY <1>6, SameHistory
<1> QED
    BY <1>7, <1>8, <1>9, <1>10, Zenon
        DEF K!RequeuePendingForReplay, KP!RequeuePendingForReplay, K!session, KP!session

LEMMA SameProbes ==
    \A id, resolution :
        /\ K!ProbeAuthorizesReplay(id, resolution) <=> KP!ProbeAuthorizesReplay(id, resolution)
        /\ K!ProbeCompletes(id, resolution) <=> KP!ProbeCompletes(id, resolution)
        /\ K!ProbeExhausted(id, resolution) <=> KP!ProbeExhausted(id, resolution)
<1> SUFFICES ASSUME NEW id, NEW resolution
             PROVE  /\ K!ProbeAuthorizesReplay(id, resolution) <=> KP!ProbeAuthorizesReplay(id, resolution)
                    /\ K!ProbeCompletes(id, resolution) <=> KP!ProbeCompletes(id, resolution)
                    /\ K!ProbeExhausted(id, resolution) <=> KP!ProbeExhausted(id, resolution)
    OBVIOUS
<1>1. K!ProbeDisposition(id, resolution) = KP!ProbeDisposition(id, resolution)
    BY SameLaw DEF K!ProbeDisposition, KP!ProbeDisposition
<1>2. K!Held(id) <=> KP!Held(id)
    BY DEF K!Held, KP!Held
<1>3. \A k : K!AfterCompletedProbe(k) # K!None <=> KP!AfterCompletedProbe(k) # KP!None
    BY DEF K!AfterCompletedProbe, KP!AfterCompletedProbe, K!None, KP!None
<1>4. \A r : K!Authorized(r) = KP!Authorized(r)
    BY Zenon DEF K!Authorized, KP!Authorized
<1>5. \A e : K!Evidenced(e) = KP!Evidenced(e)
    BY Zenon DEF K!Evidenced, KP!Evidenced
<1>6. K!ProbeAuthorizesReplay(id, resolution) <=> KP!ProbeAuthorizesReplay(id, resolution)
    BY <1>1, <1>2, <1>4, <1>5, Zenon
        DEF K!ProbeAuthorizesReplay, KP!ProbeAuthorizesReplay, K!session, KP!session
<1>7. K!ProbeCompletes(id, resolution) <=> KP!ProbeCompletes(id, resolution)
    BY <1>1, <1>2, <1>3, SameSelections, SameHistory, Zenon
        DEF K!ProbeCompletes, KP!ProbeCompletes, K!session, KP!session
<1>8. K!ProbeExhausted(id, resolution) <=> KP!ProbeExhausted(id, resolution)
    BY <1>1, <1>2, SameSelections, SameHistory, Zenon
        DEF K!ProbeExhausted, KP!ProbeExhausted, K!session, KP!session
<1> QED
    BY <1>6, <1>7, <1>8

LEMMA SameNext == K!Next <=> KP!Next
<1>1. K!Contracts = KP!Contracts /\ K!Resolutions = KP!Resolutions
    BY DEF K!Contracts, KP!Contracts, K!Resolutions, KP!Resolutions
<1> QED
    BY <1>1, SameObserve, SameBegin, SamePopReplay, SameComplete, SameRequeue,
        SameProbes, Zenon
        DEF K!Next, KP!Next

LEMMA SameTypes == KP!TypeInv => K!TypeOK
<1>1. K!LedgerEntry = KP!LedgerEntry
    BY DEF K!LedgerEntry, KP!LedgerEntry, K!Contracts, KP!Contracts, K!None, KP!None,
           K!Outcomes, KP!Outcomes
<1>2. K!PendingRequest = KP!PendingRequest
    BY DEF K!PendingRequest, KP!PendingRequest, K!SequenceNumbers, KP!SequenceNumbers,
           K!Contracts, KP!Contracts, K!Knowledge, KP!Knowledge, K!AttemptLimit, KP!AttemptLimit,
           K!Dispositions, KP!Dispositions, K!None, KP!None
<1> QED
    BY <1>1, <1>2, SameConstants, SameFrames DEF KP!TypeInv, KP!TypeOK, K!TypeOK

-----------------------------------------------------------------------------
(* What a handler's kernel call leaves of what the host looks at           *)

\* Ids of requests the kernel holds.
KernelHolds == DOMAIN pending \cup K!QueuedIds

SameInvocation(id) ==
    /\ pending'[id].frame = pending[id].frame
    /\ pending'[id].contract = pending[id].contract

SeenAlike ==
    /\ InFlight = KP!InFlightIds
    /\ KernelHolds = KP!HeldIds
    /\ K!QueuedIds = KP!QueuedIds

LEMMA SameSight == SeenAlike
BY SameFrames DEF SeenAlike, InFlight, KP!InFlightIds, KernelHolds, KP!HeldIds, K!None,
    KP!None

LEMMA SameSightNext == SeenAlike'
BY SameSight, PTL

LEMMA KernelUntouched ==
    ASSUME UNCHANGED kernelVars
    PROVE  /\ UNCHANGED <<phase, pending, queue>>
           /\ InFlight' = InFlight /\ KernelHolds' = KernelHolds
BY DEF kernelVars, InFlight, KernelHolds, K!QueuedIds

LEMMA HandshakeSeen ==
    ASSUME NEW f, K!ObserveInitialize(f) \/ K!ObserveInitialized(f)
    PROVE  /\ UNCHANGED <<pending, queue>>
           /\ InFlight' = InFlight /\ KernelHolds' = KernelHolds
           /\ IF K!ObserveInitialize(f) THEN phase = "Cold" /\ phase' = phase
              ELSE phase = "AwaitingInitialized" /\ phase' = "Live"
BY DEF K!ObserveInitialize, K!ObserveInitialized, InFlight, KernelHolds, K!QueuedIds

LEMMA HostBegins ==
    ASSUME KP!SnapshotInv, NEW f \in Frames, NEW contract \in K!Contracts,
           K!BeginRequestDispatch(f, contract)
    PROVE  /\ K!IsRequest(f) /\ f.id \in Ids /\ f.id \notin KernelHolds
           /\ DOMAIN pending' = DOMAIN pending \cup {f.id}
           /\ \A id \in DOMAIN pending : SameInvocation(id)
           /\ pending'[f.id].frame = f /\ pending'[f.id].contract = contract
           /\ InFlight' = InFlight \cup {f.id}
           /\ KernelHolds' = KernelHolds \cup {f.id}
           /\ IF K!IsInitialize(f) THEN phase = "Cold" /\ phase' = "Initializing"
                                   ELSE phase' = phase
<1>1. KP!BeginRequestDispatch(f, contract) /\ contract \in KP!Contracts
    BY SameBegin, SameConstants
<1>2. /\ KP!IsRequest(f) /\ f.id \in Ids /\ f.id \notin KP!HeldIds
      /\ DOMAIN pending' = DOMAIN pending \cup {f.id}
      /\ \A id \in DOMAIN pending : pending'[id] = pending[id]
      /\ pending'[f.id].frame = f /\ pending'[f.id].contract = contract
      /\ KP!InFlightIds' = KP!InFlightIds \cup {f.id}
      /\ KP!QueuedIds' = KP!QueuedIds
      /\ IF KP!IsInitialize(f) THEN phase = "Cold" /\ phase' = "Initializing"
                               ELSE phase' = phase
    BY <1>1, KernelConstants, KP!BeginEffect DEF KP!BeginEffect
<1>3. KernelHolds' = KernelHolds \cup {f.id}
    BY <1>2, SameSight, SameSightNext, SameFrames DEF SeenAlike, KernelHolds
<1> QED
    BY <1>2, <1>3, SameSight, SameSightNext, SameFrames DEF SeenAlike, SameInvocation

LEMMA HostCompletes ==
    ASSUME KP!SnapshotInv, NEW id \in Ids, NEW hasError \in BOOLEAN,
           K!CompleteResponse(id, hasError)
    PROVE  /\ id \in DOMAIN pending
           /\ DOMAIN pending' = DOMAIN pending \ {id}
           /\ \A i \in DOMAIN pending' : SameInvocation(i)
           /\ InFlight' = InFlight \ {id}
           /\ KernelHolds' = KernelHolds \ {id}
           /\ \/ phase' = phase
              \/ phase = "Initializing" /\ phase' \in {"Cold", "AwaitingInitialized"}
<1>1. KP!CompleteResponse(id, hasError)
    BY SameComplete
<1>2. /\ id \in DOMAIN pending
      /\ DOMAIN pending' = DOMAIN pending \ {id}
      /\ \A i \in DOMAIN pending' : pending'[i] = pending[i]
      /\ KP!InFlightIds' = KP!InFlightIds \ {id}
      /\ KP!QueuedIds' = KP!QueuedIds \ {id}
      /\ \/ phase' = phase
         \/ phase = "Initializing" /\ phase' \in {"Cold", "AwaitingInitialized"}
    BY <1>1, KernelConstants, KP!CompleteEffect DEF KP!CompleteEffect
<1>3. KernelHolds' = KernelHolds \ {id}
    BY <1>2, SameSight, SameSightNext, SameFrames DEF SeenAlike, KernelHolds
<1> QED
    BY <1>2, <1>3, SameSight, SameSightNext, SameFrames DEF SeenAlike, SameInvocation

LEMMA HostRequeues ==
    ASSUME KP!SnapshotInv, K!RequeuePendingForReplay
    PROVE  /\ DOMAIN pending' \subseteq DOMAIN pending
           /\ \A id \in DOMAIN pending' : SameInvocation(id)
           /\ InFlight' = {}
           /\ KernelHolds' = KernelHolds \ Rejected
           /\ phase' = phase
<1>1. KP!RequeuePendingForReplay
    BY SameRequeue
<1>2. /\ DOMAIN pending' \subseteq DOMAIN pending
      /\ \A id \in DOMAIN pending' : KP!SameInvocation(id)
      /\ KP!InFlightIds' = {}
      /\ KP!QueuedIds' = DOMAIN pending' \cup (KP!QueuedIds \ DOMAIN pending)
      /\ phase' = phase
    BY <1>1, KernelConstants, KP!RequeueEffect DEF KP!RequeueEffect
<1>3. KernelHolds' = KernelHolds \ Rejected
    BY <1>2, SameSight, SameSightNext, SameFrames DEF SeenAlike, KernelHolds, Rejected
<1> QED
    BY <1>2, <1>3, SameSight, SameSightNext, SameFrames DEF SeenAlike, SameInvocation,
        KP!SameInvocation

LEMMA HostReplays ==
    ASSUME KP!SnapshotInv, KP!SnapshotInv', K!PopReplay
    PROVE  /\ Head(queue) \in Frames
           /\ Head(queue).id \in DOMAIN pending
           /\ DOMAIN pending' = DOMAIN pending
           /\ \A id \in DOMAIN pending : SameInvocation(id)
           /\ InFlight' = InFlight \cup {Head(queue).id}
           /\ KernelHolds' = KernelHolds
           /\ phase' = phase
<1>1. KP!PopReplay
    BY SamePopReplay
<1>2. /\ Head(queue) \in Frames
      /\ Head(queue).id \in DOMAIN pending
      /\ DOMAIN pending' = DOMAIN pending
      /\ \A id \in DOMAIN pending : KP!SameInvocation(id)
      /\ KP!InFlightIds' = KP!InFlightIds \cup {Head(queue).id}
      /\ KP!HeldIds' = KP!HeldIds
      /\ phase' = phase
    BY <1>1, KernelConstants, KP!PopReplayEffect DEF KP!PopReplayEffect
<1> QED
    BY <1>2, SameSight, SameSightNext, SameFrames DEF SeenAlike, KernelHolds,
        SameInvocation, KP!SameInvocation

LEMMA HostPops ==
    ASSUME KP!SnapshotInv, KP!SnapshotInv', K!PopClientFrame
    PROVE  /\ Head(queue) \in Frames
           /\ UNCHANGED <<phase, pending>> /\ InFlight' = InFlight
           /\ K!IsRequest(Head(queue)) => Head(queue).id \in KernelHolds
           /\ KernelHolds' =
                KernelHolds \ (IF K!IsRequest(Head(queue)) THEN {Head(queue).id} ELSE {})
<1>1. /\ KP!PopClientFrame
      /\ queue # <<>> /\ queue' = Tail(queue) /\ UNCHANGED <<phase, pending>>
      /\ ~ K!NamesPending(Head(queue))
    BY SameObserve DEF K!PopClientFrame, K!session
<1>2. /\ Head(queue) \in Frames
      /\ KP!IsRequest(Head(queue)) => Head(queue).id \in KP!QueuedIds
      /\ KP!QueuedIds' =
            KP!QueuedIds \ (IF KP!IsRequest(Head(queue)) THEN {Head(queue).id} ELSE {})
    BY <1>1, KernelConstants, KP!FrontOfQueue DEF KP!FrontOfQueue
<1>3. InFlight' = InFlight
    BY <1>1 DEF InFlight
<1> QED
    BY <1>1, <1>2, <1>3, SameSight, SameSightNext, SameFrames DEF SeenAlike,
        KernelHolds, K!NamesPending

LEMMA HostQueues ==
    ASSUME KP!SnapshotInv, KP!SnapshotInv', NEW f \in Frames, K!QueueClientFrame(f)
    PROVE  /\ UNCHANGED <<phase, pending>> /\ InFlight' = InFlight
           /\ KernelHolds' = KernelHolds \cup (IF K!IsRequest(f) THEN {f.id} ELSE {})
<1>1. KP!QueueClientFrame(f)
    BY SameObserve
<1>2. /\ UNCHANGED <<phase, pending>>
      /\ KP!QueuedIds' = KP!QueuedIds \cup (IF KP!IsRequest(f) THEN {f.id} ELSE {})
    BY <1>1, KernelConstants, KP!QueueEffect DEF KP!QueueEffect
<1>3. InFlight' = InFlight
    BY <1>2 DEF InFlight
<1> QED
    BY <1>2, <1>3, SameSight, SameSightNext, SameFrames DEF SeenAlike, KernelHolds

-----------------------------------------------------------------------------
(* The types of the host, and what a frame in hand is                      *)

Tools == {f.body.tool : f \in Frames}

\* The compacted transitions of a session: no key twice.
Sessions == {s \in Seq(Tools) : \A i, j \in DOMAIN s : s[i] = s[j] => i = j}

Request == [worker : Tokens, action : InternalActions, index : 0..JournalCapacity]

WorkerState ==
    [status : {"retired", "running", "closed"}, release : Releases,
     owes : SUBSET Ids, applied : Sessions]

HostTyped ==
    /\ host \in [at : Steps \cup Failures, frame : Frames \cup {NoFrame}, caught : BOOLEAN]
    /\ At("Initialize") => host.frame \in Frames /\ host.frame.method = "initialize"
    /\ At("Route") => host.frame \in Frames /\ HasActive
    /\ host.at \notin {"Initialize", "Route"} => host.frame = NoFrame

RolesTyped ==
    /\ active \in Tokens \cup {NoWorker}
    /\ candidate \in [token : Tokens \cup {NoWorker}, purpose : Purposes,
                      stage : Stages, deadline : BOOLEAN]
    /\ internal \subseteq Request
    /\ rollover \in RolloverPhases

ReleasesTyped ==
    /\ recoveryRelease \in Releases /\ channel \in Releases
    /\ rejectedGeneration \in Releases \cup {NoRelease}

PublicTyped ==
    /\ published \in Catalogs \cup {NoCatalog}
    /\ refreshRequest \in Frames \cup {NoFrame}
    /\ refreshRequest # NoFrame => refreshRequest.method = "list"
    /\ unanswered \subseteq Ids

JournalTyped ==
    journal \in Sessions /\ Len(journal) <= JournalCapacity /\ sealed \in BOOLEAN

WorkersTyped == workers \in [Tokens -> WorkerState]

EnvironmentTyped ==
    /\ left \in [frames : Nat, faults : Nat, callbacks : 0..Callbacks, publications : Nat]
    /\ callbacks \subseteq [worker : Tokens, number : 1..Callbacks]

RoleTypes ==
    /\ HostTyped /\ RolesTyped /\ ReleasesTyped /\ PublicTyped
    /\ JournalTyped /\ WorkersTyped /\ EnvironmentTyped

\* The kernel is in one of its own states, and the host's variables are typed.
Typed == KP!SnapshotInv /\ RoleTypes

LEMMA FrameIds ==
    ASSUME NEW f \in Frames
    PROVE  /\ f.method \in K!Methods
           /\ K!IsRequest(f) => f.id \in Ids
           /\ K!IsRequest(f) <=> f.method \in {"initialize", "call", "list"}
BY KernelAssumption DEF K!FramesAssumption, K!IsRequest, K!RequestMethods

LEMMA ClassifiedType == \A f : Classify(f) \in K!Contracts \ {"ProbeRequired"}
BY DEF Classify, ReplayContract, RecoveryOf, K!Contracts

\* A step goes on in a method that takes no frame.
LEMMA GoTyped ==
    ASSUME HostTyped, NEW step \in (Steps \cup Failures) \ {"Initialize", "Route"}, Go(step)
    PROVE  HostTyped' /\ host'.at = step /\ host'.frame = NoFrame
BY DEF HostTyped, Go, At

LEMMA SpawnedType ==
    /\ Retired \in WorkerState
    /\ \A release \in Releases : Spawned(release) \in WorkerState
<1>1. InitialRelease \in Releases /\ <<>> \in Sessions
    BY RolesAssumption, EmptySeq DEF Sessions
<1> QED
    BY <1>1 DEF Retired, Spawned, WorkerState

LEMMA ReapTyped ==
    ASSUME WorkersTyped, NEW ts, Reap(ts)
    PROVE  /\ WorkersTyped'
           /\ \A t \in Tokens : workers'[t] = IF t \in ts THEN Retired ELSE workers[t]
BY SpawnedType DEF WorkersTyped, Reap

\* One field of one worker changes.
LEMMA OwesTyped ==
    ASSUME WorkersTyped, NEW t \in Tokens, NEW S \in SUBSET Ids,
           workers' = [workers EXCEPT ![t].owes = S]
    PROVE  /\ WorkersTyped'
           /\ \A u \in Tokens \ {t} : workers'[u] = workers[u]
           /\ workers'[t] = [workers[t] EXCEPT !.owes = S]
           /\ workers'[t].owes = S /\ workers'[t].status = workers[t].status
           /\ workers'[t].release = workers[t].release
           /\ workers'[t].applied = workers[t].applied
<1>1. workers[t] \in WorkerState
    BY DEF WorkersTyped
<1>2. workers'[t] = [workers[t] EXCEPT !.owes = S] /\ \A u \in Tokens \ {t} : workers'[u] = workers[u]
    BY DEF WorkersTyped
<1>3. [workers[t] EXCEPT !.owes = S] \in WorkerState
    BY <1>1 DEF WorkerState
<1>4. WorkersTyped'
    BY <1>2, <1>3 DEF WorkersTyped
<1> QED
    BY <1>1, <1>2, <1>4 DEF WorkerState

LEMMA StatusTyped ==
    ASSUME WorkersTyped, NEW t \in Tokens, NEW s \in {"retired", "running", "closed"},
           workers' = [workers EXCEPT ![t].status = s]
    PROVE  /\ WorkersTyped'
           /\ \A u \in Tokens \ {t} : workers'[u] = workers[u]
           /\ workers'[t].status = s /\ workers'[t].owes = workers[t].owes
           /\ workers'[t].release = workers[t].release
           /\ workers'[t].applied = workers[t].applied
<1>1. workers[t] \in WorkerState
    BY DEF WorkersTyped
<1>2. workers'[t] = [workers[t] EXCEPT !.status = s] /\ \A u \in Tokens \ {t} : workers'[u] = workers[u]
    BY DEF WorkersTyped
<1>3. [workers[t] EXCEPT !.status = s] \in WorkerState
    BY <1>1 DEF WorkerState
<1>4. WorkersTyped'
    BY <1>2, <1>3 DEF WorkersTyped
<1> QED
    BY <1>1, <1>2, <1>4 DEF WorkerState

LEMMA AppliedTyped ==
    ASSUME WorkersTyped, NEW t \in Tokens, NEW s \in Sessions,
           workers' = [workers EXCEPT ![t].applied = s]
    PROVE  /\ WorkersTyped'
           /\ \A u \in Tokens \ {t} : workers'[u] = workers[u]
           /\ workers'[t].status = workers[t].status /\ workers'[t].owes = workers[t].owes
           /\ workers'[t].release = workers[t].release
           /\ workers'[t].applied = s
<1>1. workers[t] \in WorkerState
    BY DEF WorkersTyped
<1>2. workers'[t] = [workers[t] EXCEPT !.applied = s] /\ \A u \in Tokens \ {t} : workers'[u] = workers[u]
    BY DEF WorkersTyped
<1>3. [workers[t] EXCEPT !.applied = s] \in WorkerState
    BY <1>1 DEF WorkerState
<1>4. WorkersTyped'
    BY <1>2, <1>3 DEF WorkersTyped
<1> QED
    BY <1>1, <1>2, <1>4 DEF WorkerState

LEMMA SpawnTyped ==
    ASSUME WorkersTyped, NEW t \in Tokens, NEW release \in Releases,
           workers' = [workers EXCEPT ![t] = Spawned(release)]
    PROVE  /\ WorkersTyped'
           /\ \A u \in Tokens \ {t} : workers'[u] = workers[u]
           /\ workers'[t].status = "running" /\ workers'[t].owes = {}
           /\ workers'[t].release = release /\ workers'[t].applied = <<>>
<1>1. Spawned(release) \in WorkerState
    BY SpawnedType
<1>2. workers'[t] = Spawned(release) /\ \A u \in Tokens \ {t} : workers'[u] = workers[u]
    BY DEF WorkersTyped
<1>3. WorkersTyped'
    BY <1>1, <1>2 DEF WorkersTyped
<1> QED
    BY <1>2, <1>3, ZenonT(30) DEF Spawned, Retired

\* Taking the entry of a key out leaves the others, in their order.
LEMMA CompactedSession ==
    ASSUME NEW s \in Sessions, NEW tool
    PROVE  /\ Compacted(s, tool) \in Sessions
           /\ Len(Compacted(s, tool)) <= Len(s)
           /\ \A k \in DOMAIN Compacted(s, tool) : Compacted(s, tool)[k] # tool
           /\ (\A i \in DOMAIN s : s[i] # tool) => Compacted(s, tool) = s
<1>1. /\ s \in Seq(Tools) /\ Len(s) \in Nat /\ DOMAIN s = 1..Len(s)
      /\ \A i, j \in DOMAIN s : s[i] = s[j] => i = j
    BY LenProperties DEF Sessions
<1>2. CASE \A i \in DOMAIN s : s[i] # tool
    BY <1>1, <1>2 DEF Compacted
<1>3. CASE ~ \A i \in DOMAIN s : s[i] # tool
    <2> DEFINE IsFirst(i) == s[i] = tool /\ \A j \in 1..(i - 1) : s[j] # tool
    <2> DEFINE first == CHOOSE i \in DOMAIN s : IsFirst(i)
    <2>1. \E i \in DOMAIN s : IsFirst(i)
        BY <1>1, <1>3
    <2>2. first \in DOMAIN s /\ IsFirst(first)
        BY <2>1
    <2>3. Compacted(s, tool) = SubSeq(s, 1, first - 1) \o SubSeq(s, first + 1, Len(s))
        BY <1>3 DEF Compacted
    <2> HIDE DEF first
    <2> DEFINE a == SubSeq(s, 1, first - 1)
               b == SubSeq(s, first + 1, Len(s))
    <2>4. first \in 1..Len(s) /\ s[first] = tool
        BY <1>1, <2>2
    <2>5. \A i \in 1..Len(s) : s[i] \in Tools
        BY <1>1, ElementOfSeq
    <2>6. /\ a \in Seq(Tools) /\ Len(a) = first - 1
          /\ \A i \in 1..(first - 1) : a[i] = s[i]
        <3>1. \A i \in 1..(first - 1) : s[i] \in Tools
            BY <1>1, <2>4, <2>5
        <3>2. /\ a \in Seq(Tools)
              /\ Len(a) = IF 1 <= first - 1 THEN (first - 1) - 1 + 1 ELSE 0
              /\ \A i \in 1..((first - 1) - 1 + 1) : a[i] = s[1 + i - 1]
            BY <1>1, <2>4, <3>1, SubSeqProperties
        <3> HIDE DEF a
        <3> QED
            BY <1>1, <2>4, <3>2
    <2>7. /\ b \in Seq(Tools) /\ Len(b) = Len(s) - first
          /\ \A i \in 1..(Len(s) - first) : b[i] = s[first + i]
        <3>1. \A i \in (first + 1)..Len(s) : s[i] \in Tools
            BY <1>1, <2>4, <2>5
        <3>2. /\ b \in Seq(Tools)
              /\ Len(b) = IF first + 1 <= Len(s) THEN Len(s) - (first + 1) + 1 ELSE 0
              /\ \A i \in 1..(Len(s) - (first + 1) + 1) : b[i] = s[first + 1 + i - 1]
            BY <1>1, <2>4, <3>1, SubSeqProperties
        <3> HIDE DEF b
        <3>3. Len(b) = Len(s) - first
            <4>1. Len(b) = IF first + 1 <= Len(s) THEN Len(s) - (first + 1) + 1 ELSE 0
                BY <3>2
            <4>2. first \in Nat /\ Len(s) \in Nat /\ first <= Len(s)
                BY <1>1, <2>4
            <4> QED
                BY <4>1, <4>2
        <3>4. \A i \in 1..(Len(s) - first) :
                    i \in 1..(Len(s) - (first + 1) + 1) /\ first + 1 + i - 1 = first + i
            BY <1>1, <2>4
        <3> QED
            BY <3>2, <3>3, <3>4
    <2> HIDE DEF a, b
    <2> DEFINE c == a \o b
    <2>8. /\ c \in Seq(Tools) /\ Len(c) = Len(s) - 1
          /\ \A i \in 1..(Len(s) - 1) : c[i] = IF i <= first - 1 THEN a[i] ELSE b[i - (first - 1)]
        <3>1. /\ c \in Seq(Tools) /\ Len(c) = Len(a) + Len(b)
              /\ \A i \in 1..(Len(a) + Len(b)) : c[i] = IF i <= Len(a) THEN a[i] ELSE b[i - Len(a)]
            BY <2>6, <2>7, ConcatProperties
        <3> HIDE DEF c
        <3> QED
            BY <1>1, <2>4, <2>6, <2>7, <3>1
    <2>9. c = Compacted(s, tool)
        BY <2>3 DEF a, b
    <2> HIDE DEF c
    <2>10. DOMAIN c = 1..(Len(s) - 1)
        BY <2>8, LenProperties
    <2>11. \A i \in 1..(Len(s) - 1) :
                /\ i <= first - 1 => c[i] = s[i]
                /\ i > first - 1 => c[i] = s[i + 1]
        <3> SUFFICES ASSUME NEW i \in 1..(Len(s) - 1)
                     PROVE  /\ i <= first - 1 => c[i] = s[i]
                            /\ i > first - 1 => c[i] = s[i + 1]
            OBVIOUS
        <3>1. CASE i <= first - 1
            BY <1>1, <2>4, <2>6, <2>8, <3>1
        <3>2. CASE i > first - 1
            <4>1. i - (first - 1) \in 1..(Len(s) - first) /\ first + (i - (first - 1)) = i + 1
                BY <1>1, <2>4, <3>2
            <4> QED
                BY <1>1, <2>4, <2>7, <2>8, <3>2, <4>1
        <3> QED
            BY <1>1, <2>4, <3>1, <3>2
    <2>12. \A i \in 1..(Len(s) - 1) :
                \E p \in DOMAIN s : /\ p # first /\ c[i] = s[p]
                                     /\ p = IF i <= first - 1 THEN i ELSE i + 1
        BY <1>1, <2>4, <2>11
    <2>13. \A i, j \in DOMAIN c : c[i] = c[j] => i = j
        BY <1>1, <2>4, <2>10, <2>12
    <2>14. \A i \in DOMAIN c : c[i] # tool
        BY <1>1, <2>4, <2>10, <2>12
    <2> QED
        BY <1>1, <1>3, <2>8, <2>9, <2>13, <2>14 DEF Sessions
<1> QED
    BY <1>2, <1>3

\* One more transition, and no key twice.
LEMMA AppendedSession ==
    ASSUME NEW s \in Sessions, NEW tool \in Tools, \A i \in DOMAIN s : s[i] # tool
    PROVE  Append(s, tool) \in Sessions /\ Len(Append(s, tool)) = Len(s) + 1
<1>1. /\ s \in Seq(Tools) /\ Len(s) \in Nat /\ DOMAIN s = 1..Len(s)
      /\ \A i, j \in DOMAIN s : s[i] = s[j] => i = j
    BY LenProperties DEF Sessions
<1> DEFINE t == Append(s, tool)
<1>2. /\ t \in Seq(Tools) /\ Len(t) = Len(s) + 1
      /\ \A i \in 1..Len(s) : t[i] = s[i]
      /\ t[Len(s) + 1] = tool
    BY <1>1, AppendProperties
<1> HIDE DEF t
<1>3. DOMAIN t = 1..(Len(s) + 1)
    BY <1>2, LenProperties
<1>4. \A i \in DOMAIN t : (i \in DOMAIN s /\ t[i] = s[i]) \/ (i = Len(s) + 1 /\ t[i] = tool)
    BY <1>1, <1>2, <1>3
<1>5. \A i, j \in DOMAIN t : t[i] = t[j] => i = j
    BY <1>1, <1>4
<1>6. t \in Sessions /\ Len(t) = Len(s) + 1
    BY <1>2, <1>5 DEF Sessions
<1> QED
    BY <1>6 DEF t

LEMMA ApplyingSession ==
    ASSUME NEW s \in Sessions, NEW tool \in Tools
    PROVE  Applying(tool, s) \in Sessions
BY CompactedSession, AppendedSession DEF Applying

LEMMA RecordTyped ==
    ASSUME JournalTyped, NEW tool \in Tools, RecordTransition(tool)
    PROVE  /\ JournalTyped'
           /\ ~ sealed' => ~ sealed /\ journal' = Applying(tool, journal)
<1> DEFINE rest == Compacted(journal, tool)
<1>1. rest \in Sessions /\ Len(rest) <= Len(journal) /\ \A k \in DOMAIN rest : rest[k] # tool
    BY CompactedSession DEF JournalTyped
<1>2. /\ Append(rest, tool) \in Sessions /\ Len(Append(rest, tool)) = Len(rest) + 1
      /\ Len(rest) \in Nat /\ Len(journal) \in Nat
    BY <1>1, AppendedSession, LenProperties DEF Sessions, JournalTyped
<1>3. CASE Len(rest) >= JournalCapacity
    <2>1. journal' = rest /\ sealed' = TRUE
        BY <1>3 DEF RecordTransition
    <2> HIDE DEF rest
    <2> QED
        BY <1>1, <1>2, <2>1, RolesAssumption DEF JournalTyped
<1>4. CASE ~ Len(rest) >= JournalCapacity
    <2>1. journal' = Append(rest, tool) /\ sealed' = sealed
        BY <1>4 DEF RecordTransition
    <2>2. journal' = Applying(tool, journal)
        BY <2>1 DEF Applying
    <2> HIDE DEF rest
    <2> QED
        BY <1>1, <1>2, <1>4, <2>1, <2>2, RolesAssumption DEF JournalTyped
<1> QED
    BY <1>3, <1>4

-----------------------------------------------------------------------------
(* Every step of the host is at most one call of the kernel                *)

\* What a handler may ask of the kernel, and a request under which contract.
KernelCall ==
    \/ \E f \in Frames :
        \/ K!ObserveInitialize(f) \/ K!ObserveInitialized(f) \/ K!QueueClientFrame(f)
        \/ K!BeginRequestDispatch(f, Classify(f))
    \/ \E id \in Ids, hasError \in BOOLEAN : K!CompleteResponse(id, hasError)
    \/ K!PopClientFrame \/ K!PopReplay \/ K!RequeuePendingForReplay

LEMMA HostCalls ==
    ASSUME Typed, [Next]_vars
    PROVE  KernelCall \/ UNCHANGED kernelVars
<1>1. ASSUME NEW f \in Frames, ClientInitializes(f)
      PROVE  KernelCall \/ UNCHANGED kernelVars
    BY <1>1 DEF ClientInitializes, KernelCall
<1>2. ASSUME NEW f \in Frames, ClientInitialized(f)
      PROVE  KernelCall \/ UNCHANGED kernelVars
    BY <1>2 DEF ClientInitialized, KernelCall
<1>3. ASSUME NEW f \in Frames, ClientQueues(f) PROVE KernelCall \/ UNCHANGED kernelVars
    BY <1>3 DEF ClientQueues, KernelCall
<1>4. ASSUME NEW f \in Frames, ClientRefreshes(f)
      PROVE  KernelCall \/ UNCHANGED kernelVars
    BY <1>4 DEF ClientRefreshes
<1>5. ASSUME NEW f \in Frames, ClientCalls(f) PROVE KernelCall \/ UNCHANGED kernelVars
    BY <1>5 DEF ClientCalls, KernelCall
<1>6. ASSUME NEW f \in Frames, ClientNotifies(f)
      PROVE  KernelCall \/ UNCHANGED kernelVars
    BY <1>6 DEF ClientNotifies
<1>7. ASSUME NEW c \in callbacks, ClientAnswers(c)
      PROVE  KernelCall \/ UNCHANGED kernelVars
    BY <1>7 DEF ClientAnswers
<1>8. ASSUME NEW id \in Ids, NEW hasError \in BOOLEAN, ActiveResponds(id, hasError)
      PROVE  KernelCall \/ UNCHANGED kernelVars
    BY <1>8 DEF ActiveResponds, KernelCall
<1>9. CASE ActiveAsks
    BY <1>9 DEF ActiveAsks
<1>10. ASSUME NEW hasError \in BOOLEAN, ActiveCatalogArrives(hasError)
       PROVE  KernelCall \/ UNCHANGED kernelVars
    BY <1>10 DEF ActiveCatalogArrives, Answers
<1>11. ASSUME NEW hasError \in BOOLEAN, CandidateInitialized(hasError)
       PROVE  KernelCall \/ UNCHANGED kernelVars
    BY <1>11 DEF CandidateInitialized, Answers
<1>12. ASSUME NEW hasError \in BOOLEAN, CandidateReady(hasError)
       PROVE  KernelCall \/ UNCHANGED kernelVars
    BY <1>12 DEF CandidateReady, Answers
<1>13. ASSUME NEW index \in DOMAIN journal, NEW hasError \in BOOLEAN,
              CandidateRestored(index, hasError)
       PROVE  KernelCall \/ UNCHANGED kernelVars
    BY <1>13 DEF CandidateRestored, Answers
<1>14. ASSUME NEW t \in Tokens, Misbehaves(t) PROVE KernelCall \/ UNCHANGED kernelVars
    BY <1>14 DEF Misbehaves
<1>15. ASSUME NEW t \in Tokens, WorkerCloses(t) PROVE KernelCall \/ UNCHANGED kernelVars
    BY <1>15 DEF WorkerCloses
<1>16. ASSUME NEW t \in Tokens, WorkerGone(t) PROVE KernelCall \/ UNCHANGED kernelVars
    BY <1>16 DEF WorkerGone
<1>17. CASE RouteInitialize
    <2>1. host.frame \in Frames
        BY <1>17 DEF RouteInitialize, Typed, RoleTypes, HostTyped
    <2> QED
        BY <1>17, <2>1 DEF RouteInitialize, Dispatch, KernelCall
<1>18. CASE TryBeginRestore
    BY <1>18 DEF TryBeginRestore
<1>19. CASE ActivateCandidate
    BY <1>19 DEF ActivateCandidate
<1>20. CASE RejectCandidate
    BY <1>20 DEF RejectCandidate
<1>21. CASE LoseActive
    BY <1>21 DEF LoseActive, KernelCall
<1>22. CASE FlushEnds
    BY <1>22 DEF FlushEnds
<1>23. CASE FlushReplays
    BY <1>23 DEF FlushReplays, KernelCall
<1>24. CASE FlushPops
    BY <1>24 DEF FlushPops, KernelCall
<1>25. CASE RouteFrame
    <2>1. host.frame \in Frames
        BY <1>25 DEF RouteFrame, Typed, RoleTypes, HostTyped
    <2> QED
        BY <1>25, <2>1 DEF RouteFrame, Dispatch, KernelCall
<1>26. CASE GraceExpires
    BY <1>26 DEF GraceExpires
<1>27. CASE DeadlineExpires
    BY <1>27 DEF DeadlineExpires
<1>28. CASE RefuseRelease
    BY <1>28 DEF RefuseRelease
<1>29. ASSUME NEW t \in Tokens, StartRecovery(t)
       PROVE  KernelCall \/ UNCHANGED kernelVars
    BY <1>29 DEF StartRecovery
<1>30. ASSUME NEW t \in Tokens, StartRollover(t)
       PROVE  KernelCall \/ UNCHANGED kernelVars
    BY <1>30 DEF StartRollover
<1>31. ASSUME NEW release \in Releases, Publish(release)
       PROVE  KernelCall \/ UNCHANGED kernelVars
    BY <1>31 DEF Publish
<1>32. CASE Client
    BY <1>32, <1>1, <1>2, <1>3, <1>4, <1>5, <1>6, <1>7 DEF Client
<1>33. CASE ActiveWorker
    BY <1>33, <1>8, <1>9, <1>10 DEF ActiveWorker
<1>34. CASE CandidateWorker
    BY <1>34, <1>11, <1>12, <1>13 DEF CandidateWorker
<1>35. CASE \E t \in Tokens : Misbehaves(t) \/ WorkerCloses(t) \/ WorkerGone(t)
    BY <1>35, <1>14, <1>15, <1>16
<1>36. CASE Continue
    BY <1>36, <1>17, <1>18, <1>19, <1>20, <1>21, <1>22, <1>23, <1>24, <1>25 DEF Continue
<1>37. CASE Tick
    BY <1>37, <1>26, <1>27, <1>28, <1>29, <1>30 DEF Tick
<1>38. CASE \E release \in Releases : Publish(release)
    BY <1>38, <1>31
<1>39. CASE UNCHANGED vars
    BY <1>39 DEF vars
<1> QED
    BY <1>32, <1>33, <1>34, <1>35, <1>36, <1>37, <1>38, <1>39 DEF Next

LEMMA HostCallsKernel ==
    ASSUME Typed, [Next]_vars
    PROVE  [K!Next]_kernelVars
<1>1. ASSUME NEW f \in Frames, K!BeginRequestDispatch(f, Classify(f)) PROVE K!Next
    <2>1. Classify(f) \in K!Contracts
        BY ClassifiedType
    <2> QED
        BY <1>1, <2>1 DEF K!Next
<1> QED
    BY <1>1, HostCalls DEF KernelCall, K!Next

LEMMA KernelKeeps == Typed /\ [Next]_vars => KP!SnapshotInv'
<1> SUFFICES ASSUME Typed, [Next]_vars PROVE KP!SnapshotInv'
    OBVIOUS
<1>1. [K!Next]_kernelVars
    BY HostCallsKernel
<1>2. [KP!Next]_(KP!vars)
    BY <1>1, SameNext DEF kernelVars, KP!vars
<1> QED
    BY <1>2, KernelConstants, KP!SnapshotNext DEF KP!SnapshotNext, Typed

-----------------------------------------------------------------------------
(* Types                                                                   *)

\* A request has crossed to the active worker, or the worker is lost.
Crossed(id, next) ==
    /\ host'.at \in {next, "Lose"}
    /\ \A t \in Tokens :
        /\ workers'[t].status = workers[t].status
        /\ workers'[t].release = workers[t].release
        /\ workers'[t].applied = workers[t].applied
        /\ t # active => workers'[t].owes = workers[t].owes
    /\ workers'[active].owes =
            IF host'.at = "Lose" THEN workers[active].owes ELSE workers[active].owes \cup {id}

LEMMA SendCrosses ==
    ASSUME RoleTypes, HasActive, NEW id \in Ids, NEW next \in {"Idle", "Flush"},
           SendActive(id, next)
    PROVE  HostTyped' /\ WorkersTyped' /\ host'.frame = NoFrame /\ Crossed(id, next)
<1>1. active \in Tokens
    BY DEF RoleTypes, RolesTyped, HasActive
<1>2. workers[active].owes \cup {id} \in SUBSET Ids
    BY <1>1 DEF RoleTypes, WorkersTyped, WorkerState
<1>3. CASE Running(active)
    <2>1. /\ workers' = [workers EXCEPT ![active].owes = workers[active].owes \cup {id}]
          /\ Go(next)
        BY <1>1, <1>3 DEF SendActive, RoleTypes, WorkersTyped
    <2>2. HostTyped' /\ host'.at = next /\ host'.frame = NoFrame
        BY <2>1, GoTyped DEF RoleTypes, Steps
    <2>3. /\ WorkersTyped'
          /\ \A u \in Tokens \ {active} : workers'[u] = workers[u]
          /\ workers'[active].owes = workers[active].owes \cup {id}
          /\ workers'[active].status = workers[active].status
          /\ workers'[active].release = workers[active].release
          /\ workers'[active].applied = workers[active].applied
        BY <1>1, <1>2, <2>1, OwesTyped DEF RoleTypes
    <2> QED
        BY <2>2, <2>3 DEF Crossed
<1>4. CASE ~ Running(active)
    <2>1. workers' = workers /\ Go("Lose")
        BY <1>4 DEF SendActive
    <2>2. HostTyped' /\ host'.at = "Lose" /\ host'.frame = NoFrame
        BY <2>1, GoTyped DEF RoleTypes, Steps
    <2> QED
        BY <2>1, <2>2 DEF Crossed, RoleTypes, WorkersTyped
<1> QED
    BY <1>3, <1>4

\* What is pending are requests of the client, under their ids.
LEMMA PendingFrames ==
    ASSUME KP!SnapshotInv
    PROVE  \A id \in DOMAIN pending :
                /\ pending[id].frame \in Frames /\ pending[id].frame.id = id /\ id \in Ids
                /\ K!IsRequest(pending[id].frame)
                /\ pending[id].contract \in K!Contracts
<1>1. KP!TypeOK
    BY DEF KP!SnapshotInv, KP!LawInv, KP!SafetyInv, KP!TypeInv
<1> QED
    BY <1>1, SameFrames, SameConstants, KernelConstants, KP!PendingType

LEMMA RespondedTyped ==
    ASSUME WorkersTyped, NEW t \in Tokens, NEW S \in SUBSET Ids, NEW s \in Sessions,
           workers' = [workers EXCEPT ![t].owes = S, ![t].applied = s]
    PROVE  /\ WorkersTyped'
           /\ \A u \in Tokens \ {t} : workers'[u] = workers[u]
           /\ workers'[t].status = workers[t].status /\ workers'[t].owes = S
           /\ workers'[t].release = workers[t].release
           /\ workers'[t].applied = s
<1>1. workers[t] \in WorkerState
    BY DEF WorkersTyped
<1>2. /\ workers'[t] = [workers[t] EXCEPT !.owes = S, !.applied = s]
      /\ \A u \in Tokens \ {t} : workers'[u] = workers[u]
    BY DEF WorkersTyped
<1>3. [workers[t] EXCEPT !.owes = S, !.applied = s] \in WorkerState
    BY <1>1 DEF WorkerState
<1>4. WorkersTyped'
    BY <1>2, <1>3 DEF WorkersTyped
<1> DEFINE w == workers[t]
<1>5. LET v == [w EXCEPT !.owes = S, !.applied = s]
      IN v.status = w.status /\ v.owes = S /\ v.release = w.release /\ v.applied = s
    BY <1>1 DEF WorkerState
<1> QED
    BY <1>2, <1>4, <1>5

\* A dispatch crosses to the active worker, or the frame is answered.
LEMMA DispatchTyped ==
    ASSUME Typed, HasActive, NEW f \in Frames, NEW next \in {"Idle", "Flush"},
           Dispatch(f, next)
    PROVE  HostTyped' /\ WorkersTyped' /\ unanswered' \subseteq unanswered
<1>1. CASE K!MayBegin(f)
    <2>1. f.id \in Ids
        BY <1>1, FrameIds DEF K!MayBegin
    <2> QED
        BY <1>1, <2>1, SendCrosses DEF Dispatch, Typed
<1>2. CASE ~ K!MayBegin(f)
    <2>1. Go(next) /\ workers' = workers /\ unanswered' \subseteq unanswered
        BY <1>2 DEF Dispatch
    <2> QED
        BY <2>1, GoTyped DEF Typed, RoleTypes, Steps, WorkersTyped
<1> QED
    BY <1>1, <1>2

LEMMA ClientInitializesTyped ==
    ASSUME Typed, KP!SnapshotInv', NEW f \in Frames, ClientInitializes(f)
    PROVE  RoleTypes'
<1> USE DEF Typed, RoleTypes
<1>1. HostTyped'
    BY DEF HostTyped, ClientInitializes, K!ObserveInitialize, K!IsInitialize, Steps, At
<1>2. RolesTyped'
    BY DEF RolesTyped, ClientInitializes, Receives, ReceivesRequest
<1>3. ReleasesTyped'
    BY DEF ReleasesTyped, ClientInitializes, Receives, ReceivesRequest, releaseVars
<1>4. PublicTyped'
    <2>1. f.id \in Ids
        BY FrameIds DEF ClientInitializes, K!ObserveInitialize, K!IsInitialize
    <2> QED
        BY <2>1 DEF PublicTyped, ClientInitializes, Receives, ReceivesRequest
<1>5. JournalTyped'
    BY FrameIds, RolesAssumption, BoundsAssumption DEF JournalTyped, ClientInitializes,
        Receives, ReceivesRequest, journalVars
<1>6. WorkersTyped'
    BY DEF WorkersTyped, ClientInitializes
<1>7. EnvironmentTyped'
    BY DEF EnvironmentTyped, ClientInitializes, Receives, ReceivesRequest
<1> QED
    BY <1>1, <1>2, <1>3, <1>4, <1>5, <1>6, <1>7

LEMMA ClientInitializedTyped ==
    ASSUME Typed, KP!SnapshotInv', NEW f \in Frames, ClientInitialized(f)
    PROVE  RoleTypes'
<1> USE DEF Typed, RoleTypes
<1>1. HostTyped'
    BY DEF HostTyped, ClientInitialized, Go, At, Steps
<1>2. RolesTyped'
    BY FrameIds, RolesAssumption, BoundsAssumption DEF RolesTyped, ClientInitialized,
        Receives, Asking, Request, InternalActions
<1>3. ReleasesTyped'
    BY DEF ReleasesTyped, ClientInitialized, Receives, releaseVars
<1>4. PublicTyped'
    BY DEF PublicTyped, ClientInitialized, Receives
<1>5. JournalTyped'
    BY DEF JournalTyped, ClientInitialized, Receives, journalVars
<1>6. WorkersTyped'
    BY DEF WorkersTyped, ClientInitialized
<1>7. EnvironmentTyped'
    BY DEF EnvironmentTyped, ClientInitialized, Receives
<1> QED
    BY <1>1, <1>2, <1>3, <1>4, <1>5, <1>6, <1>7

LEMMA ClientQueuesTyped ==
    ASSUME Typed, KP!SnapshotInv', NEW f \in Frames, ClientQueues(f)
    PROVE  RoleTypes'
<1> USE DEF Typed, RoleTypes
<1>1. HostTyped'
    BY DEF HostTyped, ClientQueues, Receives, ReceivesRequest, Go, At
<1>2. RolesTyped'
    BY DEF RolesTyped, ClientQueues, Receives, ReceivesRequest
<1>3. ReleasesTyped'
    BY DEF ReleasesTyped, ClientQueues, Receives, ReceivesRequest, releaseVars
<1>4. PublicTyped'
    BY FrameIds DEF PublicTyped, ClientQueues, Receives, ReceivesRequest
<1>5. JournalTyped'
    BY FrameIds, RolesAssumption, BoundsAssumption DEF JournalTyped, ClientQueues,
        Receives, ReceivesRequest, journalVars
<1>6. WorkersTyped'
    BY DEF WorkersTyped, ClientQueues
<1>7. EnvironmentTyped'
    BY DEF EnvironmentTyped, ClientQueues, Receives, ReceivesRequest
<1> QED
    BY <1>1, <1>2, <1>3, <1>4, <1>5, <1>6, <1>7

LEMMA ClientRefreshesTyped ==
    ASSUME Typed, KP!SnapshotInv', NEW f \in Frames, ClientRefreshes(f)
    PROVE  RoleTypes'
<1> USE DEF Typed, RoleTypes
<1>1. HostTyped'
    BY DEF HostTyped, ClientRefreshes, Go, At, Steps
<1>2. RolesTyped'
    BY FrameIds, RolesAssumption, BoundsAssumption DEF RolesTyped, ClientRefreshes,
        Receives, ReceivesRequest, RolloverPhases
<1>3. ReleasesTyped'
    BY DEF ReleasesTyped, ClientRefreshes, Receives, ReceivesRequest, releaseVars
<1>4. PublicTyped'
    BY FrameIds DEF PublicTyped, ClientRefreshes, Receives, ReceivesRequest
<1>5. JournalTyped'
    BY FrameIds, RolesAssumption, BoundsAssumption DEF JournalTyped, ClientRefreshes,
        Receives, ReceivesRequest, journalVars
<1>6. WorkersTyped'
    BY DEF WorkersTyped, ClientRefreshes
<1>7. EnvironmentTyped'
    BY DEF EnvironmentTyped, ClientRefreshes, Receives, ReceivesRequest
<1> QED
    BY <1>1, <1>2, <1>3, <1>4, <1>5, <1>6, <1>7

LEMMA ClientCallsTyped ==
    ASSUME Typed, KP!SnapshotInv', NEW f \in Frames, ClientCalls(f)
    PROVE  RoleTypes'
<1> USE DEF Typed, RoleTypes
<1>a. f.id \in Ids /\ HasActive
    BY FrameIds DEF ClientCalls, MustQueue
<1>b. HostTyped' /\ WorkersTyped'
    BY <1>a, SendCrosses DEF ClientCalls
<1>1. HostTyped'
    BY <1>b
<1>2. RolesTyped'
    BY DEF RolesTyped, ClientCalls, Receives, ReceivesRequest
<1>3. ReleasesTyped'
    BY DEF ReleasesTyped, ClientCalls, Receives, ReceivesRequest, releaseVars
<1>4. PublicTyped'
    BY FrameIds DEF PublicTyped, ClientCalls, Receives, ReceivesRequest
<1>5. JournalTyped'
    BY FrameIds, RolesAssumption, BoundsAssumption DEF JournalTyped, ClientCalls,
        Receives, ReceivesRequest, journalVars
<1>6. WorkersTyped'
    BY <1>b
<1>7. EnvironmentTyped'
    BY DEF EnvironmentTyped, ClientCalls, Receives, ReceivesRequest
<1> QED
    BY <1>1, <1>2, <1>3, <1>4, <1>5, <1>6, <1>7

LEMMA ClientNotifiesTyped ==
    ASSUME Typed, KP!SnapshotInv', NEW f \in Frames, ClientNotifies(f)
    PROVE  RoleTypes'
<1> USE DEF Typed, RoleTypes
<1>1. HostTyped'
    BY DEF HostTyped, ClientNotifies, Go, At, Steps
<1>2. RolesTyped'
    BY DEF RolesTyped, ClientNotifies, Receives
<1>3. ReleasesTyped'
    BY DEF ReleasesTyped, ClientNotifies, Receives, releaseVars
<1>4. PublicTyped'
    BY DEF PublicTyped, ClientNotifies, Receives
<1>5. JournalTyped'
    BY DEF JournalTyped, ClientNotifies, Receives, journalVars
<1>6. WorkersTyped'
    BY DEF WorkersTyped, ClientNotifies
<1>7. EnvironmentTyped'
    BY DEF EnvironmentTyped, ClientNotifies, Receives
<1> QED
    BY <1>1, <1>2, <1>3, <1>4, <1>5, <1>6, <1>7

LEMMA ClientAnswersTyped ==
    ASSUME Typed, KP!SnapshotInv', NEW c \in callbacks, ClientAnswers(c)
    PROVE  RoleTypes'
<1> USE DEF Typed, RoleTypes
<1>1. HostTyped'
    BY DEF HostTyped, ClientAnswers, Go, At, Steps
<1>2. RolesTyped'
    BY DEF RolesTyped, ClientAnswers, roleVars
<1>3. ReleasesTyped'
    BY DEF ReleasesTyped, ClientAnswers, releaseVars
<1>4. PublicTyped'
    BY DEF PublicTyped, ClientAnswers, publicVars
<1>5. JournalTyped'
    BY DEF JournalTyped, ClientAnswers, journalVars
<1>6. WorkersTyped'
    BY DEF WorkersTyped, ClientAnswers
<1>7. EnvironmentTyped'
    BY DEF EnvironmentTyped, ClientAnswers
<1> QED
    BY <1>1, <1>2, <1>3, <1>4, <1>5, <1>6, <1>7

LEMMA ActiveRespondsTyped ==
    ASSUME Typed, KP!SnapshotInv', NEW id \in Ids, NEW hasError \in BOOLEAN, ActiveResponds(id, hasError)
    PROVE  RoleTypes'
<1> USE DEF Typed, RoleTypes
<1> DEFINE f == pending[id].frame
           moves == ~ hasError /\ Journals(f)
<1>a. /\ id \in DOMAIN pending /\ f \in Frames /\ f.body.tool \in Tools
      /\ active \in Tokens /\ workers[active] \in WorkerState
    BY PendingFrames DEF ActiveResponds, K!CompleteResponse, Emits, RolesTyped,
        WorkersTyped, Tools
<1>b. /\ workers' = [workers EXCEPT ![active].owes = @ \ {id},
                        ![active].applied = IF moves THEN Applying(f.body.tool, @) ELSE @]
      /\ IF hasError THEN UNCHANGED journalVars ELSE RecordSessionTransition(f)
    BY DEF ActiveResponds
<1> HIDE DEF f
<1>1. HostTyped'
    BY DEF HostTyped, ActiveResponds, Go, At, Steps
<1>2. RolesTyped'
    BY DEF RolesTyped, ActiveResponds, roleVars
<1>3. ReleasesTyped'
    BY DEF ReleasesTyped, ActiveResponds, releaseVars
<1>4. PublicTyped'
    BY DEF PublicTyped, ActiveResponds, publicVars
<1>5. JournalTyped'
    <2>1. CASE hasError \/ ContractFor(f).state = "Stateless"
        <3>1. UNCHANGED journalVars
            <4>1. CASE hasError
                BY <1>b, <4>1
            <4>2. CASE ~ hasError
                <5>1. RecordSessionTransition(f) /\ ContractFor(f).state = "Stateless"
                    BY <1>b, <2>1, <4>2
                <5> QED
                    BY <5>1 DEF RecordSessionTransition, Journals, journalVars
            <4> QED
                BY <4>1, <4>2
        <3> QED
            BY <3>1 DEF JournalTyped, journalVars
    <2>2. CASE ~ hasError /\ ContractFor(f).state # "Stateless" /\ Journals(f)
        <3>1. RecordTransition(f.body.tool)
            BY <1>b, <2>2 DEF RecordSessionTransition
        <3> QED
            BY <1>a, <3>1, RecordTyped
    <2>3. CASE ~ hasError /\ ContractFor(f).state # "Stateless" /\ ~ Journals(f)
        BY <1>b, <2>3 DEF JournalTyped, RecordSessionTransition
    <2> QED
        BY <2>1, <2>2, <2>3
<1>6. WorkersTyped'
    <2> DEFINE s == IF moves THEN Applying(f.body.tool, workers[active].applied) ELSE workers[active].applied
    <2>1. workers' = [workers EXCEPT ![active].owes = workers[active].owes \ {id}, ![active].applied = s]
        BY <1>a, <1>b DEF WorkersTyped
    <2>2. s \in Sessions /\ workers[active].owes \ {id} \in SUBSET Ids
        BY <1>a, ApplyingSession DEF WorkerState
    <2> HIDE DEF s
    <2> QED
        BY <1>a, <2>1, <2>2, RespondedTyped
<1>7. EnvironmentTyped'
    BY DEF EnvironmentTyped, ActiveResponds
<1> QED
    BY <1>1, <1>2, <1>3, <1>4, <1>5, <1>6, <1>7

LEMMA ActiveAsksTyped ==
    ASSUME Typed, KP!SnapshotInv', ActiveAsks
    PROVE  RoleTypes'
<1> USE DEF Typed, RoleTypes
<1>1. HostTyped'
    BY DEF HostTyped, ActiveAsks, Emits, At
<1>2. RolesTyped'
    BY DEF RolesTyped, ActiveAsks, roleVars
<1>3. ReleasesTyped'
    BY DEF ReleasesTyped, ActiveAsks, releaseVars
<1>4. PublicTyped'
    BY DEF PublicTyped, ActiveAsks, publicVars
<1>5. JournalTyped'
    BY DEF JournalTyped, ActiveAsks, journalVars
<1>6. WorkersTyped'
    BY DEF WorkersTyped, ActiveAsks
<1>7. EnvironmentTyped'
    <2>1. /\ active \in Tokens /\ left.callbacks \in 1..Callbacks /\ Callbacks \in Nat
          /\ left' = [left EXCEPT !.callbacks = left.callbacks - 1]
          /\ callbacks' = callbacks \cup {[worker |-> active, number |-> left.callbacks]}
        BY BoundsAssumption DEF ActiveAsks, Emits, EnvironmentTyped, RolesTyped
    <2>2. left.callbacks - 1 \in 0..Callbacks
        BY <2>1
    <2>3. left' \in [frames : Nat, faults : Nat, callbacks : 0..Callbacks, publications : Nat]
        BY <2>1, <2>2 DEF EnvironmentTyped
    <2> QED
        BY <2>1, <2>3 DEF EnvironmentTyped
<1> QED
    BY <1>1, <1>2, <1>3, <1>4, <1>5, <1>6, <1>7

LEMMA ActiveCatalogArrivesTyped ==
    ASSUME Typed, KP!SnapshotInv', NEW hasError \in BOOLEAN, ActiveCatalogArrives(hasError)
    PROVE  RoleTypes'
<1> USE DEF Typed, RoleTypes
<1>1. HostTyped'
    BY FrameIds, RolesAssumption, BoundsAssumption DEF HostTyped, ActiveCatalogArrives,
        Go, At, Steps
<1>2. RolesTyped'
    BY DEF RolesTyped, ActiveCatalogArrives, Answers
<1>3. ReleasesTyped'
    BY FrameIds, RolesAssumption, BoundsAssumption DEF ReleasesTyped,
        ActiveCatalogArrives, Answers, releaseVars
<1>4. PublicTyped'
    <2>1. active \in Tokens /\ workers[active].release \in Releases
        BY DEF ActiveCatalogArrives, Answers, Emits, RolesTyped, WorkersTyped,
            WorkerState
    <2>2. CatalogOf[workers[active].release] \in Catalogs
        BY <2>1, RolesAssumption
    <2> QED
        BY <2>2 DEF PublicTyped, ActiveCatalogArrives, Answers
<1>5. JournalTyped'
    BY FrameIds, RolesAssumption, BoundsAssumption DEF JournalTyped,
        ActiveCatalogArrives, Answers, journalVars
<1>6. WorkersTyped'
    BY DEF WorkersTyped, ActiveCatalogArrives
<1>7. EnvironmentTyped'
    BY DEF EnvironmentTyped, ActiveCatalogArrives, Answers, Fault
<1> QED
    BY <1>1, <1>2, <1>3, <1>4, <1>5, <1>6, <1>7

LEMMA CandidateInitializedTyped ==
    ASSUME Typed, KP!SnapshotInv', NEW hasError \in BOOLEAN, CandidateInitialized(hasError)
    PROVE  RoleTypes'
<1> USE DEF Typed, RoleTypes
<1>1. HostTyped'
    BY FrameIds, RolesAssumption, BoundsAssumption DEF HostTyped, CandidateInitialized,
        Go, At, Steps
<1>2. RolesTyped'
    BY FrameIds, RolesAssumption, BoundsAssumption DEF RolesTyped, CandidateInitialized,
        Answers, Emits, Asking, Request, InternalActions, Stages
<1>3. ReleasesTyped'
    BY FrameIds, RolesAssumption, BoundsAssumption DEF ReleasesTyped,
        CandidateInitialized, Answers, releaseVars
<1>4. PublicTyped'
    BY DEF PublicTyped, CandidateInitialized, Answers
<1>5. JournalTyped'
    BY FrameIds, RolesAssumption, BoundsAssumption DEF JournalTyped,
        CandidateInitialized, Answers, journalVars
<1>6. WorkersTyped'
    BY DEF WorkersTyped, CandidateInitialized
<1>7. EnvironmentTyped'
    BY DEF EnvironmentTyped, CandidateInitialized, Answers, Fault
<1> QED
    BY <1>1, <1>2, <1>3, <1>4, <1>5, <1>6, <1>7

LEMMA CandidateReadyTyped ==
    ASSUME Typed, KP!SnapshotInv', NEW hasError \in BOOLEAN, CandidateReady(hasError)
    PROVE  RoleTypes'
<1> USE DEF Typed, RoleTypes
<1>1. HostTyped'
    <2>1. \E step \in {"Reject", "TryBeginRestore", "Idle"} : Go(step)
        BY DEF CandidateReady
    <2> QED
        BY <2>1, GoTyped DEF Steps
<1>2. RolesTyped'
    BY FrameIds, RolesAssumption, BoundsAssumption DEF RolesTyped, CandidateReady,
        Answers, Stages, RolloverPhases
<1>3. ReleasesTyped'
    BY FrameIds, RolesAssumption, BoundsAssumption DEF ReleasesTyped, CandidateReady,
        Answers, releaseVars
<1>4. PublicTyped'
    BY DEF PublicTyped, CandidateReady, Answers
<1>5. JournalTyped'
    BY FrameIds, RolesAssumption, BoundsAssumption DEF JournalTyped, CandidateReady,
        Answers, journalVars
<1>6. WorkersTyped'
    BY DEF WorkersTyped, CandidateReady
<1>7. EnvironmentTyped'
    BY DEF EnvironmentTyped, CandidateReady, Answers, Fault
<1> QED
    BY <1>1, <1>2, <1>3, <1>4, <1>5, <1>6, <1>7

LEMMA CandidateRestoredTyped ==
    ASSUME Typed, KP!SnapshotInv', NEW index \in DOMAIN journal, NEW hasError \in BOOLEAN, CandidateRestored(index, hasError)
    PROVE  RoleTypes'
<1> USE DEF Typed, RoleTypes
<1> DEFINE t == candidate.token
           done == internal \ {Asking(t, "RestoreJournal", index)}
           proceeds == ~ hasError /\ index < Len(journal) /\ Running(t)
<1>a. /\ t \in Tokens /\ workers[t] \in WorkerState
      /\ journal[index] \in Tools /\ Len(journal) \in Nat /\ index \in 1..Len(journal)
      /\ Len(journal) <= JournalCapacity
    <2>1. t \in Tokens /\ journal \in Seq(Tools) /\ Len(journal) <= JournalCapacity
        BY DEF CandidateRestored, Answers, Emits, RolesTyped, JournalTyped, Sessions
    <2> QED
        BY <2>1, LenProperties, ElementOfSeq DEF WorkersTyped
<1>b. /\ workers' = IF hasError THEN workers
                     ELSE [workers EXCEPT ![t].applied = Applying(journal[index], @)]
      /\ internal' = IF proceeds THEN done \cup {Asking(t, "RestoreJournal", index + 1)} ELSE done
      /\ candidate' = IF proceeds THEN [candidate EXCEPT !.deadline = TRUE] ELSE candidate
      /\ UNCHANGED <<active, rollover>>
    BY DEF CandidateRestored, Answers
<1> HIDE DEF t
<1>1. HostTyped'
    BY FrameIds, RolesAssumption, BoundsAssumption DEF HostTyped, CandidateRestored, Go,
        At, Steps
<1>2. RolesTyped'
    <2>1. candidate' \in [token : Tokens \cup {NoWorker}, purpose : Purposes,
                      stage : Stages, deadline : BOOLEAN]
        BY <1>b DEF RolesTyped
    <2>2. proceeds => index + 1 \in 0..JournalCapacity
        BY <1>a, RolesAssumption
    <2>3. internal' \subseteq Request
        BY <1>a, <1>b, <2>2 DEF RolesTyped, Request, Asking, InternalActions
    <2> QED
        BY <1>b, <2>1, <2>3 DEF RolesTyped
<1>3. ReleasesTyped'
    BY FrameIds, RolesAssumption, BoundsAssumption DEF ReleasesTyped, CandidateRestored,
        Answers, releaseVars
<1>4. PublicTyped'
    BY DEF PublicTyped, CandidateRestored, Answers
<1>5. JournalTyped'
    BY FrameIds, RolesAssumption, BoundsAssumption DEF JournalTyped, CandidateRestored,
        Answers, journalVars
<1>6. WorkersTyped'
    <2>1. CASE hasError
        BY <1>b, <2>1 DEF WorkersTyped
    <2>2. CASE ~ hasError
        <3> DEFINE s == Applying(journal[index], workers[t].applied)
        <3>1. workers' = [workers EXCEPT ![t].applied = s]
            BY <1>a, <1>b, <2>2 DEF WorkersTyped
        <3>2. s \in Sessions
            BY <1>a, ApplyingSession DEF WorkerState
        <3> HIDE DEF s
        <3> QED
            BY <1>a, <3>1, <3>2, AppliedTyped
    <2> QED
        BY <2>1, <2>2
<1>7. EnvironmentTyped'
    BY DEF EnvironmentTyped, CandidateRestored, Answers, Fault
<1> QED
    BY <1>1, <1>2, <1>3, <1>4, <1>5, <1>6, <1>7

LEMMA MisbehavesTyped ==
    ASSUME Typed, KP!SnapshotInv', NEW t \in Tokens, Misbehaves(t)
    PROVE  RoleTypes'
<1> USE DEF Typed, RoleTypes
<1>1. HostTyped'
    BY DEF HostTyped, Misbehaves, Go, At, Steps
<1>2. RolesTyped'
    BY DEF RolesTyped, Misbehaves, roleVars
<1>3. ReleasesTyped'
    BY DEF ReleasesTyped, Misbehaves, releaseVars
<1>4. PublicTyped'
    BY DEF PublicTyped, Misbehaves, publicVars
<1>5. JournalTyped'
    BY DEF JournalTyped, Misbehaves, journalVars
<1>6. WorkersTyped'
    BY DEF WorkersTyped, Misbehaves
<1>7. EnvironmentTyped'
    BY DEF EnvironmentTyped, Misbehaves, Fault
<1> QED
    BY <1>1, <1>2, <1>3, <1>4, <1>5, <1>6, <1>7

LEMMA WorkerClosesTyped ==
    ASSUME Typed, KP!SnapshotInv', NEW t \in Tokens, WorkerCloses(t)
    PROVE  RoleTypes'
<1> USE DEF Typed, RoleTypes
<1>1. HostTyped'
    BY FrameIds, RolesAssumption, BoundsAssumption DEF HostTyped, WorkerCloses, Fault,
        Go, At, Steps, HasActive, roleVars
<1>2. RolesTyped'
    BY DEF RolesTyped, WorkerCloses, roleVars
<1>3. ReleasesTyped'
    BY DEF ReleasesTyped, WorkerCloses, releaseVars
<1>4. PublicTyped'
    BY DEF PublicTyped, WorkerCloses, publicVars
<1>5. JournalTyped'
    BY DEF JournalTyped, WorkerCloses, journalVars
<1>6. WorkersTyped'
    <2>1. workers' = [workers EXCEPT ![t].status = "closed"]
        BY DEF WorkerCloses
    <2> QED
        BY <2>1, StatusTyped
<1>7. EnvironmentTyped'
    BY DEF EnvironmentTyped, WorkerCloses, Fault
<1> QED
    BY <1>1, <1>2, <1>3, <1>4, <1>5, <1>6, <1>7

LEMMA WorkerGoneTyped ==
    ASSUME Typed, KP!SnapshotInv', NEW t \in Tokens, WorkerGone(t)
    PROVE  RoleTypes'
<1> USE DEF Typed, RoleTypes
<1>a. \/ DropRecoveryCandidate
      \/ /\ \E step \in {"Lose", "Reject"} : Go(step)
         /\ UNCHANGED <<candidate, internal, workers, rollover>>
    BY DEF WorkerGone
<1>b. active' = active
    BY DEF WorkerGone
<1>1. HostTyped'
    <2>1. CASE DropRecoveryCandidate
        BY <2>1, <1>b DEF DropRecoveryCandidate, HostTyped, HasActive, At
    <2>2. CASE \E step \in {"Lose", "Reject"} : Go(step)
        BY <2>2, GoTyped DEF Steps
    <2> QED
        BY <1>a, <2>1, <2>2
<1>2. RolesTyped'
    <2>1. CASE DropRecoveryCandidate
        BY <2>1, <1>b DEF DropRecoveryCandidate, RolesTyped, NoCandidate, Candidate,
            Disowned, Purposes, Stages, RolloverPhases
    <2>2. CASE UNCHANGED <<candidate, internal, workers, rollover>>
        BY <2>2, <1>b DEF RolesTyped
    <2> QED
        BY <1>a, <2>1, <2>2
<1>3. ReleasesTyped'
    BY DEF ReleasesTyped, WorkerGone, releaseVars
<1>4. PublicTyped'
    BY DEF PublicTyped, WorkerGone, publicVars
<1>5. JournalTyped'
    BY DEF JournalTyped, WorkerGone, journalVars
<1>6. WorkersTyped'
    <2>1. CASE DropRecoveryCandidate
        BY <2>1, ReapTyped DEF DropRecoveryCandidate
    <2>2. CASE UNCHANGED <<candidate, internal, workers, rollover>>
        BY <2>2 DEF WorkersTyped
    <2> QED
        BY <1>a, <2>1, <2>2
<1>7. EnvironmentTyped'
    BY DEF EnvironmentTyped, WorkerGone
<1> QED
    BY <1>1, <1>2, <1>3, <1>4, <1>5, <1>6, <1>7

LEMMA RouteInitializeTyped ==
    ASSUME Typed, KP!SnapshotInv', RouteInitialize
    PROVE  RoleTypes'
<1> USE DEF Typed, RoleTypes
<1>a. host.frame \in Frames /\ host.frame.method = "initialize"
    BY DEF RouteInitialize, HostTyped
<1>b. HostTyped' /\ WorkersTyped' /\ unanswered' \subseteq unanswered
    <2>1. CASE ~ MustQueue(host.frame) /\ Dispatch(host.frame, "Idle")
        <3>1. HasActive
            BY <1>a, <2>1 DEF MustQueue
        <3> QED
            BY <1>a, <2>1, <3>1, DispatchTyped
    <2>2. CASE Go("Idle") /\ workers' = workers /\ unanswered' \subseteq unanswered
        BY <2>2, GoTyped DEF Steps, WorkersTyped
    <2> QED
        BY <2>1, <2>2 DEF RouteInitialize
<1>1. HostTyped'
    BY <1>b
<1>2. RolesTyped'
    BY DEF RolesTyped, RouteInitialize, roleVars
<1>3. ReleasesTyped'
    BY DEF ReleasesTyped, RouteInitialize, releaseVars
<1>4. PublicTyped'
    BY <1>b DEF RouteInitialize, PublicTyped, publicVars
<1>5. JournalTyped'
    BY DEF JournalTyped, RouteInitialize, journalVars
<1>6. WorkersTyped'
    BY <1>b
<1>7. EnvironmentTyped'
    BY DEF EnvironmentTyped, RouteInitialize
<1> QED
    BY <1>1, <1>2, <1>3, <1>4, <1>5, <1>6, <1>7

LEMMA TryBeginRestoreTyped ==
    ASSUME Typed, KP!SnapshotInv', TryBeginRestore
    PROVE  RoleTypes'
<1> USE DEF Typed, RoleTypes
<1>1. HostTyped'
    BY DEF HostTyped, TryBeginRestore, Go, At, Steps, Failures
<1>2. RolesTyped'
    <2>1. CASE candidate' = candidate /\ internal' = internal
        BY <2>1 DEF RolesTyped, TryBeginRestore
    <2>2. CASE ~ (candidate' = candidate /\ internal' = internal)
        <3>1. /\ candidate' = [candidate EXCEPT !.stage = "Restoring", !.deadline = TRUE]
              /\ internal' = internal \cup {Asking(candidate.token, "RestoreJournal", 1)}
              /\ UNCHANGED <<active, rollover>>
              /\ HasCandidate /\ journal # <<>>
            BY <2>2 DEF TryBeginRestore
        <3>2. 1 \in 0..JournalCapacity
            <4>1. journal \in Seq(Tools) /\ Len(journal) <= JournalCapacity
                BY DEF JournalTyped, Sessions
            <4>2. Len(journal) \in Nat /\ Len(journal) # 0
                BY <3>1, <4>1, EmptySeq, LenProperties
            <4> QED
                BY <4>1, <4>2, RolesAssumption
        <3>3. candidate.token \in Tokens
            BY <3>1 DEF RolesTyped, HasCandidate
        <3>4. internal' \subseteq Request
            BY <3>1, <3>2, <3>3 DEF RolesTyped, Request, Asking, InternalActions
        <3>5. candidate' \in [token : Tokens \cup {NoWorker}, purpose : Purposes,
                      stage : Stages, deadline : BOOLEAN]
            BY <3>1 DEF RolesTyped, Stages
        <3> QED
            BY <3>1, <3>4, <3>5 DEF RolesTyped
    <2> QED
        BY <2>1, <2>2
<1>3. ReleasesTyped'
    BY DEF ReleasesTyped, TryBeginRestore, releaseVars
<1>4. PublicTyped'
    BY DEF PublicTyped, TryBeginRestore, publicVars
<1>5. JournalTyped'
    BY DEF JournalTyped, TryBeginRestore, journalVars
<1>6. WorkersTyped'
    BY DEF WorkersTyped, TryBeginRestore
<1>7. EnvironmentTyped'
    BY DEF EnvironmentTyped, TryBeginRestore
<1> QED
    BY <1>1, <1>2, <1>3, <1>4, <1>5, <1>6, <1>7

LEMMA ActivateCandidateTyped ==
    ASSUME Typed, KP!SnapshotInv', ActivateCandidate
    PROVE  RoleTypes'
<1> USE DEF Typed, RoleTypes
<1>1. HostTyped'
    BY FrameIds, RolesAssumption, BoundsAssumption DEF HostTyped, ActivateCandidate, Go,
        At, Steps, Failures
<1>2. RolesTyped'
    BY FrameIds, RolesAssumption, BoundsAssumption DEF RolesTyped, ActivateCandidate,
        PhaseActivated, Go, At, Steps, Failures, HasActive, HasCandidate, vars,
        releaseVars, publicVars, journalVars, Candidate, NoCandidate, Purposes, Stages,
        RolloverPhases
<1>3. ReleasesTyped'
    BY DEF ReleasesTyped, ActivateCandidate, HasCandidate, RolesTyped, WorkersTyped,
        WorkerState
<1>4. PublicTyped'
    <2>1. candidate.token \in Tokens /\ workers[candidate.token].release \in Releases
        BY DEF ActivateCandidate, HasCandidate, RolesTyped, WorkersTyped, WorkerState
    <2>2. published' \in Catalogs \cup {NoCatalog}
        BY <2>1, RolesAssumption DEF ActivateCandidate, CandidateCatalog
    <2>3. refreshRequest' = NoFrame /\ unanswered' \subseteq unanswered
        BY DEF ActivateCandidate
    <2> QED
        BY <2>2, <2>3 DEF PublicTyped
<1>5. JournalTyped'
    BY DEF JournalTyped, ActivateCandidate, journalVars
<1>6. WorkersTyped'
    BY ReapTyped DEF ActivateCandidate
<1>7. EnvironmentTyped'
    BY DEF EnvironmentTyped, ActivateCandidate
<1> QED
    BY <1>1, <1>2, <1>3, <1>4, <1>5, <1>6, <1>7

LEMMA RejectCandidateTyped ==
    ASSUME Typed, KP!SnapshotInv', RejectCandidate
    PROVE  RoleTypes'
<1> USE DEF Typed, RoleTypes
<1>1. HostTyped'
    <2>1. \E step \in {"Flush", "Idle"} : Go(step)
        BY DEF RejectCandidate
    <2> QED
        BY <2>1, GoTyped DEF Steps
<1>2. RolesTyped'
    BY FrameIds, RolesAssumption, BoundsAssumption DEF RolesTyped, RejectCandidate, Go,
        At, Steps, Failures, HasActive, HasCandidate, vars, releaseVars, publicVars,
        journalVars, roleVars, Disowned, Candidate, NoCandidate, Purposes, Stages,
        RolloverPhases
<1>3. ReleasesTyped'
    BY DEF ReleasesTyped, RejectCandidate, HasCandidate, RolesTyped, WorkersTyped,
        WorkerState
<1>4. PublicTyped'
    BY DEF PublicTyped, RejectCandidate
<1>5. JournalTyped'
    BY DEF JournalTyped, RejectCandidate, journalVars
<1>6. WorkersTyped'
    BY ReapTyped DEF RejectCandidate
<1>7. EnvironmentTyped'
    BY DEF EnvironmentTyped, RejectCandidate
<1> QED
    BY <1>1, <1>2, <1>3, <1>4, <1>5, <1>6, <1>7

LEMMA LoseActiveTyped ==
    ASSUME Typed, KP!SnapshotInv', LoseActive
    PROVE  RoleTypes'
<1> USE DEF Typed, RoleTypes
<1>1. HostTyped'
    BY DEF HostTyped, LoseActive, Go, At, Steps
<1>2. RolesTyped'
    BY FrameIds, RolesAssumption, BoundsAssumption DEF RolesTyped, LoseActive, Go, At,
        Steps, Failures, HasActive, HasCandidate, vars, releaseVars, publicVars,
        journalVars, roleVars, Candidate, NoCandidate, Purposes, Stages, RolloverPhases
<1>3. ReleasesTyped'
    BY DEF ReleasesTyped, LoseActive, releaseVars
<1>4. PublicTyped'
    BY DEF PublicTyped, LoseActive, publicVars
<1>5. JournalTyped'
    BY DEF JournalTyped, LoseActive, journalVars
<1>6. WorkersTyped'
    BY ReapTyped DEF LoseActive
<1>7. EnvironmentTyped'
    BY DEF EnvironmentTyped, LoseActive
<1> QED
    BY <1>1, <1>2, <1>3, <1>4, <1>5, <1>6, <1>7

LEMMA FlushEndsTyped ==
    ASSUME Typed, KP!SnapshotInv', FlushEnds
    PROVE  RoleTypes'
<1> USE DEF Typed, RoleTypes
<1>1. HostTyped'
    BY DEF HostTyped, FlushEnds, Go, At, Steps
<1>2. RolesTyped'
    BY DEF RolesTyped, FlushEnds, roleVars
<1>3. ReleasesTyped'
    BY DEF ReleasesTyped, FlushEnds, releaseVars
<1>4. PublicTyped'
    BY DEF PublicTyped, FlushEnds, publicVars
<1>5. JournalTyped'
    BY DEF JournalTyped, FlushEnds, journalVars
<1>6. WorkersTyped'
    BY DEF WorkersTyped, FlushEnds
<1>7. EnvironmentTyped'
    BY DEF EnvironmentTyped, FlushEnds
<1> QED
    BY <1>1, <1>2, <1>3, <1>4, <1>5, <1>6, <1>7

LEMMA FlushReplaysTyped ==
    ASSUME Typed, KP!SnapshotInv', FlushReplays
    PROVE  RoleTypes'
<1> USE DEF Typed, RoleTypes
<1>a. Head(queue) \in Frames /\ Head(queue).id \in Ids /\ HasActive
    BY HostReplays, PendingFrames DEF FlushReplays, Flushes
<1>b. HostTyped' /\ WorkersTyped'
    BY <1>a, SendCrosses DEF FlushReplays
<1>1. HostTyped'
    BY <1>b
<1>2. RolesTyped'
    BY DEF RolesTyped, FlushReplays, roleVars
<1>3. ReleasesTyped'
    BY DEF ReleasesTyped, FlushReplays, releaseVars
<1>4. PublicTyped'
    BY DEF PublicTyped, FlushReplays, publicVars
<1>5. JournalTyped'
    BY DEF JournalTyped, FlushReplays, journalVars
<1>6. WorkersTyped'
    BY <1>b
<1>7. EnvironmentTyped'
    BY DEF EnvironmentTyped, FlushReplays
<1> QED
    BY <1>1, <1>2, <1>3, <1>4, <1>5, <1>6, <1>7

LEMMA FlushPopsTyped ==
    ASSUME Typed, KP!SnapshotInv', FlushPops
    PROVE  RoleTypes'
<1> USE DEF Typed, RoleTypes
<1>1. HostTyped'
    <2>1. Head(queue) \in Frames /\ HasActive
        BY HostPops DEF FlushPops, Flushes
    <2>2. host' = [host EXCEPT !.at = "Route", !.frame = Head(queue)] /\ active' = active
        BY DEF FlushPops, roleVars
    <2> QED
        BY <2>1, <2>2 DEF HostTyped, At, Steps, HasActive
<1>2. RolesTyped'
    BY DEF RolesTyped, FlushPops, roleVars
<1>3. ReleasesTyped'
    BY DEF ReleasesTyped, FlushPops, releaseVars
<1>4. PublicTyped'
    BY DEF PublicTyped, FlushPops, publicVars
<1>5. JournalTyped'
    BY DEF JournalTyped, FlushPops, journalVars
<1>6. WorkersTyped'
    BY DEF WorkersTyped, FlushPops
<1>7. EnvironmentTyped'
    BY DEF EnvironmentTyped, FlushPops
<1> QED
    BY <1>1, <1>2, <1>3, <1>4, <1>5, <1>6, <1>7

LEMMA RouteFrameTyped ==
    ASSUME Typed, KP!SnapshotInv', RouteFrame
    PROVE  RoleTypes'
<1> USE DEF Typed, RoleTypes
<1>a. host.frame \in Frames /\ HasActive
    BY DEF RouteFrame, HostTyped
<1>b. HostTyped' /\ WorkersTyped' /\ unanswered' \subseteq unanswered
    <2>1. CASE Dispatch(host.frame, "Flush")
        BY <1>a, <2>1, DispatchTyped
    <2>2. CASE /\ \E step \in {"Idle", "FailedCatalog", "Flush", "Lose"} : Go(step)
               /\ workers' = workers /\ unanswered' = unanswered
        BY <2>2, GoTyped DEF Steps, Failures, WorkersTyped
    <2>3. CASE /\ host' = [host EXCEPT !.at = "Flush", !.frame = NoFrame]
               /\ workers' = workers /\ unanswered' = unanswered \ {host.frame.id}
        BY <2>3 DEF HostTyped, At, Steps, WorkersTyped
    <2> QED
        BY <2>1, <2>2, <2>3 DEF RouteFrame
<1>1. HostTyped'
    BY <1>b
<1>2. RolesTyped'
    BY DEF RolesTyped, RouteFrame, roleVars
<1>3. ReleasesTyped'
    BY DEF ReleasesTyped, RouteFrame, releaseVars
<1>4. PublicTyped'
    BY <1>b DEF RouteFrame, PublicTyped, publicVars
<1>5. JournalTyped'
    BY DEF JournalTyped, RouteFrame, journalVars
<1>6. WorkersTyped'
    BY <1>b
<1>7. EnvironmentTyped'
    BY DEF EnvironmentTyped, RouteFrame
<1> QED
    BY <1>1, <1>2, <1>3, <1>4, <1>5, <1>6, <1>7

LEMMA GraceExpiresTyped ==
    ASSUME Typed, KP!SnapshotInv', GraceExpires
    PROVE  RoleTypes'
<1> USE DEF Typed, RoleTypes
<1>1. HostTyped'
    BY DEF HostTyped, GraceExpires, Go, At, Steps
<1>2. RolesTyped'
    BY DEF RolesTyped, GraceExpires, RolloverPhases
<1>3. ReleasesTyped'
    BY DEF ReleasesTyped, GraceExpires, releaseVars
<1>4. PublicTyped'
    BY DEF PublicTyped, GraceExpires, publicVars
<1>5. JournalTyped'
    BY DEF JournalTyped, GraceExpires, journalVars
<1>6. WorkersTyped'
    BY DEF WorkersTyped, GraceExpires
<1>7. EnvironmentTyped'
    BY DEF EnvironmentTyped, GraceExpires
<1> QED
    BY <1>1, <1>2, <1>3, <1>4, <1>5, <1>6, <1>7

LEMMA DeadlineExpiresTyped ==
    ASSUME Typed, KP!SnapshotInv', DeadlineExpires
    PROVE  RoleTypes'
<1> USE DEF Typed, RoleTypes
<1>a. \/ DropRecoveryCandidate
      \/ /\ \E step \in {"Lose", "Reject"} : Go(step)
         /\ UNCHANGED <<candidate, internal, workers, rollover>>
    BY DEF DeadlineExpires
<1>b. active' = active
    BY DEF DeadlineExpires
<1>1. HostTyped'
    <2>1. CASE DropRecoveryCandidate
        BY <2>1, <1>b DEF DropRecoveryCandidate, HostTyped, HasActive, At
    <2>2. CASE \E step \in {"Lose", "Reject"} : Go(step)
        BY <2>2, GoTyped DEF Steps
    <2> QED
        BY <1>a, <2>1, <2>2
<1>2. RolesTyped'
    <2>1. CASE DropRecoveryCandidate
        BY <2>1, <1>b DEF DropRecoveryCandidate, RolesTyped, NoCandidate, Candidate,
            Disowned, Purposes, Stages, RolloverPhases
    <2>2. CASE UNCHANGED <<candidate, internal, workers, rollover>>
        BY <2>2, <1>b DEF RolesTyped
    <2> QED
        BY <1>a, <2>1, <2>2
<1>3. ReleasesTyped'
    BY DEF ReleasesTyped, DeadlineExpires, releaseVars
<1>4. PublicTyped'
    BY DEF PublicTyped, DeadlineExpires, publicVars
<1>5. JournalTyped'
    BY DEF JournalTyped, DeadlineExpires, journalVars
<1>6. WorkersTyped'
    <2>1. CASE DropRecoveryCandidate
        BY <2>1, ReapTyped DEF DropRecoveryCandidate
    <2>2. CASE UNCHANGED <<candidate, internal, workers, rollover>>
        BY <2>2 DEF WorkersTyped
    <2> QED
        BY <1>a, <2>1, <2>2
<1>7. EnvironmentTyped'
    BY DEF EnvironmentTyped, DeadlineExpires, Fault
<1> QED
    BY <1>1, <1>2, <1>3, <1>4, <1>5, <1>6, <1>7

LEMMA RefuseReleaseTyped ==
    ASSUME Typed, KP!SnapshotInv', RefuseRelease
    PROVE  RoleTypes'
<1> USE DEF Typed, RoleTypes
<1>1. HostTyped'
    BY DEF HostTyped, RefuseRelease, ObservesNewRelease, At
<1>2. RolesTyped'
    BY DEF RolesTyped, RefuseRelease, roleVars
<1>3. ReleasesTyped'
    BY DEF ReleasesTyped, RefuseRelease
<1>4. PublicTyped'
    BY DEF PublicTyped, RefuseRelease, publicVars
<1>5. JournalTyped'
    BY DEF JournalTyped, RefuseRelease, journalVars
<1>6. WorkersTyped'
    BY DEF WorkersTyped, RefuseRelease
<1>7. EnvironmentTyped'
    BY DEF EnvironmentTyped, RefuseRelease, Fault
<1> QED
    BY <1>1, <1>2, <1>3, <1>4, <1>5, <1>6, <1>7

LEMMA StartRecoveryTyped ==
    ASSUME Typed, KP!SnapshotInv', NEW t \in Tokens, StartRecovery(t)
    PROVE  RoleTypes'
<1> USE DEF Typed, RoleTypes
<1>a. \/ workers' = [workers EXCEPT ![t] = Spawned(recoveryRelease)]
          /\ active' = t /\ UNCHANGED <<candidate, internal>> /\ rollover' = "None"
      \/ Launches(t, recoveryRelease, "Recovery") /\ UNCHANGED <<active, rollover>>
    BY DEF StartRecovery
<1>1. HostTyped'
    <2>1. host.at = "Idle" /\ (host' = host \/ host' = [host EXCEPT !.at = "Flush", !.caught = TRUE])
        BY DEF StartRecovery, At
    <2> QED
        BY <2>1 DEF HostTyped, At, Steps
<1>2. RolesTyped'
    <2>1. CASE Launches(t, recoveryRelease, "Recovery") /\ UNCHANGED <<active,
                                                                       rollover>>
        BY <2>1, RolesAssumption DEF RolesTyped, Launches, Candidate, Asking, Request,
            InternalActions, Purposes, Stages
    <2>2. CASE active' = t /\ UNCHANGED <<candidate, internal>> /\ rollover' = "None"
        BY <2>2 DEF RolesTyped, RolloverPhases
    <2> QED
        BY <1>a, <2>1, <2>2
<1>3. ReleasesTyped'
    BY DEF ReleasesTyped, StartRecovery, releaseVars
<1>4. PublicTyped'
    BY DEF PublicTyped, StartRecovery, publicVars
<1>5. JournalTyped'
    BY DEF JournalTyped, StartRecovery, journalVars
<1>6. WorkersTyped'
    BY <1>a, SpawnTyped DEF Launches, ReleasesTyped
<1>7. EnvironmentTyped'
    BY DEF EnvironmentTyped, StartRecovery
<1> QED
    BY <1>1, <1>2, <1>3, <1>4, <1>5, <1>6, <1>7

LEMMA StartRolloverTyped ==
    ASSUME Typed, KP!SnapshotInv', NEW t \in Tokens, StartRollover(t)
    PROVE  RoleTypes'
<1> USE DEF Typed, RoleTypes
<1>1. HostTyped'
    BY DEF HostTyped, StartRollover, ObservesNewRelease, At
<1>2. RolesTyped'
    BY FrameIds, RolesAssumption, BoundsAssumption DEF RolesTyped, StartRollover,
        ObservesNewRelease, Launches, Go, At, Steps, Failures, HasActive, HasCandidate,
        vars, releaseVars, publicVars, journalVars, roleVars, Disowned, InternalOf,
        Candidate, Asking, Request, InternalActions, Purposes, Stages
<1>3. ReleasesTyped'
    BY DEF ReleasesTyped, StartRollover, releaseVars
<1>4. PublicTyped'
    BY DEF PublicTyped, StartRollover, publicVars
<1>5. JournalTyped'
    BY DEF JournalTyped, StartRollover, journalVars
<1>6. WorkersTyped'
    BY SpawnTyped DEF StartRollover, Launches, ReleasesTyped
<1>7. EnvironmentTyped'
    BY DEF EnvironmentTyped, StartRollover
<1> QED
    BY <1>1, <1>2, <1>3, <1>4, <1>5, <1>6, <1>7

LEMMA PublishTyped ==
    ASSUME Typed, KP!SnapshotInv', NEW release \in Releases, Publish(release)
    PROVE  RoleTypes'
<1> USE DEF Typed, RoleTypes
<1>1. HostTyped'
    BY FrameIds, RolesAssumption, BoundsAssumption DEF HostTyped, Publish, Go, At,
        HasActive, roleVars
<1>2. RolesTyped'
    BY DEF RolesTyped, Publish, roleVars
<1>3. ReleasesTyped'
    BY DEF ReleasesTyped, Publish
<1>4. PublicTyped'
    BY DEF PublicTyped, Publish, publicVars
<1>5. JournalTyped'
    BY DEF JournalTyped, Publish, journalVars
<1>6. WorkersTyped'
    BY DEF WorkersTyped, Publish
<1>7. EnvironmentTyped'
    BY DEF EnvironmentTyped, Publish
<1> QED
    BY <1>1, <1>2, <1>3, <1>4, <1>5, <1>6, <1>7

-----------------------------------------------------------------------------
(* The roles: what holds of the workers, the fence and the host's own      *)
(* requests between any two steps                                          *)

\* The workers with a role are processes, and two of them.
Processes ==
    /\ HasActive => workers[active].status # "retired"
    /\ HasCandidate => workers[candidate.token].status # "retired" /\ candidate.token # active

\* Where the handler may go on, and how the stage of the candidate and the
\* phase of the rollover go together.
Fences ==
    /\ At("Lose") => HasActive
    /\ At("Activate") => HasCandidate
    /\ host.at \in {"Flush", "Route", "Initialize"} => ~ HasCandidate
    /\ At("Route") => rollover = "None"
    /\ HasCandidate /\ candidate.stage \in {"Initializing", "Catalog"} =>
            rollover = IF HasActive THEN "None" ELSE "Recovering"
    /\ HasCandidate /\ candidate.stage = "Ready" =>
            rollover \in {"Draining", "AwaitingCatalogRefresh"}
    /\ HasCandidate /\ candidate.stage = "Restoring" => rollover = "Draining"
    /\ HasCandidate => phase \in {"AwaitingInitialized", "Live"}
    /\ HasCandidate /\ HasActive => phase = "Live" /\ published # NoCatalog

\* Every request of the host's own is to a worker with a role.
Owners ==
    \A r \in internal :
        /\ \/ r.worker = active /\ r.action = "ActiveCatalog" /\ published = NoCatalog
           \/ r.worker = candidate.token /\ r.action \in Expected[candidate.stage]
        /\ r.action # "RestoreJournal" => r.index = 0

\* A candidate is asked one thing at a time.
Conversation ==
    /\ HasCandidate => \A q, r \in internal :
            q.worker = candidate.token /\ r.worker = candidate.token => q = r
    /\ At("Activate") => \A r \in internal : r.worker # candidate.token
    /\ HasCandidate /\ host.at \in {"Idle", "TryBeginRestore"} =>
            /\ candidate.stage # "Ready" => \E r \in internal : r.worker = candidate.token
            /\ candidate.deadline <=> candidate.stage # "Ready" \/ rollover # "Draining"
    /\ HasCandidate /\ At("TryBeginRestore") => candidate.stage # "Restoring"

\* The session is handed over with nothing in flight and nothing sealed.
Quiescence ==
    /\ HasCandidate /\ candidate.stage = "Restoring" => InFlight = {} /\ ~ sealed
    /\ At("Activate") => InFlight = {}
    /\ At("Activate") /\ HasActive => ~ sealed

\* The journal is the state of the session, and what a candidate has of it.
SameSession ==
    /\ published # NoCatalog => phase = "Live"
    /\ \A r \in internal : r.action = "ActiveCatalog" => phase = "Live"
    /\ HasCandidate /\ candidate.stage # "Initializing" => phase = "Live"
    /\ phase # "Live" => journal = <<>>
    /\ HasActive /\ ~ sealed => workers[active].applied = journal
    /\ HasCandidate /\ candidate.stage # "Restoring" =>
           workers[candidate.token].applied = <<>>
    /\ \A r \in internal : r.action = "RestoreJournal" =>
        r.index \in DOMAIN journal /\ workers[r.worker].applied = SubSeq(journal, 1, r.index - 1)
    /\ At("Activate") => workers[candidate.token].applied = journal

Coordinated ==
    /\ Processes /\ Fences /\ FenceHasCause
    /\ Owners /\ Conversation
    /\ GenerationPinned /\ Quiescence
    /\ CatalogCoherence /\ SameSession

HostInv == Typed /\ Coordinated

LEMMA ExpectedOf ==
    /\ Expected["Initializing"] = {"CandidateInitialize"}
    /\ Expected["Catalog"] = {"CandidateCatalog"}
    /\ Expected["Ready"] = {}
    /\ Expected["Restoring"] = {"RestoreJournal"}
BY DEF Expected, Stages

\* What the types say of the parts the roles are made of.
LEMMA RoleParts ==
    ASSUME Typed
    PROVE  /\ HasActive => active \in Tokens
           /\ HasCandidate => candidate.token \in Tokens
           /\ \A r \in internal : r.worker \in Tokens /\ r = Asking(r.worker, r.action, r.index)
           /\ candidate.stage \in Stages /\ candidate.deadline \in BOOLEAN
           /\ candidate.purpose \in Purposes
           /\ phase \in K!Phases
<1>1. phase \in K!Phases
    BY SameConstants DEF Typed, KP!SnapshotInv, KP!LawInv, KP!SafetyInv, KP!TypeInv,
        KP!TypeOK
<1> QED
    BY <1>1 DEF Typed, RoleTypes, RolesTyped, HasActive, HasCandidate, Request, Asking

\* The handler goes on, or the next event is taken, and no role changes.
LEMMA StillCoordinated ==
    ASSUME HostInv, UNCHANGED <<active, candidate, rollover, internal, workers,
                               recoveryRelease, published, journal, sealed>>,
           phase' = phase, InFlight' = InFlight,
           At("Lose") => host'.at = "Lose",
           host'.at = "Lose" => HasActive,
           host'.at \in {"Activate", "TryBeginRestore"} => host'.at = host.at,
           host'.at \in {"Flush", "Route", "Initialize"} => ~ HasCandidate,
           host'.at = "Route" => rollover = "None",
           host'.at = "Idle" => At("Idle") \/ ~ HasCandidate
    PROVE  Coordinated'
<1> USE DEF HostInv, Coordinated, At, HasActive, HasCandidate
<1>1. Processes'
    BY DEF Processes
<1>2. Fences'
    BY DEF Fences
<1>3. FenceHasCause'
    BY DEF FenceHasCause
<1>4. Owners'
    BY DEF Owners
<1>5. Conversation'
    BY DEF Conversation
<1>6. GenerationPinned'
    BY DEF GenerationPinned
<1>7. Quiescence'
    BY DEF Quiescence
<1>8. CatalogCoherence'
    BY DEF CatalogCoherence
<1>9. SameSession'
    BY DEF SameSession
<1> QED
    BY <1>1, <1>2, <1>3, <1>4, <1>5, <1>6, <1>7, <1>8, <1>9

\* A request crosses to the active worker, or the worker is lost.
LEMMA SentCoordinated ==
    ASSUME HostInv, HasActive, ~ GatingNewWork, NEW id, NEW next \in {"Idle", "Flush"},
           Crossed(id, next),
           UNCHANGED <<active, candidate, rollover, internal, recoveryRelease,
                       published, journal, sealed>>,
           InFlight' = InFlight \cup {id},
           phase' = phase \/ (phase = "Cold" /\ phase' = "Initializing"),
           ~ At("Lose"),
           next = "Flush" => ~ HasCandidate,
           next = "Idle" => At("Idle") \/ ~ HasCandidate
    PROVE  Coordinated'
<1> USE DEF HostInv, Coordinated, At, HasActive, HasCandidate
<1>a. active \in Tokens /\ rollover \notin {"Draining", "Recovering"}
    BY RoleParts DEF GatingNewWork
<1>1. Processes'
    BY RoleParts DEF Processes, Crossed
<1>2. Fences'
    BY DEF Fences, Crossed
<1>3. FenceHasCause'
    BY DEF FenceHasCause, Crossed
<1>4. Owners'
    BY DEF Owners
<1>5. Conversation'
    BY DEF Conversation, Crossed
<1>6. GenerationPinned'
    BY <1>a DEF GenerationPinned, Crossed
<1>7. Quiescence'
    BY <1>a DEF Quiescence, Fences, Crossed
<1>8. CatalogCoherence'
    BY <1>a DEF CatalogCoherence, Crossed
<1>9. SameSession'
    BY <1>a, RoleParts DEF SameSession, Crossed
<1> QED
    BY <1>1, <1>2, <1>3, <1>4, <1>5, <1>6, <1>7, <1>8, <1>9

-----------------------------------------------------------------------------
(* Each action keeps the roles coordinated                                 *)

LEMMA ClientInitializesCoordinated ==
    ASSUME HostInv, KP!SnapshotInv', NEW f \in Frames, ClientInitializes(f)
    PROVE  Coordinated'
<1>1. phase = "Cold" /\ phase' = phase /\ InFlight' = InFlight
    BY HandshakeSeen DEF ClientInitializes
<1>2. ~ HasCandidate
    BY <1>1 DEF HostInv, Coordinated, Fences
<1>3. /\ UNCHANGED <<active, candidate, rollover, internal, workers, recoveryRelease,
                     published, journal, sealed>>
      /\ host.at = "Idle" /\ host'.at = "Initialize"
    BY DEF ClientInitializes, Receives, ReceivesRequest, At, roleVars, releaseVars,
        publicVars, journalVars, vars
<1> QED
    BY <1>1, <1>2, <1>3, StillCoordinated DEF At

LEMMA ClientQueuesCoordinated ==
    ASSUME HostInv, KP!SnapshotInv', NEW f \in Frames, ClientQueues(f)
    PROVE  Coordinated'
<1>1. phase' = phase /\ InFlight' = InFlight
    BY HostQueues DEF ClientQueues, HostInv, Typed
<1>2. /\ UNCHANGED <<active, candidate, rollover, internal, workers, recoveryRelease,
                     published, journal, sealed>>
      /\ host.at = "Idle" /\ host'.at = "Idle"
    BY DEF ClientQueues, Receives, ReceivesRequest, Go, At, roleVars, releaseVars,
        publicVars, journalVars, vars
<1> QED
    BY <1>1, <1>2, StillCoordinated DEF At

LEMMA ClientNotifiesCoordinated ==
    ASSUME HostInv, KP!SnapshotInv', NEW f \in Frames, ClientNotifies(f)
    PROVE  Coordinated'
<1>1. phase' = phase /\ InFlight' = InFlight
    BY KernelUntouched DEF ClientNotifies, Receives
<1>2. /\ UNCHANGED <<active, candidate, rollover, internal, workers, recoveryRelease,
                     published, journal, sealed>>
      /\ host.at = "Idle" /\ host'.at = "Lose" /\ HasActive
    BY DEF ClientNotifies, Receives, MustQueue, GatingNewWork, Go, At, roleVars,
        releaseVars, publicVars, journalVars, vars
<1> QED
    BY <1>1, <1>2, StillCoordinated DEF At

LEMMA ClientAnswersCoordinated ==
    ASSUME HostInv, KP!SnapshotInv', NEW c \in callbacks, ClientAnswers(c)
    PROVE  Coordinated'
<1>1. phase' = phase /\ InFlight' = InFlight
    BY KernelUntouched DEF ClientAnswers
<1>2. /\ UNCHANGED <<active, candidate, rollover, internal, workers, recoveryRelease,
                     published, journal, sealed>>
      /\ host.at = "Idle" /\ host'.at \in {"Idle", "Lose"} /\ (host'.at = "Lose" => c.worker = active)
    BY DEF ClientAnswers, Go, At, roleVars, releaseVars, publicVars, journalVars, vars
<1>3. c.worker = active => HasActive
    BY RolesAssumption DEF HostInv, Typed, RoleTypes, EnvironmentTyped, HasActive
<1> QED
    BY <1>1, <1>2, <1>3, StillCoordinated DEF At

LEMMA ActiveAsksCoordinated ==
    ASSUME HostInv, KP!SnapshotInv', ActiveAsks
    PROVE  Coordinated'
<1>1. phase' = phase /\ InFlight' = InFlight
    BY KernelUntouched DEF ActiveAsks, Emits
<1>2. /\ UNCHANGED <<active, candidate, rollover, internal, workers, recoveryRelease,
                     published, journal, sealed>>
      /\ host.at = "Idle" /\ host'.at = "Idle"
    BY DEF ActiveAsks, Emits, Go, At, roleVars, releaseVars, publicVars, journalVars,
        vars
<1> QED
    BY <1>1, <1>2, StillCoordinated DEF At

LEMMA MisbehavesCoordinated ==
    ASSUME HostInv, KP!SnapshotInv', NEW t \in Tokens, Misbehaves(t)
    PROVE  Coordinated'
<1>1. phase' = phase /\ InFlight' = InFlight
    BY KernelUntouched DEF Misbehaves, Emits, Fault
<1>2. /\ UNCHANGED <<active, candidate, rollover, internal, workers, recoveryRelease,
                     published, journal, sealed>>
      /\ host.at = "Idle" /\ host'.at \in {"Reject", "Lose"} /\ (host'.at = "Lose" => HasActive)
    BY DEF Misbehaves, Emits, Fault, HasActive, Go, At, roleVars, releaseVars,
        publicVars, journalVars, vars
<1> QED
    BY <1>1, <1>2, StillCoordinated DEF At

LEMMA FlushEndsCoordinated ==
    ASSUME HostInv, KP!SnapshotInv', FlushEnds
    PROVE  Coordinated'
<1>1. phase' = phase /\ InFlight' = InFlight
    BY KernelUntouched DEF FlushEnds
<1>2. /\ UNCHANGED <<active, candidate, rollover, internal, workers, recoveryRelease,
                     published, journal, sealed>>
      /\ host.at = "Flush" /\ host'.at = "Idle" /\ ~ HasCandidate
    BY DEF HostInv, Coordinated, Fences, FlushEnds, Go, At, roleVars, releaseVars,
        publicVars, journalVars, vars
<1> QED
    BY <1>1, <1>2, StillCoordinated DEF At

LEMMA FlushPopsCoordinated ==
    ASSUME HostInv, KP!SnapshotInv', FlushPops
    PROVE  Coordinated'
<1>1. phase' = phase /\ InFlight' = InFlight
    BY HostPops DEF FlushPops, HostInv, Typed
<1>2. /\ UNCHANGED <<active, candidate, rollover, internal, workers, recoveryRelease,
                     published, journal, sealed>>
      /\ host.at = "Flush" /\ host'.at = "Route" /\ ~ HasCandidate /\ rollover = "None"
    BY DEF FlushPops, Flushes, HostInv, Coordinated, Fences, Typed, RoleTypes,
        HostTyped, Go, At, roleVars, releaseVars, publicVars, journalVars, vars
<1> QED
    BY <1>1, <1>2, StillCoordinated DEF At

LEMMA RefuseReleaseCoordinated ==
    ASSUME HostInv, KP!SnapshotInv', RefuseRelease
    PROVE  Coordinated'
<1>1. phase' = phase /\ InFlight' = InFlight
    BY KernelUntouched DEF RefuseRelease, ObservesNewRelease, Fault
<1>2. /\ UNCHANGED <<active, candidate, rollover, internal, workers, recoveryRelease,
                     published, journal, sealed>>
      /\ host' = host
    BY DEF RefuseRelease, ObservesNewRelease, Fault, Go, At, roleVars, releaseVars,
        publicVars, journalVars, vars
<1> QED
    BY <1>1, <1>2, StillCoordinated DEF At, HostInv, Coordinated, Fences

LEMMA PublishCoordinated ==
    ASSUME HostInv, KP!SnapshotInv', NEW release \in Releases, Publish(release)
    PROVE  Coordinated'
<1>1. phase' = phase /\ InFlight' = InFlight
    BY KernelUntouched DEF Publish
<1>2. /\ UNCHANGED <<active, candidate, rollover, internal, workers, recoveryRelease,
                     published, journal, sealed>>
      /\ host' = host
    BY DEF Publish, Go, At, roleVars, releaseVars, publicVars, journalVars, vars
<1> QED
    BY <1>1, <1>2, StillCoordinated DEF At, HostInv, Coordinated, Fences

LEMMA ClientCallsCoordinated ==
    ASSUME HostInv, KP!SnapshotInv', NEW f \in Frames, ClientCalls(f)
    PROVE  Coordinated'
<1>1. /\ f.id \in Ids /\ HasActive /\ ~ GatingNewWork /\ At("Idle")
      /\ UNCHANGED <<active, candidate, rollover, internal, recoveryRelease, published,
                     journal, sealed>>
    BY FrameIds DEF ClientCalls, MustQueue, ReceivesRequest, Receives, releaseVars,
        journalVars
<1>2. Crossed(f.id, "Idle")
    BY <1>1, SendCrosses DEF ClientCalls, HostInv, Typed
<1>3. InFlight' = InFlight \cup {f.id} /\ (phase' = phase \/ (phase = "Cold" /\ phase' = "Initializing"))
    <2>1. KP!SnapshotInv /\ Classify(f) \in K!Contracts /\ K!BeginRequestDispatch(f, Classify(f))
        BY ClassifiedType DEF ClientCalls, HostInv, Typed
    <2> QED
        BY <2>1, HostBegins
<1> QED
    BY <1>1, <1>2, <1>3, SentCoordinated DEF At

LEMMA FlushReplaysCoordinated ==
    ASSUME HostInv, KP!SnapshotInv', FlushReplays
    PROVE  Coordinated'
<1> DEFINE id == Head(queue).id
<1>1. /\ id \in Ids /\ InFlight' = InFlight \cup {id} /\ phase' = phase
    BY HostReplays, PendingFrames DEF FlushReplays, HostInv, Typed
<1>2. /\ HasActive /\ ~ GatingNewWork /\ host.at = "Flush" /\ ~ HasCandidate
      /\ UNCHANGED <<active, candidate, rollover, internal, recoveryRelease, published,
                     journal, sealed>>
    BY DEF FlushReplays, Flushes, GatingNewWork, At, HostInv, Coordinated, Fences,
        roleVars, releaseVars, publicVars, journalVars, vars
<1>3. Crossed(id, "Flush")
    BY <1>1, <1>2, SendCrosses DEF FlushReplays, HostInv, Typed
<1> HIDE DEF id
<1> QED
    BY <1>1, <1>2, <1>3, SentCoordinated DEF At

\* A request is dispatched, or refused, with no candidate about.
LEMMA DispatchCoordinated ==
    ASSUME HostInv, NEW f \in Frames, NEW next \in {"Idle", "Flush"},
           HasActive, ~ GatingNewWork, ~ HasCandidate,
           host.at \in {"Initialize", "Route"}, Dispatch(f, next),
           UNCHANGED <<active, candidate, rollover, internal, recoveryRelease,
                       published, journal, sealed>>
    PROVE  Coordinated'
<1>1. CASE K!MayBegin(f)
    <2>1. InFlight' = InFlight \cup {f.id} /\ f.id \in Ids
            /\ (phase' = phase \/ (phase = "Cold" /\ phase' = "Initializing"))
        <3>1. KP!SnapshotInv /\ Classify(f) \in K!Contracts /\ K!BeginRequestDispatch(f, Classify(f))
            BY <1>1, ClassifiedType DEF Dispatch, HostInv, Typed
        <3> QED
            BY <3>1, HostBegins
    <2>2. Crossed(f.id, next)
        BY <1>1, <2>1, SendCrosses DEF Dispatch, HostInv, Typed
    <2> QED
        BY <2>1, <2>2, SentCoordinated DEF At
<1>2. CASE ~ K!MayBegin(f)
    <2>1. phase' = phase /\ InFlight' = InFlight /\ workers' = workers
        BY <1>2, KernelUntouched DEF Dispatch
    <2>2. host'.at = next
        BY <1>2 DEF Dispatch, Go
    <2> QED
        BY <2>1, <2>2, StillCoordinated DEF At
<1> QED
    BY <1>1, <1>2

LEMMA RouteInitializeCoordinated ==
    ASSUME HostInv, KP!SnapshotInv', RouteInitialize
    PROVE  Coordinated'
<1> DEFINE f == host.frame
<1>1. f \in Frames /\ ~ HasCandidate /\ host.at \in {"Initialize", "Route"}
    BY DEF RouteInitialize, At, HostInv, Typed, RoleTypes, HostTyped, Coordinated,
        Fences
<1>2. UNCHANGED <<active, candidate, rollover, internal, recoveryRelease, published,
                  journal, sealed>>
    BY DEF RouteInitialize, roleVars, releaseVars, publicVars, journalVars, vars
<1>3. CASE ~ MustQueue(f) /\ Dispatch(f, "Idle")
    <2>1. HasActive /\ ~ GatingNewWork
        BY <1>3 DEF MustQueue, RouteInitialize, HostInv, Typed, RoleTypes, HostTyped
    <2> QED
        BY <1>1, <1>2, <1>3, <2>1, DispatchCoordinated
<1>4. CASE K!QueueClientFrame(f) /\ Go("Idle") /\ workers' = workers
    <2>1. phase' = phase /\ InFlight' = InFlight
        BY <1>1, <1>4, HostQueues DEF HostInv, Typed
    <2> QED
        BY <1>1, <1>2, <1>4, <2>1, StillCoordinated DEF At, Go
<1>5. CASE Go("Idle") /\ UNCHANGED kernelVars /\ workers' = workers
    <2>1. phase' = phase /\ InFlight' = InFlight
        BY <1>5, KernelUntouched
    <2> QED
        BY <1>1, <1>2, <1>5, <2>1, StillCoordinated DEF At, Go
<1> QED
    BY <1>3, <1>4, <1>5 DEF RouteInitialize

LEMMA RouteFrameCoordinated ==
    ASSUME HostInv, KP!SnapshotInv', RouteFrame
    PROVE  Coordinated'
<1> DEFINE f == host.frame
<1>1. f \in Frames /\ ~ HasCandidate /\ host.at \in {"Initialize", "Route"}
    BY DEF RouteFrame, At, HostInv, Typed, RoleTypes, HostTyped, Coordinated, Fences
<1>2. UNCHANGED <<active, candidate, rollover, internal, recoveryRelease, published,
                  journal, sealed>>
    BY DEF RouteFrame, roleVars, releaseVars, publicVars, journalVars, vars
<1>3. HasActive /\ ~ GatingNewWork
    BY DEF RouteFrame, At, HostInv, Typed, RoleTypes, HostTyped, Coordinated, Fences,
        GatingNewWork
<1>4. CASE Dispatch(f, "Flush")
    BY <1>1, <1>2, <1>3, <1>4, DispatchCoordinated
<1>5. CASE /\ UNCHANGED kernelVars /\ workers' = workers
           /\ host'.at \in {"Idle", "FailedCatalog", "Flush", "Lose"}
    <2>1. phase' = phase /\ InFlight' = InFlight
        BY <1>5, KernelUntouched
    <2> QED
        BY <1>1, <1>2, <1>3, <1>5, <2>1, StillCoordinated DEF At
<1>6. \/ Dispatch(f, "Flush")
      \/ /\ UNCHANGED kernelVars /\ workers' = workers
         /\ host'.at \in {"Idle", "FailedCatalog", "Flush", "Lose"}
    <2>1. \/ Dispatch(f, "Flush")
          \/ /\ UNCHANGED kernelVars /\ workers' = workers
             /\ \/ \E step \in {"Idle", "FailedCatalog", "Flush", "Lose"} : Go(step)
                \/ host' = [host EXCEPT !.at = "Flush", !.frame = NoFrame]
        BY DEF RouteFrame
    <2>2. ASSUME NEW step, Go(step) PROVE host'.at = step
        BY <2>2 DEF Go
    <2>3. ASSUME host' = [host EXCEPT !.at = "Flush", !.frame = NoFrame]
          PROVE  host'.at = "Flush"
        BY <2>3 DEF Typed, RoleTypes, HostTyped, HostInv
    <2> QED
        BY <2>1, <2>2, <2>3
<1> QED
    BY <1>4, <1>5, <1>6

\* The refresh of the client, or the end of the grace, sets the fence.
LEMMA FencedCoordinated ==
    ASSUME HostInv, host.at = "Idle", host'.at = "TryBeginRestore",
           rollover = "AwaitingCatalogRefresh", rollover' = "Draining",
           candidate' = [candidate EXCEPT !.deadline = FALSE],
           UNCHANGED <<active, internal, workers, recoveryRelease, published, journal,
                       sealed>>,
           phase' = phase, InFlight' = InFlight
    PROVE  Coordinated'
<1> USE DEF HostInv, Coordinated, At, HasActive, HasCandidate
<1>a. /\ candidate'.token = candidate.token /\ candidate'.purpose = candidate.purpose
      /\ candidate'.stage = candidate.stage /\ candidate'.deadline = FALSE
    BY DEF Typed, RoleTypes, RolesTyped
<1>b. HasCandidate => candidate.stage = "Ready"
    BY RoleParts DEF Fences, Stages
<1>1. Processes'
    BY <1>a, <1>b, RoleParts, ExpectedOf DEF Processes
<1>2. Fences'
    BY <1>a, <1>b, RoleParts, ExpectedOf DEF Fences, FenceHasCause
<1>3. FenceHasCause'
    BY <1>a, <1>b, RoleParts, ExpectedOf DEF FenceHasCause, Fences
<1>4. Owners'
    BY <1>a, <1>b, RoleParts, ExpectedOf DEF Owners, Fences, FenceHasCause
<1>5. Conversation'
    BY <1>a, <1>b, RoleParts, ExpectedOf DEF Conversation, Owners, Fences
<1>6. GenerationPinned'
    BY <1>a, <1>b, RoleParts, ExpectedOf DEF GenerationPinned
<1>7. Quiescence'
    BY <1>a, <1>b, RoleParts, ExpectedOf DEF Quiescence, Fences
<1>8. CatalogCoherence'
    BY <1>a, <1>b, RoleParts, ExpectedOf DEF CatalogCoherence
<1>9. SameSession'
    BY <1>a, <1>b, RoleParts, ExpectedOf DEF SameSession
<1> QED
    BY <1>1, <1>2, <1>3, <1>4, <1>5, <1>6, <1>7, <1>8, <1>9

LEMMA ClientRefreshesCoordinated ==
    ASSUME HostInv, KP!SnapshotInv', NEW f \in Frames, ClientRefreshes(f)
    PROVE  Coordinated'
<1>1. phase' = phase /\ InFlight' = InFlight
    BY KernelUntouched DEF ClientRefreshes
<1>2. /\ host.at = "Idle" /\ host'.at = "TryBeginRestore"
      /\ rollover = "AwaitingCatalogRefresh" /\ rollover' = "Draining"
      /\ candidate' = [candidate EXCEPT !.deadline = FALSE]
      /\ UNCHANGED <<active, internal, workers, recoveryRelease, published, journal,
                     sealed>>
    BY DEF ClientRefreshes, Receives, ReceivesRequest, Go, At, AwaitsRefresh, roleVars,
        releaseVars, publicVars, journalVars, vars
<1> QED
    BY <1>1, <1>2, FencedCoordinated

LEMMA GraceExpiresCoordinated ==
    ASSUME HostInv, KP!SnapshotInv', GraceExpires
    PROVE  Coordinated'
<1>1. phase' = phase /\ InFlight' = InFlight
    BY KernelUntouched DEF GraceExpires
<1>2. /\ host.at = "Idle" /\ host'.at = "TryBeginRestore"
      /\ rollover = "AwaitingCatalogRefresh" /\ rollover' = "Draining"
      /\ candidate' = [candidate EXCEPT !.deadline = FALSE]
      /\ UNCHANGED <<active, internal, workers, recoveryRelease, published, journal,
                     sealed>>
    BY DEF GraceExpires, Deadlined, Go, At, AwaitsRefresh, roleVars, releaseVars,
        publicVars, journalVars, vars
<1> QED
    BY <1>1, <1>2, FencedCoordinated

\* A candidate for recovery is dropped.
LEMMA DroppedCoordinated ==
    ASSUME HostInv, HasCandidate, host.at = "Idle", DropRecoveryCandidate,
           UNCHANGED <<active, recoveryRelease, published, journal, sealed>>,
           phase' = phase, InFlight' = InFlight
    PROVE  Coordinated'
<1> USE DEF HostInv, Coordinated, At, HasActive, HasCandidate
<1>a. /\ candidate'.token = NoWorker /\ host'.at = "Idle" /\ rollover' = "Recovering"
      /\ \A r \in internal' : r \in internal /\ r.worker # candidate.token
    BY DEF DropRecoveryCandidate, NoCandidate, Candidate, Disowned, InternalOf
<1>b. /\ active = NoWorker
      /\ \A t \in Tokens : workers'[t].owes = {} \/ workers'[t] = workers[t]
    <2>1. active = NoWorker
        BY DEF DropRecoveryCandidate, FenceHasCause
    <2> QED
        BY <2>1, ReapTyped DEF DropRecoveryCandidate, Typed, RoleTypes, Retired
<1>c. internal' = {}
    BY <1>a, <1>b, RoleParts, RolesAssumption DEF Owners
<1>1. Processes'
    BY <1>a, <1>b, <1>c, RolesAssumption, RoleParts, ExpectedOf DEF Processes
<1>2. Fences'
    BY <1>a, <1>b, <1>c, RolesAssumption, RoleParts, ExpectedOf DEF Fences,
        FenceHasCause
<1>3. FenceHasCause'
    BY <1>a, <1>b, <1>c, RolesAssumption, RoleParts, ExpectedOf DEF FenceHasCause,
        Fences
<1>4. Owners'
    BY <1>a, <1>b, <1>c, RolesAssumption, RoleParts, ExpectedOf DEF Owners, Fences,
        FenceHasCause
<1>5. Conversation'
    BY <1>a, <1>b, <1>c, RolesAssumption, RoleParts, ExpectedOf DEF Conversation,
        Owners, Fences
<1>6. GenerationPinned'
    BY <1>a, <1>b, <1>c, RolesAssumption, RoleParts, ExpectedOf DEF GenerationPinned
<1>7. Quiescence'
    BY <1>a, <1>b, <1>c, RolesAssumption, RoleParts, ExpectedOf DEF Quiescence, Fences
<1>8. CatalogCoherence'
    BY <1>a, <1>b, <1>c, RolesAssumption, RoleParts, ExpectedOf DEF CatalogCoherence
<1>9. SameSession'
    BY <1>a, <1>b, <1>c, RolesAssumption, RoleParts, ExpectedOf DEF SameSession
<1> QED
    BY <1>1, <1>2, <1>3, <1>4, <1>5, <1>6, <1>7, <1>8, <1>9

LEMMA WorkerGoneCoordinated ==
    ASSUME HostInv, KP!SnapshotInv', NEW t \in Tokens, WorkerGone(t)
    PROVE  Coordinated'
<1>1. phase' = phase /\ InFlight' = InFlight
    BY KernelUntouched DEF WorkerGone
<1>2. /\ host.at = "Idle"
      /\ UNCHANGED <<active, recoveryRelease, published, journal, sealed>>
      /\ \/ DropRecoveryCandidate /\ HasCandidate
         \/ /\ UNCHANGED <<candidate, internal, workers, rollover>>
            /\ \E step \in {"Lose", "Reject"} : Go(step) /\ (step = "Lose" => HasActive)
    BY RolesAssumption DEF WorkerGone, At, HasActive, HasCandidate, roleVars,
        releaseVars, publicVars, journalVars, vars
<1>3. CASE DropRecoveryCandidate /\ HasCandidate
    BY <1>1, <1>2, <1>3, DroppedCoordinated
<1>4. CASE /\ UNCHANGED <<candidate, internal, workers, rollover>>
           /\ \E step \in {"Lose", "Reject"} : Go(step) /\ (step = "Lose" => HasActive)
    BY <1>1, <1>2, <1>4, StillCoordinated DEF Go, At
<1> QED
    BY <1>2, <1>3, <1>4

LEMMA DeadlineExpiresCoordinated ==
    ASSUME HostInv, KP!SnapshotInv', DeadlineExpires
    PROVE  Coordinated'
<1>1. phase' = phase /\ InFlight' = InFlight
    BY KernelUntouched DEF DeadlineExpires
<1>2. /\ host.at = "Idle"
      /\ UNCHANGED <<active, recoveryRelease, published, journal, sealed>>
      /\ \/ DropRecoveryCandidate /\ HasCandidate
         \/ /\ UNCHANGED <<candidate, internal, workers, rollover>>
            /\ \E step \in {"Lose", "Reject"} : Go(step) /\ (step = "Lose" => HasActive)
    BY RolesAssumption DEF DeadlineExpires, Deadlined, Fault, At, HasActive,
        HasCandidate, roleVars, releaseVars, publicVars, journalVars, vars
<1>3. CASE DropRecoveryCandidate /\ HasCandidate
    BY <1>1, <1>2, <1>3, DroppedCoordinated
<1>4. CASE /\ UNCHANGED <<candidate, internal, workers, rollover>>
           /\ \E step \in {"Lose", "Reject"} : Go(step) /\ (step = "Lose" => HasActive)
    BY <1>1, <1>2, <1>4, StillCoordinated DEF Go, At
<1> QED
    BY <1>2, <1>3, <1>4

LEMMA WorkerClosesCoordinated ==
    ASSUME HostInv, KP!SnapshotInv', NEW t \in Tokens, WorkerCloses(t)
    PROVE  Coordinated'
<1> USE DEF HostInv, Coordinated, At, HasActive, HasCandidate
<1>a. /\ UNCHANGED <<host, active, candidate, rollover, internal, recoveryRelease,
                     published, journal, sealed>>
      /\ workers' = [workers EXCEPT ![t].status = "closed"]
      /\ phase' = phase /\ InFlight' = InFlight
    BY KernelUntouched DEF WorkerCloses, roleVars, releaseVars, publicVars, journalVars
<1>b. \A u \in Tokens :
        /\ workers'[u].owes = workers[u].owes /\ workers'[u].release = workers[u].release
        /\ workers'[u].applied = workers[u].applied
        /\ workers'[u].status = "closed" \/ workers'[u].status = workers[u].status
    BY <1>a, StatusTyped DEF Typed, RoleTypes
<1>1. Processes'
    BY <1>a, <1>b, RoleParts, ExpectedOf DEF Processes
<1>2. Fences'
    BY <1>a, <1>b, RoleParts, ExpectedOf DEF Fences, FenceHasCause
<1>3. FenceHasCause'
    BY <1>a, <1>b, RoleParts, ExpectedOf DEF FenceHasCause, Fences
<1>4. Owners'
    BY <1>a, <1>b, RoleParts, ExpectedOf DEF Owners, Fences, FenceHasCause
<1>5. Conversation'
    BY <1>a, <1>b, RoleParts, ExpectedOf DEF Conversation, Owners, Fences
<1>6. GenerationPinned'
    BY <1>a, <1>b, RoleParts, ExpectedOf DEF GenerationPinned
<1>7. Quiescence'
    BY <1>a, <1>b, RoleParts, ExpectedOf DEF Quiescence, Fences
<1>8. CatalogCoherence'
    BY <1>a, <1>b, RoleParts, ExpectedOf DEF CatalogCoherence
<1>9. SameSession'
    BY <1>a, <1>b, RoleParts, ExpectedOf DEF SameSession
<1> QED
    BY <1>1, <1>2, <1>3, <1>4, <1>5, <1>6, <1>7, <1>8, <1>9

LEMMA ClientInitializedCoordinated ==
    ASSUME HostInv, KP!SnapshotInv', NEW f \in Frames, ClientInitialized(f)
    PROVE  Coordinated'
<1> USE DEF HostInv, Coordinated, At, HasActive, HasCandidate
<1>a. /\ phase = "AwaitingInitialized" /\ phase' = "Live" /\ InFlight' = InFlight
    BY HandshakeSeen DEF ClientInitialized, K!ObserveInitialized
<1>b. /\ host.at = "Idle" /\ host'.at \in {"Idle", "Lose"} /\ (host'.at = "Lose" => HasActive)
      /\ UNCHANGED <<active, candidate, rollover, workers, recoveryRelease, published,
                     journal, sealed>>
      /\ internal \subseteq internal'
      /\ \A r \in internal' : r \in internal \/ (r = Asking(active, "ActiveCatalog", 0) /\ active # NoWorker)
    BY DEF ClientInitialized, Receives, Go, releaseVars, journalVars
<1>c. /\ published = NoCatalog /\ (HasCandidate => active = NoWorker)
      /\ \A r \in internal' : r.worker = candidate.token => r \in internal \/ ~ HasCandidate
    BY <1>a, <1>b DEF SameSession, Fences, Processes, Asking
<1>1. Processes'
    BY <1>a, <1>b, <1>c, RoleParts, ExpectedOf DEF Processes
<1>2. Fences'
    BY <1>a, <1>b, <1>c, RoleParts, ExpectedOf DEF Fences, FenceHasCause
<1>3. FenceHasCause'
    BY <1>a, <1>b, <1>c, RoleParts, ExpectedOf DEF FenceHasCause, Fences
<1>4. Owners'
    BY <1>a, <1>b, <1>c DEF Owners, Asking
<1>5. Conversation'
    BY <1>a, <1>b, <1>c, RoleParts, ExpectedOf DEF Conversation, Owners, Fences
<1>6. GenerationPinned'
    BY <1>a, <1>b, <1>c, RoleParts, ExpectedOf DEF GenerationPinned
<1>7. Quiescence'
    BY <1>a, <1>b, <1>c, RoleParts, ExpectedOf DEF Quiescence, Fences
<1>8. CatalogCoherence'
    BY <1>a, <1>b, <1>c, RoleParts, ExpectedOf DEF CatalogCoherence
<1>9. SameSession'
    BY <1>a, <1>b, <1>c DEF SameSession, Asking
<1> QED
    BY <1>1, <1>2, <1>3, <1>4, <1>5, <1>6, <1>7, <1>8, <1>9

LEMMA ActiveCatalogArrivesCoordinated ==
    ASSUME HostInv, KP!SnapshotInv', NEW hasError \in BOOLEAN, ActiveCatalogArrives(hasError)
    PROVE  Coordinated'
<1> USE DEF HostInv, Coordinated, At, HasActive, HasCandidate
<1> DEFINE q == Asking(active, "ActiveCatalog", 0)
<1>a. /\ phase' = phase /\ InFlight' = InFlight
      /\ host.at = "Idle" /\ HasActive /\ q \in internal /\ internal' = internal \ {q}
      /\ published' = IF hasError THEN published ELSE CatalogOf[workers[active].release]
      /\ UNCHANGED <<active, candidate, rollover, workers, recoveryRelease, journal,
                     sealed>>
    BY KernelUntouched DEF ActiveCatalogArrives, Answers, Emits, releaseVars,
        journalVars
<1>b. host'.at \in {"Lose", "Flush"}
    BY DEF ActiveCatalogArrives, Go
<1>c. q.worker = active /\ q.action = "ActiveCatalog"
    BY DEF Asking
<1>d. phase = "Live" /\ published = NoCatalog /\ ~ HasCandidate
    <2>1. phase = "Live"
        BY <1>a, <1>c DEF SameSession
    <2>2. q.action \notin Expected[candidate.stage]
        BY <1>c, RoleParts, ExpectedOf DEF Stages
    <2>3. published = NoCatalog
        BY <1>a, <2>2 DEF Owners
    <2> QED
        BY <1>a, <2>1, <2>3 DEF Fences
<1>e. \A r \in internal' : r \in internal /\ r.worker \in Tokens /\ (r.action # "RestoreJournal" => r.index = 0)
        /\ ~ (r.worker = active /\ r.action = "ActiveCatalog")
    BY <1>a, RoleParts DEF Owners
<1>f. internal' = {}
    BY <1>d, <1>e, RolesAssumption DEF Owners
<1> HIDE DEF q
<1>1. Processes'
    BY <1>a, <1>b, <1>d, <1>f, RoleParts, ExpectedOf DEF Processes
<1>2. Fences'
    BY <1>a, <1>b, <1>d, <1>f, RoleParts, ExpectedOf DEF Fences, FenceHasCause
<1>3. FenceHasCause'
    BY <1>a, <1>b, <1>d, <1>f, RoleParts, ExpectedOf DEF FenceHasCause, Fences
<1>4. Owners'
    BY <1>a, <1>b, <1>d, <1>f, RoleParts, ExpectedOf DEF Owners, Fences, FenceHasCause
<1>5. Conversation'
    BY <1>a, <1>b, <1>d, <1>f, RoleParts, ExpectedOf DEF Conversation, Owners, Fences
<1>6. GenerationPinned'
    BY <1>a, <1>b, <1>d, <1>f, RoleParts, ExpectedOf DEF GenerationPinned
<1>7. Quiescence'
    BY <1>a, <1>b, <1>d, <1>f, RoleParts, ExpectedOf DEF Quiescence, Fences
<1>8. CatalogCoherence'
    BY <1>a, <1>b, <1>d, <1>f, RoleParts, ExpectedOf DEF CatalogCoherence
<1>9. SameSession'
    BY <1>a, <1>b, <1>d, <1>f, RoleParts, ExpectedOf DEF SameSession
<1> QED
    BY <1>1, <1>2, <1>3, <1>4, <1>5, <1>6, <1>7, <1>8, <1>9

\* The request candidate t answers is the one it was asked.
LEMMA OnlyRequest ==
    ASSUME HostInv, NEW action \in InternalActions \ {"ActiveCatalog"}, NEW index,
           candidate.token # NoWorker,
           Asking(candidate.token, action, index) \in internal
    PROVE  /\ action \in Expected[candidate.stage]
           /\ \A r \in internal : r.worker = candidate.token => r = Asking(candidate.token, action, index)
           /\ \A r \in internal : r.worker = active => r.worker # candidate.token
<1> DEFINE q == Asking(candidate.token, action, index)
<1>1. q.worker = candidate.token /\ q.action = action
    BY DEF Asking
<1> HIDE DEF q
<1>2. q \in internal
    BY DEF q
<1>3. action \in Expected[candidate.stage]
    BY <1>1, <1>2 DEF HostInv, Coordinated, Owners
<1>4. \A r \in internal : r.worker = candidate.token => r = q
    BY <1>1, <1>2 DEF HostInv, Coordinated, Conversation, HasCandidate
<1> QED
    BY <1>3, <1>4 DEF q, HostInv, Coordinated, Processes, HasCandidate

LEMMA CandidateInitializedCoordinated ==
    ASSUME HostInv, KP!SnapshotInv', NEW hasError \in BOOLEAN, CandidateInitialized(hasError)
    PROVE  Coordinated'
<1> USE DEF HostInv, Coordinated, At, HasActive, HasCandidate
<1> DEFINE t == candidate.token
           q == Asking(t, "CandidateInitialize", 0)
           proceeds == ~ hasError /\ phase # "AwaitingInitialized" /\ Running(t)
<1>a. /\ phase' = phase /\ InFlight' = InFlight
      /\ host.at = "Idle" /\ HasCandidate /\ q \in internal
      /\ internal' = IF proceeds THEN (internal \ {q}) \cup {Asking(t, "CandidateCatalog", 0)} ELSE internal \ {q}
      /\ candidate' = IF proceeds THEN [candidate EXCEPT !.stage = "Catalog"] ELSE candidate
      /\ UNCHANGED <<active, rollover, workers, recoveryRelease, published, journal,
                     sealed>>
    BY KernelUntouched DEF CandidateInitialized, Answers, Emits, releaseVars,
        journalVars
<1>b. host'.at = IF proceeds THEN "Idle"
                 ELSE IF ~ hasError /\ phase = "AwaitingInitialized" THEN "Activate" ELSE "Reject"
    BY DEF CandidateInitialized, Go
<1>c. /\ candidate.stage = "Initializing" /\ phase \in {"AwaitingInitialized", "Live"}
      /\ phase = "AwaitingInitialized" => active = NoWorker
      /\ \A r \in internal \ {q} : r.worker # t
    <2>1. candidate.stage = "Initializing"
        BY <1>a, OnlyRequest, ExpectedOf, RoleParts DEF InternalActions, Stages
    <2> QED
        BY <1>a, <2>1, OnlyRequest DEF Fences, InternalActions
<1>d. candidate'.token = t /\ candidate'.purpose = candidate.purpose /\ candidate'.deadline = candidate.deadline
      /\ candidate'.stage = IF proceeds THEN "Catalog" ELSE "Initializing"
    BY <1>a, <1>c DEF Typed, RoleTypes, RolesTyped
<1>e. LET r == Asking(t, "CandidateCatalog", 0) IN r.worker = t /\ r.action = "CandidateCatalog" /\ r.index = 0
    BY DEF Asking
<1>f. candidate.deadline = TRUE
    BY <1>a, <1>c, RoleParts DEF Conversation
<1>g. (proceeds => phase = "Live") /\ (phase = "AwaitingInitialized" => InFlight = {} /\ journal = <<>>)
    BY <1>a, <1>c DEF GenerationPinned, SameSession
<1> HIDE DEF q, proceeds
<1>1. Processes'
    BY <1>a, <1>b, <1>c, <1>d, <1>e, <1>f, <1>g, RoleParts, ExpectedOf DEF Processes
<1>2. Fences'
    BY <1>a, <1>b, <1>c, <1>d, <1>e, <1>f, <1>g, RoleParts, ExpectedOf DEF Fences,
        FenceHasCause
<1>3. FenceHasCause'
    BY <1>a, <1>b, <1>c, <1>d, <1>e, <1>f, <1>g, RoleParts, ExpectedOf
        DEF FenceHasCause, Fences
<1>4. Owners'
    BY <1>a, <1>b, <1>c, <1>d, <1>e, <1>f, <1>g, RoleParts, ExpectedOf DEF Owners,
        Fences, FenceHasCause
<1>5. Conversation'
    BY <1>a, <1>b, <1>c, <1>d, <1>e, <1>f, <1>g, RoleParts, ExpectedOf DEF Conversation,
        Owners, Fences
<1>6. GenerationPinned'
    BY <1>a, <1>b, <1>c, <1>d, <1>e, <1>f, <1>g, RoleParts, ExpectedOf
        DEF GenerationPinned
<1>7. Quiescence'
    BY <1>a, <1>b, <1>c, <1>d, <1>e, <1>f, <1>g, RoleParts, ExpectedOf DEF Quiescence,
        Fences
<1>8. CatalogCoherence'
    BY <1>a, <1>b, <1>c, <1>d, <1>e, <1>f, <1>g, RoleParts, ExpectedOf
        DEF CatalogCoherence
<1>9. SameSession'
    BY <1>a, <1>b, <1>c, <1>d, <1>e, <1>f, <1>g, RoleParts, ExpectedOf DEF SameSession
<1> QED
    BY <1>1, <1>2, <1>3, <1>4, <1>5, <1>6, <1>7, <1>8, <1>9

LEMMA CandidateReadyCoordinated ==
    ASSUME HostInv, KP!SnapshotInv', NEW hasError \in BOOLEAN, CandidateReady(hasError)
    PROVE  Coordinated'
<1> USE DEF HostInv, Coordinated, At, HasActive, HasCandidate
<1> DEFINE t == candidate.token
           q == Asking(t, "CandidateCatalog", 0)
           same == published = CatalogOf[workers[t].release]
<1>a. /\ phase' = phase /\ InFlight' = InFlight
      /\ host.at = "Idle" /\ HasCandidate /\ q \in internal
      /\ internal' = internal \ {q}
      /\ UNCHANGED <<active, workers, recoveryRelease, published, journal, sealed>>
    BY KernelUntouched DEF CandidateReady, Answers, Emits, releaseVars, journalVars
<1>b. IF hasError THEN host'.at = "Reject" /\ UNCHANGED <<candidate, rollover>>
      ELSE /\ candidate' = [candidate EXCEPT !.stage = "Ready", !.deadline = ~ same]
           /\ rollover' = IF same THEN "Draining" ELSE "AwaitingCatalogRefresh"
           /\ host'.at = IF same THEN "TryBeginRestore" ELSE "Idle"
    BY DEF CandidateReady, Go
<1>c. candidate.stage = "Catalog" /\ \A r \in internal \ {q} : r.worker # t
    <2>1. candidate.stage = "Catalog"
        BY <1>a, OnlyRequest, ExpectedOf, RoleParts DEF InternalActions, Stages
    <2> QED
        BY <1>a, <2>1, OnlyRequest DEF InternalActions
<1>d. /\ candidate'.token = t /\ candidate'.purpose = candidate.purpose
      /\ hasError => candidate' = candidate /\ rollover' = rollover /\ host'.at = "Reject"
      /\ ~ hasError /\ same =>
            /\ candidate'.stage = "Ready" /\ candidate'.deadline = FALSE
            /\ rollover' = "Draining" /\ host'.at = "TryBeginRestore"
      /\ ~ hasError /\ ~ same =>
            /\ candidate'.stage = "Ready" /\ candidate'.deadline = TRUE
            /\ rollover' = "AwaitingCatalogRefresh" /\ host'.at = "Idle"
    BY <1>b, <1>c DEF Typed, RoleTypes, RolesTyped
<1> HIDE DEF q, same
<1>1. Processes'
    BY <1>a, <1>c, <1>d, RoleParts, ExpectedOf DEF Processes
<1>2. Fences'
    BY <1>a, <1>c, <1>d, RoleParts, ExpectedOf DEF Fences, FenceHasCause
<1>3. FenceHasCause'
    BY <1>a, <1>c, <1>d, RoleParts, ExpectedOf DEF FenceHasCause, Fences
<1>4. Owners'
    BY <1>a, <1>c, <1>d, RoleParts, ExpectedOf DEF Owners, Fences, FenceHasCause
<1>5. Conversation'
    BY <1>a, <1>c, <1>d, RoleParts, ExpectedOf DEF Conversation, Owners, Fences
<1>6. GenerationPinned'
    BY <1>a, <1>c, <1>d, RoleParts, ExpectedOf DEF GenerationPinned
<1>7. Quiescence'
    BY <1>a, <1>c, <1>d, RoleParts, ExpectedOf DEF Quiescence, Fences
<1>8. CatalogCoherence'
    BY <1>a, <1>c, <1>d, RoleParts, ExpectedOf DEF CatalogCoherence
<1>9. SameSession'
    BY <1>a, <1>c, <1>d, RoleParts, ExpectedOf DEF SameSession
<1> QED
    BY <1>1, <1>2, <1>3, <1>4, <1>5, <1>6, <1>7, <1>8, <1>9

\* One more entry of the journal is replayed.
LEMMA PrefixGrows ==
    ASSUME JournalTyped, NEW index \in DOMAIN journal
    PROVE  /\ Applying(journal[index], SubSeq(journal, 1, index - 1)) = SubSeq(journal, 1, index)
           /\ SubSeq(journal, 1, 0) = <<>>
           /\ SubSeq(journal, 1, Len(journal)) = journal
           /\ Len(journal) \in Nat /\ DOMAIN journal = 1..Len(journal)
           /\ index \in 1..Len(journal)
<1> DEFINE before == SubSeq(journal, 1, index - 1)
           upto == SubSeq(journal, 1, index)
<1>1. /\ journal \in Seq(Tools) /\ Len(journal) \in Nat /\ DOMAIN journal = 1..Len(journal)
      /\ index \in 1..Len(journal)
      /\ \A i, j \in DOMAIN journal : journal[i] = journal[j] => i = j
    BY LenProperties DEF JournalTyped, Sessions
<1>2. \A i \in 1..Len(journal) : journal[i] \in Tools
    BY <1>1, ElementOfSeq
<1>3. /\ before \in Seq(Tools) /\ Len(before) = index - 1
      /\ \A i \in 1..(index - 1) : before[i] = journal[i]
    <2>1. \A i \in 1..(index - 1) : journal[i] \in Tools
        BY <1>1, <1>2
    <2>2. /\ before \in Seq(Tools)
          /\ Len(before) = IF 1 <= index - 1 THEN (index - 1) - 1 + 1 ELSE 0
          /\ \A i \in 1..((index - 1) - 1 + 1) : before[i] = journal[1 + i - 1]
        BY <1>1, <2>1, SubSeqProperties
    <2> HIDE DEF before
    <2> QED
        BY <1>1, <2>2
<1>4. /\ upto \in Seq(Tools) /\ Len(upto) = index
      /\ \A i \in 1..index : upto[i] = journal[i]
    <2>1. \A i \in 1..index : journal[i] \in Tools
        BY <1>1, <1>2
    <2>2. /\ upto \in Seq(Tools)
          /\ Len(upto) = IF 1 <= index THEN index - 1 + 1 ELSE 0
          /\ \A i \in 1..(index - 1 + 1) : upto[i] = journal[1 + i - 1]
        BY <1>1, <2>1, SubSeqProperties
    <2> HIDE DEF upto
    <2> QED
        BY <1>1, <2>2
<1> HIDE DEF before, upto
<1>5. DOMAIN before = 1..(index - 1)
    BY <1>3, LenProperties
<1>6. before \in Sessions /\ \A i \in DOMAIN before : before[i] # journal[index]
    BY <1>1, <1>3, <1>5 DEF Sessions
<1>7. Applying(journal[index], before) = Append(before, journal[index])
    BY <1>6, CompactedSession DEF Applying
<1>8. Append(before, journal[index]) = upto
    <2> DEFINE a == Append(before, journal[index])
    <2>1. /\ a \in Seq(Tools) /\ Len(a) = Len(before) + 1
          /\ \A i \in 1..Len(before) : a[i] = before[i]
          /\ a[Len(before) + 1] = journal[index]
        BY <1>1, <1>2, <1>3, AppendProperties
    <2> HIDE DEF a
    <2>2. Len(a) = index /\ \A i \in 1..index : a[i] = upto[i]
        BY <1>1, <1>3, <1>4, <2>1
    <2>3. a = upto
        BY <1>4, <2>1, <2>2, SeqEqual
    <2> QED
        BY <2>3 DEF a
<1>9. SubSeq(journal, 1, 0) = <<>>
    BY <1>1, SubSeqProperties, EmptySeq
<1>10. SubSeq(journal, 1, Len(journal)) = journal
    BY <1>1, <1>2, SubSeqProperties, SeqEqual
<1> QED
    BY <1>1, <1>7, <1>8, <1>9, <1>10 DEF before, upto

LEMMA CandidateRestoredCoordinated ==
    ASSUME HostInv, KP!SnapshotInv', NEW index \in DOMAIN journal, NEW hasError \in BOOLEAN, CandidateRestored(index, hasError)
    PROVE  Coordinated'
<1> USE DEF HostInv, Coordinated, At, HasActive, HasCandidate
<1> DEFINE t == candidate.token
           q == Asking(t, "RestoreJournal", index)
           next == Asking(t, "RestoreJournal", index + 1)
           proceeds == ~ hasError /\ index < Len(journal) /\ Running(t)
<1>a. /\ phase' = phase /\ InFlight' = InFlight
      /\ host.at = "Idle" /\ HasCandidate /\ q \in internal
      /\ internal' = IF proceeds THEN (internal \ {q}) \cup {next} ELSE internal \ {q}
      /\ candidate' = IF proceeds THEN [candidate EXCEPT !.deadline = TRUE] ELSE candidate
      /\ workers' = IF hasError THEN workers
                     ELSE [workers EXCEPT ![t].applied = Applying(journal[index], @)]
      /\ UNCHANGED <<active, rollover, recoveryRelease, published, journal, sealed>>
    BY KernelUntouched DEF CandidateRestored, Answers, Emits, releaseVars, journalVars
<1>b. host'.at = IF proceeds THEN "Idle"
                 ELSE IF ~ hasError /\ index >= Len(journal) THEN "Activate" ELSE "Reject"
    BY DEF CandidateRestored, Go
<1>c. candidate.stage = "Restoring" /\ \A r \in internal \ {q} : r.worker # t
    <2>1. candidate.stage = "Restoring"
        BY <1>a, OnlyRequest, ExpectedOf, RoleParts DEF InternalActions, Stages
    <2> QED
        BY <1>a, <2>1, OnlyRequest DEF InternalActions
<1>d. candidate'.token = t /\ candidate'.purpose = candidate.purpose /\ candidate'.stage = "Restoring"
      /\ proceeds => candidate'.deadline = TRUE
    BY <1>a, <1>c DEF Typed, RoleTypes, RolesTyped
<1>e. /\ q.worker = t /\ q.action = "RestoreJournal" /\ q.index = index
      /\ next.worker = t /\ next.action = "RestoreJournal" /\ next.index = index + 1
    BY DEF Asking
<1> HIDE DEF q, next
<1>f. /\ t \in Tokens /\ t # active
      /\ workers[t] \in WorkerState /\ workers[t].applied = SubSeq(journal, 1, index - 1)
      /\ rollover = "Draining" /\ InFlight = {} /\ ~ sealed /\ phase = "Live"
    BY <1>a, <1>c, <1>e, RoleParts DEF Processes, SameSession, Fences, Quiescence,
        Typed, RoleTypes, WorkersTyped
<1>g. /\ Applying(journal[index], workers[t].applied) = SubSeq(journal, 1, index)
      /\ SubSeq(journal, 1, Len(journal)) = journal
      /\ Len(journal) \in Nat /\ index \in 1..Len(journal) /\ DOMAIN journal = 1..Len(journal)
    BY <1>f, PrefixGrows DEF Typed, RoleTypes
<1>h. /\ \A u \in Tokens :
            /\ workers'[u].status = workers[u].status /\ workers'[u].owes = workers[u].owes
            /\ workers'[u].release = workers[u].release
            /\ u # t => workers'[u].applied = workers[u].applied
      /\ ~ hasError => workers'[t].applied = SubSeq(journal, 1, index)
    <2>1. CASE hasError
        BY <1>a, <2>1
    <2>2. CASE ~ hasError
        <3> DEFINE s == Applying(journal[index], workers[t].applied)
        <3>1. workers' = [workers EXCEPT ![t].applied = s]
            BY <1>a, <1>f, <2>2 DEF Typed, RoleTypes, WorkersTyped
        <3>2. s \in Sessions
            BY <1>f, <1>g, ApplyingSession, ElementOfSeq DEF WorkerState, Typed,
                RoleTypes, JournalTyped, Sessions
        <3>3. s = SubSeq(journal, 1, index)
            BY <1>g
        <3> HIDE DEF s
        <3> QED
            BY <1>f, <3>1, <3>2, <3>3, AppliedTyped DEF Typed, RoleTypes
    <2> QED
        BY <2>1, <2>2
<1>i. /\ proceeds => ~ hasError /\ index < Len(journal)
      /\ DOMAIN journal = 1..Len(journal) /\ (host'.at = "Activate" => ~ hasError /\ index = Len(journal))
    BY <1>b, <1>g
<1>j. index + 1 - 1 = index /\ (proceeds => index + 1 \in DOMAIN journal)
    BY <1>g, <1>i
<1> HIDE DEF proceeds
<1>1. Processes'
    BY <1>a, <1>b, <1>c, <1>d, <1>e, <1>f, <1>h, RoleParts, ExpectedOf DEF Processes
<1>2. Fences'
    BY <1>a, <1>b, <1>c, <1>d, <1>e, <1>f, <1>h, RoleParts, ExpectedOf DEF Fences,
        FenceHasCause
<1>3. FenceHasCause'
    BY <1>a, <1>b, <1>c, <1>d, <1>e, <1>f, <1>h, RoleParts, ExpectedOf
        DEF FenceHasCause, Fences
<1>4. Owners'
    BY <1>a, <1>b, <1>c, <1>d, <1>e, <1>f, <1>h, RoleParts, ExpectedOf DEF Owners,
        Fences, FenceHasCause
<1>5. Conversation'
    BY <1>a, <1>b, <1>c, <1>d, <1>e, <1>f, <1>h, RoleParts, ExpectedOf DEF Conversation,
        Owners, Fences
<1>6. GenerationPinned'
    BY <1>a, <1>b, <1>c, <1>d, <1>e, <1>f, <1>h, RoleParts, ExpectedOf
        DEF GenerationPinned
<1>7. Quiescence'
    BY <1>a, <1>b, <1>c, <1>d, <1>e, <1>f, <1>h, RoleParts, ExpectedOf DEF Quiescence,
        Fences
<1>8. CatalogCoherence'
    BY <1>a, <1>b, <1>c, <1>d, <1>e, <1>f, <1>h, RoleParts, ExpectedOf
        DEF CatalogCoherence
<1>9. SameSession'
    BY <1>a, <1>b, <1>c, <1>d, <1>e, <1>f, <1>g, <1>h, <1>i, <1>j, RoleParts
        DEF SameSession
<1> QED
    BY <1>1, <1>2, <1>3, <1>4, <1>5, <1>6, <1>7, <1>8, <1>9

LEMMA TryBeginRestoreCoordinated ==
    ASSUME HostInv, KP!SnapshotInv', TryBeginRestore
    PROVE  Coordinated'
<1> USE DEF HostInv, Coordinated, At, HasActive, HasCandidate
<1> DEFINE t == candidate.token
           q == Asking(t, "RestoreJournal", 1)
           quiescent == /\ rollover = "Draining"
                        /\ ~ HasInFlightDispatches
                        /\ ActiveCallbacks = {}
           restores == quiescent /\ ~ sealed /\ journal # <<>> /\ HasCandidate
<1>a. /\ host.at = "TryBeginRestore"
      /\ UNCHANGED <<active, rollover, workers, recoveryRelease, published, journal,
                     sealed>>
      /\ phase' = phase /\ InFlight' = InFlight
    BY KernelUntouched DEF TryBeginRestore, releaseVars, publicVars, journalVars
<1>b. IF restores
      THEN /\ candidate' = [candidate EXCEPT !.stage = "Restoring", !.deadline = TRUE]
           /\ internal' = internal \cup {q}
           /\ host'.at \in {"Idle", "FailedRestore"}
      ELSE /\ UNCHANGED <<candidate, internal>>
           /\ host'.at \in {"Idle", "Reject", "Activate"}
           /\ host'.at = "Activate" => quiescent /\ ~ sealed /\ journal = <<>> /\ HasCandidate
    <2>1. CASE restores
        BY <2>1 DEF TryBeginRestore, Go
    <2>2. CASE ~ restores
        BY <2>2 DEF TryBeginRestore, Go
    <2> QED
        BY <2>1, <2>2
<1>c. quiescent => rollover = "Draining" /\ InFlight = {}
    BY DEF HasInFlightDispatches, InFlight
<1>d. HasCandidate /\ quiescent =>
        /\ candidate.stage = "Ready" /\ workers[t].applied = <<>>
        /\ \A r \in internal : r.worker # t
        /\ phase = "Live"
    <2>1. HasCandidate /\ quiescent => candidate.stage = "Ready"
        BY <1>a, <1>c, RoleParts DEF Fences, Conversation, Stages
    <2> QED
        BY <2>1, ExpectedOf DEF Owners, SameSession, Processes
<1>e. q.worker = t /\ q.action = "RestoreJournal" /\ q.index = 1
    BY DEF Asking
<1>f. restores => candidate'.token = t /\ candidate'.purpose = candidate.purpose
                    /\ candidate'.stage = "Restoring" /\ candidate'.deadline = TRUE
    BY <1>b DEF Typed, RoleTypes, RolesTyped
<1>g. journal # <<>> => 1 \in DOMAIN journal /\ SubSeq(journal, 1, 1 - 1) = <<>>
    <2>1. journal \in Seq(Tools)
        BY DEF Typed, RoleTypes, JournalTyped, Sessions
    <2>2. journal # <<>> => 1 \in DOMAIN journal
        BY <2>1, EmptySeq, LenProperties
    <2> QED
        BY <2>2, PrefixGrows DEF Typed, RoleTypes
<1>h. restores => quiescent /\ ~ sealed /\ journal # <<>> /\ HasCandidate
    OBVIOUS
<1> HIDE DEF q, quiescent, restores
<1>1. Processes'
    BY <1>a, <1>b, <1>c, <1>d, <1>e, <1>f, <1>h, RoleParts, ExpectedOf DEF Processes
<1>2. Fences'
    BY <1>a, <1>b, <1>c, <1>d, <1>e, <1>f, <1>h, RoleParts, ExpectedOf DEF Fences,
        FenceHasCause
<1>3. FenceHasCause'
    BY <1>a, <1>b, <1>c, <1>d, <1>e, <1>f, <1>h, RoleParts, ExpectedOf
        DEF FenceHasCause, Fences
<1>4. Owners'
    BY <1>a, <1>b, <1>c, <1>d, <1>e, <1>f, <1>h, RoleParts, ExpectedOf DEF Owners,
        Fences, FenceHasCause
<1>5. Conversation'
    BY <1>a, <1>b, <1>c, <1>d, <1>e, <1>f, <1>h, RoleParts, ExpectedOf DEF Conversation,
        Owners, Fences
<1>6. GenerationPinned'
    BY <1>a, <1>b, <1>c, <1>d, <1>e, <1>f, <1>h, RoleParts, ExpectedOf
        DEF GenerationPinned
<1>7. Quiescence'
    BY <1>a, <1>b, <1>c, <1>d, <1>e, <1>f, <1>h, RoleParts, ExpectedOf DEF Quiescence,
        Fences
<1>8. CatalogCoherence'
    BY <1>a, <1>b, <1>c, <1>d, <1>e, <1>f, <1>h, RoleParts, ExpectedOf
        DEF CatalogCoherence
<1>9. SameSession'
    <2>1. CASE restores
        <3>1. \A r \in internal' : r.action = "RestoreJournal" =>
                r.index \in DOMAIN journal /\ workers[r.worker].applied = SubSeq(journal, 1, r.index - 1)
            <4>1. q.index \in DOMAIN journal /\ workers[q.worker].applied = SubSeq(journal, 1, q.index - 1)
                BY <1>d, <1>e, <1>g, <1>h, <2>1
            <4>2. \A r \in internal : r.action = "RestoreJournal" =>
                    r.index \in DOMAIN journal /\ workers[r.worker].applied = SubSeq(journal, 1, r.index - 1)
                BY DEF SameSession
            <4> QED
                BY <1>b, <2>1, <4>1, <4>2
        <3> QED
            BY <1>a, <1>b, <1>d, <1>e, <1>f, <1>h, <2>1, <3>1 DEF SameSession
    <2>2. CASE ~ restores
        BY <1>a, <1>b, <1>d, <2>2 DEF SameSession
    <2> QED
        BY <2>1, <2>2
<1> QED
    BY <1>1, <1>2, <1>3, <1>4, <1>5, <1>6, <1>7, <1>8, <1>9

LEMMA ActivateCandidateCoordinated ==
    ASSUME HostInv, KP!SnapshotInv', ActivateCandidate
    PROVE  Coordinated'
<1> USE DEF HostInv, Coordinated, At, HasActive, HasCandidate
<1> DEFINE t == candidate.token
<1>a. /\ host.at = "Activate" /\ HasCandidate
      /\ active' = t /\ candidate' = NoCandidate /\ rollover' = "None"
      /\ recoveryRelease' = workers[t].release /\ published' = CandidateCatalog
      /\ UNCHANGED <<internal, journal, sealed>>
      /\ phase' = phase /\ InFlight' = InFlight
    BY KernelUntouched DEF ActivateCandidate, PhaseActivated, journalVars
<1>b. host'.at \in {"Flush", "FailedCatalog"}
    BY DEF ActivateCandidate, Go
<1>c. t \in Tokens /\ t # active /\ t # NoWorker
    BY <1>a, RoleParts DEF Processes
<1>d. \A u \in Tokens : workers'[u] = IF u = active THEN Retired ELSE workers[u]
    BY ReapTyped DEF ActivateCandidate, Typed, RoleTypes
<1>e. Retired.owes = {}
    BY DEF Retired
<1>f. candidate'.token = NoWorker
    BY <1>a DEF NoCandidate, Candidate
<1>g. internal = {}
    <2>1. \A r \in internal : r.worker # t
        BY <1>a DEF Conversation
    <2>2. \A r \in internal : r.worker = active /\ published = NoCatalog /\ r.worker \in Tokens
        BY <2>1, RoleParts DEF Owners
    <2>3. \A r \in internal : HasActive
        BY <2>2, RolesAssumption
    <2> QED
        BY <1>a, <2>2, <2>3 DEF Fences
<1>i. InFlight = {}
    BY <1>a DEF Quiescence
<1>h. published' # NoCatalog => published' = CatalogOf[workers[t].release] /\ candidate.stage # "Initializing"
    BY <1>a DEF CandidateCatalog
<1>1. Processes'
    BY <1>a, <1>b, <1>c, <1>d, <1>e, <1>f, <1>g, <1>h, <1>i, RoleParts, ExpectedOf
        DEF Processes
<1>2. Fences'
    BY <1>a, <1>b, <1>c, <1>d, <1>e, <1>f, <1>g, <1>h, <1>i, RoleParts, ExpectedOf
        DEF Fences, FenceHasCause
<1>3. FenceHasCause'
    BY <1>a, <1>b, <1>c, <1>d, <1>e, <1>f, <1>g, <1>h, <1>i, RoleParts, ExpectedOf
        DEF FenceHasCause, Fences
<1>4. Owners'
    BY <1>a, <1>b, <1>c, <1>d, <1>e, <1>f, <1>g, <1>h, <1>i, RoleParts, ExpectedOf
        DEF Owners, Fences, FenceHasCause
<1>5. Conversation'
    BY <1>a, <1>b, <1>c, <1>d, <1>e, <1>f, <1>g, <1>h, <1>i, RoleParts, ExpectedOf
        DEF Conversation, Owners, Fences
<1>6. GenerationPinned'
    BY <1>a, <1>b, <1>c, <1>d, <1>e, <1>f, <1>g, <1>h, <1>i, RoleParts, ExpectedOf
        DEF GenerationPinned
<1>7. Quiescence'
    BY <1>a, <1>b, <1>c, <1>d, <1>e, <1>f, <1>g, <1>h, <1>i, RoleParts, ExpectedOf
        DEF Quiescence, Fences
<1>8. CatalogCoherence'
    BY <1>a, <1>b, <1>c, <1>d, <1>e, <1>f, <1>g, <1>h, <1>i, RoleParts, ExpectedOf
        DEF CatalogCoherence
<1>9. SameSession'
    BY <1>a, <1>b, <1>c, <1>d, <1>e, <1>f, <1>g, <1>h, <1>i, RoleParts, ExpectedOf
        DEF SameSession
<1> QED
    BY <1>1, <1>2, <1>3, <1>4, <1>5, <1>6, <1>7, <1>8, <1>9

LEMMA RejectCandidateCoordinated ==
    ASSUME HostInv, KP!SnapshotInv', RejectCandidate
    PROVE  Coordinated'
<1> USE DEF HostInv, Coordinated, At, HasActive, HasCandidate
<1> DEFINE t == candidate.token
<1>a. /\ host.at = "Reject" /\ candidate' = NoCandidate /\ internal' = Disowned(t)
      /\ UNCHANGED <<active, recoveryRelease, published, journal, sealed>>
      /\ phase' = phase /\ InFlight' = InFlight
      /\ IF HasActive THEN rollover' = "None" ELSE rollover' = rollover
    BY KernelUntouched DEF RejectCandidate, journalVars
<1>b. host'.at = IF HasActive THEN "Flush" ELSE "Idle"
    BY DEF RejectCandidate, Go
<1>c. candidate'.token = NoWorker
    BY <1>a DEF NoCandidate, Candidate
<1>d. \A u \in Tokens : workers'[u] = IF u = t THEN Retired ELSE workers[u]
    BY ReapTyped DEF RejectCandidate, Typed, RoleTypes
<1>e. Retired.owes = {}
    BY DEF Retired
<1>f. \A r \in internal' :
        /\ r \in internal /\ r.worker = active /\ r.worker \in Tokens /\ r.action = "ActiveCatalog"
        /\ published = NoCatalog
    <2>1. \A r \in internal' : r \in internal /\ r.worker # t
        BY <1>a DEF Disowned, InternalOf
    <2> QED
        BY <2>1, RoleParts DEF Owners
<1>g. active \in Tokens \cup {NoWorker} /\ (active \in Tokens => active # t)
    BY RolesAssumption DEF Processes, Typed, RoleTypes, RolesTyped
<1>1. Processes'
    BY <1>a, <1>b, <1>c, <1>d, <1>e, <1>f, <1>g, RolesAssumption, RoleParts,
        ExpectedOf DEF Processes
<1>2. Fences'
    BY <1>a, <1>b, <1>c, <1>d, <1>e, <1>f, <1>g, RolesAssumption, RoleParts,
        ExpectedOf DEF Fences, FenceHasCause
<1>3. FenceHasCause'
    BY <1>a, <1>b, <1>c, <1>d, <1>e, <1>f, <1>g, RolesAssumption, RoleParts,
        ExpectedOf DEF FenceHasCause, Fences
<1>4. Owners'
    BY <1>a, <1>b, <1>c, <1>d, <1>e, <1>f, <1>g, RolesAssumption, RoleParts,
        ExpectedOf DEF Owners, Fences, FenceHasCause
<1>5. Conversation'
    BY <1>a, <1>b, <1>c, <1>d, <1>e, <1>f, <1>g, RolesAssumption, RoleParts,
        ExpectedOf DEF Conversation, Owners, Fences
<1>6. GenerationPinned'
    BY <1>a, <1>b, <1>c, <1>d, <1>e, <1>f, <1>g, RolesAssumption, RoleParts,
        ExpectedOf DEF GenerationPinned
<1>7. Quiescence'
    BY <1>a, <1>b, <1>c, <1>d, <1>e, <1>f, <1>g, RolesAssumption, RoleParts,
        ExpectedOf DEF Quiescence, Fences
<1>8. CatalogCoherence'
    BY <1>a, <1>b, <1>c, <1>d, <1>e, <1>f, <1>g, RolesAssumption, RoleParts,
        ExpectedOf DEF CatalogCoherence
<1>9. SameSession'
    BY <1>a, <1>b, <1>c, <1>d, <1>e, <1>f, <1>g, RolesAssumption, RoleParts,
        ExpectedOf DEF SameSession
<1> QED
    BY <1>1, <1>2, <1>3, <1>4, <1>5, <1>6, <1>7, <1>8, <1>9

LEMMA LoseActiveCoordinated ==
    ASSUME HostInv, KP!SnapshotInv', LoseActive
    PROVE  Coordinated'
<1> USE DEF HostInv, Coordinated, At, HasActive, HasCandidate
<1>a. /\ active' = NoWorker /\ candidate' = NoCandidate /\ internal' = {} /\ rollover' = "Recovering"
      /\ UNCHANGED <<recoveryRelease, published, journal, sealed>>
    BY DEF LoseActive, releaseVars, publicVars, journalVars
<1>b. phase' = phase /\ InFlight' = {}
    BY HostRequeues DEF LoseActive, Typed
<1>c. host'.at = "Idle" /\ candidate'.token = NoWorker
    BY <1>a DEF LoseActive, Go, NoCandidate, Candidate
<1>d. \A u \in Tokens : workers'[u].owes = {}
    <2>1. \A u \in Tokens : workers'[u] = IF u \in {active, candidate.token} THEN Retired ELSE workers[u]
        BY ReapTyped DEF LoseActive, Typed, RoleTypes
    <2> QED
        BY <2>1 DEF GenerationPinned, Retired
<1>1. Processes'
    BY <1>a, <1>b, <1>c, <1>d, RoleParts, ExpectedOf DEF Processes
<1>2. Fences'
    BY <1>a, <1>b, <1>c, <1>d, RoleParts, ExpectedOf DEF Fences, FenceHasCause
<1>3. FenceHasCause'
    BY <1>a, <1>b, <1>c, <1>d, RoleParts, ExpectedOf DEF FenceHasCause, Fences
<1>4. Owners'
    BY <1>a, <1>b, <1>c, <1>d, RoleParts, ExpectedOf DEF Owners, Fences, FenceHasCause
<1>5. Conversation'
    BY <1>a, <1>b, <1>c, <1>d, RoleParts, ExpectedOf DEF Conversation, Owners, Fences
<1>6. GenerationPinned'
    BY <1>a, <1>b, <1>c, <1>d, RoleParts, ExpectedOf DEF GenerationPinned
<1>7. Quiescence'
    BY <1>a, <1>b, <1>c, <1>d, RoleParts, ExpectedOf DEF Quiescence, Fences
<1>8. CatalogCoherence'
    BY <1>a, <1>b, <1>c, <1>d, RoleParts, ExpectedOf DEF CatalogCoherence
<1>9. SameSession'
    BY <1>a, <1>b, <1>c, <1>d, RoleParts, ExpectedOf DEF SameSession
<1> QED
    BY <1>1, <1>2, <1>3, <1>4, <1>5, <1>6, <1>7, <1>8, <1>9

\* A process is spawned for a candidate.
LEMMA LaunchedCoordinated ==
    ASSUME HostInv, NEW t \in Tokens, NEW release \in Releases, NEW purpose \in Purposes,
           Launches(t, release, purpose), host.at = "Idle", host' = host, ~ HasCandidate,
           UNCHANGED <<active, rollover, recoveryRelease, published, journal, sealed>>,
           phase' = phase, InFlight' = InFlight,
           phase \in {"AwaitingInitialized", "Live"},
           purpose = "Recovery" <=> ~ HasActive,
           rollover = IF HasActive THEN "None" ELSE "Recovering",
           HasActive => phase = "Live" /\ published # NoCatalog
    PROVE  Coordinated'
<1> USE DEF HostInv, Coordinated, At, HasActive, HasCandidate
<1> DEFINE q == Asking(t, "CandidateInitialize", 0)
<1>a. /\ workers[t].status = "retired" /\ workers' = [workers EXCEPT ![t] = Spawned(release)]
      /\ candidate' = Candidate(t, purpose) /\ internal' = internal \cup {q}
    BY DEF Launches
<1>b. /\ \A u \in Tokens \ {t} : workers'[u] = workers[u]
      /\ workers'[t].status = "running" /\ workers'[t].owes = {}
      /\ workers'[t].release = release /\ workers'[t].applied = <<>>
    BY <1>a, SpawnTyped DEF Typed, RoleTypes
<1>c. /\ candidate'.token = t /\ candidate'.purpose = purpose
      /\ candidate'.stage = "Initializing" /\ candidate'.deadline = TRUE
    BY <1>a, RolesAssumption DEF Candidate
<1>d. q.worker = t /\ q.action = "CandidateInitialize" /\ q.index = 0
    BY DEF Asking
<1>e. \A r \in internal : /\ r.worker = active /\ r.worker \in Tokens /\ r.action = "ActiveCatalog"
                          /\ published = NoCatalog /\ r.index = 0
    BY RoleParts, RolesAssumption DEF Owners
<1>f. t # active /\ t # NoWorker
    BY <1>a, RolesAssumption DEF Processes
<1> HIDE DEF q
<1>1. Processes'
    BY <1>a, <1>b, <1>c, <1>d, <1>e, <1>f, RolesAssumption, RoleParts, ExpectedOf
        DEF Processes
<1>2. Fences'
    BY <1>a, <1>b, <1>c, <1>d, <1>e, <1>f, RolesAssumption, RoleParts, ExpectedOf
        DEF Fences, FenceHasCause
<1>3. FenceHasCause'
    BY <1>a, <1>b, <1>c, <1>d, <1>e, <1>f, RolesAssumption, RoleParts, ExpectedOf
        DEF FenceHasCause, Fences
<1>4. Owners'
    BY <1>a, <1>b, <1>c, <1>d, <1>e, <1>f, RolesAssumption, RoleParts, ExpectedOf
        DEF Owners, Fences, FenceHasCause
<1>5. Conversation'
    BY <1>a, <1>b, <1>c, <1>d, <1>e, <1>f, RolesAssumption, RoleParts, ExpectedOf
        DEF Conversation, Owners, Fences
<1>6. GenerationPinned'
    BY <1>a, <1>b, <1>c, <1>d, <1>e, <1>f, RolesAssumption, RoleParts, ExpectedOf
        DEF GenerationPinned
<1>7. Quiescence'
    BY <1>a, <1>b, <1>c, <1>d, <1>e, <1>f, RolesAssumption, RoleParts, ExpectedOf
        DEF Quiescence, Fences
<1>8. CatalogCoherence'
    BY <1>a, <1>b, <1>c, <1>d, <1>e, <1>f, RolesAssumption, RoleParts, ExpectedOf
        DEF CatalogCoherence
<1>9. SameSession'
    BY <1>a, <1>b, <1>c, <1>d, <1>e, <1>f, RolesAssumption, RoleParts, ExpectedOf
        DEF SameSession
<1> QED
    BY <1>1, <1>2, <1>3, <1>4, <1>5, <1>6, <1>7, <1>8, <1>9

LEMMA StartRolloverCoordinated ==
    ASSUME HostInv, KP!SnapshotInv', NEW t \in Tokens, StartRollover(t)
    PROVE  Coordinated'
<1>1. phase' = phase /\ InFlight' = InFlight
    BY KernelUntouched DEF StartRollover
<1>2. /\ Launches(t, channel, "Rollover") /\ host.at = "Idle" /\ host' = host /\ ~ HasCandidate
      /\ UNCHANGED <<active, rollover, recoveryRelease, published, journal, sealed>>
      /\ phase = "Live" /\ HasActive /\ published # NoCatalog /\ rollover = "None"
    BY DEF StartRollover, ObservesNewRelease, At, roleVars, releaseVars, publicVars,
        journalVars, vars
<1>3. channel \in Releases
    BY DEF HostInv, Typed, RoleTypes, ReleasesTyped
<1> QED
    BY <1>1, <1>2, <1>3, LaunchedCoordinated DEF Purposes

\* Before the public session is initialized a new worker serves at once.
LEMMA ServedCoordinated ==
    ASSUME HostInv, KP!SnapshotInv', NEW t \in Tokens, StartRecovery(t),
           phase \in {"Cold", "Initializing"}
    PROVE  Coordinated'
<1> USE DEF HostInv, Coordinated, At, HasActive, HasCandidate
<1>a. /\ host.at = "Idle" /\ ~ HasCandidate /\ active = NoWorker
      /\ workers[t].status = "retired" /\ workers' = [workers EXCEPT ![t] = Spawned(recoveryRelease)]
      /\ active' = t /\ rollover' = "None"
      /\ UNCHANGED <<candidate, internal, recoveryRelease, published, journal, sealed>>
      /\ phase' = phase /\ InFlight' = InFlight
    BY KernelUntouched DEF StartRecovery, releaseVars, publicVars, journalVars,
        FenceHasCause
<1>b. host'.at = "Flush"
    BY DEF StartRecovery, Typed, RoleTypes, HostTyped
<1>c. /\ \A u \in Tokens \ {t} : workers'[u] = workers[u]
      /\ workers'[t].status = "running" /\ workers'[t].owes = {}
      /\ workers'[t].release = recoveryRelease /\ workers'[t].applied = <<>>
    BY <1>a, SpawnTyped DEF Typed, RoleTypes, ReleasesTyped
<1>d. internal = {} /\ t # NoWorker
    BY <1>a, RoleParts, RolesAssumption DEF Owners
<1>1. Processes'
    BY <1>a, <1>b, <1>c, <1>d, RolesAssumption, RoleParts, ExpectedOf DEF Processes
<1>2. Fences'
    BY <1>a, <1>b, <1>c, <1>d, RolesAssumption, RoleParts, ExpectedOf DEF Fences,
        FenceHasCause
<1>3. FenceHasCause'
    BY <1>a, <1>b, <1>c, <1>d, RolesAssumption, RoleParts, ExpectedOf DEF FenceHasCause,
        Fences
<1>4. Owners'
    BY <1>a, <1>b, <1>c, <1>d, RolesAssumption, RoleParts, ExpectedOf DEF Owners,
        Fences, FenceHasCause
<1>5. Conversation'
    BY <1>a, <1>b, <1>c, <1>d, RolesAssumption, RoleParts, ExpectedOf DEF Conversation,
        Owners, Fences
<1>6. GenerationPinned'
    BY <1>a, <1>b, <1>c, <1>d, RolesAssumption, RoleParts, ExpectedOf,
        ZenonT(30) DEF GenerationPinned
<1>7. Quiescence'
    BY <1>a, <1>b, <1>c, <1>d, RolesAssumption, RoleParts, ExpectedOf DEF Quiescence,
        Fences
<1>8. CatalogCoherence'
    BY <1>a, <1>b, <1>c, <1>d, RolesAssumption, RoleParts, ExpectedOf
        DEF CatalogCoherence
<1>9. SameSession'
    BY <1>a, <1>b, <1>c, <1>d, RolesAssumption, RoleParts, ExpectedOf DEF SameSession
<1> QED
    BY <1>1, <1>2, <1>3, <1>4, <1>5, <1>6, <1>7, <1>8, <1>9

LEMMA StartRecoveryCoordinated ==
    ASSUME HostInv, KP!SnapshotInv', NEW t \in Tokens, StartRecovery(t)
    PROVE  Coordinated'
<1>1. CASE phase \in {"Cold", "Initializing"}
    BY <1>1, ServedCoordinated
<1>2. CASE phase \notin {"Cold", "Initializing"}
    <2>1. phase' = phase /\ InFlight' = InFlight
        BY KernelUntouched DEF StartRecovery
    <2>2. /\ Launches(t, recoveryRelease, "Recovery") /\ host.at = "Idle" /\ host' = host /\ ~ HasCandidate
          /\ UNCHANGED <<active, rollover, recoveryRelease, published, journal, sealed>>
          /\ rollover = "Recovering"
        BY <1>2 DEF StartRecovery, At, roleVars, releaseVars, publicVars, journalVars,
            vars
    <2>3. ~ HasActive
        BY <2>2 DEF HostInv, Coordinated, FenceHasCause, At
    <2>4. recoveryRelease \in Releases /\ phase \in {"AwaitingInitialized", "Live"}
        BY <1>2, RoleParts DEF HostInv, Typed, RoleTypes, ReleasesTyped, K!Phases
    <2> QED
        BY <2>1, <2>2, <2>3, <2>4, LaunchedCoordinated DEF Purposes
<1> QED
    BY <1>1, <1>2

\* What the answer leaves of the workers.
LEMMA RespondedParts ==
    ASSUME Typed, NEW id \in Ids, NEW hasError \in BOOLEAN, ActiveResponds(id, hasError)
    PROVE  LET f == pending[id].frame
               moves == ~ hasError /\ Journals(f)
           IN /\ \A u \in Tokens \ {active} : workers'[u] = workers[u]
              /\ workers'[active].status = workers[active].status
              /\ workers'[active].owes = workers[active].owes \ {id}
              /\ workers'[active].release = workers[active].release
              /\ workers'[active].applied =
                    IF moves THEN Applying(f.body.tool, workers[active].applied) ELSE workers[active].applied
<1> DEFINE f == pending[id].frame
           moves == ~ hasError /\ Journals(f)
           s == IF moves THEN Applying(f.body.tool, workers[active].applied) ELSE workers[active].applied
<1>1. active \in Tokens /\ workers[active] \in WorkerState /\ WorkersTyped
    BY DEF ActiveResponds, Emits, Typed, RoleTypes, RolesTyped, WorkersTyped
<1>2. f.body.tool \in Tools
    BY PendingFrames DEF ActiveResponds, K!CompleteResponse, Typed, Tools
<1>3. workers' = [workers EXCEPT ![active].owes = workers[active].owes \ {id}, ![active].applied = s]
    <2>1. workers' = [workers EXCEPT ![active].owes = @ \ {id},
                        ![active].applied = IF moves THEN Applying(f.body.tool, @) ELSE @]
        BY DEF ActiveResponds
    <2> HIDE DEF f, moves
    <2> QED
        BY <1>1, <2>1 DEF WorkersTyped
<1> HIDE DEF f, moves
<1>4. s \in Sessions /\ workers[active].owes \ {id} \in SUBSET Ids
    BY <1>1, <1>2, ApplyingSession DEF WorkerState
<1> DEFINE owed == workers[active].owes \ {id}
<1>a. owed \in SUBSET Ids /\ workers' = [workers EXCEPT ![active].owes = owed, ![active].applied = s]
    BY <1>3, <1>4
<1> HIDE DEF s, owed
<1>5. /\ \A u \in Tokens \ {active} : workers'[u] = workers[u]
      /\ workers'[active].status = workers[active].status
      /\ workers'[active].owes = owed
      /\ workers'[active].release = workers[active].release
      /\ workers'[active].applied = s
    <2>1. /\ workers'[active] = [workers[active] EXCEPT !.owes = owed, !.applied = s]
          /\ \A u \in Tokens \ {active} : workers'[u] = workers[u]
        BY <1>1, <1>a DEF WorkersTyped
    <2> DEFINE w == workers[active]
               v == [w EXCEPT !.owes = owed, !.applied = s]
    <2>2. v.status = w.status /\ v.owes = owed /\ v.release = w.release /\ v.applied = s
        BY <1>1 DEF WorkerState
    <2> QED
        BY <2>1, <2>2
<1> QED
    BY <1>5 DEF s, f, moves, owed

LEMMA ActiveRespondsCoordinated ==
    ASSUME HostInv, KP!SnapshotInv', NEW id \in Ids, NEW hasError \in BOOLEAN, ActiveResponds(id, hasError)
    PROVE  Coordinated'
<1> USE DEF HostInv, Coordinated, At, HasActive, HasCandidate
<1> DEFINE f == pending[id].frame
           moves == ~ hasError /\ Journals(f)
<1>a. /\ host.at = "Idle" /\ HasActive /\ active \in Tokens /\ id \in workers[active].owes
      /\ UNCHANGED <<active, candidate, rollover, internal, recoveryRelease, published>>
      /\ workers' = [workers EXCEPT ![active].owes = @ \ {id},
                        ![active].applied = IF moves THEN Applying(f.body.tool, @) ELSE @]
      /\ IF hasError THEN UNCHANGED journalVars ELSE RecordSessionTransition(f)
    BY RoleParts DEF ActiveResponds, Emits, roleVars, releaseVars, publicVars
<1>b. host'.at = "TryBeginRestore"
    BY DEF ActiveResponds, Go
<1>c. /\ id \in DOMAIN pending /\ InFlight' = InFlight \ {id}
      /\ phase' = phase \/ phase = "Initializing"
    BY HostCompletes DEF ActiveResponds, Typed
<1>d. f \in Frames /\ f.body.tool \in Tools /\ workers[active] \in WorkerState /\ JournalTyped
    BY <1>a, <1>c, PendingFrames DEF Typed, RoleTypes, WorkersTyped, Tools
<1>e. HasCandidate => candidate.stage # "Restoring"
    BY <1>a DEF GenerationPinned, Quiescence
<1>f. \A r \in internal : r.action # "RestoreJournal"
    BY <1>a, <1>e, RoleParts, RolesAssumption, ExpectedOf DEF Owners, Stages
<1>g. /\ \A u \in Tokens \ {active} : workers'[u] = workers[u]
      /\ workers'[active].status = workers[active].status
      /\ workers'[active].owes = workers[active].owes \ {id}
      /\ workers'[active].release = workers[active].release
      /\ workers'[active].applied =
            IF moves THEN Applying(f.body.tool, workers[active].applied) ELSE workers[active].applied
    BY <1>a, RespondedParts DEF f, moves, Typed
<1> HIDE DEF f
<1>h. ContractFor(f).state # "Stateless" => published # NoCatalog /\ phase = "Live"
    <2>1. ContractFor(f).state # "Stateless" => published # NoCatalog
        BY DEF ContractFor, Uncontracted
    <2> QED
        BY <2>1 DEF SameSession
<1>i. /\ ~ sealed' => ~ sealed /\ journal' = IF moves THEN Applying(f.body.tool, journal) ELSE journal
      /\ journal' # journal => ContractFor(f).state # "Stateless"
    <2>1. CASE hasError
        BY <1>a, <2>1 DEF journalVars
    <2>2. CASE ~ hasError /\ ContractFor(f).state = "Stateless"
        <3>1. RecordSessionTransition(f) /\ ContractFor(f).state = "Stateless" /\ ~ Journals(f)
            BY <1>a, <2>2 DEF Journals
        <3> QED
            BY <3>1 DEF RecordSessionTransition, journalVars
    <2>3. CASE ~ hasError /\ ContractFor(f).state # "Stateless" /\ Journals(f)
        <3>1. RecordTransition(f.body.tool)
            BY <1>a, <2>3 DEF RecordSessionTransition
        <3> QED
            BY <1>d, <2>3, <3>1, RecordTyped
    <2>4. CASE ~ hasError /\ ContractFor(f).state # "Stateless" /\ ~ Journals(f)
        BY <1>a, <2>4 DEF RecordSessionTransition
    <2> QED
        BY <2>1, <2>2, <2>3, <2>4
<1> HIDE DEF moves
<1>1. Processes'
    <2>1. \A u \in Tokens : workers'[u].status = workers[u].status
        BY <1>g
    <2> QED
        BY <1>a, <2>1, RoleParts DEF Processes
<1>2. Fences'
    BY <1>a, <1>b, <1>c, <1>e DEF Fences
<1>3. FenceHasCause'
    BY <1>a, <1>b, <1>c, <1>e, <1>f, <1>g, RoleParts, ExpectedOf DEF FenceHasCause,
        Fences
<1>4. Owners'
    BY <1>a, <1>b, <1>c, <1>e, <1>f, <1>g, RoleParts, ExpectedOf DEF Owners, Fences,
        FenceHasCause
<1>5. Conversation'
    BY <1>a, <1>b, <1>c, <1>e, <1>f, <1>g, RoleParts, ExpectedOf DEF Conversation,
        Owners, Fences
<1>6. GenerationPinned'
    BY <1>a, <1>b, <1>c, <1>e, <1>f, <1>g, RoleParts, ExpectedOf DEF GenerationPinned
<1>7. Quiescence'
    BY <1>a, <1>b, <1>c, <1>e, <1>f, <1>g, RoleParts, ExpectedOf DEF Quiescence, Fences
<1>8. CatalogCoherence'
    BY <1>a, <1>b, <1>c, <1>e, <1>f, <1>g, RoleParts, ExpectedOf DEF CatalogCoherence
<1>9. SameSession'
    BY <1>a, <1>b, <1>c, <1>e, <1>f, <1>g, <1>h, <1>i, RoleParts, ZenonT(30)
        DEF SameSession, Processes, Fences
<1> QED
    BY <1>1, <1>2, <1>3, <1>4, <1>5, <1>6, <1>7, <1>8, <1>9

-----------------------------------------------------------------------------
(* The invariant of the host                                               *)

LEMMA StepTyped == Typed /\ [Next]_vars => Typed'
<1> SUFFICES ASSUME Typed, [Next]_vars PROVE Typed'
    OBVIOUS
<1>a. KP!SnapshotInv'
    BY KernelKeeps
<1>b. RoleTypes'
    <2>1. CASE Client
        BY <2>1, <1>a, ClientInitializesTyped, ClientInitializedTyped,
            ClientQueuesTyped, ClientRefreshesTyped, ClientCallsTyped,
            ClientNotifiesTyped, ClientAnswersTyped DEF Client
    <2>2. CASE ActiveWorker
        BY <2>2, <1>a, ActiveRespondsTyped, ActiveAsksTyped,
            ActiveCatalogArrivesTyped DEF ActiveWorker
    <2>3. CASE CandidateWorker
        BY <2>3, <1>a, CandidateInitializedTyped, CandidateReadyTyped,
            CandidateRestoredTyped DEF CandidateWorker
    <2>4. CASE \E t \in Tokens : Misbehaves(t) \/ WorkerCloses(t) \/ WorkerGone(t)
        BY <2>4, <1>a, MisbehavesTyped, WorkerClosesTyped, WorkerGoneTyped
    <2>5. CASE Continue
        BY <2>5, <1>a, RouteInitializeTyped, TryBeginRestoreTyped,
            ActivateCandidateTyped, RejectCandidateTyped, LoseActiveTyped,
            FlushEndsTyped, FlushReplaysTyped, FlushPopsTyped, RouteFrameTyped
            DEF Continue
    <2>6. CASE Tick
        BY <2>6, <1>a, GraceExpiresTyped, DeadlineExpiresTyped, RefuseReleaseTyped,
            StartRecoveryTyped, StartRolloverTyped DEF Tick
    <2>7. CASE \E release \in Releases : Publish(release)
        BY <2>7, <1>a, PublishTyped
    <2>8. CASE UNCHANGED vars
        BY <2>8 DEF Typed, RoleTypes, HostTyped, RolesTyped, ReleasesTyped, PublicTyped,
            JournalTyped, WorkersTyped, EnvironmentTyped, At, HasActive, roleVars,
            releaseVars, publicVars, journalVars, vars
    <2> QED
        BY <2>1, <2>2, <2>3, <2>4, <2>5, <2>6, <2>7, <2>8 DEF Next
<1> QED
    BY <1>a, <1>b DEF Typed

LEMMA StepCoordinated == HostInv /\ [Next]_vars => HostInv'
<1> SUFFICES ASSUME HostInv, [Next]_vars PROVE HostInv'
    OBVIOUS
<1>a. Typed' /\ KP!SnapshotInv'
    BY StepTyped DEF HostInv, Typed
<1>b. Coordinated'
    <2>1. CASE Client
        BY <2>1, <1>a, ClientInitializesCoordinated, ClientInitializedCoordinated,
            ClientQueuesCoordinated, ClientRefreshesCoordinated, ClientCallsCoordinated,
            ClientNotifiesCoordinated, ClientAnswersCoordinated DEF Client
    <2>2. CASE ActiveWorker
        BY <2>2, <1>a, ActiveRespondsCoordinated, ActiveAsksCoordinated,
            ActiveCatalogArrivesCoordinated DEF ActiveWorker
    <2>3. CASE CandidateWorker
        BY <2>3, <1>a, CandidateInitializedCoordinated, CandidateReadyCoordinated,
            CandidateRestoredCoordinated DEF CandidateWorker
    <2>4. CASE \E t \in Tokens : Misbehaves(t) \/ WorkerCloses(t) \/ WorkerGone(t)
        BY <2>4, <1>a, MisbehavesCoordinated, WorkerClosesCoordinated,
            WorkerGoneCoordinated
    <2>5. CASE Continue
        BY <2>5, <1>a, RouteInitializeCoordinated, TryBeginRestoreCoordinated,
            ActivateCandidateCoordinated, RejectCandidateCoordinated,
            LoseActiveCoordinated, FlushEndsCoordinated, FlushReplaysCoordinated,
            FlushPopsCoordinated, RouteFrameCoordinated DEF Continue
    <2>6. CASE Tick
        BY <2>6, <1>a, GraceExpiresCoordinated, DeadlineExpiresCoordinated,
            RefuseReleaseCoordinated, StartRecoveryCoordinated,
            StartRolloverCoordinated DEF Tick
    <2>7. CASE \E release \in Releases : Publish(release)
        BY <2>7, <1>a, PublishCoordinated
    <2>8. CASE UNCHANGED vars
        BY <2>8, <1>a, KernelUntouched, StillCoordinated DEF HostInv, Coordinated,
            Fences, At, HasActive, roleVars, releaseVars, publicVars, journalVars, vars
    <2> QED
        BY <2>1, <2>2, <2>3, <2>4, <2>5, <2>6, <2>7, <2>8 DEF Next
<1> QED
    BY <1>a, <1>b DEF HostInv

LEMMA InitialHost == Init => HostInv
<1> SUFFICES ASSUME Init PROVE HostInv
    OBVIOUS
<1>1. KP!SnapshotInv
    <2>1. KP!Init
        BY SameObserve DEF Init, InitWith
    <2> QED
        BY <2>1, KernelConstants, KP!SnapshotInitial DEF KP!SnapshotInitial
<1>2. PICK t \in Tokens :
        /\ active = t
        /\ workers = [w \in Tokens |-> IF w = t THEN Spawned(InitialRelease) ELSE Retired]
    BY DEF Init, InitWith, InitRest
<1>3. /\ host = [at |-> "Idle", frame |-> NoFrame, caught |-> FALSE]
      /\ candidate = NoCandidate /\ internal = {} /\ callbacks = {}
      /\ journal = <<>> /\ sealed = FALSE /\ rollover = "None"
      /\ recoveryRelease = InitialRelease /\ rejectedGeneration = NoRelease
      /\ refreshRequest = NoFrame /\ channel = InitialRelease /\ unanswered = {}
      /\ left = Bounds /\ published = NoCatalog
      /\ phase = "Cold" /\ pending = [i \in {} |-> {}]
    BY DEF Init, InitWith, InitRest, K!Init
<1>4. InFlight = {}
    BY <1>3 DEF InFlight
<1>5. <<>> \in Sessions /\ Len(<<>>) = 0
    BY EmptySeq DEF Sessions
<1>6. RoleTypes
    <2>1. HostTyped
        BY <1>3 DEF HostTyped, At, Steps
    <2>2. RolesTyped
        BY <1>2, <1>3 DEF RolesTyped, NoCandidate, Candidate, Purposes, Stages,
            RolloverPhases
    <2>3. ReleasesTyped /\ PublicTyped
        BY <1>3, RolesAssumption DEF ReleasesTyped, PublicTyped
    <2>4. JournalTyped
        <3>1. journal \in Sessions /\ Len(journal) = 0 /\ sealed = FALSE
            BY <1>3, <1>5
        <3>2. 0 <= JournalCapacity
            BY RolesAssumption
        <3> QED
            BY <3>1, <3>2 DEF JournalTyped
    <2>5. WorkersTyped
        BY <1>2, SpawnedType, RolesAssumption DEF WorkersTyped
    <2>6. EnvironmentTyped
        BY <1>3, BoundsAssumption DEF EnvironmentTyped, Bounds
    <2> QED
        BY <2>1, <2>2, <2>3, <2>4, <2>5, <2>6 DEF RoleTypes
<1>7. Coordinated
    <2>1. /\ HasActive /\ ~ HasCandidate /\ active \in Tokens /\ workers[active] = Spawned(InitialRelease)
          /\ \A u \in Tokens \ {active} : workers[u] = Retired
        BY <1>2, <1>3, RolesAssumption DEF HasActive, HasCandidate, NoCandidate,
            Candidate
    <2>2. /\ Spawned(InitialRelease).status = "running" /\ Spawned(InitialRelease).release = InitialRelease
          /\ Spawned(InitialRelease).owes = {} /\ Spawned(InitialRelease).applied = <<>>
          /\ Retired.owes = {}
        BY DEF Spawned, Retired
    <2>3. Processes /\ Fences /\ FenceHasCause /\ Owners /\ Conversation
        BY <1>3, <2>1, <2>2 DEF Processes, Fences, FenceHasCause, Owners, Conversation,
            At
    <2>4. GenerationPinned /\ Quiescence /\ CatalogCoherence /\ SameSession
        BY <1>3, <1>4, <2>1, <2>2 DEF GenerationPinned, Quiescence, CatalogCoherence,
            SameSession, At
    <2> QED
        BY <2>3, <2>4 DEF Coordinated
<1> QED
    BY <1>1, <1>6, <1>7 DEF HostInv, Typed

LEMMA HostAlways == Spec => []HostInv
BY InitialHost, StepCoordinated, PTL DEF Spec

\* The host is a client of the kernel like any other: whatever it does with
\* events, each of its steps is at most one call of the kernel, so all that is
\* proved of the kernel holds of the kernel in the host (supervisor.rs calls
\* HostSessionKernel and nothing else changes its state).
THEOREM HostUsesKernel == Spec => K!Spec
<1>1. Init => K!Init
    BY DEF Init, InitWith
<1>2. HostInv /\ [Next]_vars => [K!Next]_(K!vars)
    BY HostCallsKernel DEF HostInv, kernelVars, K!vars
<1> QED
    BY <1>1, <1>2, HostAlways, PTL DEF Spec, K!Spec

\* Types.  Every variable of the host keeps its type; among other things at
\* most JOURNAL_MAX_ENTRIES transitions are journaled, and no handler ends
\* anywhere but in one of the methods and failures named (supervisor.rs).
THEOREM HostTypeCorrect == Spec => []TypeOK
<1>1. HostInv => TypeOK
    <2> SUFFICES ASSUME HostInv PROVE TypeOK
        OBVIOUS
    <2>1. K!TypeOK
        BY SameTypes DEF HostInv, Typed, KP!SnapshotInv, KP!LawInv, KP!SafetyInv
    <2>2. \A t \in Tokens :
            /\ workers[t].status \in {"retired", "running", "closed"}
            /\ workers[t].release \in Releases
            /\ workers[t].owes \subseteq Ids
        BY DEF HostInv, Typed, RoleTypes, WorkersTyped, WorkerState
    <2> QED
        BY <2>1, <2>2
            DEF TypeOK, HostInv, Typed, RoleTypes, HostTyped, RolesTyped, ReleasesTyped, PublicTyped,
                JournalTyped, EnvironmentTyped, Request
<1> QED
    BY <1>1, HostAlways, PTL

\* No invocation is pinned to a worker that is gone, waited for that no worker
\* has, or completed by the answer of another (formal_semantics.md I3): what
\* the kernel holds in flight is what the active worker owes.
THEOREM InvocationsPinned == Spec => []GenerationPinned
BY HostAlways, PTL DEF HostInv, Coordinated

\* The public catalog is the one of the worker that answers for it, now or
\* after recovery, however activations, rejections and losses interleave
\* (activate_candidate, handle_worker_loss_by_id).
THEOREM CatalogsCoherent == Spec => []CatalogCoherence
BY HostAlways, PTL DEF HostInv, Coordinated

\* New work is held back only on behalf of a candidate, a candidate for
\* recovery is there only without an active worker, and without an active
\* worker the host never believes that it serves.
THEOREM FenceCaused == Spec => []FenceHasCause
BY HostAlways, PTL DEF HostInv, Coordinated

\* Between events the host waits for the answers its roles call for and for no
\* others, one at a time: a late answer of a retired worker finds no request,
\* and a candidate that is waited for has a deadline (handle_internal_response).
THEOREM ConversationsOwned == Spec => []ConversationOwned
<1>1. HostInv => ConversationOwned
    <2> SUFFICES ASSUME HostInv, At("Idle") PROVE ConversationOwned
        BY DEF ConversationOwned
    <2> USE DEF HostInv, Coordinated
    <2>1. \A r \in internal : r.worker \in {active, candidate.token}
        BY DEF Owners
    <2>2. \A r \in InternalOf(active) : r.action = "ActiveCatalog" /\ published = NoCatalog
        BY RoleParts, RolesAssumption DEF Owners, Processes, InternalOf, HasCandidate
    <2>3. ASSUME HasCandidate
          PROVE  /\ {r.action : r \in InternalOf(candidate.token)} = Expected[candidate.stage]
                 /\ Cardinality(InternalOf(candidate.token)) <= 1
                 /\ candidate.deadline <=> candidate.stage # "Ready" \/ rollover # "Draining"
        <3>1. \A r \in InternalOf(candidate.token) : r.action \in Expected[candidate.stage]
            BY <2>3 DEF Owners, InternalOf, Processes
        <3>2. CASE InternalOf(candidate.token) = {}
            <4>1. candidate.stage = "Ready"
                BY <2>3, <3>2 DEF Conversation, InternalOf, At
            <4>2. Cardinality(InternalOf(candidate.token)) = 0
                BY <3>2, FS_EmptySet
            <4> QED
                BY <2>3, <3>2, <4>1, <4>2, ExpectedOf DEF Conversation, At
        <3>3. CASE InternalOf(candidate.token) # {}
            <4>1. PICK r \in InternalOf(candidate.token) : InternalOf(candidate.token) = {r}
                BY <2>3, <3>3 DEF Conversation, InternalOf
            <4>2. Cardinality({r}) = 1
                BY FS_Singleton
            <4>3. {r.action} = Expected[candidate.stage]
                BY <3>1, RoleParts, ExpectedOf DEF Stages
            <4> QED
                BY <2>3, <4>1, <4>2, <4>3 DEF Conversation, At
        <3> QED
            BY <3>2, <3>3
    <2> QED
        BY <2>1, <2>2, <2>3 DEF ConversationOwned
<1> QED
    BY <1>1, HostAlways, PTL

\* The journal is the session state of the active worker as long as it is not
\* sealed, and a candidate that waits for entry i to be replayed has replayed
\* the entries before it (SessionJournal, continue_restore).
THEOREM SessionsReplayed == Spec => []SessionPrefix
<1>1. HostInv => SessionPrefix
    BY DEF HostInv, Coordinated, SameSession, SessionPrefix
<1> QED
    BY <1>1, HostAlways, PTL

-----------------------------------------------------------------------------
(* What is repeated                                                        *)

\* A catalog declares the tool of call f free of repeated effects.
DeclaredRepeatable(f) ==
    \E catalog \in Catalogs :
        /\ f.body.tool \in DOMAIN Declared[catalog]
        /\ MayRepeat(Declared[catalog][f.body.tool], f.body.keyed)

\* A call is pending as convergent only on the word of a catalog, and nothing
\* waits for a probe.
Contracted ==
    \A id \in DOMAIN pending :
        /\ pending[id].contract # "ProbeRequired"
        /\ pending[id].contract = "Convergent" /\ pending[id].frame.method = "call" =>
                DeclaredRepeatable(pending[id].frame)

LEMMA ContractsKept ==
    ASSUME Contracted,
           \A id \in DOMAIN pending' : id \in DOMAIN pending /\ SameInvocation(id)
    PROVE  Contracted'
BY DEF Contracted, SameInvocation, DeclaredRepeatable

LEMMA BegunContracted ==
    ASSUME Typed, Contracted, NEW f \in Frames, K!BeginRequestDispatch(f, Classify(f))
    PROVE  Contracted'
<1>1. /\ DOMAIN pending' = DOMAIN pending \cup {f.id}
      /\ \A id \in DOMAIN pending : SameInvocation(id)
      /\ pending'[f.id].frame = f /\ pending'[f.id].contract = Classify(f)
    <2>1. KP!SnapshotInv /\ Classify(f) \in K!Contracts
        BY ClassifiedType DEF Typed
    <2> QED
        BY <2>1, HostBegins
<1>2. Classify(f) = "Convergent" /\ f.method = "call" => DeclaredRepeatable(f)
    BY ClassifiedByDeclaration DEF Typed, RoleTypes, PublicTyped, DeclaredRepeatable
<1>3. Classify(f) # "ProbeRequired"
    BY ClassifiedType
<1> QED
    BY <1>1, <1>2, <1>3 DEF Contracted, SameInvocation, DeclaredRepeatable

LEMMA StepContracted == Typed /\ Contracted /\ [Next]_vars => Contracted'
<1> SUFFICES ASSUME Typed, Contracted, [Next]_vars PROVE Contracted'
    OBVIOUS
<1> USE DEF Typed
<1>a. KP!SnapshotInv'
    BY KernelKeeps
<1>1. ASSUME NEW f \in Frames, K!ObserveInitialize(f) \/ K!ObserveInitialized(f)
      PROVE  Contracted'
    BY <1>1, HandshakeSeen DEF Contracted, DeclaredRepeatable
<1>2. ASSUME NEW f \in Frames, K!QueueClientFrame(f) PROVE Contracted'
    BY <1>2, <1>a, HostQueues DEF Contracted, DeclaredRepeatable
<1>3. ASSUME NEW f \in Frames, K!BeginRequestDispatch(f, Classify(f)) PROVE Contracted'
    BY <1>3, BegunContracted
<1>4. ASSUME NEW id \in Ids, NEW hasError \in BOOLEAN, K!CompleteResponse(id, hasError)
      PROVE  Contracted'
    BY <1>4, HostCompletes, ContractsKept
<1>5. CASE K!PopClientFrame
    BY <1>5, <1>a, HostPops DEF Contracted, DeclaredRepeatable
<1>6. CASE K!PopReplay
    BY <1>6, <1>a, HostReplays, ContractsKept
<1>7. CASE K!RequeuePendingForReplay
    BY <1>7, HostRequeues, ContractsKept
<1>8. CASE UNCHANGED kernelVars
    BY <1>8 DEF Contracted, DeclaredRepeatable, kernelVars
<1> QED
    BY <1>1, <1>2, <1>3, <1>4, <1>5, <1>6, <1>7, <1>8, HostCalls DEF KernelCall

\* The law of effects.  A call that is sent again after a loss is one whose
\* tool some catalog has declared free of repeated effects, or which carries
\* the key its durable authority deduplicates it by (effect.rs,
\* classify_request, request_disposition).
THEOREM RepeatedAreRepeatable == Spec => []OnlyRepeatable
<1>1. Init => Contracted
    BY DEF Init, InitWith, K!Init, Contracted
<1>2. HostInv /\ Contracted => OnlyRepeatable
    <2> SUFFICES ASSUME HostInv, Contracted, NEW id \in DOMAIN pending,
                        pending[id].attempts > 0, pending[id].frame.method = "call"
                 PROVE  DeclaredRepeatable(pending[id].frame)
        BY DEF OnlyRepeatable, DeclaredRepeatable
    <2>1. KP!SnapshotInv
        BY DEF HostInv, Typed
    <2>2. pending[id].contract # "NeverReplay"
        BY <2>1, KernelConstants, KP!RepeatedHaveContract DEF KP!RepeatedHaveContract
    <2>3. pending[id].contract \in K!Contracts
        BY <2>1, PendingFrames
    <2> QED
        BY <2>2, <2>3 DEF Contracted, K!Contracts
<1>3. HostInv /\ Contracted /\ [Next]_vars => Contracted'
    BY StepContracted DEF HostInv
<1> QED
    BY <1>1, <1>2, <1>3, HostAlways, PTL DEF Spec

-----------------------------------------------------------------------------
(* What is still held                                                      *)

\* A request is held by the kernel, in hand, or by the refresh that waits for
\* activation, in one place only, and has not been answered.
KeptOnce ==
    /\ KernelHolds \subseteq unanswered
    /\ refreshRequest # NoFrame => refreshRequest.id \in unanswered \ KernelHolds
    /\ host.frame # NoFrame /\ K!IsRequest(host.frame) =>
        /\ host.frame.id \in unanswered \ KernelHolds
        /\ refreshRequest # NoFrame => refreshRequest.id # host.frame.id

\* Requests the kernel gives up are answered, and no frame is taken in hand.
LEMMA HeldLess ==
    ASSUME KeptOnce, NEW gone \in SUBSET KernelHolds,
           KernelHolds' \subseteq KernelHolds \ gone,
           unanswered' = unanswered \ gone,
           refreshRequest' \in {refreshRequest, NoFrame},
           host'.frame \in {host.frame, NoFrame}
    PROVE  KeptOnce'
<1>1. KernelHolds' \subseteq unanswered'
    BY DEF KeptOnce
<1>2. ASSUME refreshRequest' # NoFrame
      PROVE  refreshRequest'.id \in unanswered' \ KernelHolds'
    BY <1>2 DEF KeptOnce
<1>3. ASSUME host'.frame # NoFrame, K!IsRequest(host'.frame)
      PROVE  /\ host'.frame.id \in unanswered' \ KernelHolds'
             /\ refreshRequest' # NoFrame => refreshRequest'.id # host'.frame.id
    BY <1>3 DEF KeptOnce
<1> QED
    BY <1>1, <1>2, <1>3 DEF KeptOnce

\* What a step leaves alone when it neither takes nor answers a request.
Untaken ==
    /\ UNCHANGED unanswered
    /\ refreshRequest' \in {refreshRequest, NoFrame}
    /\ host'.frame \in {host.frame, NoFrame}

LEMMA HeldOn ==
    ASSUME KeptOnce, Untaken, KernelHolds' \subseteq KernelHolds
    PROVE  KeptOnce'
<1>1. {} \in SUBSET KernelHolds /\ KernelHolds' \subseteq KernelHolds \ {}
    OBVIOUS
<1>2. unanswered' = unanswered \ {}
    BY DEF Untaken
<1> QED
    BY <1>1, <1>2, HeldLess DEF Untaken

\* A request comes in, and the kernel takes it, or it stays in hand or waits
\* as a refresh.
LEMMA HeldMore ==
    ASSUME KeptOnce, NEW id, id \notin unanswered,
           unanswered' = unanswered \cup {id},
           KernelHolds' \subseteq KernelHolds \cup {id},
           UNCHANGED refreshRequest, host'.frame = NoFrame
    PROVE  KeptOnce'
BY DEF KeptOnce

\* The request in hand goes to the kernel, or is answered.
LEMMA HandEmptied ==
    ASSUME KeptOnce, host.frame # NoFrame, K!IsRequest(host.frame),
           \/ /\ KernelHolds' \subseteq KernelHolds \cup {host.frame.id}
              /\ UNCHANGED unanswered
           \/ /\ KernelHolds' \subseteq KernelHolds
              /\ unanswered' = unanswered \ {host.frame.id},
           UNCHANGED refreshRequest, host'.frame = NoFrame
    PROVE  KeptOnce'
BY DEF KeptOnce

LEMMA DispatchHeld ==
    ASSUME HostInv, KeptOnce, NEW next, host.frame \in Frames,
           K!IsRequest(host.frame), Dispatch(host.frame, next),
           UNCHANGED refreshRequest
    PROVE  KeptOnce'
<1> DEFINE f == host.frame
<1>a. f # NoFrame
    BY KernelAssumption DEF K!FramesAssumption
<1>1. CASE K!MayBegin(f)
    <2>1. KernelHolds' \subseteq KernelHolds \cup {f.id}
        <3>1. KP!SnapshotInv /\ Classify(f) \in K!Contracts /\ K!BeginRequestDispatch(f, Classify(f))
            BY <1>1, ClassifiedType DEF Dispatch, HostInv, Typed
        <3> QED
            BY <3>1, HostBegins
    <2>2. UNCHANGED unanswered /\ host'.frame = NoFrame
        BY <1>1 DEF Dispatch, SendActive, Go
    <2> QED
        BY <1>a, <2>1, <2>2, HandEmptied
<1>2. CASE ~ K!MayBegin(f)
    <2>1. KernelHolds' = KernelHolds
        BY <1>2, KernelUntouched DEF Dispatch
    <2>2. unanswered' = unanswered \ {f.id} /\ host'.frame = NoFrame
        BY <1>2 DEF Dispatch, Go
    <2> QED
        BY <1>a, <2>1, <2>2, HandEmptied
<1> QED
    BY <1>1, <1>2

LEMMA ClientInitializesHeld ==
    ASSUME HostInv, KeptOnce, KP!SnapshotInv', NEW f \in Frames, ClientInitializes(f)
    PROVE  KeptOnce'
<1>1. KernelHolds' = KernelHolds
    BY HandshakeSeen DEF ClientInitializes
<1>2. /\ f.id \notin unanswered /\ unanswered' = unanswered \cup {f.id}
      /\ UNCHANGED refreshRequest /\ host'.frame = f
    BY DEF ClientInitializes, ReceivesRequest
<1> QED
    BY <1>1, <1>2 DEF KeptOnce

LEMMA ClientQueuesHeld ==
    ASSUME HostInv, KeptOnce, KP!SnapshotInv', NEW f \in Frames, ClientQueues(f)
    PROVE  KeptOnce'
<1>1. KernelHolds' \subseteq KernelHolds \cup (IF K!IsRequest(f) THEN {f.id} ELSE {})
    BY HostQueues DEF ClientQueues, HostInv, Typed
<1>2. UNCHANGED refreshRequest /\ host'.frame = NoFrame
    BY DEF ClientQueues, Go
<1>3. CASE K!IsRequest(f)
    <2>1. f.id \notin unanswered /\ unanswered' = unanswered \cup {f.id}
        BY <1>3 DEF ClientQueues, ReceivesRequest
    <2> QED
        BY <1>1, <1>2, <1>3, <2>1, HeldMore
<1>4. CASE ~ K!IsRequest(f)
    BY <1>1, <1>2, <1>4, HeldOn DEF ClientQueues, Untaken
<1> QED
    BY <1>3, <1>4

LEMMA ClientRefreshesHeld ==
    ASSUME HostInv, KeptOnce, KP!SnapshotInv', NEW f \in Frames, ClientRefreshes(f)
    PROVE  KeptOnce'
<1>1. KernelHolds' = KernelHolds
    BY KernelUntouched DEF ClientRefreshes
<1>2. /\ f.id \notin unanswered /\ unanswered' = unanswered \cup {f.id}
      /\ refreshRequest' = f /\ host'.frame = NoFrame
    BY DEF ClientRefreshes, ReceivesRequest, Go
<1> QED
    BY <1>1, <1>2 DEF KeptOnce

LEMMA ClientCallsHeld ==
    ASSUME HostInv, KeptOnce, KP!SnapshotInv', NEW f \in Frames, ClientCalls(f)
    PROVE  KeptOnce'
<1>1. KernelHolds' \subseteq KernelHolds \cup {f.id}
    <2>1. KP!SnapshotInv /\ Classify(f) \in K!Contracts /\ K!BeginRequestDispatch(f, Classify(f))
        BY ClassifiedType DEF ClientCalls, HostInv, Typed
    <2> QED
        BY <2>1, HostBegins
<1>2. /\ f.id \notin unanswered /\ unanswered' = unanswered \cup {f.id}
      /\ UNCHANGED refreshRequest /\ host'.frame = NoFrame
    BY DEF ClientCalls, ReceivesRequest, SendActive, Go
<1> QED
    BY <1>1, <1>2, HeldMore

LEMMA ActiveRespondsHeld ==
    ASSUME HostInv, KeptOnce, KP!SnapshotInv', NEW id \in Ids, NEW hasError \in BOOLEAN, ActiveResponds(id, hasError)
    PROVE  KeptOnce'
<1>1. {id} \in SUBSET KernelHolds /\ KernelHolds' \subseteq KernelHolds \ {id}
    BY HostCompletes DEF ActiveResponds, HostInv, Typed, KernelHolds
<1>2. unanswered' = unanswered \ {id} /\ UNCHANGED refreshRequest /\ host'.frame = NoFrame
    BY DEF ActiveResponds, publicVars, Go
<1> QED
    BY <1>1, <1>2, HeldLess

LEMMA LoseActiveHeld ==
    ASSUME HostInv, KeptOnce, KP!SnapshotInv', LoseActive
    PROVE  KeptOnce'
<1>1. Rejected \in SUBSET KernelHolds /\ KernelHolds' \subseteq KernelHolds \ Rejected
    BY HostRequeues DEF LoseActive, HostInv, Typed, Rejected, KernelHolds
<1>2. unanswered' = unanswered \ Rejected /\ UNCHANGED refreshRequest /\ host'.frame = NoFrame
    BY DEF LoseActive, publicVars, Go
<1> QED
    BY <1>1, <1>2, HeldLess

LEMMA ActivateCandidateHeld ==
    ASSUME HostInv, KeptOnce, KP!SnapshotInv', ActivateCandidate
    PROVE  KeptOnce'
<1>1. KernelHolds' = KernelHolds /\ refreshRequest' = NoFrame /\ host'.frame = NoFrame
    BY KernelUntouched DEF ActivateCandidate, Go
<1>2. RefreshAnswered = IF refreshRequest = NoFrame THEN {} ELSE {refreshRequest.id}
    BY DEF RefreshAnswered
<1>3. unanswered' \in {unanswered, unanswered \ RefreshAnswered}
    BY DEF ActivateCandidate
<1> QED
    BY <1>1, <1>2, <1>3 DEF KeptOnce

LEMMA FlushPopsHeld ==
    ASSUME HostInv, KeptOnce, KP!SnapshotInv', FlushPops
    PROVE  KeptOnce'
<1>1. /\ KernelHolds' \subseteq KernelHolds
      /\ K!IsRequest(Head(queue)) =>
            Head(queue).id \in KernelHolds /\ Head(queue).id \notin KernelHolds'
    BY HostPops DEF FlushPops, HostInv, Typed
<1>2. UNCHANGED <<unanswered, refreshRequest>> /\ host'.frame = Head(queue)
    BY DEF FlushPops, publicVars, HostInv, Typed, RoleTypes, HostTyped
<1> QED
    BY <1>1, <1>2 DEF KeptOnce

LEMMA RouteInitializeHeld ==
    ASSUME HostInv, KeptOnce, KP!SnapshotInv', RouteInitialize
    PROVE  KeptOnce'
<1> DEFINE f == host.frame
<1>1. f \in Frames /\ f.method = "initialize" /\ f # NoFrame
    BY KernelAssumption DEF RouteInitialize, At, HostInv, Typed, RoleTypes, HostTyped,
        K!FramesAssumption
<1>2. K!IsRequest(f) /\ UNCHANGED refreshRequest
    BY <1>1, FrameIds DEF RouteInitialize, publicVars
<1>3. CASE Dispatch(f, "Idle")
    BY <1>1, <1>2, <1>3, DispatchHeld
<1>4. CASE K!QueueClientFrame(f) /\ Go("Idle") /\ UNCHANGED unanswered
    <2>1. KernelHolds' \subseteq KernelHolds \cup {f.id}
        BY <1>1, <1>2, <1>4, HostQueues DEF HostInv, Typed
    <2> QED
        BY <1>1, <1>2, <1>4, <2>1, HandEmptied DEF Go
<1>5. CASE unanswered' = unanswered \ {f.id} /\ Go("Idle") /\ UNCHANGED kernelVars
    BY <1>1, <1>2, <1>5, KernelUntouched, HandEmptied DEF Go
<1> QED
    BY <1>3, <1>4, <1>5 DEF RouteInitialize

LEMMA RouteFrameHeld ==
    ASSUME HostInv, KeptOnce, KP!SnapshotInv', RouteFrame
    PROVE  KeptOnce'
<1> DEFINE f == host.frame
<1>1. f \in Frames /\ f # NoFrame /\ UNCHANGED refreshRequest
    BY KernelAssumption DEF RouteFrame, publicVars, At, HostInv, Typed, RoleTypes,
        HostTyped, K!FramesAssumption
<1>2. CASE K!IsRequest(f) /\ Dispatch(f, "Flush")
    BY <1>1, <1>2, DispatchHeld
<1>3. CASE /\ f.method = "list" /\ unanswered' = unanswered \ {f.id}
           /\ UNCHANGED kernelVars /\ host' = [host EXCEPT !.at = "Flush", !.frame = NoFrame]
    <2>1. K!IsRequest(f) /\ KernelHolds' = KernelHolds
        BY <1>1, <1>3, FrameIds, KernelUntouched
    <2>2. host'.frame = NoFrame
        BY <1>3 DEF HostInv, Typed, RoleTypes, HostTyped
    <2> QED
        BY <1>1, <1>3, <2>1, <2>2, HandEmptied
<1>4. CASE UNCHANGED kernelVars /\ UNCHANGED unanswered /\ host'.frame = NoFrame
    BY <1>1, <1>4, KernelUntouched, HeldOn DEF Untaken
<1> QED
    BY <1>2, <1>3, <1>4 DEF RouteFrame, Go

LEMMA StepHeld == HostInv /\ KeptOnce /\ [Next]_vars => KeptOnce'
<1> SUFFICES ASSUME HostInv, KeptOnce, [Next]_vars PROVE KeptOnce'
    OBVIOUS
<1>a. KP!SnapshotInv'
    BY KernelKeeps DEF HostInv
<1>1. ASSUME NEW f \in Frames, ClientInitialized(f) PROVE KeptOnce'
    <2>1. KernelHolds' \subseteq KernelHolds
        BY <1>1, HandshakeSeen DEF ClientInitialized
    <2>2. Untaken
        BY <1>1 DEF ClientInitialized, Receives, SendActive, Go, Untaken, roleVars,
            releaseVars, publicVars, journalVars, HostInv, Typed, RoleTypes, HostTyped
    <2> QED
        BY <2>1, <2>2, HeldOn
<1>2. ASSUME NEW f \in Frames, ClientNotifies(f) PROVE KeptOnce'
    <2>1. KernelHolds' \subseteq KernelHolds
        BY <1>2, KernelUntouched DEF ClientNotifies, Receives
    <2>2. Untaken
        BY <1>2 DEF ClientNotifies, Receives, SendActive, Go, Untaken, roleVars,
            releaseVars, publicVars, journalVars, HostInv, Typed, RoleTypes, HostTyped
    <2> QED
        BY <2>1, <2>2, HeldOn
<1>3. ASSUME NEW c \in callbacks, ClientAnswers(c) PROVE KeptOnce'
    <2>1. KernelHolds' \subseteq KernelHolds
        BY <1>3, KernelUntouched DEF ClientAnswers
    <2>2. Untaken
        BY <1>3 DEF ClientAnswers, SendActive, Go, Untaken, roleVars, releaseVars,
            publicVars, journalVars, HostInv, Typed, RoleTypes, HostTyped
    <2> QED
        BY <2>1, <2>2, HeldOn
<1>4. CASE ActiveAsks
    <2>1. KernelHolds' \subseteq KernelHolds
        BY <1>4, KernelUntouched DEF ActiveAsks, Emits
    <2>2. Untaken
        BY <1>4 DEF ActiveAsks, Emits, SendActive, Go, Untaken, roleVars, releaseVars,
            publicVars, journalVars, HostInv, Typed, RoleTypes, HostTyped
    <2> QED
        BY <2>1, <2>2, HeldOn
<1>5. ASSUME NEW hasError \in BOOLEAN, ActiveCatalogArrives(hasError) PROVE KeptOnce'
    <2>1. KernelHolds' \subseteq KernelHolds
        BY <1>5, KernelUntouched DEF ActiveCatalogArrives, Answers, Emits, Fault
    <2>2. Untaken
        BY <1>5 DEF ActiveCatalogArrives, Answers, Emits, Fault, SendActive, Go,
            Untaken, roleVars, releaseVars, publicVars, journalVars, HostInv, Typed,
            RoleTypes, HostTyped
    <2> QED
        BY <2>1, <2>2, HeldOn
<1>6. ASSUME NEW hasError \in BOOLEAN, CandidateInitialized(hasError) PROVE KeptOnce'
    <2>1. KernelHolds' \subseteq KernelHolds
        BY <1>6, KernelUntouched DEF CandidateInitialized, Answers, Emits, Fault
    <2>2. Untaken
        BY <1>6 DEF CandidateInitialized, Answers, Emits, Fault, SendActive, Go,
            Untaken, roleVars, releaseVars, publicVars, journalVars, HostInv, Typed,
            RoleTypes, HostTyped
    <2> QED
        BY <2>1, <2>2, HeldOn
<1>7. ASSUME NEW hasError \in BOOLEAN, CandidateReady(hasError) PROVE KeptOnce'
    <2>1. KernelHolds' \subseteq KernelHolds
        BY <1>7, KernelUntouched DEF CandidateReady, Answers, Emits, Fault
    <2>2. Untaken
        BY <1>7 DEF CandidateReady, Answers, Emits, Fault, SendActive, Go, Untaken,
            roleVars, releaseVars, publicVars, journalVars, HostInv, Typed, RoleTypes,
            HostTyped
    <2> QED
        BY <2>1, <2>2, HeldOn
<1>8. ASSUME NEW index \in DOMAIN journal, NEW hasError \in BOOLEAN,
             CandidateRestored(index, hasError)
      PROVE  KeptOnce'
    <2>1. KernelHolds' \subseteq KernelHolds
        BY <1>8, KernelUntouched DEF CandidateRestored, Answers, Emits, Fault
    <2>2. Untaken
        BY <1>8 DEF CandidateRestored, Answers, Emits, Fault, SendActive, Go, Untaken,
            roleVars, releaseVars, publicVars, journalVars, HostInv, Typed, RoleTypes,
            HostTyped
    <2> QED
        BY <2>1, <2>2, HeldOn
<1>9. ASSUME NEW t \in Tokens, Misbehaves(t) PROVE KeptOnce'
    <2>1. KernelHolds' \subseteq KernelHolds
        BY <1>9, KernelUntouched DEF Misbehaves, Emits, Fault
    <2>2. Untaken
        BY <1>9 DEF Misbehaves, Emits, Fault, SendActive, Go, Untaken, roleVars,
            releaseVars, publicVars, journalVars, HostInv, Typed, RoleTypes, HostTyped
    <2> QED
        BY <2>1, <2>2, HeldOn
<1>10. ASSUME NEW t \in Tokens, WorkerCloses(t) PROVE KeptOnce'
    <2>1. KernelHolds' \subseteq KernelHolds
        BY <1>10, KernelUntouched DEF WorkerCloses, Fault
    <2>2. Untaken
        BY <1>10 DEF WorkerCloses, Fault, SendActive, Go, Untaken, roleVars,
            releaseVars, publicVars, journalVars, HostInv, Typed, RoleTypes, HostTyped
    <2> QED
        BY <2>1, <2>2, HeldOn
<1>11. ASSUME NEW t \in Tokens, WorkerGone(t) PROVE KeptOnce'
    <2>1. KernelHolds' \subseteq KernelHolds
        BY <1>11, KernelUntouched DEF WorkerGone, DropRecoveryCandidate
    <2>2. Untaken
        BY <1>11 DEF WorkerGone, DropRecoveryCandidate, SendActive, Go, Untaken,
            roleVars, releaseVars, publicVars, journalVars, HostInv, Typed, RoleTypes,
            HostTyped
    <2> QED
        BY <2>1, <2>2, HeldOn
<1>12. CASE TryBeginRestore
    <2>1. KernelHolds' \subseteq KernelHolds
        BY <1>12, KernelUntouched DEF TryBeginRestore
    <2>2. Untaken
        BY <1>12 DEF TryBeginRestore, SendActive, Go, Untaken, roleVars, releaseVars,
            publicVars, journalVars, HostInv, Typed, RoleTypes, HostTyped
    <2> QED
        BY <2>1, <2>2, HeldOn
<1>13. CASE RejectCandidate
    <2>1. KernelHolds' \subseteq KernelHolds
        BY <1>13, KernelUntouched DEF RejectCandidate
    <2>2. Untaken
        BY <1>13 DEF RejectCandidate, SendActive, Go, Untaken, roleVars, releaseVars,
            publicVars, journalVars, HostInv, Typed, RoleTypes, HostTyped
    <2> QED
        BY <2>1, <2>2, HeldOn
<1>14. CASE FlushEnds
    <2>1. KernelHolds' \subseteq KernelHolds
        BY <1>14, KernelUntouched DEF FlushEnds
    <2>2. Untaken
        BY <1>14 DEF FlushEnds, SendActive, Go, Untaken, roleVars, releaseVars,
            publicVars, journalVars, HostInv, Typed, RoleTypes, HostTyped
    <2> QED
        BY <2>1, <2>2, HeldOn
<1>15. CASE FlushReplays
    <2>1. KernelHolds' \subseteq KernelHolds
        BY <1>15, <1>a, HostReplays DEF FlushReplays, HostInv, Typed
    <2>2. Untaken
        BY <1>15 DEF FlushReplays, Flushes, SendActive, Go, Untaken, roleVars,
            releaseVars, publicVars, journalVars, HostInv, Typed, RoleTypes, HostTyped
    <2> QED
        BY <2>1, <2>2, HeldOn
<1>16. CASE GraceExpires
    <2>1. KernelHolds' \subseteq KernelHolds
        BY <1>16, KernelUntouched DEF GraceExpires, Deadlined
    <2>2. Untaken
        BY <1>16 DEF GraceExpires, Deadlined, SendActive, Go, Untaken, roleVars,
            releaseVars, publicVars, journalVars, HostInv, Typed, RoleTypes, HostTyped
    <2> QED
        BY <2>1, <2>2, HeldOn
<1>17. CASE DeadlineExpires
    <2>1. KernelHolds' \subseteq KernelHolds
        BY <1>17, KernelUntouched DEF DeadlineExpires, Deadlined, DropRecoveryCandidate,
            Fault
    <2>2. Untaken
        BY <1>17 DEF DeadlineExpires, Deadlined, DropRecoveryCandidate, Fault,
            SendActive, Go, Untaken, roleVars, releaseVars, publicVars, journalVars,
            HostInv, Typed, RoleTypes, HostTyped
    <2> QED
        BY <2>1, <2>2, HeldOn
<1>18. CASE RefuseRelease
    <2>1. KernelHolds' \subseteq KernelHolds
        BY <1>18, KernelUntouched DEF RefuseRelease, ObservesNewRelease, Fault
    <2>2. Untaken
        BY <1>18 DEF RefuseRelease, ObservesNewRelease, Fault, SendActive, Go, Untaken,
            roleVars, releaseVars, publicVars, journalVars, HostInv, Typed, RoleTypes,
            HostTyped
    <2> QED
        BY <2>1, <2>2, HeldOn
<1>19. ASSUME NEW t \in Tokens, StartRecovery(t) PROVE KeptOnce'
    <2>1. KernelHolds' \subseteq KernelHolds
        BY <1>19, KernelUntouched DEF StartRecovery, Launches
    <2>2. Untaken
        BY <1>19 DEF StartRecovery, Launches, SendActive, Go, Untaken, roleVars,
            releaseVars, publicVars, journalVars, HostInv, Typed, RoleTypes, HostTyped
    <2> QED
        BY <2>1, <2>2, HeldOn
<1>20. ASSUME NEW t \in Tokens, StartRollover(t) PROVE KeptOnce'
    <2>1. KernelHolds' \subseteq KernelHolds
        BY <1>20, KernelUntouched DEF StartRollover, ObservesNewRelease, Launches
    <2>2. Untaken
        BY <1>20 DEF StartRollover, ObservesNewRelease, Launches, SendActive, Go,
            Untaken, roleVars, releaseVars, publicVars, journalVars, HostInv, Typed,
            RoleTypes, HostTyped
    <2> QED
        BY <2>1, <2>2, HeldOn
<1>21. ASSUME NEW release \in Releases, Publish(release) PROVE KeptOnce'
    <2>1. KernelHolds' \subseteq KernelHolds
        BY <1>21, KernelUntouched DEF Publish
    <2>2. Untaken
        BY <1>21 DEF Publish, SendActive, Go, Untaken, roleVars, releaseVars,
            publicVars, journalVars, HostInv, Typed, RoleTypes, HostTyped
    <2> QED
        BY <2>1, <2>2, HeldOn
<1>22. CASE Client
    BY <1>22, <1>a, ClientInitializesHeld, <1>1, ClientQueuesHeld, ClientRefreshesHeld,
        ClientCallsHeld, <1>2, <1>3 DEF Client
<1>23. CASE ActiveWorker
    BY <1>23, <1>a, ActiveRespondsHeld, <1>4, <1>5 DEF ActiveWorker
<1>24. CASE CandidateWorker
    BY <1>24, <1>6, <1>7, <1>8 DEF CandidateWorker
<1>25. CASE \E t \in Tokens : Misbehaves(t) \/ WorkerCloses(t) \/ WorkerGone(t)
    BY <1>25, <1>9, <1>10, <1>11
<1>26. CASE Continue
    BY <1>26, <1>a, RouteInitializeHeld, <1>12, ActivateCandidateHeld, <1>13,
        LoseActiveHeld, <1>14, <1>15, FlushPopsHeld, RouteFrameHeld DEF Continue
<1>27. CASE Tick
    BY <1>27, <1>16, <1>17, <1>18, <1>19, <1>20 DEF Tick
<1>28. CASE \E release \in Releases : Publish(release)
    BY <1>28, <1>21
<1>29. CASE UNCHANGED vars
    BY <1>29, KernelUntouched, HeldOn DEF Untaken, vars, publicVars
<1> QED
    BY <1>22, <1>23, <1>24, <1>25, <1>26, <1>27, <1>28, <1>29 DEF Next

\* No path answers a request twice: what the host still holds of a request has
\* not been answered, whether its worker is lost, answers late, or the request
\* waits for a catalog (handle_worker_loss_by_id, activate_candidate,
\* flush_queue).
THEOREM NotAnsweredTwice == Spec => []NoSecondReply
<1>1. Init => KeptOnce
    BY EmptySeq DEF Init, InitWith, InitRest, K!Init, KeptOnce, KernelHolds, K!QueuedIds
<1>2. HostInv /\ KeptOnce => NoSecondReply
    <2> SUFFICES ASSUME HostInv, KeptOnce, NEW id \in Kept PROVE id \in unanswered
        BY DEF NoSecondReply
    <2>1. CASE id \in KernelHolds
        BY <2>1 DEF KeptOnce
    <2>2. CASE id \notin KernelHolds
        <3>1. PICK f \in {host.frame, refreshRequest} \ {NoFrame} : K!IsRequest(f) /\ id = f.id
            BY <2>2 DEF Kept, KernelHolds
        <3> QED
            BY <3>1 DEF KeptOnce
    <2> QED
        BY <2>1, <2>2
<1>3. HostInv /\ KeptOnce /\ [Next]_vars => KeptOnce'
    BY StepHeld
<1> QED
    BY <1>1, <1>2, <1>3, HostAlways, PTL DEF Spec

=============================================================================
