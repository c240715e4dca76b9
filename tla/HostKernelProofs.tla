-------------------------- MODULE HostKernelProofs --------------------------
(***************************************************************************)
(* The kernel for every set of ids and frames, every capacity and every    *)
(* budget.  First the types.  Then its safety: no invocation is dropped or *)
(* kept twice, none is dispatched more often than its contract and the     *)
(* budget allow, and none after its terminal outcome.  On top of it, the   *)
(* kernel implements InvocationLaw, step by step.                          *)
(***************************************************************************)
EXTENDS HostKernel, FiniteSetTheorems, SequenceTheorems, TLAPS

-----------------------------------------------------------------------------
(* Lemmas about the operators of the kernel                                *)

LEMMA SubIntervalFinite ==
    ASSUME NEW n \in Nat, NEW S \in SUBSET (1..n)
    PROVE  IsFiniteSet(S) /\ Cardinality(S) \in Nat
<1>1. IsFiniteSet(1..n)
    BY FS_Interval
<1>2. IsFiniteSet(S)
    BY <1>1, FS_Subset
<1> QED
    BY <1>2, FS_CardinalityType

\* Listing a finite set yields sequences over it.
LEMMA ListingType ==
    ASSUME NEW S, IsFiniteSet(S), NEW key, NEW l \in Listings(S, key)
    PROVE  /\ l \in Seq(S)
           /\ Len(l) = Cardinality(S) /\ Cardinality(S) \in Nat
           /\ DOMAIN l = 1..Cardinality(S)
<1>1. Cardinality(S) \in Nat
    BY FS_CardinalityType
<1>2. l \in [1..Cardinality(S) -> S]
    BY DEF Listings
<1> QED
    BY <1>1, <1>2, SeqDef

\* Choosing positions of the queue leaves a queue.
LEMMA SelectionType ==
    ASSUME queue \in Seq(Frames),
           NEW positions \in SUBSET DOMAIN queue,
           NEW q \in Selections(positions)
    PROVE  q \in Seq(Frames)
<1>1. PICK l \in Listings(positions, [k \in positions |-> k]) :
            q = [i \in DOMAIN l |-> queue[l[i]]]
    BY DEF Selections
<1>2. Len(queue) \in Nat /\ DOMAIN queue = 1..Len(queue)
    BY LenProperties
<1>3. IsFiniteSet(positions)
    BY <1>2, SubIntervalFinite
<1>4. /\ DOMAIN l = 1..Cardinality(positions)
      /\ Cardinality(positions) \in Nat
      /\ l \in Seq(positions)
    BY <1>3, ListingType
<1>5. \A i \in DOMAIN l : l[i] \in positions
    BY <1>4, ElementOfSeq, LenProperties
<1>6. \A i \in DOMAIN l : queue[l[i]] \in Frames
    BY <1>2, <1>5, ElementOfSeq
<1> QED
    BY <1>1, <1>4, <1>6, IsASeq, SMTT(20)

\* The law's verdict is always a disposition.
LEMMA DispositionType ==
    ASSUME NEW knowledge \in Knowledge, NEW contract, NEW resolution,
           NEW attempts, NEW maxAttempts
    PROVE  RequestDisposition(knowledge, contract, resolution, attempts, maxAttempts)
                \in Dispositions
BY DEF RequestDisposition, UnknownDisposition, ReplayOrExhausted, HasNextAttempt,
       Dispositions, Knowledge

LEMMA KnowledgeAfterLoss ==
    ASSUME NEW knowledge \in Knowledge
    PROVE  AfterWorkerLoss(knowledge) \in Knowledge
BY DEF AfterWorkerLoss, Knowledge

\* Any part of the history that is given an outcome is still a history.
LEMMA SettledType ==
    ASSUME ledger \in [SequenceNumbers -> LedgerEntry],
           NEW S, NEW outcome \in Outcomes
    PROVE  Settled(S, outcome) \in [SequenceNumbers -> LedgerEntry]
BY DEF Settled, LedgerEntry, Outcomes

-----------------------------------------------------------------------------
(* Type correctness.  That only finitely many invocations are pending is   *)
(* what makes the listings of a requeue sequences.                         *)

TypeInv == TypeOK /\ IsFiniteSet(DOMAIN pending)

\* The request a pending entry stands for has all its parts.
LEMMA PendingType ==
    ASSUME TypeOK, NEW id \in DOMAIN pending
    PROVE  /\ pending[id] \in PendingRequest
           /\ pending[id].frame \in Frames
           /\ pending[id].sequence \in SequenceNumbers
           /\ pending[id].contract \in Contracts
           /\ pending[id].knowledge \in Knowledge
           /\ pending[id].attempts \in 0..AttemptLimit
           /\ IsRequest(pending[id].frame) /\ pending[id].frame.id = id
           /\ id \in Ids
BY DEF TypeOK, PendingRequest

LEMMA InitTyped == Init => TypeInv
<1> SUFFICES ASSUME Init PROVE TypeInv
    OBVIOUS
<1>1. DOMAIN pending = {}
    BY DEF Init
<1>2. IsFiniteSet(DOMAIN pending)
    BY <1>1, FS_EmptySet
<1>3. pending \in [DOMAIN pending -> PendingRequest]
    BY <1>1 DEF Init
<1>4. queue \in Seq(Frames)
    BY EmptySeq DEF Init
<1>5. ledger \in [SequenceNumbers -> LedgerEntry]
    BY DEF Init, Unwritten, LedgerEntry, Outcomes
<1>6. phase \in Phases
    BY DEF Init, Phases
<1>7. seed \in {f \in Frames : IsInitialize(f)} \cup {NoFrame} /\ notified \in BOOLEAN
    BY DEF Init
<1>8. nextSequence \in 0..MaxSequence
    BY LimitsAssumption DEF Init
<1> QED
    BY <1>1, <1>2, <1>3, <1>4, <1>5, <1>6, <1>7, <1>8 DEF TypeInv, TypeOK

LEMMA ObserveTyped ==
    ASSUME TypeInv, NEW f \in Frames, ObserveInitialize(f) \/ ObserveInitialized(f)
    PROVE  TypeInv'
BY DEF TypeInv, TypeOK, ObserveInitialize, ObserveInitialized, Phases

LEMMA QueueTyped ==
    ASSUME TypeInv, NEW f \in Frames, QueueClientFrame(f)
    PROVE  TypeInv'
<1>1. queue' \in Seq(Frames)
    BY AppendProperties DEF TypeInv, TypeOK, QueueClientFrame
<1> QED
    BY <1>1 DEF TypeInv, TypeOK, QueueClientFrame, session

LEMMA PopClientFrameTyped ==
    ASSUME TypeInv, PopClientFrame
    PROVE  TypeInv'
<1>1. queue' \in Seq(Frames)
    BY HeadTailProperties DEF TypeInv, TypeOK, PopClientFrame
<1> QED
    BY <1>1 DEF TypeInv, TypeOK, PopClientFrame, session

\* What the kernel makes of a pending request is one again.
LEMMA RedispatchedType ==
    ASSUME NEW request \in PendingRequest, MayRedispatch(request)
    PROVE  /\ Redispatched(request) \in PendingRequest
           /\ Redispatched(request).frame = request.frame
           /\ Redispatched(request).sequence = request.sequence
           /\ Redispatched(request).contract = request.contract
           /\ Redispatched(request).knowledge = "InFlight"
           /\ Redispatched(request).attempts = request.attempts + 1
           /\ Redispatched(request).disposition = None
<1>1. request.attempts \in 0..AttemptLimit /\ request.knowledge \in Knowledge
    BY DEF PendingRequest
<1>2. request.attempts + 1 \in 0..AttemptLimit
    BY <1>1 DEF MayRedispatch, AttemptLimit
<1>3. AfterDispatch(request.knowledge, "Replay") = "InFlight"
    BY DEF MayRedispatch, AfterDispatch
<1> QED
    BY <1>2, <1>3 DEF PendingRequest, Redispatched, Knowledge

LEMMA EntryType ==
    ASSUME NEW entry \in LedgerEntry
    PROVE  DispatchedAgain(entry) \in LedgerEntry /\ Evidenced(entry) \in LedgerEntry
<1>1. entry.dispatches + 1 \in Nat
    BY DEF LedgerEntry
<1>2. DispatchedAgain(entry) \in LedgerEntry
    BY <1>1 DEF LedgerEntry, DispatchedAgain
<1>3. Evidenced(entry) \in LedgerEntry
    BY DEF LedgerEntry, Evidenced
<1> QED
    BY <1>2, <1>3

\* Replacing one pending request by another with the same frame.
LEMMA ReplacedType ==
    ASSUME TypeInv, NEW id \in DOMAIN pending, NEW request \in PendingRequest,
           request.frame = pending[id].frame,
           pending' = [pending EXCEPT ![id] = request]
    PROVE  /\ DOMAIN pending' = DOMAIN pending
           /\ pending' \in [DOMAIN pending' -> PendingRequest]
           /\ \A i \in DOMAIN pending' :
                IsRequest(pending'[i].frame) /\ pending'[i].frame.id = i
<1>1. pending \in [DOMAIN pending -> PendingRequest]
    BY DEF TypeInv, TypeOK
<1>2. /\ pending' \in [DOMAIN pending -> PendingRequest]
      /\ \A i \in DOMAIN pending : pending'[i].frame = pending[i].frame
    BY <1>1
<1>3. DOMAIN pending' = DOMAIN pending
    BY <1>2
<1> QED
    BY <1>2, <1>3 DEF TypeInv, TypeOK

LEMMA PopReplayTyped ==
    ASSUME TypeInv, PopReplay
    PROVE  TypeInv'
<1> DEFINE id == Head(queue).id
<1>1. id \in DOMAIN pending /\ MayRedispatch(pending[id])
    BY DEF PopReplay, NamesPending
<1>2. pending[id] \in PendingRequest /\ pending[id].sequence \in SequenceNumbers
    BY <1>1, PendingType DEF TypeInv
<1>3. /\ Redispatched(pending[id]) \in PendingRequest
      /\ Redispatched(pending[id]).frame = pending[id].frame
    BY <1>1, <1>2, RedispatchedType
<1>4. pending' = [pending EXCEPT ![id] = Redispatched(pending[id])]
    BY DEF PopReplay
<1>5. /\ DOMAIN pending' = DOMAIN pending
      /\ pending' \in [DOMAIN pending' -> PendingRequest]
      /\ \A i \in DOMAIN pending' :
            IsRequest(pending'[i].frame) /\ pending'[i].frame.id = i
    BY <1>1, <1>3, <1>4, ReplacedType
<1>6. ledger' \in [SequenceNumbers -> LedgerEntry]
    BY <1>2, EntryType DEF TypeInv, TypeOK, PopReplay
<1>7. queue' \in Seq(Frames)
    BY HeadTailProperties DEF TypeInv, TypeOK, PopReplay
<1> QED
    BY <1>5, <1>6, <1>7 DEF TypeInv, TypeOK, PopReplay, session

LEMMA BeginTyped ==
    ASSUME TypeInv, NEW f \in Frames, NEW contract \in Contracts,
           BeginRequestDispatch(f, contract)
    PROVE  TypeInv'
<1>1. f.id \in Ids /\ IsRequest(f)
    BY FramesAssumption DEF BeginRequestDispatch, MayBegin, IsRequest
<1>2. nextSequence \in SequenceNumbers /\ nextSequence + 1 \in 0..MaxSequence
    BY LimitsAssumption
    DEF TypeInv, TypeOK, BeginRequestDispatch, MayBegin, SequenceNumbers
<1>3. FirstDispatchOf(f, contract) \in PendingRequest
    BY <1>2 DEF FirstDispatchOf, PendingRequest, Knowledge, AttemptLimit
<1>4. /\ DOMAIN pending' = DOMAIN pending \cup {f.id}
      /\ \A i \in DOMAIN pending' :
            pending'[i] = IF i = f.id THEN FirstDispatchOf(f, contract) ELSE pending[i]
      /\ pending' = [i \in DOMAIN pending' |-> pending'[i]]
    BY DEF BeginRequestDispatch
<1>5. pending' \in [DOMAIN pending' -> PendingRequest]
    BY <1>3, <1>4 DEF TypeInv, TypeOK
<1>6. \A i \in DOMAIN pending' : IsRequest(pending'[i].frame) /\ pending'[i].frame.id = i
    BY <1>1, <1>4 DEF TypeInv, TypeOK, FirstDispatchOf
<1>7. IsFiniteSet(DOMAIN pending') /\ DOMAIN pending' \subseteq Ids
    <2>1. IsFiniteSet(DOMAIN pending) /\ DOMAIN pending \subseteq Ids
        BY DEF TypeInv, TypeOK
    <2>2. IsFiniteSet(DOMAIN pending \cup {f.id})
        BY <2>1, FS_AddElement
    <2> QED
        BY <1>1, <1>4, <2>1, <2>2
<1>8. ledger' \in [SequenceNumbers -> LedgerEntry]
    BY <1>2 DEF TypeInv, TypeOK, BeginRequestDispatch, LedgerEntry
<1>9. /\ phase' \in Phases
      /\ seed' \in {g \in Frames : IsInitialize(g)} \cup {NoFrame}
    BY DEF TypeInv, TypeOK, BeginRequestDispatch, Phases
<1> QED
    BY <1>2, <1>5, <1>6, <1>7, <1>8, <1>9 DEF TypeInv, TypeOK, BeginRequestDispatch

\* Removing a pending request leaves the others as they were.
LEMMA WithoutType ==
    ASSUME TypeInv, NEW id \in DOMAIN pending, pending' = Without(pending, {id})
    PROVE  /\ DOMAIN pending' = DOMAIN pending \ {id}
           /\ pending' \in [DOMAIN pending' -> PendingRequest]
           /\ \A i \in DOMAIN pending' : pending'[i] = pending[i]
           /\ \A i \in DOMAIN pending' :
                IsRequest(pending'[i].frame) /\ pending'[i].frame.id = i
           /\ IsFiniteSet(DOMAIN pending')
<1>1. /\ DOMAIN pending' = DOMAIN pending \ {id}
      /\ \A i \in DOMAIN pending' : pending'[i] = pending[i]
      /\ pending' = [i \in DOMAIN pending' |-> pending'[i]]
    BY DEF Without
<1>2. pending \in [DOMAIN pending -> PendingRequest]
    BY DEF TypeInv, TypeOK
<1>3. pending' \in [DOMAIN pending' -> PendingRequest]
    BY <1>1, <1>2
<1>4. IsFiniteSet(DOMAIN pending')
    BY <1>1, FS_Subset DEF TypeInv
<1> QED
    BY <1>1, <1>3, <1>4 DEF TypeInv, TypeOK

LEMMA WithoutRequestType ==
    ASSUME TypeInv, NEW id, NEW q \in WithoutRequest(id)
    PROVE  q \in Seq(Frames)
BY SelectionType DEF TypeInv, TypeOK, WithoutRequest

\* An invocation leaves the kernel with a terminal outcome.
LEMMA SettlingTyped ==
    ASSUME TypeInv, NEW id \in DOMAIN pending, NEW outcome \in Outcomes,
           pending' = Without(pending, {id}),
           queue' \in WithoutRequest(id),
           ledger' = Settled({pending[id].sequence}, outcome),
           nextSequence' = nextSequence,
           phase' \in Phases,
           seed' \in {f \in Frames : IsInitialize(f)} \cup {NoFrame},
           notified' \in BOOLEAN
    PROVE  TypeInv'
<1>1. queue' \in Seq(Frames)
    BY WithoutRequestType
<1>2. ledger' \in [SequenceNumbers -> LedgerEntry]
    BY SettledType DEF TypeInv, TypeOK
<1> QED
    BY <1>1, <1>2, WithoutType DEF TypeInv, TypeOK

LEMMA CompleteResponseTyped ==
    ASSUME TypeInv, NEW id \in Ids, NEW hasError \in BOOLEAN,
           CompleteResponse(id, hasError)
    PROVE  TypeInv'
<1>1. /\ phase' \in Phases
      /\ seed' \in {f \in Frames : IsInitialize(f)} \cup {NoFrame}
      /\ notified' \in BOOLEAN
    BY DEF TypeInv, TypeOK, CompleteResponse, session, Phases
<1> QED
    BY <1>1, SettlingTyped DEF CompleteResponse, Outcomes

LEMMA ProbeSettlesTyped ==
    ASSUME TypeInv, NEW id \in Ids, NEW resolution,
           ProbeCompletes(id, resolution) \/ ProbeExhausted(id, resolution)
    PROVE  TypeInv'
<1>1. /\ phase' \in Phases
      /\ seed' \in {f \in Frames : IsInitialize(f)} \cup {NoFrame}
      /\ notified' \in BOOLEAN
    BY DEF TypeInv, TypeOK, ProbeCompletes, ProbeExhausted, session
<1> QED
    BY <1>1, SettlingTyped DEF ProbeCompletes, ProbeExhausted, Held, Outcomes

LEMMA ProbeAuthorizesTyped ==
    ASSUME TypeInv, NEW id \in Ids, NEW resolution,
           ProbeAuthorizesReplay(id, resolution)
    PROVE  TypeInv'
<1>1. id \in DOMAIN pending
    BY DEF ProbeAuthorizesReplay, Held
<1>2. pending[id] \in PendingRequest /\ pending[id].sequence \in SequenceNumbers
    BY <1>1, PendingType DEF TypeInv
<1>3. /\ Authorized(pending[id]) \in PendingRequest
      /\ Authorized(pending[id]).frame = pending[id].frame
    BY <1>2 DEF Authorized, PendingRequest, Dispositions
<1>4. pending' = [pending EXCEPT ![id] = Authorized(pending[id])]
    BY DEF ProbeAuthorizesReplay
<1>5. /\ DOMAIN pending' = DOMAIN pending
      /\ pending' \in [DOMAIN pending' -> PendingRequest]
      /\ \A i \in DOMAIN pending' :
            IsRequest(pending'[i].frame) /\ pending'[i].frame.id = i
    BY <1>1, <1>3, <1>4, ReplacedType
<1>6. ledger' \in [SequenceNumbers -> LedgerEntry]
    BY <1>2, EntryType DEF TypeInv, TypeOK, ProbeAuthorizesReplay
<1> QED
    BY <1>5, <1>6 DEF TypeInv, TypeOK, ProbeAuthorizesReplay, session

LEMMA ScheduledType ==
    ASSUME TypeInv, NEW id \in DOMAIN pending
    PROVE  /\ Scheduled(id) \in PendingRequest
           /\ Scheduled(id).frame = pending[id].frame
           /\ Scheduled(id).sequence = pending[id].sequence
           /\ Scheduled(id).contract = pending[id].contract
           /\ Scheduled(id).attempts = pending[id].attempts
           /\ Scheduled(id).knowledge = AfterWorkerLoss(pending[id].knowledge)
           /\ Scheduled(id).disposition = LossDisposition(id)
<1>1. pending[id] \in PendingRequest /\ pending[id].knowledge \in Knowledge
    BY PendingType DEF TypeInv
<1>2. AfterWorkerLoss(pending[id].knowledge) \in Knowledge
    BY <1>1, KnowledgeAfterLoss
<1>3. LossDisposition(id) \in Dispositions
    BY <1>2, DispositionType DEF LossDisposition
<1> QED
    BY <1>1, <1>2, <1>3 DEF Scheduled, PendingRequest

LEMMA RequeueTyped ==
    ASSUME TypeInv, RequeuePendingForReplay
    PROVE  TypeInv'
<1>1. Rescheduled \subseteq DOMAIN pending
    BY DEF Rescheduled, Replayable
<1>2. /\ DOMAIN pending' = Rescheduled
      /\ \A i \in Rescheduled : pending'[i] = Scheduled(i)
      /\ pending' = [i \in Rescheduled |-> pending'[i]]
    BY DEF RequeuePendingForReplay
<1>3. pending' \in [DOMAIN pending' -> PendingRequest]
    BY <1>1, <1>2, ScheduledType
<1>4. \A i \in DOMAIN pending' :
            IsRequest(pending'[i].frame) /\ pending'[i].frame.id = i
    BY <1>1, <1>2, ScheduledType DEF TypeInv, TypeOK
<1>5. IsFiniteSet(Rescheduled) /\ Rescheduled \subseteq Ids
    BY <1>1, FS_Subset DEF TypeInv, TypeOK
<1>6. \A recovered \in RecoveryQueues : recovered \in Seq(Frames)
    <2> SUFFICES ASSUME NEW l \in Listings(Rescheduled,
                            [id \in Rescheduled |-> pending[id].sequence])
                 PROVE  [i \in DOMAIN l |-> pending[l[i]].frame] \in Seq(Frames)
        BY DEF RecoveryQueues
    <2>1. /\ l \in Seq(Rescheduled) /\ Cardinality(Rescheduled) \in Nat
          /\ DOMAIN l = 1..Cardinality(Rescheduled)
        BY <1>5, ListingType
    <2>2. \A i \in DOMAIN l : l[i] \in DOMAIN pending
        BY <1>1, <2>1, ElementOfSeq, LenProperties
    <2>3. \A i \in DOMAIN l : pending[l[i]].frame \in Frames
        BY <2>2, PendingType DEF TypeInv
    <2> QED
        BY <2>1, <2>3, IsASeq
<1>7. \A backlog \in Selections(BacklogPositions) : backlog \in Seq(Frames)
    BY SelectionType DEF BacklogPositions, TypeInv, TypeOK
<1>8. queue' \in Seq(Frames)
    BY <1>6, <1>7, ConcatProperties DEF RequeuePendingForReplay
<1>9. ledger' \in [SequenceNumbers -> LedgerEntry]
    <2> DEFINE rejected == {pending[id].sequence : id \in DOMAIN pending \ Rescheduled}
    <2>1. Settled(rejected, "Rejected") \in [SequenceNumbers -> LedgerEntry]
        BY SettledType DEF TypeInv, TypeOK, Outcomes
    <2> QED
        BY <2>1 DEF RequeuePendingForReplay, Unevidenced, LedgerEntry
<1> QED
    BY <1>2, <1>3, <1>4, <1>5, <1>8, <1>9
    DEF TypeInv, TypeOK, RequeuePendingForReplay, session

LEMMA NextTyped == TypeInv /\ [Next]_vars => TypeInv'
<1> SUFFICES ASSUME TypeInv, [Next]_vars PROVE TypeInv'
    OBVIOUS
<1>1. ASSUME NEW f \in Frames, ObserveInitialize(f) \/ ObserveInitialized(f)
      PROVE  TypeInv'
    BY <1>1, ObserveTyped
<1>2. ASSUME NEW f \in Frames, QueueClientFrame(f) PROVE TypeInv'
    BY <1>2, QueueTyped
<1>3. ASSUME NEW f \in Frames, NEW contract \in Contracts,
             BeginRequestDispatch(f, contract)
      PROVE  TypeInv'
    BY <1>3, BeginTyped
<1>4. ASSUME PopClientFrame PROVE TypeInv'
    BY <1>4, PopClientFrameTyped
<1>5. ASSUME PopReplay PROVE TypeInv'
    BY <1>5, PopReplayTyped
<1>6. ASSUME NEW id \in Ids, NEW hasError \in BOOLEAN, CompleteResponse(id, hasError)
      PROVE  TypeInv'
    BY <1>6, CompleteResponseTyped
<1>7. ASSUME RequeuePendingForReplay PROVE TypeInv'
    BY <1>7, RequeueTyped
<1>8. ASSUME NEW id \in Ids, NEW resolution \in Resolutions,
             \/ ProbeAuthorizesReplay(id, resolution)
             \/ ProbeCompletes(id, resolution) \/ ProbeExhausted(id, resolution)
      PROVE  TypeInv'
    BY <1>8, ProbeAuthorizesTyped, ProbeSettlesTyped
<1>9. CASE UNCHANGED vars
    BY <1>9 DEF TypeInv, TypeOK, vars
<1> QED
    BY <1>1, <1>2, <1>3, <1>4, <1>5, <1>6, <1>7, <1>8, <1>9 DEF Next

\* In every reachable state of the kernel its variables have their types: in
\* particular the queue is a sequence of client frames and every pending entry
\* is filed under the id of its own frame, for any capacities.
THEOREM TypeCorrect == Spec => []TypeOK
<1>1. Spec => []TypeInv
    BY InitTyped, NextTyped, PTL DEF Spec
<1>2. TypeInv => TypeOK
    BY DEF TypeInv
<1> QED
    BY <1>1, <1>2, PTL

-----------------------------------------------------------------------------
(* The inductive invariant.  None of the properties is inductive alone: a  *)
(* redispatch stays within the budget only because the scheduled           *)
(* disposition still agrees with the attempts, and a terminal outcome is   *)
(* final only because each open invocation has one pending entry.          *)

LedgerPrefix ==
    \A s \in SequenceNumbers : ledger[s].outcome # "Absent" <=> s < nextSequence

AbsentUndispatched ==
    \A s \in SequenceNumbers :
        ledger[s].outcome = "Absent" => ledger[s].dispatches = 0

PendingOpen ==
    \A id \in DOMAIN pending :
        /\ ledger[pending[id].sequence].outcome = "Open"
        /\ ledger[pending[id].sequence].contract = pending[id].contract

PendingDistinct ==
    \A i, j \in DOMAIN pending : pending[i].sequence = pending[j].sequence => i = j

OpenPending ==
    \A s \in SequenceNumbers :
        ledger[s].outcome = "Open" =>
            \E id \in DOMAIN pending : pending[id].sequence = s

\* A scheduled replay has the authority AuthorizedRepetition asks for.
ReplayIsAuthorized ==
    \A id \in DOMAIN pending :
        pending[id].disposition = "Replay" =>
            \/ pending[id].contract = "Convergent"
            \/ /\ pending[id].contract = "ProbeRequired"
               /\ ledger[pending[id].sequence].evidence

Accounted ==
    /\ LedgerPrefix /\ AbsentUndispatched
    /\ PendingOpen /\ PendingDistinct /\ OpenPending

Lawful == AttemptsAreDispatches /\ BoundedDispatch /\ ReplayIsAuthorized

SafetyInv == TypeInv /\ Accounted /\ Lawful

-----------------------------------------------------------------------------
(* What an action does to the pending map and the history, point by point. *)

\* One pending request is replaced by another of the same invocation.
LEMMA ReplacedAt ==
    ASSUME TypeInv, NEW id \in DOMAIN pending, NEW request,
           pending' = [pending EXCEPT ![id] = request]
    PROVE  /\ DOMAIN pending' = DOMAIN pending
           /\ pending'[id] = request
           /\ \A i \in DOMAIN pending \ {id} : pending'[i] = pending[i]
<1>1. pending \in [DOMAIN pending -> PendingRequest]
    BY DEF TypeInv, TypeOK
<1> QED
    BY <1>1

\* One entry of the history is replaced.
LEMMA LedgerAt ==
    ASSUME TypeInv, NEW s \in SequenceNumbers, NEW entry,
           ledger' = [ledger EXCEPT ![s] = entry]
    PROVE  /\ ledger'[s] = entry
           /\ \A n \in SequenceNumbers \ {s} : ledger'[n] = ledger[n]
<1>1. ledger \in [SequenceNumbers -> LedgerEntry]
    BY DEF TypeInv, TypeOK
<1> QED
    BY <1>1

LEMMA DispatchedAgainFields ==
    ASSUME NEW entry \in LedgerEntry
    PROVE  /\ DispatchedAgain(entry).dispatches = entry.dispatches + 1
           /\ DispatchedAgain(entry).contract = entry.contract
           /\ DispatchedAgain(entry).evidence = entry.evidence
           /\ DispatchedAgain(entry).outcome = entry.outcome
BY DEF LedgerEntry, DispatchedAgain

LEMMA EvidencedFields ==
    ASSUME NEW entry \in LedgerEntry
    PROVE  /\ Evidenced(entry).dispatches = entry.dispatches
           /\ Evidenced(entry).contract = entry.contract
           /\ Evidenced(entry).evidence = TRUE
           /\ Evidenced(entry).outcome = entry.outcome
BY DEF LedgerEntry, Evidenced

LEMMA SettledFields ==
    ASSUME TypeInv, NEW S, NEW outcome, NEW s \in SequenceNumbers
    PROVE  /\ Settled(S, outcome)[s].outcome =
                    IF s \in S THEN outcome ELSE ledger[s].outcome
           /\ s \notin S => Settled(S, outcome)[s] = ledger[s]
           /\ Settled(S, outcome)[s].dispatches = ledger[s].dispatches
           /\ Settled(S, outcome)[s].contract = ledger[s].contract
           /\ Settled(S, outcome)[s].evidence = ledger[s].evidence
<1>1. ledger[s] \in LedgerEntry
    BY DEF TypeInv, TypeOK
<1> QED
    BY <1>1 DEF Settled, LedgerEntry

LEMMA UnevidencedFields ==
    ASSUME NEW history \in [SequenceNumbers -> LedgerEntry], NEW s \in SequenceNumbers
    PROVE  /\ Unevidenced(history)[s].outcome = history[s].outcome
           /\ Unevidenced(history)[s].dispatches = history[s].dispatches
           /\ Unevidenced(history)[s].contract = history[s].contract
           /\ Unevidenced(history)[s].evidence = FALSE
<1>1. history[s] \in LedgerEntry
    OBVIOUS
<1> QED
    BY <1>1 DEF Unevidenced, LedgerEntry

-----------------------------------------------------------------------------
(* The recovery law                                                        *)

\* A verdict on an invocation nobody asked a consumer about: repetition is
\* authorized by the contract alone and within the budget.
LEMMA VerdictWithoutEvidence ==
    ASSUME NEW knowledge \in Knowledge, NEW contract \in Contracts,
           NEW attempts \in 0..AttemptLimit,
           NEW verdict \in {"Replay", "HoldForProbe"},
           RequestDisposition(knowledge, contract, None, attempts, MaxAttempts) = verdict
    PROVE  /\ knowledge = "OutcomeUnknown"
           /\ contract # "NeverReplay"
           /\ verdict = "Replay" => contract = "Convergent" /\ attempts < MaxAttempts
<1>1. knowledge = "OutcomeUnknown"
    BY DEF RequestDisposition, Knowledge, None
<1>2. UnknownDisposition(contract, None, attempts, MaxAttempts) = verdict
    BY <1>1 DEF RequestDisposition, None
<1>3. contract # "NeverReplay"
    BY <1>2 DEF UnknownDisposition
<1>4. ASSUME verdict = "Replay" PROVE contract = "Convergent" /\ attempts < MaxAttempts
    <2>1. contract # "ProbeRequired"
        BY <1>2, <1>4 DEF UnknownDisposition
    <2>2. contract = "Convergent"
        BY <1>3, <2>1 DEF Contracts
    <2>3. ReplayOrExhausted(attempts, MaxAttempts) = "Replay"
        BY <1>2, <1>4, <2>2 DEF UnknownDisposition
    <2>4. attempts + 1 <= MaxAttempts
        BY <2>3 DEF ReplayOrExhausted, HasNextAttempt
    <2> QED
        BY <2>2, <2>4, LimitsAssumption DEF AttemptLimit
<1> QED
    BY <1>1, <1>3, <1>4

\* Evidence authorizes a repetition only of an unknown outcome under a
\* contract that asks for a probe, and only within the budget.
LEMMA VerdictOnEvidence ==
    ASSUME NEW knowledge \in Knowledge, NEW contract \in Contracts,
           NEW attempts \in 0..AttemptLimit, NEW resolution \in Resolutions,
           RequestDisposition(knowledge, contract, resolution, attempts, MaxAttempts)
                = "Replay"
    PROVE  /\ knowledge = "OutcomeUnknown"
           /\ contract = "ProbeRequired"
           /\ attempts < MaxAttempts
<1>1. resolution # None
    BY DEF Resolutions, None
<1>2. knowledge = "OutcomeUnknown" /\ contract = "ProbeRequired"
    BY <1>1 DEF RequestDisposition
<1>3. UnknownDisposition(contract, resolution, attempts, MaxAttempts) = "Replay"
    BY <1>1, <1>2 DEF RequestDisposition
<1>4. ReplayOrExhausted(attempts, MaxAttempts) = "Replay"
    BY <1>1, <1>2, <1>3 DEF UnknownDisposition, Resolutions
<1>5. attempts + 1 <= MaxAttempts
    BY <1>4 DEF ReplayOrExhausted, HasNextAttempt
<1> QED
    BY <1>2, <1>5, LimitsAssumption DEF AttemptLimit

-----------------------------------------------------------------------------
(* Initial states, and the actions that touch neither the pending map nor  *)
(* the history                                                             *)

LEMMA InitSafe == Init => SafetyInv
<1> SUFFICES ASSUME Init PROVE SafetyInv
    OBVIOUS
<1>1. TypeInv
    BY InitTyped
<1>2. DOMAIN pending = {}
    BY DEF Init
<1>3. \A s \in SequenceNumbers : ledger[s] = Unwritten
    BY DEF Init
<1>4. nextSequence = 0 /\ \A s \in SequenceNumbers : ~ (s < nextSequence)
    BY DEF Init, SequenceNumbers
<1>5. LedgerPrefix /\ AbsentUndispatched
    BY <1>3, <1>4 DEF LedgerPrefix, AbsentUndispatched, Unwritten
<1>6. PendingOpen /\ PendingDistinct /\ AttemptsAreDispatches /\ ReplayIsAuthorized
    BY <1>2 DEF PendingOpen, PendingDistinct, AttemptsAreDispatches, ReplayIsAuthorized
<1>7. OpenPending
    BY <1>3 DEF OpenPending, Unwritten
<1>8. BoundedDispatch
    BY <1>3, LimitsAssumption DEF BoundedDispatch, Unwritten, None, AttemptLimit
<1> QED
    BY <1>1, <1>5, <1>6, <1>7, <1>8 DEF SafetyInv, Accounted, Lawful

LEMMA UntouchedSafe ==
    ASSUME SafetyInv, TypeInv', UNCHANGED <<pending, nextSequence, ledger>>
    PROVE  SafetyInv'
<1>1. Accounted'
    BY DEF SafetyInv, Accounted, LedgerPrefix, AbsentUndispatched, PendingOpen,
           PendingDistinct, OpenPending
<1>2. Lawful'
    BY DEF SafetyInv, Lawful, AttemptsAreDispatches, BoundedDispatch, ReplayIsAuthorized
<1> QED
    BY <1>1, <1>2 DEF SafetyInv

-----------------------------------------------------------------------------
(* begin_request_dispatch                                                  *)

LEMMA BeginSafe ==
    ASSUME SafetyInv, TypeInv', NEW f \in Frames, NEW contract \in Contracts,
           BeginRequestDispatch(f, contract)
    PROVE  SafetyInv'
<1> DEFINE first == FirstDispatchOf(f, contract)
<1> DEFINE entry == [contract |-> contract, dispatches |-> 1, evidence |-> FALSE,
                     outcome |-> "Open"]
<1> USE DEF SafetyInv
<1>1. /\ f.id \notin DOMAIN pending
      /\ DOMAIN pending' = DOMAIN pending \cup {f.id}
      /\ pending'[f.id] = first
      /\ \A i \in DOMAIN pending : pending'[i] = pending[i]
    BY DEF BeginRequestDispatch, MayBegin
<1>2. /\ first.sequence = nextSequence /\ first.contract = contract
      /\ first.attempts = 0 /\ first.knowledge = "InFlight"
      /\ first.disposition = None
    BY DEF FirstDispatchOf
<1>3. nextSequence \in SequenceNumbers /\ nextSequence' = nextSequence + 1
    BY LimitsAssumption
    DEF TypeInv, TypeOK, BeginRequestDispatch, MayBegin, SequenceNumbers
<1>4. /\ ledger'[nextSequence] = entry
      /\ \A s \in SequenceNumbers \ {nextSequence} : ledger'[s] = ledger[s]
    BY <1>3, LedgerAt DEF BeginRequestDispatch
<1>5. \A s \in SequenceNumbers : s < nextSequence' <=> s < nextSequence \/ s = nextSequence
    BY <1>3 DEF SequenceNumbers
<1>6. \A i \in DOMAIN pending :
            pending[i].sequence \in SequenceNumbers /\ pending[i].sequence # nextSequence
    <2> SUFFICES ASSUME NEW i \in DOMAIN pending
                 PROVE  /\ pending[i].sequence \in SequenceNumbers
                        /\ pending[i].sequence # nextSequence
        OBVIOUS
    <2>1. pending[i].sequence \in SequenceNumbers
        BY PendingType DEF TypeInv
    <2>2. pending[i].sequence < nextSequence
        BY <2>1 DEF Accounted, PendingOpen, LedgerPrefix
    <2> QED
        BY <2>1, <2>2 DEF SequenceNumbers
<1>7. LedgerPrefix' /\ AbsentUndispatched'
    BY <1>4, <1>5 DEF Accounted, LedgerPrefix, AbsentUndispatched
<1>8. PendingOpen'
    BY <1>1, <1>2, <1>4, <1>6 DEF Accounted, PendingOpen
<1>9. PendingDistinct'
    BY <1>1, <1>2, <1>6 DEF Accounted, PendingDistinct
<1>10. OpenPending'
    BY <1>1, <1>2, <1>4 DEF Accounted, OpenPending
<1>11. AttemptsAreDispatches'
    <2> SUFFICES ASSUME NEW i \in DOMAIN pending'
                 PROVE  /\ ledger'[pending'[i].sequence].dispatches
                                = pending'[i].attempts + 1
                        /\ pending'[i].attempts <= MaxAttempts
                        /\ pending'[i].contract = "NeverReplay" => pending'[i].attempts = 0
                        /\ pending'[i].disposition = None
                                <=> pending'[i].knowledge = "InFlight"
                        /\ pending'[i].disposition = "Replay"
                                => pending'[i].attempts < MaxAttempts
        BY DEF AttemptsAreDispatches
    <2>1. CASE i = f.id
        BY <1>1, <1>2, <1>4, <2>1, LimitsAssumption DEF None, AttemptLimit
    <2>2. CASE i # f.id
        BY <1>1, <1>4, <1>6, <2>2 DEF Lawful, AttemptsAreDispatches
    <2> QED
        BY <2>1, <2>2
<1>12. BoundedDispatch'
    BY <1>4, LimitsAssumption DEF Lawful, BoundedDispatch, AttemptLimit
<1>13. ReplayIsAuthorized'
    BY <1>1, <1>2, <1>4, <1>6 DEF Lawful, ReplayIsAuthorized, None
<1> QED
    BY <1>7, <1>8, <1>9, <1>10, <1>11, <1>12, <1>13 DEF Accounted, Lawful

-----------------------------------------------------------------------------
(* pop_next_dispatch and resolve_probe: one pending request changes with   *)
(* its history entry, and keeps its sequence number and contract.          *)

\* The attempt counted and the scheduled disposition are those of the law.
LawfulRequest(request, entry) ==
    /\ entry.dispatches = request.attempts + 1
    /\ request.attempts <= MaxAttempts
    /\ request.contract = "NeverReplay" => request.attempts = 0
    /\ request.disposition = None <=> request.knowledge = "InFlight"
    /\ request.disposition = "Replay" =>
        /\ request.attempts < MaxAttempts
        /\ \/ request.contract = "Convergent"
           \/ request.contract = "ProbeRequired" /\ entry.evidence

LEMMA LawfulRequests ==
    ASSUME SafetyInv, NEW id \in DOMAIN pending
    PROVE  LawfulRequest(pending[id], ledger[pending[id].sequence])
BY DEF SafetyInv, Lawful, AttemptsAreDispatches, ReplayIsAuthorized, LawfulRequest

LEMMA ChangedSafe ==
    ASSUME SafetyInv, TypeInv', NEW id \in DOMAIN pending,
           NEW request, NEW entry,
           pending' = [pending EXCEPT ![id] = request],
           ledger' = [ledger EXCEPT ![pending[id].sequence] = entry],
           nextSequence' = nextSequence,
           request.sequence = pending[id].sequence,
           request.contract = pending[id].contract,
           entry.outcome = ledger[pending[id].sequence].outcome,
           entry.contract = ledger[pending[id].sequence].contract,
           LawfulRequest(request, entry)
    PROVE  SafetyInv'
<1> DEFINE n == pending[id].sequence
<1> USE DEF SafetyInv
<1>1. n \in SequenceNumbers
    BY PendingType DEF TypeInv
<1>2. /\ DOMAIN pending' = DOMAIN pending
      /\ pending'[id] = request
      /\ \A i \in DOMAIN pending \ {id} : pending'[i] = pending[i]
    BY ReplacedAt
<1>3. /\ ledger'[n] = entry
      /\ \A s \in SequenceNumbers \ {n} : ledger'[s] = ledger[s]
    BY <1>1, LedgerAt
<1>4. \A i \in DOMAIN pending \ {id} :
            pending[i].sequence \in SequenceNumbers \ {n}
    BY PendingType DEF TypeInv, Accounted, PendingDistinct
<1>5. \A i \in DOMAIN pending : pending'[i].sequence = pending[i].sequence
    BY <1>2
<1>6. \A s \in SequenceNumbers :
            /\ ledger'[s].outcome = ledger[s].outcome
            /\ ledger'[s].contract = ledger[s].contract
    BY <1>3
<1>7. LedgerPrefix' /\ AbsentUndispatched'
    <2>1. entry.outcome # "Absent"
        BY DEF Accounted, PendingOpen
    <2> QED
        BY <1>3, <1>6, <2>1 DEF Accounted, LedgerPrefix, AbsentUndispatched
<1>8. PendingOpen'
    BY <1>1, <1>2, <1>4, <1>6 DEF Accounted, PendingOpen
<1>9. PendingDistinct'
    BY <1>2, <1>5 DEF Accounted, PendingDistinct
<1>10. OpenPending'
    BY <1>2, <1>5, <1>6 DEF Accounted, OpenPending
<1>11. \A i \in DOMAIN pending' : LawfulRequest(pending'[i], ledger'[pending'[i].sequence])
    <2> SUFFICES ASSUME NEW i \in DOMAIN pending'
                 PROVE  LawfulRequest(pending'[i], ledger'[pending'[i].sequence])
        OBVIOUS
    <2>1. CASE i = id
        BY <1>2, <1>3, <2>1
    <2>2. CASE i # id
        BY <1>2, <1>3, <1>4, <2>2, LawfulRequests
    <2> QED
        BY <2>1, <2>2
<1>12. AttemptsAreDispatches' /\ ReplayIsAuthorized'
    BY <1>11 DEF AttemptsAreDispatches, ReplayIsAuthorized, LawfulRequest
<1>13. BoundedDispatch'
    <2> SUFFICES ASSUME NEW s \in SequenceNumbers
                 PROVE  ledger'[s].dispatches <=
                            IF ledger'[s].contract = "NeverReplay" THEN 1 ELSE 1 + MaxAttempts
        BY DEF BoundedDispatch
    <2>1. CASE s # n
        BY <1>3, <2>1 DEF Lawful, BoundedDispatch
    <2>2. CASE s = n
        <3>1. ledger'[n].contract = request.contract
            BY <1>3 DEF Accounted, PendingOpen
        <3>2. request \in PendingRequest
            BY <1>2, PendingType DEF TypeInv, TypeOK
        <3>3. request.attempts \in Nat
            BY <3>2 DEF PendingRequest
        <3> QED
            BY <1>3, <2>2, <3>1, <3>3, LimitsAssumption DEF LawfulRequest, AttemptLimit
    <2> QED
        BY <2>1, <2>2
<1> QED
    BY <1>7, <1>8, <1>9, <1>10, <1>12, <1>13 DEF Accounted, Lawful

LEMMA NextAttemptFits ==
    ASSUME NEW attempts \in 0..AttemptLimit, attempts < MaxAttempts
    PROVE  attempts + 1 <= MaxAttempts
BY LimitsAssumption DEF AttemptLimit

LEMMA PopReplaySafe ==
    ASSUME SafetyInv, TypeInv', PopReplay
    PROVE  SafetyInv'
<1> DEFINE id == Head(queue).id
<1> DEFINE n == pending[id].sequence
<1>1. id \in DOMAIN pending /\ MayRedispatch(pending[id])
    BY DEF PopReplay, NamesPending
<1>2. /\ pending[id] \in PendingRequest /\ n \in SequenceNumbers
      /\ pending[id].attempts \in 0..AttemptLimit
    BY <1>1, PendingType DEF SafetyInv, TypeInv
<1>3. ledger[n] \in LedgerEntry
    BY <1>2 DEF SafetyInv, TypeInv, TypeOK
<1>4. LawfulRequest(pending[id], ledger[n])
    BY <1>1, LawfulRequests
<1>5. pending[id].disposition = "Replay"
    BY <1>1 DEF MayRedispatch
<1>6. LawfulRequest(Redispatched(pending[id]), DispatchedAgain(ledger[n]))
    <2>1. /\ Redispatched(pending[id]).attempts = pending[id].attempts + 1
          /\ Redispatched(pending[id]).contract = pending[id].contract
          /\ Redispatched(pending[id]).knowledge = "InFlight"
          /\ Redispatched(pending[id]).disposition = None
        BY <1>1, <1>2, RedispatchedType
    <2>2. DispatchedAgain(ledger[n]).dispatches = ledger[n].dispatches + 1
        BY <1>3, DispatchedAgainFields
    <2>3. /\ pending[id].attempts < MaxAttempts
          /\ pending[id].contract # "NeverReplay"
        BY <1>4, <1>5 DEF LawfulRequest
    <2>4. pending[id].attempts + 1 <= MaxAttempts
        BY <1>2, <2>3, NextAttemptFits
    <2> QED
        BY <1>4, <2>1, <2>2, <2>3, <2>4 DEF LawfulRequest, None
<1>7. /\ pending' = [pending EXCEPT ![id] = Redispatched(pending[id])]
      /\ ledger' = [ledger EXCEPT ![n] = DispatchedAgain(ledger[n])]
      /\ nextSequence' = nextSequence
    BY <1>2, <1>3 DEF PopReplay, SafetyInv, TypeInv, TypeOK
<1>8. /\ Redispatched(pending[id]).sequence = n
      /\ Redispatched(pending[id]).contract = pending[id].contract
    BY <1>1, <1>2, RedispatchedType
<1>9. /\ DispatchedAgain(ledger[n]).outcome = ledger[n].outcome
      /\ DispatchedAgain(ledger[n]).contract = ledger[n].contract
    BY <1>3, DispatchedAgainFields
<1> QED
    BY <1>1, <1>6, <1>7, <1>8, <1>9, ChangedSafe

LEMMA ProbeAuthorizesSafe ==
    ASSUME SafetyInv, TypeInv', NEW id \in Ids, NEW resolution \in Resolutions,
           ProbeAuthorizesReplay(id, resolution)
    PROVE  SafetyInv'
<1> DEFINE n == pending[id].sequence
<1>1. id \in DOMAIN pending /\ ProbeDisposition(id, resolution) = "Replay"
    BY DEF ProbeAuthorizesReplay, Held
<1>2. /\ pending[id] \in PendingRequest /\ n \in SequenceNumbers
      /\ pending[id].knowledge \in Knowledge /\ pending[id].contract \in Contracts
      /\ pending[id].attempts \in 0..AttemptLimit
    BY <1>1, PendingType DEF SafetyInv, TypeInv
<1>3. ledger[n] \in LedgerEntry
    BY <1>2 DEF SafetyInv, TypeInv, TypeOK
<1>4. LawfulRequest(pending[id], ledger[n])
    BY <1>1, LawfulRequests
<1>5. /\ pending[id].knowledge = "OutcomeUnknown"
      /\ pending[id].contract = "ProbeRequired"
      /\ pending[id].attempts < MaxAttempts
    BY <1>1, <1>2, VerdictOnEvidence DEF ProbeDisposition
<1>6. /\ Authorized(pending[id]).disposition = "Replay"
      /\ Authorized(pending[id]).sequence = n
      /\ Authorized(pending[id]).contract = pending[id].contract
      /\ Authorized(pending[id]).knowledge = pending[id].knowledge
      /\ Authorized(pending[id]).attempts = pending[id].attempts
    BY <1>2 DEF Authorized, PendingRequest
<1>7. /\ Evidenced(ledger[n]).outcome = ledger[n].outcome
      /\ Evidenced(ledger[n]).contract = ledger[n].contract
      /\ Evidenced(ledger[n]).dispatches = ledger[n].dispatches
      /\ Evidenced(ledger[n]).evidence = TRUE
    BY <1>3, EvidencedFields
<1>8. LawfulRequest(Authorized(pending[id]), Evidenced(ledger[n]))
    BY <1>4, <1>5, <1>6, <1>7 DEF LawfulRequest, None
<1>9. /\ pending' = [pending EXCEPT ![id] = Authorized(pending[id])]
      /\ ledger' = [ledger EXCEPT ![n] = Evidenced(ledger[n])]
      /\ nextSequence' = nextSequence
    BY DEF ProbeAuthorizesReplay
<1> QED
    BY <1>1, <1>6, <1>7, <1>8, <1>9, ChangedSafe

-----------------------------------------------------------------------------
(* complete_response and resolve_probe: an invocation terminates.          *)

LEMMA SettlingSafe ==
    ASSUME SafetyInv, TypeInv', NEW id \in DOMAIN pending, NEW outcome \in Outcomes,
           pending' = Without(pending, {id}),
           ledger' = Settled({pending[id].sequence}, outcome),
           nextSequence' = nextSequence
    PROVE  SafetyInv'
<1> DEFINE n == pending[id].sequence
<1> USE DEF SafetyInv
<1>1. n \in SequenceNumbers
    BY PendingType DEF TypeInv
<1>2. /\ DOMAIN pending' = DOMAIN pending \ {id}
      /\ \A i \in DOMAIN pending' : pending'[i] = pending[i]
    BY WithoutType
<1>3. /\ \A s \in SequenceNumbers \ {n} : ledger'[s] = ledger[s]
      /\ ledger'[n].outcome = outcome
      /\ ledger'[n].dispatches = ledger[n].dispatches
      /\ ledger'[n].contract = ledger[n].contract
    <2>1. \A s \in SequenceNumbers :
            /\ ledger'[s].outcome = IF s \in {n} THEN outcome ELSE ledger[s].outcome
            /\ s \notin {n} => ledger'[s] = ledger[s]
            /\ ledger'[s].dispatches = ledger[s].dispatches
            /\ ledger'[s].contract = ledger[s].contract
        BY SettledFields
    <2> QED
        BY <1>1, <2>1
<1>4. \A i \in DOMAIN pending' :
            pending[i].sequence \in SequenceNumbers \ {n}
    BY <1>2, PendingType DEF TypeInv, Accounted, PendingDistinct
<1>5. \A i \in DOMAIN pending' :
            /\ i \in DOMAIN pending
            /\ pending'[i] = pending[i]
            /\ ledger'[pending'[i].sequence] = ledger[pending[i].sequence]
    <2> SUFFICES ASSUME NEW i \in DOMAIN pending'
                 PROVE  /\ i \in DOMAIN pending
                        /\ pending'[i] = pending[i]
                        /\ ledger'[pending'[i].sequence] = ledger[pending[i].sequence]
        OBVIOUS
    <2>1. i \in DOMAIN pending /\ pending'[i] = pending[i]
        BY <1>2
    <2>2. ledger'[pending[i].sequence] = ledger[pending[i].sequence]
        BY <1>3, <1>4
    <2> QED
        BY <2>1, <2>2
<1>6. outcome # "Absent" /\ outcome # "Open"
    BY DEF Outcomes
<1>7. ledger[n].outcome # "Absent"
    BY DEF Accounted, PendingOpen
<1>8. LedgerPrefix' /\ AbsentUndispatched'
    BY <1>3, <1>6, <1>7 DEF Accounted, LedgerPrefix, AbsentUndispatched
<1>9. PendingOpen'
    <2>1. \A i \in DOMAIN pending :
            /\ ledger[pending[i].sequence].outcome = "Open"
            /\ ledger[pending[i].sequence].contract = pending[i].contract
        BY DEF Accounted, PendingOpen
    <2>2. \A i \in DOMAIN pending' :
            /\ ledger'[pending'[i].sequence].outcome = "Open"
            /\ ledger'[pending'[i].sequence].contract = pending'[i].contract
        BY <1>5, <2>1
    <2> QED
        BY <2>2 DEF PendingOpen
<1>10. PendingDistinct'
    BY <1>5 DEF Accounted, PendingDistinct
<1>11. OpenPending'
    <2> SUFFICES ASSUME NEW s \in SequenceNumbers, ledger'[s].outcome = "Open"
                 PROVE  \E i \in DOMAIN pending' : pending'[i].sequence = s
        BY DEF OpenPending
    <2>1. s # n
        BY <1>3, <1>6
    <2>2. ledger[s].outcome = "Open"
        BY <1>3, <2>1
    <2>3. PICK i \in DOMAIN pending : pending[i].sequence = s
        BY <2>2 DEF Accounted, OpenPending
    <2>4. i \in DOMAIN pending'
        BY <1>2, <2>1, <2>3
    <2> QED
        BY <1>2, <2>3, <2>4
<1>12. \A i \in DOMAIN pending' : LawfulRequest(pending'[i], ledger'[pending'[i].sequence])
    BY <1>5, LawfulRequests
<1>13. AttemptsAreDispatches' /\ ReplayIsAuthorized'
    BY <1>12 DEF AttemptsAreDispatches, ReplayIsAuthorized, LawfulRequest
<1>14. BoundedDispatch'
    BY <1>3 DEF Lawful, BoundedDispatch
<1> QED
    BY <1>8, <1>9, <1>10, <1>11, <1>13, <1>14 DEF Accounted, Lawful

LEMMA TerminationSafe ==
    ASSUME SafetyInv, TypeInv', NEW id \in Ids,
           \/ \E hasError \in BOOLEAN : CompleteResponse(id, hasError)
           \/ \E resolution \in Resolutions :
                ProbeCompletes(id, resolution) \/ ProbeExhausted(id, resolution)
    PROVE  SafetyInv'
<1>1. CASE \E hasError \in BOOLEAN : CompleteResponse(id, hasError)
    BY <1>1, SettlingSafe DEF CompleteResponse, Outcomes
<1>2. CASE \E resolution \in Resolutions : ProbeCompletes(id, resolution)
    BY <1>2, SettlingSafe DEF ProbeCompletes, Held, Outcomes
<1>3. CASE \E resolution \in Resolutions : ProbeExhausted(id, resolution)
    BY <1>3, SettlingSafe DEF ProbeExhausted, Held, Outcomes
<1> QED
    BY <1>1, <1>2, <1>3

-----------------------------------------------------------------------------
(* requeue_pending_for_replay                                              *)

\* A rescheduled invocation waits for what the recovery law decided.
LEMMA ScheduledLawful ==
    ASSUME SafetyInv, NEW id \in Rescheduled, NEW entry,
           entry.dispatches = ledger[pending[id].sequence].dispatches
    PROVE  LawfulRequest(Scheduled(id), entry)
<1>1. id \in DOMAIN pending /\ LossDisposition(id) \in {"Replay", "HoldForProbe"}
    BY DEF Rescheduled, Replayable
<1>2. /\ pending[id].knowledge \in Knowledge /\ pending[id].contract \in Contracts
      /\ pending[id].attempts \in 0..AttemptLimit
    BY <1>1, PendingType DEF SafetyInv, TypeInv
<1>3. AfterWorkerLoss(pending[id].knowledge) \in Knowledge
    BY <1>2, KnowledgeAfterLoss
<1>4. /\ AfterWorkerLoss(pending[id].knowledge) = "OutcomeUnknown"
      /\ LossDisposition(id) = "Replay" =>
            pending[id].contract = "Convergent" /\ pending[id].attempts < MaxAttempts
    BY <1>1, <1>2, <1>3, VerdictWithoutEvidence DEF LossDisposition
<1>5. /\ Scheduled(id).contract = pending[id].contract
      /\ Scheduled(id).attempts = pending[id].attempts
      /\ Scheduled(id).knowledge = "OutcomeUnknown"
      /\ Scheduled(id).disposition = LossDisposition(id)
    BY <1>1, <1>4, ScheduledType DEF SafetyInv
<1>6. LawfulRequest(pending[id], ledger[pending[id].sequence])
    BY <1>1, LawfulRequests
<1> QED
    BY <1>1, <1>4, <1>5, <1>6 DEF LawfulRequest, None

LEMMA RequeueSafe ==
    ASSUME SafetyInv, TypeInv', RequeuePendingForReplay
    PROVE  SafetyInv'
<1> DEFINE rejected == {pending[id].sequence : id \in DOMAIN pending \ Rescheduled}
<1> USE DEF SafetyInv
<1>1. Rescheduled \subseteq DOMAIN pending
    BY DEF Rescheduled, Replayable
<1>2. /\ DOMAIN pending' = Rescheduled
      /\ \A i \in Rescheduled : pending'[i] = Scheduled(i)
    BY DEF RequeuePendingForReplay
<1>3. \A i \in Rescheduled :
            /\ Scheduled(i).sequence = pending[i].sequence
            /\ Scheduled(i).contract = pending[i].contract
            /\ pending[i].sequence \in SequenceNumbers
    BY <1>1, ScheduledType, PendingType DEF TypeInv
<1>4. Settled(rejected, "Rejected") \in [SequenceNumbers -> LedgerEntry]
    BY SettledType DEF TypeInv, TypeOK, Outcomes
<1>5. \A s \in SequenceNumbers :
            /\ ledger'[s].outcome = IF s \in rejected THEN "Rejected" ELSE ledger[s].outcome
            /\ ledger'[s].dispatches = ledger[s].dispatches
            /\ ledger'[s].contract = ledger[s].contract
    <2> DEFINE history == Settled(rejected, "Rejected")
    <2>1. \A s \in SequenceNumbers :
            /\ history[s].outcome = IF s \in rejected THEN "Rejected" ELSE ledger[s].outcome
            /\ history[s].dispatches = ledger[s].dispatches
            /\ history[s].contract = ledger[s].contract
        BY SettledFields
    <2>2. ledger' = Unevidenced(history)
        BY DEF RequeuePendingForReplay
    <2>3. history \in [SequenceNumbers -> LedgerEntry]
        BY <1>4
    <2> HIDE DEF history
    <2>4. \A s \in SequenceNumbers :
            /\ ledger'[s].outcome = history[s].outcome
            /\ ledger'[s].dispatches = history[s].dispatches
            /\ ledger'[s].contract = history[s].contract
        BY <2>2, <2>3, UnevidencedFields
    <2> QED
        BY <2>1, <2>4
<1>6. nextSequence' = nextSequence
    BY DEF RequeuePendingForReplay
<1>7. \A i \in Rescheduled : pending[i].sequence \notin rejected
    BY <1>1 DEF Accounted, PendingDistinct
<1>8. \A s \in rejected : ledger[s].outcome = "Open"
    BY DEF Accounted, PendingOpen
<1>9. LedgerPrefix' /\ AbsentUndispatched'
    BY <1>5, <1>6, <1>8 DEF Accounted, LedgerPrefix, AbsentUndispatched
<1>10. PendingOpen'
    BY <1>1, <1>2, <1>3, <1>5, <1>7 DEF Accounted, PendingOpen
<1>11. PendingDistinct'
    BY <1>1, <1>2, <1>3 DEF Accounted, PendingDistinct
<1>12. OpenPending'
    <2> SUFFICES ASSUME NEW s \in SequenceNumbers, ledger'[s].outcome = "Open"
                 PROVE  \E id \in DOMAIN pending' : pending'[id].sequence = s
        BY DEF OpenPending
    <2>1. s \notin rejected /\ ledger[s].outcome = "Open"
        BY <1>5
    <2>2. PICK id \in DOMAIN pending : pending[id].sequence = s
        BY <2>1 DEF Accounted, OpenPending
    <2>3. id \in Rescheduled
        BY <2>1, <2>2
    <2> QED
        BY <1>2, <1>3, <2>2, <2>3
<1>13. \A i \in DOMAIN pending' : LawfulRequest(pending'[i], ledger'[pending'[i].sequence])
    BY <1>2, <1>3, <1>5, ScheduledLawful
<1>14. AttemptsAreDispatches' /\ ReplayIsAuthorized'
    BY <1>13 DEF AttemptsAreDispatches, ReplayIsAuthorized, LawfulRequest
<1>15. BoundedDispatch'
    BY <1>5 DEF Lawful, BoundedDispatch
<1> QED
    BY <1>9, <1>10, <1>11, <1>12, <1>14, <1>15 DEF Accounted, Lawful

-----------------------------------------------------------------------------
(* The invariant, and the properties that follow from it                   *)

LEMMA NextSafe == SafetyInv /\ [Next]_vars => SafetyInv'
<1> SUFFICES ASSUME SafetyInv, [Next]_vars PROVE SafetyInv'
    OBVIOUS
<1>1. TypeInv'
    BY NextTyped DEF SafetyInv
<1>2. ASSUME NEW f \in Frames,
             ObserveInitialize(f) \/ ObserveInitialized(f) \/ QueueClientFrame(f)
      PROVE  SafetyInv'
    <2>1. UNCHANGED <<pending, nextSequence, ledger>>
        BY <1>2 DEF ObserveInitialize, ObserveInitialized, QueueClientFrame
    <2> QED
        BY <1>1, <2>1, UntouchedSafe
<1>3. ASSUME NEW f \in Frames, NEW contract \in Contracts,
             BeginRequestDispatch(f, contract)
      PROVE  SafetyInv'
    BY <1>1, <1>3, BeginSafe
<1>4. ASSUME PopClientFrame PROVE SafetyInv'
    BY <1>1, <1>4, UntouchedSafe DEF PopClientFrame
<1>5. ASSUME PopReplay PROVE SafetyInv'
    BY <1>1, <1>5, PopReplaySafe
<1>6. ASSUME NEW id \in Ids, NEW hasError \in BOOLEAN, CompleteResponse(id, hasError)
      PROVE  SafetyInv'
    BY <1>1, <1>6, TerminationSafe
<1>7. ASSUME RequeuePendingForReplay PROVE SafetyInv'
    BY <1>1, <1>7, RequeueSafe
<1>8. ASSUME NEW id \in Ids, NEW resolution \in Resolutions,
             ProbeAuthorizesReplay(id, resolution)
      PROVE  SafetyInv'
    BY <1>1, <1>8, ProbeAuthorizesSafe
<1>9. ASSUME NEW id \in Ids, NEW resolution \in Resolutions,
             ProbeCompletes(id, resolution) \/ ProbeExhausted(id, resolution)
      PROVE  SafetyInv'
    BY <1>1, <1>9, TerminationSafe
<1>10. CASE UNCHANGED vars
    BY <1>1, <1>10, UntouchedSafe DEF vars
<1> QED
    BY <1>2, <1>3, <1>4, <1>5, <1>6, <1>7, <1>8, <1>9, <1>10 DEF Next

\* SafetyInv holds in every reachable state of the kernel.
THEOREM Safe == Spec => []SafetyInv
BY InitSafe, NextSafe, PTL DEF Spec

LEMMA SafeAccounts == SafetyInv => NoSilentDrop
<1> SUFFICES ASSUME SafetyInv PROVE NoSilentDrop
    OBVIOUS
<1>1. LedgerPrefix /\ PendingOpen /\ PendingDistinct /\ OpenPending
    BY DEF SafetyInv, Accounted
<1>2. \A id \in DOMAIN pending : pending[id].sequence \in Open
    BY <1>1, PendingType DEF SafetyInv, TypeInv, Open, PendingOpen
<1>3. ASSUME NEW s \in Open
      PROVE  \E id \in DOMAIN pending :
                /\ pending[id].sequence = s
                /\ pending[id].contract = ledger[s].contract
                /\ \A other \in DOMAIN pending :
                        pending[other].sequence = s => other = id
    <2>1. s \in SequenceNumbers /\ ledger[s].outcome = "Open"
        BY <1>3 DEF Open
    <2>2. PICK id \in DOMAIN pending : pending[id].sequence = s
        BY <1>1, <2>1 DEF OpenPending
    <2>3. pending[id].contract = ledger[s].contract
        BY <1>1, <2>2 DEF PendingOpen
    <2>4. \A other \in DOMAIN pending : pending[other].sequence = s => other = id
        BY <1>1, <2>2 DEF PendingDistinct
    <2> QED
        BY <2>2, <2>3, <2>4
<1> QED
    BY <1>1, <1>2, <1>3 DEF NoSilentDrop, LedgerPrefix

\* No invocation is ever dropped in silence or kept twice: until it has an
\* outcome, each accepted one has exactly one pending entry, with the contract
\* it was accepted under, through any sequence of losses, replays, probes,
\* late responses and full queues.
THEOREM NothingDropped == Spec => []NoSilentDrop
BY Safe, SafeAccounts, PTL

\* The attempts the host counts are the redispatches that were made, and what
\* it has scheduled is within the budget of the invocation.
THEOREM AttemptsCounted == Spec => []AttemptsAreDispatches
<1>1. SafetyInv => AttemptsAreDispatches
    BY DEF SafetyInv, Lawful
<1> QED
    BY <1>1, Safe, PTL

\* Over its whole life no invocation is dispatched more often than its
\* contract and the replay budget allow, and a NeverReplay one only once.
THEOREM DispatchBounded == Spec => []BoundedDispatch
<1>1. SafetyInv => BoundedDispatch
    BY DEF SafetyInv, Lawful
<1> QED
    BY <1>1, Safe, PTL

-----------------------------------------------------------------------------
(* What a step never does                                                  *)

\* The step leaves every count of dispatches and every final outcome alone.
Undispatching ==
    \A s \in SequenceNumbers :
        /\ ledger'[s].dispatches = ledger[s].dispatches
        /\ ledger[s].outcome \in Outcomes => ledger'[s].outcome = ledger[s].outcome

LEMMA OpenIsNotFinal ==
    ASSUME SafetyInv, NEW id \in DOMAIN pending
    PROVE  /\ pending[id].sequence \in SequenceNumbers
           /\ ledger[pending[id].sequence].outcome \notin Outcomes
<1>1. pending[id].sequence \in SequenceNumbers
    BY PendingType DEF SafetyInv, TypeInv
<1>2. ledger[pending[id].sequence].outcome = "Open"
    BY DEF SafetyInv, Accounted, PendingOpen
<1> QED
    BY <1>1, <1>2 DEF Outcomes

LEMMA SettlingUndispatching ==
    ASSUME SafetyInv, NEW S, NEW outcome,
           \A n \in S : \E id \in DOMAIN pending : pending[id].sequence = n,
           ledger' = Settled(S, outcome)
    PROVE  Undispatching
<1> SUFFICES ASSUME NEW s \in SequenceNumbers
             PROVE  /\ ledger'[s].dispatches = ledger[s].dispatches
                    /\ ledger[s].outcome \in Outcomes
                            => ledger'[s].outcome = ledger[s].outcome
    BY DEF Undispatching
<1>1. /\ ledger'[s].dispatches = ledger[s].dispatches
      /\ ledger'[s].outcome = IF s \in S THEN outcome ELSE ledger[s].outcome
    BY SettledFields DEF SafetyInv
<1>2. s \in S => ledger[s].outcome \notin Outcomes
    BY OpenIsNotFinal
<1> QED
    BY <1>1, <1>2

LEMMA RequeueUndispatching ==
    ASSUME SafetyInv, RequeuePendingForReplay
    PROVE  Undispatching
<1> DEFINE rejected == {pending[id].sequence : id \in DOMAIN pending \ Rescheduled}
<1> DEFINE history == Settled(rejected, "Rejected")
<1> SUFFICES ASSUME NEW s \in SequenceNumbers
             PROVE  /\ ledger'[s].dispatches = ledger[s].dispatches
                    /\ ledger[s].outcome \in Outcomes
                            => ledger'[s].outcome = ledger[s].outcome
    BY DEF Undispatching
<1>1. history \in [SequenceNumbers -> LedgerEntry]
    BY SettledType DEF SafetyInv, TypeInv, TypeOK, Outcomes
<1>2. /\ history[s].dispatches = ledger[s].dispatches
      /\ history[s].outcome = IF s \in rejected THEN "Rejected" ELSE ledger[s].outcome
    BY SettledFields DEF SafetyInv
<1>3. ledger' = Unevidenced(history)
    BY DEF RequeuePendingForReplay
<1>4. s \in rejected => ledger[s].outcome \notin Outcomes
    BY OpenIsNotFinal
<1> HIDE DEF history, rejected
<1>5. ledger'[s].dispatches = history[s].dispatches /\ ledger'[s].outcome = history[s].outcome
    BY <1>1, <1>3, UnevidencedFields
<1> QED
    BY <1>2, <1>4, <1>5

LEMMA OthersUndispatching ==
    ASSUME SafetyInv, [Next]_vars
    PROVE  \/ Undispatching
           \/ PopReplay
           \/ \E f \in Frames, contract \in Contracts : BeginRequestDispatch(f, contract)
<1>1. ASSUME ledger' = ledger PROVE Undispatching
    BY <1>1 DEF Undispatching
<1>2. ASSUME NEW id \in Ids, NEW hasError \in BOOLEAN, CompleteResponse(id, hasError)
      PROVE  Undispatching
    BY <1>2, SettlingUndispatching DEF CompleteResponse
<1>3. ASSUME NEW id \in Ids, NEW resolution \in Resolutions,
             ProbeCompletes(id, resolution) \/ ProbeExhausted(id, resolution)
      PROVE  Undispatching
    BY <1>3, SettlingUndispatching DEF ProbeCompletes, ProbeExhausted, Held
<1>4. ASSUME NEW id \in Ids, NEW resolution \in Resolutions,
             ProbeAuthorizesReplay(id, resolution)
      PROVE  Undispatching
    <2> DEFINE n == pending[id].sequence
    <2>1. n \in SequenceNumbers
        BY <1>4, OpenIsNotFinal DEF ProbeAuthorizesReplay, Held
    <2>2. ledger[n] \in LedgerEntry
        BY <2>1 DEF SafetyInv, TypeInv, TypeOK
    <2>3. ledger' = [ledger EXCEPT ![n] = Evidenced(ledger[n])]
        BY <1>4 DEF ProbeAuthorizesReplay
    <2>4. /\ ledger'[n] = Evidenced(ledger[n])
          /\ \A s \in SequenceNumbers \ {n} : ledger'[s] = ledger[s]
        BY <2>1, <2>3, LedgerAt DEF SafetyInv
    <2>5. /\ ledger'[n].dispatches = ledger[n].dispatches
          /\ ledger'[n].outcome = ledger[n].outcome
        BY <2>2, <2>4, EvidencedFields
    <2> QED
        BY <2>4, <2>5 DEF Undispatching
<1>5. ASSUME NEW f \in Frames,
             ObserveInitialize(f) \/ ObserveInitialized(f) \/ QueueClientFrame(f)
      PROVE  Undispatching
    BY <1>1, <1>5 DEF ObserveInitialize, ObserveInitialized, QueueClientFrame
<1>6. ASSUME PopClientFrame \/ UNCHANGED vars PROVE Undispatching
    BY <1>1, <1>6 DEF PopClientFrame, vars
<1> QED
    BY <1>2, <1>3, <1>4, <1>5, <1>6, RequeueUndispatching DEF Next

\* The two steps that dispatch: a first dispatch of an absent invocation, and
\* a replay of a pending one that has the authority.
LEMMA BeginDispatches ==
    ASSUME SafetyInv, NEW f \in Frames, NEW contract \in Contracts,
           BeginRequestDispatch(f, contract)
    PROVE  /\ \A s \in SequenceNumbers \ {nextSequence} : ledger'[s] = ledger[s]
           /\ nextSequence \in SequenceNumbers
           /\ ledger[nextSequence].outcome = "Absent"
           /\ ledger[nextSequence].dispatches = 0
<1>1. nextSequence \in SequenceNumbers /\ ~ (nextSequence < nextSequence)
    BY LimitsAssumption
    DEF SafetyInv, TypeInv, TypeOK, BeginRequestDispatch, MayBegin, SequenceNumbers
<1>2. \A s \in SequenceNumbers \ {nextSequence} : ledger'[s] = ledger[s]
    BY <1>1, LedgerAt DEF BeginRequestDispatch, SafetyInv
<1>3. ledger[nextSequence].outcome = "Absent"
    BY <1>1 DEF SafetyInv, Accounted, LedgerPrefix
<1>4. ledger[nextSequence].dispatches = 0
    BY <1>1, <1>3 DEF SafetyInv, Accounted, AbsentUndispatched
<1> QED
    BY <1>1, <1>2, <1>3, <1>4

LEMMA PopReplayDispatches ==
    ASSUME SafetyInv, PopReplay
    PROVE  \E id \in DOMAIN pending :
            /\ pending[id].disposition = "Replay"
            /\ \A s \in SequenceNumbers \ {pending[id].sequence} : ledger'[s] = ledger[s]
<1> DEFINE id == Head(queue).id
<1>1. id \in DOMAIN pending /\ pending[id].disposition = "Replay"
    BY DEF PopReplay, NamesPending, MayRedispatch
<1>2. pending[id].sequence \in SequenceNumbers
    BY <1>1, OpenIsNotFinal
<1>3. \A s \in SequenceNumbers \ {pending[id].sequence} : ledger'[s] = ledger[s]
    BY <1>2, LedgerAt DEF PopReplay, SafetyInv
<1> QED
    BY <1>1, <1>3

LEMMA StepRepeatsWithAuthority == SafetyInv /\ [Next]_vars => RepeatsWithAuthority
<1> SUFFICES ASSUME SafetyInv, [Next]_vars PROVE RepeatsWithAuthority
    OBVIOUS
<1>1. CASE Undispatching
    BY <1>1 DEF Undispatching, RepeatsWithAuthority
<1>2. CASE \E f \in Frames, contract \in Contracts : BeginRequestDispatch(f, contract)
    <2>1. /\ \A s \in SequenceNumbers \ {nextSequence} : ledger'[s] = ledger[s]
          /\ ~ (ledger[nextSequence].dispatches > 0)
        BY <1>2, BeginDispatches
    <2> QED
        BY <2>1 DEF RepeatsWithAuthority
<1>3. CASE PopReplay
    <2>1. PICK id \in DOMAIN pending :
            /\ pending[id].disposition = "Replay"
            /\ \A s \in SequenceNumbers \ {pending[id].sequence} : ledger'[s] = ledger[s]
        BY <1>3, PopReplayDispatches
    <2> DEFINE n == pending[id].sequence
    <2>2. ledger[n].contract = pending[id].contract
        BY DEF SafetyInv, Accounted, PendingOpen
    <2>3. \/ ledger[n].contract = "Convergent"
          \/ ledger[n].contract = "ProbeRequired" /\ ledger[n].evidence
        BY <2>1, <2>2, Zenon DEF SafetyInv, Lawful, ReplayIsAuthorized
    <2> QED
        BY <2>1, <2>3, Zenon DEF RepeatsWithAuthority
<1> QED
    BY <1>1, <1>2, <1>3, OthersUndispatching

LEMMA StepKeepsOutcomes == SafetyInv /\ [Next]_vars => OutcomesAreFinal
<1> SUFFICES ASSUME SafetyInv, [Next]_vars PROVE OutcomesAreFinal
    OBVIOUS
<1>1. CASE Undispatching
    BY <1>1 DEF Undispatching, OutcomesAreFinal
<1>2. CASE \E f \in Frames, contract \in Contracts : BeginRequestDispatch(f, contract)
    <2>1. /\ \A s \in SequenceNumbers \ {nextSequence} : ledger'[s] = ledger[s]
          /\ ledger[nextSequence].outcome \notin Outcomes
        BY <1>2, BeginDispatches DEF Outcomes
    <2> QED
        BY <2>1 DEF OutcomesAreFinal
<1>3. CASE PopReplay
    <2>1. PICK id \in DOMAIN pending :
            \A s \in SequenceNumbers \ {pending[id].sequence} : ledger'[s] = ledger[s]
        BY <1>3, PopReplayDispatches
    <2>2. ledger[pending[id].sequence].outcome \notin Outcomes
        BY OpenIsNotFinal
    <2> QED
        BY <2>1, <2>2 DEF OutcomesAreFinal
<1> QED
    BY <1>1, <1>2, <1>3, OthersUndispatching

\* No invocation is ever repeated without the authority of its contract or,
\* where that asks for a probe, of evidence newer than the last worker loss.
THEOREM RepetitionAuthorized == Spec => AuthorizedRepetition
BY Safe, StepRepeatsWithAuthority, PTL DEF Spec, AuthorizedRepetition

\* Nothing is dispatched or given another outcome after its terminal outcome.
THEOREM OutcomesFinal == Spec => SingleTerminalOutcome
BY Safe, StepKeepsOutcomes, PTL DEF Spec, SingleTerminalOutcome

-----------------------------------------------------------------------------
(* The refinement of the invocation law.  What the safety invariant leaves *)
(* open, and the law's own variables need: an invocation that was not      *)
(* accepted has no history at all, and a pending one is in one of the two  *)
(* stages in which the law can still settle it.                            *)

AbsentUnwritten ==
    \A s \in SequenceNumbers : ledger[s].outcome = "Absent" => ledger[s] = Unwritten

PendingLive ==
    \A id \in DOMAIN pending : pending[id].knowledge \in {"InFlight", "OutcomeUnknown"}

LawInv == SafetyInv /\ AbsentUnwritten /\ PendingLive

\* The stage of an invocation is read off its history, or off its one pending
\* entry as long as it has one.
StageRead ==
    \A s \in SequenceNumbers :
        /\ ledger[s].outcome = "Absent" => Stage[s] = "Absent"
        /\ ledger[s].outcome \in Outcomes => Stage[s] = "Settled"
        /\ ledger[s].outcome = "Open" =>
                \E id \in DOMAIN pending :
                    /\ pending[id].sequence = s
                    /\ Stage[s] = pending[id].knowledge
        /\ \A id \in DOMAIN pending :
                pending[id].sequence = s => Stage[s] = pending[id].knowledge
        /\ ledger[s].outcome \in Outcomes \cup {"Absent", "Open"}

LEMMA StageIsRead == SafetyInv => StageRead
<1> SUFFICES ASSUME SafetyInv, NEW s \in SequenceNumbers
             PROVE  /\ ledger[s].outcome = "Absent" => Stage[s] = "Absent"
                    /\ ledger[s].outcome \in Outcomes => Stage[s] = "Settled"
                    /\ ledger[s].outcome = "Open" =>
                            \E id \in DOMAIN pending :
                                /\ pending[id].sequence = s
                                /\ Stage[s] = pending[id].knowledge
                    /\ \A id \in DOMAIN pending :
                            pending[id].sequence = s => Stage[s] = pending[id].knowledge
                    /\ ledger[s].outcome \in Outcomes \cup {"Absent", "Open"}
    BY DEF StageRead
<1>1. ledger[s].outcome \in Outcomes \cup {"Absent", "Open"}
    BY DEF SafetyInv, TypeInv, TypeOK, LedgerEntry
<1>2. ledger[s].outcome = "Absent" => Stage[s] = "Absent"
    BY DEF Stage
<1>3. ledger[s].outcome \in Outcomes => Stage[s] = "Settled"
    BY DEF Stage, Outcomes
<1>4. ledger[s].outcome = "Open" => Stage[s] = pending[RequestOf(s)].knowledge
    BY DEF Stage
<1>5. ASSUME NEW id \in DOMAIN pending, pending[id].sequence = s
      PROVE  RequestOf(s) = id /\ ledger[s].outcome = "Open"
    <2>1. RequestOf(s) \in DOMAIN pending /\ pending[RequestOf(s)].sequence = s
        BY <1>5 DEF RequestOf
    <2> QED
        BY <1>5, <2>1 DEF SafetyInv, Accounted, PendingOpen, PendingDistinct
<1>6. ledger[s].outcome = "Open" => \E id \in DOMAIN pending : pending[id].sequence = s
    BY DEF SafetyInv, Accounted, OpenPending
<1> QED
    BY <1>1, <1>2, <1>3, <1>4, <1>5, <1>6

LEMMA StageIsReadNext == SafetyInv' => StageRead'
BY StageIsRead, PTL

LEMMA InitLaw == Init => LawInv
<1> SUFFICES ASSUME Init PROVE LawInv
    OBVIOUS
<1>1. SafetyInv
    BY InitSafe
<1>2. AbsentUnwritten /\ PendingLive
    BY DEF Init, AbsentUnwritten, PendingLive
<1> QED
    BY <1>1, <1>2 DEF LawInv

\* An invocation that a step neither settles nor dispatches keeps its stage.
LEMMA StageKept ==
    ASSUME SafetyInv, SafetyInv', NEW s \in SequenceNumbers,
           ledger'[s].outcome = ledger[s].outcome,
           \A id \in DOMAIN pending : pending[id].sequence = s =>
                /\ id \in DOMAIN pending'
                /\ pending'[id].sequence = s
                /\ pending'[id].knowledge = pending[id].knowledge
    PROVE  Stage'[s] = Stage[s]
<1>1. StageRead /\ StageRead'
    BY StageIsRead, StageIsReadNext
<1>2. CASE ledger[s].outcome = "Open"
    BY <1>1, <1>2 DEF StageRead
<1>3. CASE ledger[s].outcome # "Open"
    BY <1>1, <1>3 DEF StageRead
<1> QED
    BY <1>2, <1>3

LEMMA StageIsFunction ==
    /\ Stage = [s \in SequenceNumbers |-> Stage[s]]
    /\ Stage' = [s \in SequenceNumbers |-> Stage'[s]]
BY DEF Stage

LEMMA UnnoticedKeepsLaw ==
    ASSUME LawInv, SafetyInv', UNCHANGED <<pending, ledger>>
    PROVE  LawInv' /\ UNCHANGED Law!lawVars
<1>1. LawInv'
    BY DEF LawInv, AbsentUnwritten, PendingLive
<1>2. \A s \in SequenceNumbers : Stage'[s] = Stage[s]
    BY StageKept DEF LawInv
<1>3. Stage' = Stage
    BY <1>2, StageIsFunction
<1> QED
    BY <1>1, <1>3 DEF Law!lawVars

LEMMA BeginAccepts ==
    ASSUME LawInv, SafetyInv', NEW f \in Frames, NEW c \in Contracts,
           BeginRequestDispatch(f, c)
    PROVE  LawInv' /\ Law!Accept(nextSequence, c) /\ nextSequence \in SequenceNumbers
<1> DEFINE n == nextSequence
<1>1. /\ n \in SequenceNumbers
      /\ ledger[n].outcome = "Absent"
    BY BeginDispatches DEF LawInv
<1>2. ledger[n] = Unwritten
    BY <1>1 DEF LawInv, AbsentUnwritten
<1>3. /\ ledger'[n] = [contract |-> c, dispatches |-> 1, evidence |-> FALSE,
                       outcome |-> "Open"]
      /\ \A s \in SequenceNumbers \ {n} : ledger'[s] = ledger[s]
    BY <1>1, LedgerAt DEF BeginRequestDispatch, LawInv, SafetyInv
<1>4. /\ f.id \notin DOMAIN pending
      /\ DOMAIN pending' = DOMAIN pending \cup {f.id}
      /\ pending'[f.id] = FirstDispatchOf(f, c)
      /\ \A i \in DOMAIN pending : pending'[i] = pending[i]
    BY DEF BeginRequestDispatch, MayBegin
<1>5. FirstDispatchOf(f, c).sequence = n /\ FirstDispatchOf(f, c).knowledge = "InFlight"
    BY DEF FirstDispatchOf
<1>6. LawInv'
    <2>1. AbsentUnwritten'
        BY <1>3 DEF LawInv, AbsentUnwritten
    <2>2. PendingLive'
        BY <1>4, <1>5 DEF LawInv, PendingLive
    <2> QED
        BY <2>1, <2>2 DEF LawInv
<1>7. Stage[n] = "Absent" /\ Stage'[n] = "InFlight"
    BY <1>1, <1>4, <1>5, StageIsRead, StageIsReadNext DEF StageRead, LawInv
<1>8. \A s \in SequenceNumbers \ {n} : Stage'[s] = Stage[s]
    BY <1>3, <1>4, StageKept DEF LawInv
<1>9. Stage' = [Stage EXCEPT ![n] = "InFlight"]
    BY <1>1, <1>7, <1>8, StageIsFunction
<1>10. /\ ledger'[n].contract = c /\ ledger'[n].dispatches = 1
       /\ ledger'[n].evidence = ledger[n].evidence
    BY <1>2, <1>3 DEF Unwritten
<1>11. [s \in SequenceNumbers |-> ledger'[s].contract]
            = [[s \in SequenceNumbers |-> ledger[s].contract] EXCEPT ![n] = c]
    BY <1>1, <1>3, <1>10
<1>12. [s \in SequenceNumbers |-> ledger'[s].dispatches]
            = [[s \in SequenceNumbers |-> ledger[s].dispatches] EXCEPT ![n] = 1]
    BY <1>1, <1>3, <1>10
<1>13. [s \in SequenceNumbers |-> ledger'[s].evidence]
            = [s \in SequenceNumbers |-> ledger[s].evidence]
    BY <1>1, <1>3, <1>10
<1> QED
    BY <1>1, <1>6, <1>7, <1>9, <1>11, <1>12, <1>13 DEF Law!Accept

LEMMA PopReplayReplays ==
    ASSUME LawInv, SafetyInv', PopReplay
    PROVE  LawInv' /\ \E n \in SequenceNumbers : Law!Replay(n)
<1> DEFINE id == Head(queue).id
<1> DEFINE n == pending[id].sequence
<1> DEFINE again == Redispatched(pending[id])
<1> USE DEF LawInv
<1>1. id \in DOMAIN pending /\ MayRedispatch(pending[id])
    BY DEF PopReplay, NamesPending
<1>2. pending[id] \in PendingRequest /\ n \in SequenceNumbers
    BY <1>1, PendingType DEF SafetyInv, TypeInv
<1>3. ledger[n] \in LedgerEntry
    BY <1>2 DEF SafetyInv, TypeInv, TypeOK
<1>4. /\ pending[id].disposition = "Replay"
      /\ pending[id].knowledge = "OutcomeUnknown"
    BY <1>1 DEF MayRedispatch, AfterDispatch, PendingLive, None
<1>5. again.sequence = n /\ again.knowledge = "InFlight"
    BY <1>1, <1>2, RedispatchedType
<1>6. /\ DOMAIN pending' = DOMAIN pending
      /\ pending'[id] = again
      /\ \A i \in DOMAIN pending \ {id} : pending'[i] = pending[i]
    BY <1>1, ReplacedAt DEF PopReplay, SafetyInv
<1>7. /\ ledger'[n] = DispatchedAgain(ledger[n])
      /\ \A s \in SequenceNumbers \ {n} : ledger'[s] = ledger[s]
    BY <1>2, LedgerAt DEF PopReplay, SafetyInv
<1>8. /\ ledger'[n].dispatches = ledger[n].dispatches + 1
      /\ ledger'[n].contract = ledger[n].contract
      /\ ledger'[n].evidence = ledger[n].evidence
      /\ ledger'[n].outcome = ledger[n].outcome
    BY <1>3, <1>7, DispatchedAgainFields
<1> HIDE DEF again
<1>9. LawInv'
    <2>1. AbsentUnwritten'
        <3>1. ledger[n].outcome # "Absent"
            BY <1>1 DEF SafetyInv, Accounted, PendingOpen
        <3> QED
            BY <1>7, <1>8, <3>1 DEF AbsentUnwritten
    <2>2. PendingLive'
        BY <1>5, <1>6 DEF PendingLive
    <2> QED
        BY <2>1, <2>2
<1>10. Stage[n] = "OutcomeUnknown" /\ Stage'[n] = "InFlight"
    BY <1>1, <1>2, <1>4, <1>5, <1>6, StageIsRead, StageIsReadNext DEF StageRead
<1>11. \A s \in SequenceNumbers \ {n} : Stage'[s] = Stage[s]
    BY <1>5, <1>6, <1>7, StageKept
<1>12. Stage' = [Stage EXCEPT ![n] = "InFlight"]
    BY <1>2, <1>10, <1>11, StageIsFunction
<1>13. [s \in SequenceNumbers |-> ledger'[s].contract]
            = [s \in SequenceNumbers |-> ledger[s].contract]
    BY <1>2, <1>7, <1>8
<1>14. [s \in SequenceNumbers |-> ledger'[s].dispatches]
            = [[s \in SequenceNumbers |-> ledger[s].dispatches] EXCEPT ![n] = @ + 1]
    BY <1>2, <1>7, <1>8
<1>15. [s \in SequenceNumbers |-> ledger'[s].evidence]
            = [s \in SequenceNumbers |-> ledger[s].evidence]
    BY <1>2, <1>7, <1>8
<1>16. LawfulRequest(pending[id], ledger[n])
    BY <1>1, LawfulRequests
<1>17. ledger[n].contract = pending[id].contract
    BY <1>1 DEF SafetyInv, Accounted, PendingOpen
<1>18. \/ ledger[n].contract = "Convergent"
       \/ ledger[n].contract = "ProbeRequired" /\ ledger[n].evidence
    BY <1>4, <1>16, <1>17, Zenon DEF LawfulRequest
<1>19. ledger[n].dispatches <= MaxAttempts
    <2>1. pending[id].attempts < MaxAttempts /\ ledger[n].dispatches = pending[id].attempts + 1
        BY <1>4, <1>16 DEF LawfulRequest
    <2>2. pending[id].attempts \in 0..AttemptLimit
        BY <1>2 DEF PendingRequest
    <2> QED
        BY <2>1, <2>2, NextAttemptFits
<1>20. Law!Authorized(n)
    BY <1>2, <1>18, Zenon DEF Law!Authorized
<1>21. Law!Replay(n)
    BY <1>2, <1>10, <1>12, <1>13, <1>14, <1>15, <1>19, <1>20 DEF Law!Replay
<1> HIDE DEF n
<1> QED
    BY <1>2, <1>9, <1>21, Zenon DEF Law!Replay

LEMMA TerminationSettles ==
    ASSUME LawInv, SafetyInv', NEW id \in DOMAIN pending, NEW outcome \in Outcomes,
           pending' = Without(pending, {id}),
           ledger' = Settled({pending[id].sequence}, outcome)
    PROVE  LawInv' /\ \E n \in SequenceNumbers : Law!Settle(n)
<1> DEFINE n == pending[id].sequence
<1> USE DEF LawInv
<1>1. n \in SequenceNumbers /\ ledger[n].outcome = "Open"
    BY PendingType DEF SafetyInv, TypeInv, Accounted, PendingOpen
<1>2. \A s \in SequenceNumbers :
        /\ ledger'[s].outcome = IF s = n THEN outcome ELSE ledger[s].outcome
        /\ s # n => ledger'[s] = ledger[s]
        /\ ledger'[s].contract = ledger[s].contract
        /\ ledger'[s].dispatches = ledger[s].dispatches
        /\ ledger'[s].evidence = ledger[s].evidence
    BY SettledFields DEF SafetyInv
<1>3. /\ DOMAIN pending' = DOMAIN pending \ {id}
      /\ \A i \in DOMAIN pending' : pending'[i] = pending[i]
    BY WithoutType DEF SafetyInv
<1>4. LawInv'
    <2>1. AbsentUnwritten'
        BY <1>1, <1>2 DEF AbsentUnwritten, Outcomes
    <2>2. PendingLive'
        BY <1>3 DEF PendingLive
    <2> QED
        BY <2>1, <2>2
<1>5. Stage[n] \in {"InFlight", "OutcomeUnknown"} /\ Stage'[n] = "Settled"
    BY <1>1, <1>2, StageIsRead, StageIsReadNext, SMTT(20)
        DEF StageRead, PendingLive
<1>6. \A s \in SequenceNumbers \ {n} : Stage'[s] = Stage[s]
    BY <1>2, <1>3, StageKept
<1>7. Stage' = [Stage EXCEPT ![n] = "Settled"]
    BY <1>1, <1>5, <1>6, StageIsFunction
<1>8. Law!Settle(n)
    BY <1>1, <1>2, <1>5, <1>7 DEF Law!Settle, Law!Live
<1> QED
    BY <1>1, <1>4, <1>8

LEMMA ProbeGivesEvidence ==
    ASSUME LawInv, SafetyInv', NEW id \in Ids, NEW resolution \in Resolutions,
           ProbeAuthorizesReplay(id, resolution)
    PROVE  LawInv' /\ \E n \in SequenceNumbers : Law!GiveEvidence(n)
<1> DEFINE n == pending[id].sequence
<1> USE DEF LawInv
<1>1. id \in DOMAIN pending /\ ProbeDisposition(id, resolution) = "Replay"
    BY DEF ProbeAuthorizesReplay, Held
<1>2. /\ pending[id] \in PendingRequest /\ n \in SequenceNumbers
      /\ pending[id].knowledge \in Knowledge /\ pending[id].contract \in Contracts
      /\ pending[id].attempts \in 0..AttemptLimit
    BY <1>1, PendingType DEF SafetyInv, TypeInv
<1>3. ledger[n] \in LedgerEntry
    BY <1>2 DEF SafetyInv, TypeInv, TypeOK
<1>4. /\ pending[id].knowledge = "OutcomeUnknown"
      /\ pending[id].contract = "ProbeRequired"
    BY <1>1, <1>2, VerdictOnEvidence DEF ProbeDisposition
<1>5. /\ ledger[n].outcome = "Open"
      /\ ledger[n].contract = "ProbeRequired"
    BY <1>1, <1>4 DEF SafetyInv, Accounted, PendingOpen
<1>6. /\ DOMAIN pending' = DOMAIN pending
      /\ pending'[id] = Authorized(pending[id])
      /\ \A i \in DOMAIN pending \ {id} : pending'[i] = pending[i]
    BY <1>1, ReplacedAt DEF ProbeAuthorizesReplay, SafetyInv
<1>7. /\ Authorized(pending[id]).sequence = n
      /\ Authorized(pending[id]).knowledge = pending[id].knowledge
    BY <1>2 DEF Authorized, PendingRequest
<1>8. /\ ledger'[n] = Evidenced(ledger[n])
      /\ \A s \in SequenceNumbers \ {n} : ledger'[s] = ledger[s]
    BY <1>2, LedgerAt DEF ProbeAuthorizesReplay, SafetyInv
<1>9. /\ ledger'[n].dispatches = ledger[n].dispatches
      /\ ledger'[n].contract = ledger[n].contract
      /\ ledger'[n].evidence = TRUE
      /\ ledger'[n].outcome = ledger[n].outcome
    BY <1>3, <1>8, EvidencedFields
<1>10. LawInv'
    <2>1. AbsentUnwritten'
        BY <1>5, <1>8, <1>9 DEF AbsentUnwritten
    <2>2. PendingLive'
        BY <1>6, <1>7 DEF PendingLive
    <2> QED
        BY <2>1, <2>2
<1>11. Stage[n] = "OutcomeUnknown"
    BY <1>1, <1>2, <1>4, StageIsRead DEF StageRead
<1>12. \A s \in SequenceNumbers : Stage'[s] = Stage[s]
    <2> SUFFICES ASSUME NEW s \in SequenceNumbers PROVE Stage'[s] = Stage[s]
        OBVIOUS
    <2>1. ledger'[s].outcome = ledger[s].outcome
        BY <1>8, <1>9
    <2>2. \A i \in DOMAIN pending :
            /\ i \in DOMAIN pending'
            /\ pending'[i].sequence = pending[i].sequence
            /\ pending'[i].knowledge = pending[i].knowledge
        BY <1>6, <1>7
    <2> QED
        BY <2>1, <2>2, StageKept
<1>13. Stage' = Stage
    BY <1>12, StageIsFunction
<1>14. [s \in SequenceNumbers |-> ledger'[s].contract]
            = [s \in SequenceNumbers |-> ledger[s].contract]
    BY <1>2, <1>8, <1>9
<1>15. [s \in SequenceNumbers |-> ledger'[s].dispatches]
            = [s \in SequenceNumbers |-> ledger[s].dispatches]
    BY <1>2, <1>8, <1>9
<1>16. [s \in SequenceNumbers |-> ledger'[s].evidence]
            = [[s \in SequenceNumbers |-> ledger[s].evidence] EXCEPT ![n] = TRUE]
    BY <1>2, <1>8, <1>9
<1>17. Law!GiveEvidence(n)
    BY <1>2, <1>5, <1>11, <1>13, <1>14, <1>15, <1>16 DEF Law!GiveEvidence
<1> HIDE DEF n
<1> QED
    BY <1>2, <1>10, <1>17, Zenon DEF Law!GiveEvidence

LEMMA RequeueLosesWorker ==
    ASSUME LawInv, SafetyInv', RequeuePendingForReplay
    PROVE  LawInv' /\ \E rejected \in SUBSET SequenceNumbers : Law!LoseWorker(rejected)
<1> DEFINE rejected == {pending[id].sequence : id \in DOMAIN pending \ Rescheduled}
<1> DEFINE history == Settled(rejected, "Rejected")
<1> USE DEF LawInv
<1>1. \A id \in DOMAIN pending :
        /\ pending[id].sequence \in SequenceNumbers
        /\ pending[id].knowledge \in {"InFlight", "OutcomeUnknown"}
        /\ ledger[pending[id].sequence].outcome = "Open"
        /\ ledger[pending[id].sequence].contract = pending[id].contract
    BY PendingType DEF SafetyInv, TypeInv, Accounted, PendingOpen, PendingLive
<1>2. \A s \in SequenceNumbers :
        /\ ledger'[s].outcome = IF s \in rejected THEN "Rejected" ELSE ledger[s].outcome
        /\ ledger'[s].dispatches = ledger[s].dispatches
        /\ ledger'[s].contract = ledger[s].contract
        /\ ledger'[s].evidence = FALSE
    <2>1. \A s \in SequenceNumbers :
        /\ history[s].outcome = IF s \in rejected THEN "Rejected" ELSE ledger[s].outcome
        /\ history[s].dispatches = ledger[s].dispatches
        /\ history[s].contract = ledger[s].contract
        BY SettledFields DEF SafetyInv
    <2>2. history \in [SequenceNumbers -> LedgerEntry]
        BY SettledType DEF SafetyInv, TypeInv, TypeOK, Outcomes
    <2>3. ledger' = Unevidenced(history)
        BY DEF RequeuePendingForReplay
    <2> HIDE DEF history
    <2>4. \A s \in SequenceNumbers :
        /\ ledger'[s].outcome = history[s].outcome
        /\ ledger'[s].dispatches = history[s].dispatches
        /\ ledger'[s].contract = history[s].contract
        /\ ledger'[s].evidence = FALSE
        BY <2>2, <2>3, UnevidencedFields
    <2> QED
        BY <2>1, <2>4
<1>3. \A id \in Rescheduled :
        /\ id \in DOMAIN pending
        /\ pending[id].contract # "NeverReplay"
        /\ AfterWorkerLoss(pending[id].knowledge) = "OutcomeUnknown"
    <2> SUFFICES ASSUME NEW id \in Rescheduled
                 PROVE  /\ id \in DOMAIN pending
                        /\ pending[id].contract # "NeverReplay"
                        /\ AfterWorkerLoss(pending[id].knowledge) = "OutcomeUnknown"
        OBVIOUS
    <2>1. id \in DOMAIN pending /\ LossDisposition(id) \in {"Replay", "HoldForProbe"}
        BY DEF Rescheduled, Replayable
    <2>2. /\ pending[id].knowledge \in Knowledge /\ pending[id].contract \in Contracts
          /\ pending[id].attempts \in 0..AttemptLimit
        BY <2>1, PendingType DEF SafetyInv, TypeInv
    <2>3. AfterWorkerLoss(pending[id].knowledge) \in Knowledge
        BY <2>2, KnowledgeAfterLoss
    <2> QED
        BY <2>1, <2>2, <2>3, VerdictWithoutEvidence DEF LossDisposition
<1>4. /\ DOMAIN pending' = Rescheduled
      /\ \A id \in Rescheduled :
            /\ pending'[id].sequence = pending[id].sequence
            /\ pending'[id].knowledge = "OutcomeUnknown"
    <2>1. DOMAIN pending' = Rescheduled /\ \A id \in Rescheduled : pending'[id] = Scheduled(id)
        BY DEF RequeuePendingForReplay
    <2> QED
        BY <1>3, <2>1, ScheduledType DEF SafetyInv
<1>5. LawInv'
    <2>1. AbsentUnwritten'
        <3> SUFFICES ASSUME NEW s \in SequenceNumbers, ledger'[s].outcome = "Absent"
                     PROVE  ledger'[s] = Unwritten
            BY DEF AbsentUnwritten
        <3>1. ledger[s] = Unwritten
            BY <1>2 DEF AbsentUnwritten
        <3>2. ledger'[s] \in LedgerEntry
            BY DEF SafetyInv, TypeInv, TypeOK
        <3>3. /\ ledger'[s].contract = None /\ ledger'[s].dispatches = 0
              /\ ledger'[s].evidence = FALSE /\ ledger'[s].outcome = "Absent"
            BY <1>2, <3>1 DEF Unwritten
        <3> QED
            BY <3>2, <3>3 DEF Unwritten, LedgerEntry
    <2>2. PendingLive'
        BY <1>4 DEF PendingLive
    <2> QED
        BY <2>1, <2>2
<1>6. rejected \in SUBSET SequenceNumbers
    BY <1>1
<1>7. StageRead /\ StageRead'
    BY StageIsRead, StageIsReadNext
<1>8. \A s \in rejected : Stage[s] \in {"InFlight", "OutcomeUnknown"}
    BY <1>1, <1>6, <1>7 DEF StageRead
<1>9. ASSUME NEW s \in SequenceNumbers, Stage[s] \in {"InFlight", "OutcomeUnknown"}
      PROVE  \E id \in DOMAIN pending : pending[id].sequence = s
    BY <1>7, <1>9 DEF StageRead
<1>10. ASSUME NEW s \in SequenceNumbers,
              Stage[s] \in {"InFlight", "OutcomeUnknown"},
              ledger[s].contract = "NeverReplay"
       PROVE  s \in rejected
    <2>1. PICK id \in DOMAIN pending : pending[id].sequence = s
        BY <1>9, <1>10
    <2> QED
        BY <1>1, <1>3, <1>10, <2>1
<1>11. ASSUME NEW s \in SequenceNumbers
       PROVE  Stage'[s] =
                IF s \in rejected THEN "Settled"
                ELSE IF Stage[s] \in {"InFlight", "OutcomeUnknown"} THEN "OutcomeUnknown"
                ELSE Stage[s]
    <2>1. CASE s \in rejected
        BY <1>2, <1>7, <2>1 DEF StageRead, Outcomes
    <2>2. CASE s \notin rejected /\ Stage[s] \in {"InFlight", "OutcomeUnknown"}
        <3>1. PICK id \in DOMAIN pending : pending[id].sequence = s
            BY <1>9, <2>2
        <3>2. id \in Rescheduled
            BY <2>2, <3>1
        <3> QED
            BY <1>4, <1>7, <2>2, <3>1, <3>2 DEF StageRead
    <2>3. CASE s \notin rejected /\ Stage[s] \notin {"InFlight", "OutcomeUnknown"}
        <3>1. ledger'[s].outcome = ledger[s].outcome
            BY <1>2, <2>3
        <3>2. ledger[s].outcome # "Open"
            BY <1>1, <1>7, <2>3 DEF StageRead
        <3> QED
            BY <1>7, <2>3, <3>1, <3>2 DEF StageRead
    <2> QED
        BY <2>1, <2>2, <2>3
<1>12. Stage' = [s \in SequenceNumbers |->
            IF s \in rejected THEN "Settled"
            ELSE IF Stage[s] \in {"InFlight", "OutcomeUnknown"} THEN "OutcomeUnknown"
            ELSE Stage[s]]
    BY <1>11, StageIsFunction
<1> HIDE DEF rejected, history
<1>13. Law!LoseWorker(rejected)
    BY <1>2, <1>6, <1>8, <1>10, <1>12 DEF Law!LoseWorker, Law!Live
<1> QED
    BY <1>5, <1>6, <1>13, Zenon DEF Law!LoseWorker

\* Every step of the kernel, seen through the refinement mapping.
LEMMA StepOfLaw == LawInv /\ [Next]_vars => LawInv' /\ [Law!Next]_(Law!lawVars)
<1> SUFFICES ASSUME LawInv, [Next]_vars
             PROVE  LawInv' /\ [Law!Next]_(Law!lawVars)
    OBVIOUS
<1>1. SafetyInv'
    BY NextSafe DEF LawInv
<1>2. ASSUME UNCHANGED <<pending, ledger>>
      PROVE  LawInv' /\ UNCHANGED Law!lawVars
    BY <1>1, <1>2, UnnoticedKeepsLaw
<1>3. ASSUME NEW f \in Frames,
             ObserveInitialize(f) \/ ObserveInitialized(f) \/ QueueClientFrame(f)
      PROVE  LawInv' /\ UNCHANGED Law!lawVars
    <2>1. UNCHANGED <<pending, ledger>>
        BY <1>3 DEF ObserveInitialize, ObserveInitialized, QueueClientFrame
    <2> QED
        BY <1>2, <2>1
<1>4. ASSUME NEW f \in Frames, NEW c \in Contracts, BeginRequestDispatch(f, c)
      PROVE  LawInv' /\ Law!Next
    <2>1. LawInv' /\ Law!Accept(nextSequence, c) /\ nextSequence \in SequenceNumbers
        BY <1>1, <1>4, BeginAccepts
    <2>2. c \in {"Convergent", "ProbeRequired", "NeverReplay"}
        BY DEF Contracts
    <2> QED
        BY <2>1, <2>2 DEF Law!Next
<1>5. ASSUME PopClientFrame \/ UNCHANGED vars
      PROVE  LawInv' /\ UNCHANGED Law!lawVars
    <2>1. UNCHANGED <<pending, ledger>>
        BY <1>5 DEF PopClientFrame, vars
    <2> QED
        BY <1>2, <2>1
<1>6. ASSUME PopReplay PROVE LawInv' /\ Law!Next
    BY <1>1, <1>6, PopReplayReplays DEF Law!Next
<1>7. ASSUME NEW id \in Ids, NEW hasError \in BOOLEAN, CompleteResponse(id, hasError)
      PROVE  LawInv' /\ Law!Next
    <2>1. LawInv' /\ \E n \in SequenceNumbers : Law!Settle(n)
        BY <1>1, <1>7, TerminationSettles DEF CompleteResponse, Outcomes
    <2> QED
        BY <2>1 DEF Law!Next
<1>8. ASSUME NEW id \in Ids, NEW resolution \in Resolutions,
             ProbeCompletes(id, resolution) \/ ProbeExhausted(id, resolution)
      PROVE  LawInv' /\ Law!Next
    <2>1. LawInv' /\ \E n \in SequenceNumbers : Law!Settle(n)
        BY <1>1, <1>8, TerminationSettles DEF ProbeCompletes, ProbeExhausted, Held, Outcomes
    <2> QED
        BY <2>1 DEF Law!Next
<1>9. ASSUME RequeuePendingForReplay PROVE LawInv' /\ Law!Next
    BY <1>1, <1>9, RequeueLosesWorker DEF Law!Next
<1>10. ASSUME NEW id \in Ids, NEW resolution \in Resolutions,
              ProbeAuthorizesReplay(id, resolution)
       PROVE  LawInv' /\ Law!Next
    BY <1>1, <1>10, ProbeGivesEvidence DEF Law!Next
<1> QED
    BY <1>3, <1>4, <1>5, <1>6, <1>7, <1>8, <1>9, <1>10 DEF Next

\* The kernel implements the invocation law: whatever ids, frames, queues and
\* capacities do to it, each invocation goes through accept, loss, evidence,
\* replay and one settlement in the order and under the conditions of
\* src/formal_semantics.md, for any number of invocations and any budget.
THEOREM KernelImplementsLaw == Spec => ImplementsInvocationLaw
<1>1. Init => Law!Init
    <2> SUFFICES ASSUME Init PROVE Law!Init
        OBVIOUS
    <2>1. \A s \in SequenceNumbers : ledger[s] = Unwritten
        BY DEF Init
    <2>2. \A s \in SequenceNumbers : Stage[s] = "Absent"
        BY <2>1 DEF Stage, Unwritten
    <2>3. Stage = [s \in SequenceNumbers |-> "Absent"]
        BY <2>2, StageIsFunction
    <2>4. \A s \in SequenceNumbers :
            /\ ledger[s].contract = "None" /\ ledger[s].dispatches = 0
            /\ ledger[s].evidence = FALSE
        BY <2>1 DEF Unwritten, None
    <2> QED
        BY <2>3, <2>4 DEF Law!Init
<1> QED
    BY <1>1, InitLaw, StepOfLaw, PTL DEF Spec, ImplementsInvocationLaw, Law!Spec

=============================================================================
