------------------------- MODULE HostSnapshotProofs -------------------------
(***************************************************************************)
(* Every kernel state that the operations produce passes the validation of *)
(* the successor that restores it, for every set of ids and frames and     *)
(* every capacity; and recovered invocations leave the queue in order.     *)
(***************************************************************************)
EXTENDS HostSnapshot, HostKernelProofs

-----------------------------------------------------------------------------
(* The inductive invariant.  QueueValid is inductive as restore states it; *)
(* the capacities, the scheduled dispositions and the session need more.   *)

CapacitiesKept ==
    /\ Cardinality(DOMAIN pending) <= PendingCapacity
    /\ Len(queue) <= QueueCapacity

\* Only what a consumer must be asked about is held, and nothing is scheduled
\* for any end but a replay.
HeldAreProbeRequired ==
    \A id \in DOMAIN pending :
        /\ pending[id].disposition \in {None, "Replay", "HoldForProbe"}
        /\ pending[id].disposition = "HoldForProbe" =>
                pending[id].contract = "ProbeRequired"

\* At most one initialize is pending, it is the seed, and only a session that
\* is initializing has one.
SessionAgrees ==
    /\ \A i, j \in PendingInitializes : i = j
    /\ \A id \in PendingInitializes :
            phase = "Initializing" /\ pending[id].frame = seed
    /\ seed = NoFrame => phase = "Cold"
    /\ notified <=> phase = "Live"

SnapshotInv ==
    /\ LawInv
    /\ CapacitiesKept /\ HeldAreProbeRequired /\ QueueValid /\ SessionAgrees

-----------------------------------------------------------------------------
(* The recovery prefix, position by position                               *)

QueuedOnce ==
    \A j, k \in DOMAIN queue :
        j < k /\ IsRequest(queue[j]) /\ IsRequest(queue[k]) => queue[j].id # queue[k].id

PrefixInOrder ==
    \A k \in DOMAIN queue : NamesPending(queue[k]) =>
        /\ pending[queue[k].id].disposition # None
        /\ pending[queue[k].id].frame = queue[k]
        /\ \A j \in DOMAIN queue : j < k =>
            /\ NamesPending(queue[j])
            /\ pending[queue[j].id].sequence < pending[queue[k].id].sequence

ScheduledAreQueued ==
    \A id \in DOMAIN pending : pending[id].disposition # None =>
        \E k \in DOMAIN queue : IsRequest(queue[k]) /\ queue[k].id = id

QueuePositions ==
    /\ Len(queue) \in Nat
    /\ DOMAIN queue = 1..Len(queue)

LEMMA Positions == TypeInv => QueuePositions
BY LenProperties DEF TypeInv, TypeOK, QueuePositions

LEMMA PositionsNext == TypeInv' => QueuePositions'
BY Positions, PTL

QueueParts == QueueValid <=> QueuedOnce /\ PrefixInOrder /\ ScheduledAreQueued

LEMMA QueueByParts == QueuePositions => QueueParts
<1> SUFFICES ASSUME QueuePositions PROVE QueueParts
    OBVIOUS
<1>1. ASSUME NEW k \in DOMAIN queue
      PROVE  1..(k - 1) = {j \in DOMAIN queue : j < k}
    BY <1>1 DEF QueuePositions
<1>2. ASSUME NEW id
      PROVE  id \in QueuedIds <=>
                \E k \in DOMAIN queue : IsRequest(queue[k]) /\ queue[k].id = id
    BY DEF QueuedIds
<1>3. QueueValid => QueuedOnce /\ PrefixInOrder /\ ScheduledAreQueued
    BY <1>1, <1>2 DEF QueueValid, QueuedOnce, PrefixInOrder, ScheduledAreQueued
<1>4. QueuedOnce /\ PrefixInOrder /\ ScheduledAreQueued => QueueValid
    BY <1>1, <1>2 DEF QueueValid, QueuedOnce, PrefixInOrder, ScheduledAreQueued
<1> QED
    BY <1>3, <1>4 DEF QueueParts

LEMMA QueueByPartsNext == QueuePositions' => QueueParts'
BY QueueByParts, PTL

\* l picks positions of the queue, in ascending order.
Embeds(l, q) ==
    /\ DOMAIN l = DOMAIN q
    /\ \A k \in DOMAIN q : l[k] \in DOMAIN queue /\ q[k] = queue[l[k]]
    /\ \A j, k \in DOMAIN q : j < k => l[j] < l[k]

\* A step that takes frames from the queue, adds none and reorders none keeps
\* the recovery prefix, when it treats the frames it leaves as pending or not
\* as they were, and takes no frame of an invocation that stays scheduled.
LEMMA EmbeddedQueue ==
    ASSUME QueuePositions, QueuePositions', QueueValid,
           NEW l, Embeds(l, queue'),
           \A k \in DOMAIN queue' : IsRequest(queue'[k]) =>
                (queue'[k].id \in DOMAIN pending' <=> queue'[k].id \in DOMAIN pending),
           \A k \in DOMAIN queue' : NamesPending(queue'[k]) =>
                /\ pending'[queue'[k].id].frame = pending[queue'[k].id].frame
                /\ pending'[queue'[k].id].sequence = pending[queue'[k].id].sequence
                /\ pending'[queue'[k].id].disposition # None,
           \A id \in DOMAIN pending' : pending'[id].disposition # None =>
                /\ id \in DOMAIN pending /\ pending[id].disposition # None
                /\ \A p \in DOMAIN queue : IsRequest(queue[p]) /\ queue[p].id = id =>
                        \E k \in DOMAIN queue' : l[k] = p
    PROVE  QueueValid'
<1>1. QueuedOnce /\ PrefixInOrder /\ ScheduledAreQueued
    BY QueueByParts DEF QueueParts
<1>2. \A k \in DOMAIN queue' : l[k] \in DOMAIN queue /\ queue'[k] = queue[l[k]]
    BY DEF Embeds
<1>3. \A j, k \in DOMAIN queue' : j < k => l[j] < l[k]
    BY DEF Embeds
<1>4. QueuedOnce'
    BY <1>1, <1>2, <1>3 DEF QueuedOnce
<1>5. PrefixInOrder'
    <2> SUFFICES ASSUME NEW k \in DOMAIN queue', NamesPending(queue[k])',
                        NEW j \in DOMAIN queue'
                 PROVE  /\ pending'[queue'[k].id].disposition # None
                        /\ pending'[queue'[k].id].frame = queue'[k]
                        /\ j < k =>
                            /\ NamesPending(queue[j])'
                            /\ pending'[queue'[j].id].sequence
                                    < pending'[queue'[k].id].sequence
        BY DEF PrefixInOrder
    <2>1. NamesPending(queue'[k]) /\ NamesPending(queue[l[k]])
        BY <1>2 DEF NamesPending
    <2>2. /\ pending'[queue'[k].id].disposition # None
          /\ pending'[queue'[k].id].frame = queue'[k]
        BY <1>1, <1>2, <2>1 DEF PrefixInOrder
    <2>3. ASSUME j < k
          PROVE  /\ NamesPending(queue[j])'
                 /\ pending'[queue'[j].id].sequence < pending'[queue'[k].id].sequence
        <3>1. /\ NamesPending(queue[l[j]])
              /\ pending[queue[l[j]].id].sequence < pending[queue[l[k]].id].sequence
            BY <1>1, <1>2, <1>3, <2>1, <2>3 DEF PrefixInOrder
        <3>2. NamesPending(queue'[j]) /\ NamesPending(queue[j])'
            BY <1>2, <3>1 DEF NamesPending
        <3> QED
            BY <1>2, <2>1, <3>1, <3>2
    <2> QED
        BY <2>2, <2>3
<1>6. ScheduledAreQueued'
    <2> SUFFICES ASSUME NEW id \in DOMAIN pending', pending'[id].disposition # None
                 PROVE  \E k \in DOMAIN queue' : IsRequest(queue'[k]) /\ queue'[k].id = id
        BY DEF ScheduledAreQueued
    <2>1. PICK p \in DOMAIN queue : IsRequest(queue[p]) /\ queue[p].id = id
        BY <1>1 DEF ScheduledAreQueued
    <2>2. PICK k \in DOMAIN queue' : l[k] = p
        BY <2>1
    <2> QED
        BY <1>2, <2>1, <2>2
<1> QED
    BY <1>4, <1>5, <1>6, QueueByPartsNext DEF QueueParts

\* Dequeueing the front frame.
LEMMA TailEmbeds ==
    ASSUME TypeInv, TypeInv', queue # <<>>, queue' = Tail(queue)
    PROVE  /\ Embeds([k \in DOMAIN queue' |-> k + 1], queue')
           /\ \A p \in DOMAIN queue \ {1} : \E k \in DOMAIN queue' : k + 1 = p
           /\ Head(queue) = queue[1] /\ 1 \in DOMAIN queue
           /\ Len(queue') = Len(queue) - 1
<1>1. queue \in Seq(Frames) /\ queue' \in Seq(Frames)
    BY DEF TypeInv, TypeOK
<1>2. Len(queue') = Len(queue) - 1 /\ \A i \in 1..Len(queue') : queue'[i] = queue[i + 1]
    BY <1>1, HeadTailProperties
<1>3. QueuePositions /\ QueuePositions'
    BY Positions, PositionsNext
<1>4. Head(queue) = queue[1] /\ Len(queue) > 0
    BY <1>1, EmptySeq
<1>5. DOMAIN queue' = 1..Len(queue') /\ DOMAIN queue = 1..Len(queue)
    BY <1>3 DEF QueuePositions
<1>6. \A k \in DOMAIN queue' : k + 1 \in DOMAIN queue /\ queue'[k] = queue[k + 1]
    BY <1>2, <1>3, <1>5 DEF QueuePositions
<1>7. Embeds([k \in DOMAIN queue' |-> k + 1], queue')
    BY <1>5, <1>6 DEF Embeds
<1>8. \A p \in DOMAIN queue \ {1} : \E k \in DOMAIN queue' : k + 1 = p
    <2> SUFFICES ASSUME NEW p \in DOMAIN queue \ {1}
                 PROVE  p - 1 \in DOMAIN queue' /\ (p - 1) + 1 = p
        OBVIOUS
    <2> QED
        BY <1>2, <1>3, <1>5 DEF QueuePositions
<1> QED
    BY <1>2, <1>3, <1>4, <1>5, <1>7, <1>8 DEF QueuePositions

\* Taking back the frame of one request.
LEMMA SelectionEmbeds ==
    ASSUME TypeInv, NEW positions \in SUBSET DOMAIN queue,
           NEW q \in Selections(positions)
    PROVE  /\ Len(q) \in Nat /\ DOMAIN q = 1..Len(q) /\ q \in Seq(Frames)
           /\ Len(q) = Cardinality(positions) /\ Len(q) <= Len(queue)
           /\ \E l : /\ Embeds(l, q)
                     /\ \A k \in DOMAIN q : l[k] \in positions
                     /\ \A p \in positions : \E k \in DOMAIN q : l[k] = p
<1> DEFINE key == [k \in positions |-> k]
<1>1. PICK l \in Listings(positions, key) : q = [i \in DOMAIN l |-> queue[l[i]]]
    BY DEF Selections
<1>2. QueuePositions
    BY Positions
<1>3. /\ IsFiniteSet(positions) /\ Cardinality(positions) <= Len(queue)
    <2>1. IsFiniteSet(1..Len(queue)) /\ Cardinality(1..Len(queue)) = Len(queue)
        <3>1. Len(queue) \in Int /\ 1 \in Int
            BY <1>2 DEF QueuePositions
        <3>2. /\ IsFiniteSet(1..Len(queue))
              /\ Cardinality(1..Len(queue))
                    = IF 1 > Len(queue) THEN 0 ELSE Len(queue) - 1 + 1
            BY <3>1, FS_Interval
        <3> QED
            BY <1>2, <3>2 DEF QueuePositions
    <2> QED
        BY <1>2, <2>1, FS_Subset DEF QueuePositions
<1>4. DOMAIN l = 1..Cardinality(positions) /\ Cardinality(positions) \in Nat
    BY <1>3, ListingType
<1>5. /\ \A i \in DOMAIN l : l[i] \in positions
      /\ \A i, j \in DOMAIN l : i < j => l[i] < l[j]
      /\ \A p \in positions : \E i \in DOMAIN l : l[i] = p
    BY <1>1 DEF Listings
<1>6. q \in Seq(Frames)
    BY SelectionType DEF TypeInv, TypeOK
<1>7. DOMAIN q = DOMAIN l /\ Len(q) = Cardinality(positions) /\ DOMAIN q = 1..Len(q)
    BY <1>1, <1>4, <1>6, LenProperties
<1>8. Embeds(l, q)
    BY <1>1, <1>5, <1>7 DEF Embeds
<1> QED
    BY <1>3, <1>4, <1>5, <1>6, <1>7, <1>8

-----------------------------------------------------------------------------
(* Every operation keeps the recovery prefix                               *)

LEMMA QueueKeepsPrefix ==
    ASSUME TypeInv, TypeInv', QueueValid, NEW f \in Frames, QueueClientFrame(f)
    PROVE  QueueValid'
<1>1. QueuePositions /\ QueuePositions'
    BY Positions, PositionsNext
<1>2. QueuedOnce /\ PrefixInOrder /\ ScheduledAreQueued
    BY <1>1, QueueByParts DEF QueueParts
<1>3. /\ Len(queue') = Len(queue) + 1
      /\ \A k \in 1..Len(queue) : queue'[k] = queue[k]
      /\ queue'[Len(queue) + 1] = f
    BY AppendProperties DEF TypeInv, TypeOK, QueueClientFrame
<1>4. DOMAIN queue' = DOMAIN queue \cup {Len(queue) + 1}
    BY <1>1, <1>3 DEF QueuePositions
<1>5. /\ pending' = pending
      /\ IsRequest(f) => f.id \notin DOMAIN pending /\ f.id \notin QueuedIds
    BY DEF QueueClientFrame
<1>6. \A k \in DOMAIN queue : IsRequest(queue[k]) /\ IsRequest(f) => queue[k].id # f.id
    BY <1>5 DEF QueuedIds
<1>7. \A k \in DOMAIN queue : queue'[k] = queue[k] /\ k < Len(queue) + 1
    BY <1>1, <1>3 DEF QueuePositions
<1>8. QueuedOnce'
    <2> SUFFICES ASSUME NEW j \in DOMAIN queue', NEW k \in DOMAIN queue', j < k,
                        IsRequest(queue'[j]), IsRequest(queue'[k])
                 PROVE  queue'[j].id # queue'[k].id
        BY DEF QueuedOnce
    <2>1. j \in DOMAIN queue
        <3>1. j \in 1..(Len(queue) + 1) /\ k \in 1..(Len(queue) + 1)
            BY <1>1, <1>3 DEF QueuePositions
        <3> QED
            BY <1>1, <3>1 DEF QueuePositions
    <2>2. CASE k \in DOMAIN queue
        BY <1>2, <1>7, <2>1, <2>2 DEF QueuedOnce
    <2>3. CASE k = Len(queue) + 1
        BY <1>3, <1>6, <1>7, <2>1, <2>3
    <2> QED
        BY <1>4, <2>2, <2>3
<1>9. PrefixInOrder'
    <2> SUFFICES ASSUME NEW k \in DOMAIN queue', NamesPending(queue[k])',
                        NEW j \in DOMAIN queue'
                 PROVE  /\ pending'[queue'[k].id].disposition # None
                        /\ pending'[queue'[k].id].frame = queue'[k]
                        /\ j < k =>
                            /\ NamesPending(queue[j])'
                            /\ pending'[queue'[j].id].sequence
                                    < pending'[queue'[k].id].sequence
        BY DEF PrefixInOrder
    <2>1. k \in DOMAIN queue
        BY <1>3, <1>4, <1>5 DEF NamesPending
    <2>2. j < k => j \in DOMAIN queue
        BY <1>1, <1>4, <2>1 DEF QueuePositions
    <2> QED
        BY <1>2, <1>5, <1>7, <2>1, <2>2 DEF PrefixInOrder, NamesPending
<1>10. ScheduledAreQueued'
    BY <1>2, <1>4, <1>5, <1>7 DEF ScheduledAreQueued
<1> QED
    BY <1>1, <1>8, <1>9, <1>10, QueueByPartsNext DEF QueueParts

LEMMA PopClientFrameKeepsPrefix ==
    ASSUME TypeInv, TypeInv', QueueValid, PopClientFrame
    PROVE  QueueValid'
<1> DEFINE l == [k \in DOMAIN queue' |-> k + 1]
<1>1. QueuePositions /\ QueuePositions'
    BY Positions, PositionsNext
<1>2. /\ Embeds(l, queue')
      /\ \A p \in DOMAIN queue \ {1} : \E k \in DOMAIN queue' : l[k] = p
      /\ ~ NamesPending(queue[1])
    BY TailEmbeds DEF PopClientFrame
<1>3. pending' = pending
    BY DEF PopClientFrame
<1>4. PrefixInOrder
    BY <1>1, QueueByParts DEF QueueParts
<1>5. \A k \in DOMAIN queue' : queue'[k] = queue[l[k]] /\ l[k] \in DOMAIN queue
    BY <1>2 DEF Embeds
<1>6. \A k \in DOMAIN queue' : NamesPending(queue'[k]) =>
            pending[queue'[k].id].disposition # None
    BY <1>4, <1>5 DEF PrefixInOrder
<1>7. \A id \in DOMAIN pending, p \in DOMAIN queue :
            IsRequest(queue[p]) /\ queue[p].id = id => p # 1
    BY <1>2 DEF NamesPending
<1> HIDE DEF l
<1> QED
    BY <1>1, <1>2, <1>3, <1>6, <1>7, EmbeddedQueue

LEMMA PopReplayKeepsPrefix ==
    ASSUME TypeInv, TypeInv', QueueValid, PopReplay
    PROVE  QueueValid'
<1> DEFINE l == [k \in DOMAIN queue' |-> k + 1]
<1> DEFINE first == queue[1].id
<1>1. QueuePositions /\ QueuePositions'
    BY Positions, PositionsNext
<1>2. /\ Embeds(l, queue')
      /\ \A p \in DOMAIN queue \ {1} : \E k \in DOMAIN queue' : l[k] = p
      /\ Head(queue) = queue[1] /\ 1 \in DOMAIN queue
    BY TailEmbeds DEF PopReplay
<1>3. IsRequest(queue[1]) /\ first \in DOMAIN pending /\ MayRedispatch(pending[first])
    BY <1>2 DEF PopReplay, NamesPending
<1>4. /\ DOMAIN pending' = DOMAIN pending
      /\ pending'[first] = Redispatched(pending[first])
      /\ \A i \in DOMAIN pending \ {first} : pending'[i] = pending[i]
    BY <1>2, <1>3, ReplacedAt DEF PopReplay
<1>5. pending'[first].disposition = None
    BY <1>3, <1>4, RedispatchedType, PendingType DEF TypeInv
<1>6. QueuedOnce /\ PrefixInOrder
    BY <1>1, QueueByParts DEF QueueParts
<1>7. \A k \in DOMAIN queue' : queue'[k] = queue[l[k]] /\ l[k] \in DOMAIN queue /\ 1 < l[k]
    BY <1>1, <1>2 DEF Embeds, QueuePositions
<1>8. \A k \in DOMAIN queue' : IsRequest(queue'[k]) => queue'[k].id # first
    BY <1>2, <1>3, <1>6, <1>7 DEF QueuedOnce
<1>9. \A k \in DOMAIN queue' : NamesPending(queue'[k]) =>
            /\ pending'[queue'[k].id].frame = pending[queue'[k].id].frame
            /\ pending'[queue'[k].id].sequence = pending[queue'[k].id].sequence
            /\ pending'[queue'[k].id].disposition # None
    BY <1>4, <1>6, <1>7, <1>8 DEF PrefixInOrder, NamesPending
<1>10. \A id \in DOMAIN pending' : pending'[id].disposition # None =>
            id # first /\ id \in DOMAIN pending /\ pending[id].disposition # None
    BY <1>4, <1>5
<1>11. \A id \in DOMAIN pending, p \in DOMAIN queue :
            id # first /\ IsRequest(queue[p]) /\ queue[p].id = id => p \in DOMAIN queue \ {1}
    OBVIOUS
<1> HIDE DEF l
<1> QED
    BY <1>1, <1>2, <1>4, <1>9, <1>10, <1>11, EmbeddedQueue

\* The queue is left alone.
LEMMA IdentityEmbeds ==
    ASSUME queue' = queue
    PROVE  /\ Embeds([k \in DOMAIN queue' |-> k], queue')
           /\ \A p \in DOMAIN queue : \E k \in DOMAIN queue' : k = p
BY DEF Embeds

LEMMA BeginKeepsPrefix ==
    ASSUME TypeInv, TypeInv', QueueValid, NEW f \in Frames, NEW contract \in Contracts,
           BeginRequestDispatch(f, contract)
    PROVE  QueueValid'
<1> DEFINE l == [k \in DOMAIN queue' |-> k]
<1>1. QueuePositions /\ QueuePositions'
    BY Positions, PositionsNext
<1>2. /\ queue' = queue
      /\ f.id \notin DOMAIN pending /\ f.id \notin QueuedIds
      /\ DOMAIN pending' = DOMAIN pending \cup {f.id}
      /\ pending'[f.id].disposition = None
      /\ \A i \in DOMAIN pending : pending'[i] = pending[i]
    BY DEF BeginRequestDispatch, MayBegin, FirstDispatchOf
<1>3. /\ Embeds(l, queue')
      /\ \A p \in DOMAIN queue : \E k \in DOMAIN queue' : l[k] = p
    BY <1>2, IdentityEmbeds
<1>4. \A k \in DOMAIN queue' : IsRequest(queue'[k]) => queue'[k].id # f.id
    BY <1>2 DEF QueuedIds
<1>5. PrefixInOrder
    BY <1>1, QueueByParts DEF QueueParts
<1>6. \A k \in DOMAIN queue' : NamesPending(queue'[k]) =>
            /\ queue'[k].id \in DOMAIN pending
            /\ pending'[queue'[k].id].disposition # None
    BY <1>2, <1>5 DEF PrefixInOrder, NamesPending
<1> HIDE DEF l
<1> QED
    BY <1>1, <1>2, <1>3, <1>4, <1>6, EmbeddedQueue

LEMMA ProbeAuthorizesKeepsPrefix ==
    ASSUME TypeInv, TypeInv', QueueValid, NEW id \in Ids, NEW resolution \in Resolutions,
           ProbeAuthorizesReplay(id, resolution)
    PROVE  QueueValid'
<1> DEFINE l == [k \in DOMAIN queue' |-> k]
<1>1. QueuePositions /\ QueuePositions'
    BY Positions, PositionsNext
<1>2. queue' = queue /\ id \in DOMAIN pending /\ pending[id].disposition = "HoldForProbe"
    BY DEF ProbeAuthorizesReplay, Held
<1>3. /\ DOMAIN pending' = DOMAIN pending
      /\ pending'[id] = Authorized(pending[id])
      /\ \A i \in DOMAIN pending \ {id} : pending'[i] = pending[i]
    BY <1>2, ReplacedAt DEF ProbeAuthorizesReplay
<1>4. /\ Authorized(pending[id]).frame = pending[id].frame
      /\ Authorized(pending[id]).sequence = pending[id].sequence
      /\ Authorized(pending[id]).disposition = "Replay"
    BY <1>2, PendingType DEF TypeInv, Authorized, PendingRequest
<1>5. /\ Embeds(l, queue')
      /\ \A p \in DOMAIN queue : \E k \in DOMAIN queue' : l[k] = p
    BY <1>2, IdentityEmbeds
<1>6. PrefixInOrder
    BY <1>1, QueueByParts DEF QueueParts
<1>7. \A i \in DOMAIN pending :
            /\ pending'[i].frame = pending[i].frame
            /\ pending'[i].sequence = pending[i].sequence
            /\ pending'[i].disposition # None <=> pending[i].disposition # None
    BY <1>2, <1>3, <1>4 DEF None
<1>8. \A k \in DOMAIN queue' : NamesPending(queue'[k]) =>
            /\ queue'[k].id \in DOMAIN pending
            /\ pending[queue'[k].id].disposition # None
    BY <1>2, <1>6 DEF PrefixInOrder, NamesPending
<1> HIDE DEF l
<1> QED
    BY <1>1, <1>3, <1>5, <1>7, <1>8, EmbeddedQueue

LEMMA TerminationKeepsPrefix ==
    ASSUME TypeInv, TypeInv', QueueValid, NEW id \in DOMAIN pending,
           pending' = Without(pending, {id}), queue' \in WithoutRequest(id)
    PROVE  QueueValid'
<1> DEFINE positions == {k \in DOMAIN queue : ~ (IsRequest(queue[k]) /\ queue[k].id = id)}
<1>1. QueuePositions /\ QueuePositions'
    BY Positions, PositionsNext
<1>2. DOMAIN pending' = DOMAIN pending \ {id} /\ \A i \in DOMAIN pending' : pending'[i] = pending[i]
    BY WithoutType
<1>3. PICK l : /\ Embeds(l, queue')
               /\ \A k \in DOMAIN queue' : l[k] \in positions
               /\ \A p \in positions : \E k \in DOMAIN queue' : l[k] = p
    <2>1. positions \in SUBSET DOMAIN queue /\ queue' \in Selections(positions)
        BY DEF WithoutRequest
    <2> HIDE DEF positions
    <2> QED
        BY <2>1, SelectionEmbeds
<1>4. \A k \in DOMAIN queue' :
            queue'[k] = queue[l[k]] /\ l[k] \in DOMAIN queue
    BY <1>3 DEF Embeds
<1>5. \A k \in DOMAIN queue' : IsRequest(queue'[k]) => queue'[k].id # id
    BY <1>3, <1>4
<1>6. PrefixInOrder
    BY <1>1, QueueByParts DEF QueueParts
<1>7. \A k \in DOMAIN queue' : NamesPending(queue'[k]) =>
            /\ queue'[k].id \in DOMAIN pending'
            /\ pending[queue'[k].id].disposition # None
    BY <1>2, <1>4, <1>5, <1>6 DEF PrefixInOrder, NamesPending
<1>8. \A i \in DOMAIN pending', p \in DOMAIN queue :
            IsRequest(queue[p]) /\ queue[p].id = i => p \in positions
    BY <1>2
<1> HIDE DEF positions
<1> QED
    BY <1>1, <1>2, <1>3, <1>5, <1>7, <1>8, EmbeddedQueue

\* The queue after a requeue: the frames of the n invocations l, oldest first,
\* and behind them those of the backlog, at the m positions b of before.
RequeueShape(n, m, l, b) ==
    /\ n = Cardinality(Rescheduled) /\ m = Cardinality(BacklogPositions)
    /\ Len(queue') = n + m
    /\ \A i \in 1..n : l[i] \in Rescheduled /\ queue'[i] = pending[l[i]].frame
    /\ \A i, j \in 1..n : i < j => pending[l[i]].sequence < pending[l[j]].sequence
    /\ \A id \in Rescheduled : \E i \in 1..n : l[i] = id
    /\ \A i \in 1..m : b[i] \in BacklogPositions /\ queue'[n + i] = queue[b[i]]
    /\ \A i, j \in 1..m : i < j => b[i] < b[j]
    /\ \A p \in BacklogPositions : \E i \in 1..m : b[i] = p

LEMMA RequeueHasShape ==
    ASSUME TypeInv, TypeInv', RequeuePendingForReplay
    PROVE  \E n \in Nat, m \in Nat : \E l, b : RequeueShape(n, m, l, b)
<1> DEFINE n == Cardinality(Rescheduled)
<1> DEFINE m == Cardinality(BacklogPositions)
<1> DEFINE key == [id \in Rescheduled |-> pending[id].sequence]
<1>1. PICK recovered \in RecoveryQueues, backlog \in Selections(BacklogPositions) :
            queue' = recovered \o backlog
    BY DEF RequeuePendingForReplay
<1>2. PICK l \in Listings(Rescheduled, key) :
            recovered = [i \in DOMAIN l |-> pending[l[i]].frame]
    BY <1>1 DEF RecoveryQueues
<1>3. Rescheduled \subseteq DOMAIN pending /\ IsFiniteSet(Rescheduled)
    BY FS_Subset DEF Rescheduled, Replayable, TypeInv
<1>4. DOMAIN l = 1..n /\ n \in Nat
    BY <1>3, ListingType
<1>5. /\ \A i \in 1..n : l[i] \in Rescheduled
      /\ \A i, j \in 1..n : i < j => pending[l[i]].sequence < pending[l[j]].sequence
      /\ \A id \in Rescheduled : \E i \in 1..n : l[i] = id
    BY <1>2, <1>4 DEF Listings
<1>6. recovered \in Seq(Frames) /\ Len(recovered) = n
    <2>1. \A i \in 1..n : pending[l[i]].frame \in Frames
        BY <1>3, <1>5, PendingType DEF TypeInv
    <2>2. recovered \in [1..n -> Frames]
        BY <1>2, <1>4, <2>1
    <2>3. recovered \in Seq(Frames)
        BY <1>4, <2>2, SeqDef
    <2> QED
        BY <1>4, <2>2, <2>3, LenProperties
<1>7. BacklogPositions \in SUBSET DOMAIN queue
    BY DEF BacklogPositions
<1>8. /\ backlog \in Seq(Frames) /\ Len(backlog) = m /\ m \in Nat /\ DOMAIN backlog = 1..m
      /\ \E b : /\ Embeds(b, backlog)
                /\ \A k \in DOMAIN backlog : b[k] \in BacklogPositions
                /\ \A p \in BacklogPositions : \E k \in DOMAIN backlog : b[k] = p
    BY <1>1, <1>7, SelectionEmbeds
<1>9. PICK b : /\ Embeds(b, backlog)
               /\ \A k \in DOMAIN backlog : b[k] \in BacklogPositions
               /\ \A p \in BacklogPositions : \E k \in DOMAIN backlog : b[k] = p
    BY <1>8
<1>10. /\ \A i \in 1..m : b[i] \in BacklogPositions /\ backlog[i] = queue[b[i]]
       /\ \A i, j \in 1..m : i < j => b[i] < b[j]
       /\ \A p \in BacklogPositions : \E i \in 1..m : b[i] = p
    BY <1>8, <1>9 DEF Embeds
<1> HIDE DEF n, m
<1>11. /\ Len(queue') = n + m
       /\ \A i \in 1..(n + m) :
            queue'[i] = IF i <= n THEN recovered[i] ELSE backlog[i - n]
    <2>1. backlog \in Seq(Frames) /\ Len(backlog) = m /\ m \in Nat
        BY <1>8
    <2> QED
        BY <1>1, <1>6, <2>1, ConcatProperties
<1>12. \A i \in 1..n : queue'[i] = pending[l[i]].frame
    BY <1>2, <1>4, <1>8, <1>11
<1>13. \A i \in 1..m : queue'[n + i] = queue[b[i]]
    <2> SUFFICES ASSUME NEW i \in 1..m PROVE queue'[n + i] = queue[b[i]]
        OBVIOUS
    <2>1. n + i \in 1..(n + m) /\ ~ (n + i <= n) /\ (n + i) - n = i
        BY <1>4, <1>8
    <2>2. queue'[n + i] = backlog[(n + i) - n]
        BY <1>11, <2>1
    <2> QED
        BY <1>10, <2>1, <2>2
<1>14. n = Cardinality(Rescheduled) /\ m = Cardinality(BacklogPositions)
    BY DEF n, m
<1>15. RequeueShape(n, m, l, b)
    BY <1>5, <1>10, <1>11, <1>12, <1>13, <1>14 DEF RequeueShape
<1> QED
    BY <1>4, <1>8, <1>15

LEMMA RequeueKeepsPrefix ==
    ASSUME TypeInv, TypeInv', QueueValid, RequeuePendingForReplay
    PROVE  QueueValid'
<1>1. QueuePositions /\ QueuePositions'
    BY Positions, PositionsNext
<1>0. PICK n \in Nat, m \in Nat : \E l, b : RequeueShape(n, m, l, b)
    BY RequeueHasShape
<1>2. PICK l, b : RequeueShape(n, m, l, b)
    BY <1>0
<1>3. /\ \A i \in 1..n : l[i] \in Rescheduled /\ queue'[i] = pending[l[i]].frame
      /\ \A i, j \in 1..n : i < j => pending[l[i]].sequence < pending[l[j]].sequence
      /\ \A id \in Rescheduled : \E i \in 1..n : l[i] = id
      /\ \A i \in 1..m : b[i] \in BacklogPositions /\ queue'[n + i] = queue[b[i]]
      /\ \A i, j \in 1..m : i < j => b[i] < b[j]
    BY <1>2 DEF RequeueShape
<1>4. DOMAIN queue' = 1..(n + m)
    BY <1>1, <1>2 DEF RequeueShape, QueuePositions
<1>5. \A id \in Rescheduled :
            /\ id \in DOMAIN pending
            /\ IsRequest(pending[id].frame) /\ pending[id].frame.id = id
            /\ pending[id].sequence \in Nat
    BY PendingType DEF Rescheduled, Replayable, TypeInv, SequenceNumbers
<1>6. /\ DOMAIN pending' = Rescheduled
      /\ \A id \in Rescheduled :
            /\ pending'[id].frame = pending[id].frame
            /\ pending'[id].sequence = pending[id].sequence
            /\ pending'[id].disposition # None
    <2>1. DOMAIN pending' = Rescheduled /\ \A id \in Rescheduled : pending'[id] = Scheduled(id)
        BY DEF RequeuePendingForReplay
    <2>2. \A id \in Rescheduled : LossDisposition(id) # None
        BY DEF Rescheduled, Replayable, None
    <2> QED
        BY <1>5, <2>1, <2>2, ScheduledType
<1>7. \A i \in 1..n :
            /\ IsRequest(queue'[i]) /\ queue'[i].id = l[i]
            /\ l[i] \in DOMAIN pending' /\ pending'[l[i]].frame = queue'[i]
    BY <1>3, <1>5, <1>6
<1>8. \A i \in 1..m : b[i] \in DOMAIN queue /\ ~ NamesPending(queue'[n + i])
    BY <1>3 DEF BacklogPositions
<1>9. ASSUME NEW k \in DOMAIN queue'
      PROVE  k \in 1..n \/ (k - n \in 1..m /\ k = n + (k - n))
    BY <1>4, <1>9
<1>10. ASSUME NEW k \in DOMAIN queue', IsRequest(queue'[k])
       PROVE  queue'[k].id \in DOMAIN pending <=> k \in 1..n
    <2>1. k \in 1..n => queue'[k].id \in DOMAIN pending
        BY <1>3, <1>5, <1>7
    <2>2. k \notin 1..n => queue'[k].id \notin DOMAIN pending
        BY <1>8, <1>9, <1>10 DEF NamesPending
    <2> QED
        BY <2>1, <2>2
<1>11. QueuedOnce'
    <2> SUFFICES ASSUME NEW j \in DOMAIN queue', NEW k \in DOMAIN queue', j < k,
                        IsRequest(queue'[j]), IsRequest(queue'[k])
                 PROVE  queue'[j].id # queue'[k].id
        BY DEF QueuedOnce
    <2>1. CASE j \in 1..n /\ k \in 1..n
        <3>1. pending[l[j]].sequence < pending[l[k]].sequence
            BY <1>3, <2>1
        <3>2. pending[l[j]].sequence \in Nat
            BY <1>3, <1>5, <2>1
        <3>3. l[j] # l[k]
            BY <3>1, <3>2
        <3> QED
            BY <1>7, <2>1, <3>3
    <2>2. CASE j \in 1..n /\ k \notin 1..n
        BY <1>10, <2>2
    <2>3. CASE j \notin 1..n
        <3>1. /\ j - n \in 1..m /\ j = n + (j - n)
              /\ k - n \in 1..m /\ k = n + (k - n) /\ j - n < k - n
            BY <1>4, <1>9, <2>3
        <3>2. /\ queue'[j] = queue[b[j - n]] /\ queue'[k] = queue[b[k - n]]
              /\ b[j - n] < b[k - n]
              /\ b[j - n] \in DOMAIN queue /\ b[k - n] \in DOMAIN queue
            BY <1>3, <1>8, <3>1
        <3>3. QueuedOnce
            BY <1>1, QueueByParts DEF QueueParts
        <3> QED
            BY <3>2, <3>3 DEF QueuedOnce
    <2> QED
        BY <2>1, <2>2, <2>3
<1>12. PrefixInOrder'
    <2> SUFFICES ASSUME NEW k \in DOMAIN queue', NamesPending(queue[k])',
                        NEW j \in DOMAIN queue'
                 PROVE  /\ pending'[queue'[k].id].disposition # None
                        /\ pending'[queue'[k].id].frame = queue'[k]
                        /\ j < k =>
                            /\ NamesPending(queue[j])'
                            /\ pending'[queue'[j].id].sequence
                                    < pending'[queue'[k].id].sequence
        BY DEF PrefixInOrder
    <2>1. k \in 1..n
        BY <1>5, <1>6, <1>10 DEF NamesPending
    <2>2. j < k => j \in 1..n
        BY <1>4, <2>1
    <2>3. j < k => pending[l[j]].sequence < pending[l[k]].sequence
        BY <1>3, <2>1, <2>2
    <2> QED
        BY <1>3, <1>6, <1>7, <2>1, <2>2, <2>3 DEF NamesPending
<1>13. ScheduledAreQueued'
    <2> SUFFICES ASSUME NEW id \in DOMAIN pending'
                 PROVE  \E k \in DOMAIN queue' : IsRequest(queue'[k]) /\ queue'[k].id = id
        BY DEF ScheduledAreQueued
    <2>1. PICK i \in 1..n : l[i] = id
        BY <1>3, <1>6
    <2>2. i \in DOMAIN queue'
        BY <1>4
    <2> QED
        BY <1>7, <2>1, <2>2
<1> QED
    BY <1>1, <1>11, <1>12, <1>13, QueueByPartsNext DEF QueueParts

-----------------------------------------------------------------------------
(* The capacities.  A requeue is the step that must count: it adds to the  *)
(* queue what was pending, and leaves the backlog where it is.             *)

LEMMA RequeueFits ==
    ASSUME TypeInv, TypeInv', CapacitiesKept, RequeuePendingForReplay
    PROVE  Len(queue') <= QueueCapacity
<1>0. PICK n \in Nat, m \in Nat : \E l, b : RequeueShape(n, m, l, b)
    BY RequeueHasShape
<1>1. PICK l, b : RequeueShape(n, m, l, b)
    BY <1>0
<1>2. Len(queue') = n + m
    BY <1>1 DEF RequeueShape
<1>3. m <= Len(queue)
    <2>1. BacklogPositions \in SUBSET (1..Len(queue)) /\ Len(queue) \in Nat
        BY Positions DEF BacklogPositions, QueuePositions
    <2>2. IsFiniteSet(1..Len(queue)) /\ Cardinality(1..Len(queue)) <= Len(queue)
        <3>1. Len(queue) \in Int /\ 1 \in Int
            BY <2>1
        <3>2. /\ IsFiniteSet(1..Len(queue))
              /\ Cardinality(1..Len(queue))
                    = IF 1 > Len(queue) THEN 0 ELSE Len(queue) - 1 + 1
            BY <3>1, FS_Interval
        <3> QED
            BY <2>1, <3>2
    <2>3. Cardinality(BacklogPositions) <= Cardinality(1..Len(queue))
        BY <2>1, <2>2, FS_Subset
    <2>4. Cardinality(1..Len(queue)) \in Nat
        BY <2>2, FS_CardinalityType
    <2> QED
        BY <1>1, <2>1, <2>2, <2>3, <2>4 DEF RequeueShape
<1>4. CASE n = 0
    <2>1. Len(queue) \in Nat
        BY Positions DEF QueuePositions
    <2> QED
        BY <1>2, <1>3, <1>4, <2>1, LimitsAssumption DEF CapacitiesKept
<1>5. CASE n # 0
    <2> DEFINE last == l[n]
    <2>1. n \in 1..n
        BY <1>5
    <2>2. last \in Rescheduled
        BY <1>1, <2>1 DEF RequeueShape
    <2>3. Cardinality(Older(last)) + m < QueueCapacity
        BY <1>1, <2>2 DEF Rescheduled, RequeueShape
    <2>4. Replayable \subseteq DOMAIN pending /\ IsFiniteSet(Replayable)
        BY FS_Subset DEF Replayable, TypeInv
    <2>5. Older(last) \in SUBSET Replayable /\ Rescheduled \in SUBSET Replayable
        BY DEF Older, Rescheduled
    <2>6. IsFiniteSet(Older(last)) /\ IsFiniteSet(Rescheduled)
        BY <2>4, <2>5, FS_Subset
    <2>7. Rescheduled \ {last} \in SUBSET Older(last)
        <3> SUFFICES ASSUME NEW id \in Rescheduled, id # last
                     PROVE  id \in Older(last)
            OBVIOUS
        <3>1. PICK i \in 1..n : l[i] = id
            BY <1>1 DEF RequeueShape
        <3>2. i < n
            BY <3>1
        <3>3. pending[l[i]].sequence < pending[l[n]].sequence
            BY <1>1, <2>1, <3>2 DEF RequeueShape
        <3> QED
            BY <2>5, <3>1, <3>3 DEF Older
    <2>8. Cardinality(Rescheduled \ {last}) = n - 1
        BY <1>1, <2>2, <2>6, FS_RemoveElement DEF RequeueShape
    <2>9. n - 1 <= Cardinality(Older(last)) /\ Cardinality(Older(last)) \in Nat
        BY <2>6, <2>7, <2>8, FS_Subset, FS_CardinalityType
    <2> QED
        BY <1>2, <2>3, <2>9, LimitsAssumption
<1> QED
    BY <1>4, <1>5

LEMMA SnapshotCapacities ==
    ASSUME TypeInv, TypeInv', CapacitiesKept, [Next]_vars
    PROVE  CapacitiesKept'
<1>1. IsFiniteSet(DOMAIN pending) /\ Cardinality(DOMAIN pending) \in Nat
    BY FS_CardinalityType DEF TypeInv
<1>2. QueuePositions
    BY Positions
<1>3. ASSUME NEW ids \in SUBSET DOMAIN pending
      PROVE  Cardinality(ids) <= PendingCapacity
    <2>1. IsFiniteSet(ids) /\ Cardinality(ids) <= Cardinality(DOMAIN pending)
        BY <1>1, FS_Subset
    <2>2. Cardinality(ids) \in Nat
        BY <2>1, FS_CardinalityType
    <2> QED
        BY <1>1, <2>1, <2>2, LimitsAssumption DEF CapacitiesKept
<1>4. ASSUME NEW f \in Frames, ObserveInitialize(f) \/ ObserveInitialized(f)
      PROVE  CapacitiesKept'
    BY <1>4 DEF ObserveInitialize, ObserveInitialized, CapacitiesKept
<1>5. ASSUME NEW f \in Frames, QueueClientFrame(f) PROVE CapacitiesKept'
    <2>1. Len(queue') = Len(queue) + 1
        BY <1>5, AppendProperties DEF QueueClientFrame, TypeInv, TypeOK
    <2> QED
        BY <1>2, <1>5, <2>1, LimitsAssumption
        DEF QueueClientFrame, CapacitiesKept, QueuePositions
<1>6. ASSUME NEW f \in Frames, NEW contract \in Contracts,
             BeginRequestDispatch(f, contract)
      PROVE  CapacitiesKept'
    <2>1. DOMAIN pending' = DOMAIN pending \cup {f.id} /\ queue' = queue
        BY <1>6 DEF BeginRequestDispatch
    <2>2. Cardinality(DOMAIN pending') <= Cardinality(DOMAIN pending) + 1
        BY <1>1, <2>1, FS_AddElement
    <2>3. Cardinality(DOMAIN pending) < PendingCapacity
        BY <1>6 DEF BeginRequestDispatch, MayBegin
    <2>4. Cardinality(DOMAIN pending') \in Nat
        BY FS_CardinalityType DEF TypeInv
    <2> QED
        BY <1>1, <2>1, <2>2, <2>3, <2>4, LimitsAssumption DEF CapacitiesKept
<1>7. ASSUME PopClientFrame \/ PopReplay PROVE CapacitiesKept'
    <2>1. Len(queue') = Len(queue) - 1
        BY <1>7, TailEmbeds DEF PopClientFrame, PopReplay
    <2>2. DOMAIN pending' = DOMAIN pending
        BY <1>7 DEF PopClientFrame, PopReplay
    <2> QED
        BY <1>2, <2>1, <2>2, LimitsAssumption DEF CapacitiesKept, QueuePositions
<1>8. ASSUME NEW id \in DOMAIN pending, pending' = Without(pending, {id}),
             queue' \in WithoutRequest(id)
      PROVE  CapacitiesKept'
    <2>1. DOMAIN pending' \in SUBSET DOMAIN pending
        BY <1>8 DEF Without
    <2>2. Len(queue') <= Len(queue) /\ Len(queue') \in Nat
        BY <1>8, SelectionEmbeds DEF WithoutRequest
    <2> QED
        BY <1>2, <1>3, <2>1, <2>2, LimitsAssumption DEF CapacitiesKept, QueuePositions
<1>9. ASSUME NEW id \in Ids, NEW hasError \in BOOLEAN, CompleteResponse(id, hasError)
      PROVE  CapacitiesKept'
    BY <1>8, <1>9 DEF CompleteResponse
<1>10. ASSUME NEW id \in Ids, NEW resolution \in Resolutions,
              ProbeCompletes(id, resolution) \/ ProbeExhausted(id, resolution)
       PROVE  CapacitiesKept'
    BY <1>8, <1>10 DEF ProbeCompletes, ProbeExhausted, Held
<1>11. ASSUME NEW id \in Ids, NEW resolution \in Resolutions,
              ProbeAuthorizesReplay(id, resolution)
       PROVE  CapacitiesKept'
    BY <1>11 DEF ProbeAuthorizesReplay, CapacitiesKept
<1>12. ASSUME RequeuePendingForReplay PROVE CapacitiesKept'
    <2>1. DOMAIN pending' \in SUBSET DOMAIN pending
        BY <1>12 DEF RequeuePendingForReplay, Rescheduled, Replayable
    <2> QED
        BY <1>3, <1>12, <2>1, RequeueFits DEF CapacitiesKept
<1>13. CASE UNCHANGED vars
    BY <1>13 DEF vars, CapacitiesKept
<1> QED
    BY <1>4, <1>5, <1>6, <1>7, <1>9, <1>10, <1>11, <1>12, <1>13 DEF Next

-----------------------------------------------------------------------------
(* What is scheduled, and the session                                      *)

\* Without evidence the law holds only what asks for a probe.
LEMMA VerdictHolds ==
    ASSUME NEW knowledge \in Knowledge, NEW contract \in Contracts, NEW attempts,
           RequestDisposition(knowledge, contract, None, attempts, MaxAttempts)
                = "HoldForProbe"
    PROVE  contract = "ProbeRequired"
<1>1. knowledge = "OutcomeUnknown"
    BY DEF RequestDisposition, Knowledge, None
<1>2. UnknownDisposition(contract, None, attempts, MaxAttempts) = "HoldForProbe"
    BY <1>1 DEF RequestDisposition, None
<1>3. ReplayOrExhausted(attempts, MaxAttempts) # "HoldForProbe"
    BY DEF ReplayOrExhausted
<1> QED
    BY <1>2, <1>3 DEF UnknownDisposition, None

LEMMA SnapshotDispositions ==
    ASSUME TypeInv, TypeInv', HeldAreProbeRequired, [Next]_vars
    PROVE  HeldAreProbeRequired'
<1>1. ASSUME pending' = pending PROVE HeldAreProbeRequired'
    BY <1>1 DEF HeldAreProbeRequired
<1>2. ASSUME NEW f \in Frames,
             ObserveInitialize(f) \/ ObserveInitialized(f) \/ QueueClientFrame(f)
      PROVE  HeldAreProbeRequired'
    BY <1>1, <1>2 DEF ObserveInitialize, ObserveInitialized, QueueClientFrame
<1>3. ASSUME NEW f \in Frames, NEW contract \in Contracts,
             BeginRequestDispatch(f, contract)
      PROVE  HeldAreProbeRequired'
    <2>1. /\ DOMAIN pending' = DOMAIN pending \cup {f.id}
          /\ pending'[f.id].disposition = None
          /\ \A i \in DOMAIN pending \ {f.id} : pending'[i] = pending[i]
        BY <1>3 DEF BeginRequestDispatch, FirstDispatchOf
    <2> QED
        BY <2>1 DEF HeldAreProbeRequired, None
<1>4. ASSUME PopReplay PROVE HeldAreProbeRequired'
    <2> DEFINE id == Head(queue).id
    <2>1. id \in DOMAIN pending /\ MayRedispatch(pending[id])
        BY <1>4 DEF PopReplay, NamesPending
    <2>2. /\ DOMAIN pending' = DOMAIN pending
          /\ pending'[id] = Redispatched(pending[id])
          /\ \A i \in DOMAIN pending \ {id} : pending'[i] = pending[i]
        BY <1>4, <2>1, ReplacedAt DEF PopReplay
    <2>3. Redispatched(pending[id]).disposition = None
        BY <2>1, RedispatchedType, PendingType DEF TypeInv
    <2> QED
        BY <2>2, <2>3 DEF HeldAreProbeRequired, None
<1>5. ASSUME NEW id, pending' = Without(pending, {id}) PROVE HeldAreProbeRequired'
    BY <1>5 DEF Without, HeldAreProbeRequired
<1>6. ASSUME NEW id \in Ids, NEW hasError \in BOOLEAN, CompleteResponse(id, hasError)
      PROVE  HeldAreProbeRequired'
    BY <1>5, <1>6 DEF CompleteResponse
<1>7. ASSUME NEW id \in Ids, NEW resolution \in Resolutions,
             ProbeCompletes(id, resolution) \/ ProbeExhausted(id, resolution)
      PROVE  HeldAreProbeRequired'
    BY <1>5, <1>7 DEF ProbeCompletes, ProbeExhausted
<1>8. ASSUME NEW id \in Ids, NEW resolution \in Resolutions,
             ProbeAuthorizesReplay(id, resolution)
      PROVE  HeldAreProbeRequired'
    <2>1. id \in DOMAIN pending
        BY <1>8 DEF ProbeAuthorizesReplay, Held
    <2>2. /\ DOMAIN pending' = DOMAIN pending
          /\ pending'[id] = Authorized(pending[id])
          /\ \A i \in DOMAIN pending \ {id} : pending'[i] = pending[i]
        BY <1>8, <2>1, ReplacedAt DEF ProbeAuthorizesReplay
    <2>3. Authorized(pending[id]).disposition = "Replay"
        BY <2>1, PendingType DEF TypeInv, Authorized, PendingRequest
    <2> QED
        BY <2>2, <2>3 DEF HeldAreProbeRequired
<1>9. ASSUME RequeuePendingForReplay PROVE HeldAreProbeRequired'
    <2> SUFFICES ASSUME NEW id \in DOMAIN pending'
                 PROVE  /\ pending'[id].disposition \in {None, "Replay", "HoldForProbe"}
                        /\ pending'[id].disposition = "HoldForProbe" =>
                                pending'[id].contract = "ProbeRequired"
        BY DEF HeldAreProbeRequired
    <2>1. /\ id \in DOMAIN pending /\ pending'[id] = Scheduled(id)
          /\ LossDisposition(id) \in {"Replay", "HoldForProbe"}
        BY <1>9 DEF RequeuePendingForReplay, Rescheduled, Replayable
    <2>2. /\ Scheduled(id).disposition = LossDisposition(id)
          /\ Scheduled(id).contract = pending[id].contract
        BY <2>1, ScheduledType
    <2>3. AfterWorkerLoss(pending[id].knowledge) \in Knowledge /\ pending[id].contract \in Contracts
        BY <2>1, PendingType, KnowledgeAfterLoss DEF TypeInv
    <2>4. LossDisposition(id) = "HoldForProbe" => pending[id].contract = "ProbeRequired"
        BY <2>3, VerdictHolds DEF LossDisposition
    <2> QED
        BY <2>1, <2>2, <2>4
<1>10. CASE PopClientFrame \/ UNCHANGED vars
    BY <1>1, <1>10 DEF PopClientFrame, vars
<1> QED
    BY <1>2, <1>3, <1>4, <1>6, <1>7, <1>8, <1>9, <1>10 DEF Next

\* Pending initializes can only disappear, but for the first dispatch of one.
LEMMA SessionKept ==
    ASSUME TypeInv, SessionAgrees,
           \A id \in DOMAIN pending' :
                id \in DOMAIN pending /\ pending'[id].frame = pending[id].frame,
           UNCHANGED session
    PROVE  SessionAgrees'
<1>1. PendingInitializes' \subseteq PendingInitializes
    BY DEF PendingInitializes
<1>2. \A id \in PendingInitializes' : pending'[id].frame = pending[id].frame
    BY DEF PendingInitializes
<1>3. phase' = phase /\ seed' = seed /\ notified' = notified
    BY DEF session
<1> QED
    BY <1>1, <1>2, <1>3 DEF SessionAgrees

LEMMA SnapshotSession ==
    ASSUME TypeInv, TypeInv', SessionAgrees, [Next]_vars
    PROVE  SessionAgrees'
<1>1. ASSUME NEW f \in Frames, ObserveInitialize(f) PROVE SessionAgrees'
    <2>1. /\ phase = "Cold" /\ phase' = "Cold" /\ seed' = f /\ notified' = FALSE
          /\ pending' = pending
        BY <1>1 DEF ObserveInitialize
    <2>2. PendingInitializes = {} /\ PendingInitializes' = {}
        BY <2>1 DEF SessionAgrees, PendingInitializes
    <2> QED
        BY <2>1, <2>2 DEF SessionAgrees
<1>2. ASSUME NEW f \in Frames, ObserveInitialized(f) PROVE SessionAgrees'
    <2>1. /\ phase = "AwaitingInitialized" /\ phase' = "Live" /\ seed # NoFrame
          /\ seed' = seed /\ notified' = TRUE /\ pending' = pending
        BY <1>2 DEF ObserveInitialized
    <2>2. PendingInitializes = {} /\ PendingInitializes' = {}
        BY <2>1 DEF SessionAgrees, PendingInitializes
    <2> QED
        BY <2>1, <2>2 DEF SessionAgrees
<1>3. ASSUME PopClientFrame \/ UNCHANGED vars \/ \E f \in Frames : QueueClientFrame(f)
      PROVE  SessionAgrees'
    <2>1. pending' = pending /\ UNCHANGED session
        BY <1>3 DEF PopClientFrame, QueueClientFrame, vars, session
    <2> QED
        BY <2>1, SessionKept
<1>4. ASSUME NEW f \in Frames, NEW contract \in Contracts,
             BeginRequestDispatch(f, contract)
      PROVE  SessionAgrees'
    <2>1. /\ DOMAIN pending' = DOMAIN pending \cup {f.id}
          /\ f.id \notin DOMAIN pending
          /\ pending'[f.id].frame = f
          /\ \A i \in DOMAIN pending : pending'[i] = pending[i]
          /\ notified' = notified
        BY <1>4 DEF BeginRequestDispatch, MayBegin, FirstDispatchOf
    <2>2. CASE IsInitialize(f)
        <3>1. phase = "Cold" /\ phase' = "Initializing" /\ seed' = f
            BY <1>4, <2>2 DEF BeginRequestDispatch, MayBegin
        <3>2. PendingInitializes = {}
            BY <3>1 DEF SessionAgrees
        <3>3. PendingInitializes' \subseteq {f.id}
            BY <2>1, <3>2 DEF PendingInitializes
        <3>4. f # NoFrame
            BY FramesAssumption
        <3> QED
            BY <2>1, <3>1, <3>3, <3>4 DEF SessionAgrees
    <2>3. CASE ~ IsInitialize(f)
        <3>1. phase' = phase /\ seed' = seed
            BY <1>4, <2>3 DEF BeginRequestDispatch
        <3>2. PendingInitializes' \subseteq PendingInitializes
            BY <2>1, <2>3 DEF PendingInitializes
        <3>3. \A id \in PendingInitializes' : pending'[id] = pending[id]
            BY <2>1, <3>2 DEF PendingInitializes
        <3> QED
            BY <2>1, <3>1, <3>2, <3>3 DEF SessionAgrees
    <2> QED
        BY <2>2, <2>3
<1>5. ASSUME PopReplay PROVE SessionAgrees'
    <2> DEFINE id == Head(queue).id
    <2>1. id \in DOMAIN pending /\ MayRedispatch(pending[id])
        BY <1>5 DEF PopReplay, NamesPending
    <2>2. /\ DOMAIN pending' = DOMAIN pending
          /\ pending'[id] = Redispatched(pending[id])
          /\ \A i \in DOMAIN pending \ {id} : pending'[i] = pending[i]
        BY <1>5, <2>1, ReplacedAt DEF PopReplay
    <2>3. Redispatched(pending[id]).frame = pending[id].frame
        BY <2>1, RedispatchedType, PendingType DEF TypeInv
    <2>4. UNCHANGED session
        BY <1>5 DEF PopReplay, session
    <2> QED
        BY <2>2, <2>3, <2>4, SessionKept
<1>6. ASSUME NEW id \in Ids, NEW hasError \in BOOLEAN, CompleteResponse(id, hasError)
      PROVE  SessionAgrees'
    <2>1. /\ id \in DOMAIN pending
          /\ DOMAIN pending' = DOMAIN pending \ {id}
          /\ \A i \in DOMAIN pending' : pending'[i] = pending[i]
        BY <1>6, WithoutType DEF CompleteResponse
    <2>2. CASE IsInitialize(pending[id].frame)
        <3>1. /\ phase = "Initializing"
              /\ phase' = IF hasError THEN "Cold" ELSE "AwaitingInitialized"
              /\ seed' = IF hasError THEN NoFrame ELSE seed
              /\ notified' = IF hasError THEN FALSE ELSE notified
            BY <1>6, <2>2 DEF CompleteResponse
        <3>2. id \in PendingInitializes
            BY <2>1, <2>2 DEF PendingInitializes
        <3>3. PendingInitializes' = {}
            BY <2>1, <3>2 DEF SessionAgrees, PendingInitializes
        <3> QED
            BY <3>1, <3>3 DEF SessionAgrees
    <2>3. CASE ~ IsInitialize(pending[id].frame)
        <3>1. UNCHANGED session
            BY <1>6, <2>3 DEF CompleteResponse
        <3> QED
            BY <2>1, <3>1, SessionKept
    <2> QED
        BY <2>2, <2>3
<1>7. ASSUME NEW id \in Ids, NEW resolution \in Resolutions,
             ProbeCompletes(id, resolution) \/ ProbeExhausted(id, resolution)
      PROVE  SessionAgrees'
    <2>1. id \in DOMAIN pending /\ pending' = Without(pending, {id}) /\ UNCHANGED session
        BY <1>7 DEF ProbeCompletes, ProbeExhausted, Held
    <2> QED
        BY <2>1, WithoutType, SessionKept
<1>8. ASSUME NEW id \in Ids, NEW resolution \in Resolutions,
             ProbeAuthorizesReplay(id, resolution)
      PROVE  SessionAgrees'
    <2>1. id \in DOMAIN pending /\ UNCHANGED session
        BY <1>8 DEF ProbeAuthorizesReplay, Held
    <2>2. /\ DOMAIN pending' = DOMAIN pending
          /\ pending'[id] = Authorized(pending[id])
          /\ \A i \in DOMAIN pending \ {id} : pending'[i] = pending[i]
        BY <1>8, <2>1, ReplacedAt DEF ProbeAuthorizesReplay
    <2>3. Authorized(pending[id]).frame = pending[id].frame
        BY <2>1, PendingType DEF TypeInv, Authorized, PendingRequest
    <2> QED
        BY <2>1, <2>2, <2>3, SessionKept
<1>9. ASSUME RequeuePendingForReplay PROVE SessionAgrees'
    <2>1. /\ DOMAIN pending' = Rescheduled /\ Rescheduled \subseteq DOMAIN pending
          /\ \A id \in Rescheduled : pending'[id] = Scheduled(id)
          /\ UNCHANGED session
        BY <1>9 DEF RequeuePendingForReplay, Rescheduled, Replayable
    <2>2. \A id \in Rescheduled : Scheduled(id).frame = pending[id].frame
        BY <2>1, ScheduledType
    <2> QED
        BY <2>1, <2>2, SessionKept
<1> QED
    BY <1>1, <1>2, <1>3, <1>4, <1>5, <1>6, <1>7, <1>8, <1>9 DEF Next

-----------------------------------------------------------------------------
(* The invariant, and what restore asks for                                *)

LEMMA SnapshotInitial == Init => SnapshotInv
<1> SUFFICES ASSUME Init PROVE SnapshotInv
    OBVIOUS
<1>1. LawInv
    BY InitLaw
<1>2. DOMAIN pending = {} /\ queue = <<>> /\ phase = "Cold" /\ notified = FALSE
    BY DEF Init
<1>3. CapacitiesKept
    BY <1>2, FS_EmptySet, EmptySeq, LimitsAssumption DEF CapacitiesKept
<1>4. HeldAreProbeRequired /\ SessionAgrees
    BY <1>2 DEF HeldAreProbeRequired, SessionAgrees, PendingInitializes
<1>5. QueueValid
    BY <1>2 DEF QueueValid
<1> QED
    BY <1>1, <1>3, <1>4, <1>5 DEF SnapshotInv

LEMMA SnapshotPrefix ==
    ASSUME TypeInv, TypeInv', QueueValid, [Next]_vars
    PROVE  QueueValid'
<1>1. ASSUME UNCHANGED <<pending, queue>> PROVE QueueValid'
    BY <1>1 DEF QueueValid, QueuedIds, NamesPending
<1>2. ASSUME NEW f \in Frames, ObserveInitialize(f) \/ ObserveInitialized(f)
      PROVE  QueueValid'
    BY <1>1, <1>2 DEF ObserveInitialize, ObserveInitialized
<1>3. ASSUME NEW id \in Ids, NEW hasError \in BOOLEAN, CompleteResponse(id, hasError)
      PROVE  QueueValid'
    BY <1>3, TerminationKeepsPrefix DEF CompleteResponse
<1>4. ASSUME NEW id \in Ids, NEW resolution \in Resolutions,
             ProbeCompletes(id, resolution) \/ ProbeExhausted(id, resolution)
      PROVE  QueueValid'
    BY <1>4, TerminationKeepsPrefix DEF ProbeCompletes, ProbeExhausted, Held
<1>5. CASE UNCHANGED vars
    BY <1>1, <1>5 DEF vars
<1> QED
    BY <1>2, <1>3, <1>4, <1>5, QueueKeepsPrefix, PopClientFrameKeepsPrefix,
       PopReplayKeepsPrefix, BeginKeepsPrefix, ProbeAuthorizesKeepsPrefix,
       RequeueKeepsPrefix
    DEF Next

LEMMA SnapshotNext == SnapshotInv /\ [Next]_vars => SnapshotInv'
<1> SUFFICES ASSUME SnapshotInv, [Next]_vars PROVE SnapshotInv'
    OBVIOUS
<1>1. LawInv'
    BY StepOfLaw DEF SnapshotInv
<1>2. TypeInv /\ TypeInv'
    BY <1>1 DEF SnapshotInv, LawInv, SafetyInv
<1> QED
    BY <1>1, <1>2, SnapshotCapacities, SnapshotDispositions, SnapshotPrefix,
       SnapshotSession
    DEF SnapshotInv

LEMMA SnapshotAlways == Spec => []SnapshotInv
BY SnapshotInitial, SnapshotNext, PTL DEF Spec

LEMMA WorkIsValid == SnapshotInv => WorkValid
<1> SUFFICES ASSUME SnapshotInv PROVE WorkValid
    OBVIOUS
<1> USE DEF SnapshotInv, LawInv, SafetyInv
<1>1. WithinLimits
    BY DEF WithinLimits, CapacitiesKept, Lawful, AttemptsAreDispatches
<1>2. SequencesValid
    <2>1. \A id \in DOMAIN pending : pending[id].sequence < nextSequence
        BY PendingType DEF TypeInv, Accounted, PendingOpen, LedgerPrefix
    <2> QED
        BY <2>1 DEF SequencesValid, Accounted, PendingDistinct
<1>3. ASSUME NEW id \in DOMAIN pending
      PROVE  ScheduledDispositionValid(pending[id])
    <2> DEFINE request == pending[id]
    <2>1. LawfulRequest(request, ledger[request.sequence])
        BY LawfulRequests
    <2>2. /\ request.disposition \in {None, "Replay", "HoldForProbe"}
          /\ request.disposition = "HoldForProbe" => request.contract = "ProbeRequired"
        BY DEF HeldAreProbeRequired
    <2>3. request.knowledge \in {"InFlight", "OutcomeUnknown"}
        BY DEF PendingLive
    <2>4. request.disposition = "Replay" =>
            request.contract \in {"Convergent", "ProbeRequired"}
        BY <2>1, Zenon DEF LawfulRequest
    <2>5. request.disposition # None => request.knowledge = "OutcomeUnknown"
        BY <2>1, <2>3 DEF LawfulRequest
    <2> QED
        BY <2>2, <2>3, <2>4, <2>5 DEF ScheduledDispositionValid, None
<1> QED
    BY <1>1, <1>2, <1>3 DEF WorkValid

LEMMA SessionIsValid == SnapshotInv => SessionValid \/ InitializeAbandoned
<1> SUFFICES ASSUME SnapshotInv, ~ InitializeAbandoned PROVE SessionValid
    OBVIOUS
<1>1. SessionAgrees /\ phase \in Phases /\ notified \in BOOLEAN
    BY DEF SnapshotInv, LawInv, SafetyInv, TypeInv, TypeOK
<1>2. Cardinality(PendingInitializes) <= 1
    <2>1. CASE PendingInitializes = {}
        BY <2>1, FS_EmptySet
    <2>2. CASE PendingInitializes # {}
        <3>1. PICK id \in PendingInitializes : TRUE
            BY <2>2
        <3>2. PendingInitializes = {id}
            BY <1>1, <3>1 DEF SessionAgrees
        <3> QED
            BY <3>2, FS_Singleton
    <2> QED
        BY <2>1, <2>2
<1>3. seed = NoFrame => phase = "Cold" /\ PendingInitializes = {}
    BY <1>1 DEF SessionAgrees
<1>4. phase # "Initializing" => PendingInitializes = {}
    BY <1>1 DEF SessionAgrees
<1>5. phase = "Initializing" => \E id \in PendingInitializes : pending[id].frame = seed
    BY <1>1 DEF SessionAgrees, InitializeAbandoned
<1>6. notified <=> phase = "Live"
    BY <1>1 DEF SessionAgrees
<1>7. CASE phase = "Cold"
    BY <1>2, <1>3, <1>4, <1>6, <1>7 DEF SessionValid
<1>8. CASE phase = "Initializing"
    BY <1>2, <1>3, <1>5, <1>6, <1>8 DEF SessionValid
<1>9. CASE phase = "AwaitingInitialized"
    BY <1>2, <1>3, <1>4, <1>6, <1>9 DEF SessionValid
<1>10. CASE phase = "Live"
    BY <1>2, <1>3, <1>4, <1>6, <1>10 DEF SessionValid
<1> QED
    BY <1>1, <1>7, <1>8, <1>9, <1>10 DEF Phases

\* A snapshot of the kernel taken after any sequence of calls passes the
\* successor's validation, for any capacities and any number of invocations,
\* but for the one state in which the initialize request was given up.
THEOREM KernelRestorable == Spec => []Restorable
<1>1. SnapshotInv => Restorable
    BY WorkIsValid, SessionIsValid DEF Restorable
<1> QED
    BY <1>1, SnapshotAlways, PTL

-----------------------------------------------------------------------------
(* The order of recovery follows from the recovery prefix.                 *)

\* Nothing scheduled is older than the front of the queue.
LEMMA FrontIsOldest ==
    ASSUME SnapshotInv, queue # <<>>,
           NEW id \in DOMAIN pending, pending[id].disposition # None
    PROVE  /\ NamesPending(Head(queue))
           /\ pending[Head(queue).id].sequence <= pending[id].sequence
<1>1. TypeInv /\ QueueValid
    BY DEF SnapshotInv, LawInv, SafetyInv
<1>2. QueuePositions
    BY <1>1, Positions
<1>3. PrefixInOrder /\ ScheduledAreQueued
    BY <1>1, <1>2, QueueByParts DEF QueueParts
<1>4. Head(queue) = queue[1]
    BY <1>1 DEF TypeInv, TypeOK
<1>5. PICK k \in DOMAIN queue : IsRequest(queue[k]) /\ queue[k].id = id
    BY <1>3 DEF ScheduledAreQueued
<1>6. 1 \in DOMAIN queue /\ (k = 1 \/ 1 < k)
    BY <1>2, <1>5 DEF QueuePositions
<1>7. NamesPending(queue[k])
    BY <1>5 DEF NamesPending
<1>8. pending[id].sequence \in Nat
    BY <1>1, PendingType DEF TypeInv, SequenceNumbers
<1>9. CASE k = 1
    BY <1>4, <1>5, <1>7, <1>8, <1>9
<1>10. CASE 1 < k
    <2>1. /\ NamesPending(queue[1])
          /\ pending[queue[1].id].sequence < pending[id].sequence
        BY <1>3, <1>5, <1>6, <1>7, <1>10 DEF PrefixInOrder
    <2>2. pending[queue[1].id].sequence \in Nat
        BY <1>1, <2>1, PendingType DEF NamesPending, TypeInv, SequenceNumbers
    <2> QED
        BY <1>4, <1>8, <2>1, <2>2
<1> QED
    BY <1>6, <1>9, <1>10

LEMMA StepRecoversInOrder == SnapshotInv /\ [Next]_vars => RecoversInOrder
<1> SUFFICES ASSUME SnapshotInv, [Next]_vars PROVE RecoversInOrder
    OBVIOUS
<1>1. SafetyInv /\ TypeInv
    BY DEF SnapshotInv, LawInv, SafetyInv
<1>2. PopClientFrame => ScheduledBefore(MaxSequence) = {}
    BY FrontIsOldest DEF PopClientFrame, ScheduledBefore
<1>3. ASSUME NEW s \in SequenceNumbers, ledger[s].dispatches > 0,
             ledger'[s].dispatches > ledger[s].dispatches
      PROVE  ScheduledBefore(s) = {}
    <2>1. ledger[s].dispatches \in Nat /\ ledger'[s].dispatches # ledger[s].dispatches
        BY <1>1, <1>3 DEF TypeInv, TypeOK, LedgerEntry
    <2>2. ~ Undispatching
        BY <2>1 DEF Undispatching
    <2>3. ~ \E f \in Frames, contract \in Contracts : BeginRequestDispatch(f, contract)
        BY <1>1, <1>3, <2>1, BeginDispatches
    <2>4. PopReplay
        BY <1>1, <2>2, <2>3, OthersUndispatching
    <2> DEFINE id == Head(queue).id
    <2>5. id \in DOMAIN pending /\ queue # <<>>
        BY <2>4 DEF PopReplay, NamesPending
    <2>6. pending[id].sequence \in SequenceNumbers
        BY <1>1, <2>5, OpenIsNotFinal
    <2>7. s = pending[id].sequence
        BY <1>1, <1>3, <2>1, <2>4, <2>6, LedgerAt DEF PopReplay
    <2>8. ASSUME NEW other \in DOMAIN pending, pending[other].disposition # None,
                 pending[other].sequence < s
          PROVE  FALSE
        <3>1. pending[id].sequence <= pending[other].sequence
            BY <2>5, <2>8, FrontIsOldest
        <3>2. pending[other].sequence \in Nat /\ s \in Nat
            BY <1>1, <1>3, PendingType DEF TypeInv, SequenceNumbers
        <3> QED
            BY <2>7, <2>8, <3>1, <3>2
    <2> QED
        BY <2>8 DEF ScheduledBefore
<1> QED
    BY <1>2, <1>3 DEF RecoversInOrder

\* Recovered invocations are dispatched in the order in which they were first
\* accepted, and no client frame overtakes one, for any number of them.
THEOREM RecoveryOrdered == Spec => OrderedRecovery
BY SnapshotAlways, StepRecoversInOrder, PTL DEF Spec, OrderedRecovery

-----------------------------------------------------------------------------
(* What each call leaves of what its caller can see: the entries, the ids  *)
(* the queue holds, and the phase.  The host's proofs rest on these.       *)

InFlightIds == {id \in DOMAIN pending : pending[id].disposition = None}

\* Ids of requests that are pending or queued.
HeldIds == DOMAIN pending \cup QueuedIds

\* The entry is the same invocation under the same contract.
SameInvocation(id) ==
    /\ pending'[id].frame = pending[id].frame
    /\ pending'[id].contract = pending[id].contract

LEMMA NextIsTyped == SnapshotInv /\ [Next]_vars => TypeInv /\ TypeInv'
BY NextTyped DEF SnapshotInv, LawInv, SafetyInv

\* Frames that all were in the queue bring no new ids.
LEMMA ChosenIds ==
    ASSUME \A k \in DOMAIN queue' : \E p \in DOMAIN queue : queue'[k] = queue[p]
    PROVE  QueuedIds' \subseteq QueuedIds
BY DEF QueuedIds

LEMMA BeginEffect ==
    ASSUME SnapshotInv, NEW f \in Frames, NEW contract \in Contracts,
           BeginRequestDispatch(f, contract)
    PROVE  /\ IsRequest(f) /\ f.id \in Ids /\ f.id \notin HeldIds
           /\ DOMAIN pending' = DOMAIN pending \cup {f.id}
           /\ \A id \in DOMAIN pending : pending'[id] = pending[id]
           /\ pending'[f.id].frame = f /\ pending'[f.id].contract = contract
           /\ pending'[f.id].attempts = 0
           /\ InFlightIds' = InFlightIds \cup {f.id}
           /\ QueuedIds' = QueuedIds
           /\ IF IsInitialize(f) THEN phase = "Cold" /\ phase' = "Initializing"
                                 ELSE phase' = phase
<1>1. IsRequest(f) /\ f.id \in Ids /\ f.id \notin HeldIds
    BY FramesAssumption DEF BeginRequestDispatch, MayBegin, IsRequest, HeldIds
<1>2. /\ DOMAIN pending' = DOMAIN pending \cup {f.id}
      /\ \A id \in DOMAIN pending' :
            pending'[id] = IF id = f.id THEN FirstDispatchOf(f, contract) ELSE pending[id]
    BY DEF BeginRequestDispatch
<1>3. f.id \notin DOMAIN pending
    BY <1>1 DEF HeldIds
<1>4. \A id \in DOMAIN pending : pending'[id] = pending[id]
    BY <1>2, <1>3
<1>5. /\ pending'[f.id].frame = f /\ pending'[f.id].contract = contract
      /\ pending'[f.id].attempts = 0 /\ pending'[f.id].disposition = None
    BY <1>2 DEF FirstDispatchOf
<1>6. InFlightIds' = InFlightIds \cup {f.id}
    BY <1>2, <1>4, <1>5 DEF InFlightIds
<1>7. QueuedIds' = QueuedIds
    BY DEF BeginRequestDispatch, QueuedIds
<1>8. IF IsInitialize(f) THEN phase = "Cold" /\ phase' = "Initializing" ELSE phase' = phase
    BY DEF BeginRequestDispatch, MayBegin
<1> QED
    BY <1>1, <1>2, <1>4, <1>5, <1>6, <1>7, <1>8

LEMMA CompleteEffect ==
    ASSUME SnapshotInv, NEW id \in Ids, NEW hasError \in BOOLEAN,
           CompleteResponse(id, hasError)
    PROVE  /\ id \in DOMAIN pending
           /\ DOMAIN pending' = DOMAIN pending \ {id}
           /\ \A i \in DOMAIN pending' : pending'[i] = pending[i]
           /\ InFlightIds' = InFlightIds \ {id}
           /\ QueuedIds' = QueuedIds \ {id}
           /\ \/ phase' = phase
              \/ phase = "Initializing" /\ phase' \in {"Cold", "AwaitingInitialized"}
<1>1. TypeInv
    BY DEF SnapshotInv, LawInv, SafetyInv
<1>2. /\ id \in DOMAIN pending
      /\ pending' = Without(pending, {id})
      /\ queue' \in WithoutRequest(id)
    BY DEF CompleteResponse
<1>3. DOMAIN pending' = DOMAIN pending \ {id} /\ \A i \in DOMAIN pending' : pending'[i] = pending[i]
    BY <1>1, <1>2, WithoutType
<1>4. InFlightIds' = InFlightIds \ {id}
    BY <1>3 DEF InFlightIds
<1>5. QueuedIds' = QueuedIds \ {id}
    <2> DEFINE positions == {k \in DOMAIN queue : ~ (IsRequest(queue[k]) /\ queue[k].id = id)}
    <2>1. PICK l : /\ Embeds(l, queue')
                   /\ \A k \in DOMAIN queue' : l[k] \in positions
                   /\ \A p \in positions : \E k \in DOMAIN queue' : l[k] = p
        <3>1. positions \in SUBSET DOMAIN queue /\ queue' \in Selections(positions)
            BY <1>2 DEF WithoutRequest
        <3> HIDE DEF positions
        <3> QED
            BY <1>1, <3>1, SelectionEmbeds
    <2>2. \A k \in DOMAIN queue' : l[k] \in DOMAIN queue /\ queue'[k] = queue[l[k]]
        BY <2>1 DEF Embeds
    <2>3. QueuedIds' \subseteq QueuedIds \ {id}
        BY <2>1, <2>2 DEF QueuedIds
    <2>4. ASSUME NEW p \in DOMAIN queue, IsRequest(queue[p]), queue[p].id # id
          PROVE  queue[p].id \in QueuedIds'
        <3>1. PICK k \in DOMAIN queue' : l[k] = p
            BY <2>1, <2>4
        <3> QED
            BY <2>2, <2>4, <3>1 DEF QueuedIds
    <2> QED
        BY <2>3, <2>4 DEF QueuedIds
<1>6. \/ phase' = phase
      \/ phase = "Initializing" /\ phase' \in {"Cold", "AwaitingInitialized"}
    BY DEF CompleteResponse, session
<1> QED
    BY <1>2, <1>3, <1>4, <1>5, <1>6

LEMMA RequeueEffect ==
    ASSUME SnapshotInv, RequeuePendingForReplay
    PROVE  /\ DOMAIN pending' \subseteq DOMAIN pending
           /\ \A id \in DOMAIN pending' : SameInvocation(id)
           /\ InFlightIds' = {}
           /\ QueuedIds' = DOMAIN pending' \cup (QueuedIds \ DOMAIN pending)
           /\ phase' = phase
<1>1. TypeInv /\ TypeInv'
    BY NextIsTyped DEF Next
<1>2. /\ DOMAIN pending' = Rescheduled
      /\ \A id \in Rescheduled : id \in DOMAIN pending /\ pending'[id] = Scheduled(id)
    BY DEF RequeuePendingForReplay, Rescheduled, Replayable
<1>3. \A id \in Rescheduled : SameInvocation(id)
    BY <1>1, <1>2, ScheduledType DEF SameInvocation
<1>4. \A id \in Rescheduled : pending'[id].disposition # None
    BY <1>1, <1>2, ScheduledType DEF Rescheduled, Replayable, None
<1>5. InFlightIds' = {}
    BY <1>2, <1>4 DEF InFlightIds
<1>6. QueuedIds' = DOMAIN pending' \cup (QueuedIds \ DOMAIN pending)
    <2>1. PICK n \in Nat, m \in Nat : \E l, b : RequeueShape(n, m, l, b)
        BY <1>1, RequeueHasShape
    <2>2. PICK l, b : RequeueShape(n, m, l, b)
        BY <2>1
    <2>3. DOMAIN queue' = 1..(n + m)
        BY <1>1, <2>2, PositionsNext DEF RequeueShape, QueuePositions
    <2>4. \A i \in 1..n : queue'[i] = pending[l[i]].frame /\ IsRequest(queue'[i])
                          /\ queue'[i].id = l[i] /\ l[i] \in Rescheduled
        BY <1>1, <1>2, <2>2, PendingType DEF RequeueShape, TypeInv
    <2>5. ASSUME NEW k \in DOMAIN queue', IsRequest(queue'[k])
          PROVE  queue'[k].id \in DOMAIN pending' \cup (QueuedIds \ DOMAIN pending)
        <3>1. CASE k \in 1..n
            BY <1>2, <2>4, <3>1
        <3>2. CASE k \notin 1..n
            <4>1. k - n \in 1..m /\ k = n + (k - n)
                BY <2>3, <3>2
            <4>2. b[k - n] \in BacklogPositions /\ queue'[k] = queue[b[k - n]]
                BY <2>2, <4>1 DEF RequeueShape
            <4> QED
                BY <2>5, <4>2 DEF BacklogPositions, NamesPending, QueuedIds
        <3> QED
            BY <3>1, <3>2
    <2>6. ASSUME NEW id \in DOMAIN pending'
          PROVE  id \in QueuedIds'
        <3>1. PICK i \in 1..n : l[i] = id
            BY <1>2, <2>2, <2>6 DEF RequeueShape
        <3>2. i \in DOMAIN queue'
            BY <2>3
        <3> QED
            BY <2>4, <3>1, <3>2 DEF QueuedIds
    <2>7. ASSUME NEW p \in DOMAIN queue, IsRequest(queue[p]), queue[p].id \notin DOMAIN pending
          PROVE  queue[p].id \in QueuedIds'
        <3>1. PICK i \in 1..m : b[i] = p
            BY <2>2, <2>7 DEF RequeueShape, BacklogPositions, NamesPending
        <3>2. n + i \in DOMAIN queue' /\ queue'[n + i] = queue[p]
            BY <2>2, <2>3, <3>1 DEF RequeueShape
        <3> QED
            BY <2>7, <3>2 DEF QueuedIds
    <2> QED
        BY <2>5, <2>6, <2>7 DEF QueuedIds
<1>7. phase' = phase
    BY DEF RequeuePendingForReplay, session
<1> QED
    BY <1>2, <1>3, <1>5, <1>6, <1>7

LEMMA FrontOfQueue ==
    ASSUME SnapshotInv, SnapshotInv', queue # <<>>, queue' = Tail(queue)
    PROVE  /\ Head(queue) \in Frames
           /\ IsRequest(Head(queue)) => Head(queue).id \in QueuedIds
           /\ QueuedIds' = QueuedIds \ (IF IsRequest(Head(queue)) THEN {Head(queue).id} ELSE {})
<1>1. TypeInv /\ TypeInv'
    BY DEF SnapshotInv, LawInv, SafetyInv
<1>2. /\ Embeds([k \in DOMAIN queue' |-> k + 1], queue')
      /\ Head(queue) = queue[1] /\ 1 \in DOMAIN queue
    BY <1>1, TailEmbeds
<1>3. \A k \in DOMAIN queue' : k + 1 \in DOMAIN queue /\ queue'[k] = queue[k + 1]
    BY <1>2 DEF Embeds
<1>4. QueuedIds' \subseteq QueuedIds
    BY <1>3, ChosenIds
<1>5. QueuedOnce /\ QueuePositions /\ QueuePositions'
    BY <1>1, Positions, PositionsNext, QueueByParts DEF SnapshotInv, QueueParts
<1>6. \A k \in DOMAIN queue' : 1 < k + 1
    BY <1>5 DEF QueuePositions
<1>7. ASSUME IsRequest(Head(queue))
      PROVE  Head(queue).id \in QueuedIds /\ Head(queue).id \notin QueuedIds'
    <2>1. Head(queue).id \in QueuedIds
        BY <1>2, <1>7 DEF QueuedIds
    <2>2. \A k \in DOMAIN queue' : IsRequest(queue'[k]) => queue'[k].id # Head(queue).id
        BY <1>2, <1>3, <1>5, <1>6, <1>7 DEF QueuedOnce
    <2> QED
        BY <2>1, <2>2 DEF QueuedIds
<1>8. Head(queue) \in Frames
    BY <1>1, <1>2, ElementOfSeq, LenProperties DEF TypeInv, TypeOK
<1>9. ASSUME NEW p \in DOMAIN queue, IsRequest(queue[p]), queue[p].id # Head(queue).id \/ p # 1
      PROVE  queue[p].id \in QueuedIds'
    <2>1. p - 1 \in DOMAIN queue' /\ (p - 1) + 1 = p
        <3>1. p \in Nat /\ p >= 1 /\ p # 1
            BY <1>2, <1>5, <1>9 DEF QueuePositions
        <3>2. Len(queue') = Len(queue) - 1
            BY <1>1, HeadTailProperties DEF TypeInv, TypeOK
        <3> QED
            BY <1>5, <3>1, <3>2 DEF QueuePositions
    <2>2. queue'[p - 1] = queue[p]
        BY <1>3, <2>1
    <2> QED
        BY <1>9, <2>1, <2>2 DEF QueuedIds
<1>10. QueuedIds' = QueuedIds \ (IF IsRequest(Head(queue)) THEN {Head(queue).id} ELSE {})
    <2>1. CASE IsRequest(Head(queue))
        BY <1>4, <1>7, <1>9, <2>1 DEF QueuedIds
    <2>2. CASE ~ IsRequest(Head(queue))
        BY <1>2, <1>4, <1>9, <2>2 DEF QueuedIds
    <2> QED
        BY <2>1, <2>2
<1> QED
    BY <1>7, <1>8, <1>10

LEMMA PopReplayEffect ==
    ASSUME SnapshotInv, SnapshotInv', PopReplay
    PROVE  /\ Head(queue) \in Frames
           /\ Head(queue).id \in DOMAIN pending
           /\ DOMAIN pending' = DOMAIN pending
           /\ \A id \in DOMAIN pending : SameInvocation(id)
           /\ InFlightIds' = InFlightIds \cup {Head(queue).id}
           /\ HeldIds' = HeldIds
           /\ phase' = phase
<1>1. TypeInv
    BY DEF SnapshotInv, LawInv, SafetyInv
<1> DEFINE front == Head(queue).id
<1>2. /\ front \in DOMAIN pending
      /\ pending' = [pending EXCEPT ![front] = Redispatched(pending[front])]
      /\ MayRedispatch(pending[front])
      /\ phase' = phase
    BY DEF PopReplay, NamesPending, session
<1>3. /\ Head(queue) \in Frames
      /\ QueuedIds' \subseteq QueuedIds /\ QueuedIds \subseteq QueuedIds' \cup {front}
    BY FrontOfQueue DEF PopReplay
<1> HIDE DEF front
<1>4. /\ DOMAIN pending' = DOMAIN pending
      /\ pending'[front] = Redispatched(pending[front])
      /\ \A id \in DOMAIN pending \ {front} : pending'[id] = pending[id]
    BY <1>1, <1>2, ReplacedAt
<1>5. /\ Redispatched(pending[front]).frame = pending[front].frame
      /\ Redispatched(pending[front]).contract = pending[front].contract
      /\ Redispatched(pending[front]).disposition = None
    BY <1>1, <1>2, PendingType, RedispatchedType DEF TypeInv
<1>6. InFlightIds' = InFlightIds \cup {front}
    BY <1>2, <1>4, <1>5 DEF InFlightIds
<1>7. \A id \in DOMAIN pending : SameInvocation(id)
    BY <1>4, <1>5 DEF SameInvocation
<1>8. HeldIds' = HeldIds
    BY <1>2, <1>3, <1>4 DEF HeldIds
<1> QED
    BY <1>2, <1>3, <1>4, <1>6, <1>7, <1>8 DEF front

LEMMA QueueEffect ==
    ASSUME SnapshotInv, SnapshotInv', NEW f \in Frames, QueueClientFrame(f)
    PROVE  /\ UNCHANGED <<phase, pending>>
           /\ QueuedIds' = QueuedIds \cup (IF IsRequest(f) THEN {f.id} ELSE {})
<1>1. TypeInv /\ TypeInv'
    BY DEF SnapshotInv, LawInv, SafetyInv
<1>2. /\ Len(queue) \in Nat /\ DOMAIN queue = 1..Len(queue)
      /\ DOMAIN queue' = 1..Len(queue')
    BY <1>1, Positions, PositionsNext DEF QueuePositions
<1>3. /\ Len(queue') = Len(queue) + 1 /\ queue'[Len(queue) + 1] = f
      /\ \A k \in 1..Len(queue) : queue'[k] = queue[k]
    BY <1>1, AppendProperties DEF TypeInv, TypeOK, QueueClientFrame
<1>4. \A k \in DOMAIN queue' : queue'[k] = f \/ (k \in DOMAIN queue /\ queue'[k] = queue[k])
    BY <1>2, <1>3
<1>5. QueuedIds' \subseteq QueuedIds \cup (IF IsRequest(f) THEN {f.id} ELSE {})
    BY <1>4 DEF QueuedIds
<1>6. \A k \in DOMAIN queue : k \in DOMAIN queue' /\ queue'[k] = queue[k]
    BY <1>2, <1>3
<1>7. Len(queue) + 1 \in DOMAIN queue'
    BY <1>2, <1>3
<1>8. QueuedIds' = QueuedIds \cup (IF IsRequest(f) THEN {f.id} ELSE {})
    BY <1>3, <1>5, <1>6, <1>7 DEF QueuedIds
<1> QED
    BY <1>8 DEF QueueClientFrame, session

\* A pending invocation that has been sent again was sent under a contract.
LEMMA RepeatedHaveContract ==
    SnapshotInv => \A id \in DOMAIN pending :
                        pending[id].attempts > 0 => pending[id].contract # "NeverReplay"
<1> SUFFICES ASSUME SnapshotInv, NEW id \in DOMAIN pending,
                    pending[id].attempts > 0, pending[id].contract = "NeverReplay"
             PROVE  FALSE
    OBVIOUS
<1> QED
    BY DEF SnapshotInv, LawInv, SafetyInv, Lawful, AttemptsAreDispatches

=============================================================================
