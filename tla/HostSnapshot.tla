---------------------------- MODULE HostSnapshot ----------------------------
(***************************************************************************)
(* Reexec snapshots of the kernel: HostSessionKernelSnapshot::restore in   *)
(* src/crates/libmcp/src/host.rs.  snapshot() copies the whole state, so a *)
(* capsule is a kernel state; restore accepts it or refuses it as a whole. *)
(* These are the tests restore makes, applied to the live state.           *)
(***************************************************************************)
EXTENDS HostKernel

WithinLimits ==
    /\ Cardinality(DOMAIN pending) <= PendingCapacity
    /\ Len(queue) <= QueueCapacity
    /\ \A id \in DOMAIN pending : pending[id].attempts <= MaxAttempts

\* pending sequences must be unique and below the next sequence
SequencesValid ==
    /\ \A id \in DOMAIN pending : pending[id].sequence < nextSequence
    /\ \A i, j \in DOMAIN pending :
            pending[i].sequence = pending[j].sequence => i = j

\* validate_scheduled_disposition
ScheduledDispositionValid(request) ==
    CASE request.disposition = None ->
            request.knowledge \in {"InFlight", "OutcomeUnknown"}
      [] request.disposition = "Replay" ->
            /\ request.knowledge = "OutcomeUnknown"
            /\ request.contract \in {"Convergent", "ProbeRequired"}
      [] request.disposition = "HoldForProbe" ->
            /\ request.knowledge = "OutcomeUnknown"
            /\ request.contract = "ProbeRequired"
      [] OTHER -> FALSE

\* The recovery prefix: queued frames of pending invocations come first, in
\* sequence order, each the very frame of its invocation, and every scheduled
\* invocation is there.  No request id is queued twice.
QueueValid ==
    /\ \A j, k \in DOMAIN queue :
            j < k /\ IsRequest(queue[j]) /\ IsRequest(queue[k])
                => queue[j].id # queue[k].id
    /\ \A k \in DOMAIN queue : NamesPending(queue[k]) =>
            /\ pending[queue[k].id].disposition # None
            /\ pending[queue[k].id].frame = queue[k]
            /\ \A j \in 1..(k - 1) :
                /\ NamesPending(queue[j])
                /\ pending[queue[j].id].sequence < pending[queue[k].id].sequence
    /\ \A id \in DOMAIN pending :
            pending[id].disposition # None => id \in QueuedIds

PendingInitializes == {id \in DOMAIN pending : IsInitialize(pending[id].frame)}

\* validate_session_snapshot
SessionValid ==
    /\ Cardinality(PendingInitializes) <= 1
    /\ IF seed = NoFrame
       THEN phase = "Cold" /\ PendingInitializes = {}
       ELSE CASE phase = "Cold" -> PendingInitializes = {} /\ ~ notified
              [] phase = "Initializing" ->
                    /\ ~ notified
                    /\ \E id \in PendingInitializes : pending[id].frame = seed
              [] phase = "AwaitingInitialized" ->
                    PendingInitializes = {} /\ ~ notified
              [] phase = "Live" -> PendingInitializes = {} /\ notified

\* The work part: limits, sequence numbers, dispositions and the queue.
WorkValid ==
    /\ WithinLimits
    /\ SequencesValid
    /\ \A id \in DOMAIN pending : ScheduledDispositionValid(pending[id])
    /\ QueueValid

\* The initialize invocation ended without a response: worker loss or a probe
\* removed it, and the session phase was left behind.
InitializeAbandoned == phase = "Initializing" /\ PendingInitializes = {}

\* Every kernel that its own operations produce passes its successor's
\* validation, but for that one state: the queue surgery of worker loss, the
\* late responses and the probes keep the recovery prefix that restore demands,
\* and phase, seed and pending initialize agree.
Restorable == WorkValid /\ (SessionValid \/ InitializeAbandoned)

\* What restore's own error message calls a contradiction never happens to a
\* live kernel.  The code breaks it: requeue_pending_for_replay and
\* resolve_probe remove a pending initialize and leave session_phase at
\* Initializing, from which no call leads anywhere.
SnapshotRestores == WorkValid /\ SessionValid
=============================================================================
