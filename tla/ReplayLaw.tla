------------------------------ MODULE ReplayLaw ------------------------------
(***************************************************************************)
(* The pure recovery law of src/crates/libmcp/src/replay.rs: what the host *)
(* knows about one invocation, and what it may do with it next.  The law   *)
(* has no state of its own; HostKernel applies it to pending invocations.  *)
(***************************************************************************)
EXTENDS Naturals

Knowledge == {"NotDispatched", "InFlight", "Completed", "OutcomeUnknown"}

Contracts == {"Convergent", "ProbeRequired", "NeverReplay"}

Resolutions == {"AlreadyCompleted", "SafeToReplay"}

\* The absence of a value: Rust's None for a probe resolution or a scheduled
\* disposition, and Err for a transition that the law refuses.
None == "None"

Dispositions ==
    {"FirstDispatch", "AwaitTerminal", "Completed", "Replay", "HoldForProbe",
     "CompleteFromProbe", "RejectAmbiguousOutcome", "RejectReplayExhausted",
     "RejectUnexpectedProbeResolution"}

(***************************************************************************)
(* Transitions of the execution knowledge.  None stands for                *)
(* ExecutionTransitionError: the knowledge is left as it was.              *)
(***************************************************************************)
AfterWorkerLoss(knowledge) ==
    IF knowledge = "InFlight" THEN "OutcomeUnknown" ELSE knowledge

AfterDispatch(knowledge, disposition) ==
    IF \/ knowledge = "NotDispatched" /\ disposition = "FirstDispatch"
       \/ knowledge = "OutcomeUnknown" /\ disposition = "Replay"
    THEN "InFlight"
    ELSE None

AfterTerminalOutcome(knowledge) ==
    IF knowledge \in {"InFlight", "OutcomeUnknown"} THEN "Completed" ELSE None

AfterCompletedProbe(knowledge) ==
    IF knowledge = "OutcomeUnknown" THEN "Completed" ELSE None

(***************************************************************************)
(* ReplayAllowance::next_attempt returns a number: attempts are u8, and    *)
(* checked_add fails at the top of the type however large the ceiling is.  *)
(***************************************************************************)
AttemptLimit == 255

HasNextAttempt(attempts, maxAttempts) ==
    attempts < AttemptLimit /\ attempts + 1 <= maxAttempts

ReplayOrExhausted(attempts, maxAttempts) ==
    IF HasNextAttempt(attempts, maxAttempts)
    THEN "Replay"
    ELSE "RejectReplayExhausted"

(***************************************************************************)
(* request_disposition: the total decision table.  Evidence that answers   *)
(* no open probe is refused before the table is looked at.                 *)
(***************************************************************************)
\* Mutant: the probe is skipped.
ProbeSkipped(contract, resolution, attempts, maxAttempts) ==
    IF contract = "NeverReplay"
    THEN "RejectAmbiguousOutcome"
    ELSE ReplayOrExhausted(attempts, maxAttempts)

UnknownDisposition(contract, resolution, attempts, maxAttempts) ==
    CASE contract = "NeverReplay" -> "RejectAmbiguousOutcome"
      [] contract = "ProbeRequired" /\ resolution = None -> "HoldForProbe"
      [] contract = "ProbeRequired" /\ resolution = "AlreadyCompleted" ->
            "CompleteFromProbe"
      [] OTHER -> ReplayOrExhausted(attempts, maxAttempts)

RequestDisposition(knowledge, contract, resolution, attempts, maxAttempts) ==
    IF /\ resolution # None
       /\ ~ (knowledge = "OutcomeUnknown" /\ contract = "ProbeRequired")
    THEN "RejectUnexpectedProbeResolution"
    ELSE CASE knowledge = "NotDispatched" -> "FirstDispatch"
           [] knowledge = "InFlight" -> "AwaitTerminal"
           [] knowledge = "Completed" -> "Completed"
           [] knowledge = "OutcomeUnknown" ->
                UnknownDisposition(contract, resolution, attempts, maxAttempts)
=============================================================================
