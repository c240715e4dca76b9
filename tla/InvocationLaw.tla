--------------------------- MODULE InvocationLaw ---------------------------
(***************************************************************************)
(* What the kernel promises about each invocation, with no ids, frames,    *)
(* queues or capacities: the states and rules of src/formal_semantics.md,  *)
(* sections "Normal Dispatch" and "Worker Loss".  HostKernel implements    *)
(* it.                                                                     *)
(***************************************************************************)
EXTENDS Naturals

CONSTANTS
    Numbers,       \* sequence numbers an invocation can be accepted under
    MaxAttempts    \* replays an invocation may consume

VARIABLES stage, contract, dispatches, evidence

lawVars == <<stage, contract, dispatches, evidence>>

Init ==
    /\ stage = [s \in Numbers |-> "Absent"]
    /\ contract = [s \in Numbers |-> "None"]
    /\ dispatches = [s \in Numbers |-> 0]
    /\ evidence = [s \in Numbers |-> FALSE]

\* Classification precedes the first dispatch and never changes.
Accept(s, c) ==
    /\ stage[s] = "Absent"
    /\ stage' = [stage EXCEPT ![s] = "InFlight"]
    /\ contract' = [contract EXCEPT ![s] = c]
    /\ dispatches' = [dispatches EXCEPT ![s] = 1]
    /\ UNCHANGED evidence

Live(s) == stage[s] \in {"InFlight", "OutcomeUnknown"}

\* A terminal outcome: a response, a probe's evidence, or a rejection.
Settle(s) ==
    /\ Live(s)
    /\ stage' = [stage EXCEPT ![s] = "Settled"]
    /\ UNCHANGED <<contract, dispatches, evidence>>

\* Loss of the worker.  Unknown outcomes that may not be repeated are
\* rejected at once, others may be for want of budget or room; what survives
\* waits without evidence.
LoseWorker(rejected) ==
    /\ \A s \in rejected : Live(s)
    /\ \A s \in Numbers :
            Live(s) /\ contract[s] = "NeverReplay" => s \in rejected
    /\ stage' = [s \in Numbers |->
            IF s \in rejected THEN "Settled"
            ELSE IF Live(s) THEN "OutcomeUnknown" ELSE stage[s]]
    /\ evidence' = [s \in Numbers |-> FALSE]
    /\ UNCHANGED <<contract, dispatches>>

GiveEvidence(s) ==
    /\ stage[s] = "OutcomeUnknown"
    /\ contract[s] = "ProbeRequired"
    /\ evidence' = [evidence EXCEPT ![s] = TRUE]
    /\ UNCHANGED <<stage, contract, dispatches>>

Authorized(s) ==
    \/ contract[s] = "Convergent"
    \/ contract[s] = "ProbeRequired" /\ evidence[s]

Replay(s) ==
    /\ stage[s] = "OutcomeUnknown"
    /\ Authorized(s)
    /\ dispatches[s] <= MaxAttempts
    /\ stage' = [stage EXCEPT ![s] = "InFlight"]
    /\ dispatches' = [dispatches EXCEPT ![s] = @ + 1]
    /\ UNCHANGED <<contract, evidence>>

Next ==
    \/ \E s \in Numbers :
        \/ \E c \in {"Convergent", "ProbeRequired", "NeverReplay"} : Accept(s, c)
        \/ Settle(s)
        \/ GiveEvidence(s)
        \/ Replay(s)
    \/ \E rejected \in SUBSET Numbers : LoseWorker(rejected)

Spec == Init /\ [][Next]_lawVars
=============================================================================
