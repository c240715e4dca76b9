-------------------------- MODULE OperationalLedger --------------------------
(***************************************************************************)
(* The session's operational metrics of src/crates/libmcp/src/health.rs:   *)
(* OperationalLedger, driven by any order of calls.                        *)
(*                                                                         *)
(* Counters have a fixed width: a call that would exhaust one fails.  Each *)
(* call works on a clone and assigns it when nothing has failed, so that a *)
(* call that fails is no step.  A method that has not been seen has zeros, *)
(* as an entry made by or_default has.                                     *)
(***************************************************************************)
EXTENDS Integers, FiniteSets

CONSTANTS
    Methods,
    Latencies,      \* the latencies that may be measured
    CounterLimit,   \* u64::MAX
    StreakLimit,    \* u32::MAX, of consecutive_failures
    Generations,    \* worker generations, the first one being FirstGeneration
    FirstGeneration,
    NoFault

ASSUME LedgerAssumption ==
    /\ Latencies \subseteq Nat
    /\ CounterLimit \in Nat /\ StreakLimit \in Nat
    /\ Generations \subseteq Nat /\ FirstGeneration \in Generations
    /\ NoFault \notin Generations

VARIABLES
    generation, consecutiveFailures, restartCount, lastFault,
    totals,      \* TelemetryTotals
    methods,     \* MethodLedger by method
    maxLatency   \* its max_latency_ms

ledgerVars == <<generation, consecutiveFailures, restartCount, lastFault,
                totals, methods, maxLatency>>

\* What is counted for the session and for each method
Totals == {"requests", "successes", "errors", "responseErrors", "recoveryErrors",
           "recoveryFaults", "retries"}

\* What is counted for a method
Counters == Totals \cup {"inFlight", "samples", "latency"}

LedgerInit ==
    /\ generation = FirstGeneration
    /\ consecutiveFailures = 0 /\ restartCount = 0
    /\ lastFault = NoFault
    /\ totals = [c \in Totals |-> 0]
    /\ methods = [m \in Methods |-> [c \in Counters |-> 0]]
    /\ maxLatency = [m \in Methods |-> 0]

\* checked_increment and checked_add of every counter
Fits(counters) == \A c \in DOMAIN counters : counters[c] <= CounterLimit

Raised(counters, up) ==
    [c \in DOMAIN counters |-> IF c \in up THEN counters[c] + 1 ELSE counters[c]]

\* Mutant: the method is changed in place, before the total is found exhausted.
TallyInPlace(m, up, metrics) ==
    /\ Fits(Raised(metrics, up))
    /\ methods' = [methods EXCEPT ![m] = Raised(metrics, up)]
    /\ totals' = IF Fits(Raised(totals, up)) THEN Raised(totals, up) ELSE totals

\* The counters of up rise, for method m, whose others are those of metrics,
\* and for the session; or one of them is exhausted, and none does.
Tally(m, up, metrics) ==
    /\ Fits(Raised(metrics, up)) /\ Fits(Raised(totals, up))
    /\ methods' = [methods EXCEPT ![m] = Raised(metrics, up)]
    /\ totals' = Raised(totals, up)

\* live_method_mut
Live(m) == methods[m]["inFlight"] > 0

\* What is left of m's metrics when one invocation has ended
Ended(m) == [methods[m] EXCEPT !["inFlight"] = @ - 1]

\* record_latency
Sampled(metrics, latency) == [metrics EXCEPT !["latency"] = @ + latency]

Measures(m, latency) ==
    maxLatency' = [maxLatency EXCEPT ![m] = IF latency > @ THEN latency ELSE @]

-----------------------------------------------------------------------------
RecordRequest(m) ==
    /\ Tally(m, {"requests", "inFlight"}, methods[m])
    /\ UNCHANGED <<generation, consecutiveFailures, restartCount, lastFault, maxLatency>>

RecordSuccess(m, latency) ==
    /\ Live(m)
    /\ Tally(m, {"samples", "successes"}, Sampled(Ended(m), latency))
    /\ Measures(m, latency)
    /\ consecutiveFailures' = 0
    /\ UNCHANGED <<generation, restartCount, lastFault>>

\* record_error, and record_response_error, which counts one thing more
RecordError(m, latency, kinds) ==
    /\ Live(m)
    /\ Tally(m, {"samples", "errors"} \cup kinds, Sampled(Ended(m), latency))
    /\ Measures(m, latency)
    /\ UNCHANGED <<generation, consecutiveFailures, restartCount, lastFault>>

\* Mutant: the invocation stays in flight.
RecordRecoveryErrorLeavingIt(m) ==
    /\ Live(m)
    /\ Tally(m, {"recoveryErrors", "errors"}, methods[m])
    /\ UNCHANGED <<generation, consecutiveFailures, restartCount, lastFault, maxLatency>>

\* Nothing is measured of what recovery ends.
RecordRecoveryError(m) ==
    /\ Live(m)
    /\ Tally(m, {"recoveryErrors", "errors"}, Ended(m))
    /\ UNCHANGED <<generation, consecutiveFailures, restartCount, lastFault, maxLatency>>

\* A fault of the active generation, of an invocation of method m
RecordRecoveryFault(m) ==
    /\ Live(m)
    /\ consecutiveFailures < StreakLimit
    /\ Tally(m, {"recoveryFaults"}, methods[m])
    /\ consecutiveFailures' = consecutiveFailures + 1
    /\ lastFault' = generation
    /\ UNCHANGED <<generation, restartCount, maxLatency>>

\* or of none
RecordWorkerFault ==
    /\ consecutiveFailures < StreakLimit
    /\ Fits(Raised(totals, {"recoveryFaults"}))
    /\ totals' = Raised(totals, {"recoveryFaults"})
    /\ consecutiveFailures' = consecutiveFailures + 1
    /\ lastFault' = generation
    /\ UNCHANGED <<generation, restartCount, methods, maxLatency>>

RecordReplay(m) ==
    /\ Live(m)
    /\ Tally(m, {"retries"}, methods[m])
    /\ UNCHANGED <<generation, consecutiveFailures, restartCount, lastFault, maxLatency>>

ReplaceWorker(g) ==
    /\ g > generation
    /\ restartCount < CounterLimit
    /\ restartCount' = restartCount + 1
    /\ generation' = g
    /\ UNCHANGED <<consecutiveFailures, lastFault, totals, methods, maxLatency>>

LedgerNext ==
    \/ \E m \in Methods :
        \/ RecordRequest(m)
        \/ \E latency \in Latencies :
            \/ RecordSuccess(m, latency)
            \/ \E kinds \in {{}, {"responseErrors"}} : RecordError(m, latency, kinds)
        \/ RecordRecoveryError(m) \/ RecordRecoveryFault(m) \/ RecordReplay(m)
    \/ RecordWorkerFault
    \/ \E g \in Generations : ReplaceWorker(g)

LedgerSpec == LedgerInit /\ [][LedgerNext]_ledgerVars

-----------------------------------------------------------------------------
(* Properties                                                              *)

\* The books of a method balance: each invocation is in flight, or has ended in
\* one success or one error, and errors that have a kind have one; what was
\* measured is what ended without recovery, so that the mean that
\* method_snapshot reports is at most the maximum it reports.
MethodBalanced(metrics, longest) ==
    /\ metrics["requests"] =
            metrics["inFlight"] + metrics["successes"] + metrics["errors"]
    /\ metrics["responseErrors"] + metrics["recoveryErrors"] <= metrics["errors"]
    /\ metrics["samples"] =
            metrics["successes"] + metrics["errors"] - metrics["recoveryErrors"]
    /\ metrics["latency"] <= longest * metrics["samples"]

Balanced == \A m \in Methods : MethodBalanced(methods[m], maxLatency[m])

\* Each time that a method has counted c
Counted(c) == UNION {{m} \X (1..methods[m][c]) : m \in Methods}

\* The session's totals are the sums of the methods' counters, even where a
\* counter is exhausted and calls fail; only faults may be nobody's.
Aggregated ==
    /\ \A c \in Totals \ {"recoveryFaults"} : totals[c] = Cardinality(Counted(c))
    /\ Cardinality(Counted("recoveryFaults")) <= totals["recoveryFaults"]
    /\ consecutiveFailures <= totals["recoveryFaults"]

=============================================================================
