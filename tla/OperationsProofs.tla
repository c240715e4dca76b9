-------------------------- MODULE OperationsProofs --------------------------
(***************************************************************************)
(* What holds of the operational surfaces of a host, whatever the values   *)
(* of their constants: the books of a method balance and the totals are    *)
(* their sums through any sequence of calls (OperationalLedger), the       *)
(* telemetry file keeps its bound and its records apart, and the counters  *)
(* follow it (TelemetryLog), and a successor that is reported ready is     *)
(* whole (ReleaseWatch).                                                   *)
(***************************************************************************)
EXTENDS OperationalLedger, TelemetryLog, ReleaseWatch, FiniteSetTheorems, TLAPS

-----------------------------------------------------------------------------
(* The operational ledger: the books of a method balance                   *)

\* Balanced is inductive once the counters are known to be numbers.
LedgerInv ==
    /\ methods \in [Methods -> [Counters -> Nat]]
    /\ maxLatency \in [Methods -> Nat]
    /\ Balanced

-----------------------------------------------------------------------------
(* Counters                                                                *)

\* What raising some of a method's counters yields.
LEMMA RaisedCounters ==
    ASSUME NEW metrics \in [Counters -> Nat], NEW up \in SUBSET Counters
    PROVE  /\ Raised(metrics, up) \in [Counters -> Nat]
           /\ \A c \in Counters :
                Raised(metrics, up)[c] = IF c \in up THEN metrics[c] + 1 ELSE metrics[c]
BY DEF Raised

\* The mean stays below the maximum when a sample joins.
LEMMA MeanBelowMaximum ==
    ASSUME NEW total \in Nat, NEW samples \in Nat, NEW longest \in Nat,
           NEW latency \in Nat, NEW longer \in Nat,
           total <= longest * samples, longest <= longer, latency <= longer
    PROVE  total + latency <= longer * (samples + 1)
<1>1. longest * samples \in Nat /\ longer * samples \in Nat
    OBVIOUS
<1>2. longest * samples <= longer * samples
    <2>1. PICK d \in Nat : longer = longest + d
        <3>1. longer - longest \in Nat
            OBVIOUS
        <3>2. longer = longest + (longer - longest)
            OBVIOUS
        <3>3. QED
            BY <3>1, <3>2
    <2>2. (longest + d) * samples = longest * samples + d * samples
        BY <2>1
    <2>3. d * samples \in Nat
        BY <2>1
    <2>4. QED
        BY <1>1, <2>1, <2>2, <2>3
<1>3. longer * (samples + 1) = longer * samples + longer
    OBVIOUS
<1>4. QED
    BY <1>1, <1>2, <1>3

-----------------------------------------------------------------------------
(* One method's counters change                                            *)

\* A step that changes the counters of one method preserves the invariant when
\* the new counters of that method balance.
LEMMA OneMethodChanges ==
    ASSUME LedgerInv, NEW m \in Methods, NEW longest \in Nat,
           NEW metrics \in [Counters -> Nat],
           methods' = [methods EXCEPT ![m] = metrics],
           maxLatency' = [maxLatency EXCEPT ![m] = longest],
           MethodBalanced(metrics, longest)
    PROVE  LedgerInv'
<1>1. methods' \in [Methods -> [Counters -> Nat]] /\ maxLatency' \in [Methods -> Nat]
    BY DEF LedgerInv
<1>2. ASSUME NEW n \in Methods
      PROVE  MethodBalanced(methods'[n], maxLatency'[n])
    <2>1. CASE n = m
        <3>1. methods'[n] = metrics /\ maxLatency'[n] = longest
            BY <2>1 DEF LedgerInv
        <3>2. QED
            BY <3>1
    <2>2. CASE n # m
        <3>1. methods'[n] = methods[n] /\ maxLatency'[n] = maxLatency[n]
            BY <2>2 DEF LedgerInv
        <3>2. QED
            BY <3>1 DEF LedgerInv, Balanced
    <2>3. QED
        BY <2>1, <2>2
<1>3. Balanced'
    BY <1>2 DEF Balanced
<1>4. QED
    BY <1>1, <1>3 DEF LedgerInv

\* The same for a call that measures nothing.
LEMMA OneMethodChangesUnmeasured ==
    ASSUME LedgerInv, NEW m \in Methods,
           NEW metrics \in [Counters -> Nat],
           methods' = [methods EXCEPT ![m] = metrics],
           UNCHANGED maxLatency,
           MethodBalanced(metrics, maxLatency[m])
    PROVE  LedgerInv'
<1>1. maxLatency' = [maxLatency EXCEPT ![m] = maxLatency[m]] /\ maxLatency[m] \in Nat
    BY DEF LedgerInv
<1>2. QED
    BY <1>1, OneMethodChanges

-----------------------------------------------------------------------------
(* The calls                                                               *)

LEMMA MethodFacts ==
    ASSUME LedgerInv, NEW m \in Methods
    PROVE  /\ methods[m] \in [Counters -> Nat]
           /\ maxLatency[m] \in Nat
           /\ MethodBalanced(methods[m], maxLatency[m])
BY DEF LedgerInv, Balanced

\* What the balance says of a method's counters, one by one.
LEMMA BalanceFacts ==
    ASSUME LedgerInv, NEW m \in Methods
    PROVE  /\ methods[m]["requests"] \in Nat /\ methods[m]["inFlight"] \in Nat
           /\ methods[m]["successes"] \in Nat /\ methods[m]["errors"] \in Nat
           /\ methods[m]["responseErrors"] \in Nat
           /\ methods[m]["recoveryErrors"] \in Nat
           /\ methods[m]["requests"] = methods[m]["inFlight"]
                + methods[m]["successes"] + methods[m]["errors"]
           /\ methods[m]["responseErrors"] + methods[m]["recoveryErrors"]
                <= methods[m]["errors"]
           /\ methods[m]["samples"] = methods[m]["successes"]
                + methods[m]["errors"] - methods[m]["recoveryErrors"]
BY MethodFacts DEF MethodBalanced, Counters, Totals

\* An invocation begins.
LEMMA RequestBalanced ==
    ASSUME LedgerInv, NEW m \in Methods, RecordRequest(m)
    PROVE  LedgerInv'
<1> DEFINE after == Raised(methods[m], {"requests", "inFlight"})
<1>1. {"requests", "inFlight"} \in SUBSET Counters
    BY DEF Counters, Totals
<1>2. after \in [Counters -> Nat]
    BY <1>1, MethodFacts, RaisedCounters
<1>3. MethodBalanced(after, maxLatency[m])
    <2>1. \A c \in Counters : after[c] =
            IF c \in {"requests", "inFlight"} THEN methods[m][c] + 1 ELSE methods[m][c]
        BY <1>1, MethodFacts, RaisedCounters
    <2>2. QED
        BY <2>1, MethodFacts DEF MethodBalanced, Counters, Totals
<1>4. QED
    BY <1>2, <1>3, OneMethodChangesUnmeasured DEF RecordRequest, Tally

\* A call that measures an invocation, with the counters it has raised.
LEMMA MeasuredBalanced ==
    ASSUME LedgerInv, NEW m \in Methods, NEW latency \in Latencies,
           NEW kinds \in {{"successes"}, {"errors"}, {"errors", "responseErrors"}},
           Live(m),
           Tally(m, {"samples"} \cup kinds, Sampled(Ended(m), latency)),
           Measures(m, latency)
    PROVE  LedgerInv'
<1> DEFINE up == {"samples"} \cup kinds
           before == Sampled(Ended(m), latency)
           after == Raised(before, up)
           longest == IF latency > maxLatency[m] THEN latency ELSE maxLatency[m]
<1>1. up \in SUBSET Counters /\ latency \in Nat
    BY LedgerAssumption DEF Counters, Totals
<1>2. longest \in Nat /\ maxLatency[m] <= longest /\ latency <= longest
    BY <1>1, MethodFacts
<1>3. /\ before \in [Counters -> Nat]
      /\ before["inFlight"] = methods[m]["inFlight"] - 1
      /\ before["latency"] = methods[m]["latency"] + latency
      /\ \A c \in Counters \ {"inFlight", "latency"} : before[c] = methods[m][c]
    BY <1>1, MethodFacts DEF Sampled, Ended, Live, Counters, Totals
<1>4. /\ after \in [Counters -> Nat]
      /\ \A c \in Counters : after[c] = IF c \in up THEN before[c] + 1 ELSE before[c]
    BY <1>1, <1>3, RaisedCounters
<1>5. MethodBalanced(after, longest)
    <2>1. /\ after["samples"] = methods[m]["samples"] + 1
          /\ after["latency"] = methods[m]["latency"] + latency
        BY <1>3, <1>4 DEF Counters, Totals
    <2>2. after["latency"] <= longest * after["samples"]
        <3>1. /\ methods[m]["latency"] \in Nat /\ methods[m]["samples"] \in Nat
              /\ methods[m]["latency"] <= maxLatency[m] * methods[m]["samples"]
            BY MethodFacts DEF MethodBalanced, Counters, Totals
        <3>2. QED
            BY <1>1, <1>2, <2>1, <3>1, MethodFacts, MeanBelowMaximum
    <2>3. /\ after["requests"] = methods[m]["requests"]
          /\ after["inFlight"] = methods[m]["inFlight"] - 1
          /\ after["recoveryErrors"] = methods[m]["recoveryErrors"]
        BY <1>3, <1>4 DEF Counters, Totals
    <2>4. \/ /\ after["successes"] = methods[m]["successes"] + 1
             /\ after["errors"] = methods[m]["errors"]
             /\ after["responseErrors"] = methods[m]["responseErrors"]
          \/ /\ after["successes"] = methods[m]["successes"]
             /\ after["errors"] = methods[m]["errors"] + 1
             /\ after["responseErrors"] \in
                    {methods[m]["responseErrors"], methods[m]["responseErrors"] + 1}
        <3>1. CASE kinds = {"successes"}
            BY <1>3, <1>4, <3>1 DEF Counters, Totals
        <3>2. CASE kinds = {"errors"}
            BY <1>3, <1>4, <3>2 DEF Counters, Totals
        <3>3. CASE kinds = {"errors", "responseErrors"}
            BY <1>3, <1>4, <3>3 DEF Counters, Totals
        <3>4. QED
            BY <3>1, <3>2, <3>3
    <2>5. /\ after["requests"] =
                after["inFlight"] + after["successes"] + after["errors"]
          /\ after["responseErrors"] + after["recoveryErrors"] <= after["errors"]
          /\ after["samples"] =
                after["successes"] + after["errors"] - after["recoveryErrors"]
        <3> HIDE DEF after
        <3>1. QED
            BY <2>1, <2>3, <2>4, BalanceFacts
    <2>6. QED
        BY <2>2, <2>5 DEF MethodBalanced
<1>6. maxLatency' = [maxLatency EXCEPT ![m] = longest]
    BY DEF Measures, LedgerInv
<1>7. methods' = [methods EXCEPT ![m] = after]
    BY DEF Tally
<1>8. QED
    BY <1>2, <1>4, <1>5, <1>6, <1>7, OneMethodChanges

\* Recovery ends an invocation.
LEMMA RecoveryErrorBalanced ==
    ASSUME LedgerInv, NEW m \in Methods, RecordRecoveryError(m)
    PROVE  LedgerInv'
<1> DEFINE up == {"recoveryErrors", "errors"}
           after == Raised(Ended(m), up)
<1>1. up \in SUBSET Counters
    BY DEF Counters, Totals
<1>2. /\ Ended(m) \in [Counters -> Nat]
      /\ Ended(m)["inFlight"] = methods[m]["inFlight"] - 1
      /\ \A c \in Counters \ {"inFlight"} : Ended(m)[c] = methods[m][c]
    BY MethodFacts DEF RecordRecoveryError, Ended, Live, Counters, Totals
<1>3. /\ after \in [Counters -> Nat]
      /\ \A c \in Counters : after[c] = IF c \in up THEN Ended(m)[c] + 1 ELSE Ended(m)[c]
    BY <1>1, <1>2, RaisedCounters
<1>4. MethodBalanced(after, maxLatency[m])
    <2>1. /\ after["samples"] = methods[m]["samples"]
          /\ after["latency"] = methods[m]["latency"]
        BY <1>2, <1>3 DEF Counters, Totals
    <2>2. after["latency"] <= maxLatency[m] * after["samples"]
        BY <2>1, MethodFacts DEF MethodBalanced
    <2>3. /\ after["requests"] = methods[m]["requests"]
          /\ after["inFlight"] = methods[m]["inFlight"] - 1
          /\ after["successes"] = methods[m]["successes"]
          /\ after["errors"] = methods[m]["errors"] + 1
          /\ after["responseErrors"] = methods[m]["responseErrors"]
          /\ after["recoveryErrors"] = methods[m]["recoveryErrors"] + 1
        BY <1>2, <1>3 DEF Counters, Totals
    <2>4. /\ after["requests"] =
                after["inFlight"] + after["successes"] + after["errors"]
          /\ after["responseErrors"] + after["recoveryErrors"] <= after["errors"]
          /\ after["samples"] =
                after["successes"] + after["errors"] - after["recoveryErrors"]
        <3>1. methods[m]["samples"] \in Int
            BY BalanceFacts
        <3> HIDE DEF after
        <3>2. QED
            BY <2>1, <2>3, <3>1, BalanceFacts, SMTT(20)
    <2>5. QED
        BY <2>2, <2>4 DEF MethodBalanced
<1>5. QED
    BY <1>3, <1>4, OneMethodChangesUnmeasured DEF RecordRecoveryError, Tally

\* A fault or a replay of an invocation leaves it in flight.
LEMMA IncidentBalanced ==
    ASSUME LedgerInv, NEW m \in Methods, NEW c \in {"recoveryFaults", "retries"},
           Tally(m, {c}, methods[m]), UNCHANGED maxLatency
    PROVE  LedgerInv'
<1> DEFINE after == Raised(methods[m], {c})
<1>1. {c} \in SUBSET Counters
    BY DEF Counters, Totals
<1>2. /\ after \in [Counters -> Nat]
      /\ \A k \in Counters : after[k] = IF k \in {c} THEN methods[m][k] + 1 ELSE methods[m][k]
    BY <1>1, MethodFacts, RaisedCounters
<1>3. MethodBalanced(after, maxLatency[m])
    <2>1. \A k \in Counters \ {"recoveryFaults", "retries"} : after[k] = methods[m][k]
        BY <1>2
    <2>2. /\ after["requests"] = methods[m]["requests"]
          /\ after["inFlight"] = methods[m]["inFlight"]
          /\ after["successes"] = methods[m]["successes"]
          /\ after["errors"] = methods[m]["errors"]
          /\ after["responseErrors"] = methods[m]["responseErrors"]
          /\ after["recoveryErrors"] = methods[m]["recoveryErrors"]
          /\ after["samples"] = methods[m]["samples"]
          /\ after["latency"] = methods[m]["latency"]
        BY <2>1 DEF Counters, Totals
    <2>3. QED
        BY <2>2, MethodFacts DEF MethodBalanced
<1>4. QED
    BY <1>2, <1>3, OneMethodChangesUnmeasured DEF Tally

-----------------------------------------------------------------------------
\* The ledger of a new session has nothing in it.
LEMMA InitBalanced == LedgerInit => LedgerInv
BY DEF LedgerInit, LedgerInv, Balanced, MethodBalanced, Counters, Totals

\* Every call preserves the invariant.
LEMMA NextBalanced == LedgerInv /\ [LedgerNext]_ledgerVars => LedgerInv'
<1> SUFFICES ASSUME LedgerInv, [LedgerNext]_ledgerVars
             PROVE  LedgerInv'
    OBVIOUS
<1>1. ASSUME NEW m \in Methods, RecordRequest(m)
      PROVE  LedgerInv'
    BY <1>1, RequestBalanced
<1>2. ASSUME NEW m \in Methods, NEW latency \in Latencies, RecordSuccess(m, latency)
      PROVE  LedgerInv'
    <2>1. {"samples", "successes"} = {"samples"} \cup {"successes"}
        OBVIOUS
    <2>2. QED
        BY <1>2, <2>1, MeasuredBalanced DEF RecordSuccess
<1>3. ASSUME NEW m \in Methods, NEW latency \in Latencies,
             NEW kinds \in {{}, {"responseErrors"}}, RecordError(m, latency, kinds)
      PROVE  LedgerInv'
    <2>1. /\ {"errors"} \cup kinds \in {{"errors"}, {"errors", "responseErrors"}}
          /\ {"samples", "errors"} \cup kinds = {"samples"} \cup ({"errors"} \cup kinds)
        BY <1>3
    <2>2. QED
        BY <1>3, <2>1, MeasuredBalanced DEF RecordError
<1>4. ASSUME NEW m \in Methods, RecordRecoveryError(m)
      PROVE  LedgerInv'
    BY <1>4, RecoveryErrorBalanced
<1>5. ASSUME NEW m \in Methods, RecordRecoveryFault(m) \/ RecordReplay(m)
      PROVE  LedgerInv'
    BY <1>5, IncidentBalanced DEF RecordRecoveryFault, RecordReplay
<1>6. CASE RecordWorkerFault
    BY <1>6 DEF RecordWorkerFault, LedgerInv, Balanced
<1>7. CASE \E g \in Generations : ReplaceWorker(g)
    BY <1>7 DEF ReplaceWorker, LedgerInv, Balanced
<1>8. CASE UNCHANGED ledgerVars
    BY <1>8 DEF ledgerVars, LedgerInv, Balanced
<1>9. QED
    BY <1>1, <1>2, <1>3, <1>4, <1>5, <1>6, <1>7, <1>8 DEF LedgerNext

\* The books of every method balance in every state: OperationalLedger counts
\* each invocation in flight or ended once, however calls follow each other and
\* whichever counter is exhausted.
THEOREM BooksBalance == LedgerSpec => []Balanced
<1>1. LedgerInv => Balanced
    BY DEF LedgerInv
<1>2. QED
    BY <1>1, InitBalanced, NextBalanced, PTL DEF LedgerSpec

-----------------------------------------------------------------------------
(* The operational ledger: the totals are sums                             *)

\* Aggregated is inductive once the sums are known to be of finitely many calls.
SumsInv ==
    /\ LedgerInv
    /\ totals \in [Totals -> Nat] /\ consecutiveFailures \in Nat
    /\ \A c \in Totals : IsFiniteSet(Counted(c))
    /\ Aggregated

LEMMA SumsFacts ==
    ASSUME SumsInv
    PROVE  /\ \A c \in Totals : /\ IsFiniteSet(Counted(c)) /\ Cardinality(Counted(c)) \in Nat
                                /\ totals[c] \in Nat
                                /\ Cardinality(Counted(c)) <= totals[c]
                                /\ c # "recoveryFaults" => Cardinality(Counted(c)) = totals[c]
           /\ consecutiveFailures \in Nat
           /\ consecutiveFailures <= totals["recoveryFaults"]
           /\ "recoveryFaults" \in Totals
<1>1. \A c \in Totals : Cardinality(Counted(c)) \in Nat
    BY FS_CardinalityType DEF SumsInv
<1>2. "recoveryFaults" \in Totals
    BY DEF Totals
<1> QED
    BY <1>1, <1>2 DEF SumsInv, Aggregated

\* Raising a counter of one method adds one to the sum.
LEMMA OneMoreCounted ==
    ASSUME SumsInv, NEW m \in Methods, NEW c \in Totals,
           methods' \in [Methods -> [Counters -> Nat]],
           \A n \in Methods \ {m} : methods'[n][c] = methods[n][c],
           NEW more \in {0, 1}, methods'[m][c] = methods[m][c] + more
    PROVE  /\ IsFiniteSet(Counted(c)')
           /\ Cardinality(Counted(c)') = Cardinality(Counted(c)) + more
<1>1. c \in Counters /\ \A n \in Methods : methods[n][c] \in Nat /\ methods'[n][c] \in Nat
    BY DEF SumsInv, LedgerInv, Counters
<1>2. \A x : x \in Counted(c) <=> \E n \in Methods : \E k \in 1..methods[n][c] : x = <<n, k>>
    BY DEF Counted
<1>3. \A x : x \in Counted(c)' <=> \E n \in Methods : \E k \in 1..methods'[n][c] : x = <<n, k>>
    BY DEF Counted
<1>4. IsFiniteSet(Counted(c)) /\ Cardinality(Counted(c)) \in Nat
    BY SumsFacts
<1>5. CASE more = 0
    <2>1. \A n \in Methods : methods'[n][c] = methods[n][c]
        BY <1>1, <1>5
    <2>2. \A x : x \in Counted(c)' <=> x \in Counted(c)
        BY <1>2, <1>3, <2>1
    <2>3. Counted(c)' = Counted(c)
        BY <2>2
    <2> QED
        BY <1>4, <1>5, <2>3
<1>6. CASE more = 1
    <2> DEFINE new == <<m, methods[m][c] + 1>>
    <2>1. new \notin Counted(c)
        <3> SUFFICES ASSUME NEW n \in Methods, NEW k \in 1..methods[n][c], new = <<n, k>>
                     PROVE  FALSE
            BY <1>2
        <3>1. n = m /\ k = methods[m][c] + 1
            OBVIOUS
        <3> QED
            BY <1>1, <3>1
    <2>2. ASSUME NEW x
          PROVE  x \in Counted(c)' <=> x \in Counted(c) \cup {new}
        <3>1. ASSUME NEW n \in Methods, NEW k \in 1..methods'[n][c], x = <<n, k>>
              PROVE  x \in Counted(c) \cup {new}
            <4>1. CASE n = m /\ k = methods[m][c] + 1
                BY <3>1, <4>1
            <4>2. CASE n = m /\ k # methods[m][c] + 1
                <5>1. k \in 1..methods[m][c]
                    BY <1>1, <1>6, <4>2
                <5> QED
                    BY <1>2, <3>1, <4>2, <5>1
            <4>3. CASE n # m
                BY <1>2, <3>1, <4>3
            <4> QED
                BY <4>1, <4>2, <4>3
        <3>2. ASSUME NEW n \in Methods, NEW k \in 1..methods[n][c], x = <<n, k>>
              PROVE  x \in Counted(c)'
            <4>1. k \in 1..methods'[n][c]
                BY <1>1, <1>6
            <4> QED
                BY <1>3, <3>2, <4>1
        <3>3. new \in Counted(c)'
            <4>1. methods[m][c] + 1 \in 1..methods'[m][c]
                BY <1>1, <1>6
            <4> QED
                BY <1>3, <4>1
        <3> QED
            BY <1>2, <1>3, <3>1, <3>2, <3>3
    <2>3. Counted(c)' = Counted(c) \cup {new}
        BY <2>2
    <2> HIDE DEF new
    <2> QED
        BY <1>4, <1>6, <2>1, <2>3, FS_AddElement
<1> QED
    BY <1>5, <1>6

\* A call that tallies keeps the sums, whatever else it does to the method.
LEMMA TallyKeepsSums ==
    ASSUME SumsInv, LedgerInv', NEW m \in Methods, NEW up \in SUBSET Counters,
           NEW metrics \in [Counters -> Nat],
           \A c \in Totals : metrics[c] = methods[m][c],
           Tally(m, up, metrics),
           \/ consecutiveFailures' = consecutiveFailures
           \/ consecutiveFailures' = 0
           \/ consecutiveFailures' = consecutiveFailures + 1 /\ "recoveryFaults" \in up
    PROVE  SumsInv'
<1> DEFINE more(c) == IF c \in up THEN 1 ELSE 0
<1>1. methods' = [methods EXCEPT ![m] = Raised(metrics, up)] /\ totals' = Raised(totals, up)
    BY DEF Tally
<1>2. totals \in [Totals -> Nat] /\ methods \in [Methods -> [Counters -> Nat]]
    BY DEF SumsInv, LedgerInv
<1>3. totals' \in [Totals -> Nat] /\ \A c \in Totals : totals'[c] = totals[c] + more(c)
    BY <1>1, <1>2 DEF Raised
<1>4. ASSUME NEW c \in Totals
      PROVE  /\ IsFiniteSet(Counted(c)')
             /\ Cardinality(Counted(c)') = Cardinality(Counted(c)) + more(c)
    <2>1. methods' \in [Methods -> [Counters -> Nat]]
        BY DEF LedgerInv
    <2>2. \A n \in Methods \ {m} : methods'[n][c] = methods[n][c]
        BY <1>1, <1>2
    <2>3. methods'[m][c] = methods[m][c] + more(c)
        <3>1. c \in Counters /\ metrics[c] = methods[m][c] /\ metrics[c] \in Nat
            BY DEF Counters
        <3>2. methods'[m] = Raised(metrics, up)
            BY <1>1, <1>2
        <3> QED
            BY <3>1, <3>2, RaisedCounters
    <2>4. more(c) \in {0, 1}
        OBVIOUS
    <2> HIDE DEF more
    <2> QED
        BY <2>1, <2>2, <2>3, <2>4, OneMoreCounted
<1>5. consecutiveFailures' \in Nat /\ consecutiveFailures' <= totals'["recoveryFaults"]
    BY <1>3, SumsFacts
<1>6. \A c \in Totals : more(c) \in Nat
    OBVIOUS
<1> HIDE DEF more
<1>7. Aggregated'
    <2>1. \A c \in Totals \ {"recoveryFaults"} : totals'[c] = Cardinality(Counted(c)')
        BY <1>3, <1>4, SumsFacts
    <2>2. Cardinality(Counted("recoveryFaults")') <= totals'["recoveryFaults"]
        BY <1>3, <1>4, <1>6, SumsFacts
    <2> QED
        BY <1>5, <2>1, <2>2 DEF Aggregated
<1> QED
    BY <1>3, <1>4, <1>5, <1>7 DEF SumsInv

\* What is left of a method's metrics when an invocation has ended
LEMMA EndedFacts ==
    ASSUME LedgerInv, NEW m \in Methods, Live(m), NEW latency \in Nat
    PROVE  /\ Ended(m) \in [Counters -> Nat]
           /\ Sampled(Ended(m), latency) \in [Counters -> Nat]
           /\ \A c \in Totals : /\ Ended(m)[c] = methods[m][c]
                                /\ Sampled(Ended(m), latency)[c] = methods[m][c]
BY MethodFacts DEF Ended, Sampled, Live, Counters, Totals

LEMMA NextSums == SumsInv /\ [LedgerNext]_ledgerVars => SumsInv'
<1> SUFFICES ASSUME SumsInv, [LedgerNext]_ledgerVars
             PROVE  SumsInv'
    OBVIOUS
<1>1. LedgerInv /\ LedgerInv' /\ \A m \in Methods : methods[m] \in [Counters -> Nat]
    BY NextBalanced DEF SumsInv, LedgerInv
<1>2. ASSUME NEW m \in Methods, RecordRequest(m)
      PROVE  SumsInv'
    <2>1. {"requests", "inFlight"} \in SUBSET Counters
        BY DEF Counters, Totals
    <2> QED
        BY <1>1, <1>2, <2>1, TallyKeepsSums DEF RecordRequest
<1>3. ASSUME NEW m \in Methods, NEW latency \in Latencies, RecordSuccess(m, latency)
      PROVE  SumsInv'
    <2>1. {"samples", "successes"} \in SUBSET Counters /\ latency \in Nat /\ Live(m)
        BY <1>3, LedgerAssumption DEF Counters, Totals, RecordSuccess
    <2>2. /\ Tally(m, {"samples", "successes"}, Sampled(Ended(m), latency))
          /\ consecutiveFailures' = 0
        BY <1>3 DEF RecordSuccess
    <2>3. /\ Sampled(Ended(m), latency) \in [Counters -> Nat]
          /\ \A c \in Totals : Sampled(Ended(m), latency)[c] = methods[m][c]
        BY <1>1, <2>1, EndedFacts
    <2> QED
        BY <1>1, <2>1, <2>2, <2>3, TallyKeepsSums
<1>4. ASSUME NEW m \in Methods, NEW latency \in Latencies,
             NEW kinds \in {{}, {"responseErrors"}}, RecordError(m, latency, kinds)
      PROVE  SumsInv'
    <2>1. {"samples", "errors"} \cup kinds \in SUBSET Counters /\ latency \in Nat /\ Live(m)
        BY <1>4, LedgerAssumption DEF Counters, Totals, RecordError
    <2> QED
        BY <1>1, <1>4, <2>1, EndedFacts, TallyKeepsSums DEF RecordError
<1>5. ASSUME NEW m \in Methods, RecordRecoveryError(m)
      PROVE  SumsInv'
    <2>1. {"recoveryErrors", "errors"} \in SUBSET Counters /\ 0 \in Nat /\ Live(m)
        BY <1>5 DEF Counters, Totals, RecordRecoveryError
    <2> QED
        BY <1>1, <1>5, <2>1, EndedFacts, TallyKeepsSums DEF RecordRecoveryError
<1>6. ASSUME NEW m \in Methods, RecordRecoveryFault(m) \/ RecordReplay(m)
      PROVE  SumsInv'
    <2>1. {"recoveryFaults"} \in SUBSET Counters /\ {"retries"} \in SUBSET Counters
        BY DEF Counters, Totals
    <2> QED
        BY <1>1, <1>6, <2>1, TallyKeepsSums DEF RecordRecoveryFault, RecordReplay
<1>7. CASE RecordWorkerFault
    <2>1. /\ totals' = Raised(totals, {"recoveryFaults"}) /\ methods' = methods
          /\ consecutiveFailures' = consecutiveFailures + 1
        BY <1>7 DEF RecordWorkerFault
    <2>2. /\ totals' \in [Totals -> Nat]
          /\ \A c \in Totals : totals'[c] = IF c = "recoveryFaults" THEN totals[c] + 1
                                            ELSE totals[c]
        BY <2>1 DEF Raised, SumsInv
    <2>3. \A c \in Totals : Counted(c)' = Counted(c)
        BY <2>1 DEF Counted
    <2> QED
        BY <1>1, <2>1, <2>2, <2>3, SumsFacts DEF SumsInv, Aggregated
<1>8. CASE UNCHANGED <<totals, methods, consecutiveFailures>>
    <2>1. \A c \in Totals : Counted(c)' = Counted(c)
        BY <1>8 DEF Counted
    <2> QED
        BY <1>1, <1>8, <2>1, SumsFacts DEF SumsInv, Aggregated
<1> QED
    BY <1>2, <1>3, <1>4, <1>5, <1>6, <1>7, <1>8 DEF LedgerNext, ReplaceWorker, ledgerVars

LEMMA InitSums == LedgerInit => SumsInv
<1> SUFFICES ASSUME LedgerInit
             PROVE  SumsInv
    OBVIOUS
<1>1. ASSUME NEW c \in Totals
      PROVE  Counted(c) = {}
    <2>1. \A m \in Methods : methods[m][c] = 0
        BY DEF LedgerInit, Counters
    <2> QED
        BY <2>1 DEF Counted
<1>2. /\ totals = [c \in Totals |-> 0] /\ consecutiveFailures = 0
      /\ "recoveryFaults" \in Totals
    BY DEF LedgerInit, Totals
<1> QED
    BY <1>1, <1>2, InitBalanced, FS_EmptySet DEF SumsInv, Aggregated

\* The totals of a session are the sums of what its methods have counted, for any
\* number of methods, whichever counter is exhausted first.
THEOREM TotalsAggregate == LedgerSpec => []Aggregated
<1>1. SumsInv => Aggregated
    BY DEF SumsInv
<1> QED
    BY <1>1, InitSums, NextSums, PTL DEF LedgerSpec

-----------------------------------------------------------------------------
(* The telemetry log: what its bound and its counters rest on.  A log that *)
(* is between locking the file and releasing it has it for itself, as long *)
(* as its process runs; the mutex of the process is not needed for that.   *)

Places == {"Idle", "Locking", "LockingFile", "Bounding", "Writing", "Flushing", "Unlocking"}

Cell == [log : Logs, number : Nat, cell : Nat \ {0}, of : Nat]

LogState == [at : Places, kind : {"event", "snapshot"}, length : Nat,
             put : Nat, failed : BOOLEAN]

LogTyped ==
    /\ file \in Seq(Cell)
    /\ fileLock \in Logs \cup {NoLog}
    /\ log \in [Logs -> LogState]
    /\ begun \in [Logs -> Nat] /\ emitted \in [Logs -> Nat]
    /\ counted \in [Logs -> Nat] /\ whole \in [Logs -> Nat]
    /\ troubles \in 0..Troubles

\* Who works on the file has it locked.
FileOwned ==
    \A l \in Logs :
        Runs(l) /\ log[l].at \in {"Bounding", "Writing", "Flushing"} => fileLock = l

\* A record has been put so far as the file's end says, and the rest of it has
\* room under the bound.
RecordUnderWay ==
    /\ \A l \in Logs :
        log[l].at \in {"Locking", "LockingFile", "Bounding"} => log[l].put = 0 /\ log[l].length > 0
    /\ \A l \in Logs : Runs(l) /\ log[l].at = "Writing" =>
        /\ log[l].put < log[l].length
        /\ Len(file) + (log[l].length - log[l].put) <= MaxBytes
        /\ log[l].put > 0 =>
            /\ Len(file) > 0
            /\ file[Len(file)] = [log |-> l, number |-> begun[l],
                                  cell |-> log[l].put, of |-> log[l].length]
    /\ \A l \in Logs : log[l].at # "Unlocking" => ~ log[l].failed

\* The cells a failure or a kill has left at the end of a record cut short.
Loose == {i \in 1..Len(file) : Torn(i) /\ ~ UnderWay(i)}

LogWhole ==
    /\ Len(file) <= MaxBytes
    /\ \A i \in 1..Len(file) : InPlace(i)
    /\ Cardinality(Loose) <= Troubles - troubles

LogInv == LogTyped /\ FileOwned /\ RecordUnderWay /\ LogWhole

\* What an instance is about to count.
Countable(l) ==
    IF log[l].at = "Unlocking" /\ log[l].kind = "event" /\ ~ log[l].failed THEN 1 ELSE 0

\* The counters follow what is written.  The property says less: of an event
\* whose flush fails it does not say that it never is counted.
CountersFollow ==
    \A l \in Logs :
        /\ counted[l] <= emitted[l]
        /\ emitted[l] + Countable(l) <= whole[l]
        /\ whole[l] <= emitted[l] + Countable(l) + (Troubles - troubles)

TelemetryInv == LogInv /\ CountersFollow

-----------------------------------------------------------------------------
(* What a step makes of the logs                                           *)

\* One log is at another place and in the same record.
MovesTo(l, to, failed) ==
    /\ log' \in [Logs -> LogState]
    /\ \A k \in Logs \ {l} : log'[k] = log[k]
    /\ log'[l].at = to /\ log'[l].failed = failed
    /\ log'[l].kind = log[l].kind /\ log'[l].length = log[l].length
    /\ log'[l].put = log[l].put

LEMMA StepMoves ==
    ASSUME LogTyped, NEW l \in Logs, NEW from, NEW to \in Places, Steps(l, from, to)
    PROVE  MovesTo(l, to, log[l].failed) /\ log[l].at = from /\ Runs(l)
<1>1. log[l] \in LogState
    BY DEF LogTyped
<1>2. log' = [log EXCEPT ![l] = [log[l] EXCEPT !.at = to]]
    BY DEF Steps
<1>3. [log[l] EXCEPT !.at = to] \in LogState
    BY <1>1 DEF LogState
<1>4. log' \in [Logs -> LogState] /\ log'[l] = [log[l] EXCEPT !.at = to]
        /\ \A k \in Logs \ {l} : log'[k] = log[k]
    BY <1>2, <1>3 DEF LogTyped
<1> QED
    BY <1>1, <1>4 DEF MovesTo, LogState, Steps

LEMMA FailureMoves ==
    ASSUME LogTyped, NEW l \in Logs,
           log' = [log EXCEPT ![l].at = "Unlocking", ![l].failed = TRUE]
    PROVE  MovesTo(l, "Unlocking", TRUE)
<1> DEFINE new == [log[l] EXCEPT !.at = "Unlocking", !.failed = TRUE]
<1>1. log[l] \in LogState
    BY DEF LogTyped
<1>2. log' = [log EXCEPT ![l] = new]
    BY DEF LogTyped
<1>3. new \in LogState
    BY <1>1 DEF LogState, Places
<1>4. log' \in [Logs -> LogState] /\ log'[l] = new /\ \A k \in Logs \ {l} : log'[k] = log[k]
    BY <1>2, <1>3 DEF LogTyped
<1>5. /\ new.at = "Unlocking" /\ new.failed = TRUE /\ new.kind = log[l].kind
      /\ new.length = log[l].length /\ new.put = log[l].put
    BY <1>1 DEF LogState
<1> QED
    BY <1>4, <1>5 DEF MovesTo

LEMMA TroubleMoves ==
    ASSUME LogTyped, NEW l \in Logs, Trouble(l)
    PROVE  /\ MovesTo(l, "Unlocking", TRUE)
           /\ troubles' \in 0..Troubles /\ troubles' = troubles - 1
<1>1. troubles' \in 0..Troubles /\ troubles' = troubles - 1
    BY LogAssumption DEF Trouble, LogTyped
<1>2. MovesTo(l, "Unlocking", TRUE)
    <2>1. log' = [log EXCEPT ![l].at = "Unlocking", ![l].failed = TRUE]
        BY DEF Trouble
    <2> QED
        BY <2>1, FailureMoves
<1> QED
    BY <1>1, <1>2

LEMMA BeginsAnew ==
    ASSUME LogTyped, NEW l \in Logs, NEW kind \in {"event", "snapshot"},
           NEW length \in Nat, Begins(l, kind, length)
    PROVE  /\ log' \in [Logs -> LogState]
           /\ \A k \in Logs \ {l} : log'[k] = log[k]
           /\ log'[l].at = "Locking" /\ log'[l].length = length
           /\ log'[l].put = 0 /\ log'[l].failed = FALSE
<1> DEFINE new == [Resting EXCEPT !.at = "Locking", !.kind = kind, !.length = length]
<1>1. /\ new \in LogState /\ new.at = "Locking" /\ new.length = length
      /\ new.put = 0 /\ new.failed = FALSE
    BY DEF LogState, Resting, Places
<1>2. log' = [log EXCEPT ![l] = new]
    BY DEF Begins
<1> HIDE DEF new
<1> QED
    BY <1>1, <1>2 DEF LogTyped

LEMMA RestsAgain ==
    ASSUME LogTyped, NEW l \in Logs, log' = [log EXCEPT ![l] = Resting]
    PROVE  /\ log' \in [Logs -> LogState]
           /\ \A k \in Logs \ {l} : log'[k] = log[k]
           /\ log'[l].at = "Idle" /\ log'[l].put = 0 /\ log'[l].failed = FALSE
BY DEF LogTyped, LogState, Resting, Places

\* A write puts cells of one record at the end of the file.
LEMMA WritePuts ==
    ASSUME LogTyped, NEW l \in Logs, NEW last \in (log[l].put + 1)..log[l].length,
           log' = [log EXCEPT ![l].put = last,
                        ![l].at = IF last = log[l].length THEN "Flushing" ELSE @],
           log[l].at = "Writing"
    PROVE  /\ log' \in [Logs -> LogState]
           /\ \A k \in Logs \ {l} : log'[k] = log[k]
           /\ log'[l].at = IF last = log[l].length THEN "Flushing" ELSE "Writing"
           /\ log'[l].put = last /\ log'[l].length = log[l].length
           /\ log'[l].kind = log[l].kind /\ log'[l].failed = log[l].failed
<1> DEFINE to == IF last = log[l].length THEN "Flushing" ELSE "Writing"
           new == [log[l] EXCEPT !.put = last, !.at = to]
<1>1. log[l] \in LogState /\ last \in Nat /\ to \in Places
    BY DEF LogTyped, LogState, Places
<1>2. log' = [log EXCEPT ![l] = new]
    BY DEF LogTyped
<1> HIDE DEF to
<1>3. /\ new \in LogState /\ new.at = to /\ new.put = last /\ new.length = log[l].length
      /\ new.kind = log[l].kind /\ new.failed = log[l].failed
    BY <1>1 DEF LogState
<1> HIDE DEF new
<1>4. log' \in [Logs -> LogState] /\ log'[l] = new /\ \A k \in Logs \ {l} : log'[k] = log[k]
    BY <1>2, <1>3 DEF LogTyped
<1> QED
    BY <1>3, <1>4 DEF to

\* What one write appends.
LEMMA CellsWritten ==
    ASSUME LogTyped, NEW l \in Logs, NEW last \in (log[l].put + 1)..log[l].length
    PROVE  /\ Cells(l, log[l].put + 1, last) \in Seq(Cell)
           /\ Len(Cells(l, log[l].put + 1, last)) = last - log[l].put
           /\ \A i \in 1..(last - log[l].put) :
                Cells(l, log[l].put + 1, last)[i] =
                    [log |-> l, number |-> begun[l], cell |-> log[l].put + i,
                     of |-> log[l].length]
<1> DEFINE put == log[l].put
           n == last - put
           written == Cells(l, put + 1, last)
           cell(i) == [log |-> l, number |-> begun[l], cell |-> put + i, of |-> log[l].length]
<1>1. put \in Nat /\ log[l].length \in Nat /\ begun[l] \in Nat /\ last \in Nat /\ n \in Nat
    <2>1. log[l] \in LogState /\ begun[l] \in Nat
        BY DEF LogTyped
    <2>2. put \in Nat /\ log[l].length \in Nat
        BY <2>1 DEF LogState
    <2> QED
        BY <2>1, <2>2
<1>2. written = [i \in 1..n |-> [log |-> l, number |-> begun[l], cell |-> (put + 1) + i - 1,
                                 of |-> log[l].length]]
    BY <1>1 DEF Cells
<1>3. \A i \in 1..n : (put + 1) + i - 1 = put + i /\ put + i \in Nat \ {0}
    BY <1>1
<1>4. \A i \in 1..n : written[i] = cell(i)
    BY <1>2, <1>3
<1>5. \A i \in 1..n : cell(i) \in Cell
    BY <1>1, <1>3 DEF Cell
<1>6. written \in [1..n -> Cell]
    BY <1>2, <1>4, <1>5
<1>7. written \in Seq(Cell) /\ Len(written) = n
    BY <1>1, <1>6
<1> QED
    BY <1>4, <1>7

-----------------------------------------------------------------------------
(* What stays of the file's order when a step does not write               *)

LEMMA LooseCounted ==
    ASSUME NEW S, NEW T, IsFiniteSet(S), NEW n \in Int
    PROVE  /\ T \subseteq S /\ Cardinality(S) <= n => Cardinality(T) <= n
           /\ \A x : T \subseteq S \cup {x} /\ Cardinality(S) <= n => Cardinality(T) <= n + 1
<1>1. ASSUME T \subseteq S, Cardinality(S) <= n PROVE Cardinality(T) <= n
    <2>1. Cardinality(T) <= Cardinality(S) /\ Cardinality(S) \in Nat /\ Cardinality(T) \in Nat
        BY <1>1, FS_Subset, FS_CardinalityType
    <2> QED
        BY <1>1, <2>1
<1>2. ASSUME NEW x, T \subseteq S \cup {x}, Cardinality(S) <= n PROVE Cardinality(T) <= n + 1
    <2>1. IsFiniteSet(S \cup {x}) /\ Cardinality(S \cup {x}) <= Cardinality(S) + 1
        <3>1. /\ IsFiniteSet(S \cup {x}) /\ Cardinality(S) \in Nat
              /\ Cardinality(S \cup {x}) = IF x \in S THEN Cardinality(S) ELSE Cardinality(S) + 1
            BY FS_AddElement, FS_CardinalityType
        <3> QED
            BY <3>1
    <2>2. Cardinality(T) <= Cardinality(S \cup {x}) /\ IsFiniteSet(T)
        BY <1>2, <2>1, FS_Subset
    <2>3. {Cardinality(S), Cardinality(T), Cardinality(S \cup {x})} \subseteq Nat
        BY <2>1, <2>2, FS_CardinalityType
    <2> QED
        BY <1>2, <2>1, <2>2, <2>3
<1> QED
    BY <1>1, <1>2

LEMMA LooseFinite == LogTyped => IsFiniteSet(Loose)
<1> SUFFICES ASSUME LogTyped PROVE IsFiniteSet(Loose)
    OBVIOUS
<1>1. IsFiniteSet(1..Len(file))
    BY FS_Interval DEF LogTyped
<1> QED
    BY <1>1, FS_Subset DEF Loose

\* A step that leaves the file alone may break off what is under way there only
\* if it is a failure or a kill.
LEMMA FileKept ==
    ASSUME LogInv, UNCHANGED file, troubles' \in 0..Troubles,
           \/ troubles' = troubles - 1
           \/ /\ troubles' = troubles
              /\ \A k \in Logs : fileLock = k /\ log[k].at = "Writing" =>
                    fileLock' = k /\ log'[k] = log[k] /\ begun'[k] = begun[k]
    PROVE  LogWhole'
<1>1. \A i : (InPlace(i)' <=> InPlace(i)) /\ (Torn(i)' <=> Torn(i))
    BY DEF InPlace, Torn
<1>2. Len(file') <= MaxBytes /\ \A i \in 1..Len(file') : InPlace(i)'
    BY <1>1 DEF LogInv, LogWhole
<1>3. Cardinality(Loose) <= Troubles - troubles /\ IsFiniteSet(Loose)
        /\ Troubles - troubles \in Int
    BY LooseFinite, LogAssumption DEF LogInv, LogWhole, LogTyped
<1>4. CASE troubles' = troubles - 1
    <2>1. Loose' \subseteq Loose \cup {Len(file)}
        <3> SUFFICES ASSUME NEW i \in Loose', i # Len(file) PROVE i \in Loose
            OBVIOUS
        <3> QED
            BY <1>1 DEF Loose, UnderWay
    <2>2. Cardinality(Loose') <= (Troubles - troubles) + 1
        BY <1>3, <2>1, LooseCounted
    <2>3. (Troubles - troubles) + 1 = Troubles - troubles'
        BY <1>4, LogAssumption DEF LogInv, LogTyped
    <2> QED
        BY <1>2, <2>2, <2>3 DEF LogWhole
<1>5. CASE /\ troubles' = troubles
           /\ \A k \in Logs : fileLock = k /\ log[k].at = "Writing" =>
                fileLock' = k /\ log'[k] = log[k] /\ begun'[k] = begun[k]
    <2>1. ASSUME NEW i \in 1..Len(file), UnderWay(i) PROVE UnderWay(i)'
        <3>1. file[i].log \in Logs
            <4>1. file \in Seq(Cell)
                BY DEF LogInv, LogTyped
            <4>2. file[i] \in Cell
                BY <4>1
            <4> QED
                BY <4>2 DEF Cell
        <3> QED
            BY <1>5, <2>1, <3>1 DEF UnderWay
    <2>2. Loose' \subseteq Loose
        BY <1>1, <2>1 DEF Loose
    <2>3. Cardinality(Loose') <= Troubles - troubles
        BY <1>3, <2>2, LooseCounted
    <2> QED
        BY <1>2, <1>5, <2>3 DEF LogWhole
<1> QED
    BY <1>4, <1>5

-----------------------------------------------------------------------------
(* The steps                                                               *)

\* The counters of the logs that do not step, and of those whose step counts
\* nothing.
LEMMA CountersKept ==
    ASSUME LogTyped, CountersFollow, UNCHANGED countVars,
           \A l \in Logs : Countable(l)' = Countable(l),
           troubles' = troubles \/ troubles' = troubles - 1
    PROVE  CountersFollow'
<1> SUFFICES ASSUME NEW k \in Logs
             PROVE  /\ counted[k] <= emitted[k]
                    /\ emitted[k] + Countable(k)' <= whole[k]
                    /\ whole[k] <= emitted[k] + Countable(k)' + (Troubles - troubles')
    BY DEF CountersFollow, countVars
<1>1. Countable(k)' = Countable(k)
    OBVIOUS
<1>2. /\ counted[k] <= emitted[k] /\ emitted[k] + Countable(k) <= whole[k]
      /\ whole[k] <= emitted[k] + Countable(k) + (Troubles - troubles)
    BY DEF CountersFollow
<1>3. /\ troubles' <= troubles /\ {troubles, troubles', Troubles} \subseteq Int
      /\ whole[k] \in Int /\ emitted[k] \in Int /\ Countable(k) \in Int
    BY LogAssumption DEF LogTyped, Countable
<1> QED
    BY <1>1, <1>2, <1>3

\* A log moves on without a write, a count or a loss of its lock.
LEMMA MoveKept ==
    ASSUME TelemetryInv, NEW l \in Logs, NEW to, NEW failed, MovesTo(l, to, failed),
           log[l].at # "Writing" \/ troubles' = troubles - 1, to # "Writing",
           UNCHANGED <<file, begun, countVars, alive>>,
           fileLock' \in {fileLock, l}, fileLock \in {fileLock', NoLog},
           to \in {"Bounding", "Flushing"} => fileLock' = l,
           to \in {"LockingFile", "Bounding"} => log[l].at \in {"Locking", "LockingFile"},
           to # "Locking", to # "Unlocking" => failed = log[l].failed,
           log[l].at # "Unlocking", to = "Unlocking" => failed,
           \/ troubles' = troubles
           \/ troubles' = troubles - 1 /\ troubles' \in 0..Troubles
    PROVE  TelemetryInv'
<1> USE DEF TelemetryInv, LogInv
<1>1. LogTyped'
    BY DEF LogTyped, MovesTo, countVars
<1>2. FileOwned'
    BY LogAssumption DEF FileOwned, Runs, MovesTo, LogTyped
<1>3. RecordUnderWay'
    <2>1. \A k \in Logs \ {l} : log'[k] = log[k] /\ begun'[k] = begun[k]
        BY DEF MovesTo
    <2>2. /\ log'[l].at = to /\ log'[l].put = log[l].put /\ log'[l].length = log[l].length
          /\ to # "Unlocking" => log'[l].failed = log[l].failed
        BY DEF MovesTo
    <2>3. /\ to \in {"LockingFile", "Bounding"} => log[l].put = 0 /\ log[l].length > 0
          /\ to # "Unlocking" => ~ log'[l].failed
        BY <2>2 DEF RecordUnderWay
    <2> QED
        BY <2>1, <2>2, <2>3 DEF RecordUnderWay, Runs
<1>4. CountersFollow'
    <2>1. \A k \in Logs : Countable(k)' = Countable(k)
        BY DEF Countable, MovesTo
    <2> QED
        BY <2>1, CountersKept
<1>5. LogWhole'
    <2>1. ASSUME NEW k \in Logs, fileLock = k, log[k].at = "Writing", troubles' = troubles
          PROVE  fileLock' = k /\ log'[k] = log[k] /\ begun'[k] = begun[k]
        BY <2>1, LogAssumption DEF MovesTo, LogTyped
    <2>2. troubles' \in 0..Troubles
        BY DEF LogTyped
    <2> QED
        BY <2>1, <2>2, FileKept
<1> QED
    BY <1>1, <1>2, <1>3, <1>4, <1>5

LEMMA RecordKept ==
    ASSUME TelemetryInv, NEW l \in Logs, NEW length \in Lengths,
           RecordToolCompletion(l, length)
    PROVE  TelemetryInv'
<1> USE DEF TelemetryInv, LogInv
<1>1. /\ log' \in [Logs -> LogState]
      /\ \A k \in Logs \ {l} : log'[k] = log[k]
      /\ log'[l].at = "Locking" /\ log'[l].length = length
      /\ log'[l].put = 0 /\ log'[l].failed = FALSE
    <2>1. length \in Nat /\ Begins(l, "event", length)
        BY LogAssumption DEF RecordToolCompletion
    <2> QED
        BY <2>1, BeginsAnew
<1>2. /\ Runs(l) /\ log[l].at = "Idle"
      /\ begun' = [begun EXCEPT ![l] = @ + 1]
      /\ UNCHANGED <<file, fileLock, countVars, alive, troubles>>
    BY DEF RecordToolCompletion
<1>3. LogTyped'
    BY <1>1, <1>2 DEF LogTyped, countVars
<1>4. FileOwned'
    BY <1>1, <1>2 DEF FileOwned, Runs
<1>5. RecordUnderWay'
    <2>1. length > 0
        BY LogAssumption
    <2>2. \A k \in Logs \ {l} : begun'[k] = begun[k] /\ log'[k] = log[k]
        BY <1>1, <1>2 DEF LogTyped
    <2> QED
        BY <1>1, <1>2, <2>1, <2>2 DEF RecordUnderWay, Runs
<1>6. CountersFollow'
    <2>1. \A k \in Logs : Countable(k)' = Countable(k)
        BY <1>1, <1>2 DEF Countable
    <2> QED
        BY <1>2, <2>1, CountersKept
<1>7. LogWhole'
    <2>1. \A k \in Logs : log[k].at = "Writing" =>
            fileLock' = fileLock /\ log'[k] = log[k] /\ begun'[k] = begun[k]
        BY <1>1, <1>2 DEF LogTyped
    <2>2. troubles' \in 0..Troubles
        BY <1>3 DEF LogTyped
    <2> QED
        BY <1>2, <2>1, <2>2, FileKept
<1> QED
    BY <1>3, <1>4, <1>5, <1>6, <1>7

LEMMA LockProcessKept ==
    ASSUME TelemetryInv, NEW l \in Logs, LockProcess(l)
    PROVE  TelemetryInv'
<1> USE DEF TelemetryInv, LogInv
<1>1. Steps(l, "Locking", "LockingFile")
        /\ UNCHANGED <<file, fileLock, begun, countVars, alive, troubles>>
    BY DEF LockProcess
<1>2. MovesTo(l, "LockingFile", log[l].failed) /\ log[l].at = "Locking"
    BY <1>1, StepMoves DEF Places
<1> QED
    BY <1>1, <1>2, MoveKept

LEMMA LockFileKept ==
    ASSUME TelemetryInv, NEW l \in Logs, LockFile(l)
    PROVE  TelemetryInv'
<1> USE DEF TelemetryInv, LogInv
<1>1. UNCHANGED <<file, begun, countVars, alive>> /\ log[l].at = "LockingFile"
    BY DEF LockFile, Steps
<1>3. CASE fileLock = NoLog /\ Steps(l, "LockingFile", "Bounding")
            /\ fileLock' = l /\ UNCHANGED troubles
    <2>1. MovesTo(l, "Bounding", log[l].failed)
        BY <1>3, StepMoves DEF Places
    <2> QED
        BY <1>1, <1>3, <2>1, MoveKept
<1>4. CASE Trouble(l) /\ UNCHANGED fileLock
    <2>1. MovesTo(l, "Unlocking", TRUE) /\ troubles' \in 0..Troubles
            /\ troubles' = troubles - 1
        BY <1>4, TroubleMoves
    <2> QED
        BY <1>1, <1>4, <2>1, MoveKept
<1> QED
    BY <1>3, <1>4 DEF LockFile

LEMMA BoundKept ==
    ASSUME TelemetryInv, NEW l \in Logs, Bound(l)
    PROVE  TelemetryInv'
<1> USE DEF TelemetryInv, LogInv
<1>1. /\ UNCHANGED <<fileLock, begun, countVars, alive>>
      /\ Runs(l) /\ log[l].at = "Bounding" /\ fileLock = l
    BY DEF Bound, FileOwned
<1>3. CASE log' = [log EXCEPT ![l].at = "Unlocking", ![l].failed = TRUE]
            /\ UNCHANGED <<file, troubles>>
    <2>1. MovesTo(l, "Unlocking", TRUE)
        BY <1>3, FailureMoves
    <2> QED
        BY <1>1, <1>3, <2>1, MoveKept
<1>4. CASE Trouble(l) /\ UNCHANGED file
    <2>1. MovesTo(l, "Unlocking", TRUE) /\ troubles' \in 0..Troubles
            /\ troubles' = troubles - 1
        BY <1>4, TroubleMoves
    <2> QED
        BY <1>1, <1>4, <2>1, MoveKept
<1>5. CASE /\ log[l].length <= MaxBytes
           /\ Steps(l, "Bounding", "Writing")
           /\ file' = IF Len(file) + log[l].length > MaxBytes THEN <<>> ELSE file
           /\ UNCHANGED troubles
    <2>1. MovesTo(l, "Writing", log[l].failed)
        BY <1>5, StepMoves DEF Places
    <2>2. \/ file' = <<>>
          \/ file' = file /\ Len(file) + log[l].length <= MaxBytes
        <3>1. Len(file) + log[l].length \in Int /\ MaxBytes \in Int
            BY LogAssumption DEF LogTyped, LogState
        <3> QED
            BY <1>5, <3>1
    <2>3. LogTyped'
        BY <1>1, <1>5, <2>1, <2>2 DEF LogTyped, MovesTo, countVars
    <2>4. FileOwned'
        BY <1>1, <2>1 DEF FileOwned, Runs, MovesTo
    <2>5. RecordUnderWay'
        <3>1. log[l].length \in Nat /\ log[l].length > 0 /\ log[l].put = 0
            BY <1>1 DEF RecordUnderWay, LogTyped, LogState
        <3>2. Len(file') + (log[l].length - 0) <= MaxBytes
            BY <1>5, <2>2, <3>1, LogAssumption
        <3>3. \A k \in Logs \ {l} : log'[k] = log[k] /\ begun'[k] = begun[k]
                /\ ~ (Runs(k) /\ log[k].at = "Writing")
            BY <1>1, <2>1 DEF MovesTo, FileOwned
        <3> QED
            BY <1>1, <2>1, <3>1, <3>2, <3>3 DEF RecordUnderWay, Runs, MovesTo
    <2>6. CountersFollow'
        <3>1. \A k \in Logs : Countable(k)' = Countable(k)
            BY <1>1, <2>1 DEF Countable, MovesTo
        <3> QED
            BY <1>1, <1>5, <3>1, CountersKept
    <2>7. CASE file' = <<>>
        <3>1. Loose' = {} /\ Len(file') = 0
            BY <2>7 DEF Loose
        <3>2. 0 <= MaxBytes /\ 0 <= Troubles - troubles'
            <4>1. troubles \in Int /\ troubles' = troubles /\ troubles <= Troubles
                    /\ Troubles \in Int
                BY <1>5, LogAssumption DEF LogTyped
            <4> QED
                BY <4>1, LogAssumption
        <3>3. Cardinality(Loose') = 0
            BY <3>1, FS_EmptySet
        <3> QED
            BY <2>3, <2>4, <2>5, <2>6, <3>1, <3>2, <3>3 DEF LogWhole
    <2>8. CASE file' = file
        <3>1. \A k \in Logs : fileLock = k /\ log[k].at = "Writing" =>
                fileLock' = k /\ log'[k] = log[k] /\ begun'[k] = begun[k]
            BY <1>1, <2>1 DEF MovesTo
        <3>2. troubles' \in 0..Troubles
            BY <2>3 DEF LogTyped
        <3>3. LogWhole'
            BY <1>5, <2>8, <3>1, <3>2, FileKept
        <3> QED
            BY <2>3, <2>4, <2>5, <2>6, <3>3
    <2> QED
        BY <2>2, <2>7, <2>8
<1>6. log[l].length > MaxBytes \/ log[l].length <= MaxBytes
    BY LogAssumption DEF LogTyped, LogState
<1> QED
    BY <1>1, <1>3, <1>4, <1>5, <1>6 DEF Bound

LEMMA Appended ==
    ASSUME NEW S, NEW s \in Seq(S), NEW t \in Seq(S)
    PROVE  /\ s \o t \in Seq(S) /\ Len(s \o t) = Len(s) + Len(t)
           /\ \A i \in 1..Len(s) : (s \o t)[i] = s[i]
           /\ \A i \in 1..Len(t) : (s \o t)[Len(s) + i] = t[i]
OBVIOUS

\* The end of the file after a write: the cells before it stay, those of the
\* record follow.
LEMMA WriteKeeps ==
    ASSUME TelemetryInv, NEW l \in Logs, Runs(l), log[l].at = "Writing",
           NEW last \in (log[l].put + 1)..log[l].length,
           file' = file \o Cells(l, log[l].put + 1, last),
           log' = [log EXCEPT ![l].put = last,
                        ![l].at = IF last = log[l].length THEN "Flushing" ELSE @],
           UNCHANGED <<fileLock, begun, countVars, alive, troubles>>
    PROVE  TelemetryInv'
<1> USE DEF TelemetryInv, LogInv
<1> DEFINE put == log[l].put
           length == log[l].length
           n == last - put
           written == Cells(l, put + 1, last)
           end == Len(file)
           cell(c) == [log |-> l, number |-> begun[l], cell |-> c, of |-> length]
<1>1. /\ put \in Nat /\ length \in Nat /\ last \in Nat /\ n \in Nat /\ n > 0
      /\ put + n = last /\ last <= length /\ end \in Nat
    <2>1. put \in Nat /\ length \in Nat /\ end \in Nat
        BY DEF LogTyped, LogState
    <2> HIDE DEF put, length, end
    <2>2. last \in (put + 1)..length
        BY DEF put, length
    <2> QED
        BY <2>1, <2>2
<1>2. /\ written \in Seq(Cell) /\ Len(written) = n
      /\ \A i \in 1..n : written[i] = cell(put + i)
    BY CellsWritten
<1> HIDE DEF written, n, end, cell
<1>3. /\ log' \in [Logs -> LogState]
      /\ \A k \in Logs \ {l} : log'[k] = log[k]
      /\ log'[l].at = IF last = length THEN "Flushing" ELSE "Writing"
      /\ log'[l].put = last /\ log'[l].length = length
      /\ log'[l].kind = log[l].kind /\ log'[l].failed = log[l].failed
    BY WritePuts
<1>4. fileLock = l /\ put < length /\ end + (length - put) <= MaxBytes
        /\ (put > 0 => end > 0 /\ file[end] = cell(put))
    BY DEF FileOwned, RecordUnderWay, end, cell
<1> HIDE DEF put, length
<1>5. /\ file' \in Seq(Cell) /\ Len(file') = end + n
      /\ \A i \in 1..end : file'[i] = file[i]
      /\ \A i \in 1..n : file'[end + i] = cell(put + i)
    <2>1. file' = file \o written
        BY DEF written, put
    <2>4. file \in Seq(Cell) /\ written \in Seq(Cell)
        BY <1>2 DEF LogTyped
    <2>2. /\ file \o written \in Seq(Cell) /\ Len(file \o written) = Len(file) + Len(written)
          /\ \A i \in 1..Len(file) : (file \o written)[i] = file[i]
          /\ \A i \in 1..Len(written) : (file \o written)[Len(file) + i] = written[i]
        BY <2>4, Appended
    <2>3. /\ file' \in Seq(Cell) /\ Len(file') = end + n
          /\ \A i \in 1..end : file'[i] = file[i]
          /\ \A i \in 1..n : file'[end + i] = written[i]
        BY <1>2, <2>1, <2>2 DEF end
    <2> QED
        BY <1>2, <2>3
<1> DEFINE size == Len(file')
<1>15. size = end + n
    BY <1>5
<1> HIDE DEF size
<1>6. LogTyped'
    BY <1>3, <1>5 DEF LogTyped, countVars
<1>7. FileOwned'
    BY <1>3, <1>4 DEF FileOwned, Runs
<1>8. RecordUnderWay'
    <2>1. \A k \in Logs \ {l} : log'[k] = log[k] /\ begun'[k] = begun[k]
            /\ ~ (Runs(k) /\ log[k].at = "Writing")
        BY <1>3, <1>4 DEF FileOwned
    <2>2. CASE last = length
        BY <1>3, <2>1, <2>2 DEF RecordUnderWay, Runs
    <2>3. CASE last # length
        <3>1. last < length /\ size + (length - last) <= MaxBytes /\ size > 0
            BY <1>1, <1>4, <1>15, <2>3, LogAssumption, SMTT(20)
        <3>2. file'[size] = cell(last)
            <4>1. n \in 1..n
                BY <1>1
            <4>2. file'[end + n] = cell(put + n)
                BY <1>5, <4>1
            <4> QED
                BY <1>1, <1>15, <4>2
        <3>3. file'[size] = [log |-> l, number |-> begun'[l],
                        cell |-> log'[l].put, of |-> log'[l].length]
            BY <1>3, <3>2 DEF cell
        <3>4. log'[l].at = "Writing"
            BY <1>3, <2>3
        <3> QED
            BY <1>3, <2>1, <3>1, <3>3, <3>4 DEF RecordUnderWay, Runs, size
    <2> QED
        BY <2>2, <2>3
<1>9. CountersFollow'
    <2>1. \A k \in Logs : Countable(k)' = Countable(k)
        BY <1>3 DEF Countable
    <2> QED
        BY <2>1, CountersKept
<1>10. size <= MaxBytes
    BY <1>1, <1>4, <1>15, LogAssumption
<1>11. \A c \in Nat : [cell(c) EXCEPT !.cell = @ - 1] = cell(c - 1)
        /\ [cell(c) EXCEPT !.cell = @ + 1] = cell(c + 1)
        /\ cell(c).cell = c /\ cell(c).of = length /\ cell(c).log = l
        /\ cell(c).number = begun[l]
    BY DEF cell
<1>12. ASSUME NEW i \in 1..size PROVE InPlace(i)'
    <2>1. CASE i \in 1..end
        <3>1. InPlace(i)
            BY <2>1 DEF LogWhole, end
        <3>2. file'[i] = file[i] /\ (i > 1 => file'[i - 1] = file[i - 1])
            <4>1. i > 1 => i - 1 \in 1..end
                BY <1>1, <2>1
            <4> QED
                BY <1>5, <2>1, <4>1
        <3> QED
            BY <3>1, <3>2 DEF InPlace
    <2>2. CASE i \notin 1..end
        <3> DEFINE j == i - end
        <3>1. j \in 1..n /\ i = end + j /\ put + j \in Nat
            BY <1>1, <1>15, <2>2
        <3> HIDE DEF j
        <3>5. file'[i] = cell(put + j)
            BY <1>5, <3>1
        <3>2. CASE j > 1
            <4>1. j - 1 \in 1..n /\ i - 1 = end + (j - 1) /\ put + j \in Nat
                    /\ put + (j - 1) = (put + j) - 1 /\ i > 1
                BY <1>1, <3>1, <3>2
            <4>2. file'[i - 1] = cell((put + j) - 1)
                BY <1>5, <4>1
            <4> QED
                BY <1>11, <3>1, <3>5, <4>1, <4>2 DEF InPlace
        <3>3. CASE j = 1 /\ put = 0
            <4>1. put + j = 1
                BY <3>1, <3>3
            <4>2. file'[i].cell = put + j
                BY <1>11, <3>1, <3>5
            <4> QED
                BY <4>1, <4>2 DEF InPlace
        <3>4. CASE j = 1 /\ put > 0
            <4>1. end > 0
                BY <1>4, <3>4
            <4>4. file[end] = cell(put)
                BY <1>4, <3>4
            <4>2. i - 1 = end /\ end \in 1..end /\ i > 1 /\ (put + j) - 1 = put
                <5>1. {i, j, end, put} \subseteq Int
                    BY <1>1, <3>1
                <5> QED
                    BY <3>1, <3>4, <4>1, <5>1, SMTT(20)
            <4>3. file'[i - 1] = cell((put + j) - 1)
                BY <1>5, <4>4, <4>2
            <4> QED
                BY <1>11, <3>1, <3>5, <4>2, <4>3 DEF InPlace
        <3> QED
            BY <1>1, <3>1, <3>2, <3>3, <3>4
    <2> QED
        BY <2>1, <2>2
<1>13. Loose' \subseteq Loose
    <2> SUFFICES ASSUME NEW i \in 1..size, Torn(i)', ~ UnderWay(i)' PROVE i \in Loose
        BY DEF Loose, size
    <2>1. Torn(i)' /\ ~ UnderWay(i)'
        OBVIOUS
    <2>2. CASE i \in 1..end /\ i # end
        <3>1. i + 1 \in 1..end /\ i # size
            BY <1>1, <1>15, <2>2
        <3>2. file'[i] = file[i] /\ file'[i + 1] = file[i + 1]
            BY <1>5, <2>2, <3>1
        <3>3. Torn(i) /\ ~ UnderWay(i)
            BY <2>1, <2>2, <3>1, <3>2 DEF Torn, UnderWay, end, size
        <3> QED
            BY <2>2, <3>3 DEF Loose, end
    <2>3. CASE i \in 1..end /\ i = end /\ put > 0
        <3>1. 1 \in 1..n /\ i # size
            BY <1>1, <1>15, <2>3
        <3>2. file'[i] = cell(put) /\ file'[i + 1] = cell(put + 1)
            BY <1>4, <1>5, <2>3, <3>1
        <3>3. cell(put + 1) = [cell(put) EXCEPT !.cell = @ + 1]
            BY <1>1, <1>11
        <3> QED
            BY <2>1, <3>1, <3>2, <3>3 DEF Torn, size
    <2>4. CASE i \in 1..end /\ i = end /\ put = 0
        <3>1. file'[i] = file[i] /\ file[i] \in Cell
            BY <1>1, <1>5, <2>4 DEF end
        <3>2. Torn(i)
            BY <2>1, <2>4, <3>1 DEF Torn, end
        <3>3. ~ UnderWay(i)
            <4>1. file[i].cell # 0
                BY <3>1 DEF Cell
            <4> QED
                BY <1>4, <2>4, <4>1 DEF UnderWay, put
        <3> QED
            BY <2>4, <3>2, <3>3 DEF Loose, end
    <2>5. CASE i \notin 1..end
        <3> DEFINE j == i - end
        <3>1. j \in 1..n /\ i = end + j /\ put + j \in Nat
            BY <1>1, <1>15, <2>5
        <3> HIDE DEF j
        <3>4. file'[i] = cell(put + j)
            BY <1>5, <3>1
        <3>2. CASE j < n
            <4>1. j + 1 \in 1..n /\ i + 1 = end + (j + 1) /\ put + (j + 1) = (put + j) + 1
                    /\ i # size
                <5>1. {i, j, end, put, n, size} \subseteq Int
                    BY <1>1, <1>15, <3>1
                <5> QED
                    BY <1>15, <3>1, <3>2, <5>1
            <4>2. file'[i + 1] = cell((put + j) + 1)
                BY <1>5, <4>1
            <4> QED
                BY <1>11, <2>1, <3>1, <3>4, <4>1, <4>2 DEF Torn, size
        <3>3. CASE j = n
            <4>1. file'[i] = cell(last) /\ i = size
                BY <1>1, <1>15, <3>1, <3>3, <3>4
            <4>2. file'[i].cell = last /\ file'[i].of = length /\ file'[i].log = l
                    /\ file'[i].number = begun[l]
                BY <1>1, <1>11, <4>1
            <4>3. last # length
                <5>1. file'[i].cell < file'[i].of
                    BY <2>1 DEF Torn
                <5>2. last < length
                    BY <4>2, <5>1
                <5> QED
                    BY <1>1, <5>2
            <4>4. UnderWay(i)'
                BY <1>3, <1>4, <4>1, <4>2, <4>3 DEF UnderWay, size
            <4> QED
                BY <2>1, <4>4
        <3> QED
            BY <1>1, <3>1, <3>2, <3>3
    <2> QED
        BY <1>1, <2>2, <2>3, <2>4, <2>5
<1>14. LogWhole'
    <2>1. IsFiniteSet(Loose) /\ Troubles - troubles \in Int
            /\ Cardinality(Loose) <= Troubles - troubles
        BY LooseFinite, LogAssumption DEF LogWhole, LogTyped
    <2>2. Cardinality(Loose') <= Troubles - troubles
        BY <1>13, <2>1, LooseCounted
    <2> QED
        BY <1>10, <1>12, <2>2 DEF LogWhole, size
<1> QED
    BY <1>6, <1>7, <1>8, <1>9, <1>14

LEMMA WriteKept ==
    ASSUME TelemetryInv, NEW l \in Logs, Write(l)
    PROVE  TelemetryInv'
<1> USE DEF TelemetryInv, LogInv
<1>1. /\ UNCHANGED <<fileLock, begun, countVars, alive>>
      /\ Runs(l) /\ log[l].at = "Writing" /\ fileLock = l
    BY DEF Write, FileOwned
<1>2. CASE Trouble(l) /\ UNCHANGED file
    <2>1. MovesTo(l, "Unlocking", TRUE) /\ troubles' \in 0..Troubles
            /\ troubles' = troubles - 1
        BY <1>2, TroubleMoves
    <2> QED
        BY <1>1, <1>2, <2>1, MoveKept
<1>3. ASSUME NEW last \in (log[l].put + 1)..log[l].length,
             file' = file \o Cells(l, log[l].put + 1, last),
             log' = [log EXCEPT ![l].put = last,
                        ![l].at = IF last = log[l].length THEN "Flushing" ELSE @],
             UNCHANGED troubles
      PROVE  TelemetryInv'
    BY <1>1, <1>3, WriteKeeps
<1> QED
    BY <1>2, <1>3 DEF Write

LEMMA FlushKept ==
    ASSUME TelemetryInv, NEW l \in Logs, Flush(l)
    PROVE  TelemetryInv'
<1> USE DEF TelemetryInv, LogInv
<1>1. /\ UNCHANGED <<file, fileLock, begun, emitted, counted, alive>>
      /\ log[l].at = "Flushing"
      /\ whole' = IF log[l].kind = "event" THEN [whole EXCEPT ![l] = @ + 1] ELSE whole
    BY DEF Flush, Steps
<1>2. ASSUME NEW failed \in BOOLEAN, MovesTo(l, "Unlocking", failed),
             \/ ~ log[l].failed /\ ~ failed /\ troubles' = troubles
             \/ failed /\ troubles' = troubles - 1 /\ troubles' \in 0..Troubles
      PROVE  TelemetryInv'
    <2>1. LogTyped'
        BY <1>1, <1>2, SMTT(20) DEF LogTyped, MovesTo
    <2>2. FileOwned'
        BY <1>1, <1>2 DEF FileOwned, Runs, MovesTo
    <2>3. RecordUnderWay'
        <3>1. \A k \in Logs \ {l} : log'[k] = log[k] /\ begun'[k] = begun[k]
            BY <1>1, <1>2 DEF MovesTo
        <3>2. log'[l].at = "Unlocking"
            BY <1>2 DEF MovesTo
        <3> QED
            BY <1>1, <3>1, <3>2 DEF RecordUnderWay, Runs
    <2>4. CountersFollow'
        <3> SUFFICES ASSUME NEW k \in Logs
                     PROVE  /\ counted[k] <= emitted[k]
                            /\ emitted[k] + Countable(k)' <= whole'[k]
                            /\ whole'[k] <= emitted[k] + Countable(k)' + (Troubles - troubles')
            BY <1>1 DEF CountersFollow
        <3>1. /\ counted[k] <= emitted[k] /\ emitted[k] + Countable(k) <= whole[k]
              /\ whole[k] <= emitted[k] + Countable(k) + (Troubles - troubles)
            BY DEF CountersFollow
        <3>2. /\ {troubles, troubles', Troubles} \subseteq Int
              /\ {whole[k], emitted[k], whole'[k], Countable(k), Countable(k)'} \subseteq Int
            BY <2>1, LogAssumption DEF LogTyped, Countable
        <3>3. CASE k = l
            <4>1. Countable(l) = 0
                BY <1>1 DEF Countable
            <4>2. Countable(l)' = IF log[l].kind = "event" /\ ~ failed THEN 1 ELSE 0
                BY <1>2 DEF Countable, MovesTo
            <4>3. whole'[l] = IF log[l].kind = "event" THEN whole[l] + 1 ELSE whole[l]
                BY <1>1 DEF LogTyped
            <4> QED
                BY <1>2, <3>1, <3>2, <3>3, <4>1, <4>2, <4>3
        <3>4. CASE k # l
            <4>1. Countable(k)' = Countable(k) /\ whole'[k] = whole[k]
                BY <1>1, <1>2, <3>4 DEF Countable, MovesTo, LogTyped
            <4> QED
                BY <1>2, <3>1, <3>2, <4>1
        <3> QED
            BY <3>3, <3>4
    <2>5. LogWhole'
        <3>1. troubles' \in 0..Troubles
            BY <2>1 DEF LogTyped
        <3>2. \A k \in Logs : fileLock = k /\ log[k].at = "Writing" =>
                    fileLock' = k /\ log'[k] = log[k] /\ begun'[k] = begun[k]
            BY <1>1, <1>2 DEF MovesTo
        <3> QED
            BY <1>1, <1>2, <3>1, <3>2, FileKept
    <2> QED
        BY <2>1, <2>2, <2>3, <2>4, <2>5
<1>3. ~ log[l].failed
    BY <1>1 DEF RecordUnderWay
<1>4. CASE Steps(l, "Flushing", "Unlocking") /\ UNCHANGED troubles
    <2>1. MovesTo(l, "Unlocking", log[l].failed)
        BY <1>4, StepMoves DEF Places
    <2>2. log[l].failed = FALSE
        BY <1>3 DEF LogTyped, LogState
    <2>3. MovesTo(l, "Unlocking", FALSE)
        BY <2>1, <2>2
    <2> QED
        BY <1>2, <1>3, <1>4, <2>3
<1>5. CASE Trouble(l)
    <2>1. MovesTo(l, "Unlocking", TRUE) /\ troubles' \in 0..Troubles
            /\ troubles' = troubles - 1
        BY <1>5, TroubleMoves
    <2> QED
        BY <1>2, <2>1
<1> QED
    BY <1>4, <1>5 DEF Flush

LEMMA KilledKept ==
    ASSUME TelemetryInv, NEW p, Killed(p)
    PROVE  TelemetryInv'
<1> USE DEF TelemetryInv, LogInv
<1>1. /\ troubles' = troubles - 1 /\ troubles > 0 /\ alive' = alive \ {p}
      /\ fileLock' = IF fileLock # NoLog /\ ProcessOf[fileLock] = p THEN NoLog ELSE fileLock
      /\ UNCHANGED <<file, log, begun, countVars>>
    BY DEF Killed
<1>2. troubles' \in 0..Troubles
    BY <1>1, LogAssumption DEF LogTyped
<1>3. \A l \in Logs : Runs(l)' => Runs(l) /\ ProcessOf[l] # p
    BY <1>1 DEF Runs
<1>4. LogTyped'
    BY <1>1, <1>2 DEF LogTyped, countVars
<1>5. FileOwned'
    BY <1>1, <1>3 DEF FileOwned
<1>6. RecordUnderWay'
    BY <1>1, <1>3 DEF RecordUnderWay
<1>7. CountersFollow'
    BY <1>1, CountersKept DEF Countable
<1>8. LogWhole'
    BY <1>1, <1>2, FileKept
<1> QED
    BY <1>4, <1>5, <1>6, <1>7, <1>8

LEMMA ReturnKept ==
    ASSUME TelemetryInv, NEW l \in Logs, Return(l)
    PROVE  TelemetryInv'
<1> USE DEF TelemetryInv, LogInv
<1>1. /\ log[l].at = "Unlocking" /\ Runs(l)
      /\ fileLock' = IF fileLock = l THEN NoLog ELSE fileLock
      /\ UNCHANGED <<file, whole, alive, troubles>>
    BY DEF Return, Unlocks
\* Whatever becomes of the log, it begins anew or rests.
<1>2. ASSUME log' \in [Logs -> LogState], \A k \in Logs \ {l} : log'[k] = log[k],
             log'[l].at \in {"Idle", "Locking"}, log'[l].put = 0, ~ log'[l].failed,
             log'[l].at = "Locking" => log'[l].length > 0,
             begun' \in [Logs -> Nat], \A k \in Logs \ {l} : begun'[k] = begun[k],
             emitted' \in [Logs -> Nat], counted' \in [Logs -> Nat],
             \A k \in Logs \ {l} : emitted'[k] = emitted[k] /\ counted'[k] = counted[k],
             emitted'[l] = emitted[l] + Countable(l),
             counted'[l] <= counted[l] + Countable(l)
      PROVE  TelemetryInv'
    <2>1. LogTyped'
        BY <1>1, <1>2 DEF LogTyped
    <2>2. FileOwned'
        <3>1. ASSUME NEW k \in Logs \ {l}, Runs(k),
                     log[k].at \in {"Bounding", "Writing", "Flushing"}
              PROVE  fileLock' = k
            BY <1>1, <3>1 DEF FileOwned
        <3> QED
            BY <1>1, <1>2, <3>1 DEF FileOwned, Runs
    <2>3. RecordUnderWay'
        <3>1. \A k \in Logs \ {l} : log'[k] = log[k] /\ begun'[k] = begun[k]
            BY <1>2
        <3>2. /\ log'[l].at # "Writing" /\ log'[l].at # "Unlocking"
              /\ log'[l].put = 0 /\ ~ log'[l].failed
              /\ log'[l].at \in {"Locking", "LockingFile", "Bounding"} => log'[l].length > 0
            BY <1>2
        <3>3. UNCHANGED <<file, alive>>
            BY <1>1
        <3> QED
            BY <3>1, <3>2, <3>3 DEF RecordUnderWay, Runs
    <2>4. CountersFollow'
        <3> SUFFICES ASSUME NEW k \in Logs
                     PROVE  /\ counted'[k] <= emitted'[k]
                            /\ emitted'[k] + Countable(k)' <= whole[k]
                            /\ whole[k] <= emitted'[k] + Countable(k)' + (Troubles - troubles)
            BY <1>1 DEF CountersFollow
        <3>1. /\ counted[k] <= emitted[k] /\ emitted[k] + Countable(k) <= whole[k]
              /\ whole[k] <= emitted[k] + Countable(k) + (Troubles - troubles)
            BY DEF CountersFollow
        <3>2. /\ {troubles, Troubles, whole[k], emitted[k], counted[k]} \subseteq Int
              /\ {emitted'[k], counted'[k], Countable(k), Countable(k)'} \subseteq Int
            BY <2>1, LogAssumption DEF LogTyped, Countable
        <3>3. CASE k = l
            <4>1. Countable(l)' = 0
                BY <1>2 DEF Countable
            <4> QED
                BY <1>2, <3>1, <3>2, <3>3, <4>1
        <3>4. CASE k # l
            <4>1. /\ Countable(k)' = Countable(k)
                  /\ emitted'[k] = emitted[k] /\ counted'[k] = counted[k]
                BY <1>2, <3>4 DEF Countable
            <4> QED
                BY <3>1, <3>2, <4>1
        <3> QED
            BY <3>3, <3>4
    <2>5. LogWhole'
        <3>1. troubles' \in 0..Troubles
            BY <2>1 DEF LogTyped
        <3>2. \A k \in Logs : fileLock = k /\ log[k].at = "Writing" =>
                    fileLock' = k /\ log'[k] = log[k] /\ begun'[k] = begun[k]
            BY <1>1, <1>2
        <3> QED
            BY <1>1, <3>1, <3>2, FileKept
    <2> QED
        BY <2>1, <2>2, <2>3, <2>4, <2>5
<1>3. CASE ~ (log[l].kind = "event" /\ ~ log[l].failed)
    <2>1. log' = [log EXCEPT ![l] = Resting] /\ UNCHANGED <<begun, emitted, counted>>
        BY <1>3 DEF Return
    <2>2. /\ log' \in [Logs -> LogState] /\ \A k \in Logs \ {l} : log'[k] = log[k]
          /\ log'[l].at = "Idle" /\ log'[l].put = 0 /\ log'[l].failed = FALSE
        BY <2>1, RestsAgain
    <2>3. Countable(l) = 0
        BY <1>3 DEF Countable
    <2>4. emitted[l] + 0 = emitted[l] /\ counted[l] <= counted[l] + 0
        BY DEF LogTyped
    <2> QED
        BY <1>2, <2>1, <2>2, <2>3, <2>4 DEF LogTyped
<1>4. CASE log[l].kind = "event" /\ ~ log[l].failed
    <2>1. PICK hinted \in {0, 1} : /\ emitted' = [emitted EXCEPT ![l] = @ + 1]
                                  /\ counted' = [counted EXCEPT ![l] = @ + hinted]
                                  /\ Follows(l)
        BY <1>4 DEF Return
    <2>2. Countable(l) = 1
        BY <1>1, <1>4 DEF Countable
    <2>3. /\ emitted' \in [Logs -> Nat] /\ counted' \in [Logs -> Nat]
          /\ \A k \in Logs \ {l} : emitted'[k] = emitted[k] /\ counted'[k] = counted[k]
          /\ emitted'[l] = emitted[l] + 1 /\ counted'[l] = counted[l] + hinted
        BY <2>1 DEF LogTyped
    <2>4. counted'[l] <= counted[l] + 1
        BY <2>3 DEF LogTyped
    <2>5. CASE /\ Begins(l, "snapshot", SnapshotLength)
               /\ begun' = [begun EXCEPT ![l] = @ + 1]
        <3>1. SnapshotLength \in Nat /\ SnapshotLength > 0
            BY LogAssumption
        <3>2. /\ log' \in [Logs -> LogState] /\ \A k \in Logs \ {l} : log'[k] = log[k]
              /\ log'[l].at = "Locking" /\ log'[l].length = SnapshotLength
              /\ log'[l].put = 0 /\ log'[l].failed = FALSE
            BY <2>5, <3>1, BeginsAnew
        <3>3. begun' \in [Logs -> Nat] /\ \A k \in Logs \ {l} : begun'[k] = begun[k]
            BY <2>5 DEF LogTyped
        <3> QED
            BY <1>2, <2>2, <2>3, <2>4, <3>1, <3>2, <3>3
    <2>6. CASE log' = [log EXCEPT ![l] = Resting] /\ UNCHANGED begun
        <3>1. /\ log' \in [Logs -> LogState] /\ \A k \in Logs \ {l} : log'[k] = log[k]
              /\ log'[l].at = "Idle" /\ log'[l].put = 0 /\ log'[l].failed = FALSE
            BY <2>6, RestsAgain
        <3> QED
            BY <1>2, <2>2, <2>3, <2>4, <2>6, <3>1 DEF LogTyped
    <2> QED
        BY <2>1, <2>5, <2>6 DEF Follows
<1> QED
    BY <1>3, <1>4

-----------------------------------------------------------------------------
\* The properties of the telemetry log, over the reachable states.
LEMMA LogBegins == LogInit => TelemetryInv
<1> SUFFICES ASSUME LogInit PROVE TelemetryInv
    OBVIOUS
<1> USE DEF LogInit
<1>1. LogTyped /\ FileOwned /\ RecordUnderWay
    BY LogAssumption DEF LogTyped, FileOwned, RecordUnderWay, LogState, Resting, Places
<1>2. Len(file) = 0 /\ Loose = {} /\ Cardinality(Loose) = 0
    BY FS_EmptySet DEF Loose
<1>3. LogWhole
    BY <1>2, LogAssumption DEF LogWhole
<1>4. CountersFollow
    <2>1. \A l \in Logs : Countable(l) = 0
        BY DEF Countable, Resting
    <2> QED
        BY <2>1, LogAssumption DEF CountersFollow
<1> QED
    BY <1>1, <1>3, <1>4 DEF TelemetryInv, LogInv

LEMMA LogSteps == TelemetryInv /\ [LogNext]_logVars => TelemetryInv'
<1> SUFFICES ASSUME TelemetryInv, [LogNext]_logVars PROVE TelemetryInv'
    OBVIOUS
<1>1. ASSUME NEW l \in Logs, NEW length \in Lengths, RecordToolCompletion(l, length)
      PROVE  TelemetryInv'
    BY <1>1, RecordKept
<1>2. ASSUME NEW l \in Logs, LockProcess(l) PROVE TelemetryInv'
    BY <1>2, LockProcessKept
<1>3. ASSUME NEW l \in Logs, LockFile(l) PROVE TelemetryInv'
    BY <1>3, LockFileKept
<1>4. ASSUME NEW l \in Logs, Bound(l) PROVE TelemetryInv'
    BY <1>4, BoundKept
<1>5. ASSUME NEW l \in Logs, Write(l) PROVE TelemetryInv'
    BY <1>5, WriteKept
<1>6. ASSUME NEW l \in Logs, Flush(l) PROVE TelemetryInv'
    BY <1>6, FlushKept
<1>7. ASSUME NEW l \in Logs, Return(l) PROVE TelemetryInv'
    BY <1>7, ReturnKept
<1>8. ASSUME NEW p \in Processes, Killed(p) PROVE TelemetryInv'
    BY <1>8, KilledKept
<1>9. CASE UNCHANGED logVars
    BY <1>9 DEF logVars, countVars, TelemetryInv, LogInv, LogTyped, FileOwned, RecordUnderWay,
        LogWhole, Loose, Torn, UnderWay, InPlace, CountersFollow, Countable, Runs
<1> QED
    BY <1>1, <1>2, <1>3, <1>4, <1>5, <1>6, <1>7, <1>8, <1>9 DEF LogNext

THEOREM LogInvariant == LogSpec => []TelemetryInv
BY LogBegins, LogSteps, PTL DEF LogSpec

\* The telemetry file never passes its bound, the records of concurrent writers
\* stand in it one after the other, and at most as many are cut short as
\* operations failed and processes were killed (telemetry.rs, write_json_line
\* and bounded_append).
THEOREM RecordsBounded == LogSpec => []BoundedRecords
<1>1. TelemetryInv => BoundedRecords
    BY DEF TelemetryInv, LogInv, LogWhole, Loose, BoundedRecords
<1> QED
    BY <1>1, LogInvariant, PTL

\* An instance counts an event only when its record is in the file, and leaves
\* out none but the one it is about to count and those for which an operation
\* failed after the write (telemetry.rs, record_tool_completion).
THEOREM CountsWritten == LogSpec => []CountedAreWritten
<1>1. TelemetryInv => CountedAreWritten
    <2> SUFFICES ASSUME TelemetryInv, NEW l \in Logs,
                        NEW counting, counting = IF log[l].at = "Unlocking" /\ log[l].kind = "event"
                                                 THEN 1 ELSE 0
                 PROVE  /\ counted[l] <= emitted[l] /\ emitted[l] <= whole[l]
                        /\ whole[l] <= emitted[l] + counting + (Troubles - troubles)
        BY DEF CountedAreWritten
    <2>1. /\ counted[l] <= emitted[l] /\ emitted[l] + Countable(l) <= whole[l]
          /\ whole[l] <= emitted[l] + Countable(l) + (Troubles - troubles)
        BY DEF TelemetryInv, CountersFollow
    <2>2. Countable(l) \in {0, 1} /\ Countable(l) <= counting /\ counting \in {0, 1}
        BY DEF Countable
    <2>3. {troubles, Troubles, whole[l], emitted[l], counted[l]} \subseteq Int
        BY LogAssumption DEF TelemetryInv, LogInv, LogTyped
    <2> QED
        BY <2>1, <2>2, <2>3
<1> QED
    BY <1>1, LogInvariant, PTL

-----------------------------------------------------------------------------
(* The watch for a successor: why what it reports ready is whole.  A file  *)
(* that is written to grows, so that a candidate that was seen before the  *)
(* last write is shorter than the file, and one that was seen after it is  *)
(* no older than the pause since.                                          *)

File == [inode : Nat, length : 0..Pieces]

\* No inode comes back but that of the executable that was started.
PathKnown ==
    /\ path # Nothing => path \in File /\ path.inode > changes
    /\ quiet \in Nat /\ changes \in 0..Changes
    /\ path # Nothing /\ path.length < Pieces => quiet <= MaxPause

CandidateKnown ==
    settling # Nothing =>
        /\ settling \in [fingerprint : File, age : Nat]
        /\ settling.fingerprint.inode > changes
        /\ path # Nothing /\ path.inode = settling.fingerprint.inode
                => settling.fingerprint.length <= path.length
        /\ path # Nothing /\ path = settling.fingerprint /\ path.length < Pieces
                => settling.age <= quiet

\* What is armed of a channel is the release that runs, or has been verified.
ArmedVerified ==
    /\ channel \in Releases
    /\ mode = "managed" => successor \in {Nothing, Incumbent} \cup published

WatchInv == PathKnown /\ CandidateKnown /\ ArmedVerified

LEMMA OwnIsFile == Own \in File /\ Own.inode = Changes + 1 /\ Own.length = Pieces
BY WatchAssumption DEF Own, File

LEMMA WatchBegins == WatchInit => WatchInv
<1> SUFFICES ASSUME WatchInit PROVE WatchInv
    OBVIOUS
<1>1. path = Own /\ quiet = 0 /\ changes = Changes /\ settling = Nothing
        /\ channel = Incumbent /\ successor = Nothing
    BY DEF WatchInit
<1>2. PathKnown
    BY <1>1, OwnIsFile, WatchAssumption DEF PathKnown
<1> QED
    BY <1>1, <1>2, WatchAssumption DEF WatchInv, CandidateKnown, ArmedVerified

\* Another file at the path has an inode that no candidate has.
LEMMA PathChangeKept == WatchInv /\ PathChanges => WatchInv'
<1> SUFFICES ASSUME WatchInv, PathChanges PROVE WatchInv'
    OBVIOUS
<1>1. /\ changes > 0 /\ changes' = changes - 1 /\ quiet' = 0
      /\ path' \in {Nothing, Own} \cup [inode : {changes}, length : {0, Pieces}]
      /\ UNCHANGED <<mode, settling, successor, channel, published>>
    BY DEF PathChanges, Changed
<1>2. changes \in Nat /\ changes' \in Nat /\ changes <= Changes /\ changes' < changes
        /\ changes' <= Changes /\ Changes \in Nat /\ Pieces \in Nat
    BY <1>1, WatchAssumption DEF WatchInv, PathKnown
<1>3. path' # Nothing =>
        /\ path' \in File /\ path'.inode > changes'
        /\ path'.inode = changes \/ path'.length = Pieces
    <2>1. CASE path' = Own
        BY <1>2, <2>1, OwnIsFile
    <2>2. CASE path' \in [inode : {changes}, length : {0, Pieces}]
        BY <1>2, <2>2 DEF File
    <2> QED
        BY <1>1, <2>1, <2>2
<1>4. PathKnown'
    BY <1>1, <1>2, <1>3, WatchAssumption DEF PathKnown
<1>5. CandidateKnown'
    <2> SUFFICES ASSUME settling # Nothing
                 PROVE  /\ settling.fingerprint.inode > changes'
                        /\ path' # Nothing /\ path'.inode = settling.fingerprint.inode
                                => settling.fingerprint.length <= path'.length
                        /\ path' # Nothing /\ path' = settling.fingerprint
                                /\ path'.length < Pieces => settling.age <= quiet'
        BY <1>1 DEF CandidateKnown, WatchInv
    <2>1. /\ settling.fingerprint \in File
          /\ settling.fingerprint.inode > changes
        BY DEF CandidateKnown, WatchInv
    <2>2. /\ settling.fingerprint.inode \in Nat /\ settling.fingerprint.length \in 0..Pieces
        BY <2>1 DEF File
    <2>3. settling.fingerprint.inode > changes'
        BY <1>2, <2>1, <2>2
    <2>4. ASSUME path' # Nothing, path'.inode = settling.fingerprint.inode
          PROVE  path'.length = Pieces
        <3>1. path'.inode # changes
            BY <1>2, <2>1, <2>2, <2>4
        <3> QED
            BY <1>3, <2>4, <3>1
    <2>5. path' # Nothing /\ path'.inode = settling.fingerprint.inode
                => settling.fingerprint.length <= path'.length
        BY <1>2, <2>2, <2>4
    <2> QED
        BY <1>2, <2>2, <2>3, <2>4, <2>5
<1> QED
    BY <1>1, <1>4, <1>5 DEF WatchInv, ArmedVerified

\* A file that grows is longer than any candidate it was.
LEMMA GrowthKept == WatchInv /\ FileGrows => WatchInv'
<1> SUFFICES ASSUME WatchInv, FileGrows PROVE WatchInv'
    OBVIOUS
<1> DEFINE longer == path.length + 1
<1>1. /\ path # Nothing /\ path.length # Pieces /\ quiet' = 0
      /\ path' = [path EXCEPT !.length = @ + 1]
      /\ UNCHANGED <<mode, channel, published, changes, settling, successor>>
    BY DEF FileGrows, Complete
<1>2. /\ path \in File /\ path.inode > changes /\ changes \in 0..Changes
      /\ path.inode \in Nat /\ path.length \in 0..Pieces
    BY <1>1 DEF WatchInv, PathKnown, File
<1>3. longer \in 0..Pieces /\ path.length < longer
    BY <1>1, <1>2, WatchAssumption
<1> HIDE DEF longer
<1>4. path' \in File /\ path'.inode = path.inode /\ path'.length = longer
    BY <1>1, <1>2, <1>3 DEF File, longer
<1>5. PathKnown'
    BY <1>1, <1>2, <1>4, WatchAssumption DEF PathKnown
<1>6. CandidateKnown'
    <2> SUFFICES ASSUME settling # Nothing
                 PROVE  /\ path'.inode = settling.fingerprint.inode
                                => settling.fingerprint.length <= path'.length
                        /\ path' # settling.fingerprint
        BY <1>1 DEF CandidateKnown, WatchInv
    <2>1. /\ settling.fingerprint.length \in 0..Pieces
          /\ path.inode = settling.fingerprint.inode
                => settling.fingerprint.length <= path.length
        BY <1>1 DEF CandidateKnown, WatchInv, File
    <2>2. path.inode = settling.fingerprint.inode => settling.fingerprint.length < longer
        BY <1>2, <1>3, <2>1, WatchAssumption
    <2>3. path'.inode = settling.fingerprint.inode => settling.fingerprint.length < path'.length
        BY <1>4, <2>2
    <2>4. {settling.fingerprint.length, path'.length} \subseteq Int
        BY <1>3, <1>4, <2>1, WatchAssumption
    <2> QED
        BY <2>3, <2>4
<1> QED
    BY <1>1, <1>5, <1>6 DEF WatchInv, ArmedVerified

LEMMA ChannelChangeKept == WatchInv /\ ChannelChanges => WatchInv'
<1> SUFFICES ASSUME WatchInv, ChannelChanges PROVE WatchInv'
    OBVIOUS
<1>1. /\ changes > 0 /\ changes' = changes - 1
      /\ UNCHANGED <<mode, path, quiet, settling, successor>>
      /\ channel' \in Releases \cup {channel} /\ published \subseteq published'
    BY DEF ChannelChanges, Changed
<1>2. changes' \in 0..Changes /\ changes' < changes
    BY <1>1, WatchAssumption DEF WatchInv, PathKnown
<1>3. \A f \in File : f.inode > changes => f.inode > changes'
    BY <1>2, WatchAssumption DEF WatchInv, PathKnown, File
<1>4. PathKnown'
    BY <1>1, <1>2, <1>3 DEF WatchInv, PathKnown
<1>5. CandidateKnown'
    <2>1. settling # Nothing => settling.fingerprint \in File
        BY DEF WatchInv, CandidateKnown
    <2> QED
        BY <1>1, <1>3, <2>1 DEF WatchInv, CandidateKnown
<1> QED
    BY <1>1, <1>4, <1>5 DEF WatchInv, ArmedVerified

LEMMA TickKept == WatchInv /\ Tick => WatchInv'
<1> SUFFICES ASSUME WatchInv, Tick PROVE WatchInv'
    OBVIOUS
<1>1. /\ Complete \/ path = Nothing \/ quiet < MaxPause
      /\ quiet' = IF Complete \/ path = Nothing THEN 0 ELSE quiet + 1
      /\ settling' = IF settling = Nothing \/ settling.age = SettleTime THEN settling
                     ELSE [settling EXCEPT !.age = @ + 1]
      /\ UNCHANGED <<mode, path, channel, published, changes, successor>>
    BY DEF Tick
<1>2. quiet \in Nat /\ quiet' \in Nat
    BY <1>1 DEF WatchInv, PathKnown
<1>3. path # Nothing /\ path.length < Pieces => quiet' = quiet + 1 /\ quiet' <= MaxPause
    <2> SUFFICES ASSUME path # Nothing, path.length < Pieces
                 PROVE  quiet' = quiet + 1 /\ quiet' <= MaxPause
        OBVIOUS
    <2>1. ~ Complete
        <3>1. path.length \in Int /\ Pieces \in Int
            BY WatchAssumption DEF WatchInv, PathKnown, File
        <3> QED
            BY <3>1 DEF Complete
    <2> QED
        BY <1>1, <1>2, <2>1, WatchAssumption
<1>4. PathKnown'
    BY <1>1, <1>2, <1>3 DEF WatchInv, PathKnown
<1>5. CandidateKnown'
    <2> SUFFICES ASSUME settling' # Nothing PROVE CandidateKnown'
        BY DEF CandidateKnown
    <2>1. CASE settling' = settling
        BY <1>1, <1>2, <1>3, <2>1 DEF WatchInv, CandidateKnown
    <2>2. CASE settling # Nothing /\ settling' = [settling EXCEPT !.age = @ + 1]
        <3>1. /\ settling \in [fingerprint : File, age : Nat]
              /\ settling.fingerprint.inode > changes
              /\ path # Nothing /\ path.inode = settling.fingerprint.inode
                    => settling.fingerprint.length <= path.length
              /\ path # Nothing /\ path = settling.fingerprint /\ path.length < Pieces
                    => settling.age <= quiet
            BY <2>2 DEF WatchInv, CandidateKnown
        <3>2. /\ settling' \in [fingerprint : File, age : Nat]
              /\ settling'.fingerprint = settling.fingerprint
              /\ settling'.age = settling.age + 1 /\ settling.age \in Nat
            BY <2>2, <3>1
        <3>3. path # Nothing /\ path = settling.fingerprint /\ path.length < Pieces
                    => settling'.age <= quiet'
            BY <1>2, <1>3, <3>1, <3>2
        <3> QED
            BY <1>1, <3>1, <3>2, <3>3 DEF CandidateKnown
    <2> QED
        BY <1>1, <2>1, <2>2
<1> QED
    BY <1>1, <1>4, <1>5 DEF WatchInv, ArmedVerified

\* What observe does to the candidate: it stays, is forgotten, or is the file
\* at the path as of now.
LEMMA ObserveKept == WatchInv /\ Observe => WatchInv'
<1> SUFFICES ASSUME WatchInv, Observe PROVE WatchInv'
    OBVIOUS
<1>1. UNCHANGED outsideVars
    BY DEF Observe, ObserveExecutable, ObserveChannel
<1>2. PathKnown'
    BY <1>1 DEF WatchInv, PathKnown, outsideVars
<1>3. CandidateKnown'
    <2>1. CASE settling' = settling \/ settling' = Nothing
        BY <1>1, <2>1 DEF WatchInv, CandidateKnown, outsideVars
    <2>2. CASE path # Nothing /\ settling' = [fingerprint |-> path, age |-> 0]
        <3>1. /\ path \in File /\ path.inode > changes /\ quiet \in Nat
              /\ path.length \in 0..Pieces
            BY <2>2 DEF WatchInv, PathKnown, File
        <3>2. /\ settling' \in [fingerprint : File, age : Nat]
              /\ settling'.fingerprint = path /\ settling'.age = 0
            BY <2>2, <3>1
        <3>3. path.length <= path.length /\ 0 <= quiet
            BY <3>1, WatchAssumption
        <3> QED
            BY <1>1, <3>1, <3>2, <3>3 DEF CandidateKnown, outsideVars
    <2> QED
        BY <2>1, <2>2 DEF Observe, ObserveExecutable, ObserveChannel, Settles
<1>4. ArmedVerified'
    BY <1>1 DEF WatchInv, ArmedVerified, outsideVars, Observe, ObserveExecutable, ObserveChannel
<1> QED
    BY <1>2, <1>3, <1>4 DEF WatchInv

LEMMA WatchSteps == WatchInv /\ [WatchNext]_watchVars => WatchInv'
<1> SUFFICES ASSUME WatchInv, [WatchNext]_watchVars PROVE WatchInv'
    OBVIOUS
<1>1. CASE Outside
    BY <1>1, PathChangeKept, GrowthKept, ChannelChangeKept, TickKept DEF Outside
<1>2. CASE Observe
    BY <1>2, ObserveKept
<1>3. CASE ArmCurrentRelaunch
    BY <1>3 DEF ArmCurrentRelaunch, outsideVars, WatchInv, PathKnown, CandidateKnown, ArmedVerified
<1>4. CASE UNCHANGED watchVars
    BY <1>4 DEF watchVars, WatchInv, PathKnown, CandidateKnown, ArmedVerified
<1> QED
    BY <1>1, <1>2, <1>3, <1>4 DEF WatchNext

\* A successor that is reported ready is whole: a standalone host's candidate
\* has been the same for longer than one who writes an executable ever pauses,
\* a managed host's release is the channel's and has been verified (rollout.rs,
\* observe).
THEOREM ReadyIsWhole == WatchSpec => ArmedIsComplete
<1> DEFINE Whole ==
        Observe /\ observed' = "Ready" =>
            IF mode = "managed" THEN successor' = channel /\ channel \in published
            ELSE successor' = "path" /\ Complete /\ path # Own
<1>1. WatchInv /\ [WatchNext]_watchVars => [Whole]_watchVars
    <2> SUFFICES ASSUME WatchInv, Observe, observed' = "Ready"
                 PROVE  IF mode = "managed" THEN successor' = channel /\ channel \in published
                        ELSE successor' = "path" /\ Complete /\ path # Own
        OBVIOUS
    <2>1. CASE ObserveChannel
        <3>1. /\ mode = "managed" /\ channel # Incumbent /\ successor' = channel
              /\ successor = channel \/ channel \in published
            BY <2>1 DEF ObserveChannel, Answers
        <3>2. channel # Nothing
            BY WatchAssumption DEF WatchInv, ArmedVerified
        <3> QED
            BY <3>1, <3>2 DEF WatchInv, ArmedVerified
    <2>2. CASE ObserveExecutable
        <3>1. /\ mode = "standalone" /\ path \notin {Nothing, Own}
              /\ settling # Nothing /\ settling.fingerprint = path
              /\ settling.age = SettleTime /\ successor' = "path"
            BY <2>2 DEF ObserveExecutable, Settles, IsCandidate, Answers
        <3>2. path.length \in 0..Pieces /\ quiet \in Nat /\ settling.age \in Nat
                /\ (path.length < Pieces => quiet <= MaxPause /\ settling.age <= quiet)
            BY <3>1 DEF WatchInv, PathKnown, CandidateKnown, File
        <3>3. ~ (path.length < Pieces)
            BY <3>1, <3>2, WatchAssumption
        <3>4. path.length = Pieces
            BY <3>2, <3>3, WatchAssumption
        <3> QED
            BY <3>1, <3>4 DEF Complete
    <2> QED
        BY <2>1, <2>2 DEF Observe
<1>2. WatchSpec => []WatchInv
    BY WatchBegins, WatchSteps, PTL DEF WatchSpec
<1>3. WatchSpec => [][Whole]_watchVars
    BY <1>1, <1>2, PTL DEF WatchSpec
<1> QED
    BY <1>3 DEF ArmedIsComplete

=============================================================================
