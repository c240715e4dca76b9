---------------------------- MODULE MCOperations ----------------------------
(***************************************************************************)
(* The operational surfaces a host keeps beside its session: the ledger of *)
(* health.rs, the log of telemetry.rs and the watch of rollout.rs.  They   *)
(* share no state, so that a behavior exercises one of them, and the       *)
(* states of the run are the sum, not the product, of theirs.              *)
(***************************************************************************)
EXTENDS OperationalLedger, TelemetryLog, ReleaseWatch, TLC

VARIABLE surface

vars == <<surface, ledgerVars, logVars, watchVars>>

\* Two logs in one process, a third in another
MCProcessOf == "a" :> "host" @@ "b" :> "host" @@ "c" :> "other"
MCEvents == "a" :> 2 @@ "b" :> 1 @@ "c" :> 1

MCInit ==
    /\ surface \in {"ledger", "log", "watch"}
    /\ LedgerInit
    /\ LogInit
    /\ WatchInit
    /\ surface # "watch" => mode = "standalone"

MCNext ==
    \/ surface = "ledger" /\ LedgerNext /\ UNCHANGED <<surface, logVars, watchVars>>
    \/ surface = "log" /\ LogNext /\ UNCHANGED <<surface, ledgerVars, watchVars>>
    \/ surface = "watch" /\ WatchNext /\ UNCHANGED <<surface, ledgerVars, logVars>>

\* Only the watch has something that must happen; where another surface is
\* exercised it has nothing left to do.
MCSpec == MCInit /\ [][MCNext]_vars /\ WatchFairness
=============================================================================
