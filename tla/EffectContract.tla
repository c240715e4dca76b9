--------------------------- MODULE EffectContract ---------------------------
(***************************************************************************)
(* What a worker's tools/list says about its tools, and what the host      *)
(* makes of it: src/crates/libmcp/src/effect.rs.  A declaration is the     *)
(* part of a tool object the host reads:                                   *)
(*                                                                         *)
(* explicit    whether _meta holds the reserved metadata object            *)
(* recovery    its recovery.kind      pointer  whether recovery.key is a   *)
(*                                             JSON pointer                *)
(* state       its state.kind         key      what state.key (or version) *)
(*                                             is: absent, a text, or a    *)
(*                                             pointer into the arguments  *)
(* annotation  the first replayContract found in the annotations           *)
(* hinted      readOnlyHint or idempotentHint                              *)
(***************************************************************************)

EffectRecovery == {"ReplaySafe", "Deduplicated", "ProbeRequired", "AtMostOnce"}

RecoveryKinds ==
    [replay_safe |-> "ReplaySafe", deduplicated |-> "Deduplicated",
     probe_required |-> "ProbeRequired", at_most_once |-> "AtMostOnce"]

Annotations ==
    [convergent |-> "ReplaySafe", probe_required |-> "ProbeRequired",
     never_replay |-> "AtMostOnce"]

StateKinds == {"stateless", "journaled", "checkpointed", "generation_pinned"}

\* "unknown" is any other text, and a missing one.
Declarations ==
    [explicit : BOOLEAN,
     recovery : DOMAIN RecoveryKinds \cup {"unknown"}, pointer : BOOLEAN,
     state : StateKinds \cup {"unknown"}, key : {"absent", "text", "pointer"},
     annotation : DOMAIN Annotations \cup {"unknown"}, hinted : BOOLEAN]

SessionStateContract ==
    {"Stateless", "Journaled", "JournaledByArgument", "Checkpointed", "GenerationPinned"}

Contract == [recovery : EffectRecovery, state : SessionStateContract]

-----------------------------------------------------------------------------
(* parse_state *)

StateRefused(d) ==
    \/ d.state = "unknown"
    \/ d.state \in {"journaled", "checkpointed"} /\ d.key = "absent"

StateOf(d) ==
    CASE d.state = "stateless" -> "Stateless"
      [] d.state = "journaled" ->
            IF d.key = "pointer" THEN "JournaledByArgument" ELSE "Journaled"
      [] d.state = "checkpointed" -> "Checkpointed"
      [] OTHER -> "GenerationPinned"

(* parse_contract, with explicit metadata: what contradicts itself is      *)
(* refused, and with it the whole catalog (ToolCatalog::parse).            *)
Refused(d) ==
    /\ d.explicit
    /\ \/ d.recovery = "unknown"
       \/ StateRefused(d)
       \/ d.state = "journaled" /\ d.recovery \notin {"replay_safe", "deduplicated"}
       \/ d.recovery = "deduplicated" /\ ~ d.pointer

(* parse_contract, without it: an annotation (legacy_recovery), else the   *)
(* hints of the protocol, else the most cautious law.                      *)
InferredRecovery(d) ==
    IF d.annotation \in DOMAIN Annotations THEN Annotations[d.annotation]
    ELSE IF d.hinted THEN "ReplaySafe" ELSE "AtMostOnce"

ParseContract(d) ==
    IF d.explicit
    THEN [recovery |-> RecoveryKinds[d.recovery], state |-> StateOf(d)]
    ELSE [recovery |-> InferredRecovery(d), state |-> "Stateless"]

\* A tool the catalog does not name.
Uncontracted == [recovery |-> "AtMostOnce", state |-> "Stateless"]

(* EffectRecovery::replay_contract, the projection onto the recovery law *)
ReplayContract(recovery) ==
    CASE recovery \in {"ReplaySafe", "Deduplicated"} -> "Convergent"
      [] recovery = "ProbeRequired" -> "ProbeRequired"
      [] OTHER -> "NeverReplay"
=============================================================================
