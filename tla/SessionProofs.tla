--------------------------- MODULE SessionProofs ----------------------------
(***************************************************************************)
(* Theorems about what the host does to its session as a whole: what it    *)
(* may forget, that it implements SessionLaw, step by step, and that what  *)
(* is proved of the kernel holds of the kernel in the host.                *)
(***************************************************************************)
EXTENDS SupervisorProofs

-----------------------------------------------------------------------------
(* The steps that matter to the client, and the others                     *)

\* Nothing is received, answered, sent, published or handed over.
Quiet ==
    /\ UNCHANGED <<unanswered, pending, active, published, recoveryRelease, journal, sealed>>
    /\ KernelHolds' = KernelHolds
    /\ host.at \notin {"Initialize", "Route"} \/ UNCHANGED host

Eventful ==
    \/ \E f \in Frames :
        ClientInitializes(f) \/ ClientQueues(f) \/ ClientRefreshes(f) \/ ClientCalls(f)
    \/ \E id \in Ids, hasError \in BOOLEAN : ActiveResponds(id, hasError)
    \/ \E hasError \in BOOLEAN : ActiveCatalogArrives(hasError)
    \/ RouteInitialize \/ ActivateCandidate \/ LoseActive
    \/ FlushReplays \/ FlushPops \/ RouteFrame
    \/ \E t \in Tokens : StartRecovery(t)

LEMMA QuietOrEventful == [Next]_vars => Quiet \/ Eventful
<1> SUFFICES ASSUME [Next]_vars PROVE Quiet \/ Eventful
    OBVIOUS
<1>1. ASSUME NEW f \in Frames, ClientInitialized(f) PROVE Quiet
    BY <1>1, HandshakeSeen DEF Quiet, ClientInitialized, Receives, At, releaseVars, journalVars
<1>2. ASSUME NEW f \in Frames, ClientNotifies(f) PROVE Quiet
    BY <1>2, KernelUntouched DEF Quiet, ClientNotifies, Receives, At, roleVars, releaseVars, publicVars, journalVars
<1>3. ASSUME NEW c \in callbacks, ClientAnswers(c) PROVE Quiet
    BY <1>3, KernelUntouched DEF Quiet, ClientAnswers, At, roleVars, releaseVars, publicVars, journalVars
<1>4. CASE ActiveAsks
    BY <1>4, KernelUntouched DEF Quiet, ActiveAsks, Emits, At, roleVars, releaseVars, publicVars, journalVars
<1>5. ASSUME NEW hasError \in BOOLEAN, CandidateInitialized(hasError) PROVE Quiet
    BY <1>5, KernelUntouched DEF Quiet, CandidateInitialized, Answers, Emits, At, roleVars, releaseVars, publicVars, journalVars
<1>6. ASSUME NEW hasError \in BOOLEAN, CandidateReady(hasError) PROVE Quiet
    BY <1>6, KernelUntouched DEF Quiet, CandidateReady, Answers, Emits, At, roleVars, releaseVars, publicVars, journalVars
<1>7. ASSUME NEW index \in DOMAIN journal, NEW hasError \in BOOLEAN, CandidateRestored(index, hasError)
      PROVE  Quiet
    BY <1>7, KernelUntouched DEF Quiet, CandidateRestored, Answers, Emits, At, roleVars, releaseVars, publicVars, journalVars
<1>8. ASSUME NEW t \in Tokens, Misbehaves(t) PROVE Quiet
    BY <1>8, KernelUntouched DEF Quiet, Misbehaves, Emits, At, roleVars, releaseVars, publicVars, journalVars
<1>9. ASSUME NEW t \in Tokens, WorkerCloses(t) PROVE Quiet
    BY <1>9, KernelUntouched DEF Quiet, WorkerCloses, At, roleVars, releaseVars, publicVars, journalVars
<1>10. ASSUME NEW t \in Tokens, WorkerGone(t) PROVE Quiet
    BY <1>10, KernelUntouched DEF Quiet, WorkerGone, At, roleVars, releaseVars, publicVars, journalVars
<1>11. CASE TryBeginRestore
    BY <1>11, KernelUntouched DEF Quiet, TryBeginRestore, At, roleVars, releaseVars, publicVars, journalVars
<1>12. CASE RejectCandidate
    BY <1>12, KernelUntouched DEF Quiet, RejectCandidate, At, roleVars, releaseVars, publicVars, journalVars
<1>13. CASE FlushEnds
    BY <1>13, KernelUntouched DEF Quiet, FlushEnds, At, roleVars, releaseVars, publicVars, journalVars
<1>14. CASE GraceExpires
    BY <1>14, KernelUntouched DEF Quiet, GraceExpires, Deadlined, At, roleVars, releaseVars, publicVars, journalVars
<1>15. CASE DeadlineExpires
    BY <1>15, KernelUntouched DEF Quiet, DeadlineExpires, Deadlined, At, roleVars, releaseVars, publicVars, journalVars
<1>16. CASE RefuseRelease
    BY <1>16, KernelUntouched DEF Quiet, RefuseRelease, At, roleVars, releaseVars, publicVars, journalVars
<1>17. ASSUME NEW t \in Tokens, StartRollover(t) PROVE Quiet
    BY <1>17, KernelUntouched DEF Quiet, StartRollover, At, roleVars, releaseVars, publicVars, journalVars
<1>18. ASSUME NEW release \in Releases, Publish(release) PROVE Quiet
    BY <1>18, KernelUntouched DEF Quiet, Publish, At, roleVars, releaseVars, publicVars, journalVars
<1>19. CASE UNCHANGED vars
    BY <1>19, KernelUntouched DEF Quiet, vars, At, roleVars, releaseVars, publicVars, journalVars
<1>20. CASE Client
    BY <1>20, <1>1, <1>2, <1>3 DEF Client, Eventful
<1>21. CASE ActiveWorker
    BY <1>21, <1>4 DEF ActiveWorker, Eventful
<1>22. CASE CandidateWorker
    BY <1>22, <1>5, <1>6, <1>7 DEF CandidateWorker
<1>23. CASE \E t \in Tokens : Misbehaves(t) \/ WorkerCloses(t) \/ WorkerGone(t)
    BY <1>23, <1>8, <1>9, <1>10
<1>24. CASE Continue
    BY <1>24, <1>11, <1>12, <1>13 DEF Continue, Eventful
<1>25. CASE Tick
    BY <1>25, <1>14, <1>15, <1>16, <1>17 DEF Tick, Eventful
<1>26. CASE \E release \in Releases : Publish(release)
    BY <1>26, <1>18
<1> QED
    BY <1>19, <1>20, <1>21, <1>22, <1>23, <1>24, <1>25, <1>26 DEF Next

-----------------------------------------------------------------------------
(* What may be forgotten                                                   *)

\* Ids of the request in hand, and of the one that waits for a catalog.
HandIds == {f.id : f \in {g \in {host.frame} \ {NoFrame} : K!IsRequest(g)}}
WaitingIds == {f.id : f \in {g \in {refreshRequest} \ {NoFrame} : K!IsRequest(g)}}

KeptAlike == Kept = KernelHolds \cup HandIds \cup WaitingIds

LEMMA KeptParts == KeptAlike
BY DEF KeptAlike, Kept, KernelHolds, HandIds, WaitingIds

LEMMA KeptPartsNext == KeptAlike'
BY KeptParts, PTL

\* What the kernel has or the host has in hand is still held after the step,
\* if it is not answered, and so is what has just come in.
Carried == \A id \in unanswered' :
                id \in KernelHolds \cup HandIds \/ id \notin unanswered => id \in Kept'

\* A catalog request is forgotten, or nothing is.
Remembers ==
    \A id \in (unanswered' \ Kept') \ (unanswered \ Kept) :
        \E f \in {host.frame, refreshRequest} \ {NoFrame} : f.method = "list" /\ f.id = id

LEMMA CarriedRemembers == HostInv /\ Carried => Remembers
<1> SUFFICES ASSUME HostInv, Carried,
                    NEW id \in unanswered', id \notin Kept', id \notin unanswered \ Kept
             PROVE  \E f \in {host.frame, refreshRequest} \ {NoFrame} :
                        f.method = "list" /\ f.id = id
    BY DEF Remembers
<1>1. id \in WaitingIds
    BY KeptParts DEF KeptAlike, Carried
<1>2. refreshRequest # NoFrame /\ refreshRequest.id = id
    BY <1>1 DEF WaitingIds
<1>3. refreshRequest.method = "list"
    BY <1>2 DEF HostInv, Typed, RoleTypes, PublicTyped
<1> QED
    BY <1>2, <1>3

\* The kernel takes a request, or has it answered, with none in hand.
LEMMA CarriedKernel ==
    ASSUME HostInv, host.at \notin {"Initialize", "Route"},
           NEW gained, NEW lost,
           KernelHolds' = (KernelHolds \cup gained) \ lost,
           unanswered' = (unanswered \cup gained) \ lost
    PROVE  Carried
<1>1. HandIds = {}
    BY DEF HandIds, HostInv, Typed, RoleTypes, HostTyped
<1> QED
    BY <1>1, KeptPartsNext DEF KeptAlike, Carried

\* The request in hand goes to the kernel, or is answered.
LEMMA CarriedHand ==
    ASSUME \/ KernelHolds' = KernelHolds \cup {host.frame.id} /\ UNCHANGED unanswered
           \/ KernelHolds' = KernelHolds /\ unanswered' = unanswered \ {host.frame.id}
    PROVE  Carried
BY KeptPartsNext DEF KeptAlike, Carried, HandIds
LEMMA QuietCarries == HostInv /\ Quiet => Carried
<1> SUFFICES ASSUME HostInv, Quiet PROVE Carried
    OBVIOUS
<1>1. HandIds \subseteq HandIds'
    BY DEF Quiet, HandIds, HostInv, Typed, RoleTypes, HostTyped
<1> QED
    BY <1>1, KeptPartsNext DEF KeptAlike, Carried, Quiet

LEMMA DispatchCarries ==
    ASSUME HostInv, NEW next, host.frame \in Frames, K!IsRequest(host.frame),
           Dispatch(host.frame, next)
    PROVE  Carried
<1>1. CASE K!MayBegin(host.frame)
    <2>1. KP!SnapshotInv /\ Classify(host.frame) \in K!Contracts
          /\ K!BeginRequestDispatch(host.frame, Classify(host.frame))
          /\ UNCHANGED unanswered
        BY <1>1, ClassifiedType DEF Dispatch, HostInv, Typed
    <2>2. KernelHolds' = KernelHolds \cup {host.frame.id}
        BY <2>1, HostBegins
    <2> QED
        BY <2>1, <2>2, CarriedHand
<1>2. CASE ~ K!MayBegin(host.frame)
    BY <1>2, KernelUntouched, CarriedHand DEF Dispatch
<1> QED
    BY <1>1, <1>2

LEMMA ClientCarries ==
    ASSUME HostInv, KP!SnapshotInv', NEW f \in Frames,
           \/ ClientInitializes(f) \/ ClientQueues(f)
           \/ ClientRefreshes(f) \/ ClientCalls(f)
    PROVE  Carried
<1>a. At("Idle") /\ KP!SnapshotInv
    BY DEF ClientInitializes, ClientQueues, ClientRefreshes, ClientCalls, ReceivesRequest,
        Receives, HostInv, Typed
<1>b. HandIds = {}
    BY <1>a DEF At, HandIds, HostInv, Typed, RoleTypes, HostTyped
<1>1. CASE ClientInitializes(f)
    <2>1. KernelHolds' = KernelHolds /\ unanswered' = unanswered \cup {f.id}
        BY <1>1, HandshakeSeen DEF ClientInitializes, ReceivesRequest
    <2>2. f \in {host'.frame} \ {NoFrame} /\ K!IsRequest(f)
        BY <1>1, KernelAssumption DEF ClientInitializes, K!ObserveInitialize, K!IsInitialize,
            K!IsRequest, K!RequestMethods, K!FramesAssumption
    <2>3. f.id \in HandIds'
        BY <2>2 DEF HandIds
    <2> QED
        BY <1>b, <2>1, <2>3, KeptPartsNext DEF KeptAlike, Carried
<1>2. CASE ClientQueues(f)
    <2>1. KernelHolds' = (KernelHolds \cup (IF K!IsRequest(f) THEN {f.id} ELSE {})) \ {}
        BY <1>a, <1>2, HostQueues DEF ClientQueues
    <2>2. unanswered' = (unanswered \cup (IF K!IsRequest(f) THEN {f.id} ELSE {})) \ {}
        BY <1>2 DEF ClientQueues, ReceivesRequest
    <2> QED
        BY <1>a, <2>1, <2>2, CarriedKernel DEF At
<1>3. CASE ClientRefreshes(f)
    <2>1. KernelHolds' = KernelHolds /\ unanswered' = unanswered \cup {f.id}
        BY <1>3, KernelUntouched DEF ClientRefreshes, ReceivesRequest
    <2>2. f \in {refreshRequest'} \ {NoFrame} /\ K!IsRequest(f)
        BY <1>3, KernelAssumption DEF ClientRefreshes, K!IsRequest, K!RequestMethods,
            K!FramesAssumption
    <2>3. f.id \in WaitingIds'
        BY <2>2 DEF WaitingIds
    <2> QED
        BY <1>b, <2>1, <2>3, KeptPartsNext DEF KeptAlike, Carried
<1>4. CASE ClientCalls(f)
    <2>1. KernelHolds' = (KernelHolds \cup {f.id}) \ {}
        BY <1>a, <1>4, ClassifiedType, HostBegins DEF ClientCalls
    <2>2. unanswered' = (unanswered \cup {f.id}) \ {}
        BY <1>4 DEF ClientCalls, ReceivesRequest
    <2> QED
        BY <1>a, <2>1, <2>2, CarriedKernel DEF At
<1> QED
    BY <1>1, <1>2, <1>3, <1>4

LEMMA AnswersCarry ==
    ASSUME HostInv,
           \/ \E id \in Ids, hasError \in BOOLEAN : ActiveResponds(id, hasError)
           \/ \E hasError \in BOOLEAN : ActiveCatalogArrives(hasError)
           \/ LoseActive
    PROVE  Carried
<1>a. KP!SnapshotInv
    BY DEF HostInv, Typed
<1>1. ASSUME NEW id \in Ids, NEW hasError \in BOOLEAN, ActiveResponds(id, hasError)
      PROVE  Carried
    <2>1. KernelHolds' = (KernelHolds \cup {}) \ {id}
        BY <1>a, <1>1, HostCompletes DEF ActiveResponds
    <2>2. unanswered' = (unanswered \cup {}) \ {id} /\ At("Idle")
        BY <1>1 DEF ActiveResponds, Emits
    <2> QED
        BY <2>1, <2>2, CarriedKernel DEF At
<1>2. ASSUME NEW hasError \in BOOLEAN, ActiveCatalogArrives(hasError)
      PROVE  Carried
    <2>1. KernelHolds' = (KernelHolds \cup {}) \ {}
        BY <1>2, KernelUntouched DEF ActiveCatalogArrives, Answers
    <2>2. unanswered' = (unanswered \cup {}) \ {} /\ At("Idle")
        BY <1>2 DEF ActiveCatalogArrives, Answers, Emits
    <2> QED
        BY <2>1, <2>2, CarriedKernel DEF At
<1>3. CASE LoseActive
    <2>1. KernelHolds' = (KernelHolds \cup {}) \ Rejected
        BY <1>a, <1>3, HostRequeues DEF LoseActive
    <2>2. unanswered' = (unanswered \cup {}) \ Rejected /\ At("Lose")
        BY <1>3 DEF LoseActive
    <2> QED
        BY <2>1, <2>2, CarriedKernel DEF At
<1> QED
    BY <1>1, <1>2, <1>3

LEMMA HandoverCarries ==
    ASSUME HostInv, ActivateCandidate \/ \E t \in Tokens : StartRecovery(t)
    PROVE  Carried
<1>1. KernelHolds' = KernelHolds /\ unanswered' \subseteq unanswered
    BY KernelUntouched DEF ActivateCandidate, StartRecovery
<1>2. HandIds = {}
    BY DEF ActivateCandidate, StartRecovery, At, HandIds, HostInv, Typed, RoleTypes, HostTyped
<1> QED
    BY <1>1, <1>2, KeptPartsNext DEF KeptAlike, Carried

LEMMA FlushCarries ==
    ASSUME HostInv, KP!SnapshotInv', FlushReplays \/ FlushPops
    PROVE  Carried
<1>a. KP!SnapshotInv /\ HandIds = {} /\ UNCHANGED unanswered
    BY DEF FlushReplays, FlushPops, At, HandIds, HostInv, Typed, RoleTypes, HostTyped
<1>1. CASE FlushReplays
    <2>1. KernelHolds' = KernelHolds
        BY <1>a, <1>1, HostReplays DEF FlushReplays
    <2> QED
        BY <1>a, <2>1, KeptPartsNext DEF KeptAlike, Carried
<1>2. CASE FlushPops
    <2>1. /\ Head(queue) \in Frames
          /\ KernelHolds' =
                KernelHolds \ (IF K!IsRequest(Head(queue)) THEN {Head(queue).id} ELSE {})
        BY <1>a, <1>2, HostPops DEF FlushPops
    <2>2. host'.frame = Head(queue) /\ Head(queue) # NoFrame
        BY <1>2, <2>1, KernelAssumption DEF FlushPops, HostInv, Typed, RoleTypes, HostTyped,
            K!FramesAssumption
    <2>3. K!IsRequest(Head(queue)) => Head(queue).id \in HandIds'
        BY <2>2 DEF HandIds
    <2> QED
        BY <1>a, <2>1, <2>3, KeptPartsNext DEF KeptAlike, Carried
<1> QED
    BY <1>1, <1>2

LEMMA RouteRemembers ==
    ASSUME HostInv, KP!SnapshotInv', RouteInitialize \/ RouteFrame
    PROVE  Remembers
<1> DEFINE f == host.frame
<1>1. f \in Frames /\ f # NoFrame /\ KP!SnapshotInv
    BY KernelAssumption DEF RouteInitialize, RouteFrame, At, HostInv, Typed, RoleTypes,
        HostTyped, K!FramesAssumption
<1>2. CASE RouteInitialize
    <2>1. K!IsRequest(f)
        BY <1>1, <1>2, FrameIds DEF RouteInitialize, At, HostInv, Typed, RoleTypes, HostTyped
    <2>2. CASE Dispatch(f, "Idle")
        BY <1>1, <2>1, <2>2, DispatchCarries, CarriedRemembers
    <2>3. CASE K!QueueClientFrame(f) /\ UNCHANGED unanswered
        <3>1. KernelHolds' = KernelHolds \cup {f.id}
            BY <1>1, <2>1, <2>3, HostQueues
        <3> QED
            BY <2>3, <3>1, CarriedHand, CarriedRemembers
    <2>4. CASE unanswered' = unanswered \ {f.id} /\ UNCHANGED kernelVars
        BY <2>4, KernelUntouched, CarriedHand, CarriedRemembers
    <2> QED
        BY <1>2, <2>2, <2>3, <2>4 DEF RouteInitialize
<1>3. CASE RouteFrame
    <2>1. CASE K!IsRequest(f) /\ Dispatch(f, "Flush")
        BY <1>1, <2>1, DispatchCarries, CarriedRemembers
    <2>2. CASE unanswered' = unanswered \ {f.id} /\ UNCHANGED kernelVars
        BY <2>2, KernelUntouched, CarriedHand, CarriedRemembers
    <2>3. CASE f.method = "list" /\ UNCHANGED kernelVars /\ UNCHANGED unanswered
        <3>1. KernelHolds' = KernelHolds /\ UNCHANGED refreshRequest
            BY <1>3, <2>3, KernelUntouched DEF RouteFrame, publicVars
        <3>2. WaitingIds' = WaitingIds
            BY <3>1 DEF WaitingIds
        <3>3. HandIds = {f.id}
            BY <1>1, <2>3, FrameIds DEF HandIds
        <3> QED
            BY <1>1, <2>3, <3>1, <3>2, <3>3, KeptParts, KeptPartsNext DEF KeptAlike, Remembers
    <2>4. CASE ~ K!IsRequest(f) /\ UNCHANGED kernelVars /\ UNCHANGED unanswered
        <3>1. HandIds = {} /\ KernelHolds' = KernelHolds
            BY <2>4, KernelUntouched DEF HandIds
        <3>2. Carried
            BY <2>4, <3>1, KeptPartsNext DEF KeptAlike, Carried
        <3> QED
            BY <3>2, CarriedRemembers
    <2> QED
        BY <1>3, <2>1, <2>2, <2>3, <2>4 DEF RouteFrame
<1> QED
    BY <1>2, <1>3

\* The requests nothing in the host stands for any more, and nobody has
\* answered, are requests for the catalog: the refresh of a rollover that is
\* given up, and a queued one when the session has no catalog (reject_candidate,
\* route_client_frame).  No call is forgotten, and no initialize.
THEOREM OnlyListsForgotten == Spec => ForgottenAreLists
<1>1. HostInv /\ [Next]_vars => Remembers
    <2> SUFFICES ASSUME HostInv, [Next]_vars PROVE Remembers
        OBVIOUS
    <2>1. KP!SnapshotInv'
        BY KernelKeeps DEF HostInv
    <2>2. CASE Quiet
        BY <2>2, QuietCarries, CarriedRemembers
    <2>3. CASE Eventful
        BY <2>1, <2>3, ClientCarries, AnswersCarry, HandoverCarries, FlushCarries,
            RouteRemembers, CarriedRemembers DEF Eventful
    <2> QED
        BY <2>2, <2>3, QuietOrEventful
<1>2. HostInv /\ [Next]_vars =>
        [\A id \in (unanswered' \ Kept') \ (unanswered \ Kept) :
            \E f \in {host.frame, refreshRequest} \ {NoFrame} :
                f.method = "list" /\ f.id = id]_vars
    BY <1>1 DEF Remembers
<1> QED
    BY <1>2, HostAlways, PTL DEF Spec, ForgottenAreLists

-----------------------------------------------------------------------------
(* Who may succeed                                                         *)

\* A candidate for recovery is of the generation to be recovered, and waits
\* for nothing but the journal only if there is a catalog to go on with; one
\* for a rollover reads the state of the incumbent.  Only a session that is
\* live is sealed, and a sealed one is not handed over; what is handed over is
\* behind the fence, or has not begun.
Succession ==
    /\ HasCandidate /\ candidate.purpose = "Recovery" =>
        /\ workers[candidate.token].release = recoveryRelease
        /\ rollover = "Draining" => published # NoCatalog
    /\ HasCandidate /\ candidate.purpose = "Rollover" =>
        <<workers[candidate.token].release, recoveryRelease>> \in Accepts
    /\ sealed => phase = "Live"
    /\ At("Activate") =>
        /\ ~ sealed
        /\ \/ candidate.stage \in {"Ready", "Restoring"} /\ rollover = "Draining"
           \/ candidate.stage = "Initializing" /\ phase = "AwaitingInitialized"

\* No candidate but the one there was, and no catalog withdrawn under it.
SameSuccessor ==
    /\ UNCHANGED <<recoveryRelease, sealed>>
    /\ phase = "Live" => phase' = "Live"
    /\ published # NoCatalog => published' # NoCatalog
    /\ HasCandidate' =>
        /\ HasCandidate /\ candidate'.purpose = candidate.purpose
        /\ workers'[candidate'.token].release = workers[candidate.token].release
        /\ rollover' = "Draining" =>
                rollover = "Draining" \/ published # NoCatalog \/ candidate.purpose = "Rollover"

LEMMA SuccessionKept ==
    ASSUME Succession, SameSuccessor,
           host'.at = "Activate" => UNCHANGED <<host, candidate, rollover, phase>>
    PROVE  Succession'
BY DEF Succession, SameSuccessor, At

\* The candidate is given up.
LEMMA CandidateGone ==
    ASSUME Succession, UNCHANGED <<recoveryRelease, sealed>>,
           phase = "Live" => phase' = "Live",
           candidate' = NoCandidate, host'.at # "Activate"
    PROVE  Succession'
<1>1. ~ HasCandidate'
    BY DEF HasCandidate, NoCandidate, Candidate
<1> QED
    BY <1>1 DEF Succession, At

\* Nothing happens to workers and candidate.
LEMMA SuccessorAlone ==
    ASSUME Succession,
           UNCHANGED <<candidate, workers, published, recoveryRelease, sealed>>,
           rollover' # rollover =>
               rollover' # "Draining" \/ published # NoCatalog \/ candidate.purpose = "Rollover",
           phase = "Live" => phase' = "Live",
           host'.at = "Activate" => UNCHANGED <<host, rollover, phase>>
    PROVE  Succession'
<1>1. SameSuccessor
    BY DEF SameSuccessor, HasCandidate
<1> QED
    BY <1>1, SuccessionKept

\* Workers keep their releases, and the host its candidate.
LEMMA SuccessorWorks ==
    ASSUME Typed, Succession,
           UNCHANGED <<candidate, rollover, published, recoveryRelease, sealed>>,
           \A t \in Tokens : workers'[t].release = workers[t].release,
           phase = "Live" => phase' = "Live",
           host'.at # "Activate"
    PROVE  Succession'
<1>1. SameSuccessor
    BY RoleParts DEF SameSuccessor, HasCandidate
<1> QED
    BY <1>1, SuccessionKept

\* A dispatch, and no candidate is touched.
LEMMA DispatchSucceeds ==
    ASSUME HostInv, Succession, NEW f \in Frames, NEW next \in {"Idle", "Flush"},
           HasActive, Dispatch(f, next),
           UNCHANGED <<candidate, rollover, published, recoveryRelease, sealed>>
    PROVE  Succession'
<1>1. CASE K!MayBegin(f)
    <2>1. /\ KP!SnapshotInv /\ Classify(f) \in K!Contracts
          /\ K!BeginRequestDispatch(f, Classify(f)) /\ SendActive(f.id, next)
        BY <1>1, ClassifiedType DEF Dispatch, HostInv, Typed
    <2>2. f.id \in Ids /\ (phase = "Live" => phase' = "Live")
        BY <2>1, HostBegins
    <2>3. Crossed(f.id, next)
        BY <2>1, <2>2, SendCrosses DEF HostInv, Typed
    <2> QED
        BY <2>2, <2>3, SuccessorWorks DEF Crossed, HostInv
<1>2. CASE ~ K!MayBegin(f)
    BY <1>2, KernelUntouched, SuccessorAlone DEF Dispatch, Go
<1> QED
    BY <1>1, <1>2

LEMMA ClientSucceeds ==
    ASSUME HostInv, KP!SnapshotInv', Succession, Client
    PROVE  Succession'
<1>1. ASSUME NEW f \in Frames, ClientInitializes(f) PROVE Succession'
    BY <1>1, HandshakeSeen, SuccessorAlone DEF ClientInitializes, ReceivesRequest,
        Receives, releaseVars, journalVars
<1>2. ASSUME NEW f \in Frames, ClientInitialized(f) PROVE Succession'
    BY <1>2, HandshakeSeen, SuccessorAlone DEF ClientInitialized, Receives, releaseVars,
        journalVars, Go
<1>3. ASSUME NEW f \in Frames, ClientQueues(f) PROVE Succession'
    <2>1. phase' = phase
        BY <1>3, HostQueues DEF ClientQueues, HostInv, Typed
    <2> QED
        BY <1>3, <2>1, SuccessorAlone DEF ClientQueues, ReceivesRequest, Receives,
            releaseVars, journalVars, Go
<1>4. ASSUME NEW f \in Frames, ClientRefreshes(f) PROVE Succession'
    <2>1. candidate'.token = candidate.token /\ candidate'.purpose = candidate.purpose
        BY <1>4 DEF ClientRefreshes, HostInv, Typed, RoleTypes, RolesTyped
    <2>2. SameSuccessor
        BY <1>4, <2>1, KernelUntouched DEF ClientRefreshes, ReceivesRequest, Receives,
            releaseVars, journalVars, SameSuccessor, HasCandidate
    <2> QED
        BY <1>4, <2>2, SuccessionKept DEF ClientRefreshes, Go
<1>5. ASSUME NEW f \in Frames, ClientCalls(f) PROVE Succession'
    <2>1. /\ HasActive /\ KP!SnapshotInv /\ Classify(f) \in K!Contracts
          /\ K!BeginRequestDispatch(f, Classify(f)) /\ SendActive(f.id, "Idle")
        BY <1>5, ClassifiedType DEF ClientCalls, MustQueue, HostInv, Typed
    <2>2. f.id \in Ids /\ (phase = "Live" => phase' = "Live")
        BY <2>1, HostBegins
    <2>3. Crossed(f.id, "Idle")
        BY <2>1, <2>2, SendCrosses DEF HostInv, Typed
    <2> QED
        BY <1>5, <2>2, <2>3, SuccessorWorks DEF Crossed, HostInv, ClientCalls,
            ReceivesRequest, Receives, releaseVars, journalVars
<1>6. ASSUME NEW f \in Frames, ClientNotifies(f) PROVE Succession'
    BY <1>6, KernelUntouched, SuccessorAlone DEF ClientNotifies, Receives, releaseVars,
        journalVars, Go
<1>7. ASSUME NEW c \in callbacks, ClientAnswers(c) PROVE Succession'
    BY <1>7, KernelUntouched, SuccessorAlone DEF ClientAnswers, roleVars, releaseVars,
        publicVars, journalVars, Go
<1> QED
    BY <1>1, <1>2, <1>3, <1>4, <1>5, <1>6, <1>7 DEF Client

\* What an answer can do to the session, which only then is sealed.
LEMMA SealedIsLive ==
    ASSUME HostInv, Succession, NEW id \in Ids, NEW hasError \in BOOLEAN,
           ActiveResponds(id, hasError)
    PROVE  sealed' => phase = "Live"
<1> DEFINE f == pending[id].frame
<1>1. IF hasError THEN UNCHANGED journalVars ELSE RecordSessionTransition(f)
    BY DEF ActiveResponds
<1>2. CASE hasError \/ ContractFor(f).state = "Stateless"
    <2>1. UNCHANGED journalVars
        BY <1>1, <1>2 DEF RecordSessionTransition, Journals
    <2> QED
        BY <2>1 DEF Succession, journalVars
<1>3. CASE ContractFor(f).state # "Stateless"
    <2>1. published # NoCatalog
        BY <1>3 DEF ContractFor, Uncontracted
    <2> QED
        BY <2>1 DEF HostInv, Coordinated, SameSession
<1> QED
    BY <1>2, <1>3

LEMMA ActiveSucceeds ==
    ASSUME HostInv, KP!SnapshotInv', Succession, ActiveWorker
    PROVE  Succession'
<1>1. ASSUME NEW id \in Ids, NEW hasError \in BOOLEAN, ActiveResponds(id, hasError)
      PROVE  Succession'
    <2>1. phase = "Live" => phase' = "Live"
        BY <1>1, HostCompletes DEF ActiveResponds, HostInv, Typed
    <2>2. \A u \in Tokens : workers'[u].release = workers[u].release
        <3>1. /\ \A u \in Tokens \ {active} : workers'[u] = workers[u]
              /\ workers'[active].release = workers[active].release
            BY <1>1, RespondedParts DEF HostInv
        <3> QED
            BY <3>1
    <2>3. /\ UNCHANGED <<candidate, rollover, published, recoveryRelease>>
          /\ host'.at # "Activate"
        BY <1>1 DEF ActiveResponds, roleVars, releaseVars, publicVars, Go
    <2>4. sealed' => phase' = "Live"
        BY <1>1, <2>1, SealedIsLive
    <2>5. HasCandidate => workers'[candidate.token].release = workers[candidate.token].release
        BY <2>2, RoleParts DEF HostInv
    <2> QED
        BY <2>3, <2>4, <2>5 DEF Succession, At, HasCandidate
<1>2. CASE ActiveAsks
    BY <1>2, KernelUntouched, SuccessorAlone DEF ActiveAsks, roleVars, releaseVars,
        publicVars, journalVars
<1>3. ASSUME NEW hasError \in BOOLEAN, ActiveCatalogArrives(hasError) PROVE Succession'
    <2>1. published # NoCatalog => published' # NoCatalog
        <3>1. active \in Tokens /\ WorkersTyped
            BY <1>3 DEF ActiveCatalogArrives, Answers, Emits, HostInv, Typed, RoleTypes, RolesTyped
        <3>2. workers[active].release \in Releases
            BY <3>1 DEF WorkersTyped, WorkerState
        <3> QED
            BY <1>3, <3>2, RolesAssumption DEF ActiveCatalogArrives
    <2>2. SameSuccessor
        BY <1>3, <2>1, KernelUntouched DEF ActiveCatalogArrives, Answers, releaseVars,
            journalVars, SameSuccessor, HasCandidate
    <2> QED
        BY <1>3, <2>2, SuccessionKept DEF ActiveCatalogArrives, Go
<1> QED
    BY <1>1, <1>2, <1>3 DEF ActiveWorker

LEMMA CandidateSucceeds ==
    ASSUME HostInv, KP!SnapshotInv', Succession, CandidateWorker
    PROVE  Succession'
<1> DEFINE t == candidate.token
<1>a. candidate \in [token : Tokens \cup {NoWorker}, purpose : Purposes,
                     stage : Stages, deadline : BOOLEAN]
    BY DEF HostInv, Typed, RoleTypes, RolesTyped
<1>1. ASSUME NEW hasError \in BOOLEAN, CandidateInitialized(hasError) PROVE Succession'
    <2>1. /\ candidate'.token = t /\ candidate'.purpose = candidate.purpose
          /\ UNCHANGED <<phase, published, rollover, workers, recoveryRelease, sealed>>
        BY <1>a, <1>1, KernelUntouched DEF CandidateInitialized, Answers, releaseVars, journalVars
    <2>2. host'.at = "Activate" => phase = "AwaitingInitialized" /\ candidate' = candidate
        BY <1>1 DEF CandidateInitialized, Go
    <2>3. candidate.stage = "Initializing"
        <3>1. Asking(t, "CandidateInitialize", 0) \in internal /\ t # NoWorker
            BY <1>1 DEF CandidateInitialized, Answers, Emits
        <3>2. "CandidateInitialize" \in Expected[candidate.stage]
            BY <3>1 DEF HostInv, Coordinated, Owners, Asking
        <3> QED
            BY <1>a, <3>2, ExpectedOf DEF Stages
    <2> QED
        BY <2>1, <2>2, <2>3 DEF Succession, At, HasCandidate
<1>2. ASSUME NEW hasError \in BOOLEAN, CandidateReady(hasError) PROVE Succession'
    <2>1. /\ candidate'.token = t /\ candidate'.purpose = candidate.purpose
          /\ UNCHANGED <<phase, published, workers, recoveryRelease, sealed>>
        BY <1>a, <1>2, KernelUntouched DEF CandidateReady, Answers, releaseVars, journalVars
    <2>2. host'.at # "Activate"
        BY <1>2 DEF CandidateReady, Go
    <2>3. rollover' = "Draining" => rollover = "Draining" \/ published # NoCatalog
        <3>1. HasCandidate
            BY <1>2 DEF CandidateReady, Answers, Emits, HasCandidate
        <3>2. workers[t].release \in Releases
            BY <3>1, RoleParts DEF HostInv, Typed, RoleTypes, WorkersTyped, WorkerState
        <3> QED
            BY <1>2, <3>2, RolesAssumption DEF CandidateReady
    <2>4. SameSuccessor
        BY <2>1, <2>3 DEF SameSuccessor, HasCandidate
    <2> QED
        BY <2>2, <2>4, SuccessionKept
<1>3. ASSUME NEW index \in DOMAIN journal, NEW hasError \in BOOLEAN,
             CandidateRestored(index, hasError)
      PROVE  Succession'
    <2>1. /\ candidate'.token = t /\ candidate'.purpose = candidate.purpose
          /\ candidate'.stage = candidate.stage
          /\ UNCHANGED <<phase, published, rollover, recoveryRelease, sealed>>
        BY <1>a, <1>3, KernelUntouched DEF CandidateRestored, Answers, releaseVars, journalVars
    <2>2. Asking(t, "RestoreJournal", index) \in internal /\ HasCandidate
        BY <1>3 DEF CandidateRestored, Answers, Emits, HasCandidate
    <2>3. candidate.stage = "Restoring"
        <3>1. "RestoreJournal" \in Expected[candidate.stage]
            BY <2>2 DEF HostInv, Coordinated, Owners, Asking
        <3> QED
            BY <1>a, <3>1, ExpectedOf DEF Stages
    <2>4. ~ sealed /\ rollover = "Draining"
        BY <2>2, <2>3 DEF HostInv, Coordinated, Quiescence, Fences
    <2>5. workers'[t].release = workers[t].release
        <3>1. workers \in [Tokens -> WorkerState] /\ t \in Tokens
            BY <2>2, RoleParts DEF HostInv, Typed, RoleTypes, WorkersTyped
        <3>2. workers[t] \in WorkerState
            BY <3>1
        <3>3. \/ workers' = workers
              \/ workers' = [workers EXCEPT ![t].applied = Applying(journal[index], @)]
            BY <1>3 DEF CandidateRestored
        <3> QED
            BY <3>1, <3>2, <3>3 DEF WorkerState
    <2> QED
        BY <2>1, <2>3, <2>4, <2>5 DEF Succession, At, HasCandidate
<1> QED
    BY <1>1, <1>2, <1>3 DEF CandidateWorker

LEMMA DropSucceeds ==
    ASSUME HostInv, Succession, DropRecoveryCandidate, ~ At("Activate"),
           UNCHANGED <<recoveryRelease, sealed, phase>>
    PROVE  Succession'
BY CandidateGone DEF DropRecoveryCandidate, At

LEMMA WorkersSucceed ==
    ASSUME HostInv, KP!SnapshotInv', Succession, NEW t \in Tokens,
           Misbehaves(t) \/ WorkerCloses(t) \/ WorkerGone(t)
    PROVE  Succession'
<1>1. CASE Misbehaves(t)
    BY <1>1, KernelUntouched, SuccessorAlone DEF Misbehaves, roleVars, releaseVars,
        publicVars, journalVars, Go
<1>2. CASE WorkerCloses(t)
    <2>1. \A u \in Tokens : workers'[u].release = workers[u].release
        <3>1. "closed" \in {"retired", "running", "closed"} /\ WorkersTyped
            BY DEF HostInv, Typed, RoleTypes
        <3> QED
            BY <1>2, <3>1, StatusTyped DEF WorkerCloses
    <2>2. UNCHANGED <<host, candidate, rollover, phase, published, recoveryRelease, sealed>>
        BY <1>2, KernelUntouched DEF WorkerCloses, roleVars, releaseVars, publicVars, journalVars
    <2>3. SameSuccessor
        BY <2>1, <2>2, RoleParts DEF SameSuccessor, HasCandidate, HostInv
    <2> QED
        BY <2>2, <2>3, SuccessionKept
<1>3. CASE WorkerGone(t)
    <2>1. CASE DropRecoveryCandidate
        BY <1>3, <2>1, KernelUntouched, DropSucceeds DEF WorkerGone, At, releaseVars, journalVars
    <2>2. CASE ~ DropRecoveryCandidate
        BY <1>3, <2>2, KernelUntouched, SuccessorAlone DEF WorkerGone, releaseVars,
            publicVars, journalVars, Go
    <2> QED
        BY <2>1, <2>2
<1> QED
    BY <1>1, <1>2, <1>3

LEMMA ContinueSucceeds ==
    ASSUME HostInv, KP!SnapshotInv', Succession, Continue
    PROVE  Succession'
<1>a. candidate \in [token : Tokens \cup {NoWorker}, purpose : Purposes,
                     stage : Stages, deadline : BOOLEAN]
    BY DEF HostInv, Typed, RoleTypes, RolesTyped
<1>1. CASE RouteInitialize
    <2> DEFINE f == host.frame
    <2>1. /\ f \in Frames /\ f.method = "initialize"
          /\ UNCHANGED <<candidate, rollover, published, recoveryRelease, sealed>>
        BY <1>1 DEF RouteInitialize, At, HostInv, Typed, RoleTypes, HostTyped, roleVars,
            releaseVars, publicVars, journalVars
    <2>2. CASE ~ MustQueue(f) /\ Dispatch(f, "Idle")
        BY <2>1, <2>2, DispatchSucceeds DEF MustQueue
    <2>3. CASE K!QueueClientFrame(f) /\ Go("Idle") /\ UNCHANGED workers
        <3>1. phase' = phase
            BY <2>1, <2>3, HostQueues DEF HostInv, Typed
        <3> QED
            BY <2>1, <2>3, <3>1, SuccessorAlone DEF Go
    <2>4. CASE UNCHANGED kernelVars /\ Go("Idle") /\ UNCHANGED workers
        BY <2>1, <2>4, KernelUntouched, SuccessorAlone DEF Go
    <2> QED
        BY <1>1, <2>2, <2>3, <2>4 DEF RouteInitialize
<1>2. CASE TryBeginRestore
    <2>1. /\ candidate'.token = candidate.token /\ candidate'.purpose = candidate.purpose
          /\ UNCHANGED <<phase, published, rollover, workers, recoveryRelease, sealed>>
        BY <1>a, <1>2, KernelUntouched DEF TryBeginRestore, releaseVars, publicVars, journalVars
    <2>2. host'.at = "Activate" =>
            HasCandidate /\ rollover = "Draining" /\ ~ sealed /\ candidate' = candidate
        BY <1>2 DEF TryBeginRestore, Go
    <2>3. host'.at = "Activate" => candidate.stage \in {"Ready", "Restoring"}
        BY <1>a, <2>2 DEF HostInv, Coordinated, Fences, Stages
    <2> QED
        BY <2>1, <2>2, <2>3 DEF Succession, At, HasCandidate
<1>3. CASE ActivateCandidate
    <2>1. candidate' = NoCandidate /\ host'.at # "Activate" /\ UNCHANGED <<sealed, phase>>
        BY <1>3, KernelUntouched DEF ActivateCandidate, Go, journalVars
    <2>2. ~ HasCandidate'
        BY <2>1 DEF HasCandidate, NoCandidate, Candidate
    <2> QED
        BY <2>1, <2>2 DEF Succession, At
<1>4. CASE RejectCandidate
    BY <1>4, KernelUntouched, CandidateGone DEF RejectCandidate, Go, journalVars
<1>5. CASE LoseActive
    <2>1. phase' = phase
        BY <1>5, HostRequeues DEF LoseActive, HostInv, Typed
    <2> QED
        BY <1>5, <2>1, CandidateGone DEF LoseActive, Go, releaseVars, journalVars
<1>6. CASE FlushEnds
    BY <1>6, KernelUntouched, SuccessorAlone DEF FlushEnds, roleVars, releaseVars,
        publicVars, journalVars, Go
<1>7. CASE FlushReplays
    <2>1. /\ HasActive /\ K!PopReplay /\ SendActive(Head(queue).id, "Flush")
          /\ UNCHANGED <<candidate, rollover, published, recoveryRelease, sealed>>
        BY <1>7 DEF FlushReplays, Flushes, roleVars, releaseVars, publicVars, journalVars
    <2>2. Head(queue).id \in Ids /\ phase' = phase
        BY <2>1, HostReplays, PendingFrames DEF HostInv, Typed
    <2>3. Crossed(Head(queue).id, "Flush")
        BY <2>1, <2>2, SendCrosses DEF HostInv, Typed
    <2> QED
        BY <2>1, <2>2, <2>3, SuccessorWorks DEF Crossed, HostInv
<1>8. CASE FlushPops
    <2>1. phase' = phase
        BY <1>8, HostPops DEF FlushPops, HostInv, Typed
    <2>2. host'.at = "Route"
        BY <1>8 DEF FlushPops, HostInv, Typed, RoleTypes, HostTyped
    <2> QED
        BY <1>8, <2>1, <2>2, SuccessorAlone DEF FlushPops, roleVars, releaseVars,
            publicVars, journalVars
<1>9. CASE RouteFrame
    <2> DEFINE f == host.frame
    <2>1. /\ f \in Frames /\ HasActive
          /\ UNCHANGED <<candidate, rollover, published, recoveryRelease, sealed>>
        BY <1>9 DEF RouteFrame, At, HostInv, Typed, RoleTypes, HostTyped, roleVars,
            releaseVars, publicVars, journalVars
    <2>2. CASE Dispatch(f, "Flush")
        BY <2>1, <2>2, DispatchSucceeds
    <2>3. CASE ~ Dispatch(f, "Flush")
        <3>1. UNCHANGED kernelVars /\ UNCHANGED workers
            BY <1>9, <2>3 DEF RouteFrame
        <3>2. \/ host' = [host EXCEPT !.at = "Flush", !.frame = NoFrame]
              \/ \E step \in {"Idle", "FailedCatalog", "Flush", "Lose"} : Go(step)
            BY <1>9, <2>3 DEF RouteFrame
        <3>3. ASSUME NEW step \in {"Idle", "FailedCatalog", "Flush", "Lose"}, Go(step)
              PROVE  host'.at # "Activate"
            BY <3>3 DEF Go
        <3>4. ASSUME host' = [host EXCEPT !.at = "Flush", !.frame = NoFrame]
              PROVE  host'.at # "Activate"
            <4>1. host \in [at : Steps \cup Failures, frame : Frames \cup {NoFrame},
                            caught : BOOLEAN]
                BY DEF HostInv, Typed, RoleTypes, HostTyped
            <4>2. [host EXCEPT !.at = "Flush", !.frame = NoFrame].at = "Flush"
                BY <4>1
            <4> QED
                BY <3>4, <4>2
        <3>5. host'.at # "Activate"
            BY <3>2, <3>3, <3>4
        <3> QED
            BY <2>1, <3>1, <3>5, KernelUntouched, SuccessorAlone
    <2> QED
        BY <2>2, <2>3
<1> QED
    BY <1>1, <1>2, <1>3, <1>4, <1>5, <1>6, <1>7, <1>8, <1>9 DEF Continue

\* A new candidate is of the release to be recovered, or of one that reads its
\* state.
LEMMA LaunchSucceeds ==
    ASSUME HostInv, Succession, NEW t \in Tokens, NEW release \in Releases,
           NEW purpose \in Purposes, Launches(t, release, purpose),
           UNCHANGED <<host, rollover, published, phase, recoveryRelease, sealed>>,
           ~ At("Activate"), rollover # "Draining",
           IF purpose = "Recovery" THEN release = recoveryRelease
           ELSE <<release, recoveryRelease>> \in Accepts
    PROVE  Succession'
<1>1. workers'[t].release = release
    BY SpawnTyped DEF Launches, HostInv, Typed, RoleTypes
<1>2. candidate'.token = t /\ candidate'.purpose = purpose
    BY DEF Launches, Candidate
<1> QED
    BY <1>1, <1>2 DEF Succession, At, Purposes

LEMMA TickSucceeds ==
    ASSUME HostInv, KP!SnapshotInv', Succession, Tick
    PROVE  Succession'
<1>1. CASE GraceExpires
    <2>1. /\ candidate'.token = candidate.token /\ candidate'.purpose = candidate.purpose
          /\ candidate.purpose = "Rollover"
        BY <1>1 DEF GraceExpires, HostInv, Typed, RoleTypes, RolesTyped
    <2>2. SameSuccessor
        BY <1>1, <2>1, KernelUntouched DEF GraceExpires, releaseVars, publicVars,
            journalVars, SameSuccessor, HasCandidate
    <2> QED
        BY <1>1, <2>2, SuccessionKept DEF GraceExpires, Go
<1>2. CASE DeadlineExpires
    <2>1. CASE DropRecoveryCandidate
        BY <1>2, <2>1, KernelUntouched, DropSucceeds DEF DeadlineExpires, Deadlined, At,
            releaseVars, journalVars
    <2>2. CASE ~ DropRecoveryCandidate
        BY <1>2, <2>2, KernelUntouched, SuccessorAlone DEF DeadlineExpires, releaseVars,
            publicVars, journalVars, Go
    <2> QED
        BY <2>1, <2>2
<1>3. CASE RefuseRelease
    BY <1>3, KernelUntouched, SuccessorAlone DEF RefuseRelease, roleVars, publicVars,
        journalVars
<1>4. ASSUME NEW t \in Tokens, StartRecovery(t) PROVE Succession'
    <2>1. /\ ~ HasCandidate /\ rollover = "Recovering" /\ ~ At("Activate")
          /\ UNCHANGED <<phase, published, recoveryRelease, sealed>>
        BY <1>4, KernelUntouched DEF StartRecovery, At, releaseVars, publicVars, journalVars
    <2>2. CASE phase \in {"Cold", "Initializing"}
        <3>1. candidate' = candidate /\ host'.at # "Activate"
            BY <1>4, <2>2 DEF StartRecovery, HostInv, Typed, RoleTypes, HostTyped
        <3> QED
            BY <2>1, <3>1 DEF Succession, At, HasCandidate
    <2>3. CASE phase \notin {"Cold", "Initializing"}
        <3>1. /\ Launches(t, recoveryRelease, "Recovery")
              /\ UNCHANGED <<host, rollover>>
              /\ recoveryRelease \in Releases /\ "Recovery" \in Purposes
            BY <1>4, <2>3 DEF StartRecovery, HostInv, Typed, RoleTypes, ReleasesTyped, Purposes
        <3> QED
            BY <2>1, <3>1, LaunchSucceeds
    <2> QED
        BY <2>2, <2>3
<1>5. ASSUME NEW t \in Tokens, StartRollover(t) PROVE Succession'
    <2>1. /\ Launches(t, channel, "Rollover") /\ rollover = "None" /\ ~ At("Activate")
          /\ UNCHANGED <<host, rollover, published, phase, recoveryRelease, sealed>>
          /\ channel \in Releases /\ "Rollover" \in Purposes
        BY <1>5, KernelUntouched DEF StartRollover, ObservesNewRelease, At, releaseVars,
            publicVars, journalVars, HostInv, Typed, RoleTypes, ReleasesTyped, Purposes
    <2>2. <<channel, recoveryRelease>> \in Accepts
        BY <1>5 DEF StartRollover, ObservesNewRelease, Readable, HostInv, Coordinated,
            CatalogCoherence
    <2> QED
        BY <2>1, <2>2, LaunchSucceeds
<1> QED
    BY <1>1, <1>2, <1>3, <1>4, <1>5 DEF Tick

LEMMA StepSucceeds == HostInv /\ Succession /\ [Next]_vars => Succession'
<1> SUFFICES ASSUME HostInv, Succession, [Next]_vars PROVE Succession'
    OBVIOUS
<1>a. KP!SnapshotInv'
    BY KernelKeeps DEF HostInv
<1>1. ASSUME NEW release \in Releases, Publish(release) PROVE Succession'
    BY <1>1, KernelUntouched, SuccessorAlone DEF Publish, roleVars, publicVars, journalVars
<1>2. CASE UNCHANGED vars
    BY <1>2, KernelUntouched, SuccessorAlone DEF vars, roleVars, releaseVars, publicVars,
        journalVars
<1> QED
    BY <1>a, <1>1, <1>2, ClientSucceeds, ActiveSucceeds, CandidateSucceeds, WorkersSucceed,
        ContinueSucceeds, TickSucceeds DEF Next

\* Activation is reached only by a candidate that may take over.
LEMMA SuccessionAlways == Spec => []Succession
<1>1. Init => Succession
    <2> SUFFICES ASSUME Init PROVE Succession
        OBVIOUS
    <2>1. candidate = NoCandidate /\ sealed = FALSE /\ host.at = "Idle"
        BY DEF Init, InitWith, InitRest
    <2> QED
        BY <2>1 DEF Succession, HasCandidate, NoCandidate, Candidate, At
<1> QED
    BY <1>1, StepSucceeds, HostAlways, PTL DEF Spec

-----------------------------------------------------------------------------
(* The host implements the law of the session                              *)

Serving == IF HasActive THEN recoveryRelease ELSE NoRelease
Fenced == HasActive /\ GatingNewWork
Session == IF sealed THEN <<>> ELSE journal

\* The release and the session the law reads off the active worker are those
\* the host itself has on record.
AsRecorded ==
    /\ (IF HasActive THEN workers[active].release ELSE NoRelease) = Serving
    /\ (IF sealed THEN <<>> ELSE IF HasActive THEN workers[active].applied ELSE journal)
            = Session

LEMMA Recorded == HostInv => AsRecorded
BY DEF AsRecorded, HostInv, Coordinated, CatalogCoherence, SameSession, Serving, Session

LEMMA RecordedNext == HostInv' => AsRecorded'
BY Recorded, PTL

Requests == <<unanswered, InFlight, DOMAIN pending>>
Authority == <<Serving, Fenced, recoveryRelease, published>>
State == <<Session, sealed>>

LEMMA AuthorityKept ==
    /\ UNCHANGED <<active, rollover, recoveryRelease, published>> => UNCHANGED Authority
    /\ UNCHANGED journalVars => UNCHANGED State
BY DEF Authority, State, Serving, Fenced, Session, HasActive, GatingNewWork, journalVars

LEMMA ServesAlike == HostInv => (Law!Serves <=> HasActive) /\ (HasActive => Serving = recoveryRelease)
<1> SUFFICES ASSUME HostInv PROVE (Law!Serves <=> HasActive) /\ (HasActive => Serving = recoveryRelease)
    OBVIOUS
<1>1. recoveryRelease \in Releases /\ NoRelease \notin Releases
    BY RolesAssumption DEF HostInv, Typed, RoleTypes, ReleasesTyped
<1> QED
    BY <1>1, Recorded DEF AsRecorded, Serving, Law!Serves

LEMMA LawStutters ==
    ASSUME HostInv, HostInv', UNCHANGED Requests, UNCHANGED Authority, UNCHANGED State
    PROVE  UNCHANGED Law!lawVars
BY Recorded, RecordedNext DEF AsRecorded, Requests, Authority, State, Fenced,
    Law!lawVars, Law!requestVars, Law!authorityVars, Law!stateVars

LEMMA LawAccepts ==
    ASSUME HostInv, HostInv', NEW id \in Ids, id \notin unanswered,
           unanswered' = unanswered \cup {id},
           UNCHANGED <<InFlight, DOMAIN pending>>, UNCHANGED Authority, UNCHANGED State
    PROVE  Law!Accept(id)
BY Recorded, RecordedNext DEF AsRecorded, Authority, State, Fenced,
    Law!Accept, Law!authorityVars, Law!stateVars

LEMMA LawDispatches ==
    ASSUME HostInv, HostInv', NEW id \in Ids, HasActive, ~ GatingNewWork,
           id \notin DOMAIN pending,
           unanswered' = unanswered \cup {id},
           InFlight' = InFlight \cup {id}, DOMAIN pending' = DOMAIN pending \cup {id},
           UNCHANGED Authority, UNCHANGED State
    PROVE  Law!Dispatch(id)
<1>1. InFlight \subseteq DOMAIN pending
    BY DEF InFlight
<1>2. (DOMAIN pending \ InFlight)' = DOMAIN pending \ InFlight
    BY <1>1
<1>3. id \notin InFlight \cup (DOMAIN pending \ InFlight)
    BY <1>1
<1> QED
    BY <1>2, <1>3, Recorded, RecordedNext, ServesAlike DEF AsRecorded, Authority, State,
        Fenced, Law!Dispatch, Law!authorityVars, Law!stateVars

LEMMA LawReplays ==
    ASSUME HostInv, HostInv', NEW id \in Ids, HasActive, ~ GatingNewWork,
           id \in DOMAIN pending \ InFlight,
           InFlight' = InFlight \cup {id}, UNCHANGED <<unanswered, DOMAIN pending>>,
           UNCHANGED Authority, UNCHANGED State
    PROVE  Law!Replay(id)
<1>1. (DOMAIN pending \ InFlight)' = (DOMAIN pending \ InFlight) \ {id}
    OBVIOUS
<1> QED
    BY <1>1, Recorded, RecordedNext, ServesAlike DEF AsRecorded, Authority, State,
        Fenced, Law!Replay, Law!authorityVars, Law!stateVars

LEMMA LawAnswers ==
    ASSUME HostInv, HostInv', NEW id \in Ids, id \in unanswered \ DOMAIN pending,
           unanswered' = unanswered \ {id},
           UNCHANGED <<InFlight, DOMAIN pending>>, UNCHANGED Authority, UNCHANGED State
    PROVE  Law!Answer(id)
<1>1. id \notin InFlight \cup (DOMAIN pending \ InFlight)
    BY DEF InFlight
<1> QED
    BY <1>1, Recorded, RecordedNext DEF AsRecorded, Authority, State, Fenced,
        Law!Answer, Law!authorityVars, Law!stateVars

\* Draining starts or ends, and nothing else happens.
LEMMA LawFences ==
    ASSUME HostInv, HostInv', UNCHANGED Requests, UNCHANGED State,
           UNCHANGED <<active, recoveryRelease, published>>
    PROVE  [Law!Fence({}) \/ Law!Lift]_(Law!lawVars)
<1>a. UNCHANGED <<Serving, recoveryRelease, published>> /\ HasActive' = HasActive
    BY DEF Serving, HasActive
<1>b. Fenced \in BOOLEAN /\ Fenced' \in BOOLEAN /\ (Fenced' => HasActive)
    BY <1>a DEF Fenced
<1>1. CASE Fenced' = Fenced
    BY <1>a, <1>1, LawStutters DEF Authority
<1>2. CASE ~ Fenced /\ Fenced'
    <2>1. Law!Fence({})
        BY <1>a, <1>b, <1>2, Recorded, RecordedNext, ServesAlike DEF AsRecorded, Fenced,
            Requests, State, Law!Fence, Law!stateVars
    <2> QED
        BY <2>1
<1>3. CASE Fenced /\ ~ Fenced'
    <2>1. Law!Lift
        BY <1>a, <1>b, <1>3, Recorded, RecordedNext, ServesAlike DEF AsRecorded, Fenced,
            Requests, State, Law!Lift, Law!requestVars, Law!stateVars
    <2> QED
        BY <2>1
<1> QED
    BY <1>b, <1>1, <1>2, <1>3

\* Between states of the host, a step of the law or nothing.
LawStep == [Law!Next]_(Law!lawVars)

LEMMA QuietLaw ==
    ASSUME HostInv, HostInv', Quiet
    PROVE  LawStep
<1>1. UNCHANGED Requests /\ UNCHANGED State
    BY AuthorityKept DEF Quiet, Requests, InFlight, journalVars
<1>2. [Law!Fence({}) \/ Law!Lift]_(Law!lawVars)
    BY <1>1, LawFences DEF Quiet
<1>3. {} \in SUBSET Ids
    OBVIOUS
<1> QED
    BY <1>2, <1>3 DEF LawStep, Law!Next

LEMMA ClientLaw ==
    ASSUME HostInv, HostInv', NEW f \in Frames,
           \/ ClientInitializes(f) \/ ClientQueues(f)
           \/ ClientRefreshes(f) \/ ClientCalls(f)
    PROVE  LawStep
<1>a. KP!SnapshotInv /\ KP!SnapshotInv'
    BY DEF HostInv, Typed
<1>b. UNCHANGED <<active, recoveryRelease, published>> /\ UNCHANGED State
    BY AuthorityKept DEF ClientInitializes, ClientQueues, ClientRefreshes, ClientCalls,
        ReceivesRequest, Receives, releaseVars
<1>1. CASE ClientInitializes(f)
    <2>1. /\ f.id \in Ids /\ f.id \notin unanswered /\ unanswered' = unanswered \cup {f.id}
          /\ UNCHANGED <<InFlight, DOMAIN pending>> /\ UNCHANGED rollover
        BY <1>1, FrameIds, HandshakeSeen DEF ClientInitializes, ReceivesRequest,
            K!ObserveInitialize, K!IsInitialize
    <2>2. Law!Accept(f.id)
        BY <1>b, <2>1, AuthorityKept, LawAccepts
    <2> QED
        BY <2>1, <2>2 DEF LawStep, Law!Next
<1>2. CASE ClientQueues(f)
    <2>1. UNCHANGED <<InFlight, DOMAIN pending>> /\ UNCHANGED Authority
        BY <1>a, <1>b, <1>2, HostQueues, AuthorityKept DEF ClientQueues
    <2>2. CASE K!IsRequest(f)
        <3>1. /\ f.id \in Ids /\ f.id \notin unanswered
              /\ unanswered' = unanswered \cup {f.id}
            BY <1>2, <2>2, FrameIds DEF ClientQueues, ReceivesRequest
        <3>2. Law!Accept(f.id)
            BY <1>b, <2>1, <3>1, LawAccepts
        <3> QED
            BY <3>1, <3>2 DEF LawStep, Law!Next
    <2>3. CASE ~ K!IsRequest(f)
        <3>1. UNCHANGED unanswered
            BY <1>2, <2>3 DEF ClientQueues
        <3> QED
            BY <1>b, <2>1, <3>1, LawStutters DEF LawStep, Requests
    <2> QED
        BY <2>2, <2>3
<1>3. CASE ClientRefreshes(f)
    <2>1. /\ f.id \in Ids /\ f.id \notin unanswered /\ unanswered' = unanswered \cup {f.id}
          /\ rollover = "AwaitingCatalogRefresh" /\ rollover' = "Draining"
        BY <1>3, FrameIds DEF ClientRefreshes, ReceivesRequest
    <2>2. UNCHANGED <<InFlight, DOMAIN pending>>
        BY <1>3, KernelUntouched DEF ClientRefreshes
    <2>3. HasActive' = HasActive /\ ~ Fenced /\ (Fenced' <=> HasActive) /\ Serving' = Serving
        BY <1>b, <2>1 DEF HasActive, Fenced, GatingNewWork, Serving
    <2>4. CASE ~ HasActive
        <3>1. UNCHANGED Authority
            BY <1>b, <2>3, <2>4 DEF Authority, Fenced
        <3>2. Law!Accept(f.id)
            BY <1>b, <2>1, <2>2, <3>1, LawAccepts
        <3> QED
            BY <2>1, <3>2 DEF LawStep, Law!Next
    <2>5. CASE HasActive
        <3>1. Fenced' = TRUE
            BY <2>3, <2>5 DEF Fenced
        <3>2. Law!Fence({f.id})
            BY <1>b, <2>1, <2>2, <2>3, <2>5, <3>1, Recorded, RecordedNext, ServesAlike
                DEF AsRecorded, State, Fenced, Law!Fence, Law!stateVars
        <3>3. {f.id} \in SUBSET Ids
            BY <2>1
        <3> QED
            BY <3>2, <3>3 DEF LawStep, Law!Next
    <2> QED
        BY <2>4, <2>5
<1>4. CASE ClientCalls(f)
    <2>1. /\ HasActive /\ ~ GatingNewWork /\ UNCHANGED Authority
          /\ Classify(f) \in K!Contracts /\ K!BeginRequestDispatch(f, Classify(f))
          /\ unanswered' = unanswered \cup {f.id}
        BY <1>b, <1>4, ClassifiedType, AuthorityKept DEF ClientCalls, MustQueue, ReceivesRequest
    <2>2. /\ f.id \in Ids /\ f.id \notin DOMAIN pending
          /\ InFlight' = InFlight \cup {f.id}
          /\ DOMAIN pending' = DOMAIN pending \cup {f.id}
        BY <1>a, <2>1, HostBegins DEF KernelHolds
    <2>3. Law!Dispatch(f.id)
        BY <1>b, <2>1, <2>2, LawDispatches
    <2> QED
        BY <2>2, <2>3 DEF LawStep, Law!Next
<1> QED
    BY <1>1, <1>2, <1>3, <1>4

\* What is done with the request in hand, by the law.
LEMMA DispatchLaw ==
    ASSUME HostInv, HostInv', KeptOnce, NEW next, host.frame \in Frames,
           K!IsRequest(host.frame), HasActive, ~ GatingNewWork,
           Dispatch(host.frame, next), UNCHANGED Authority, UNCHANGED State
    PROVE  LawStep
<1> DEFINE f == host.frame
<1>1. f # NoFrame /\ f.id \in Ids /\ KP!SnapshotInv
    BY KernelAssumption, FrameIds DEF K!FramesAssumption, HostInv, Typed
<1>2. f.id \in unanswered \ KernelHolds /\ DOMAIN pending \subseteq KernelHolds
    BY <1>1 DEF KeptOnce, KernelHolds
<1>3. CASE K!MayBegin(f)
    <2>1. /\ Classify(f) \in K!Contracts /\ K!BeginRequestDispatch(f, Classify(f))
          /\ UNCHANGED unanswered
        BY <1>3, ClassifiedType DEF Dispatch
    <2>2. InFlight' = InFlight \cup {f.id} /\ DOMAIN pending' = DOMAIN pending \cup {f.id}
        BY <1>1, <2>1, HostBegins
    <2>3. unanswered' = unanswered \cup {f.id}
        BY <1>2, <2>1
    <2>4. Law!Dispatch(f.id)
        BY <1>1, <1>2, <2>2, <2>3, LawDispatches
    <2> QED
        BY <1>1, <2>4 DEF LawStep, Law!Next
<1>4. CASE ~ K!MayBegin(f)
    <2>1. unanswered' = unanswered \ {f.id} /\ UNCHANGED <<InFlight, DOMAIN pending>>
        BY <1>4, KernelUntouched DEF Dispatch
    <2>2. Law!Answer(f.id)
        BY <1>1, <1>2, <2>1, LawAnswers
    <2> QED
        BY <1>1, <2>2 DEF LawStep, Law!Next
<1> QED
    BY <1>3, <1>4

\* The request in hand is answered by the host.
LEMMA AnswerLaw ==
    ASSUME HostInv, HostInv', KeptOnce, host.frame \in Frames, K!IsRequest(host.frame),
           UNCHANGED kernelVars, unanswered' = unanswered \ {host.frame.id},
           UNCHANGED Authority, UNCHANGED State
    PROVE  LawStep
<1>1. host.frame # NoFrame /\ host.frame.id \in Ids
    BY KernelAssumption, FrameIds DEF K!FramesAssumption
<1>2. host.frame.id \in unanswered \ DOMAIN pending
    BY <1>1 DEF KeptOnce, KernelHolds
<1>3. UNCHANGED <<InFlight, DOMAIN pending>>
    BY KernelUntouched
<1>4. Law!Answer(host.frame.id)
    BY <1>1, <1>2, <1>3, LawAnswers
<1> QED
    BY <1>1, <1>4 DEF LawStep, Law!Next

LEMMA RouteLaw ==
    ASSUME HostInv, HostInv', KeptOnce, RouteInitialize \/ RouteFrame
    PROVE  LawStep
<1> DEFINE f == host.frame
<1>a. f \in Frames /\ KP!SnapshotInv /\ KP!SnapshotInv'
    BY DEF RouteInitialize, RouteFrame, At, HostInv, Typed, RoleTypes, HostTyped
<1>b. UNCHANGED Authority /\ UNCHANGED State
    BY AuthorityKept DEF RouteInitialize, RouteFrame, roleVars, releaseVars, publicVars
<1>1. CASE RouteInitialize
    <2>1. f.method = "initialize" /\ K!IsRequest(f)
        BY <1>a, <1>1, FrameIds DEF RouteInitialize, At, HostInv, Typed, RoleTypes, HostTyped
    <2>2. CASE ~ MustQueue(f) /\ Dispatch(f, "Idle")
        BY <1>a, <1>b, <2>1, <2>2, DispatchLaw DEF MustQueue
    <2>3. CASE K!QueueClientFrame(f) /\ UNCHANGED unanswered
        <3>1. UNCHANGED Requests
            BY <1>a, <2>3, HostQueues DEF Requests
        <3> QED
            BY <1>b, <3>1, LawStutters DEF LawStep
    <2>4. CASE unanswered' = unanswered \ {f.id} /\ UNCHANGED kernelVars
        BY <1>a, <1>b, <2>1, <2>4, AnswerLaw
    <2> QED
        BY <1>1, <2>2, <2>3, <2>4 DEF RouteInitialize
<1>2. CASE RouteFrame
    <2>1. HasActive /\ ~ GatingNewWork
        BY <1>2 DEF RouteFrame, At, HostInv, Typed, RoleTypes, HostTyped, Coordinated,
            Fences, GatingNewWork
    <2>2. CASE K!IsRequest(f) /\ Dispatch(f, "Flush")
        BY <1>a, <1>b, <2>1, <2>2, DispatchLaw
    <2>3. CASE f.method = "list" /\ unanswered' = unanswered \ {f.id} /\ UNCHANGED kernelVars
        <3>1. K!IsRequest(f)
            BY <1>a, <2>3, FrameIds
        <3> QED
            BY <1>a, <1>b, <2>3, <3>1, AnswerLaw
    <2>4. CASE UNCHANGED kernelVars /\ UNCHANGED unanswered
        <3>1. UNCHANGED Requests
            BY <2>4, KernelUntouched DEF Requests
        <3> QED
            BY <1>b, <3>1, LawStutters DEF LawStep
    <2> QED
        BY <1>2, <2>2, <2>3, <2>4 DEF RouteFrame
<1> QED
    BY <1>1, <1>2

LEMMA FlushLaw ==
    ASSUME HostInv, HostInv', FlushReplays \/ FlushPops
    PROVE  LawStep
<1>a. KP!SnapshotInv /\ KP!SnapshotInv' /\ UNCHANGED unanswered
    BY DEF FlushReplays, FlushPops, HostInv, Typed
<1>b. UNCHANGED Authority /\ UNCHANGED State
    BY AuthorityKept DEF FlushReplays, FlushPops, roleVars, releaseVars, publicVars
<1>1. CASE FlushReplays
    <2> DEFINE id == Head(queue).id
    <2>1. HasActive /\ ~ GatingNewWork /\ K!PopReplay
        BY <1>1 DEF FlushReplays, Flushes, GatingNewWork
    <2>2. /\ id \in DOMAIN pending /\ DOMAIN pending' = DOMAIN pending
          /\ InFlight' = InFlight \cup {id}
        BY <1>a, <2>1, HostReplays
    <2>3. id \in Ids
        BY <1>a, <2>2, PendingFrames
    <2>4. CASE id \in InFlight
        <3>1. UNCHANGED Requests
            BY <1>a, <2>2, <2>4 DEF Requests
        <3> QED
            BY <1>b, <3>1, LawStutters DEF LawStep
    <2>5. CASE id \notin InFlight
        <3> HIDE DEF id
        <3>1. Law!Replay(id)
            BY <1>a, <1>b, <2>1, <2>2, <2>3, <2>5, LawReplays
        <3> QED
            BY <2>3, <3>1 DEF LawStep, Law!Next
    <2> QED
        BY <2>4, <2>5
<1>2. CASE FlushPops
    <2>1. UNCHANGED Requests
        BY <1>a, <1>2, HostPops DEF FlushPops, Requests
    <2> QED
        BY <1>b, <2>1, LawStutters DEF LawStep
<1> QED
    BY <1>1, <1>2

\* A key occurs once in a session, so that to take it out is the same by its
\* first entry and by any.
LEMMA WithoutIsCompacted ==
    ASSUME NEW s \in Sessions, NEW tool
    PROVE  Compacted(s, tool) = Law!Without(s, tool)
<1>1. CASE \A i \in DOMAIN s : s[i] # tool
    BY <1>1 DEF Compacted, Law!Without
<1>2. ASSUME NEW k \in DOMAIN s, s[k] = tool
      PROVE  Compacted(s, tool) = Law!Without(s, tool)
    <2> DEFINE IsFirst(i) == s[i] = tool /\ \A j \in 1..(i - 1) : s[j] # tool
    <2> DEFINE first == CHOOSE i \in DOMAIN s : IsFirst(i)
               some == CHOOSE j \in DOMAIN s : s[j] = tool
    <2>1. /\ DOMAIN s = 1..Len(s) /\ Len(s) \in Nat
          /\ \A i, j \in DOMAIN s : s[i] = s[j] => i = j
        BY LenProperties DEF Sessions
    <2>2. \A j \in 1..(k - 1) : j \in DOMAIN s /\ j # k
        BY <2>1
    <2>3. IsFirst(k)
        BY <1>2, <2>1, <2>2
    <2>4. first \in DOMAIN s /\ IsFirst(first)
        BY <2>3
    <2>5. some \in DOMAIN s /\ s[some] = tool
        BY <1>2
    <2>6. first = some
        BY <2>1, <2>4, <2>5
    <2>7. Compacted(s, tool) = SubSeq(s, 1, first - 1) \o SubSeq(s, first + 1, Len(s))
        BY <1>2 DEF Compacted
    <2>8. Law!Without(s, tool) = SubSeq(s, 1, some - 1) \o SubSeq(s, some + 1, Len(s))
        BY <1>2 DEF Law!Without
    <2> HIDE DEF first, some
    <2> QED
        BY <2>6, <2>7, <2>8
<1> QED
    BY <1>1, <1>2

\* What an answer does to the session, by the law.
LEMMA ResponseMoves ==
    ASSUME HostInv, HostInv', NEW id \in Ids, NEW hasError \in BOOLEAN,
           ActiveResponds(id, hasError)
    PROVE  Law!Moves
<1> DEFINE f == pending[id].frame
<1>a. IF hasError THEN UNCHANGED journalVars ELSE RecordSessionTransition(f)
    BY DEF ActiveResponds
<1>b. /\ f \in Frames /\ f.body.tool \in Tools
      /\ journal \in Sessions /\ sealed \in BOOLEAN /\ sealed' \in BOOLEAN
    BY PendingFrames DEF ActiveResponds, K!CompleteResponse, HostInv, Typed, RoleTypes,
        JournalTyped, Tools
<1>c. Session' = IF sealed' THEN <<>> ELSE journal'
    BY DEF Session
<1> HIDE DEF f
<1>1. CASE UNCHANGED State
    BY <1>1, Recorded, RecordedNext DEF AsRecorded, State, Law!Moves, Law!stateVars
<1>2. CASE sealed'
    <2>1. Session' = <<>> /\ (~ sealed)' = FALSE
        BY <1>c, <1>2
    <2> QED
        BY <2>1, RecordedNext DEF AsRecorded, Law!Moves
<1>3. ASSUME ~ sealed, ~ sealed', journal' = Append(Compacted(journal, f.body.tool), f.body.tool)
      PROVE  Law!Moves
    <2>1. Session = journal /\ Session' = journal'
        BY <1>c, <1>3 DEF Session
    <2>2. Session' = Append(Law!Without(Session, f.body.tool), f.body.tool)
        BY <1>b, <1>3, <2>1, WithoutIsCompacted
    <2> QED
        BY <1>b, <1>3, <2>2, Recorded, RecordedNext DEF AsRecorded, Law!Moves, Tools
<1>4. CASE hasError \/ ContractFor(f).state = "Stateless"
    <2>1. UNCHANGED journalVars
        BY <1>a, <1>4 DEF RecordSessionTransition, Journals
    <2> QED
        BY <1>1, <2>1, AuthorityKept
<1>5. CASE ~ hasError /\ ContractFor(f).state # "Stateless" /\ Journals(f)
    <2>1. RecordTransition(f.body.tool)
        BY <1>a, <1>5 DEF RecordSessionTransition
    <2>2. \/ sealed'
          \/ /\ journal' = Append(Compacted(journal, f.body.tool), f.body.tool)
             /\ sealed' = sealed
        BY <2>1 DEF RecordTransition
    <2> QED
        BY <1>2, <1>3, <2>2
<1>6. CASE ~ hasError /\ ContractFor(f).state # "Stateless" /\ ~ Journals(f)
    <2>1. sealed'
        BY <1>a, <1>6 DEF RecordSessionTransition
    <2> QED
        BY <1>2, <2>1
<1> QED
    BY <1>4, <1>5, <1>6

LEMMA RespondLaw ==
    ASSUME HostInv, HostInv', NEW id \in Ids, NEW hasError \in BOOLEAN,
           ActiveResponds(id, hasError)
    PROVE  LawStep
<1>1. /\ At("Idle") /\ HasActive /\ id \in workers[active].owes
      /\ unanswered' = unanswered \ {id}
    BY DEF ActiveResponds, Emits, HasActive
<1>2. id \in InFlight
    BY <1>1 DEF HostInv, Coordinated, GenerationPinned, At
<1>3. InFlight' = InFlight \ {id} /\ DOMAIN pending' = DOMAIN pending \ {id}
    BY HostCompletes DEF ActiveResponds, HostInv, Typed
<1>4. (DOMAIN pending \ InFlight)' = DOMAIN pending \ InFlight
    BY <1>2, <1>3
<1>5. UNCHANGED Authority
    BY AuthorityKept DEF ActiveResponds, roleVars, releaseVars, publicVars
<1>6. Law!Respond(id)
    BY <1>1, <1>2, <1>3, <1>4, <1>5, ResponseMoves, Recorded, RecordedNext, ServesAlike
        DEF AsRecorded, Authority, Fenced, Law!Respond, Law!authorityVars
<1> QED
    BY <1>6 DEF LawStep, Law!Next

LEMMA LearnLaw ==
    ASSUME HostInv, HostInv', NEW hasError \in BOOLEAN, ActiveCatalogArrives(hasError)
    PROVE  LawStep
<1>1. /\ UNCHANGED <<active, rollover, recoveryRelease>> /\ UNCHANGED State
      /\ UNCHANGED Requests
    BY KernelUntouched, AuthorityKept DEF ActiveCatalogArrives, Answers, releaseVars, Requests
<1>2. CASE hasError
    <2>1. UNCHANGED Authority
        BY <1>1, <1>2, AuthorityKept DEF ActiveCatalogArrives
    <2> QED
        BY <1>1, <2>1, LawStutters DEF LawStep
<1>3. CASE ~ hasError
    <2>1. HasActive /\ Asking(active, "ActiveCatalog", 0) \in internal
        BY DEF ActiveCatalogArrives, Answers, Emits, HasActive
    <2>2. candidate.stage \in Stages
        BY RoleParts DEF HostInv
    <2>3. published = NoCatalog
        BY <2>1, <2>2, ExpectedOf DEF HostInv, Coordinated, Owners, Asking, Stages
    <2>4. published' = CatalogOf[workers[active].release]
        BY <1>3 DEF ActiveCatalogArrives
    <2>5. UNCHANGED <<Serving, Fenced>>
        BY <1>1 DEF Serving, Fenced, HasActive, GatingNewWork
    <2>6. Law!Learn
        BY <1>1, <2>1, <2>3, <2>4, <2>5, Recorded, RecordedNext, ServesAlike
            DEF AsRecorded, Requests, State, Fenced, Law!Learn, Law!requestVars, Law!stateVars
    <2> QED
        BY <2>6 DEF LawStep, Law!Next
<1> QED
    BY <1>2, <1>3

LEMMA LoseLaw ==
    ASSUME HostInv, HostInv', LoseActive
    PROVE  LawStep
<1>1. /\ HasActive /\ active' = NoWorker /\ unanswered' = unanswered \ Rejected
      /\ UNCHANGED <<recoveryRelease, published>> /\ UNCHANGED State
    BY AuthorityKept DEF LoseActive, releaseVars, publicVars, HostInv, Coordinated, Fences
<1>2. InFlight' = {} /\ DOMAIN pending' \subseteq DOMAIN pending
    BY HostRequeues DEF LoseActive, HostInv, Typed
<1>3. ~ HasActive' /\ Serving' = NoRelease /\ Fenced' = FALSE
    BY <1>1 DEF HasActive, Serving, Fenced
<1>4. Rejected \in SUBSET Ids
    BY PendingFrames DEF Rejected, HostInv, Typed
<1>5. PICK some \in SUBSET Ids : some = Rejected
    BY <1>4
<1>6. /\ InFlight \cup (DOMAIN pending \ InFlight) = DOMAIN pending
      /\ some \subseteq DOMAIN pending
      /\ (DOMAIN pending \ InFlight)' = DOMAIN pending \ some
    BY <1>2, <1>5 DEF Rejected, InFlight
<1>7. Law!Lose(some)
    BY <1>1, <1>2, <1>3, <1>5, <1>6, Recorded, RecordedNext, ServesAlike
        DEF AsRecorded, State, Fenced, Law!Lose, Law!stateVars
<1> QED
    BY <1>7 DEF LawStep, Law!Next

\* The refresh that activation answers is the host's to answer.
LEMMA RefreshUntouched ==
    ASSUME HostInv, KeptOnce
    PROVE  RefreshAnswered \in SUBSET Ids /\ RefreshAnswered \subseteq unanswered \ DOMAIN pending
<1>1. RefreshAnswered = IF refreshRequest = NoFrame THEN {} ELSE {refreshRequest.id}
    BY DEF RefreshAnswered
<1>2. unanswered \subseteq Ids
    BY DEF HostInv, Typed, RoleTypes, PublicTyped
<1> QED
    BY <1>1, <1>2 DEF KeptOnce, KernelHolds

LEMMA ActivateLaw ==
    ASSUME HostInv, HostInv', KeptOnce, Succession, ActivateCandidate
    PROVE  LawStep
<1> DEFINE release == workers[candidate.token].release
<1>1. /\ At("Activate") /\ HasCandidate /\ active' = candidate.token
      /\ published' = CandidateCatalog /\ recoveryRelease' = release
      /\ rollover' = "None" /\ UNCHANGED State
      /\ unanswered' \in {unanswered, unanswered \ RefreshAnswered}
      /\ UNCHANGED <<InFlight, DOMAIN pending>>
    BY KernelUntouched, AuthorityKept DEF ActivateCandidate, PhaseActivated
<1>2. PICK some \in SUBSET Ids :
        some \subseteq unanswered \ DOMAIN pending /\ unanswered' = unanswered \ some
    <2>1. CASE unanswered' = unanswered
        <3>1. {} \in SUBSET Ids /\ unanswered' = unanswered \ {}
            BY <2>1
        <3> QED
            BY <3>1
    <2>2. CASE unanswered' = unanswered \ RefreshAnswered
        BY <2>2, RefreshUntouched
    <2> QED
        BY <1>1, <2>1, <2>2
<1>3. release \in Releases /\ HasActive' /\ Serving' = release /\ Fenced' = FALSE
    BY <1>1, RoleParts DEF HasActive, HasCandidate, Serving, Fenced, GatingNewWork,
        HostInv, Typed, RoleTypes, WorkersTyped, WorkerState
<1>4. ~ sealed /\ InFlight = {}
    BY <1>1 DEF Succession, HostInv, Coordinated, Quiescence
<1>5. some \subseteq unanswered \ (InFlight \cup (DOMAIN pending \ InFlight))
    BY <1>2 DEF InFlight
<1>6. candidate.purpose = IF HasActive THEN "Rollover" ELSE "Recovery"
    BY <1>1, RoleParts DEF HostInv, Coordinated, FenceHasCause, Purposes
<1>7. candidate.stage \in {"Ready", "Restoring"} => CandidateCatalog = CatalogOf[release]
    BY DEF CandidateCatalog
<1> HIDE DEF release
<1>8. CASE HasActive
    <2>1. phase = "Live"
        BY <1>1, <1>8 DEF HostInv, Coordinated, Fences
    <2>2. candidate.stage \in {"Ready", "Restoring"} /\ rollover = "Draining"
        BY <1>1, <2>1 DEF Succession
    <2>3. <<release, recoveryRelease>> \in Accepts
        BY <1>1, <1>6, <1>8 DEF Succession, release
    <2>4. published' = CatalogOf[release] /\ Fenced = TRUE /\ Serving = recoveryRelease
        BY <1>1, <1>7, <1>8, <2>2, ServesAlike DEF Fenced, GatingNewWork
    <2>5. Law!Untouched(some)
        BY <1>1, <1>2, <1>5 DEF Law!Untouched
    <2>6. Law!Cutover(release, some)
        BY <1>1, <1>3, <1>4, <1>8, <2>3, <2>4, <2>5, Recorded, RecordedNext, ServesAlike
            DEF AsRecorded, State, Fenced, Law!Cutover, Law!stateVars
    <2> QED
        BY <1>3, <2>6 DEF LawStep, Law!Next
<1>9. CASE ~ HasActive
    <2>1. release = recoveryRelease /\ (rollover = "Draining" => published # NoCatalog)
        BY <1>1, <1>6, <1>9 DEF Succession, release
    <2>2. published' = published
        <3>1. CASE candidate.stage \in {"Ready", "Restoring"} /\ rollover = "Draining"
            BY <1>1, <1>7, <2>1, <3>1 DEF HostInv, Coordinated, CatalogCoherence
        <3>2. CASE candidate.stage = "Initializing" /\ phase = "AwaitingInitialized"
            BY <1>1, <3>2 DEF CandidateCatalog, HostInv, Coordinated, SameSession
        <3> QED
            BY <1>1, <3>1, <3>2 DEF Succession
    <2>3. Law!Untouched(some)
        BY <1>1, <1>2, <1>5 DEF Law!Untouched
    <2>4. Law!Resume(some)
        BY <1>1, <1>3, <1>4, <1>9, <2>1, <2>2, <2>3, Recorded, RecordedNext, ServesAlike
            DEF AsRecorded, State, Fenced, Law!Resume, Law!stateVars
    <2> QED
        BY <2>4 DEF LawStep, Law!Next
<1> QED
    BY <1>8, <1>9

LEMMA RecoverLaw ==
    ASSUME HostInv, HostInv', Succession, NEW t \in Tokens, StartRecovery(t)
    PROVE  LawStep
<1>1. /\ At("Idle") /\ rollover = "Recovering" /\ ~ HasCandidate
      /\ UNCHANGED <<recoveryRelease, published>> /\ UNCHANGED Requests /\ UNCHANGED State
    BY KernelUntouched, AuthorityKept DEF StartRecovery, releaseVars, publicVars, Requests
<1>2. CASE phase \notin {"Cold", "Initializing"}
    <2>1. UNCHANGED Authority
        BY <1>1, <1>2, AuthorityKept DEF StartRecovery
    <2> QED
        BY <1>1, <2>1, LawStutters DEF LawStep
<1>3. CASE phase \in {"Cold", "Initializing"}
    <2>1. active' = t /\ rollover' = "None"
        BY <1>3 DEF StartRecovery
    <2>2. ~ HasActive
        BY <1>1 DEF At, HostInv, Coordinated, FenceHasCause
    <2>3. HasActive' /\ Serving' = recoveryRelease /\ Fenced' = FALSE
        BY <1>1, <2>1, RolesAssumption DEF HasActive, Serving, Fenced, GatingNewWork
    <2>4. ~ sealed
        BY <1>3 DEF Succession
    <2>5. {} \in SUBSET Ids /\ unanswered' = unanswered \ {}
        BY <1>1 DEF Requests
    <2>6. Law!Untouched({})
        BY <1>1, <2>5 DEF Law!Untouched, Requests
    <2>7. Law!Resume({})
        BY <1>1, <2>2, <2>3, <2>4, <2>6, Recorded, RecordedNext, ServesAlike
            DEF AsRecorded, State, Fenced, Law!Resume, Law!stateVars
    <2> QED
        BY <2>5, <2>7 DEF LawStep, Law!Next
<1> QED
    BY <1>2, <1>3

\* The host keeps the law of the session, whatever handlers, workers, losses,
\* rollovers and recoveries do to each other: authority passes from a live
\* incumbent only behind a fence, with nothing in flight, to a generation that
\* reads its state and has the same session; after a loss the same generation
\* goes on with the session and the catalog the client knows; and the host
\* itself answers only what no worker has seen (formal_semantics.md, Theorems
\* 3, 4 and 6; activate_candidate, handle_worker_loss_by_id, start_recovery).
THEOREM HostImplementsSessionLaw == Spec => ImplementsSessionLaw
<1>1. Init => Law!Init
    <2> SUFFICES ASSUME Init PROVE Law!Init
        OBVIOUS
    <2>1. HostInv
        BY InitialHost
    <2>2. /\ active \in Tokens /\ rollover = "None" /\ recoveryRelease = InitialRelease
          /\ published = NoCatalog /\ journal = <<>> /\ sealed = FALSE
          /\ unanswered = {} /\ pending = [i \in {} |-> {}]
        BY DEF Init, InitWith, InitRest, K!Init
    <2>3. DOMAIN pending = {} /\ InFlight = {}
        BY <2>2 DEF InFlight
    <2>4. HasActive /\ ~ GatingNewWork
        BY <2>2, RolesAssumption DEF HasActive, GatingNewWork
    <2> QED
        BY <2>1, <2>2, <2>3, <2>4, Recorded DEF AsRecorded, Serving, Session, Law!Init
<1>2. Init => KeptOnce
    BY DEF Init, InitWith, InitRest, KeptOnce, KernelHolds, K!Init, K!QueuedIds
<1>3. HostInv /\ HostInv' /\ KeptOnce /\ Succession /\ [Next]_vars => LawStep
    BY QuietOrEventful, QuietLaw, ClientLaw, RouteLaw, FlushLaw, RespondLaw, LearnLaw,
        LoseLaw, ActivateLaw, RecoverLaw DEF Eventful
<1>4. HostInv /\ HostInv' /\ KeptOnce /\ Succession /\ [Next]_vars =>
        [Law!Next]_(Law!lawVars)
    BY <1>3 DEF LawStep
<1> QED
    BY <1>1, <1>2, <1>4, StepHeld, HostAlways, SuccessionAlways, PTL
        DEF Spec, ImplementsSessionLaw, Law!Spec

-----------------------------------------------------------------------------
(* What is proved of the kernel, in the host                               *)

\* The kernel's properties are the same by either name.
LEMMA SamePromises ==
    /\ KP!NoSilentDrop => K!NoSilentDrop
    /\ KP!BoundedDispatch => K!BoundedDispatch
    /\ [KP!OutcomesAreFinal]_(KP!vars) => [K!OutcomesAreFinal]_(K!vars)
    /\ [KP!RepeatsWithAuthority]_(KP!vars) => [K!RepeatsWithAuthority]_(K!vars)
    /\ [KP!RecoversInOrder]_(KP!vars) => [K!RecoversInOrder]_(K!vars)
<1>1. KP!NoSilentDrop => K!NoSilentDrop
    BY SameConstants DEF K!NoSilentDrop, KP!NoSilentDrop, K!Open, KP!Open
<1>2. KP!BoundedDispatch => K!BoundedDispatch
    BY SameConstants DEF K!BoundedDispatch, KP!BoundedDispatch
<1>3. KP!OutcomesAreFinal => K!OutcomesAreFinal
    BY SameConstants DEF K!OutcomesAreFinal, KP!OutcomesAreFinal, K!Outcomes, KP!Outcomes
<1>4. KP!RepeatsWithAuthority => K!RepeatsWithAuthority
    BY SameConstants DEF K!RepeatsWithAuthority, KP!RepeatsWithAuthority
<1>5. KP!RecoversInOrder => K!RecoversInOrder
    <2>1. \A s : K!ScheduledBefore(s) = KP!ScheduledBefore(s)
        BY SameConstants DEF K!ScheduledBefore, KP!ScheduledBefore
    <2> QED
        BY <2>1, SameConstants, SameObserve DEF K!RecoversInOrder, KP!RecoversInOrder
<1>6. KP!vars = K!vars /\ (UNCHANGED KP!vars => UNCHANGED K!vars)
    BY DEF KP!vars, K!vars
<1> QED
    BY <1>1, <1>2, <1>3, <1>4, <1>5, <1>6

\* The law of invocations is the same whichever kernel it is read off.
LEMMA SameInvocationLaw ==
    /\ KP!Law!Init => K!Law!Init
    /\ [KP!Law!Next]_(KP!Law!lawVars) => [K!Law!Next]_(K!Law!lawVars)
<1>1. K!Stage = KP!Stage
    BY SameConstants, Zenon DEF K!Stage, KP!Stage, K!RequestOf, KP!RequestOf
<1>2. (K!Stage = KP!Stage)'
    BY <1>1, PTL
<1>3. K!SequenceNumbers = KP!SequenceNumbers
    BY DEF K!SequenceNumbers, KP!SequenceNumbers
<1>4. \A s, c : KP!Law!Accept(s, c) => K!Law!Accept(s, c)
    BY <1>1, <1>2, <1>3, Zenon DEF K!Law!Accept, KP!Law!Accept
<1>5. \A s : KP!Law!Live(s) <=> K!Law!Live(s)
    BY <1>1, Zenon DEF K!Law!Live, KP!Law!Live
<1>6. \A s : KP!Law!Settle(s) => K!Law!Settle(s)
    BY <1>1, <1>2, <1>3, <1>5, Zenon DEF K!Law!Settle, KP!Law!Settle
<1>7. \A s : KP!Law!GiveEvidence(s) => K!Law!GiveEvidence(s)
    BY <1>1, <1>2, <1>3, Zenon DEF K!Law!GiveEvidence, KP!Law!GiveEvidence
<1>8. \A s : KP!Law!Replay(s) => K!Law!Replay(s)
    BY <1>1, <1>2, <1>3, Zenon DEF K!Law!Replay, KP!Law!Replay, K!Law!Authorized, KP!Law!Authorized
<1>9. \A lost : KP!Law!LoseWorker(lost) => K!Law!LoseWorker(lost)
    BY <1>1, <1>2, <1>3, <1>5, Zenon DEF K!Law!LoseWorker, KP!Law!LoseWorker
<1>10. KP!Law!Next => K!Law!Next
    BY <1>3, <1>4, <1>6, <1>7, <1>8, <1>9, Zenon DEF K!Law!Next, KP!Law!Next
<1>11. UNCHANGED KP!Law!lawVars => UNCHANGED K!Law!lawVars
    BY <1>1, <1>2, <1>3, Zenon DEF K!Law!lawVars, KP!Law!lawVars
<1>12. KP!Law!Init => K!Law!Init
    BY <1>1, <1>3, Zenon DEF K!Law!Init, KP!Law!Init
<1> QED
    BY <1>10, <1>11, <1>12

LEMMA HostRunsKernel == Spec => KP!Spec
<1>1. Init => KP!Init
    BY SameObserve DEF Init, InitWith
<1>2. HostInv /\ [Next]_vars => [KP!Next]_(KP!vars)
    BY HostCallsKernel, SameNext DEF HostInv, kernelVars, KP!vars
<1> QED
    BY <1>1, <1>2, HostAlways, PTL DEF Spec, KP!Spec

\* What the kernel promises of an invocation to any caller, it keeps in the
\* host, through every handler, loss, rollover and recovery: an accepted
\* invocation has one pending entry until it has an outcome, which is final;
\* none is dispatched oftener than its budget, none again without authority,
\* and what was interrupted goes out in its original order (HostSessionKernel
\* as supervisor.rs uses it).
THEOREM HostKeepsInvocations ==
    Spec => /\ [](K!NoSilentDrop /\ K!BoundedDispatch)
            /\ K!SingleTerminalOutcome /\ K!AuthorizedRepetition /\ K!OrderedRecovery
<1>1. KP!Spec => [](KP!NoSilentDrop /\ KP!BoundedDispatch)
    BY KernelConstants, KP!NothingDropped, KP!DispatchBounded, PTL
<1>2. KP!Spec => KP!SingleTerminalOutcome /\ KP!AuthorizedRepetition /\ KP!OrderedRecovery
    BY KernelConstants, KP!OutcomesFinal, KP!RepetitionAuthorized, KP!RecoveryOrdered
<1>3. KP!NoSilentDrop /\ KP!BoundedDispatch => K!NoSilentDrop /\ K!BoundedDispatch
    BY SamePromises
<1>4. [KP!OutcomesAreFinal]_(KP!vars) => [K!OutcomesAreFinal]_(K!vars)
    BY SamePromises
<1>5. [KP!RepeatsWithAuthority]_(KP!vars) => [K!RepeatsWithAuthority]_(K!vars)
    BY SamePromises
<1>6. [KP!RecoversInOrder]_(KP!vars) => [K!RecoversInOrder]_(K!vars)
    BY SamePromises
<1> QED
    BY <1>1, <1>2, <1>3, <1>4, <1>5, <1>6, HostRunsKernel, PTL
       DEF K!SingleTerminalOutcome, KP!SingleTerminalOutcome, K!AuthorizedRepetition,
           KP!AuthorizedRepetition, K!OrderedRecovery, KP!OrderedRecovery

\* The host thus implements both laws at once, SessionLaw for the session and
\* InvocationLaw for each invocation in it (formal_semantics.md, Transition
\* Rules).
THEOREM HostImplementsInvocationLaw == Spec => K!ImplementsInvocationLaw
BY HostRunsKernel, KernelConstants, KP!KernelImplementsLaw, SameInvocationLaw, PTL
   DEF K!ImplementsInvocationLaw, KP!ImplementsInvocationLaw, K!Law!Spec, KP!Law!Spec
=============================================================================
