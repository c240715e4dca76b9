---------------------------- MODULE MCSupervisor ----------------------------
(***************************************************************************)
(* Instances of the host for TLC: two workers at a time, two releases, and *)
(* tools of every kind of contract.  Runs start cold, or from a session    *)
(* that is already served, which is where rollovers begin.                 *)
(***************************************************************************)
EXTENDS Supervisor

Payload(tool, keyed) == [tool |-> tool, keyed |-> keyed]

Frame(m, i) == [method |-> m, id |-> i, body |-> Payload("-", FALSE)]

\* A call, with and without the key its tool's contract points at.
Call(i, tool) == [method |-> "call", id |-> i, body |-> Payload(tool, TRUE)]

KeylessCall(i, tool) == [method |-> "call", id |-> i, body |-> Payload(tool, FALSE)]

MCIds == {"a", "b"}

MCTokens == {"w1", "w2"}

MCReleases == {"r1", "r2"}
MCServiceReleases == {"r0", "r1", "r2"}

Notification(method) == Frame(method, "-")

\* The handshake, and what else each run's client sends.
MCHandshake ==
    {Frame("initialize", "a"), Notification("initialized")}

MCRolloverFrames ==
    MCHandshake \cup {Call("a", "set"), KeylessCall("b", "put"),
                      Frame("list", "b")}

MCSafetyFrames ==
    MCRolloverFrames \cup {Call("b", "pin"), Notification("other")}

MCServiceFrames ==
    MCRolloverFrames \cup {Call("a", "safe"), Notification("other")}

MCStrandedFrames == {Call("a", "safe"), Call("b", "pin")}

MCJournalFrames ==
    MCHandshake \cup {Call("a", "set"), KeylessCall("b", "put"),
                      Call("b", "pin")}

\* Tools that declare nothing but a hint, or nothing at all, and tools with
\* explicit contracts.
Plain(hinted) ==
    [explicit |-> FALSE, recovery |-> "unknown", pointer |-> FALSE,
     state |-> "unknown", key |-> "absent", annotation |-> "unknown", hinted |-> hinted]

Explicit(recovery, state, key) ==
    [explicit |-> TRUE, recovery |-> recovery, pointer |-> TRUE,
     state |-> state, key |-> key, annotation |-> "unknown", hinted |-> TRUE]

MCDeclared ==
    [catalog \in {"c0", "c1", "c2"} |->
     IF catalog = "c0"
     THEN [safe |-> Plain(TRUE), once |-> Plain(FALSE),
           set |-> Plain(TRUE), put |-> Plain(FALSE)]
     ELSE
        [safe |-> Plain(TRUE),
         once |-> Plain(FALSE),
         set |-> Explicit("deduplicated", "journaled", "text"),
         put |-> Explicit("deduplicated", "journaled", "text"),
         pin |-> Explicit("probe_required", "generation_pinned", "absent")]]

\* The successor's catalog is the same, or another one.
MCSameCatalog == [r \in MCReleases |-> "c1"]
MCServiceCatalog ==
    [r \in MCServiceReleases |->
        CASE r = "r0" -> "c0" [] r = "r1" -> "c1" [] OTHER -> "c2"]
MCChangedCatalog == [r \in MCReleases |-> IF r = "r1" THEN "c1" ELSE "c2"]

\* The successor reads the incumbent's state, or not.
MCReads == {<<"r2", "r1">>, <<"r1", "r2">>}
MCReadsForward == {<<"r2", "r1">>}

-----------------------------------------------------------------------------
\* A session whose handshake is over: initialize was invocation 0, and the
\* active worker has answered with its catalog.
ServedBy(release, bounds) ==
    /\ phase = "Live" /\ notified = TRUE
    /\ seed = Frame("initialize", "a")
    /\ pending = [i \in {} |-> {}] /\ queue = <<>>
    /\ nextSequence = 1
    /\ ledger = [s \in 0..(MaxSequence - 1) |->
            IF s = 0
            THEN [contract |-> "Convergent", dispatches |-> 1, evidence |-> FALSE,
                  outcome |-> "Response"]
            ELSE K!Unwritten]
    /\ published = CatalogOf[release]
    /\ InitRest(release, bounds)

Served == ServedBy(InitialRelease, Bounds)

ServedSpec == Served /\ [][Next]_vars

FairServedSpec == ServedSpec /\ Fairness

\* A session that meets releases, and a session of the stateless release r0
\* that loses workers: each is bound to go on.
FairServiceSpec ==
    /\ \/ ServedBy(InitialRelease, [Bounds EXCEPT !.faults = 0])
       \/ ServedBy("r0", [Bounds EXCEPT !.publications = 0])
    /\ [][Next]_vars
    /\ Fairness

\* Both beginnings in one run: a session that is served and meets releases,
\* and a cold one with frames enough for the whole handshake, where workers
\* fail more often but no release appears.
ColdBounds == [frames |-> 5, faults |-> 3, callbacks |-> 0, publications |-> 0]

EitherSpec == (Served \/ InitWith(ColdBounds)) /\ [][Next]_vars
=============================================================================
