----------------------------- MODULE SessionLaw -----------------------------
(***************************************************************************)
(* What the host promises the client of a session, without workers, queues *)
(* or handlers: which generation has authority, what becomes of the        *)
(* requests when it changes hands or is lost, and what survives.  These    *)
(* are the rules of src/formal_semantics.md, "Transition Rules".           *)
(* Supervisor implements it.                                               *)
(***************************************************************************)
EXTENDS Naturals, Sequences

CONSTANTS
    Ids,             \* identities of requests
    Releases, NoRelease, InitialRelease,
    Accepts,         \* <<h, g>>: h can take over a session of g
    NoCatalog,
    CatalogOf,       \* the catalog of a release
    Transitions      \* what a response can do to the session, by key

VARIABLES
    outstanding,     \* requests without a terminal outcome
    dispatched,      \* those the serving generation works on
    unknown,         \* those a lost worker may have executed
    serving,         \* the generation with authority, or NoRelease
    fenced,          \* new work waits for a successor
    generation,      \* the generation that serves or is to be recovered
    catalog,         \* the public catalog
    session, portable  \* session state, as long as it can be carried over

requestVars == <<outstanding, dispatched, unknown>>
authorityVars == <<serving, fenced, generation, catalog>>
stateVars == <<session, portable>>
lawVars == <<requestVars, authorityVars, stateVars>>

\* The client has asked for the catalog before, or not.
Init ==
    /\ outstanding = {} /\ dispatched = {} /\ unknown = {}
    /\ serving = InitialRelease /\ fenced = FALSE
    /\ generation = InitialRelease
    /\ catalog \in {NoCatalog, CatalogOf[InitialRelease]}
    /\ session = <<>> /\ portable = TRUE

Serves == serving # NoRelease

Accept(id) ==
    /\ id \notin outstanding
    /\ outstanding' = outstanding \cup {id}
    /\ UNCHANGED <<dispatched, unknown, authorityVars, stateVars>>

\* A first attempt; the request may have been accepted just now.
Dispatch(id) ==
    /\ Serves /\ ~ fenced
    /\ id \notin dispatched \cup unknown
    /\ outstanding' = outstanding \cup {id}
    /\ dispatched' = dispatched \cup {id}
    /\ UNCHANGED <<unknown, authorityVars, stateVars>>

\* Another attempt after a loss.
Replay(id) ==
    /\ Serves /\ ~ fenced
    /\ id \in unknown
    /\ unknown' = unknown \ {id}
    /\ dispatched' = dispatched \cup {id}
    /\ UNCHANGED <<outstanding, authorityVars, stateVars>>

\* What is left of a session without the transition of this key.
Without(s, key) ==
    IF \E i \in DOMAIN s : s[i] = key
    THEN LET i == CHOOSE j \in DOMAIN s : s[j] = key
         IN SubSeq(s, 1, i - 1) \o SubSeq(s, i + 1, Len(s))
    ELSE s

\* The session is as it was, has one more transition, or is from now on the
\* generation's own.
Moves ==
    \/ UNCHANGED stateVars
    \/ /\ portable /\ UNCHANGED portable
       /\ \E key \in Transitions : session' = Append(Without(session, key), key)
    \/ portable' = FALSE /\ session' = <<>>

\* The terminal outcome of a dispatched request: the serving generation's
\* answer, and what that did to the session.
Respond(id) ==
    /\ Serves
    /\ id \in dispatched
    /\ outstanding' = outstanding \ {id}
    /\ dispatched' = dispatched \ {id}
    /\ Moves
    /\ UNCHANGED <<unknown, authorityVars>>

\* The host's own answer to a request that no worker has seen.
Answer(id) ==
    /\ id \in outstanding \ (dispatched \cup unknown)
    /\ outstanding' = outstanding \ {id}
    /\ UNCHANGED <<dispatched, unknown, authorityVars, stateVars>>

\* The serving generation is asked for its catalog, once.
Learn ==
    /\ Serves
    /\ catalog = NoCatalog
    /\ catalog' = CatalogOf[serving]
    /\ UNCHANGED <<requestVars, serving, fenced, generation, stateVars>>

\* Draining starts, perhaps with the request that asked for it.
Fence(accepted) ==
    /\ Serves /\ ~ fenced
    /\ accepted \cap outstanding = {}
    /\ outstanding' = outstanding \cup accepted
    /\ fenced' = TRUE
    /\ UNCHANGED <<dispatched, unknown, serving, generation, catalog, stateVars>>

\* The successor has failed: the incumbent goes on.
Lift ==
    /\ fenced
    /\ fenced' = FALSE
    /\ UNCHANGED <<requestVars, serving, generation, catalog, stateVars>>

\* The worker is lost.  What it worked on is unknown; some of that is answered
\* at once.  The session is not lost with it.
Lose(rejected) ==
    /\ Serves
    /\ rejected \subseteq dispatched \cup unknown
    /\ outstanding' = outstanding \ rejected
    /\ unknown' = (dispatched \cup unknown) \ rejected
    /\ dispatched' = {}
    /\ serving' = NoRelease /\ fenced' = FALSE
    /\ UNCHANGED <<generation, catalog, stateVars>>

Untouched(answered) ==
    /\ answered \subseteq outstanding \ (dispatched \cup unknown)
    /\ outstanding' = outstanding \ answered
    /\ UNCHANGED <<dispatched, unknown>>

\* The same generation serves again, with the same session.
Resume(answered) ==
    /\ ~ Serves /\ portable
    /\ serving' = generation /\ fenced' = FALSE
    /\ Untouched(answered)
    /\ UNCHANGED <<generation, catalog, stateVars>>

\* Another generation takes over a drained session, whole.
Cutover(release, answered) ==
    /\ Serves /\ fenced /\ portable
    /\ dispatched = {}
    /\ <<release, serving>> \in Accepts
    /\ serving' = release /\ generation' = release /\ fenced' = FALSE
    /\ catalog' = CatalogOf[release]
    /\ Untouched(answered)
    /\ UNCHANGED stateVars

Next ==
    \/ \E id \in Ids :
        \/ Accept(id) \/ Dispatch(id) \/ Replay(id) \/ Respond(id) \/ Answer(id)
    \/ Learn \/ Lift
    \/ \E some \in SUBSET Ids :
        \/ Fence(some) \/ Lose(some) \/ Resume(some)
        \/ \E release \in Releases : Cutover(release, some)

Spec == Init /\ [][Next]_lawVars
=============================================================================
