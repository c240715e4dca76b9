------------------------------- MODULE Handoff -------------------------------
(***************************************************************************)
(* Live replacement of a host process: ReleaseRuntime and the gate of      *)
(* src/crates/libmcp/src/rollout.rs, with the snapshot capsules of         *)
(* src/crates/libmcp/src/host.rs.  A host that embeds them reads its       *)
(* public stream, and, when the release channel names another release,     *)
(* writes its session state into a private capsule, spawns the successor,  *)
(* and blocks in handoff until the successor has announced itself, has     *)
(* been activated, and has reported live over a private socket.            *)
(*                                                                         *)
(* Both ends run under deadlines, either process may die at any point, and *)
(* hosts of unrelated sessions share one directory of capsules, which each *)
(* of them prunes.  The order observe, write capsule, hand off, and load   *)
(* capsule, admit, read is the one of the crate's own handoff fixture.     *)
(***************************************************************************)
EXTENDS Integers, Sequences, FiniteSets

CONSTANTS
    Hosts, NoHost,    \* host processes; a pid is not used again
    SessionOf,        \* [Hosts -> sessions]: the public stream it inherits
    Releases, NoRelease, InitialRelease,
    MaxFiles,         \* SNAPSHOT_MAX_FILES
    Frames, Faults, Publications   \* the bounds of left

ASSUME HostsAssumption ==
    /\ NoHost \notin Hosts
    /\ InitialRelease \in Releases /\ NoRelease \notin Releases
    /\ MaxFiles \in Nat
    /\ {Frames, Faults, Publications} \subseteq Nat

VARIABLES
    status,       \* where each process is
    generation,   \* the release it runs
    target,       \* ReleaseRuntime::successor of an incumbent
    child,        \* the successor it has spawned last
    gate,         \* bytes written on the socket between a host and its parent
    state,        \* number of public frames a host's session state reflects
    root,         \* the capsule directory, newest file first: [owner, state]
    channel,      \* the release the channel names
    consumed,     \* number of public frames read from each session's stream
    left          \* what the environment may still do

processVars == <<status, generation, target, child, state>>
vars == <<processVars, gate, root, channel, consumed, left>>

Sessions == {SessionOf[p] : p \in Hosts}

\* An incumbent inside write_snapshot_file and handoff.  "Failing": an error
\* is on its way out of finish_handoff, the stream is still open.
Waiting == {"Accepting", "AwaitingReady", "AwaitingLive"}
HandingOff == {"Captured", "Failing"} \cup Waiting

\* A successor before it is live.  "Leaving": it has given up and its end of
\* the stream is still open.
Joining == {"Starting", "Hydrated", "Connected", "Announced", "Leaving"}

Files == {root[k] : k \in DOMAIN root}

\* Mutant: whatever capsule is newest.
NewestCapsule(c) == IF root = <<>> THEN {} ELSE {root[1]}

\* the capsule file whose path c was given by its parent, if it is there
CapsuleFor(c) == {file \in Files : child[file.owner] = c}

\* The directory with the files at these positions alone, in their order: the
\* set has one member.
Keeping(positions) ==
    {[i \in DOMAIN l |-> root[l[i]]] :
        l \in {m \in [1..Cardinality(positions) -> positions] :
                \A i, j \in DOMAIN m : i < j => m[i] < m[j]}}

RootWithout(owners) == Keeping({k \in DOMAIN root : root[k].owner \notin owners})

\* The socket of c's handoff: its parent holds the listener and the stream.
GateOpen(c) == \E p \in Hosts : child[p] = c /\ status[p] \in Waiting \cup {"Failing"}

FirstOf(s) == CHOOSE p \in Hosts : SessionOf[p] = s

Init ==
    /\ status = [p \in Hosts |->
            IF p = FirstOf(SessionOf[p]) THEN "Serving" ELSE "Unborn"]
    /\ generation = [p \in Hosts |-> InitialRelease]
    /\ target = [p \in Hosts |-> NoRelease]
    /\ child = [p \in Hosts |-> NoHost]
    /\ gate = [p \in Hosts |-> {}]
    /\ state = [p \in Hosts |-> 0]
    /\ root = <<>>
    /\ channel = InitialRelease
    /\ consumed = [s \in Sessions |-> 0]
    /\ left = [frames |-> Frames, faults |-> Faults, publications |-> Publications]

Moves(p, from, to) ==
    /\ status[p] = from
    /\ status' = [status EXCEPT ![p] = to]

-----------------------------------------------------------------------------
(* The incumbent                                                           *)

\* It takes the next frame off the public stream.
Reads(p) ==
    /\ status[p] = "Serving"
    /\ left.frames > 0
    /\ left' = [left EXCEPT !.frames = @ - 1]
    /\ state' = [state EXCEPT ![p] = @ + 1]
    /\ consumed' = [consumed EXCEPT ![SessionOf[p]] = @ + 1]
    /\ UNCHANGED <<status, generation, target, child, gate, root, channel>>

(* observe of a managed release: a successor is armed once it is verified, *)
(* and disarmed when the channel comes back to the incumbent.  An error    *)
(* leaves everything as it was.                                            *)
Observe(p) ==
    /\ status[p] = "Serving"
    /\ target' = [target EXCEPT ![p] = IF channel = generation[p] THEN NoRelease ELSE channel]
    /\ UNCHANGED <<status, generation, child, state, gate, root, channel, consumed, left>>

\* Files of crashed hosts, which nobody else removes, grow old.
Orphans == {file.owner : file \in {f \in Files : status[f.owner] = "Crashed"}}

Armed(p) == target[p] # NoRelease

(* write_snapshot_file: the shared directory is pruned of the expired and  *)
(* of all but the MaxFiles newest files, whoever owns them.                *)
Capture(p) ==
    /\ Moves(p, "Serving", "Captured")
    /\ Armed(p)
    /\ \E expired \in SUBSET Orphans :
        \E kept \in Keeping({k \in DOMAIN root :
                                k <= MaxFiles /\ root[k].owner \notin expired}) :
            root' = <<[owner |-> p, state |-> state[p]]>> \o kept
    /\ UNCHANGED <<generation, target, child, state, gate, channel, consumed, left>>

Spawn(p, c) ==
    /\ status[p] = "Captured" /\ status[c] = "Unborn"
    /\ SessionOf[c] = SessionOf[p]
    /\ status' = [status EXCEPT ![p] = "Accepting", ![c] = "Starting"]
    /\ child' = [child EXCEPT ![p] = c]
    /\ generation' = [generation EXCEPT ![c] = target[p]]
    /\ UNCHANGED <<target, state, gate, root, channel, consumed, left>>

\* The process cannot be started: the capsule is dropped, the incumbent reads on.
SpawnFails(p) ==
    /\ Moves(p, "Captured", "Serving")
    /\ root' \in RootWithout({p})
    /\ UNCHANGED <<generation, target, child, state, gate, channel, consumed, left>>

Accept(p) ==
    /\ Moves(p, "Accepting", "AwaitingReady")
    /\ "Connect" \in gate[child[p]]
    /\ UNCHANGED <<generation, target, child, state, gate, root, channel, consumed, left>>

\* Mutant: authority is given up with the activation byte.
RelinquishesEarly(p) ==
    /\ status[p] = "AwaitingReady" /\ "Ready" \in gate[child[p]]
    /\ status[child[p]] # "Dead"
    /\ gate' = [gate EXCEPT ![child[p]] = @ \cup {"Activate"}]
    /\ status' = [status EXCEPT ![p] = "Relinquished"]
    /\ UNCHANGED <<generation, target, child, state, root, channel, consumed, left>>

\* READY has come: ACTIVATE is written, as long as the other end is open.
Activates(p) ==
    /\ Moves(p, "AwaitingReady", "AwaitingLive")
    /\ "Ready" \in gate[child[p]]
    /\ status[child[p]] # "Dead"
    /\ gate' = [gate EXCEPT ![child[p]] = @ \cup {"Activate"}]
    /\ UNCHANGED <<generation, target, child, state, root, channel, consumed, left>>

\* Mutant: the outcome is not looked at.
ReadsOn(p) ==
    /\ Moves(p, "AwaitingLive", "Serving")
    /\ "Live" \in gate[child[p]]
    /\ root' \in RootWithout({p})
    /\ UNCHANGED <<generation, target, child, state, gate, channel, consumed, left>>

\* LIVE has come: handoff returns Relinquish, the capsule is dropped, and the
\* host reads no further.
Relinquishes(p) ==
    /\ Moves(p, "AwaitingLive", "Relinquished")
    /\ "Live" \in gate[child[p]]
    /\ root' \in RootWithout({p})
    /\ UNCHANGED <<generation, target, child, state, gate, channel, consumed, left>>

\* What the incumbent waits for in each stage of finish_handoff.
Awaited == [Accepting |-> "Connect", AwaitingReady |-> "Ready", AwaitingLive |-> "Live"]

\* Mutant: the accept loop looks at the process only.
FailsWithoutDeadline(p) ==
    \/ status[p] = "Accepting" /\ status[child[p]] = "Dead"
    \/ /\ status[p] \in {"AwaitingReady", "AwaitingLive"}
       /\ Awaited[status[p]] \notin gate[child[p]] \/ status[child[p]] = "Dead"

\* Its deadline passes, or the successor is found dead, before what it waits
\* for has come; READY may also come and the write of ACTIVATE fail.
Fails(p) ==
    /\ status[p] \in Waiting
    /\ \/ Awaited[status[p]] \notin gate[child[p]]
       \/ status[p] = "AwaitingReady" /\ status[child[p]] = "Dead"

FinishFails(p) ==
    /\ Fails(p)
    /\ status' = [status EXCEPT ![p] = "Failing"]
    /\ UNCHANGED <<generation, target, child, state, gate, root, channel, consumed, left>>

\* kill and wait: only a process that is gone already keeps its end.
Killed(c) == IF status[c] = "Crashed" THEN "Crashed" ELSE "Dead"

(* abort_successor, and the capsule's drop: the incumbent reads on.        *)
Abort(p) ==
    /\ status[p] = "Failing"
    /\ status' = [status EXCEPT ![p] = "Serving", ![child[p]] = Killed(child[p])]
    /\ root' \in RootWithout({p})
    /\ UNCHANGED <<generation, target, child, state, gate, channel, consumed, left>>

-----------------------------------------------------------------------------
(* The successor: load_snapshot_file, then admit_successor                 *)

\* The capsule is opened and unlinked; without it the successor exits.
Hydrate(c) ==
    /\ status[c] = "Starting"
    /\ \/ \E capsule \in CapsuleFor(c) :
            /\ state' = [state EXCEPT ![c] = capsule.state]
            /\ root' \in RootWithout({capsule.owner})
            /\ status' = [status EXCEPT ![c] = "Hydrated"]
       \/ /\ CapsuleFor(c) = {}
          /\ status' = [status EXCEPT ![c] = "Dead"]
          /\ UNCHANGED <<state, root>>
    /\ UNCHANGED <<generation, target, child, gate, channel, consumed, left>>

\* It writes a byte (or connects), or finds the socket closed and exits.
Sends(c, from, byte, to) ==
    /\ IF GateOpen(c)
       THEN Moves(c, from, to) /\ gate' = [gate EXCEPT ![c] = @ \cup {byte}]
       ELSE Moves(c, from, "Dead") /\ UNCHANGED gate
    /\ UNCHANGED <<generation, target, child, state, root, channel, consumed, left>>

Connect(c) == Sends(c, "Hydrated", "Connect", "Connected")

Announce(c) == Sends(c, "Connected", "Ready", "Announced")

\* ACTIVATE has come: LIVE is written, and the successor starts to read.  A
\* LIVE that crosses the incumbent's deadline will not be read any more.
GoLive(c) ==
    /\ "Activate" \in gate[c]
    /\ LET late == \E p \in Hosts : child[p] = c /\ status[p] = "Failing"
       IN Sends(c, "Announced", IF late THEN "LateLive" ELSE "Live", "Serving")

\* SUCCESSOR_GATE_TIMEOUT, or the end of the stream, before ACTIVATE.
GivesUp(c) ==
    /\ "Activate" \notin gate[c]
    /\ Moves(c, "Announced", "Leaving")
    /\ UNCHANGED <<generation, target, child, state, gate, root, channel, consumed, left>>

Exit(c) ==
    /\ Moves(c, "Leaving", "Dead")
    /\ UNCHANGED <<generation, target, child, state, gate, root, channel, consumed, left>>

-----------------------------------------------------------------------------
\* A process dies: a successor before it is live only fails its handoff, an
\* incumbent takes its session with it and leaves its capsule behind.
Crash(p) ==
    /\ left.faults > 0
    /\ left' = [left EXCEPT !.faults = @ - 1]
    /\ \/ status[p] \in Joining /\ Moves(p, status[p], "Dead")
       \/ status[p] \in {"Serving"} \cup HandingOff /\ Moves(p, status[p], "Crashed")
    /\ UNCHANGED <<generation, target, child, state, gate, root, channel, consumed>>

Publish(release) ==
    /\ left.publications > 0
    /\ left' = [left EXCEPT !.publications = @ - 1]
    /\ release # channel
    /\ channel' = release
    /\ UNCHANGED <<processVars, gate, root, consumed>>

Handoffs(p) ==
    \/ (\E c \in Hosts : Spawn(p, c)) \/ SpawnFails(p)
    \/ Accept(p) \/ Activates(p) \/ Relinquishes(p) \/ FinishFails(p) \/ Abort(p)

Admission(c) ==
    Hydrate(c) \/ Connect(c) \/ Announce(c) \/ GoLive(c) \/ GivesUp(c) \/ Exit(c)

Next ==
    \/ \E p \in Hosts :
        \/ Reads(p) \/ Observe(p) \/ Capture(p) \/ Handoffs(p) \/ Admission(p) \/ Crash(p)
    \/ \E release \in Releases : Publish(release)

Spec == Init /\ [][Next]_vars

\* A process that is inside handoff, or has connected in admit_successor, is
\* scheduled, and its deadlines pass.  Nothing makes a host observe, capture or
\* read, nor a successor get as far as admit_successor.
Fairness ==
    \A p \in Hosts :
        /\ WF_vars(Handoffs(p))
        /\ WF_vars(Announce(p) \/ GoLive(p) \/ GivesUp(p) \/ Exit(p))

FairSpec == Spec /\ Fairness

-----------------------------------------------------------------------------
(* Properties                                                              *)

Members(s) == {p \in Hosts : SessionOf[p] = s}

\* A successor went live in the face of an incumbent that had already stopped
\* waiting for it: its LIVE fits between the incumbent's last read and kill.
Disputed(s) == \E c \in Members(s) : "LateLive" \in gate[c]

Readers(s) == {p \in Members(s) : status[p] = "Serving"}

\* At most one process reads a public stream, through any chain of handoffs,
\* deadlines and deaths, as long as no LIVE byte crosses the incumbent's
\* deadline (HandoffOutcome::Relinquish, rollout.rs:376).
OneReader == \A s \in Sessions : Disputed(s) \/ Cardinality(Readers(s)) <= 1

\* The process that reads a session's stream has the session state that every
\* frame read so far has led to: neither a stale or foreign capsule nor a
\* failed handoff loses one (CHANGELOG.md:57-59), with the same exception.
SessionContinuity ==
    \A s \in Sessions :
        Disputed(s) \/ \A p \in Readers(s) : state[p] = consumed[s]

\* Unless its own reader crashes, a session always has a host that reads it or
\* will read it again: no failure of a successor, wherever it falls, costs the
\* session (tests/rollout.rs, failed_successor_leaves_the_incumbent_authoritative).
SessionSurvives ==
    \A s \in Sessions :
        \/ \E p \in Members(s) : status[p] \in {"Serving"} \cup HandingOff
        \/ \E p \in Members(s) : status[p] = "Crashed"

\* No handoff waits for ever, even for a successor that hangs before it has
\* connected, and no successor that has connected waits for ever for its
\* incumbent.
Blocked == HandingOff \cup {"Connected", "Announced", "Leaving"}

HandoffEnds ==
    \A p \in Hosts : status[p] \in Blocked ~> status[p] \notin Blocked
=============================================================================
