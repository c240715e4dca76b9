---------------------------- MODULE HandoffProofs ----------------------------
(***************************************************************************)
(* Who may read a public stream, for any hosts, sessions and releases, any *)
(* bound on the capsule directory and any failures.                        *)
(*                                                                         *)
(* The argument is about the holder of a session: the process that reads   *)
(* its stream, or will read it again if nothing more comes of the handoff  *)
(* it is blocked in.  An incumbent is the holder through its whole         *)
(* handoff, up to the moment LIVE stands on the socket; the successor is   *)
(* from then on, although the incumbent has yet to notice.  No action      *)
(* makes a second holder, except for a LIVE that crosses the deadline, and *)
(* only a crash of the holder ends the line of holders.  A holder's state  *)
(* is up to date because the file that a successor loads was written by    *)
(* its own parent, which has read nothing since.                           *)
(***************************************************************************)
EXTENDS Handoff, FiniteSetTheorems, SequenceTheorems, TLAPS

-----------------------------------------------------------------------------
(* The inductive invariant                                                 *)

Stages == {"Unborn", "Serving", "Relinquished", "Dead", "Crashed"} \cup HandingOff \cup Joining

File == [owner : Hosts, state : Nat]

\* What the argument reads.
TypeOK ==
    /\ status \in [Hosts -> Stages]
    /\ child \in [Hosts -> Hosts \cup {NoHost}]
    /\ gate \in [Hosts -> SUBSET {"Connect", "Ready", "Activate", "Live", "LateLive"}]
    /\ state \in [Hosts -> Nat]
    /\ root \in Seq(File)
    /\ consumed \in [Sessions -> Nat]

Spawned(p) == child[p] \in Hosts
InHandoff(p) == status[p] \in Waiting \cup {"Failing"}

\* A handoff has a successor, of the same session, and a successor one parent.
Lineage ==
    /\ \A p \in Hosts : InHandoff(p) => Spawned(p)
    /\ \A p \in Hosts : Spawned(p) =>
            /\ child[p] # p
            /\ SessionOf[child[p]] = SessionOf[p]
            /\ status[child[p]] # "Unborn"
    /\ \A p, q \in Hosts : Spawned(p) /\ child[p] = child[q] => p = q

\* The bytes come in the order of the protocol.
Protocol ==
    /\ \A c \in Hosts : status[c] = "Unborn" => gate[c] = {}
    /\ \A c \in Hosts : "Live" \in gate[c] =>
            "Activate" \in gate[c] /\ status[c] \notin Joining
    /\ \A p \in Hosts :
            status[p] \in {"Accepting", "AwaitingReady"} => "Activate" \notin gate[child[p]]

Past == {"Crashed", "Dead", "Relinquished"}

\* A file in the directory is of a host that has not read since it wrote it.
Capsules ==
    \A k \in DOMAIN root :
        /\ status[root[k].owner] \in HandingOff \cup Past
        /\ root[k].state = state[root[k].owner]

\* A hydrated successor has the state of the parent that waits for it.
Hydration ==
    \A p \in Hosts :
        InHandoff(p) /\ status[child[p]] \in {"Hydrated", "Connected", "Announced"}
            => state[child[p]] = state[p]

\* LIVE stands on the socket: the session is the successor's already.
Yielded(p) == status[p] = "AwaitingLive" /\ "Live" \in gate[child[p]]

Holds(p) == status[p] \in {"Serving"} \cup HandingOff /\ ~Yielded(p)

\* The three parts that the properties follow from.
OneHolder ==
    \A p, q \in Hosts :
        Holds(p) /\ Holds(q) /\ SessionOf[p] = SessionOf[q]
            => p = q \/ Disputed(SessionOf[p])

HolderCurrent ==
    \A p \in Hosts :
        Holds(p) => state[p] = consumed[SessionOf[p]] \/ Disputed(SessionOf[p])

SomeHolder ==
    \A s \in Sessions : \E p \in Members(s) : Holds(p) \/ status[p] = "Crashed"

IInv ==
    /\ TypeOK /\ Lineage /\ Protocol /\ Capsules
    /\ Hydration /\ OneHolder /\ HolderCurrent /\ SomeHolder

-----------------------------------------------------------------------------
(* What the steps have in common                                           *)

\* No new holder, and no change to what the holders have read.
LEMMA HoldersKept ==
    ASSUME OneHolder, HolderCurrent, consumed' = consumed, TypeOK, TypeOK',
           \A p \in Hosts : gate[p] \subseteq gate'[p],
           \A p \in Hosts : Holds(p)' => Holds(p) /\ state'[p] = state[p]
    PROVE  OneHolder' /\ HolderCurrent'
<1>1. \A s : Disputed(s) => Disputed(s)'
    BY DEF Disputed, Members
<1> QED
    BY <1>1 DEF OneHolder, HolderCurrent

\* Whoever holds a session keeps it, or crashes.
LEMMA SomeoneKept ==
    ASSUME SomeHolder,
           \A p \in Hosts :
                Holds(p) \/ status[p] = "Crashed" => Holds(p)' \/ status'[p] = "Crashed"
    PROVE  SomeHolder'
BY DEF SomeHolder, Members

\* The directory after a removal holds files that it held before.
LEMMA KeepingIsPart ==
    ASSUME TypeOK, NEW positions \in SUBSET DOMAIN root, NEW l \in Keeping(positions)
    PROVE  /\ l \in Seq(File)
           /\ \A j \in DOMAIN l : \E i \in positions : l[j] = root[i]
<1>1. root \in Seq(File) /\ DOMAIN root = 1..Len(root) /\ Len(root) \in Nat
    BY DEF TypeOK
<1>2. IsFiniteSet(1..Len(root))
    BY <1>1, FS_Interval
<1>3. IsFiniteSet(positions)
    BY <1>1, <1>2, FS_Subset
<1>4. Cardinality(positions) \in Nat
    BY <1>3, FS_CardinalityType
<1>5. PICK m \in [1..Cardinality(positions) -> positions] : l = [i \in DOMAIN m |-> root[m[i]]]
    BY DEF Keeping
<1>6. DOMAIN l = 1..Cardinality(positions)
    BY <1>5
<1>7. ASSUME NEW j \in DOMAIN l
      PROVE  m[j] \in positions /\ l[j] = root[m[j]] /\ l[j] \in File
    <2>1. m[j] \in positions /\ l[j] = root[m[j]]
        BY <1>5, <1>6
    <2>2. m[j] \in 1..Len(root)
        BY <2>1, <1>1
    <2> QED
        BY <2>1, <2>2, <1>1
<1>8. l = [j \in 1..Cardinality(positions) |-> l[j]]
    BY <1>5, <1>6
<1>9. l \in Seq(File)
    BY <1>4, <1>6, <1>7, <1>8
<1> QED
    BY <1>7, <1>9

\* ... and none of the owners whose files are removed.
LEMMA RootWithoutIsPart ==
    ASSUME TypeOK, NEW owners, root' \in RootWithout(owners)
    PROVE  /\ root' \in Seq(File)
           /\ \A j \in DOMAIN root' : \E i \in DOMAIN root :
                    root'[j] = root[i] /\ root[i].owner \notin owners
<1> DEFINE positions == {k \in DOMAIN root : root[k].owner \notin owners}
<1>1. root' \in Keeping(positions)
    BY DEF RootWithout
<1>2. positions \in SUBSET DOMAIN root
    OBVIOUS
<1> HIDE DEF positions
<1>3. root' \in Seq(File) /\ \A j \in DOMAIN root' : \E i \in positions : root'[j] = root[i]
    BY <1>1, <1>2, KeepingIsPart
<1> QED
    BY <1>3 DEF positions

LEMMA RootHoldsFiles ==
    ASSUME TypeOK
    PROVE  \A k \in DOMAIN root : root[k].owner \in Hosts /\ root[k].state \in Nat
<1> SUFFICES ASSUME NEW k \in DOMAIN root
             PROVE  root[k].owner \in Hosts /\ root[k].state \in Nat
    OBVIOUS
<1>1. root[k] \in File
    BY DEF TypeOK
<1> QED
    BY <1>1 DEF File


-----------------------------------------------------------------------------
(* The incumbent                                                           *)

\* The reader and the stream advance together, and nobody else reads.
LEMMA ReadsKeeps ==
    ASSUME IInv, NEW p \in Hosts, Reads(p)
    PROVE  IInv'
<1> USE DEF Stages, HandingOff, Waiting, Joining, Past, Spawned, InHandoff
<1>0. /\ TypeOK /\ Lineage /\ Protocol /\ Capsules
      /\ Hydration /\ OneHolder /\ HolderCurrent /\ SomeHolder
    BY DEF IInv
<1>a. \A q \in Hosts : SessionOf[q] \in Sessions
    BY DEF Sessions
<1>1. TypeOK'
    BY <1>0, <1>a DEF TypeOK, Reads
<1>2. Lineage'
    BY <1>0 DEF Lineage, TypeOK, Reads
<1>3. Protocol'
    BY <1>0 DEF Protocol, Lineage, TypeOK, Reads
<1>4. Capsules'
    BY <1>0 DEF Capsules, TypeOK, File, Reads
<1>5. Hydration'
    BY <1>0 DEF Hydration, Lineage, TypeOK, Reads
<1>6. OneHolder' /\ HolderCurrent'
    <2>1. \A q \in Hosts : Holds(q)' <=> Holds(q)
        BY DEF Holds, Yielded, Reads
    <2>2. \A s : Disputed(s)' <=> Disputed(s)
        BY DEF Disputed, Members, Reads
    <2>3. OneHolder'
        BY <1>0, <2>1, <2>2 DEF OneHolder
    <2>4. Holds(p)
        BY DEF Holds, Yielded, Reads
    <2>5. state'[p] = state[p] + 1 /\ consumed'[SessionOf[p]] = consumed[SessionOf[p]] + 1
        BY <1>0, <1>a DEF TypeOK, Reads
    <2>6. ASSUME NEW q \in Hosts, Holds(q), ~Disputed(SessionOf[q])
          PROVE  state'[q] = consumed'[SessionOf[q]]
        <3>1. state[q] = consumed[SessionOf[q]]
            BY <1>0, <2>6 DEF HolderCurrent
        <3>2. CASE SessionOf[q] = SessionOf[p]
            <4>1. q = p
                BY <1>0, <2>4, <2>6, <3>2 DEF OneHolder
            <4> QED
                BY <2>5, <3>1, <4>1
        <3>3. CASE SessionOf[q] # SessionOf[p]
            <4>1. q # p
                BY <3>3
            <4>2. state'[q] = state[q] /\ consumed'[SessionOf[q]] = consumed[SessionOf[q]]
                BY <1>0, <1>a, <3>3, <4>1 DEF TypeOK, Reads
            <4> QED
                BY <3>1, <4>2
        <3> QED
            BY <3>2, <3>3
    <2> QED
        BY <2>1, <2>2, <2>3, <2>6 DEF HolderCurrent
<1>7. SomeHolder'
    <2>1. \A q \in Hosts : Holds(q) \/ status[q] = "Crashed" => Holds(q)' \/ status'[q] = "Crashed"
        BY <1>0 DEF Protocol, Lineage, TypeOK, Holds, Yielded, Reads
    <2> QED
        BY <2>1, <1>0, SomeoneKept
<1> QED
    BY <1>1, <1>2, <1>3, <1>4, <1>5, <1>6, <1>7 DEF IInv

LEMMA ObserveKeeps ==
    ASSUME IInv, NEW p \in Hosts, Observe(p)
    PROVE  IInv'
<1> USE DEF Stages, HandingOff, Waiting, Joining, Past, Spawned, InHandoff
<1>0. /\ TypeOK /\ Lineage /\ Protocol /\ Capsules
      /\ Hydration /\ OneHolder /\ HolderCurrent /\ SomeHolder
    BY DEF IInv
<1>1. TypeOK'
    BY <1>0 DEF TypeOK, Observe
<1>2. Lineage'
    BY <1>0 DEF Lineage, TypeOK, Observe
<1>3. Protocol'
    BY <1>0 DEF Protocol, Lineage, TypeOK, Observe
<1>4. Capsules'
    BY <1>0 DEF Capsules, TypeOK, File, Observe
<1>5. Hydration'
    BY <1>0 DEF Hydration, Lineage, TypeOK, Observe
<1>6. OneHolder' /\ HolderCurrent'
    <2>1. \A q \in Hosts : gate[q] \subseteq gate'[q]
        BY <1>0 DEF TypeOK, Observe
    <2>2. \A q \in Hosts : Holds(q)' => Holds(q) /\ state'[q] = state[q]
        BY <1>0 DEF Protocol, Lineage, TypeOK, Holds, Yielded, Observe
    <2>3. consumed' = consumed
        BY <1>0 DEF Observe
    <2> QED
        BY <2>1, <2>2, <2>3, <1>0, <1>1, HoldersKept
<1>7. SomeHolder'
    <2>1. \A q \in Hosts : Holds(q) \/ status[q] = "Crashed" => Holds(q)' \/ status'[q] = "Crashed"
        BY <1>0 DEF Protocol, Lineage, TypeOK, Holds, Yielded, Observe
    <2> QED
        BY <2>1, <1>0, SomeoneKept
<1> QED
    BY <1>1, <1>2, <1>3, <1>4, <1>5, <1>6, <1>7 DEF IInv

LEMMA CaptureKeeps ==
    ASSUME IInv, NEW p \in Hosts, Capture(p)
    PROVE  IInv'
<1> USE DEF Stages, HandingOff, Waiting, Joining, Past, Spawned, InHandoff
<1>0. /\ TypeOK /\ Lineage /\ Protocol /\ Capsules
      /\ Hydration /\ OneHolder /\ HolderCurrent /\ SomeHolder
    BY DEF IInv
<1> DEFINE capsule == [owner |-> p, state |-> state[p]]
<1>a. PICK positions \in SUBSET DOMAIN root :
        \E kept \in Keeping(positions) : root' = <<capsule>> \o kept
    BY DEF Capture
<1>b. PICK kept \in Keeping(positions) : root' = <<capsule>> \o kept
    BY <1>a
<1>c. kept \in Seq(File) /\ \A j \in DOMAIN kept : \E i \in DOMAIN root : kept[j] = root[i]
    BY <1>0, KeepingIsPart
<1>d. capsule \in File /\ capsule.owner = p /\ capsule.state = state[p]
    BY <1>0 DEF TypeOK, File
<1> HIDE DEF capsule
<1>1. TypeOK'
    <2>1. root' \in Seq(File)
        BY <1>c, <1>d, <1>b
    <2> QED
        BY <1>0, <2>1 DEF TypeOK, Capture, Moves
<1>2. Lineage'
    BY <1>0 DEF Lineage, TypeOK, Capture, Moves
<1>3. Protocol'
    BY <1>0 DEF Protocol, Lineage, TypeOK, Capture, Moves
<1>4. Capsules'
    <2>1. ASSUME NEW j \in DOMAIN root'
          PROVE  \/ root'[j] = capsule
                 \/ \E i \in DOMAIN root : root'[j] = root[i]
        <3>1. j = 1 \/ (j - 1 \in DOMAIN kept /\ root'[j] = kept[j - 1])
            BY <2>1, <1>c, <1>b
        <3>2. j = 1 => root'[j] = capsule
            BY <1>c, <1>b
        <3> QED
            BY <3>1, <3>2, <1>c
    <2>2. state' = state
        BY DEF Capture
    <2>3. status'[p] = "Captured"
        BY <1>0 DEF Capture, Moves, TypeOK
    <2>4. \A q \in Hosts : status[q] \in HandingOff \cup Past => status'[q] = status[q]
        BY <1>0 DEF Capture, Moves, TypeOK
    <2>5. \A i \in DOMAIN root : root[i].owner \in Hosts
        BY <1>0, RootHoldsFiles
    <2> QED
        BY <1>0, <2>1, <2>2, <2>3, <2>4, <2>5, <1>d DEF Capsules
<1>5. Hydration'
    BY <1>0 DEF Hydration, Lineage, TypeOK, Capture, Moves
<1>6. OneHolder' /\ HolderCurrent'
    <2>1. \A q \in Hosts : gate[q] \subseteq gate'[q]
        BY <1>0 DEF TypeOK, Capture, Moves
    <2>2. \A q \in Hosts : Holds(q)' => Holds(q) /\ state'[q] = state[q]
        BY <1>0 DEF Protocol, Lineage, TypeOK, Holds, Yielded, Capture, Moves
    <2>3. consumed' = consumed
        BY <1>0 DEF Capture, Moves
    <2> QED
        BY <2>1, <2>2, <2>3, <1>0, <1>1, HoldersKept
<1>7. SomeHolder'
    <2>1. \A q \in Hosts : Holds(q) \/ status[q] = "Crashed" => Holds(q)' \/ status'[q] = "Crashed"
        BY <1>0 DEF Protocol, Lineage, TypeOK, Holds, Yielded, Capture, Moves
    <2> QED
        BY <2>1, <1>0, SomeoneKept
<1> QED
    BY <1>1, <1>2, <1>3, <1>4, <1>5, <1>6, <1>7 DEF IInv

LEMMA SpawnKeeps ==
    ASSUME IInv, NEW p \in Hosts, NEW c \in Hosts, Spawn(p, c)
    PROVE  IInv'
<1> USE DEF Stages, HandingOff, Waiting, Joining, Past, Spawned, InHandoff
<1>0. /\ TypeOK /\ Lineage /\ Protocol /\ Capsules
      /\ Hydration /\ OneHolder /\ HolderCurrent /\ SomeHolder
    BY DEF IInv
<1>1. TypeOK'
    BY <1>0 DEF TypeOK, Spawn
<1>2. Lineage'
    BY <1>0, HostsAssumption DEF Lineage, TypeOK, HostsAssumption, Spawn
<1>3. Protocol'
    BY <1>0, HostsAssumption DEF Protocol, Lineage, TypeOK, Spawn
<1>4. Capsules'
    BY <1>0, RootHoldsFiles DEF Capsules, TypeOK, Spawn
<1>5. Hydration'
    BY <1>0 DEF Hydration, Lineage, TypeOK, Spawn
<1>6. OneHolder' /\ HolderCurrent'
    <2>1. \A q \in Hosts : gate[q] \subseteq gate'[q]
        BY <1>0 DEF TypeOK, Spawn
    <2>2. \A q \in Hosts : Holds(q)' => Holds(q) /\ state'[q] = state[q]
        BY <1>0 DEF Protocol, Lineage, TypeOK, Holds, Yielded, Spawn
    <2>3. consumed' = consumed
        BY <1>0 DEF Spawn
    <2> QED
        BY <2>1, <2>2, <2>3, <1>0, <1>1, HoldersKept
<1>7. SomeHolder'
    <2>1. \A q \in Hosts : Holds(q) \/ status[q] = "Crashed" => Holds(q)' \/ status'[q] = "Crashed"
        BY <1>0 DEF Protocol, Lineage, TypeOK, Holds, Yielded, Spawn
    <2> QED
        BY <2>1, <1>0, SomeoneKept
<1> QED
    BY <1>1, <1>2, <1>3, <1>4, <1>5, <1>6, <1>7 DEF IInv

LEMMA SpawnFailsKeeps ==
    ASSUME IInv, NEW p \in Hosts, SpawnFails(p)
    PROVE  IInv'
<1> USE DEF Stages, HandingOff, Waiting, Joining, Past, Spawned, InHandoff
<1>0. /\ TypeOK /\ Lineage /\ Protocol /\ Capsules
      /\ Hydration /\ OneHolder /\ HolderCurrent /\ SomeHolder
    BY DEF IInv
<1>a. /\ root' \in Seq(File)
      /\ \A j \in DOMAIN root' : \E i \in DOMAIN root : root'[j] = root[i] /\ root[i].owner # p
    BY <1>0, RootWithoutIsPart DEF SpawnFails
<1>1. TypeOK'
    BY <1>0, <1>a DEF TypeOK, SpawnFails, Moves
<1>2. Lineage'
    BY <1>0 DEF Lineage, TypeOK, SpawnFails, Moves
<1>3. Protocol'
    BY <1>0 DEF Protocol, Lineage, TypeOK, SpawnFails, Moves
<1>4. Capsules'
    <2>1. \A i \in DOMAIN root : root[i].owner \in Hosts
        BY <1>0, RootHoldsFiles
    <2>2. \A q \in Hosts \ {p} :
            status[q] \in HandingOff \cup Past => status'[q] \in HandingOff \cup Past
        BY <1>0 DEF TypeOK, SpawnFails, Moves
    <2>3. state' = state
        BY DEF SpawnFails, Moves
    <2> QED
        BY <1>0, <1>a, <2>1, <2>2, <2>3 DEF Capsules
<1>5. Hydration'
    BY <1>0 DEF Hydration, Lineage, TypeOK, SpawnFails, Moves
<1>6. OneHolder' /\ HolderCurrent'
    <2>1. \A q \in Hosts : gate[q] \subseteq gate'[q]
        BY <1>0 DEF TypeOK, SpawnFails, Moves
    <2>2. \A q \in Hosts : Holds(q)' => Holds(q) /\ state'[q] = state[q]
        BY <1>0 DEF Protocol, Lineage, TypeOK, Holds, Yielded, SpawnFails, Moves
    <2>3. consumed' = consumed
        BY <1>0 DEF SpawnFails, Moves
    <2> QED
        BY <2>1, <2>2, <2>3, <1>0, <1>1, HoldersKept
<1>7. SomeHolder'
    <2>1. \A q \in Hosts : Holds(q) \/ status[q] = "Crashed" => Holds(q)' \/ status'[q] = "Crashed"
        BY <1>0 DEF Protocol, Lineage, TypeOK, Holds, Yielded, SpawnFails, Moves
    <2> QED
        BY <2>1, <1>0, SomeoneKept
<1> QED
    BY <1>1, <1>2, <1>3, <1>4, <1>5, <1>6, <1>7 DEF IInv

LEMMA AcceptKeeps ==
    ASSUME IInv, NEW p \in Hosts, Accept(p)
    PROVE  IInv'
<1> USE DEF Stages, HandingOff, Waiting, Joining, Past, Spawned, InHandoff
<1>0. /\ TypeOK /\ Lineage /\ Protocol /\ Capsules
      /\ Hydration /\ OneHolder /\ HolderCurrent /\ SomeHolder
    BY DEF IInv
<1>1. TypeOK'
    BY <1>0 DEF TypeOK, Accept, Moves
<1>2. Lineage'
    BY <1>0 DEF Lineage, TypeOK, Accept, Moves
<1>3. Protocol'
    BY <1>0 DEF Protocol, Lineage, TypeOK, Accept, Moves
<1>4. Capsules'
    BY <1>0 DEF Capsules, TypeOK, File, Accept, Moves
<1>5. Hydration'
    BY <1>0 DEF Hydration, Lineage, TypeOK, Accept, Moves
<1>6. OneHolder' /\ HolderCurrent'
    <2>1. \A q \in Hosts : gate[q] \subseteq gate'[q]
        BY <1>0 DEF TypeOK, Accept, Moves
    <2>2. \A q \in Hosts : Holds(q)' => Holds(q) /\ state'[q] = state[q]
        BY <1>0 DEF Protocol, Lineage, TypeOK, Holds, Yielded, Accept, Moves
    <2>3. consumed' = consumed
        BY <1>0 DEF Accept, Moves
    <2> QED
        BY <2>1, <2>2, <2>3, <1>0, <1>1, HoldersKept
<1>7. SomeHolder'
    <2>1. \A q \in Hosts : Holds(q) \/ status[q] = "Crashed" => Holds(q)' \/ status'[q] = "Crashed"
        BY <1>0 DEF Protocol, Lineage, TypeOK, Holds, Yielded, Accept, Moves
    <2> QED
        BY <2>1, <1>0, SomeoneKept
<1> QED
    BY <1>1, <1>2, <1>3, <1>4, <1>5, <1>6, <1>7 DEF IInv

LEMMA ActivatesKeeps ==
    ASSUME IInv, NEW p \in Hosts, Activates(p)
    PROVE  IInv'
<1> USE DEF Stages, HandingOff, Waiting, Joining, Past, Spawned, InHandoff
<1>0. /\ TypeOK /\ Lineage /\ Protocol /\ Capsules
      /\ Hydration /\ OneHolder /\ HolderCurrent /\ SomeHolder
    BY DEF IInv
<1>1. TypeOK'
    BY <1>0 DEF TypeOK, Activates, Moves
<1>2. Lineage'
    BY <1>0 DEF Lineage, TypeOK, Activates, Moves
<1>3. Protocol'
    BY <1>0 DEF Protocol, Lineage, TypeOK, Activates, Moves
<1>4. Capsules'
    BY <1>0 DEF Capsules, TypeOK, File, Activates, Moves
<1>5. Hydration'
    BY <1>0 DEF Hydration, Lineage, TypeOK, Activates, Moves
<1>6. OneHolder' /\ HolderCurrent'
    <2>1. \A q \in Hosts : gate[q] \subseteq gate'[q]
        BY <1>0 DEF TypeOK, Activates, Moves
    <2>2. \A q \in Hosts : Holds(q)' => Holds(q) /\ state'[q] = state[q]
        BY <1>0 DEF Protocol, Lineage, TypeOK, Holds, Yielded, Activates, Moves
    <2>3. consumed' = consumed
        BY <1>0 DEF Activates, Moves
    <2> QED
        BY <2>1, <2>2, <2>3, <1>0, <1>1, HoldersKept
<1>7. SomeHolder'
    <2>1. \A q \in Hosts : Holds(q) \/ status[q] = "Crashed" => Holds(q)' \/ status'[q] = "Crashed"
        BY <1>0 DEF Protocol, Lineage, TypeOK, Holds, Yielded, Activates, Moves
    <2> QED
        BY <2>1, <1>0, SomeoneKept
<1> QED
    BY <1>1, <1>2, <1>3, <1>4, <1>5, <1>6, <1>7 DEF IInv

LEMMA RelinquishesKeeps ==
    ASSUME IInv, NEW p \in Hosts, Relinquishes(p)
    PROVE  IInv'
<1> USE DEF Stages, HandingOff, Waiting, Joining, Past, Spawned, InHandoff
<1>0. /\ TypeOK /\ Lineage /\ Protocol /\ Capsules
      /\ Hydration /\ OneHolder /\ HolderCurrent /\ SomeHolder
    BY DEF IInv
<1>a. /\ root' \in Seq(File)
      /\ \A j \in DOMAIN root' : \E i \in DOMAIN root : root'[j] = root[i] /\ root[i].owner # p
    BY <1>0, RootWithoutIsPart DEF Relinquishes
<1>1. TypeOK'
    BY <1>0, <1>a DEF TypeOK, Relinquishes, Moves
<1>2. Lineage'
    BY <1>0 DEF Lineage, TypeOK, Relinquishes, Moves
<1>3. Protocol'
    BY <1>0 DEF Protocol, Lineage, TypeOK, Relinquishes, Moves
<1>4. Capsules'
    <2>1. \A i \in DOMAIN root : root[i].owner \in Hosts
        BY <1>0, RootHoldsFiles
    <2>2. \A q \in Hosts \ {p} :
            status[q] \in HandingOff \cup Past => status'[q] \in HandingOff \cup Past
        BY <1>0 DEF TypeOK, Relinquishes, Moves
    <2>3. state' = state
        BY DEF Relinquishes, Moves
    <2> QED
        BY <1>0, <1>a, <2>1, <2>2, <2>3 DEF Capsules
<1>5. Hydration'
    BY <1>0 DEF Hydration, Lineage, TypeOK, Relinquishes, Moves
<1>6. OneHolder' /\ HolderCurrent'
    <2>1. \A q \in Hosts : gate[q] \subseteq gate'[q]
        BY <1>0 DEF TypeOK, Relinquishes, Moves
    <2>2. \A q \in Hosts : Holds(q)' => Holds(q) /\ state'[q] = state[q]
        BY <1>0 DEF Protocol, Lineage, TypeOK, Holds, Yielded, Relinquishes, Moves
    <2>3. consumed' = consumed
        BY <1>0 DEF Relinquishes, Moves
    <2> QED
        BY <2>1, <2>2, <2>3, <1>0, <1>1, HoldersKept
<1>7. SomeHolder'
    <2>1. \A q \in Hosts : Holds(q) \/ status[q] = "Crashed" => Holds(q)' \/ status'[q] = "Crashed"
        BY <1>0 DEF Protocol, Lineage, TypeOK, Holds, Yielded, Relinquishes, Moves
    <2> QED
        BY <2>1, <1>0, SomeoneKept
<1> QED
    BY <1>1, <1>2, <1>3, <1>4, <1>5, <1>6, <1>7 DEF IInv

LEMMA FinishFailsKeeps ==
    ASSUME IInv, NEW p \in Hosts, FinishFails(p)
    PROVE  IInv'
<1> USE DEF Stages, HandingOff, Waiting, Joining, Past, Spawned, InHandoff
<1>0. /\ TypeOK /\ Lineage /\ Protocol /\ Capsules
      /\ Hydration /\ OneHolder /\ HolderCurrent /\ SomeHolder
    BY DEF IInv
<1>1. TypeOK'
    BY <1>0 DEF TypeOK, FinishFails, Fails, Awaited
<1>2. Lineage'
    BY <1>0 DEF Lineage, TypeOK, FinishFails, Fails, Awaited
<1>3. Protocol'
    BY <1>0 DEF Protocol, Lineage, TypeOK, FinishFails, Fails, Awaited
<1>4. Capsules'
    BY <1>0 DEF Capsules, TypeOK, File, FinishFails, Fails, Awaited
<1>5. Hydration'
    BY <1>0 DEF Hydration, Lineage, TypeOK, FinishFails, Fails, Awaited
<1>6. OneHolder' /\ HolderCurrent'
    <2>1. \A q \in Hosts : gate[q] \subseteq gate'[q]
        BY <1>0 DEF TypeOK, FinishFails, Fails, Awaited
    <2>2. \A q \in Hosts : Holds(q)' => Holds(q) /\ state'[q] = state[q]
        BY <1>0 DEF Protocol, Lineage, TypeOK, Holds, Yielded, FinishFails, Fails, Awaited
    <2>3. consumed' = consumed
        BY <1>0 DEF FinishFails, Fails, Awaited
    <2> QED
        BY <2>1, <2>2, <2>3, <1>0, <1>1, HoldersKept
<1>7. SomeHolder'
    <2>1. \A q \in Hosts : Holds(q) \/ status[q] = "Crashed" => Holds(q)' \/ status'[q] = "Crashed"
        BY <1>0 DEF Protocol, Lineage, TypeOK, Holds, Yielded, FinishFails, Fails, Awaited
    <2> QED
        BY <2>1, <1>0, SomeoneKept
<1> QED
    BY <1>1, <1>2, <1>3, <1>4, <1>5, <1>6, <1>7 DEF IInv

\* The incumbent was the holder all the time; what it kills is not missed.
LEMMA AbortKeeps ==
    ASSUME IInv, NEW p \in Hosts, Abort(p)
    PROVE  IInv'
<1> USE DEF Stages, HandingOff, Waiting, Joining, Past, Spawned, InHandoff
<1>0. /\ TypeOK /\ Lineage /\ Protocol /\ Capsules
      /\ Hydration /\ OneHolder /\ HolderCurrent /\ SomeHolder
    BY DEF IInv
<1>a. /\ root' \in Seq(File)
      /\ \A j \in DOMAIN root' : \E i \in DOMAIN root : root'[j] = root[i] /\ root[i].owner # p
    BY <1>0, RootWithoutIsPart DEF Abort
<1>1. TypeOK'
    BY <1>0, <1>a DEF TypeOK, Abort, Killed
<1>2. Lineage'
    BY <1>0 DEF Lineage, TypeOK, Abort, Killed
<1>3. Protocol'
    <2>1. child[p] \in Hosts /\ gate' = gate /\ child' = child
        BY <1>0 DEF Lineage, Abort
    <2>2. \A q \in Hosts :
            \/ status'[q] = status[q]
            \/ status'[q] \in {"Serving", "Dead", "Crashed"}
        BY <1>0, <2>1 DEF TypeOK, Abort, Killed
    <2> QED
        BY <1>0, <2>1, <2>2 DEF Protocol
<1>4. Capsules'
    <2>1. \A i \in DOMAIN root : root[i].owner \in Hosts
        BY <1>0, RootHoldsFiles
    <2>2. \A q \in Hosts \ {p} :
            status[q] \in HandingOff \cup Past => status'[q] \in HandingOff \cup Past
        BY <1>0 DEF TypeOK, Abort, Killed
    <2>3. state' = state
        BY DEF Abort, Killed
    <2> QED
        BY <1>0, <1>a, <2>1, <2>2, <2>3 DEF Capsules
<1>5. Hydration'
    BY <1>0 DEF Hydration, Lineage, TypeOK, Abort, Killed
<1>6. OneHolder' /\ HolderCurrent'
    <2>1. \A q \in Hosts : gate[q] \subseteq gate'[q]
        BY <1>0 DEF TypeOK, Abort, Killed
    <2>2. \A q \in Hosts : Holds(q)' => Holds(q) /\ state'[q] = state[q]
        BY <1>0 DEF Protocol, Lineage, TypeOK, Holds, Yielded, Abort, Killed
    <2>3. consumed' = consumed
        BY <1>0 DEF Abort, Killed
    <2> QED
        BY <2>1, <2>2, <2>3, <1>0, <1>1, HoldersKept
<1>7. SomeHolder'
    <2>1. Holds(p)'
        BY <1>0 DEF Lineage, TypeOK, Holds, Yielded, Abort
    <2>2. \A q \in Hosts \ {p, child[p]} : Holds(q) => Holds(q)'
        BY <1>0 DEF Lineage, TypeOK, Holds, Yielded, Abort
    <2>3. \A q \in Hosts : status[q] = "Crashed" => status'[q] = "Crashed"
        BY <1>0 DEF Lineage, TypeOK, Abort, Killed
    <2>4. child[p] \in Hosts /\ SessionOf[child[p]] = SessionOf[p]
        BY <1>0 DEF Lineage, Abort
    <2> QED
        BY <1>0, <2>1, <2>2, <2>3, <2>4 DEF SomeHolder, Members
<1> QED
    BY <1>1, <1>2, <1>3, <1>4, <1>5, <1>6, <1>7 DEF IInv

-----------------------------------------------------------------------------
(* The successor                                                           *)

\* A successor that is not live yet dies: it held nothing.
LEMMA DeathKeeps ==
    ASSUME IInv, NEW c \in Hosts, status[c] \in Joining,
           status' = [status EXCEPT ![c] = "Dead"],
           UNCHANGED <<child, gate, state, root, consumed>>
    PROVE  IInv'
<1> USE DEF Stages, HandingOff, Waiting, Joining, Past, Spawned, InHandoff
<1>0. /\ TypeOK /\ Lineage /\ Protocol /\ Capsules
      /\ Hydration /\ OneHolder /\ HolderCurrent /\ SomeHolder
    BY DEF IInv
<1>1. TypeOK'
    BY <1>0 DEF TypeOK
<1>2. Lineage'
    BY <1>0 DEF Lineage, TypeOK
<1>3. Protocol'
    BY <1>0 DEF Protocol, Lineage, TypeOK
<1>4. Capsules'
    BY <1>0 DEF Capsules, TypeOK, File
<1>5. Hydration'
    BY <1>0 DEF Hydration, Lineage, TypeOK
<1>6. OneHolder' /\ HolderCurrent'
    <2>1. \A q \in Hosts : gate[q] \subseteq gate'[q]
        BY <1>0 DEF TypeOK
    <2>2. \A q \in Hosts : Holds(q)' => Holds(q) /\ state'[q] = state[q]
        BY <1>0 DEF Protocol, Lineage, TypeOK, Holds, Yielded
    <2>3. consumed' = consumed
        BY <1>0
    <2> QED
        BY <2>1, <2>2, <2>3, <1>0, <1>1, HoldersKept
<1>7. SomeHolder'
    <2>1. \A q \in Hosts : Holds(q) \/ status[q] = "Crashed" => Holds(q)' \/ status'[q] = "Crashed"
        BY <1>0 DEF Protocol, Lineage, TypeOK, Holds, Yielded
    <2> QED
        BY <2>1, <1>0, SomeoneKept
<1> QED
    BY <1>1, <1>2, <1>3, <1>4, <1>5, <1>6, <1>7 DEF IInv

\* The capsule comes from its parent, and is as new as its parent's state.
LEMMA HydrationKeeps ==
    ASSUME IInv, NEW c \in Hosts, status[c] = "Starting",
           NEW capsule \in CapsuleFor(c),
           state' = [state EXCEPT ![c] = capsule.state],
           root' \in RootWithout({capsule.owner}),
           status' = [status EXCEPT ![c] = "Hydrated"],
           UNCHANGED <<child, gate, consumed>>
    PROVE  IInv'
<1> USE DEF Stages, HandingOff, Waiting, Joining, Past, Spawned, InHandoff
<1>0. /\ TypeOK /\ Lineage /\ Protocol /\ Capsules
      /\ Hydration /\ OneHolder /\ HolderCurrent /\ SomeHolder
    BY DEF IInv
<1>a. /\ capsule.owner \in Hosts /\ child[capsule.owner] = c
      /\ capsule.state \in Nat /\ capsule.state = state[capsule.owner]
    BY <1>0, RootHoldsFiles DEF Capsules, CapsuleFor, Files
<1>b. /\ root' \in Seq(File)
      /\ \A j \in DOMAIN root' : \E i \in DOMAIN root : root'[j] = root[i]
    BY <1>0, RootWithoutIsPart
<1>1. TypeOK'
    BY <1>0, <1>b, <1>a DEF TypeOK
<1>2. Lineage'
    BY <1>0 DEF Lineage, TypeOK
<1>3. Protocol'
    BY <1>0 DEF Protocol, Lineage, TypeOK
<1>4. Capsules'
    <2>1. \A i \in DOMAIN root : root[i].owner \in Hosts
        BY <1>0, RootHoldsFiles
    <2>2. \A q \in Hosts : status[q] \in HandingOff \cup Past =>
            status'[q] = status[q] /\ state'[q] = state[q]
        BY <1>0 DEF TypeOK
    <2> QED
        BY <1>0, <1>b, <2>1, <2>2 DEF Capsules
<1>5. Hydration'
    <2>1. SUFFICES ASSUME NEW p \in Hosts, InHandoff(p)',
                          status'[child[p]] \in {"Hydrated", "Connected", "Announced"}
                   PROVE  state'[child[p]] = state'[p]
        BY DEF Hydration
    <2>2. p # c /\ InHandoff(p) /\ child[p] \in Hosts
        BY <1>0, <2>1 DEF TypeOK, Lineage
    <2>3. state'[p] = state[p]
        BY <1>0, <2>2 DEF TypeOK
    <2>4. CASE child[p] = c
        <3>1. p = capsule.owner
            BY <1>0, <1>a, <2>2, <2>4 DEF Lineage
        <3> QED
            BY <1>0, <1>a, <2>3, <2>4, <3>1 DEF TypeOK
    <2>5. CASE child[p] # c
        BY <1>0, <2>1, <2>2, <2>3, <2>5 DEF Hydration, TypeOK
    <2> QED
        BY <2>4, <2>5
<1>6. OneHolder' /\ HolderCurrent'
    <2>1. \A q \in Hosts : gate[q] \subseteq gate'[q]
        BY <1>0 DEF TypeOK
    <2>2. \A q \in Hosts : Holds(q)' => Holds(q) /\ state'[q] = state[q]
        BY <1>0 DEF Protocol, Lineage, TypeOK, Holds, Yielded
    <2>3. consumed' = consumed
        BY <1>0
    <2> QED
        BY <2>1, <2>2, <2>3, <1>0, <1>1, HoldersKept
<1>7. SomeHolder'
    <2>1. \A q \in Hosts : Holds(q) \/ status[q] = "Crashed" => Holds(q)' \/ status'[q] = "Crashed"
        BY <1>0 DEF Protocol, Lineage, TypeOK, Holds, Yielded
    <2> QED
        BY <2>1, <1>0, SomeoneKept
<1> QED
    BY <1>1, <1>2, <1>3, <1>4, <1>5, <1>6, <1>7 DEF IInv

LEMMA HydrateKeeps ==
    ASSUME IInv, NEW c \in Hosts, Hydrate(c)
    PROVE  IInv'
BY HydrationKeeps, DeathKeeps DEF Hydrate, Joining

\* It connects, or announces itself.
LEMMA AdvanceKeeps ==
    ASSUME IInv, NEW c \in Hosts, status[c] \in {"Hydrated", "Connected"},
           NEW to \in {"Connected", "Announced"}, NEW byte \in {"Connect", "Ready"},
           status' = [status EXCEPT ![c] = to],
           gate' = [gate EXCEPT ![c] = @ \cup {byte}],
           UNCHANGED <<child, state, root, consumed>>
    PROVE  IInv'
<1> USE DEF Stages, HandingOff, Waiting, Joining, Past, Spawned, InHandoff
<1>0. /\ TypeOK /\ Lineage /\ Protocol /\ Capsules
      /\ Hydration /\ OneHolder /\ HolderCurrent /\ SomeHolder
    BY DEF IInv
<1>1. TypeOK'
    BY <1>0 DEF TypeOK
<1>2. Lineage'
    BY <1>0 DEF Lineage, TypeOK
<1>3. Protocol'
    BY <1>0 DEF Protocol, Lineage, TypeOK
<1>4. Capsules'
    BY <1>0 DEF Capsules, TypeOK, File
<1>5. Hydration'
    BY <1>0 DEF Hydration, Lineage, TypeOK
<1>6. OneHolder' /\ HolderCurrent'
    <2>1. \A q \in Hosts : gate[q] \subseteq gate'[q]
        BY <1>0 DEF TypeOK
    <2>2. \A q \in Hosts : Holds(q)' => Holds(q) /\ state'[q] = state[q]
        BY <1>0 DEF Protocol, Lineage, TypeOK, Holds, Yielded
    <2>3. consumed' = consumed
        BY <1>0
    <2> QED
        BY <2>1, <2>2, <2>3, <1>0, <1>1, HoldersKept
<1>7. SomeHolder'
    <2>1. \A q \in Hosts : Holds(q) \/ status[q] = "Crashed" => Holds(q)' \/ status'[q] = "Crashed"
        BY <1>0 DEF Protocol, Lineage, TypeOK, Holds, Yielded
    <2> QED
        BY <2>1, <1>0, SomeoneKept
<1> QED
    BY <1>1, <1>2, <1>3, <1>4, <1>5, <1>6, <1>7 DEF IInv

LEMMA ConnectKeeps ==
    ASSUME IInv, NEW c \in Hosts, Connect(c)
    PROVE  IInv'
<1>1. CASE GateOpen(c)
    BY <1>1, AdvanceKeeps DEF Connect, Sends, Moves
<1>2. CASE ~GateOpen(c)
    BY <1>2, DeathKeeps DEF Connect, Sends, Moves, Joining
<1> QED
    BY <1>1, <1>2

LEMMA AnnounceKeeps ==
    ASSUME IInv, NEW c \in Hosts, Announce(c)
    PROVE  IInv'
<1>1. CASE GateOpen(c)
    BY <1>1, AdvanceKeeps DEF Announce, Sends, Moves
<1>2. CASE ~GateOpen(c)
    BY <1>2, DeathKeeps DEF Announce, Sends, Moves, Joining
<1> QED
    BY <1>1, <1>2

\* LIVE after the incumbent's deadline: the session is disputed from here on.
LEMMA LateLiveKeeps ==
    ASSUME IInv, NEW c \in Hosts, NEW p \in Hosts, child[p] = c, "Activate" \in gate[c],
           status[c] = "Announced",
           status' = [status EXCEPT ![c] = "Serving"],
           gate' = [gate EXCEPT ![c] = @ \cup {"LateLive"}],
           UNCHANGED <<child, state, root, consumed>>
    PROVE  IInv'
<1> USE DEF Stages, HandingOff, Waiting, Joining, Past, Spawned, InHandoff
<1>0. /\ TypeOK /\ Lineage /\ Protocol /\ Capsules
      /\ Hydration /\ OneHolder /\ HolderCurrent /\ SomeHolder
    BY DEF IInv
<1>1. TypeOK'
    BY <1>0 DEF TypeOK
<1>2. Lineage'
    BY <1>0 DEF Lineage, TypeOK
<1>3. Protocol'
    BY <1>0 DEF Protocol, Lineage, TypeOK
<1>4. Capsules'
    BY <1>0 DEF Capsules, TypeOK, File
<1>5. Hydration'
    BY <1>0 DEF Hydration, Lineage, TypeOK
<1>6. OneHolder' /\ HolderCurrent'
    <2>1. \A s : Disputed(s) => Disputed(s)'
        BY <1>0 DEF TypeOK, Disputed, Members
    <2>2. Disputed(SessionOf[c])'
        BY <1>0 DEF TypeOK, Disputed, Members
    <2>3. \A q \in Hosts \ {c} : Holds(q)' => Holds(q)
        BY <1>0 DEF TypeOK, Lineage, Holds, Yielded
    <2> QED
        BY <1>0, <2>1, <2>2, <2>3 DEF OneHolder, HolderCurrent
<1>7. SomeHolder'
    <2>1. \A q \in Hosts : Holds(q) \/ status[q] = "Crashed" => Holds(q)' \/ status'[q] = "Crashed"
        BY <1>0 DEF Protocol, Lineage, TypeOK, Holds, Yielded
    <2> QED
        BY <2>1, <1>0, SomeoneKept
<1> QED
    BY <1>1, <1>2, <1>3, <1>4, <1>5, <1>6, <1>7 DEF IInv

\* LIVE in time: the session passes from the incumbent to the successor.
LEMMA LiveKeeps ==
    ASSUME IInv, NEW c \in Hosts, NEW p \in Hosts, child[p] = c, "Activate" \in gate[c],
           status[c] = "Announced",
           status' = [status EXCEPT ![c] = "Serving"],
           gate' = [gate EXCEPT ![c] = @ \cup {"Live"}],
           UNCHANGED <<child, state, root, consumed>>,
           status[p] \in Waiting
    PROVE  IInv'
<1> USE DEF Stages, HandingOff, Waiting, Joining, Past, Spawned, InHandoff
<1>0. /\ TypeOK /\ Lineage /\ Protocol /\ Capsules
      /\ Hydration /\ OneHolder /\ HolderCurrent /\ SomeHolder
    BY DEF IInv
<1>a. status[p] = "AwaitingLive" /\ Holds(p) /\ SessionOf[c] = SessionOf[p]
    BY <1>0 DEF Protocol, Lineage, Holds, Yielded
<1>1. TypeOK'
    BY <1>0 DEF TypeOK
<1>2. Lineage'
    BY <1>0 DEF Lineage, TypeOK
<1>3. Protocol'
    BY <1>0 DEF Protocol, Lineage, TypeOK
<1>4. Capsules'
    BY <1>0 DEF Capsules, TypeOK, File
<1>5. Hydration'
    BY <1>0 DEF Hydration, Lineage, TypeOK
<1>6. OneHolder' /\ HolderCurrent'
    <2>1. \A s : Disputed(s) => Disputed(s)'
        BY <1>0 DEF TypeOK, Disputed, Members
    <2>2. \A q \in Hosts \ {c} : Holds(q)' => Holds(q) /\ q # p
        BY <1>0, <1>a DEF TypeOK, Lineage, Holds, Yielded
    <2>3. state[c] = state[p]
        BY <1>0, <1>a DEF Hydration
    <2> QED
        BY <1>0, <1>a, <2>1, <2>2, <2>3 DEF OneHolder, HolderCurrent
<1>7. SomeHolder'
    <2>1. Holds(c)'
        BY <1>0 DEF TypeOK, Holds, Yielded
    <2>2. \A q \in Hosts \ {p, c} :
            Holds(q) \/ status[q] = "Crashed" => Holds(q)' \/ status'[q] = "Crashed"
        BY <1>0 DEF Lineage, TypeOK, Holds, Yielded
    <2> QED
        BY <1>0, <1>a, <2>1, <2>2 DEF SomeHolder, Members
<1> QED
    BY <1>1, <1>2, <1>3, <1>4, <1>5, <1>6, <1>7 DEF IInv

LEMMA GoLiveKeeps ==
    ASSUME IInv, NEW c \in Hosts, GoLive(c)
    PROVE  IInv'
<1> DEFINE late == \E p \in Hosts : child[p] = c /\ status[p] = "Failing"
<1>1. "Activate" \in gate[c] /\ status[c] = "Announced"
    BY DEF GoLive, Sends, Moves
<1>2. CASE ~GateOpen(c)
    BY <1>2, DeathKeeps DEF GoLive, Sends, Moves, Joining
<1>3. CASE GateOpen(c) /\ late
    <2>1. PICK p \in Hosts : child[p] = c
        BY <1>3
    <2> QED
        BY <1>1, <1>3, <2>1, LateLiveKeeps DEF GoLive, Sends, Moves
<1>4. CASE GateOpen(c) /\ ~late
    <2>1. PICK p \in Hosts : child[p] = c /\ status[p] \in Waiting
        BY <1>4 DEF GateOpen
    <2> QED
        BY <1>1, <1>4, <2>1, LiveKeeps DEF GoLive, Sends, Moves
<1> QED
    BY <1>2, <1>3, <1>4

LEMMA GivesUpKeeps ==
    ASSUME IInv, NEW p \in Hosts, GivesUp(p)
    PROVE  IInv'
<1> USE DEF Stages, HandingOff, Waiting, Joining, Past, Spawned, InHandoff
<1>0. /\ TypeOK /\ Lineage /\ Protocol /\ Capsules
      /\ Hydration /\ OneHolder /\ HolderCurrent /\ SomeHolder
    BY DEF IInv
<1>1. TypeOK'
    BY <1>0 DEF TypeOK, GivesUp, Moves
<1>2. Lineage'
    BY <1>0 DEF Lineage, TypeOK, GivesUp, Moves
<1>3. Protocol'
    BY <1>0 DEF Protocol, Lineage, TypeOK, GivesUp, Moves
<1>4. Capsules'
    BY <1>0 DEF Capsules, TypeOK, File, GivesUp, Moves
<1>5. Hydration'
    BY <1>0 DEF Hydration, Lineage, TypeOK, GivesUp, Moves
<1>6. OneHolder' /\ HolderCurrent'
    <2>1. \A q \in Hosts : gate[q] \subseteq gate'[q]
        BY <1>0 DEF TypeOK, GivesUp, Moves
    <2>2. \A q \in Hosts : Holds(q)' => Holds(q) /\ state'[q] = state[q]
        BY <1>0 DEF Protocol, Lineage, TypeOK, Holds, Yielded, GivesUp, Moves
    <2>3. consumed' = consumed
        BY <1>0 DEF GivesUp, Moves
    <2> QED
        BY <2>1, <2>2, <2>3, <1>0, <1>1, HoldersKept
<1>7. SomeHolder'
    <2>1. \A q \in Hosts : Holds(q) \/ status[q] = "Crashed" => Holds(q)' \/ status'[q] = "Crashed"
        BY <1>0 DEF Protocol, Lineage, TypeOK, Holds, Yielded, GivesUp, Moves
    <2> QED
        BY <2>1, <1>0, SomeoneKept
<1> QED
    BY <1>1, <1>2, <1>3, <1>4, <1>5, <1>6, <1>7 DEF IInv

LEMMA ExitKeeps ==
    ASSUME IInv, NEW c \in Hosts, Exit(c)
    PROVE  IInv'
BY DeathKeeps DEF Exit, Moves, Joining

-----------------------------------------------------------------------------
(* The theorems                                                            *)

\* The incumbent dies.
LEMMA IncumbentCrashKeeps ==
    ASSUME IInv, NEW p \in Hosts, status[p] \in {"Serving"} \cup HandingOff,
           status' = [status EXCEPT ![p] = "Crashed"],
           UNCHANGED <<child, gate, state, root, consumed>>
    PROVE  IInv'
<1> USE DEF Stages, HandingOff, Waiting, Joining, Past, Spawned, InHandoff
<1>0. /\ TypeOK /\ Lineage /\ Protocol /\ Capsules
      /\ Hydration /\ OneHolder /\ HolderCurrent /\ SomeHolder
    BY DEF IInv
<1>1. TypeOK'
    BY <1>0 DEF TypeOK
<1>2. Lineage'
    BY <1>0 DEF Lineage, TypeOK
<1>3. Protocol'
    BY <1>0 DEF Protocol, Lineage, TypeOK
<1>4. Capsules'
    BY <1>0 DEF Capsules, TypeOK, File
<1>5. Hydration'
    BY <1>0 DEF Hydration, Lineage, TypeOK
<1>6. OneHolder' /\ HolderCurrent'
    <2>1. \A q \in Hosts : gate[q] \subseteq gate'[q]
        BY <1>0 DEF TypeOK
    <2>2. \A q \in Hosts : Holds(q)' => Holds(q) /\ state'[q] = state[q]
        BY <1>0 DEF Protocol, Lineage, TypeOK, Holds, Yielded
    <2>3. consumed' = consumed
        BY <1>0
    <2> QED
        BY <2>1, <2>2, <2>3, <1>0, <1>1, HoldersKept
<1>7. SomeHolder'
    <2>1. \A q \in Hosts : Holds(q) \/ status[q] = "Crashed" => Holds(q)' \/ status'[q] = "Crashed"
        BY <1>0 DEF Protocol, Lineage, TypeOK, Holds, Yielded
    <2> QED
        BY <2>1, <1>0, SomeoneKept
<1> QED
    BY <1>1, <1>2, <1>3, <1>4, <1>5, <1>6, <1>7 DEF IInv

LEMMA CrashKeeps ==
    ASSUME IInv, NEW p \in Hosts, Crash(p)
    PROVE  IInv'
<1>1. UNCHANGED <<child, gate, state, root, consumed>>
    BY DEF Crash
<1>2. CASE status[p] \in Joining /\ Moves(p, status[p], "Dead")
    BY <1>1, <1>2, DeathKeeps DEF Moves
<1>3. CASE status[p] \in {"Serving"} \cup HandingOff /\ Moves(p, status[p], "Crashed")
    BY <1>1, <1>3, IncumbentCrashKeeps DEF Moves
<1> QED
    BY <1>2, <1>3 DEF Crash

LEMMA InitIInv ==
    ASSUME Init
    PROVE  IInv
<1>1. TypeOK
    BY DEF Init, TypeOK, Stages
<1>2. \A p \in Hosts : gate[p] = {} /\ status[p] \in {"Serving", "Unborn"} /\ child[p] = NoHost
    BY DEF Init
<1>3. Lineage /\ Protocol /\ Capsules /\ Hydration
    BY <1>2, HostsAssumption
        DEF Init, Lineage, Protocol, Capsules, Hydration, HostsAssumption, Spawned, InHandoff, Waiting
<1>4. \A s \in Sessions : FirstOf(s) \in Hosts /\ SessionOf[FirstOf(s)] = s
    BY DEF Sessions, FirstOf
<1>5. \A p \in Hosts : SessionOf[p] \in Sessions
    BY DEF Sessions
<1>6. \A p \in Hosts : Holds(p) <=> p = FirstOf(SessionOf[p])
    BY DEF Init, Holds, Yielded, HandingOff, Waiting
<1>7. OneHolder
    BY <1>6 DEF OneHolder
<1>8. HolderCurrent
    BY <1>5 DEF HolderCurrent, Init
<1>9. SomeHolder
    BY <1>4, <1>6 DEF SomeHolder, Members
<1> QED
    BY <1>1, <1>3, <1>7, <1>8, <1>9 DEF IInv

LEMMA StepKeeps ==
    ASSUME IInv, [Next]_vars
    PROVE  IInv'
<1>1. CASE UNCHANGED <<status, child, gate, state, root, consumed>>
    BY <1>1 DEF IInv, TypeOK, Lineage, Protocol, Capsules, Hydration, OneHolder, HolderCurrent,
                SomeHolder, Spawned, InHandoff, Holds, Yielded, Disputed, Members
<1>2. ASSUME NEW release \in Releases, Publish(release) PROVE IInv'
    BY <1>1, <1>2 DEF Publish, processVars
<1>3. ASSUME UNCHANGED vars PROVE IInv'
    BY <1>1, <1>3 DEF vars, processVars
<1>4. ASSUME NEW p \in Hosts, Handoffs(p) PROVE IInv'
    BY <1>4, SpawnKeeps, SpawnFailsKeeps, AcceptKeeps, ActivatesKeeps, RelinquishesKeeps,
       FinishFailsKeeps, AbortKeeps DEF Handoffs
<1>5. ASSUME NEW c \in Hosts, Admission(c) PROVE IInv'
    BY <1>5, HydrateKeeps, ConnectKeeps, AnnounceKeeps, GoLiveKeeps, GivesUpKeeps, ExitKeeps
        DEF Admission
<1> QED
    BY <1>2, <1>3, <1>4, <1>5, ReadsKeeps, ObserveKeeps, CaptureKeeps, CrashKeeps DEF Next

LEMMA Invariance == Spec => []IInv
<1>1. Init => IInv
    BY InitIInv
<1>2. IInv /\ [Next]_vars => IInv'
    BY StepKeeps
<1> QED
    BY <1>1, <1>2, PTL DEF Spec

\* At most one process reads a public stream, through any chain of handoffs,
\* deadlines, aborts and deaths among any number of hosts, unless a LIVE byte
\* has crossed the deadline of the incumbent it was meant for (rollout.rs,
\* finish_handoff and admit_successor).
THEOREM SingleReader == Spec => []OneReader
<1>1. IInv => OneReader
    <2> SUFFICES ASSUME IInv, NEW s \in Sessions, ~Disputed(s)
                 PROVE  Cardinality(Readers(s)) <= 1
        BY DEF OneReader
    <2>1. \A p, q \in Readers(s) : p = q
        BY DEF IInv, OneHolder, Holds, Yielded, Readers, Members
    <2>2. CASE Readers(s) = {}
        BY <2>2, FS_EmptySet
    <2>3. CASE Readers(s) # {}
        <3>1. PICK p : Readers(s) = {p}
            BY <2>1, <2>3
        <3> QED
            BY <3>1, FS_Singleton
    <2> QED
        BY <2>2, <2>3
<1> QED
    BY <1>1, Invariance, PTL

\* The process that reads a stream has the state that every frame read so far
\* has led to, whoever shares the capsule directory and however it is pruned
\* (host.rs, write_snapshot_file and load_snapshot_file), with the same
\* exception.
THEOREM ReaderUpToDate == Spec => []SessionContinuity
<1>1. IInv => SessionContinuity
    BY DEF IInv, HolderCurrent, Holds, Yielded, SessionContinuity, Readers, Members
<1> QED
    BY <1>1, Invariance, PTL

\* A session whose reader has not crashed has a process that reads its stream
\* or will read it again: no failure of a successor costs the session
\* (rollout.rs, abort_successor).
THEOREM SessionKept == Spec => []SessionSurvives
<1>1. IInv => SessionSurvives
    BY DEF IInv, SomeHolder, Holds, SessionSurvives, Members
<1> QED
    BY <1>1, Invariance, PTL
=============================================================================
