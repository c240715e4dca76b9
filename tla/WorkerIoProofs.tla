---------------------------- MODULE WorkerIoProofs ----------------------------
(***************************************************************************)
(* What holds of the tasks and queues for every capacity of queues and     *)
(* pipes and every client and worker.  First, why the mailbox is as large  *)
(* as the number of requests that may be pending: an admitted request is   *)
(* somewhere on its way to the worker, or its answer is on the way back,   *)
(* so that the mailbox has room for it.  Then, that the frames of a worker *)
(* reach the host in order, and all of them before WorkerGone.             *)
(***************************************************************************)
EXTENDS WorkerIo, FiniteSetTheorems, SequenceTheorems, TLAPS

-----------------------------------------------------------------------------
(* Counting the frames of one kind in a queue                              *)

Positions(s, kind) == {i \in 1..Len(s) : s[i].kind = kind}

Count(s, kind) == Cardinality(Positions(s, kind))

One(f, kind) == IF f.kind = kind THEN 1 ELSE 0

LEMMA PositionsFinite ==
    ASSUME NEW S, NEW s \in Seq(S), NEW kind
    PROVE  IsFiniteSet(Positions(s, kind)) /\ Count(s, kind) \in Nat
<1>1. Len(s) \in Nat
    OBVIOUS
<1>2. IsFiniteSet(1..Len(s))
    BY <1>1, FS_Interval
<1>3. IsFiniteSet(Positions(s, kind))
    BY <1>2, FS_Subset DEF Positions
<1>4. QED
    BY <1>3, FS_CardinalityType DEF Count

LEMMA CountEmpty == ASSUME NEW kind PROVE Count(<<>>, kind) = 0
<1>1. Positions(<<>>, kind) = {}
    BY DEF Positions
<1>2. QED
    BY <1>1, FS_EmptySet DEF Count

LEMMA CountAppend ==
    ASSUME NEW S, NEW s \in Seq(S), NEW f \in S, NEW kind
    PROVE  Count(Append(s, f), kind) = Count(s, kind) + One(f, kind)
<1> DEFINE n == Len(s) + 1
<1>1. /\ Len(s) \in Nat /\ Len(Append(s, f)) = n
      /\ \A i \in 1..Len(s) : Append(s, f)[i] = s[i]
      /\ Append(s, f)[n] = f
    OBVIOUS
<1>2. n \notin Positions(s, kind)
    BY <1>1 DEF Positions
<1>3. CASE f.kind = kind
    <2>1. Positions(Append(s, f), kind) = Positions(s, kind) \cup {n}
        BY <1>1, <1>3 DEF Positions
    <2>2. QED
        BY <1>2, <1>3, <2>1, PositionsFinite, FS_AddElement DEF Count, One
<1>4. CASE f.kind # kind
    <2>1. Positions(Append(s, f), kind) = Positions(s, kind)
        BY <1>1, <1>4 DEF Positions
    <2>2. QED
        BY <1>4, <2>1, PositionsFinite DEF Count, One
<1>5. QED
    BY <1>3, <1>4

LEMMA CountTail ==
    ASSUME NEW S, NEW s \in Seq(S), s # <<>>, NEW kind
    PROVE  Count(s, kind) = Count(Tail(s), kind) + One(Head(s), kind)
<1> DEFINE rest == Positions(Tail(s), kind)
           later == Positions(s, kind) \ {1}
           shift == [i \in rest |-> i + 1]
<1>1. /\ Len(s) \in Nat \ {0} /\ Head(s) = s[1] /\ Tail(s) \in Seq(S)
      /\ Len(Tail(s)) = Len(s) - 1
      /\ \A i \in 1..(Len(s) - 1) : Tail(s)[i] = s[i + 1]
    OBVIOUS
<1>2. shift \in Bijection(rest, later)
    <2>1. ASSUME NEW i \in rest
          PROVE  i + 1 \in later /\ i \in Nat
        BY <1>1 DEF Positions
    <2>2. shift \in [rest -> later]
        BY <2>1
    <2>3. \A i, j \in rest : shift[i] = shift[j] => i = j
        BY <2>1
    <2>4. ASSUME NEW j \in later
          PROVE  \E i \in rest : shift[i] = j
        <3>1. j - 1 \in rest
            BY <1>1 DEF Positions
        <3>2. shift[j - 1] = j
            BY <3>1 DEF Positions
        <3>3. QED
            BY <3>1, <3>2
    <2>5. QED
        BY <2>2, <2>3, <2>4 DEF Bijection, Injection, Surjection, IsInjective
<1>3. IsFiniteSet(rest) /\ IsFiniteSet(Positions(s, kind)) /\ Count(s, kind) \in Nat
    BY <1>1, PositionsFinite
<1>4. Cardinality(later) = Count(Tail(s), kind)
    BY <1>2, <1>3, FS_Bijection DEF Count, ExistsBijection
<1>5. Cardinality(later) = IF 1 \in Positions(s, kind)
                           THEN Count(s, kind) - 1 ELSE Count(s, kind)
    BY <1>3, FS_RemoveElement DEF Count
<1>6. 1 \in Positions(s, kind) <=> Head(s).kind = kind
    BY <1>1 DEF Positions
<1>7. QED
    BY <1>3, <1>4, <1>5, <1>6 DEF One

\* A queue of nothing but one kind
LEMMA CountAll ==
    ASSUME NEW S, NEW s \in Seq(S), NEW kind, \A i \in 1..Len(s) : s[i].kind = kind
    PROVE  Count(s, kind) = Len(s)
<1>1. Positions(s, kind) = 1..Len(s)
    BY DEF Positions
<1>2. Len(s) \in Nat
    OBVIOUS
<1>3. Cardinality(1..Len(s)) = IF 1 > Len(s) THEN 0 ELSE Len(s) - 1 + 1
    BY <1>2, FS_Interval
<1>4. QED
    BY <1>1, <1>2, <1>3 DEF Count

-----------------------------------------------------------------------------
(* The invariant                                                           *)

FromWorker == [kind : {"reply", "notice"}, n : Nat]

Outputs == {<<>>, <<"reply">>, <<"notice">>, <<"notice", "reply">>}

\* Every variable keeps its type.
TypeInv ==
    /\ events \in Seq(ToWorker \cup FromWorker \cup {Gone, End})
    /\ client \in [has : ToWorker \cup {Nothing, End}, open : BOOLEAN]
    /\ host \in [at : {"Idle", "Sending", "Down"}, has : ToWorker \cup {Nothing}]
    /\ handle \in BOOLEAN
    /\ pending \in Nat
    /\ mailbox \in Seq(ToWorker)
    /\ writer \in ToWorker \cup {Nothing}
    /\ stdin \in Seq(ToWorker)
    /\ worker \in [is : {"up", "hung", "dead"}, out : Outputs]
    /\ stdout \in Seq(FromWorker)
    /\ reader \in FromWorker \cup {Nothing}
    /\ emitted \in Nat

\* Requests on their way to the worker, in its hands, and answers on their way
\* back
Owed(out) == IF out \in {<<"reply">>, <<"notice", "reply">>} THEN 1 ELSE 0

Sent == One(host.has, "request") + Count(mailbox, "request")
            + One(writer, "request") + Count(stdin, "request")

Answered == Count(stdout, "reply") + One(reader, "reply") + Count(events, "reply")

\* While the host has the worker, each of them is one of its pending requests.
\* A host that sends has the worker, and one that does not send has nothing in
\* its hands.
Conserved ==
    /\ handle => /\ Sent + Owed(worker.out) + Answered <= pending
                 /\ pending <= PendingCapacity
    /\ IF host.at = "Sending" THEN handle /\ host.has \in ToWorker
       ELSE host.has = Nothing

FlowInv == TypeInv /\ Conserved

\* TypeInv makes numbers of all that is counted.
LEMMA Numbers ==
    ASSUME TypeInv
    PROVE  /\ One(host.has, "request") \in 0..1 /\ One(writer, "request") \in 0..1
           /\ One(reader, "reply") \in 0..1 /\ Owed(worker.out) \in 0..1
           /\ Count(mailbox, "request") \in Nat /\ Count(stdin, "request") \in Nat
           /\ Count(stdout, "reply") \in Nat /\ Count(events, "reply") \in Nat
           /\ Sent \in Nat /\ Answered \in Nat
<1>1. /\ One(host.has, "request") \in 0..1 /\ One(writer, "request") \in 0..1
      /\ One(reader, "reply") \in 0..1 /\ Owed(worker.out) \in 0..1
    BY DEF One, Owed
<1>2. /\ Count(mailbox, "request") \in Nat /\ Count(stdin, "request") \in Nat
      /\ Count(stdout, "reply") \in Nat /\ Count(events, "reply") \in Nat
    BY PositionsFinite DEF TypeInv
<1>3. Sent \in Nat /\ Answered \in Nat
    BY <1>1, <1>2 DEF Sent, Answered
<1>4. QED
    BY <1>1, <1>2, <1>3

LEMMA InitConserved == ASSUME NEW bounds, InitWith(bounds) PROVE FlowInv
<1>1. /\ Nothing.kind = "nothing" /\ Owed(<<>>) = 0
      /\ Count(<<>>, "request") = 0 /\ Count(<<>>, "reply") = 0
    BY CountEmpty DEF Nothing, Owed
<1>2. TypeInv
    BY DEF InitWith, TypeInv, Outputs, Nothing
<1>3. Conserved
    BY <1>1, CapacityAssumption DEF InitWith, Conserved, Sent, Answered, One
<1>4. QED
    BY <1>2, <1>3 DEF FlowInv

\* What the invariant is for: when nothing but requests is in the mailbox and in
\* the host's hands, there is room.
LEMMA ConservedFits == FlowInv => RequestsFit
<1> SUFFICES ASSUME FlowInv, HostWaits, \A f \in Range(mailbox) \cup {host.has} : f = Request
             PROVE  FALSE
    BY DEF RequestsFit
<1>1. /\ handle /\ mailbox \in Seq(ToWorker)
      /\ Sent + Owed(worker.out) + Answered <= pending
      /\ pending <= PendingCapacity /\ pending \in Nat
    BY DEF FlowInv, TypeInv, Conserved, HostWaits
<1>2. Count(mailbox, "request") = Len(mailbox)
    <2>1. \A i \in 1..Len(mailbox) : mailbox[i].kind = "request"
        BY <1>1 DEF Range, Request
    <2>2. QED
        BY <1>1, <2>1, CountAll
<1>3. One(host.has, "request") = 1
    BY DEF One, Request
<1>4. Len(mailbox) >= PendingCapacity /\ PendingCapacity \in Nat
    BY <1>1, CapacityAssumption DEF HostWaits, HasRoom
<1>5. QED
    BY <1>1, <1>2, <1>3, <1>4, Numbers DEF FlowInv, Sent, Answered

-----------------------------------------------------------------------------
(* The steps                                                               *)

\* Frames of the client, while they are on their way to the host
LEMMA ClientSteps ==
    ASSUME FlowInv,
           \/ \E f \in ToWorker : ReadClient(f)
           \/ ReadClientEnd \/ SendClientEvent
    PROVE  FlowInv'
<1> USE DEF hostVars, inputVars, outputVars, ioVars
<1>1. CASE (\E f \in ToWorker : ReadClient(f)) \/ ReadClientEnd
    <2>1. UNCHANGED <<events, worker, handle, pending, host, mailbox, writer, stdin,
                      stdout, reader, emitted>>
        BY <1>1 DEF ReadClient, ReadClientEnd
    <2>2. client' \in [has : ToWorker \cup {Nothing, End}, open : BOOLEAN]
        <3>1. ASSUME NEW f \in ToWorker, ReadClient(f)
              PROVE  client' \in [has : ToWorker \cup {Nothing, End}, open : BOOLEAN]
            <4>1. client' = [has |-> f, open |-> TRUE]
                BY <3>1 DEF ReadClient
            <4>2. QED
                BY <4>1
        <3>2. CASE ReadClientEnd
            BY <3>2 DEF ReadClientEnd
        <3>3. QED
            BY <1>1, <3>1, <3>2
    <2>3. TypeInv'
        BY <2>1, <2>2 DEF FlowInv, TypeInv
    <2>4. Conserved'
        <3>1. Sent' = Sent /\ Answered' = Answered
            BY <2>1 DEF Sent, Answered
        <3>2. QED
            BY <2>1, <3>1 DEF FlowInv, Conserved
    <2>5. QED
        BY <2>3, <2>4 DEF FlowInv
<1>2. CASE SendClientEvent
    <2>1. client.has \in ToWorker \cup {End} /\ client.has.kind # "reply"
        BY <1>2 DEF FlowInv, TypeInv, SendClientEvent, ToWorker, End
    <2>2. TypeInv'
        <3>1. UNCHANGED <<worker, handle, pending, host, mailbox, writer, stdin,
                          stdout, reader, emitted>>
            BY <1>2 DEF SendClientEvent
        <3>2. client' \in [has : ToWorker \cup {Nothing, End}, open : BOOLEAN]
            BY <1>2 DEF FlowInv, TypeInv, SendClientEvent
        <3>3. events' \in Seq(ToWorker \cup FromWorker \cup {Gone, End})
            BY <1>2, <2>1 DEF FlowInv, TypeInv, SendClientEvent
        <3>4. QED
            BY <3>1, <3>2, <3>3 DEF FlowInv, TypeInv
    <2>3. Count(events', "reply") = Count(events, "reply") + One(client.has, "reply")
        <3>1. /\ events \in Seq(ToWorker \cup FromWorker \cup {Gone, End})
              /\ client.has \in ToWorker \cup FromWorker \cup {Gone, End}
              /\ events' = Append(events, client.has)
            BY <1>2, <2>1 DEF FlowInv, TypeInv, SendClientEvent
        <3>2. QED
            BY <3>1, CountAppend
    <2>4. Count(events', "reply") = Count(events, "reply")
        BY <2>1, <2>3, Numbers DEF One, FlowInv
    <2>5. /\ Sent' = Sent /\ Answered' = Answered
          /\ UNCHANGED <<worker, handle, pending, host>>
        BY <1>2, <2>4 DEF SendClientEvent, Sent, Answered
    <2>6. Conserved'
        BY <2>5 DEF FlowInv, Conserved
    <2>7. QED
        BY <2>2, <2>6 DEF FlowInv
<1>3. QED
    BY <1>1, <1>2

\* A host that takes an event has nothing in its hands.
LEMMA EventTaken ==
    ASSUME FlowInv, NEW f, Takes(f)
    PROVE  /\ f \in ToWorker \cup FromWorker \cup {Gone, End}
           /\ events' \in Seq(ToWorker \cup FromWorker \cup {Gone, End})
           /\ Count(events, "reply") = Count(events', "reply") + One(f, "reply")
           /\ host.has = Nothing
           /\ UNCHANGED <<client, mailbox, writer, stdin, worker, stdout, reader, emitted>>
<1>1. /\ f \in ToWorker \cup FromWorker \cup {Gone, End}
      /\ events' \in Seq(ToWorker \cup FromWorker \cup {Gone, End})
    BY DEF FlowInv, TypeInv, Takes
<1>2. Count(events, "reply") = Count(events', "reply") + One(f, "reply")
    BY CountTail DEF FlowInv, TypeInv, Takes
<1>3. QED
    BY <1>1, <1>2 DEF FlowInv, Conserved, Takes, inputVars, outputVars

LEMMA ClientFrameTaken ==
    ASSUME FlowInv, NEW f \in ToWorker, TakeClientFrame(f)
    PROVE  FlowInv'
<1>1. Takes(f)
    BY DEF TakeClientFrame
<1>2. One(f, "reply") = 0 /\ f # Nothing /\ (f = Request <=> f.kind = "request")
    BY DEF One, ToWorker, Nothing, Request
<1>3. One(Nothing, "request") = 0
    BY DEF One, Nothing
<1>4. Count(events', "reply") = Count(events, "reply")
    BY <1>1, <1>2, EventTaken, Numbers, PositionsFinite DEF FlowInv
<1>5. Answered' = Answered
    BY <1>1, <1>4, EventTaken DEF Answered
<1>6. CASE handle /\ Admits(f)
    <2>1. /\ host' = [at |-> "Sending", has |-> f] /\ UNCHANGED handle
          /\ pending' = pending + (IF f = Request THEN 1 ELSE 0)
        BY <1>6 DEF TakeClientFrame
    <2>2. TypeInv'
        BY <1>1, <2>1, EventTaken DEF FlowInv, TypeInv
    <2>3. One(f, "request") = IF f = Request THEN 1 ELSE 0
        BY <1>2 DEF One
    <2>4. Sent' = Sent + (IF f = Request THEN 1 ELSE 0)
        BY <1>1, <1>3, <2>1, <2>3, EventTaken, Numbers, SMTT(20)
            DEF Sent, FlowInv
    <2>5. pending' <= PendingCapacity
        BY <1>6, <2>1, CapacityAssumption DEF Admits, FlowInv, TypeInv, Conserved
    <2>6. /\ Sent \in Nat /\ Answered \in Nat /\ Owed(worker.out) \in Nat /\ pending \in Nat
          /\ Sent + Owed(worker.out) + Answered <= pending
        <3>1. pending \in Nat /\ Sent + Owed(worker.out) + Answered <= pending
            BY <1>6 DEF FlowInv, TypeInv, Conserved
        <3>2. QED
            BY <3>1, Numbers DEF FlowInv
    <2>7. Sent' + Owed(worker.out)' + Answered' <= pending'
        <3>1. Owed(worker.out)' = Owed(worker.out)
            BY <1>1, EventTaken
        <3>2. QED
            BY <1>5, <2>1, <2>4, <2>6, <3>1
    <2>8. Conserved'
        BY <1>6, <2>1, <2>5, <2>7 DEF Conserved
    <2>9. QED
        BY <2>2, <2>8 DEF FlowInv
<1>7. CASE ~ (handle /\ Admits(f))
    <2>1. UNCHANGED <<host, pending, handle>>
        BY <1>7 DEF TakeClientFrame
    <2>2. TypeInv'
        BY <1>1, <2>1, EventTaken DEF FlowInv, TypeInv
    <2>3. Sent' = Sent /\ UNCHANGED worker
        BY <1>1, <2>1, EventTaken DEF Sent
    <2>4. Conserved'
        BY <1>5, <2>1, <2>3 DEF FlowInv, Conserved
    <2>5. QED
        BY <2>2, <2>4 DEF FlowInv
<1>8. QED
    BY <1>6, <1>7

LEMMA WorkerFrameTaken ==
    ASSUME FlowInv, NEW f, TakeWorkerFrame(f)
    PROVE  FlowInv'
<1>1. Takes(f) /\ UNCHANGED <<host, handle>>
    BY DEF TakeWorkerFrame
<1>2. Count(events, "reply") = Count(events', "reply") + One(f, "reply")
    BY <1>1, EventTaken
<1>3. Count(events', "reply") \in Nat
    BY <1>1, EventTaken, PositionsFinite
<1>4. Sent' = Sent /\ UNCHANGED worker
    BY <1>1, EventTaken DEF Sent
<1>5. Answered = Answered' + One(f, "reply")
    <2>1. Answered' = Count(stdout, "reply") + One(reader, "reply") + Count(events', "reply")
        BY <1>1, EventTaken DEF Answered
    <2>2. One(f, "reply") \in 0..1
        BY DEF One
    <2>3. QED
        BY <1>2, <1>3, <2>1, <2>2, Numbers DEF Answered, FlowInv
<1>6. pending' = IF handle THEN pending - One(f, "reply") ELSE pending
    BY DEF TakeWorkerFrame, One, FlowInv, TypeInv
<1>7. Answered' \in Nat
    BY <1>3, <1>1, EventTaken, Numbers DEF Answered, FlowInv
<1>8. handle => /\ pending' \in Nat
                /\ Sent + Owed(worker.out) + Answered' <= pending'
                /\ pending' <= PendingCapacity
    <2> SUFFICES ASSUME handle
                 PROVE  /\ pending' \in Nat
                        /\ Sent + Owed(worker.out) + Answered' <= pending'
                        /\ pending' <= PendingCapacity
        OBVIOUS
    <2>1. /\ Sent + Owed(worker.out) + Answered <= pending
          /\ pending <= PendingCapacity /\ pending \in Nat
        BY DEF FlowInv, TypeInv, Conserved
    <2>2. Sent \in Nat /\ Owed(worker.out) \in Nat /\ One(f, "reply") \in 0..1
        BY Numbers DEF FlowInv, One
    <2>3. PendingCapacity \in Nat
        BY CapacityAssumption
    <2>4. QED
        BY <1>5, <1>6, <1>7, <2>1, <2>2, <2>3
<1>9. TypeInv'
    BY <1>1, <1>6, <1>8, EventTaken DEF FlowInv, TypeInv
<1>10. Conserved'
    BY <1>1, <1>4, <1>8 DEF FlowInv, Conserved
<1>11. QED
    BY <1>9, <1>10 DEF FlowInv

\* A host that gives its worker up has nothing more to conserve.
LEMMA GivenUp ==
    ASSUME FlowInv, TypeInv', ~ handle', host.has' = Nothing, host.at' # "Sending"
    PROVE  FlowInv'
BY DEF FlowInv, Conserved

LEMMA EndTaken ==
    ASSUME FlowInv, TakeWorkerGone \/ TakeClientEnd
    PROVE  FlowInv'
<1>1. CASE TakeWorkerGone
    <2>1. /\ Takes(Gone) /\ UNCHANGED host /\ host.at = "Idle"
          /\ handle' = FALSE /\ pending' = 0
        BY <1>1 DEF TakeWorkerGone, Drops, Takes
    <2>2. TypeInv'
        BY <2>1, EventTaken DEF FlowInv, TypeInv
    <2>3. QED
        BY <2>1, <2>2, GivenUp, EventTaken
<1>2. CASE TakeClientEnd
    <2>1. /\ host.at = "Idle" /\ host' = [host EXCEPT !.at = "Down"]
          /\ handle' = FALSE /\ pending' = 0
          /\ worker' = Ended
          /\ events # <<>> /\ events' = Tail(events)
          /\ UNCHANGED <<client, mailbox, writer, stdin, stdout, reader, emitted>>
        BY <1>2 DEF TakeClientEnd, Drops, inputVars, outputVars
    <2>2. /\ host.has = Nothing
          /\ host \in [at : {"Idle", "Sending", "Down"}, has : ToWorker \cup {Nothing}]
        BY <2>1 DEF FlowInv, Conserved, TypeInv
    <2>3. host'.has = Nothing /\ host'.at = "Down"
        BY <2>1, <2>2
    <2>4. host' \in [at : {"Idle", "Sending", "Down"}, has : ToWorker \cup {Nothing}]
        BY <2>1, <2>2
    <2>5. worker' \in [is : {"up", "hung", "dead"}, out : Outputs]
        BY <2>1 DEF Ended, Outputs
    <2>6. events' \in Seq(ToWorker \cup FromWorker \cup {Gone, End})
        BY <2>1 DEF FlowInv, TypeInv
    <2>7. TypeInv'
        BY <2>1, <2>4, <2>5, <2>6 DEF FlowInv, TypeInv
    <2>8. QED
        BY <2>1, <2>3, <2>7, GivenUp
<1>3. QED
    BY <1>1, <1>2

\* What the host sends is in the mailbox then.
LEMMA Sends ==
    ASSUME FlowInv, Send
    PROVE  FlowInv'
<1>1. /\ host.at = "Sending" /\ host' = [at |-> "Idle", has |-> Nothing]
      /\ UNCHANGED <<events, client, writer, stdin, worker, stdout, reader, emitted>>
    BY DEF Send, outputVars
<1>2. CASE /\ mailbox' = Append(mailbox, host.has)
           /\ UNCHANGED <<handle, pending>>
    <2>1. handle /\ host.has \in ToWorker /\ mailbox \in Seq(ToWorker)
        BY <1>1 DEF FlowInv, TypeInv, Conserved
    <2>2. Count(mailbox', "request") = Count(mailbox, "request") + One(host.has, "request")
        BY <1>2, <2>1, CountAppend
    <2>3. One(host'.has, "request") = 0
        BY <1>1 DEF One, Nothing
    <2>4. Sent' = Sent
        <3>1. Sent' = 0 + Count(mailbox', "request")
                        + One(writer, "request") + Count(stdin, "request")
            BY <1>1, <2>3 DEF Sent
        <3>2. QED
            BY <2>2, <3>1, Numbers DEF Sent, FlowInv
    <2>5. Answered' = Answered
        BY <1>1 DEF Answered
    <2>6. TypeInv'
        BY <1>1, <1>2, <2>1 DEF FlowInv, TypeInv
    <2>7. Conserved'
        BY <1>1, <1>2, <2>4, <2>5 DEF FlowInv, Conserved
    <2>8. QED
        BY <2>6, <2>7 DEF FlowInv
<1>3. CASE Drops /\ UNCHANGED mailbox
    <2>1. TypeInv'
        BY <1>1, <1>3 DEF FlowInv, TypeInv, Drops
    <2>2. QED
        BY <1>1, <1>3, <2>1, GivenUp DEF Drops
<1>4. QED
    BY <1>2, <1>3 DEF Send

LEMMA Retires ==
    ASSUME FlowInv, Retire
    PROVE  FlowInv'
<1>1. /\ host.at = "Idle" /\ handle' = FALSE /\ pending' = 0
      /\ UNCHANGED <<events, client, host, mailbox, writer, stdin, worker,
                     stdout, reader, emitted>>
    BY DEF Retire, Drops, inputVars, outputVars
<1>2. TypeInv'
    BY <1>1 DEF FlowInv, TypeInv
<1>3. host.has = Nothing
    BY <1>1 DEF FlowInv, Conserved
<1>4. QED
    BY <1>1, <1>2, <1>3, GivenUp

\* The other tasks move frames along, or lose them.
LEMMA Moved ==
    ASSUME FlowInv, TypeInv', UNCHANGED <<host, handle, pending>>,
           Sent' + Owed(worker.out)' + Answered' <= Sent + Owed(worker.out) + Answered
    PROVE  FlowInv'
<1>1. /\ Sent \in Nat /\ Owed(worker.out) \in Nat /\ Answered \in Nat /\ pending \in Nat
      /\ Sent' \in Nat /\ Owed(worker.out)' \in Nat /\ Answered' \in Nat
    <2>1. Sent' \in Nat /\ Owed(worker.out)' \in 0..1 /\ Answered' \in Nat
        <3>1. /\ mailbox' \in Seq(ToWorker) /\ stdin' \in Seq(ToWorker)
              /\ stdout' \in Seq(FromWorker)
              /\ events' \in Seq(ToWorker \cup FromWorker \cup {Gone, End})
            BY DEF TypeInv
        <3>2. /\ Count(mailbox', "request") \in Nat /\ Count(stdin', "request") \in Nat
              /\ Count(stdout', "reply") \in Nat /\ Count(events', "reply") \in Nat
            BY <3>1, PositionsFinite
        <3>3. /\ One(host'.has, "request") \in 0..1 /\ One(writer', "request") \in 0..1
              /\ One(reader', "reply") \in 0..1 /\ Owed(worker'.out) \in 0..1
            BY DEF One, Owed
        <3>4. QED
            BY <3>2, <3>3 DEF Sent, Answered
    <2>2. pending \in Nat
        BY DEF FlowInv, TypeInv
    <2>3. QED
        BY <2>1, <2>2, Numbers DEF FlowInv
<1>2. handle => Sent' + Owed(worker.out)' + Answered' <= pending
    BY <1>1 DEF FlowInv, Conserved
<1>3. Conserved'
    BY <1>2 DEF FlowInv, Conserved
<1>4. QED
    BY <1>3 DEF FlowInv

\* The end of the tasks, and of the worker, loses what they hold.
LEMMA TasksEnd ==
    ASSUME FlowInv, NEW why, Ends(why)
    PROVE  FlowInv'
<1>1. /\ worker' = [is |-> "dead", out |-> <<>>]
      /\ writer' = Nothing /\ reader' = Nothing /\ stdin' = <<>> /\ stdout' = <<>>
      /\ UNCHANGED <<events, client, host, handle, pending, mailbox, emitted>>
    BY DEF Ends, Ended, hostVars
<1>2. TypeInv'
    BY <1>1 DEF FlowInv, TypeInv, Outputs
<1>3. /\ One(Nothing, "request") = 0 /\ One(Nothing, "reply") = 0 /\ Owed(<<>>) = 0
      /\ Count(<<>>, "request") = 0 /\ Count(<<>>, "reply") = 0
    BY CountEmpty DEF Nothing, One, Owed
<1>4. /\ Sent' = One(host.has, "request") + Count(mailbox, "request") + 0 + 0
      /\ Owed(worker.out)' = 0
      /\ Answered' = 0 + 0 + Count(events, "reply")
    BY <1>1, <1>3 DEF Sent, Answered
<1>5. Sent' + Owed(worker.out)' + Answered' <= Sent + Owed(worker.out) + Answered
    BY <1>4, Numbers DEF Sent, Answered, FlowInv
<1>6. QED
    BY <1>1, <1>2, <1>5, Moved

LEMMA WriterSteps ==
    ASSUME FlowInv, WriterReceives \/ WriterWrites
    PROVE  FlowInv'
<1>1. One(Nothing, "request") = 0
    BY DEF Nothing, One
<1>2. CASE WriterReceives
    <2>1. /\ writer = Nothing /\ mailbox # <<>>
          /\ writer' = Head(mailbox) /\ mailbox' = Tail(mailbox)
          /\ UNCHANGED <<events, client, host, handle, pending, stdin, worker,
                         stdout, reader, emitted>>
        BY <1>2 DEF WriterReceives, hostVars, outputVars
    <2>2. TypeInv'
        BY <2>1 DEF FlowInv, TypeInv
    <2>3. /\ Count(mailbox, "request") = Count(mailbox', "request") + One(writer', "request")
          /\ Count(mailbox', "request") \in Nat /\ One(writer', "request") \in 0..1
        <3>1. mailbox \in Seq(ToWorker) /\ mailbox' \in Seq(ToWorker)
            BY <2>2 DEF FlowInv, TypeInv
        <3>2. Count(mailbox, "request") = Count(mailbox', "request") + One(writer', "request")
            BY <2>1, <3>1, CountTail
        <3>3. Count(mailbox', "request") \in Nat
            BY <3>1, PositionsFinite
        <3>4. QED
            BY <3>2, <3>3 DEF One
    <2>4. /\ Sent = One(host.has, "request") + Count(mailbox, "request")
                        + 0 + Count(stdin, "request")
          /\ Sent' = One(host.has, "request") + Count(mailbox', "request")
                        + One(writer', "request") + Count(stdin, "request")
          /\ Answered' = Answered /\ Owed(worker.out)' = Owed(worker.out)
        BY <1>1, <2>1 DEF Sent, Answered
    <2>5. Sent' = Sent
        BY <2>3, <2>4, Numbers DEF FlowInv
    <2>6. QED
        BY <2>1, <2>2, <2>4, <2>5, Moved, Numbers DEF FlowInv
<1>3. CASE WriterWrites
    <2>1. /\ writer # Nothing
          /\ stdin' = Append(stdin, writer) /\ writer' = Nothing
          /\ UNCHANGED <<events, client, host, handle, pending, mailbox, worker,
                         stdout, reader, emitted>>
        BY <1>3 DEF WriterWrites, hostVars, outputVars
    <2>2. writer \in ToWorker
        BY <2>1 DEF FlowInv, TypeInv
    <2>3. TypeInv'
        BY <2>1, <2>2 DEF FlowInv, TypeInv
    <2>4. Count(stdin', "request") = Count(stdin, "request") + One(writer, "request")
        BY <2>1, <2>2, CountAppend DEF FlowInv, TypeInv
    <2>5. /\ Sent' = One(host.has, "request") + Count(mailbox, "request")
                        + 0 + Count(stdin', "request")
          /\ Answered' = Answered /\ Owed(worker.out)' = Owed(worker.out)
        BY <1>1, <2>1 DEF Sent, Answered
    <2>6. Sent' = Sent
        BY <2>4, <2>5, Numbers DEF Sent, FlowInv
    <2>7. QED
        BY <2>1, <2>3, <2>5, <2>6, Moved, Numbers DEF FlowInv
<1>4. QED
    BY <1>2, <1>3

LEMMA ReaderSteps ==
    ASSUME FlowInv, ReaderReads \/ ReaderSends \/ Report
    PROVE  FlowInv'
<1>1. One(Nothing, "reply") = 0 /\ One(Gone, "reply") = 0
    BY DEF Nothing, Gone, One
<1>2. CASE ReaderReads
    <2>1. /\ reader = Nothing /\ stdout # <<>>
          /\ reader' = Head(stdout) /\ stdout' = Tail(stdout)
          /\ UNCHANGED <<events, client, host, handle, pending, mailbox, writer, stdin,
                         worker, emitted>>
        BY <1>2 DEF ReaderReads, hostVars, inputVars
    <2>2. TypeInv'
        BY <2>1 DEF FlowInv, TypeInv
    <2>3. /\ Count(stdout, "reply") = Count(stdout', "reply") + One(reader', "reply")
          /\ Count(stdout', "reply") \in Nat /\ One(reader', "reply") \in 0..1
        <3>1. stdout \in Seq(FromWorker) /\ stdout' \in Seq(FromWorker)
            BY <2>2 DEF FlowInv, TypeInv
        <3>2. Count(stdout, "reply") = Count(stdout', "reply") + One(reader', "reply")
            BY <2>1, <3>1, CountTail
        <3>3. Count(stdout', "reply") \in Nat
            BY <3>1, PositionsFinite
        <3>4. QED
            BY <3>2, <3>3 DEF One
    <2>4. /\ Answered = Count(stdout, "reply") + 0 + Count(events, "reply")
          /\ Answered' = Count(stdout', "reply") + One(reader', "reply")
                            + Count(events, "reply")
          /\ Sent' = Sent /\ Owed(worker.out)' = Owed(worker.out)
        BY <1>1, <2>1 DEF Sent, Answered
    <2>5. Answered' = Answered
        BY <2>3, <2>4, Numbers DEF FlowInv
    <2>6. QED
        BY <2>1, <2>2, <2>4, <2>5, Moved, Numbers DEF FlowInv
<1>3. CASE ReaderSends
    <2>1. /\ reader # Nothing
          /\ events' = Append(events, reader) /\ reader' = Nothing
          /\ UNCHANGED <<client, host, handle, pending, mailbox, writer, stdin,
                         worker, stdout, emitted>>
        BY <1>3 DEF ReaderSends, hostVars, inputVars
    <2>2. /\ reader \in ToWorker \cup FromWorker \cup {Gone, End}
          /\ events \in Seq(ToWorker \cup FromWorker \cup {Gone, End})
        BY <2>1 DEF FlowInv, TypeInv
    <2>3. TypeInv'
        BY <2>1, <2>2 DEF FlowInv, TypeInv
    <2>4. Count(events', "reply") = Count(events, "reply") + One(reader, "reply")
        BY <2>1, <2>2, CountAppend
    <2>5. /\ Answered' = Count(stdout, "reply") + 0 + Count(events', "reply")
          /\ Sent' = Sent /\ Owed(worker.out)' = Owed(worker.out)
        BY <1>1, <2>1 DEF Sent, Answered
    <2>6. Answered' = Answered
        BY <2>4, <2>5, Numbers DEF Answered, FlowInv
    <2>7. QED
        BY <2>1, <2>3, <2>5, <2>6, Moved, Numbers DEF FlowInv
<1>4. CASE Report
    <2>1. /\ events' = Append(events, Gone)
          /\ UNCHANGED <<client, host, handle, pending, mailbox, writer, stdin,
                         worker, stdout, reader, emitted>>
        BY <1>4 DEF Report, hostVars, inputVars, outputVars
    <2>2. events \in Seq(ToWorker \cup FromWorker \cup {Gone, End})
        BY DEF FlowInv, TypeInv
    <2>3. TypeInv'
        BY <2>1, <2>2 DEF FlowInv, TypeInv
    <2>4. Count(events', "reply") = Count(events, "reply") + One(Gone, "reply")
        BY <2>1, <2>2, CountAppend
    <2>5. /\ Answered' = Count(stdout, "reply") + One(reader, "reply")
                            + Count(events', "reply")
          /\ Sent' = Sent /\ Owed(worker.out)' = Owed(worker.out)
        BY <2>1 DEF Sent, Answered
    <2>6. Answered' = Answered
        BY <1>1, <2>4, <2>5, Numbers DEF Answered, FlowInv
    <2>7. QED
        BY <2>1, <2>3, <2>5, <2>6, Moved, Numbers DEF FlowInv
<1>5. QED
    BY <1>2, <1>3, <1>4

\* The outputs of a worker: an answer it owes comes last.
LEMMA OutputFacts ==
    /\ Owed(<<>>) = 0 /\ Owed(<<"notice">>) = 0
    /\ Owed(<<"reply">>) = 1 /\ Owed(<<"notice", "reply">>) = 1
<1>1. /\ <<>> # <<"reply">> /\ <<>> # <<"notice", "reply">>
      /\ <<"notice">> # <<"reply">> /\ <<"notice">> # <<"notice", "reply">>
    OBVIOUS
<1>2. QED
    BY <1>1 DEF Owed

LEMMA WorkerRead ==
    ASSUME FlowInv, WorkerReads
    PROVE  FlowInv'
<1> DEFINE out == IF Head(stdin) = Request THEN <<"reply">> ELSE <<>>
<1>1. /\ worker.out = <<>> /\ stdin # <<>> /\ stdin' = Tail(stdin)
      /\ worker' = [worker EXCEPT !.out = out]
      /\ UNCHANGED <<events, client, host, handle, pending, mailbox, writer,
                     stdout, reader, emitted>>
    BY DEF WorkerReads, hostVars, outputVars
<1>2. /\ stdin \in Seq(ToWorker) /\ stdin' \in Seq(ToWorker) /\ Head(stdin) \in ToWorker
      /\ worker \in [is : {"up", "hung", "dead"}, out : Outputs]
    BY <1>1 DEF FlowInv, TypeInv
<1>3. worker' \in [is : {"up", "hung", "dead"}, out : Outputs] /\ worker'.out = out
    BY <1>1, <1>2 DEF Outputs
<1>4. TypeInv'
    BY <1>1, <1>2, <1>3 DEF FlowInv, TypeInv
<1>5. Count(stdin, "request") = Count(stdin', "request") + One(Head(stdin), "request")
    BY <1>1, <1>2, CountTail
<1>6. Owed(worker'.out) = One(Head(stdin), "request") /\ Owed(worker.out) = 0
    <2>1. Head(stdin) = Request <=> Head(stdin).kind = "request"
        BY <1>2 DEF ToWorker, Request
    <2>2. QED
        BY <1>1, <1>3, <2>1, OutputFacts DEF One
<1>7. Count(stdin', "request") \in Nat /\ One(Head(stdin), "request") \in 0..1
    BY <1>2, PositionsFinite DEF One
<1>8. /\ Sent' = One(host.has, "request") + Count(mailbox, "request")
                    + One(writer, "request") + Count(stdin', "request")
      /\ Answered' = Answered
    BY <1>1 DEF Sent, Answered
<1>9. Sent' + Owed(worker'.out) + Answered' = Sent + Owed(worker.out) + Answered
    BY <1>5, <1>6, <1>7, <1>8, Numbers DEF Sent, FlowInv
<1>10. Sent' + Owed(worker.out)' + Answered' <= Sent + Owed(worker.out) + Answered
    BY <1>9, Numbers DEF FlowInv
<1>11. QED
    BY <1>1, <1>4, <1>10, Moved

LEMMA WorkerWrote ==
    ASSUME FlowInv, WorkerWrites
    PROVE  FlowInv'
<1> DEFINE frame == [kind |-> Head(worker.out), n |-> emitted + 1]
<1>1. /\ worker.out # <<>> /\ emitted' = emitted + 1
      /\ stdout' = Append(stdout, frame)
      /\ worker' = [worker EXCEPT !.out = Tail(@)]
      /\ UNCHANGED <<events, client, host, handle, pending, mailbox, writer, stdin, reader>>
    BY DEF WorkerWrites, hostVars, inputVars
<1>2. /\ worker.out \in Outputs /\ emitted \in Nat /\ stdout \in Seq(FromWorker)
      /\ worker \in [is : {"up", "hung", "dead"}, out : Outputs]
    BY DEF FlowInv, TypeInv
<1>3. /\ Head(worker.out) \in {"reply", "notice"} /\ Tail(worker.out) \in Outputs
      /\ Owed(worker.out) = Owed(Tail(worker.out))
                                + IF Head(worker.out) = "reply" THEN 1 ELSE 0
    <2>1. CASE worker.out = <<"reply">>
        <3>1. Head(worker.out) = "reply" /\ Tail(worker.out) = <<>>
            BY <2>1
        <3>2. QED
            BY <2>1, <3>1, OutputFacts DEF Outputs
    <2>2. CASE worker.out = <<"notice">>
        <3>1. Head(worker.out) = "notice" /\ Tail(worker.out) = <<>>
            BY <2>2
        <3>2. QED
            BY <2>2, <3>1, OutputFacts DEF Outputs
    <2>3. CASE worker.out = <<"notice", "reply">>
        <3>1. Head(worker.out) = "notice" /\ Tail(worker.out) = <<"reply">>
            BY <2>3
        <3>2. QED
            BY <2>3, <3>1, OutputFacts DEF Outputs
    <2>4. QED
        BY <1>1, <1>2, <2>1, <2>2, <2>3 DEF Outputs
<1>4. frame \in FromWorker /\ One(frame, "reply") = IF Head(worker.out) = "reply" THEN 1 ELSE 0
    BY <1>2, <1>3 DEF FromWorker, One
<1>5. /\ worker' \in [is : {"up", "hung", "dead"}, out : Outputs]
      /\ worker'.out = Tail(worker.out)
    BY <1>1, <1>2, <1>3
<1>6. stdout' \in Seq(FromWorker) /\ emitted' \in Nat
    BY <1>1, <1>2, <1>4
<1>7. TypeInv'
    BY <1>1, <1>5, <1>6 DEF FlowInv, TypeInv
<1>8. Count(stdout', "reply") = Count(stdout, "reply") + One(frame, "reply")
    BY <1>1, <1>2, <1>4, CountAppend
<1>9. Sent' = Sent /\ Answered' = Count(stdout', "reply") + One(reader, "reply")
                                    + Count(events, "reply")
    BY <1>1 DEF Sent, Answered
<1>10. One(frame, "reply") \in 0..1 /\ Owed(worker'.out) \in 0..1
    BY DEF One, Owed
<1>11. Owed(worker.out) = Owed(worker'.out) + One(frame, "reply")
    BY <1>3, <1>4, <1>5
<1>12. Sent' + Owed(worker'.out) + Answered' <= Sent + Owed(worker.out) + Answered
    <2> HIDE DEF frame
    <2>1. QED
        BY <1>8, <1>9, <1>10, <1>11, Numbers DEF Answered, FlowInv
<1>13. QED
    BY <1>1, <1>7, <1>12, Moved

LEMMA WorkerAnnounced ==
    ASSUME FlowInv, WorkerAnnounces
    PROVE  FlowInv'
<1>1. /\ "notice" \notin Range(worker.out)
      /\ worker' = [worker EXCEPT !.out = <<"notice">> \o @]
      /\ UNCHANGED <<events, client, host, handle, pending, mailbox, writer, stdin,
                     stdout, reader, emitted>>
    BY DEF WorkerAnnounces, hostVars, inputVars, outputVars
<1>2. /\ worker.out \in Outputs
      /\ worker \in [is : {"up", "hung", "dead"}, out : Outputs]
    BY DEF FlowInv, TypeInv
<1>3. worker.out = <<>> \/ worker.out = <<"reply">>
    <2>1. "notice" \in Range(<<"notice">>)
        <3>1. 1 \in DOMAIN <<"notice">> /\ <<"notice">>[1] = "notice"
            OBVIOUS
        <3>2. QED
            BY <3>1 DEF Range
    <2>2. "notice" \in Range(<<"notice", "reply">>)
        <3>1. /\ 1 \in DOMAIN <<"notice", "reply">>
              /\ <<"notice", "reply">>[1] = "notice"
            OBVIOUS
        <3>2. QED
            BY <3>1 DEF Range
    <2>3. QED
        BY <1>1, <1>2, <2>1, <2>2 DEF Outputs
<1>4. /\ <<"notice">> \o worker.out \in Outputs
      /\ Owed(<<"notice">> \o worker.out) = Owed(worker.out)
    <2>1. <<"notice">> \o <<>> = <<"notice">>
        OBVIOUS
    <2>2. <<"notice">> \o <<"reply">> = <<"notice", "reply">>
        <3> DEFINE kinds == {"notice", "reply"}
                   s == <<"notice">>
                   t == <<"reply">>
                   both == <<"notice", "reply">>
        <3>1. /\ s \in Seq(kinds) /\ Len(s) = 1 /\ s[1] = "notice"
              /\ t \in Seq(kinds) /\ Len(t) = 1 /\ t[1] = "reply"
              /\ both \in Seq(kinds) /\ Len(both) = 2
              /\ both[1] = "notice" /\ both[2] = "reply"
            <4>1. s \in Seq(kinds) /\ Len(s) = 1 /\ s[1] = "notice"
                OBVIOUS
            <4>2. t \in Seq(kinds) /\ Len(t) = 1 /\ t[1] = "reply"
                OBVIOUS
            <4>3. both \in Seq(kinds)
                OBVIOUS
            <4>4. Len(both) = 2 /\ both[1] = "notice" /\ both[2] = "reply"
                OBVIOUS
            <4>5. QED
                BY <4>1, <4>2, <4>3, <4>4
        <3> HIDE DEF s, t, both, kinds
        <3>2. s \o t \in Seq(kinds) /\ Len(s \o t) = 2
            BY <3>1, ConcatProperties
        <3>3. (s \o t)[1] = "notice" /\ (s \o t)[2] = "reply"
            <4>1. (s \o t)[1] = s[1] /\ (s \o t)[2] = t[2 - 1]
                BY <3>1, ConcatProperties
            <4>2. QED
                BY <3>1, <4>1
        <3>4. \A i \in 1..2 : (s \o t)[i] = both[i]
            BY <3>1, <3>3
        <3>5. s \o t = both
            BY <3>1, <3>2, <3>4, SeqEqual
        <3>6. QED
            BY <3>5 DEF s, t, both
    <2>3. QED
        BY <1>3, <2>1, <2>2, OutputFacts DEF Outputs
<1>5. /\ worker' \in [is : {"up", "hung", "dead"}, out : Outputs]
      /\ Owed(worker'.out) = Owed(worker.out)
    BY <1>1, <1>2, <1>4
<1>6. TypeInv'
    BY <1>1, <1>5 DEF FlowInv, TypeInv
<1>7. Sent' = Sent /\ Answered' = Answered
    BY <1>1 DEF Sent, Answered
<1>8. Sent' + Owed(worker'.out) + Answered' <= Sent + Owed(worker.out) + Answered
    BY <1>5, <1>7, Numbers DEF FlowInv
<1>9. QED
    BY <1>1, <1>6, <1>8, Moved

LEMMA WorkerFails ==
    ASSUME FlowInv, WorkerDies \/ WorkerHangs
    PROVE  FlowInv'
<1>1. CASE WorkerDies
    <2>1. /\ worker' = [is |-> "dead", out |-> <<>>] /\ stdin' = <<>>
          /\ UNCHANGED <<events, client, host, handle, pending, mailbox, writer,
                         stdout, reader, emitted>>
        BY <1>1 DEF WorkerDies, Ended, hostVars, outputVars
    <2>2. TypeInv'
        BY <2>1 DEF FlowInv, TypeInv, Outputs
    <2>3. /\ Sent' = One(host.has, "request") + Count(mailbox, "request")
                        + One(writer, "request") + 0
          /\ Owed(worker.out)' = 0 /\ Answered' = Answered
        BY <2>1, CountEmpty, OutputFacts DEF Sent, Answered
    <2>4. QED
        BY <2>1, <2>2, <2>3, Moved, Numbers DEF Sent, FlowInv
<1>2. CASE WorkerHangs
    <2>1. /\ worker' = [worker EXCEPT !.is = "hung"]
          /\ UNCHANGED <<events, client, host, handle, pending, mailbox, writer, stdin,
                         stdout, reader, emitted>>
        BY <1>2 DEF WorkerHangs, hostVars, inputVars, outputVars
    <2>2. /\ worker' \in [is : {"up", "hung", "dead"}, out : Outputs]
          /\ worker'.out = worker.out
        BY <2>1 DEF FlowInv, TypeInv
    <2>3. TypeInv'
        BY <2>1, <2>2 DEF FlowInv, TypeInv
    <2>4. Sent' = Sent /\ Answered' = Answered /\ Owed(worker.out)' = Owed(worker.out)
        BY <2>1, <2>2 DEF Sent, Answered
    <2>5. QED
        BY <2>1, <2>3, <2>4, Moved, Numbers DEF FlowInv
<1>3. QED
    BY <1>1, <1>2

-----------------------------------------------------------------------------
LEMMA NextConserved == FlowInv /\ [Next]_vars => FlowInv'
<1> SUFFICES ASSUME FlowInv, [Next]_vars
             PROVE  FlowInv'
    OBVIOUS
<1>1. CASE (\E f \in ToWorker : ReadClient(f)) \/ ReadClientEnd \/ SendClientEvent
    BY <1>1, ClientSteps
<1>2. CASE TakeEvent
    BY <1>2, ClientFrameTaken, WorkerFrameTaken, EndTaken DEF TakeEvent
<1>3. CASE Send
    BY <1>3, Sends
<1>4. CASE Retire
    BY <1>4, Retires
<1>5. CASE Reaped
    BY <1>5, TasksEnd DEF Reaped
<1>6. CASE Reader \/ Report
    BY <1>6, ReaderSteps, TasksEnd DEF Reader, ReaderEnds
<1>7. CASE Writer
    BY <1>7, WriterSteps, TasksEnd DEF Writer, WriterFails
<1>8. CASE Worker
    BY <1>8, WorkerRead, WorkerWrote DEF Worker
<1>9. CASE WorkerAnnounces
    BY <1>9, WorkerAnnounced
<1>10. CASE WorkerDies \/ WorkerHangs
    BY <1>10, WorkerFails
<1>11. CASE UNCHANGED vars
    <2>1. UNCHANGED <<events, client, host, handle, pending, mailbox, writer, stdin,
                      worker, stdout, reader, emitted>>
        BY <1>11 DEF vars, hostVars, inputVars, outputVars
    <2>2. TypeInv'
        BY <2>1 DEF FlowInv, TypeInv
    <2>3. Sent' = Sent /\ Answered' = Answered
        BY <2>1 DEF Sent, Answered
    <2>4. QED
        BY <2>1, <2>2, <2>3 DEF FlowInv, Conserved
<1>12. QED
    BY <1>1, <1>2, <1>3, <1>4, <1>5, <1>6, <1>7, <1>8, <1>9, <1>10, <1>11 DEF Next, Host

\* A request the host admits never waits for the mailbox behind requests only:
\* WORKER_COMMAND_CAPACITY = PENDING_CAPACITY is enough for every capacity of
\* pipes and events and every behaviour of worker and client.
THEOREM AdmittedRequestsFit == Spec => []RequestsFit
<1>1. Init => FlowInv
    BY InitConserved DEF Init
<1>2. QED
    BY <1>1, NextConserved, ConservedFits, PTL DEF Spec

-----------------------------------------------------------------------------
(* The order of a worker's frames: a frame keeps its place among those the *)
(* host has not handled, from the pipe to the reader and to the events.    *)

OneFrom(f) == IF IsFromWorker(f) THEN 1 ELSE 0

Numbered(queue, before) ==
    \A i \in 1..Len(queue) :
        IsFromWorker(queue[i]) => queue[i].n = before + WorkerFrames(queue, i)

GoneLast(queue) ==
    \A i \in 1..Len(queue) : queue[i] = Gone =>
        \A j \in (i + 1)..Len(queue) : ~ IsFromWorker(queue[j])

WithGone(queue) == \E i \in 1..Len(queue) : queue[i] = Gone

\* The task is over before it says so, and takes the worker with it.
TaskOver ==
    /\ io # "Running" => worker.is = "dead"
    /\ WithGone(events) => reported
    /\ reported => io # "Running"

Ordered == handled \in Nat /\ NothingMissing /\ TaskOver

LEMMA FramesNext ==
    ASSUME NEW queue, NEW n \in Nat
    PROVE  /\ IsFiniteSet({j \in 1..n : IsFromWorker(queue[j])})
           /\ WorkerFrames(queue, n) \in Nat
           /\ WorkerFrames(queue, n + 1) = WorkerFrames(queue, n) + OneFrom(queue[n + 1])
<1> DEFINE upTo(k) == {j \in 1..k : IsFromWorker(queue[j])}
<1>1. IsFiniteSet(upTo(n)) /\ Cardinality(upTo(n)) \in Nat
    <2>1. IsFiniteSet(1..n)
        BY FS_Interval
    <2> QED
        BY <2>1, FS_Subset, FS_CardinalityType
<1>2. n + 1 \notin upTo(n)
    OBVIOUS
<1>3. CASE IsFromWorker(queue[n + 1])
    <2>1. upTo(n + 1) = upTo(n) \cup {n + 1}
        BY <1>3
    <2> HIDE DEF upTo
    <2>2. Cardinality(upTo(n + 1)) = Cardinality(upTo(n)) + 1
        BY <1>1, <1>2, <2>1, FS_AddElement
    <2> QED
        BY <1>1, <1>3, <2>2 DEF WorkerFrames, OneFrom, upTo
<1>4. CASE ~ IsFromWorker(queue[n + 1])
    <2>1. upTo(n + 1) = upTo(n)
        BY <1>4
    <2> QED
        BY <1>1, <1>4, <2>1 DEF WorkerFrames, OneFrom
<1> QED
    BY <1>1, <1>3, <1>4 DEF WorkerFrames

LEMMA FramesNone == ASSUME NEW queue PROVE WorkerFrames(queue, 0) = 0
<1>1. {j \in 1..0 : IsFromWorker(queue[j])} = {}
    OBVIOUS
<1> QED
    BY <1>1, FS_EmptySet DEF WorkerFrames

\* A queue grows by an event, which if it is a frame is the next.
LEMMA EventAppended ==
    ASSUME NEW S, NEW queue \in Seq(S), NEW f \in S, NEW before \in Nat,
           Numbered(queue, before), GoneLast(queue),
           IsFromWorker(f) => /\ f.n = before + WorkerFrames(queue, Len(queue)) + 1
                              /\ ~ WithGone(queue)
    PROVE  /\ Numbered(Append(queue, f), before) /\ GoneLast(Append(queue, f))
           /\ WorkerFrames(Append(queue, f), Len(Append(queue, f)))
                = WorkerFrames(queue, Len(queue)) + OneFrom(f)
           /\ WithGone(Append(queue, f)) => WithGone(queue) \/ f = Gone
<1> DEFINE size == Len(queue)
           longer == Append(queue, f)
<1>1. /\ size \in Nat /\ Len(longer) = size + 1 /\ longer[size + 1] = f
      /\ \A i \in 1..size : longer[i] = queue[i]
    OBVIOUS
<1> HIDE DEF size, longer
<1>2. \A i \in 0..size : WorkerFrames(longer, i) = WorkerFrames(queue, i)
    <2> SUFFICES ASSUME NEW i \in 0..size
                 PROVE  {j \in 1..i : IsFromWorker(longer[j])}
                            = {j \in 1..i : IsFromWorker(queue[j])}
        BY DEF WorkerFrames
    <2>1. \A j \in 1..i : j \in 1..size
        BY <1>1
    <2> QED
        BY <1>1, <2>1
<1>3. WorkerFrames(longer, size + 1) = WorkerFrames(queue, size) + OneFrom(f)
    <2>1. size \in 0..size
        BY <1>1
    <2>2. WorkerFrames(longer, size + 1) = WorkerFrames(longer, size) + OneFrom(longer[size + 1])
        BY <1>1, FramesNext
    <2> QED
        BY <1>1, <1>2, <2>1, <2>2
<1>4. Numbered(longer, before)
    <2> SUFFICES ASSUME NEW i \in 1..(size + 1), IsFromWorker(longer[i])
                 PROVE  longer[i].n = before + WorkerFrames(longer, i)
        BY <1>1 DEF Numbered
    <2>1. CASE i \in 1..size
        <3>1. longer[i] = queue[i] /\ WorkerFrames(longer, i) = WorkerFrames(queue, i)
            <4>1. i \in 0..size
                BY <1>1, <2>1
            <4> QED
                BY <1>1, <1>2, <2>1, <4>1
        <3>2. queue[i].n = before + WorkerFrames(queue, i)
            BY <2>1, <3>1 DEF Numbered, size
        <3> QED
            BY <3>1, <3>2
    <2>2. CASE i = size + 1
        <3>1. IsFromWorker(f) /\ OneFrom(f) = 1
            BY <1>1, <2>2 DEF OneFrom
        <3>2. f.n = before + WorkerFrames(queue, size) + 1
            BY <3>1 DEF size
        <3>3. WorkerFrames(queue, size) \in Nat
            BY <1>1, FramesNext
        <3>4. before + WorkerFrames(queue, size) + 1 = before + (WorkerFrames(queue, size) + 1)
            BY <3>3
        <3> QED
            BY <1>1, <1>3, <2>2, <3>1, <3>2, <3>4
    <2> QED
        BY <1>1, <2>1, <2>2
<1>5. GoneLast(longer)
    <2> SUFFICES ASSUME NEW i \in 1..(size + 1), longer[i] = Gone,
                        NEW j \in (i + 1)..(size + 1), IsFromWorker(longer[j])
                 PROVE  FALSE
        BY <1>1 DEF GoneLast
    <2>1. i \in 1..size /\ (j \in (i + 1)..size \/ j = size + 1) /\ j \in 1..(size + 1)
        BY <1>1
    <2>2. queue[i] = Gone
        BY <1>1, <2>1
    <2>3. CASE j \in (i + 1)..size
        <3>1. j \in 1..size
            BY <1>1, <2>1, <2>3
        <3>2. longer[j] = queue[j]
            BY <1>1, <3>1
        <3> QED
            BY <2>1, <2>2, <2>3, <3>2 DEF GoneLast, size
    <2>4. CASE j = size + 1
        <3>1. IsFromWorker(f)
            BY <1>1, <2>4
        <3> QED
            BY <2>1, <2>2, <3>1 DEF WithGone, size
    <2> QED
        BY <2>1, <2>3, <2>4
<1>6. WithGone(longer) => WithGone(queue) \/ f = Gone
    <2> SUFFICES ASSUME NEW i \in 1..(size + 1), longer[i] = Gone
                 PROVE  WithGone(queue) \/ f = Gone
        BY <1>1 DEF WithGone
    <2>1. CASE i \in 1..size
        BY <1>1, <2>1 DEF WithGone, size
    <2>2. CASE i = size + 1
        BY <1>1, <2>2
    <2> QED
        BY <1>1, <2>1, <2>2
<1> QED
    BY <1>1, <1>3, <1>4, <1>5, <1>6 DEF longer, size

\* The first event is taken; if it is a frame, the others come after one more.
LEMMA EventGone ==
    ASSUME NEW S, NEW queue \in Seq(S), queue # <<>>, NEW before \in Nat,
           Numbered(queue, before), GoneLast(queue)
    PROVE  /\ Numbered(Tail(queue), before + OneFrom(Head(queue))) /\ GoneLast(Tail(queue))
           /\ WorkerFrames(queue, Len(queue))
                = WorkerFrames(Tail(queue), Len(Tail(queue))) + OneFrom(Head(queue))
           /\ WithGone(Tail(queue)) => WithGone(queue)
<1> DEFINE size == Len(Tail(queue))
           rest == Tail(queue)
           first == OneFrom(Head(queue))
<1>1. /\ size \in Nat /\ Len(queue) = size + 1 /\ Head(queue) = queue[1]
      /\ \A i \in 1..size : rest[i] = queue[i + 1]
    OBVIOUS
<1> HIDE DEF size, rest
<1>2. first \in 0..1
    BY DEF OneFrom
<1> HIDE DEF first
<1>3. \A i \in 0..size : WorkerFrames(queue, i + 1) = WorkerFrames(rest, i) + first
    <2> SUFFICES ASSUME NEW i \in 0..size
                 PROVE  WorkerFrames(queue, i + 1) = WorkerFrames(rest, i) + first
        OBVIOUS
    <2> DEFINE early == {j \in 1..i : IsFromWorker(rest[j])}
               later == {j \in 1..(i + 1) : IsFromWorker(queue[j])} \ {1}
               shift == [j \in early |-> j + 1]
    <2>0. i \in Nat
        BY <1>1
    <2>1. shift \in Bijection(early, later)
        <3>1. ASSUME NEW j \in early PROVE j + 1 \in later /\ j \in Nat
            BY <1>1, <2>0
        <3>2. shift \in [early -> later]
            BY <3>1
        <3>3. \A j, k \in early : shift[j] = shift[k] => j = k
            BY <3>1
        <3>4. ASSUME NEW k \in later PROVE \E j \in early : shift[j] = k
            <4>1. k \in 2..(i + 1) /\ IsFromWorker(queue[k])
                BY <2>0
            <4>2. k - 1 \in 1..i /\ k - 1 \in 1..size /\ (k - 1) + 1 = k
                BY <1>1, <2>0, <4>1
            <4>3. k - 1 \in early
                BY <1>1, <4>1, <4>2
            <4>4. shift[k - 1] = k
                BY <4>2, <4>3
            <4> QED
                BY <4>3, <4>4
        <3> QED
            BY <3>2, <3>3, <3>4 DEF Bijection, Injection, Surjection, IsInjective
    <2> HIDE DEF shift
    <2>2. IsFiniteSet(early) /\ Cardinality(early) = WorkerFrames(rest, i)
        BY <2>0, FramesNext DEF WorkerFrames
    <2>3. Cardinality(later) = WorkerFrames(rest, i)
        BY <2>1, <2>2, FS_Bijection DEF ExistsBijection
    <2>4. /\ IsFiniteSet({j \in 1..(i + 1) : IsFromWorker(queue[j])})
          /\ WorkerFrames(queue, i + 1) \in Nat
        <3>1. i + 1 \in Nat
            BY <2>0
        <3> QED
            BY <3>1, FramesNext
    <2>5. Cardinality(later) = IF 1 \in {j \in 1..(i + 1) : IsFromWorker(queue[j])}
                               THEN WorkerFrames(queue, i + 1) - 1
                               ELSE WorkerFrames(queue, i + 1)
        BY <2>4, FS_RemoveElement DEF WorkerFrames
    <2>6. 1 \in {j \in 1..(i + 1) : IsFromWorker(queue[j])} <=> first = 1
        BY <1>1, <2>0 DEF first, OneFrom
    <2> QED
        BY <1>2, <2>3, <2>4, <2>5, <2>6
<1>4. Numbered(rest, before + first)
    <2> SUFFICES ASSUME NEW i \in 1..size, IsFromWorker(rest[i])
                 PROVE  rest[i].n = (before + first) + WorkerFrames(rest, i)
        BY DEF Numbered, size, rest
    <2>1. rest[i] = queue[i + 1] /\ i + 1 \in 1..Len(queue) /\ i \in 0..size /\ i \in Nat
        BY <1>1
    <2>2. queue[i + 1].n = before + WorkerFrames(queue, i + 1)
        BY <2>1 DEF Numbered
    <2>3. WorkerFrames(queue, i + 1) = WorkerFrames(rest, i) + first
        BY <1>3, <2>1
    <2>4. WorkerFrames(rest, i) \in Nat
        BY <2>1, FramesNext
    <2>5. before + (WorkerFrames(rest, i) + first) = (before + first) + WorkerFrames(rest, i)
        BY <1>2, <2>4
    <2> QED
        BY <2>1, <2>2, <2>3, <2>5
<1>5. GoneLast(rest)
    <2> SUFFICES ASSUME NEW i \in 1..size, rest[i] = Gone, NEW j \in (i + 1)..size
                 PROVE  ~ IsFromWorker(rest[j])
        BY DEF GoneLast, size, rest
    <2>1. /\ i + 1 \in 1..Len(queue) /\ j + 1 \in ((i + 1) + 1)..Len(queue) /\ j \in 1..size
        BY <1>1
    <2>2. queue[i + 1] = Gone /\ rest[j] = queue[j + 1]
        BY <1>1, <2>1
    <2> QED
        BY <2>1, <2>2 DEF GoneLast
<1>6. WithGone(rest) => WithGone(queue)
    <2> SUFFICES ASSUME NEW i \in 1..size, rest[i] = Gone PROVE WithGone(queue)
        BY DEF WithGone, size, rest
    <2>1. i + 1 \in 1..Len(queue) /\ queue[i + 1] = Gone
        BY <1>1
    <2> QED
        BY <2>1 DEF WithGone
<1>7. WorkerFrames(queue, Len(queue)) = WorkerFrames(rest, size) + first
    <2>1. size \in 0..size
        BY <1>1
    <2> QED
        BY <1>1, <1>3, <2>1
<1> QED
    BY <1>4, <1>5, <1>6, <1>7 DEF first, rest, size

LEMMA OrderBegins == ASSUME NEW bounds, InitWith(bounds) PROVE Ordered
<1>1. /\ events = <<>> /\ handled = 0 /\ reader = Nothing /\ stdout = <<>> /\ emitted = 0
      /\ io = "Running" /\ reported = FALSE
    BY DEF InitWith
<1>2. Len(events) = 0 /\ WorkerFrames(events, 0) = 0 /\ Len(stdout) = 0
    BY <1>1, FramesNone
<1>3. NothingMissing
    BY <1>1, <1>2 DEF NothingMissing
<1>4. TaskOver
    BY <1>1, <1>2 DEF TaskOver, WithGone
<1> QED
    BY <1>1, <1>3, <1>4 DEF Ordered

\* The parts of the order, and the numbers in it.
LEMMA OrderParts ==
    ASSUME FlowInv, Ordered
    PROVE  /\ Numbered(events, handled) /\ GoneLast(events)
           /\ handled \in Nat /\ emitted \in Nat
           /\ WorkerFrames(events, Len(events)) \in Nat
           /\ Len(stdout) \in Nat /\ stdout \in Seq(FromWorker)
           /\ events \in Seq(ToWorker \cup FromWorker \cup {Gone, End})
           /\ reader \in FromWorker \cup {Nothing}
<1>1. /\ events \in Seq(ToWorker \cup FromWorker \cup {Gone, End})
      /\ stdout \in Seq(FromWorker) /\ emitted \in Nat
      /\ reader \in FromWorker \cup {Nothing}
    BY DEF FlowInv, TypeInv
<1>2. Len(events) \in Nat /\ Len(stdout) \in Nat
    BY <1>1
<1>3. WorkerFrames(events, Len(events)) \in Nat
    BY <1>2, FramesNext
<1> QED
    BY <1>1, <1>2, <1>3 DEF Ordered, NothingMissing, Numbered, GoneLast

\* What is not the worker's is no frame of it.
LEMMA FrameKinds ==
    /\ \A f \in ToWorker \cup {Gone, End, Nothing} : ~ IsFromWorker(f) /\ OneFrom(f) = 0
    /\ \A f \in FromWorker : IsFromWorker(f) /\ OneFrom(f) = 1 /\ f # Gone /\ f # Nothing
    /\ Gone \notin ToWorker \cup {End}
BY DEF ToWorker, Gone, End, Nothing, FromWorker, IsFromWorker, OneFrom

\* A step that leaves the frames where they are.
LEMMA OrderUntouched ==
    ASSUME Ordered, UNCHANGED <<events, handled, stdout, reader, emitted>>,
           io' = io, reported' = reported,
           worker.is = "dead" => worker'.is = "dead"
    PROVE  Ordered'
BY DEF Ordered, NothingMissing, TaskOver, WithGone

\* An event joins that is no frame.
LEMMA OrderJoined ==
    ASSUME FlowInv, Ordered, NEW f \in ToWorker \cup {Gone, End}, events' = Append(events, f),
           UNCHANGED <<handled, stdout, reader, emitted, io, worker>>,
           reported => reported', f = Gone => reported', reported' => io # "Running"
    PROVE  Ordered'
<1>1. ~ IsFromWorker(f) /\ OneFrom(f) = 0
    BY FrameKinds
<1>2. /\ Numbered(events', handled) /\ GoneLast(events')
      /\ WorkerFrames(events', Len(events')) = WorkerFrames(events, Len(events)) + 0
      /\ WithGone(events') => WithGone(events) \/ f = Gone
    BY <1>1, OrderParts, EventAppended
<1>3. WorkerFrames(events', Len(events')) = WorkerFrames(events, Len(events))
    BY <1>2, OrderParts
<1>4. NothingMissing'
    BY <1>2, <1>3 DEF Ordered, NothingMissing, Numbered, GoneLast
<1>5. TaskOver'
    BY <1>2 DEF Ordered, TaskOver
<1> QED
    BY <1>4, <1>5 DEF Ordered

\* The host takes an event, and counts it if it is a frame.
LEMMA OrderTaken ==
    ASSUME FlowInv, Ordered, events # <<>>, events' = Tail(events),
           handled' = handled + OneFrom(Head(events)),
           UNCHANGED <<stdout, reader, emitted>>,
           io' = io \/ io' = "retired", io # "Running" => io' = io,
           reported => reported', reported' => io' # "Running",
           io' # "Running" => worker'.is = "dead"
    PROVE  Ordered'
<1>1. OneFrom(Head(events)) \in 0..1
    BY DEF OneFrom
<1>2. /\ Numbered(events', handled') /\ GoneLast(events')
      /\ WorkerFrames(events, Len(events))
            = WorkerFrames(events', Len(events')) + OneFrom(Head(events))
      /\ WithGone(events') => WithGone(events)
    BY OrderParts, EventGone
<1>3. WorkerFrames(events', Len(events')) \in Nat
    <2>1. Len(events') \in Nat
        BY OrderParts
    <2> QED
        BY <2>1, FramesNext
<1>4. /\ handled' \in Nat
      /\ handled' + WorkerFrames(events', Len(events'))
            = handled + WorkerFrames(events, Len(events))
    <2>1. handled \in Nat /\ handled' = handled + OneFrom(Head(events))
        BY OrderParts
    <2>2. WorkerFrames(events, Len(events))
            = WorkerFrames(events', Len(events')) + OneFrom(Head(events))
        BY <1>2
    <2> QED
        BY <1>1, <1>3, <2>1, <2>2
<1>5. io' \in {"Running", "eof"} => io \in {"Running", "eof"}
    OBVIOUS
<1>6. NothingMissing'
    BY <1>2, <1>4, <1>5 DEF Ordered, NothingMissing, Numbered, GoneLast
<1>7. TaskOver'
    BY <1>2 DEF Ordered, TaskOver
<1> QED
    BY <1>4, <1>6, <1>7 DEF Ordered

LEMMA HostOrdered ==
    ASSUME FlowInv, Ordered, Host
    PROVE  Ordered'
<1> USE DEF inputVars, outputVars, ioVars, hostVars
<1>1. ASSUME NEW f \in ToWorker, TakeClientFrame(f) PROVE Ordered'
    <2>1. /\ events # <<>> /\ Head(events) = f /\ events' = Tail(events) /\ handled' = handled
          /\ UNCHANGED <<worker, stdout, reader, emitted, io, reported>>
        BY <1>1 DEF TakeClientFrame, Takes
    <2>2. handled' = handled + OneFrom(Head(events))
        BY <2>1, FrameKinds DEF Ordered
    <2> QED
        BY <2>1, <2>2, OrderTaken DEF Ordered, TaskOver
<1>2. ASSUME NEW f, TakeWorkerFrame(f) PROVE Ordered'
    <2>1. /\ events # <<>> /\ Head(events) = f /\ events' = Tail(events)
          /\ handled' = handled + 1 /\ IsFromWorker(f)
          /\ UNCHANGED <<worker, stdout, reader, emitted, io, reported>>
        BY <1>2 DEF TakeWorkerFrame, Takes
    <2>2. handled' = handled + OneFrom(Head(events))
        BY <2>1 DEF OneFrom
    <2> QED
        BY <2>1, <2>2, OrderTaken DEF Ordered, TaskOver
<1>3. CASE TakeWorkerGone
    <2>1. /\ events # <<>> /\ Head(events) = Gone /\ events' = Tail(events) /\ handled' = handled
          /\ UNCHANGED <<worker, stdout, reader, emitted, io, reported>>
        BY <1>3 DEF TakeWorkerGone, Takes
    <2>2. handled' = handled + OneFrom(Head(events))
        BY <2>1, FrameKinds DEF Ordered
    <2> QED
        BY <2>1, <2>2, OrderTaken DEF Ordered, TaskOver
<1>4. CASE TakeClientEnd
    <2>1. /\ events # <<>> /\ Head(events) = End /\ events' = Tail(events) /\ handled' = handled
          /\ UNCHANGED <<stdout, reader, emitted>>
          /\ worker' = Ended /\ reported'
          /\ io' = IF io = "Running" THEN "retired" ELSE io
        BY <1>4 DEF TakeClientEnd
    <2>2. handled' = handled + OneFrom(Head(events))
        BY <2>1, FrameKinds DEF Ordered
    <2>3. worker'.is = "dead" /\ io' # "Running"
        BY <2>1 DEF Ended
    <2> QED
        BY <2>1, <2>2, <2>3, OrderTaken
<1>5. CASE Send
    BY <1>5, OrderUntouched DEF Send
<1> QED
    BY <1>1, <1>2, <1>3, <1>4, <1>5 DEF Host, TakeEvent

\* The task ends.  What it drops with its pipes is missing only if it was
\* retired or a write failed: at the end of the output nothing is left.
LEMMA TaskEndOrdered ==
    ASSUME FlowInv, Ordered, NEW why \in {"retired", "broken", "eof"}, Ends(why),
           why = "eof" => stdout = <<>> /\ reader = Nothing
    PROVE  Ordered'
<1>1. /\ io = "Running" /\ io' = why /\ worker' = Ended /\ reader' = Nothing /\ stdout' = <<>>
      /\ UNCHANGED <<events, handled, emitted, reported>>
    BY DEF Ends, hostVars
<1>2. worker'.is = "dead" /\ Len(stdout') = 0
    BY <1>1 DEF Ended
<1>3. NothingMissing'
    <2>1. CASE why = "eof"
        BY <1>1, <2>1 DEF Ordered, NothingMissing
    <2>2. CASE why # "eof"
        BY <1>1, <1>2, <2>2 DEF Ordered, NothingMissing
    <2> QED
        BY <2>1, <2>2
<1>4. TaskOver'
    BY <1>1, <1>2 DEF Ordered, TaskOver
<1> QED
    BY <1>1, <1>3, <1>4 DEF Ordered

LEMMA ReaderOrdered ==
    ASSUME FlowInv, Ordered, ReaderReads \/ ReaderSends
    PROVE  Ordered'
<1> USE DEF inputVars, outputVars, ioVars, hostVars
<1> DEFINE queued == handled + WorkerFrames(events, Len(events))
<1>1. queued \in Nat
    BY OrderParts
<1>2. CASE ReaderReads
    <2>1. /\ reader = Nothing /\ stdout # <<>> /\ reader' = Head(stdout)
          /\ stdout' = Tail(stdout)
          /\ UNCHANGED <<events, handled, emitted, io, reported, worker>>
        BY <1>2 DEF ReaderReads
    <2>2. /\ Len(stdout) > 0 /\ Head(stdout) = stdout[1] /\ Len(stdout') = Len(stdout) - 1
          /\ \A i \in 1..Len(stdout') : stdout'[i] = stdout[i + 1]
          /\ stdout[1] \in FromWorker /\ Len(stdout) \in Nat
        <3>1. stdout \in Seq(FromWorker)
            BY OrderParts
        <3> QED
            BY <2>1, <3>1
    <2>3. reader' # Nothing
        BY <2>1, <2>2, FrameKinds
    <2> HIDE DEF queued
    <2>4. \A i \in 1..Len(stdout) : stdout[i].n = queued + i
        BY <1>1, <2>1 DEF Ordered, NothingMissing, queued
    <2>5. reader'.n = queued + 1
        <3>1. 1 \in 1..Len(stdout)
            BY <2>2
        <3> QED
            BY <2>1, <2>2, <2>4, <3>1
    <2>6. ASSUME NEW i \in 1..Len(stdout') PROVE stdout'[i].n = (queued + 1) + i
        <3>1. i + 1 \in 1..Len(stdout) /\ queued + (i + 1) = (queued + 1) + i
            BY <1>1, <2>2
        <3>2. stdout[i + 1].n = queued + (i + 1)
            BY <2>4, <3>1
        <3>3. stdout'[i] = stdout[i + 1]
            BY <2>2
        <3> QED
            BY <3>1, <3>2, <3>3
    <2>7. io \in {"Running", "eof"} => (queued + 1) + Len(stdout') = emitted
        <3>1. io \in {"Running", "eof"} => (queued + 0) + Len(stdout) = emitted
            BY <2>1 DEF Ordered, NothingMissing, queued
        <3>2. (queued + 1) + Len(stdout') = (queued + 0) + Len(stdout)
            BY <1>1, <2>2
        <3> QED
            BY <3>1, <3>2
    <2>8. queued' = queued
        BY <2>1 DEF queued
    <2>9. NothingMissing'
        BY <2>1, <2>3, <2>5, <2>6, <2>7, <2>8 DEF Ordered, NothingMissing, queued
    <2> QED
        BY <2>1, <2>9 DEF Ordered, TaskOver
<1>3. CASE ReaderSends
    <2>1. /\ reader # Nothing /\ events' = Append(events, reader) /\ reader' = Nothing
          /\ io = "Running"
          /\ UNCHANGED <<stdout, handled, emitted, io, reported, worker>>
        BY <1>3 DEF ReaderSends
    <2>2. reader \in FromWorker /\ OneFrom(reader) = 1 /\ reader # Gone
        BY <2>1, OrderParts, FrameKinds
    <2>3. ~ WithGone(events)
        BY <2>1 DEF Ordered, TaskOver
    <2>4. reader.n = queued + 1
        BY <2>1 DEF Ordered, NothingMissing
    <2>5. /\ Numbered(events', handled) /\ GoneLast(events')
          /\ WorkerFrames(events', Len(events')) = WorkerFrames(events, Len(events)) + 1
          /\ WithGone(events') => WithGone(events) \/ reader = Gone
        BY <2>1, <2>2, <2>3, <2>4, OrderParts, EventAppended
    <2>6. handled' + WorkerFrames(events', Len(events')) = queued + 1
        BY <2>1, <2>5, OrderParts
    <2> HIDE DEF queued
    <2>7. /\ \A i \in 1..Len(stdout) : stdout[i].n = (queued + 1) + i
          /\ io \in {"Running", "eof"} => (queued + 1) + Len(stdout) = emitted
        BY <2>1 DEF Ordered, NothingMissing, queued
    <2>8. (queued + 1) + 0 = queued + 1
        BY <1>1
    <2>9. NothingMissing'
        BY <2>1, <2>5, <2>6, <2>7, <2>8 DEF NothingMissing, Numbered, GoneLast
    <2> QED
        BY <2>1, <2>2, <2>3, <2>5, <2>9 DEF Ordered, TaskOver
<1> QED
    BY <1>2, <1>3

\* A frame is written after all others, and gets the next number.
LEMMA WriteOrdered ==
    ASSUME FlowInv, Ordered, WorkerWrites
    PROVE  Ordered'
<1> USE DEF hostVars, inputVars, ioVars
<1> DEFINE frame == [kind |-> Head(worker.out), n |-> emitted + 1]
           read == (handled + WorkerFrames(events, Len(events)))
                        + (IF reader = Nothing THEN 0 ELSE 1)
<1>1. /\ worker.is = "up" /\ emitted' = emitted + 1
      /\ stdout' = Append(stdout, frame) /\ worker' = [worker EXCEPT !.out = Tail(@)]
      /\ UNCHANGED <<events, handled, reader, io, reported>>
    BY DEF WorkerWrites
<1>2. io = "Running"
    BY <1>1 DEF Ordered, TaskOver
<1>3. worker'.is = worker.is
    BY <1>1 DEF FlowInv, TypeInv
<1>4. read \in Nat /\ emitted \in Nat /\ Len(stdout) \in Nat
    BY OrderParts
<1>5. frame.n = emitted + 1
    OBVIOUS
<1> HIDE DEF frame, read
<1>6. /\ Len(stdout') = Len(stdout) + 1 /\ stdout'[Len(stdout) + 1] = frame
      /\ \A i \in 1..Len(stdout) : stdout'[i] = stdout[i]
    <2>1. stdout \in Seq(FromWorker)
        BY OrderParts
    <2> QED
        BY <1>1, <2>1
<1>7. (\A i \in 1..Len(stdout) : stdout[i].n = read + i) /\ read + Len(stdout) = emitted
    BY <1>2 DEF Ordered, NothingMissing, read
<1>8. read + (Len(stdout) + 1) = emitted + 1
    BY <1>4, <1>7
<1>9. ASSUME NEW i \in 1..Len(stdout') PROVE stdout'[i].n = read + i
    <2>1. i \in 1..Len(stdout) \/ i = Len(stdout) + 1
        BY <1>4, <1>6
    <2> QED
        BY <1>5, <1>6, <1>7, <1>8, <2>1
<1>10. read' = read /\ read + Len(stdout') = emitted'
    BY <1>1, <1>6, <1>8 DEF read
<1>11. NothingMissing'
    BY <1>1, <1>9, <1>10 DEF Ordered, NothingMissing, read
<1> QED
    BY <1>1, <1>3, <1>11 DEF Ordered, TaskOver

LEMMA NextOrdered == FlowInv /\ Ordered /\ [Next]_vars => Ordered'
<1> SUFFICES ASSUME FlowInv, Ordered, [Next]_vars PROVE Ordered'
    OBVIOUS
<1> USE DEF hostVars, inputVars, outputVars, ioVars
<1>1. CASE (\E f \in ToWorker : ReadClient(f)) \/ ReadClientEnd
    BY <1>1, OrderUntouched DEF ReadClient, ReadClientEnd
<1>2. CASE SendClientEvent
    <2>1. client.has \in ToWorker \cup {End} /\ client.has # Gone
        BY <1>2, FrameKinds DEF SendClientEvent, FlowInv, TypeInv
    <2>2. /\ events' = Append(events, client.has)
          /\ UNCHANGED <<handled, stdout, reader, emitted, io, reported, worker>>
        BY <1>2 DEF SendClientEvent
    <2> QED
        BY <2>1, <2>2, OrderJoined DEF Ordered, TaskOver
<1>3. CASE Host
    BY <1>3, HostOrdered
<1>4. CASE Retire
    BY <1>4, OrderUntouched DEF Retire
<1>5. CASE Reaped
    BY <1>5, TaskEndOrdered DEF Reaped
<1>6. CASE Reader
    BY <1>6, ReaderOrdered, TaskEndOrdered DEF Reader, ReaderEnds
<1>7. CASE Writer
    <2>1. CASE WriterReceives \/ WriterWrites
        BY <2>1, OrderUntouched DEF WriterReceives, WriterWrites
    <2>2. CASE WriterFails
        BY <2>2, TaskEndOrdered DEF WriterFails
    <2> QED
        BY <1>7, <2>1, <2>2 DEF Writer
<1>8. CASE Report
    <2>1. /\ events' = Append(events, Gone) /\ reported' /\ io # "Running"
          /\ UNCHANGED <<handled, stdout, reader, emitted, io, worker>>
        BY <1>8 DEF Report
    <2> QED
        BY <2>1, OrderJoined
<1>9. CASE WorkerReads \/ WorkerAnnounces
    <2>1. worker.is = "up" /\ UNCHANGED <<events, handled, stdout, reader, emitted, io, reported>>
        BY <1>9 DEF WorkerReads, WorkerAnnounces
    <2> QED
        BY <2>1, OrderUntouched
<1>10. CASE WorkerWrites
    BY <1>10, WriteOrdered
<1>11. CASE WorkerDies \/ WorkerHangs
    <2>1. worker.is # "dead" /\ UNCHANGED <<events, handled, stdout, reader, emitted, io, reported>>
        BY <1>11 DEF WorkerDies, WorkerHangs
    <2> QED
        BY <2>1, OrderUntouched
<1>12. CASE UNCHANGED vars
    BY <1>12, OrderUntouched DEF vars
<1> QED
    BY <1>1, <1>2, <1>3, <1>4, <1>5, <1>6, <1>7, <1>8, <1>9, <1>10, <1>11, <1>12
    DEF Next, Worker

\* The host gets every frame of a worker in the order it was written, and all of
\* them before WorkerGone, unless it retired the worker or a write to it had
\* failed: the loop reads the output to its end (worker_io_loop), for every
\* capacity of queues and pipes and every behaviour of worker and client.
THEOREM FramesInOrder == Spec => []NothingMissing
<1>1. Init => FlowInv /\ Ordered
    BY InitConserved, OrderBegins DEF Init
<1>2. FlowInv /\ Ordered /\ [Next]_vars => (FlowInv /\ Ordered)'
    BY NextConserved, NextOrdered
<1>3. Ordered => NothingMissing
    BY DEF Ordered
<1> QED
    BY <1>1, <1>2, <1>3, PTL DEF Spec
=============================================================================
