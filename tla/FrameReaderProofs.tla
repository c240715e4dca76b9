--------------------------- MODULE FrameReaderProofs ---------------------------
(***************************************************************************)
(* What the two readers hold and what they return, whatever the limit, the *)
(* size of a read and the compaction mark are, however long the stream is, *)
(* and whatever is in it.                                                  *)
(*                                                                         *)
(* The invariant of what they return (FrameInv) is about a place in the    *)
(* stream, Position: it is a line's boundary, what a reader holds is what  *)
(* lies between there and what it has taken, and what it has returned is   *)
(* the frames that end there or before, each at the place it has among     *)
(* them (Covers).  Nothing is said by recursion on the stream, so that the *)
(* next line is one step of the proof (CoversLine).                        *)
(***************************************************************************)
EXTENDS FrameReader, FiniteSetTheorems, SequenceTheorems, WellFoundedInduction, TLAPS

-----------------------------------------------------------------------------
(* Numbers and slices                                                      *)

LEMMA MinimumFacts ==
    ASSUME NEW S \in SUBSET Nat, S # {}
    PROVE  Min(S) \in S /\ \A k \in S : Min(S) <= k
<1>1. IsWellFoundedOn(OpToRel(<, Nat), Nat)
    BY NatLessThanWellFounded, Zenon
<1>2. PICK least \in S : \A k \in S : ~ (<<k, least>> \in OpToRel(<, Nat))
    BY <1>1, WFMin, Zenon
<1>3. \A k \in S : ~ (k < least)
    BY <1>2 DEF OpToRel
<1>4. \A k \in S : least <= k
    BY <1>3
<1>5. QED
    BY <1>4 DEF Min

\* No bytes are within every bound.
LEMMA NoBytes ==
    /\ <<>> \in Seq(Bytes) /\ Len(<<>>) = 0
    /\ {Limit, ChunkSize, CompactAt} \subseteq Nat \ {0} /\ StreamBound \in Nat
BY FramingAssumption

LEMMA SliceFacts ==
    ASSUME NEW s \in Seq(Bytes), NEW first \in 1..(Len(s) + 1), NEW last \in 0..Len(s)
    PROVE  /\ SubSeq(s, first, last) \in Seq(Bytes)
           /\ Len(SubSeq(s, first, last)) = IF first <= last THEN last - first + 1 ELSE 0
<1>1. /\ Len(s) \in Nat /\ first \in Int /\ last \in Int
      /\ \A i \in first..last : s[i] \in Bytes
    OBVIOUS
<1>2. QED
    BY <1>1, SubSeqProperties

\* No delimiter from first to last
Plain(s, first, last) == \A i \in first..last : s[i] # LF

LEMMA DelimiterFacts ==
    ASSUME NEW s \in Seq(Bytes), Delimited(s)
    PROVE  /\ Delimiter(s) \in 0..(Len(s) - 1)
           /\ s[Delimiter(s) + 1] = LF /\ Plain(s, 1, Delimiter(s))
<1>1. Delimiters(s) \in SUBSET Nat /\ Delimiters(s) # {}
    BY DEF Delimiters, Delimited
<1>2. /\ Min(Delimiters(s)) \in Delimiters(s)
      /\ \A k \in Delimiters(s) : Min(Delimiters(s)) <= k
    BY <1>1, MinimumFacts
<1>3. Delimiter(s) = Min(Delimiters(s)) - 1 /\ Min(Delimiters(s)) \in 1..Len(s)
    BY <1>2 DEF Delimiter, Delimiters
<1>4. Plain(s, 1, Delimiter(s))
    <2> SUFFICES ASSUME NEW i \in 1..Delimiter(s), s[i] = LF
                 PROVE  FALSE
        BY DEF Plain
    <2>1. i \in Delimiters(s) /\ i < Min(Delimiters(s))
        BY <1>3 DEF Delimiters
    <2> QED
        BY <1>2, <1>3, <2>1
<1> QED
    BY <1>2, <1>3, <1>4 DEF Delimiters

LEMMA TrimmedType ==
    ASSUME NEW l \in Seq(Bytes)
    PROVE  Trimmed(l) \in Seq(Bytes)
<1>1. CASE l = <<>>
    BY <1>1 DEF Trimmed
<1>2. CASE l # <<>>
    <2>1. Len(l) - 1 \in 0..Len(l) /\ 1 \in 1..(Len(l) + 1)
        BY <1>2
    <2>2. Front(l) \in Seq(Bytes)
        BY <2>1, SliceFacts DEF Front
    <2>3. QED
        BY <2>2 DEF Trimmed
<1>3. QED
    BY <1>1, <1>2

LEMMA DeliveredType ==
    ASSUME delivered \in Seq(Seq(Bytes) \ {<<>>}), NEW frame \in Seq(Bytes),
           Delivering(frame)
    PROVE  delivered' \in Seq(Seq(Bytes) \ {<<>>})
BY AppendProperties DEF Delivering

-----------------------------------------------------------------------------
(* What a reader has                                                       *)

LEMMA PendingFacts ==
    ASSUME TypeOK
    PROVE  /\ Pending \in Seq(Bytes)
           /\ Len(Pending) = Len(buffer) - consumed
           /\ Len(Pending) \in Nat /\ consumed \in Nat
<1>1. /\ buffer \in Seq(Bytes) /\ Len(buffer) \in Nat
      /\ consumed \in 0..Len(buffer)
    BY DEF TypeOK
<1>2. consumed + 1 \in 1..(Len(buffer) + 1) /\ Len(buffer) \in 0..Len(buffer)
    BY <1>1
<1>3. /\ Pending \in Seq(Bytes)
      /\ Len(Pending) = IF consumed + 1 <= Len(buffer)
                        THEN Len(buffer) - (consumed + 1) + 1 ELSE 0
    BY <1>1, <1>2, SliceFacts DEF Pending
<1>4. QED
    BY <1>1, <1>3

\* What is read is of the stream, and at most a chunk.
LEMMA ArrivingFacts ==
    ASSUME TypeOK, NEW chunk \in Arriving
    PROVE  /\ chunk \in Seq(Bytes)
           /\ Len(chunk) <= ChunkSize
           /\ taken + Len(chunk) \in 0..Len(sent)
<1> DEFINE most == Min({ChunkSize, Len(sent) - taken})
<1>1. /\ sent \in Seq(Bytes) /\ Len(sent) \in Nat /\ taken \in 0..Len(sent)
      /\ ChunkSize \in Nat
    BY FramingAssumption DEF TypeOK
<1>2. most \in Nat /\ most <= ChunkSize /\ most <= Len(sent) - taken
    <2>1. {ChunkSize, Len(sent) - taken} \in SUBSET Nat
        BY <1>1
    <2>2. /\ most \in {ChunkSize, Len(sent) - taken}
          /\ \A k \in {ChunkSize, Len(sent) - taken} : most <= k
        BY <2>1, MinimumFacts
    <2>3. QED
        BY <2>1, <2>2
<1>3. CASE chunk = <<>>
    <2>1. <<>> \in Seq(Bytes) /\ Len(<<>>) = 0
        OBVIOUS
    <2>2. QED
        BY <1>1, <1>3, <2>1
<1>4. ASSUME NEW n \in 1..most, chunk = SubSeq(sent, taken + 1, taken + n)
      PROVE  chunk \in Seq(Bytes) /\ Len(chunk) = n
    <2>1. taken + 1 \in 1..(Len(sent) + 1) /\ taken + n \in 0..Len(sent)
        BY <1>1, <1>2
    <2>2. QED
        BY <1>1, <1>4, <2>1, SliceFacts
<1>5. chunk = <<>> \/ \E n \in 1..most : chunk = SubSeq(sent, taken + 1, taken + n)
    BY DEF Arriving
<1>6. CASE \E n \in 1..most : chunk = SubSeq(sent, taken + 1, taken + n)
    <2>1. PICK n \in 1..most : chunk = SubSeq(sent, taken + 1, taken + n)
        BY <1>6
    <2>2. chunk \in Seq(Bytes) /\ Len(chunk) = n
        BY <1>4, <2>1
    <2>3. QED
        BY <1>1, <1>2, <2>1, <2>2
<1>7. QED
    BY <1>3, <1>5, <1>6

\* Before it reads, a timed reader has at most a line, and what it has handed
\* out and not dropped yet.
LEMMA CompactFacts ==
    ASSUME TypeOK, Len(Pending) <= Limit
    PROVE  /\ Compact(buffer) \in Seq(Bytes)
           /\ Len(Compact(buffer)) < Limit + CompactAt
           /\ consumed - (Len(buffer) - Len(Compact(buffer))) \in 0..Len(Compact(buffer))
<1>1. /\ buffer \in Seq(Bytes) /\ Len(buffer) \in Nat /\ consumed \in 0..Len(buffer)
      /\ Limit \in Nat /\ CompactAt \in Nat \ {0}
    BY FramingAssumption DEF TypeOK
<1>2. CASE consumed = Len(buffer) \/ consumed >= CompactAt
    <2>1. Compact(buffer) = Pending
        BY <1>2 DEF Compact, Pending
    <2>2. QED
        BY <1>1, <2>1, PendingFacts
<1>3. CASE ~ (consumed = Len(buffer) \/ consumed >= CompactAt)
    <2>1. Compact(buffer) = buffer
        BY <1>3 DEF Compact
    <2>2. consumed < CompactAt
        BY <1>1, <1>3
    <2>3. QED
        BY <1>1, <2>1, <2>2, PendingFacts
<1>4. QED
    BY <1>2, <1>3
-----------------------------------------------------------------------------
(* The invariant                                                           *)

ReaderInv == TypeOK /\ BoundedMemory

LEMMA InitBounded == Init => ReaderInv
<1> SUFFICES ASSUME Init
             PROVE  ReaderInv
    OBVIOUS
<1>1. TypeOK
    <2>1. <<>> \in Seq(Seq(Bytes)) /\ <<>> \in Seq(Seq(Bytes) \ {<<>>})
        OBVIOUS
    <2>2. /\ sent \in Seq(Bytes) /\ Len(sent) = 0 /\ Len(sent) <= StreamBound
          /\ taken \in 0..Len(sent)
          /\ buffer \in Seq(Bytes) /\ consumed \in 0..Len(buffer)
          /\ line \in Seq(Bytes)
        BY NoBytes DEF Init
    <2>3. /\ {closed, foreign, eof} \subseteq BOOLEAN /\ reader \in Readers
          /\ status \in {"Open", "Ended", "Failed"}
        BY DEF Init
    <2>4. written \in Seq(Seq(Bytes)) /\ delivered \in Seq(Seq(Bytes) \ {<<>>})
        BY <2>1 DEF Init
    <2>5. QED
        BY <2>2, <2>3, <2>4 DEF TypeOK
<1>2. BoundedMemory
    BY NoBytes DEF Init, BoundedMemory
<1>3. QED
    BY <1>1, <1>2 DEF ReaderInv

LEMMA PayloadType ==
    ASSUME NEW payload \in Payloads
    PROVE  payload \in Seq(Bytes)
<1>1. Limit + 1 \in Nat
    BY FramingAssumption
<1>2. PICK n \in 0..(Limit + 1) : payload \in [1..n -> Bytes]
    BY DEF Payloads
<1>3. n \in Nat
    BY <1>1, <1>2
<1>4. QED
    BY <1>2, <1>3

\* The writer does not touch the reader, and only adds to the stream.
LEMMA Written ==
    ASSUME ReaderInv, NEW bytes \in Seq(Bytes), Writes(bytes),
           written' \in Seq(Seq(Bytes)), closed' \in BOOLEAN, foreign' \in BOOLEAN
    PROVE  ReaderInv'
<1>1. UNCHANGED <<reader, taken, buffer, consumed, eof, line, delivered, status>>
    BY DEF Writes, readerVars
<1>2. /\ sent' \in Seq(Bytes) /\ Len(sent') <= StreamBound /\ taken' \in 0..Len(sent')
    <2>1. /\ sent \in Seq(Bytes) /\ taken \in 0..Len(sent) /\ StreamBound \in Nat
          /\ sent' = sent \o bytes /\ Len(sent) + Len(bytes) <= StreamBound
        BY FramingAssumption DEF ReaderInv, TypeOK, Writes
    <2>2. /\ sent' \in Seq(Bytes) /\ Len(sent') = Len(sent) + Len(bytes)
          /\ Len(sent) \in Nat /\ Len(bytes) \in Nat
        BY <2>1, ConcatProperties
    <2>3. QED
        BY <1>1, <2>1, <2>2
<1>3. TypeOK'
    BY <1>1, <1>2 DEF ReaderInv, TypeOK
<1>4. BoundedMemory'
    BY <1>1 DEF ReaderInv, BoundedMemory
<1>5. QED
    BY <1>3, <1>4 DEF ReaderInv

LEMMA WriterSteps ==
    ASSUME ReaderInv, Writer
    PROVE  ReaderInv'
<1>1. /\ written \in Seq(Seq(Bytes)) /\ closed \in BOOLEAN /\ foreign \in BOOLEAN
      /\ LF \in Bytes
    BY DEF ReaderInv, TypeOK, Bytes
<1>2. ASSUME NEW payload \in Payloads, WriteFrame(payload)
      PROVE  ReaderInv'
    <2>1. /\ payload \in Seq(Bytes)
          /\ Writes(Append(payload, LF)) /\ written' = Append(written, payload)
          /\ UNCHANGED <<closed, foreign>>
        BY <1>2, PayloadType DEF WriteFrame
    <2>2. Append(payload, LF) \in Seq(Bytes) /\ written' \in Seq(Seq(Bytes))
        BY <1>1, <2>1, AppendProperties
    <2>3. QED
        BY <1>1, <2>1, <2>2, Written
<1>3. ASSUME NEW payload \in Payloads, NEW length \in 1..Limit, WriteCut(payload, length)
      PROVE  ReaderInv'
    <2> DEFINE cut == SubSeq(payload, 1, length)
    <2>1. /\ payload \in Seq(Bytes) /\ length \in 1..Len(payload)
          /\ Writes(cut) /\ written' = Append(written, cut)
          /\ closed' = TRUE /\ UNCHANGED foreign
        BY <1>3, PayloadType DEF WriteCut
    <2>2. 1 \in 1..(Len(payload) + 1) /\ length \in 0..Len(payload)
        BY <2>1
    <2>3. cut \in Seq(Bytes)
        BY <2>1, <2>2, SliceFacts
    <2> HIDE DEF cut
    <2>4. written' \in Seq(Seq(Bytes))
        BY <1>1, <2>1, <2>3, AppendProperties
    <2>5. QED
        BY <1>1, <2>1, <2>3, <2>4, Written
<1>4. ASSUME NEW byte \in Bytes, WriteByte(byte)
      PROVE  ReaderInv'
    <2>1. Writes(<<byte>>) /\ foreign' = TRUE /\ UNCHANGED <<closed, written>>
        BY <1>4 DEF WriteByte
    <2>2. <<byte>> \in Seq(Bytes)
        OBVIOUS
    <2>3. QED
        BY <1>1, <2>1, <2>2, Written
<1>5. CASE Close
    <2>1. /\ closed' = TRUE
          /\ UNCHANGED <<sent, written, foreign, reader, taken, buffer, consumed, eof,
                         line, delivered, status>>
        BY <1>5 DEF Close, readerVars
    <2>2. TypeOK' /\ BoundedMemory'
        BY <2>1 DEF ReaderInv, TypeOK, BoundedMemory
    <2>3. QED
        BY <2>2 DEF ReaderInv
<1>6. QED
    BY <1>2, <1>3, <1>4, <1>5 DEF Writer

-----------------------------------------------------------------------------
(* The timed reader                                                        *)

\* A step of a reader leaves the stream as it is.
LEMMA ReaderStep ==
    ASSUME ReaderInv, NEW kind, Reading(kind),
           taken' \in 0..Len(sent), buffer' \in Seq(Bytes), consumed' \in 0..Len(buffer'),
           eof' \in BOOLEAN, line' \in Seq(Bytes),
           delivered' \in Seq(Seq(Bytes) \ {<<>>}),
           status' \in {"Open", "Ended", "Failed"},
           Len(line') <= Limit, Len(buffer') < Limit + ChunkSize + CompactAt,
           kind = "streaming" => Len(buffer') <= ChunkSize
    PROVE  ReaderInv'
<1>1. reader = kind /\ UNCHANGED <<sent, closed, written, foreign, reader>>
    BY DEF Reading, writerVars
<1>2. TypeOK'
    BY <1>1 DEF ReaderInv, TypeOK
<1>3. BoundedMemory'
    BY <1>1 DEF BoundedMemory
<1>4. QED
    BY <1>2, <1>3 DEF ReaderInv

\* What the state offers to a step that leaves some of it as it is
LEMMA Facts ==
    ASSUME ReaderInv
    PROVE  /\ taken \in 0..Len(sent) /\ buffer \in Seq(Bytes) /\ consumed \in 0..Len(buffer)
           /\ eof \in BOOLEAN /\ line \in Seq(Bytes)
           /\ delivered \in Seq(Seq(Bytes) \ {<<>>})
           /\ status \in {"Open", "Ended", "Failed"}
           /\ Len(line) <= Limit /\ Len(buffer) < Limit + ChunkSize + CompactAt
           /\ reader = "streaming" => Len(buffer) <= ChunkSize
BY DEF ReaderInv, TypeOK, BoundedMemory

LEMMA FailureStep ==
    ASSUME ReaderInv, NEW kind, Reading(kind), Fails, line' = line \/ line' = <<>>
    PROVE  ReaderInv'
<1>1. line' \in Seq(Bytes) /\ Len(line') <= Limit
    <2>1. CASE line' = line
        BY <2>1, Facts
    <2>2. CASE line' = <<>>
        BY <2>2, NoBytes
    <2>3. QED
        BY <2>1, <2>2
<1>2. /\ status' = "Failed" /\ reader = kind
      /\ UNCHANGED <<taken, buffer, consumed, eof, delivered>>
    BY DEF Fails, Reading
<1>3. QED
    BY <1>1, <1>2, Facts, ReaderStep

LEMMA LineExtracted ==
    ASSUME ReaderInv, ExtractLine
    PROVE  ReaderInv'
<1> DEFINE length == Delimiter(Pending)
<1>1. Reading("timed") /\ Delimited(Pending) /\ UNCHANGED line
    BY DEF ExtractLine
<1>2. /\ Pending \in Seq(Bytes) /\ Len(Pending) = Len(buffer) - consumed
      /\ consumed \in Nat
    BY PendingFacts DEF ReaderInv
<1>3. length \in 0..(Len(Pending) - 1)
    BY <1>1, <1>2, DelimiterFacts
<1>4. CASE Fits(length)
    <2>1. /\ consumed' = consumed + length + 1
          /\ Delivering(Trimmed(SubSeq(Pending, 1, length)))
          /\ UNCHANGED <<taken, buffer, eof, status>>
        BY <1>4 DEF ExtractLine
    <2>2. consumed' \in 0..Len(buffer')
        BY <1>2, <1>3, <2>1, Facts
    <2>3. Trimmed(SubSeq(Pending, 1, length)) \in Seq(Bytes)
        <3>1. 1 \in 1..(Len(Pending) + 1) /\ length \in 0..Len(Pending)
            BY <1>2, <1>3
        <3>2. QED
            BY <1>2, <3>1, SliceFacts, TrimmedType
    <2>4. delivered' \in Seq(Seq(Bytes) \ {<<>>})
        BY <2>1, <2>3, DeliveredType, Facts
    <2>5. QED
        BY <1>1, <2>1, <2>2, <2>4, Facts, ReaderStep
<1>5. CASE ~ Fits(length)
    BY <1>1, <1>5, FailureStep DEF ExtractLine
<1>6. QED
    BY <1>4, <1>5

LEMMA RestExtracted ==
    ASSUME ReaderInv, ExtractRest
    PROVE  ReaderInv'
<1>1. Reading("timed") /\ UNCHANGED line
    BY DEF ExtractRest
<1>2. CASE Fails
    BY <1>1, <1>2, FailureStep
<1>3. CASE /\ consumed' = Len(buffer)
           /\ Delivering(Pending)
           /\ status' = IF Pending = <<>> THEN "Ended" ELSE status
           /\ UNCHANGED <<taken, buffer, eof>>
    <2>1. consumed' \in 0..Len(buffer') /\ status' \in {"Open", "Ended", "Failed"}
        BY <1>3, Facts
    <2>2. delivered' \in Seq(Seq(Bytes) \ {<<>>})
        BY <1>3, PendingFacts, DeliveredType, Facts DEF ReaderInv
    <2>3. QED
        BY <1>1, <1>3, <2>1, <2>2, Facts, ReaderStep
<1>4. QED
    BY <1>2, <1>3 DEF ExtractRest

LEMMA TimedRead ==
    ASSUME ReaderInv, ReadTimed
    PROVE  ReaderInv'
<1>1. /\ Reading("timed") /\ Fits(Len(Pending))
      /\ UNCHANGED <<line, delivered, status>>
    BY DEF ReadTimed
<1>2. PICK chunk \in Arriving :
        /\ buffer' = Compact(buffer) \o chunk
        /\ consumed' = consumed - (Len(buffer) - Len(Compact(buffer)))
        /\ taken' = taken + Len(chunk)
        /\ eof' = (chunk = <<>>)
    BY DEF ReadTimed
<1>3. /\ chunk \in Seq(Bytes) /\ Len(chunk) \in Nat /\ Len(chunk) <= ChunkSize
      /\ taken' \in 0..Len(sent)
    BY <1>2, ArrivingFacts DEF ReaderInv
<1>4. /\ Compact(buffer) \in Seq(Bytes) /\ Len(Compact(buffer)) \in Nat
      /\ Len(Compact(buffer)) < Limit + CompactAt
      /\ consumed' \in 0..Len(Compact(buffer))
    BY <1>1, <1>2, CompactFacts DEF ReaderInv, Fits
<1>5. buffer' \in Seq(Bytes) /\ Len(buffer') = Len(Compact(buffer)) + Len(chunk)
    BY <1>2, <1>3, <1>4, ConcatProperties
<1>6. Limit \in Nat /\ ChunkSize \in Nat /\ CompactAt \in Nat
    BY FramingAssumption
<1>7. Len(buffer') < Limit + ChunkSize + CompactAt /\ consumed' \in 0..Len(buffer')
    BY <1>3, <1>4, <1>5, <1>6
<1>8. eof' \in BOOLEAN
    BY <1>2
<1>9. QED
    BY <1>1, <1>3, <1>5, <1>7, <1>8, Facts, ReaderStep

LEMMA Executed ==
    ASSUME ReaderInv, Exec
    PROVE  ReaderInv'
<1>1. /\ Reading("timed") /\ buffer' = <<>> /\ consumed' = 0 /\ eof' = FALSE
      /\ UNCHANGED <<taken, line, delivered, status>>
    BY DEF Exec
<1>2. /\ buffer' \in Seq(Bytes) /\ Len(buffer') = 0 /\ consumed' \in 0..Len(buffer')
    BY <1>1
<1>3. Len(buffer') < Limit + ChunkSize + CompactAt
    BY <1>2, FramingAssumption
<1>4. QED
    BY <1>1, <1>2, <1>3, Facts, ReaderStep

-----------------------------------------------------------------------------
(* The streaming reader                                                    *)

LEMMA Filled ==
    ASSUME ReaderInv, Fill
    PROVE  ReaderInv'
<1>1. Reading("streaming") /\ UNCHANGED eof
    BY DEF Fill
<1>2. PICK chunk \in Arriving :
        /\ buffer' = chunk /\ consumed' = 0
        /\ taken' = taken + Len(chunk)
        /\ IF chunk = <<>>
           THEN /\ Delivering(line)
                /\ line' = <<>>
                /\ status' = IF line = <<>> THEN "Ended" ELSE status
           ELSE UNCHANGED <<delivered, line, status>>
    BY DEF Fill
<1>3. /\ buffer' \in Seq(Bytes) /\ Len(buffer') \in Nat /\ Len(buffer') <= ChunkSize
      /\ taken' \in 0..Len(sent) /\ consumed' \in 0..Len(buffer')
    BY <1>2, ArrivingFacts DEF ReaderInv
<1>4. Len(buffer') < Limit + ChunkSize + CompactAt
    BY <1>3, FramingAssumption
<1>5. /\ line' \in Seq(Bytes) /\ Len(line') <= Limit
      /\ status' \in {"Open", "Ended", "Failed"}
    <2>1. CASE chunk = <<>>
        <3>1. line' = <<>> /\ status' \in {"Ended", status}
            BY <1>2, <2>1
        <3>2. QED
            BY <3>1, Facts, NoBytes
    <2>2. CASE chunk # <<>>
        BY <1>2, <2>2, Facts
    <2>3. QED
        BY <2>1, <2>2
<1>6. delivered' \in Seq(Seq(Bytes) \ {<<>>})
    BY <1>2, Facts, DeliveredType
<1>7. QED
    BY <1>1, <1>3, <1>4, <1>5, <1>6, Facts, ReaderStep

LEMMA Consumed ==
    ASSUME ReaderInv, Consume
    PROVE  ReaderInv'
<1> DEFINE payload == IF Delimited(Pending)
                      THEN SubSeq(Pending, 1, Delimiter(Pending)) ELSE Pending
<1>1. Reading("streaming")
    BY DEF Consume
<1>2. /\ Pending \in Seq(Bytes) /\ Len(Pending) = Len(buffer) - consumed
      /\ consumed \in Nat /\ Len(buffer) \in Nat
    BY PendingFacts, Facts DEF ReaderInv
<1>3. /\ payload \in Seq(Bytes) /\ Len(payload) \in Nat /\ Len(payload) <= Len(Pending)
      /\ Delimited(Pending) => Len(payload) + 1 <= Len(Pending)
    <2>1. CASE Delimited(Pending)
        <3>1. Delimiter(Pending) \in 0..(Len(Pending) - 1)
            BY <1>2, <2>1, DelimiterFacts
        <3>2. 1 \in 1..(Len(Pending) + 1) /\ Delimiter(Pending) \in 0..Len(Pending)
            BY <1>2, <3>1
        <3>3. /\ SubSeq(Pending, 1, Delimiter(Pending)) \in Seq(Bytes)
              /\ Len(SubSeq(Pending, 1, Delimiter(Pending))) =
                    IF 1 <= Delimiter(Pending) THEN Delimiter(Pending) - 1 + 1 ELSE 0
            BY <1>2, <3>2, SliceFacts
        <3>4. QED
            BY <1>2, <2>1, <3>1, <3>3
    <2>2. CASE ~ Delimited(Pending)
        BY <1>2, <2>2
    <2>3. QED
        BY <2>1, <2>2
<1>4. CASE ~ Fits(Len(line) + Len(payload))
    <2>1. Fails /\ line' = <<>>
        BY <1>4 DEF Consume
    <2>2. QED
        BY <1>1, <2>1, FailureStep
<1>5. CASE Fits(Len(line) + Len(payload)) /\ Delimited(Pending)
    <2>1. /\ consumed' = consumed + Len(payload) + 1
          /\ Delivering(Trimmed(line \o payload))
          /\ line' = <<>>
          /\ UNCHANGED <<taken, buffer, eof, status>>
        BY <1>5 DEF Consume
    <2> HIDE DEF payload
    <2>2. line' \in Seq(Bytes) /\ Len(line') <= Limit
        BY <2>1, FramingAssumption
    <2>3. consumed' \in 0..Len(buffer')
        BY <1>2, <1>3, <1>5, <2>1
    <2>4. Trimmed(line \o payload) \in Seq(Bytes)
        BY <1>3, ConcatProperties, TrimmedType, Facts
    <2>5. delivered' \in Seq(Seq(Bytes) \ {<<>>})
        BY <2>1, <2>4, DeliveredType, Facts
    <2>6. reader = "streaming"
        BY <1>1 DEF Reading
    <2>7. QED
        BY <1>1, <2>1, <2>2, <2>3, <2>5, <2>6, Facts, ReaderStep
<1>6. CASE Fits(Len(line) + Len(payload)) /\ ~ Delimited(Pending)
    <2>1. /\ consumed' = consumed + Len(payload)
          /\ line' = line \o payload
          /\ UNCHANGED <<taken, buffer, eof, status, delivered>>
        BY <1>6 DEF Consume
    <2> HIDE DEF payload
    <2>2. line' \in Seq(Bytes) /\ Len(line') = Len(line) + Len(payload)
        BY <1>3, <2>1, ConcatProperties, Facts
    <2>3. Len(line') <= Limit
        BY <1>6, <2>2 DEF Fits
    <2>4. consumed' \in 0..Len(buffer')
        BY <1>2, <1>3, <2>1
    <2>5. reader = "streaming"
        BY <1>1 DEF Reading
    <2>6. QED
        BY <1>1, <2>1, <2>2, <2>3, <2>4, <2>5, Facts, ReaderStep
<1>7. QED
    BY <1>4, <1>5, <1>6

-----------------------------------------------------------------------------
LEMMA NextBounded == ReaderInv /\ [Next]_vars => ReaderInv'
<1> SUFFICES ASSUME ReaderInv, [Next]_vars
             PROVE  ReaderInv'
    OBVIOUS
<1>1. CASE Writer
    BY <1>1, WriterSteps
<1>2. CASE Read
    BY <1>2, LineExtracted, RestExtracted, TimedRead, Filled, Consumed DEF Read
<1>3. CASE Exec
    BY <1>3, Executed
<1>4. CASE UNCHANGED vars
    BY <1>4 DEF vars, writerVars, readerVars, ReaderInv, TypeOK, BoundedMemory
<1>5. QED
    BY <1>1, <1>2, <1>3, <1>4 DEF Next

\* The readers' state keeps its type, for every stream.
THEOREM ReaderTyped == Spec => []TypeOK
<1>1. ReaderInv => TypeOK
    BY DEF ReaderInv
<1>2. QED
    BY <1>1, InitBounded, NextBounded, PTL DEF Spec

\* No peer makes a reader hold more than a line of the limit, a chunk and what
\* waits to be dropped, for every limit and every stream, of any length.
THEOREM MemoryBounded == Spec => []BoundedMemory
<1>1. ReaderInv => BoundedMemory
    BY DEF ReaderInv
<1>2. QED
    BY <1>1, InitBounded, NextBounded, PTL DEF Spec

-----------------------------------------------------------------------------
(* Lines and frames of a stream                                            *)

Boundary(s, q) == q \in 0..Len(s) /\ (q = 0 \/ s[q] = LF)

LEMMA MaximumFacts ==
    ASSUME NEW n \in Nat, NEW S \in SUBSET (0..n), S # {}
    PROVE  Max(S) \in S /\ \A k \in S : k <= Max(S)
<1> DEFINE T == {n - k : k \in S}
<1>1. T \in SUBSET Nat /\ T # {}
    <2>1. \A k \in S : n - k \in Nat
        OBVIOUS
    <2> QED
        BY <2>1
<1>2. Min(T) \in T /\ \A k \in T : Min(T) <= k
    BY <1>1, MinimumFacts
<1>3. PICK m \in S : Min(T) = n - m
    BY <1>2
<1>4. \A k \in S : n - k \in T
    OBVIOUS
<1>5. \A k \in S : m >= k
    <2> SUFFICES ASSUME NEW k \in S
                 PROVE  m >= k
        OBVIOUS
    <2>1. n - m <= n - k
        BY <1>2, <1>3, <1>4
    <2> QED
        BY <2>1
<1> HIDE DEF T
<1> QED
    BY <1>5 DEF Max

LEMMA SliceIs ==
    ASSUME NEW s \in Seq(Bytes), NEW t \in Seq(Bytes), NEW q \in Nat,
           q + Len(t) <= Len(s), \A i \in 1..Len(t) : t[i] = s[q + i]
    PROVE  t = SubSeq(s, q + 1, q + Len(t))
<1> DEFINE u == SubSeq(s, q + 1, q + Len(t))
<1>1. /\ Len(t) \in Nat /\ Len(s) \in Nat
      /\ \A i \in (q + 1)..(q + Len(t)) : s[i] \in Bytes
    OBVIOUS
<1>2. /\ u \in Seq(Bytes) /\ Len(u) = Len(t)
      /\ \A i \in 1..Len(t) : u[i] = s[q + 1 + i - 1]
    BY <1>1, SubSeqProperties
<1> HIDE DEF u
<1>3. \A i \in 1..Len(t) : t[i] = u[i]
    BY <1>1, <1>2
<1>4. t = u
    BY <1>2, <1>3, SeqEqual
<1> QED
    BY <1>4 DEF u

LEMMA SliceAt ==
    ASSUME NEW s \in Seq(Bytes), NEW q \in Nat, NEW e \in q..Len(s)
    PROVE  /\ SubSeq(s, q + 1, e) \in Seq(Bytes)
           /\ Len(SubSeq(s, q + 1, e)) = e - q
           /\ \A i \in 1..(e - q) : SubSeq(s, q + 1, e)[i] = s[q + i]
<1>1. \A i \in (q + 1)..e : s[i] \in Bytes
    OBVIOUS
<1>2. /\ SubSeq(s, q + 1, e) \in Seq(Bytes)
      /\ Len(SubSeq(s, q + 1, e)) = IF q + 1 <= e THEN e - (q + 1) + 1 ELSE 0
      /\ \A i \in 1..(e - (q + 1) + 1) : SubSeq(s, q + 1, e)[i] = s[q + 1 + i - 1]
    BY <1>1, SubSeqProperties
<1> QED
    BY <1>2

\* A line is what lies between a boundary and the next delimiter.
LEMMA LineIs ==
    ASSUME NEW s \in Seq(Bytes), NEW q, Boundary(s, q),
           NEW e \in (q + 1)..(Len(s) + 1), Plain(s, q + 1, e - 1)
    PROVE  LineAt(s, e) = SubSeq(s, q + 1, e - 1)
<1> DEFINE S == {d \in Delimiters(s) : d < e} \cup {0}
<1>1. q \in Nat /\ Len(s) \in Nat /\ e \in Nat
    BY DEF Boundary
<1>2. q \in S
    BY <1>1 DEF Boundary, Delimiters
<1>3. \A d \in S : q >= d
    BY <1>1 DEF Plain, Delimiters
<1>4. S \subseteq Nat
    BY DEF Delimiters
<1> HIDE DEF S
<1>5. Max(S) = q
    <2>1. Max(S) \in S /\ \A d \in S : Max(S) >= d
        BY <1>2, <1>3 DEF Max
    <2>2. Max(S) >= q /\ q >= Max(S) /\ Max(S) \in Nat
        BY <1>2, <1>3, <1>4, <2>1
    <2> QED
        BY <1>1, <2>2
<1>6. LineAt(s, e) = SubSeq(s, 1 + Max(S), e - 1)
    BY DEF LineAt, S
<1> QED
    BY <1>1, <1>5, <1>6

\* Every line begins at a boundary.
LEMMA LineBegins ==
    ASSUME NEW s \in Seq(Bytes), NEW e \in 1..(Len(s) + 1)
    PROVE  \E q \in 0..(e - 1) : Boundary(s, q) /\ Plain(s, q + 1, e - 1)
<1> DEFINE S == {d \in Delimiters(s) : d < e} \cup {0}
<1>1. S \in SUBSET (0..Len(s)) /\ S # {} /\ Len(s) \in Nat
    BY DEF Delimiters
<1>2. Max(S) \in S /\ \A k \in S : k <= Max(S)
    BY <1>1, MaximumFacts
<1>3. Max(S) \in 0..(e - 1) /\ Boundary(s, Max(S))
    BY <1>2 DEF Boundary, Delimiters
<1>4. Plain(s, Max(S) + 1, e - 1)
    <2> SUFFICES ASSUME NEW i \in (Max(S) + 1)..(e - 1), s[i] = LF
                 PROVE  FALSE
        BY DEF Plain
    <2>1. i \in 1..Len(s) /\ i < e /\ i > Max(S)
        BY <1>1, <1>3
    <2>2. i \in S
        BY <2>1 DEF Delimiters
    <2> HIDE DEF S
    <2> QED
        BY <1>2, <1>3, <2>1, <2>2
<1> QED
    BY <1>3, <1>4

\* What is written after a line does not change it.
LEMMA LineStays ==
    ASSUME NEW s \in Seq(Bytes), NEW t \in Seq(Bytes), NEW e \in 1..Len(s)
    PROVE  /\ e \in Delimiters(s \o t) <=> e \in Delimiters(s)
           /\ LineAt(s \o t, e) = LineAt(s, e)
           /\ LineAt(s, e) \in Seq(Bytes)
<1>1. /\ s \o t \in Seq(Bytes) /\ Len(s \o t) = Len(s) + Len(t)
      /\ Len(s) \in Nat /\ Len(t) \in Nat
      /\ \A i \in 1..Len(s) : (s \o t)[i] = s[i]
    BY ConcatProperties
<1>2. e \in Delimiters(s \o t) <=> e \in Delimiters(s)
    BY <1>1 DEF Delimiters
<1>3. PICK q \in 0..(e - 1) : Boundary(s, q) /\ Plain(s, q + 1, e - 1)
    BY LineBegins
<1>4. Boundary(s \o t, q) /\ Plain(s \o t, q + 1, e - 1)
    BY <1>1, <1>3 DEF Boundary, Plain
<1>5. LineAt(s, e) = SubSeq(s, q + 1, e - 1) /\ e - 1 \in q..Len(s)
    <2>1. e \in (q + 1)..(Len(s) + 1) /\ e - 1 \in q..Len(s)
        BY <1>1, <1>3
    <2> QED
        BY <1>3, <2>1, LineIs
<1>6. LineAt(s \o t, e) = SubSeq(s \o t, q + 1, e - 1)
    <2>1. e \in (q + 1)..(Len(s \o t) + 1)
        BY <1>1, <1>3
    <2> QED
        BY <1>1, <1>4, <2>1, LineIs
<1> DEFINE l == SubSeq(s, q + 1, e - 1)
<1>7. l \in Seq(Bytes) /\ Len(l) = e - 1 - q /\ \A i \in 1..(e - 1 - q) : l[i] = s[q + i]
    BY <1>3, <1>5, SliceAt
<1> HIDE DEF l
<1>8. \A i \in 1..Len(l) : l[i] = (s \o t)[q + i]
    BY <1>1, <1>3, <1>7
<1>9. l = SubSeq(s \o t, q + 1, q + Len(l))
    BY <1>1, <1>3, <1>7, <1>8, SliceIs
<1>10. q + Len(l) = e - 1
    BY <1>3, <1>7
<1> QED
    BY <1>2, <1>5, <1>6, <1>7, <1>9, <1>10 DEF l

LEMMA FrameStays ==
    ASSUME NEW s \in Seq(Bytes), NEW t \in Seq(Bytes)
    PROVE  /\ \A e \in 1..Len(s) :
                /\ e \in Overlong(s \o t) <=> e \in Overlong(s)
                /\ e \in FrameEnds(s \o t) <=> e \in FrameEnds(s)
                /\ FrameAt(s \o t, e) = FrameAt(s, e)
                /\ Ordinal(s \o t, e) = Ordinal(s, e)
           /\ FrameEnds(s) \subseteq 1..Len(s) /\ Overlong(s) \subseteq 1..Len(s)
<1>1. Len(s) \in Nat
    OBVIOUS
<1>2. /\ \A e \in 1..Len(s) : /\ e \in Overlong(s \o t) <=> e \in Overlong(s)
                              /\ FrameAt(s \o t, e) = FrameAt(s, e)
      /\ Overlong(s) \subseteq 1..Len(s)
    BY LineStays DEF Overlong, FrameAt, Delimiters
<1>3. Overlong(s \o t) \subseteq Nat
    BY ConcatProperties DEF Overlong, Delimiters
<1>4. \A e \in 1..Len(s) :
        (\A o \in Overlong(s \o t) : e < o) <=> (\A o \in Overlong(s) : e < o)
    <2> SUFFICES ASSUME NEW e \in 1..Len(s)
                 PROVE  (\A o \in Overlong(s \o t) : e < o) <=> (\A o \in Overlong(s) : e < o)
        OBVIOUS
    <2>1. ASSUME \A o \in Overlong(s) : e < o, NEW o \in Overlong(s \o t)
          PROVE  e < o
        <3>1. CASE o \in 1..Len(s)
            BY <1>2, <2>1, <3>1
        <3>2. CASE o \notin 1..Len(s)
            BY <1>1, <1>3, <2>1, <3>2 DEF Overlong, Delimiters
        <3> QED
            BY <3>1, <3>2
    <2>2. ASSUME \A o \in Overlong(s \o t) : e < o, NEW o \in Overlong(s)
          PROVE  e < o
        BY <1>2, <2>2
    <2> QED
        BY <2>1, <2>2
<1>5. /\ \A e \in 1..Len(s) : e \in FrameEnds(s \o t) <=> e \in FrameEnds(s)
      /\ FrameEnds(s) \subseteq 1..Len(s)
    <2>1. FrameEnds(s) \subseteq 1..Len(s)
        BY DEF FrameEnds, Delimiters
    <2>2. \A e \in 1..Len(s) : e \in Delimiters(s \o t) <=> e \in Delimiters(s)
        BY LineStays
    <2> QED
        BY <1>2, <1>4, <2>1, <2>2 DEF FrameEnds
<1>6. \A e \in 1..Len(s) : Ordinal(s \o t, e) = Ordinal(s, e)
    <2> SUFFICES ASSUME NEW e \in 1..Len(s)
                 PROVE  Ordinal(s \o t, e) = Ordinal(s, e)
        OBVIOUS
    <2>1. FrameEnds(s \o t) \subseteq Nat \ {0}
        BY ConcatProperties DEF FrameEnds, Delimiters
    <2>2. {f \in FrameEnds(s \o t) : f <= e} = {f \in FrameEnds(s) : f <= e}
        BY <1>1, <1>5, <2>1
    <2> QED
        BY <2>2 DEF Ordinal
<1> QED
    BY <1>2, <1>5, <1>6

-----------------------------------------------------------------------------
(* The frames up to a boundary                                             *)

Before(s, q) == {e \in FrameEnds(s) : e <= q}

\* fs are the frames of s up to the boundary q.
Covers(s, fs, q) ==
    /\ Boundary(s, q)
    /\ \A o \in Overlong(s) : q < o
    /\ Len(fs) = Cardinality(Before(s, q))
    /\ \A n \in 1..Len(fs) : \E e \in Before(s, q) : Ordinal(s, e) = n /\ fs[n] = FrameAt(s, e)

\* ... and of the whole of s, whose last frame ends with it.
Rests(s, fs) ==
    \E before \in Seq(Seq(Bytes)), q \in 0..(Len(s) - 1) :
        /\ Covers(s, before, q)
        /\ Plain(s, q + 1, Len(s)) /\ Len(s) - q <= Limit
        /\ fs = Append(before, SubSeq(s, q + 1, Len(s)))

LEMMA EndsFinite ==
    ASSUME NEW s \in Seq(Bytes)
    PROVE  /\ FrameEnds(s) \subseteq 1..Len(s)
           /\ IsFiniteSet(FrameEnds(s)) /\ Cardinality(FrameEnds(s)) \in Nat
           /\ \A q : /\ IsFiniteSet(Before(s, q)) /\ Cardinality(Before(s, q)) \in Nat
                     /\ Cardinality(Before(s, q)) <= Cardinality(FrameEnds(s))
<1>1. FrameEnds(s) \subseteq 1..Len(s)
    BY DEF FrameEnds, Delimiters
<1>2. IsFiniteSet(1..Len(s))
    BY FS_Interval
<1>3. IsFiniteSet(FrameEnds(s))
    BY <1>1, <1>2, FS_Subset
<1>4. \A q : Before(s, q) \in SUBSET FrameEnds(s)
    BY DEF Before
<1> QED
    BY <1>1, <1>3, <1>4, FS_Subset, FS_CardinalityType

LEMMA OrdinalsDiffer ==
    ASSUME NEW s \in Seq(Bytes), NEW e \in FrameEnds(s), NEW f \in FrameEnds(s),
           Ordinal(s, e) = Ordinal(s, f)
    PROVE  e = f
<1>1. ASSUME NEW a \in FrameEnds(s), NEW b \in FrameEnds(s), a < b
      PROVE  Ordinal(s, a) # Ordinal(s, b)
    <2>1. a \in Nat /\ b \in Nat
        BY EndsFinite
    <2>2. /\ Before(s, a) \in SUBSET Before(s, b)
          /\ b \in Before(s, b) /\ b \notin Before(s, a)
        BY <1>1, <2>1, EndsFinite DEF Before
    <2>3. Cardinality(Before(s, a)) # Cardinality(Before(s, b))
        BY <2>2, EndsFinite, FS_Subset
    <2> QED
        BY <2>3 DEF Ordinal, Before
<1>2. e \in Nat /\ f \in Nat
    BY EndsFinite
<1> QED
    BY <1>1, <1>2

LEMMA CoversNothing ==
    ASSUME NEW s \in Seq(Bytes), s = <<>>
    PROVE  Covers(s, <<>>, 0)
<1>1. Len(s) = 0 /\ Delimiters(s) = {}
    BY DEF Delimiters
<1>2. Overlong(s) = {} /\ Before(s, 0) = {}
    BY <1>1 DEF Overlong, Before, FrameEnds
<1> QED
    BY <1>1, <1>2, FS_EmptySet DEF Covers, Boundary

LEMMA CoversStays ==
    ASSUME NEW s \in Seq(Bytes), NEW t \in Seq(Bytes), NEW fs, NEW q, Covers(s, fs, q)
    PROVE  Covers(s \o t, fs, q)
<1>1. /\ s \o t \in Seq(Bytes) /\ Len(s \o t) = Len(s) + Len(t)
      /\ Len(s) \in Nat /\ Len(t) \in Nat
      /\ \A i \in 1..Len(s) : (s \o t)[i] = s[i]
    BY ConcatProperties
<1>2. q \in 0..Len(s) /\ Boundary(s \o t, q)
    BY <1>1 DEF Covers, Boundary
<1>3. \A o \in Overlong(s \o t) : q < o
    <2> SUFFICES ASSUME NEW o \in Overlong(s \o t)
                 PROVE  q < o
        OBVIOUS
    <2>1. o \in 1..(Len(s) + Len(t))
        BY <1>1 DEF Overlong, Delimiters
    <2>2. CASE o \in 1..Len(s)
        BY <2>2, FrameStays DEF Covers
    <2>3. CASE o \notin 1..Len(s)
        BY <1>1, <1>2, <2>1, <2>3
    <2> QED
        BY <2>2, <2>3
<1>4. Before(s \o t, q) = Before(s, q) /\ Before(s, q) \subseteq 1..Len(s)
    <2>1. FrameEnds(s \o t) \subseteq Nat \ {0} /\ FrameEnds(s) \subseteq 1..Len(s)
        BY <1>1 DEF FrameEnds, Delimiters
    <2> QED
        BY <1>2, <2>1, FrameStays DEF Before
<1> QED
    BY <1>2, <1>3, <1>4, FrameStays DEF Covers

\* The next line is a frame, unless it is blank.
LEMMA CoversLine ==
    ASSUME NEW s \in Seq(Bytes), NEW fs \in Seq(Seq(Bytes)), NEW q, Covers(s, fs, q),
           NEW e \in (q + 1)..Len(s), s[e] = LF, Plain(s, q + 1, e - 1), e - 1 - q <= Limit
    PROVE  /\ LineAt(s, e) = SubSeq(s, q + 1, e - 1)
           /\ Covers(s, IF FrameAt(s, e) = <<>> THEN fs ELSE Append(fs, FrameAt(s, e)), e)
<1>1. /\ Boundary(s, q) /\ q \in Nat /\ e \in 1..Len(s) /\ Len(s) \in Nat /\ q < e
      /\ e - 1 \in q..Len(s) /\ Limit \in Nat
    BY FramingAssumption DEF Covers, Boundary
<1>2. LineAt(s, e) = SubSeq(s, q + 1, e - 1)
    <2>1. e \in (q + 1)..(Len(s) + 1)
        BY <1>1
    <2> QED
        BY <1>1, <2>1, LineIs
<1>3. Len(LineAt(s, e)) = e - 1 - q
    BY <1>1, <1>2, SliceAt
<1>4. Boundary(s, e)
    BY <1>1 DEF Boundary
<1>5. \A d \in Delimiters(s) : q < d => e <= d
    BY <1>1 DEF Plain, Delimiters
<1>6. \A o \in Overlong(s) : e < o
    <2> SUFFICES ASSUME NEW o \in Overlong(s)
                 PROVE  e < o
        OBVIOUS
    <2>1. o \in Nat /\ q < o /\ o \in Delimiters(s) /\ Len(LineAt(s, o)) > Limit
        BY DEF Covers, Overlong, Delimiters
    <2>2. o # e
        BY <1>1, <1>3, <2>1
    <2> QED
        BY <1>1, <1>5, <2>1, <2>2
<1>7. e \in FrameEnds(s) <=> FrameAt(s, e) # <<>>
    BY <1>1, <1>6 DEF FrameEnds, Delimiters
<1>8. Before(s, e) = Before(s, q) \cup (IF FrameAt(s, e) = <<>> THEN {} ELSE {e})
    <2>1. \A f \in FrameEnds(s) : f \in Nat /\ (f <= e <=> f <= q \/ f = e)
        BY <1>1, <1>5 DEF FrameEnds, Delimiters
    <2> QED
        BY <1>1, <1>7, <2>1 DEF Before
<1>9. CASE FrameAt(s, e) = <<>>
    BY <1>2, <1>4, <1>6, <1>8, <1>9 DEF Covers
<1>10. CASE FrameAt(s, e) # <<>>
    <2> DEFINE gs == Append(fs, FrameAt(s, e))
    <2>1. e \notin Before(s, q)
        BY <1>1 DEF Before
    <2>2. Cardinality(Before(s, e)) = Cardinality(Before(s, q)) + 1
        BY <1>8, <1>10, <2>1, EndsFinite, FS_AddElement
    <2>3. Len(fs) = Cardinality(Before(s, q)) /\ Len(fs) \in Nat
        BY DEF Covers
    <2>4. Ordinal(s, e) = Len(fs) + 1
        BY <2>2, <2>3 DEF Ordinal, Before
    <2>5. /\ Len(gs) = Len(fs) + 1 /\ gs[Len(fs) + 1] = FrameAt(s, e)
          /\ \A n \in 1..Len(fs) : gs[n] = fs[n]
        OBVIOUS
    <2> HIDE DEF gs
    <2>6. ASSUME NEW n \in 1..Len(gs)
          PROVE  \E f \in Before(s, e) : Ordinal(s, f) = n /\ gs[n] = FrameAt(s, f)
        <3>1. CASE n \in 1..Len(fs)
            BY <1>8, <2>5, <3>1 DEF Covers
        <3>2. CASE n = Len(fs) + 1
            BY <1>8, <1>10, <2>4, <2>5, <3>2
        <3> QED
            BY <2>3, <2>5, <3>1, <3>2
    <2>7. Covers(s, gs, e)
        BY <1>4, <1>6, <2>2, <2>3, <2>5, <2>6 DEF Covers
    <2> QED
        BY <1>2, <1>10, <2>7 DEF gs
<1> QED
    BY <1>9, <1>10

\* Frames up to a boundary are the first frames of the stream.
LEMMA CoversFirst ==
    ASSUME NEW s \in Seq(Bytes), NEW fs, NEW q, Covers(s, fs, q)
    PROVE  /\ Len(fs) \in Nat /\ Len(fs) <= Cardinality(FrameEnds(s))
           /\ \A n \in 1..Len(fs) : fs[n] = Frames(s)[n]
<1>1. Len(fs) \in Nat /\ Len(fs) <= Cardinality(FrameEnds(s))
    BY EndsFinite DEF Covers
<1>2. ASSUME NEW n \in 1..Len(fs)
      PROVE  fs[n] = Frames(s)[n]
    <2>1. PICK e \in FrameEnds(s) : Ordinal(s, e) = n /\ fs[n] = FrameAt(s, e)
        BY DEF Covers, Before
    <2>2. (CHOOSE f \in FrameEnds(s) : Ordinal(s, f) = n) = e
        BY <2>1, OrdinalsDiffer
    <2>3. n \in 1..Cardinality(FrameEnds(s))
        BY <1>1, EndsFinite
    <2> QED
        BY <2>1, <2>2, <2>3 DEF Frames
<1> QED
    BY <1>1, <1>2

LEMMA FramesSeq ==
    ASSUME NEW s \in Seq(Bytes)
    PROVE  \E S : Frames(s) \in Seq(S) /\ Len(Frames(s)) = Cardinality(FrameEnds(s))
<1> DEFINE count == Cardinality(FrameEnds(s))
           S == {Frames(s)[n] : n \in 1..count}
<1>1. count \in Nat
    BY EndsFinite
<1> HIDE DEF count
<1>2. Frames(s) \in [1..count -> S]
    BY DEF Frames, count
<1>3. Frames(s) \in Seq(S) /\ Len(Frames(s)) = count
    BY <1>1, <1>2
<1> QED
    BY <1>3 DEF count

\* With no delimiter left, the frames up to a boundary are all of them.
LEMMA CoversAll ==
    ASSUME NEW s \in Seq(Bytes), NEW fs \in Seq(Seq(Bytes)), NEW q, Covers(s, fs, q),
           Plain(s, q + 1, Len(s))
    PROVE  /\ Rest(s) = SubSeq(s, q + 1, Len(s)) /\ Rest(s) \in Seq(Bytes)
           /\ Len(Rest(s)) = Len(s) - q
           /\ Overlong(s) = {}
           /\ fs = Frames(s)
<1>1. Boundary(s, q) /\ q \in 0..Len(s) /\ Len(s) \in Nat
    BY DEF Covers, Boundary
<1>2. Rest(s) = SubSeq(s, q + 1, Len(s))
    <2> DEFINE e == Len(s) + 1
    <2>1. e \in (q + 1)..(Len(s) + 1) /\ e - 1 = Len(s)
        BY <1>1
    <2> HIDE DEF e
    <2>2. LineAt(s, e) = SubSeq(s, q + 1, e - 1)
        BY <1>1, <2>1, LineIs
    <2> QED
        BY <2>1, <2>2 DEF Rest, e
<1>3. \A d \in Delimiters(s) : d \in Nat /\ d <= q
    BY <1>1 DEF Plain, Delimiters
<1>4. Overlong(s) = {}
    <2>1. \A o \in Overlong(s) : o \in Nat /\ o <= q /\ q < o
        BY <1>3 DEF Covers, Overlong
    <2> QED
        BY <1>1, <2>1
<1>5. Before(s, q) = FrameEnds(s)
    BY <1>3 DEF Before, FrameEnds
<1>6. fs = Frames(s)
    <2>1. /\ Len(fs) = Cardinality(FrameEnds(s)) /\ Len(fs) \in Nat
          /\ \A n \in 1..Len(fs) : fs[n] = Frames(s)[n]
        BY <1>5, CoversFirst DEF Covers
    <2>2. fs = [n \in 1..Len(fs) |-> fs[n]]
        OBVIOUS
    <2>3. Frames(s) = [n \in 1..Len(fs) |-> Frames(s)[n]]
        BY <2>1 DEF Frames
    <2> QED
        BY <2>1, <2>2, <2>3
<1>7. SubSeq(s, q + 1, Len(s)) \in Seq(Bytes) /\ Len(SubSeq(s, q + 1, Len(s))) = Len(s) - q
    BY <1>1, SliceAt
<1> QED
    BY <1>2, <1>4, <1>6, <1>7

\* Over the limit with no delimiter: the stream has a line that is too long,
\* and no frame comes after it.
LEMMA CoversOverrun ==
    ASSUME NEW s \in Seq(Bytes), NEW fs \in Seq(Seq(Bytes)), NEW q, Covers(s, fs, q),
           q + Limit + 1 <= Len(s), Plain(s, q + 1, q + Limit + 1)
    PROVE  Overruns(s) /\ fs = Frames(s)
<1>1. Boundary(s, q) /\ q \in 0..Len(s) /\ Len(s) \in Nat /\ Limit \in Nat
    BY FramingAssumption DEF Covers, Boundary
<1>2. CASE Plain(s, q + 1, Len(s))
    <2>1. Len(Rest(s)) > Limit
        BY <1>1, <1>2, CoversAll
    <2> QED
        BY <1>2, <2>1, CoversAll DEF Overruns
<1>3. CASE ~ Plain(s, q + 1, Len(s))
    <2> DEFINE later == {d \in Delimiters(s) : d > q}
               e == Min(later)
    <2>1. later \in SUBSET Nat /\ later # {}
        BY <1>1, <1>3 DEF Plain, Delimiters
    <2>2. e \in later /\ \A d \in later : e <= d
        BY <2>1, MinimumFacts
    <2> HIDE DEF e
    <2>3. e \in 1..Len(s) /\ s[e] = LF /\ e > q
        BY <2>2 DEF Delimiters
    <2>4. Plain(s, q + 1, e - 1)
        <3> SUFFICES ASSUME NEW i \in (q + 1)..(e - 1), s[i] = LF
                     PROVE  FALSE
            BY DEF Plain
        <3>1. i \in later /\ i < e
            BY <1>1, <2>3 DEF Delimiters
        <3> QED
            BY <2>2, <2>3, <3>1
    <2>5. e - 1 >= q + Limit + 1
        BY <1>1, <2>3 DEF Plain
    <2>6. LineAt(s, e) = SubSeq(s, q + 1, e - 1)
        <3>1. e \in (q + 1)..(Len(s) + 1)
            BY <1>1, <2>3
        <3> QED
            BY <1>1, <2>4, <3>1, LineIs
    <2>7. Len(LineAt(s, e)) = e - 1 - q
        <3>1. q \in Nat /\ e - 1 \in q..Len(s)
            BY <1>1, <2>3
        <3> QED
            BY <2>6, <3>1, SliceAt
    <2>8. e \in Overlong(s)
        BY <1>1, <2>3, <2>5, <2>7 DEF Overlong, Delimiters
    <2>9. Before(s, q) = FrameEnds(s)
        <3>1. \A f \in FrameEnds(s) : f \in Nat /\ f \in Delimiters(s) /\ f < e
            BY <2>8 DEF FrameEnds, Delimiters
        <3>2. \A f \in FrameEnds(s) : f <= q
            BY <1>1, <2>2, <2>3, <3>1
        <3> QED
            BY <3>2 DEF Before
    <2>10. /\ Len(fs) = Cardinality(FrameEnds(s)) /\ Len(fs) \in Nat
           /\ \A n \in 1..Len(fs) : fs[n] = Frames(s)[n]
        BY <2>9, CoversFirst DEF Covers
    <2>11. fs = [n \in 1..Len(fs) |-> fs[n]]
        OBVIOUS
    <2>12. Frames(s) = [n \in 1..Len(fs) |-> Frames(s)[n]]
        BY <2>10 DEF Frames
    <2> QED
        BY <2>8, <2>10, <2>11, <2>12 DEF Overruns
<1> QED
    BY <1>2, <1>3

\* What FramesOf is once all frames are known
LEMMA FramesOfAll ==
    ASSUME NEW s \in Seq(Bytes), NEW fs \in Seq(Seq(Bytes)), fs = Frames(s)
    PROVE  /\ FramesOf(s, FALSE) = fs
           /\ (Rest(s) = <<>> \/ Overruns(s)) => FramesOf(s, TRUE) = fs
           /\ (~ Overruns(s) /\ Rest(s) # <<>>) => FramesOf(s, TRUE) = fs \o <<Rest(s)>>
<1>1. fs \o <<>> = fs
    BY ConcatEmptySeq
<1> QED
    BY <1>1 DEF FramesOf

LEMMA CoversWhole ==
    ASSUME NEW s \in Seq(Bytes), NEW fs \in Seq(Seq(Bytes)), Covers(s, fs, Len(s)),
           NEW ended \in BOOLEAN
    PROVE  FramesOf(s, ended) = fs /\ ~ Overruns(s)
<1>1. Plain(s, Len(s) + 1, Len(s)) /\ Len(s) \in Nat /\ Limit \in Nat
    BY FramingAssumption DEF Plain
<1>2. /\ Rest(s) \in Seq(Bytes) /\ Len(Rest(s)) = Len(s) - Len(s) /\ Overlong(s) = {}
      /\ fs = Frames(s)
    BY <1>1, CoversAll
<1>3. Rest(s) = <<>> /\ ~ Overruns(s)
    BY <1>1, <1>2, EmptySeq DEF Overruns
<1> QED
    BY <1>2, <1>3, FramesOfAll

LEMMA RestsWhole ==
    ASSUME NEW s \in Seq(Bytes), NEW fs \in Seq(Seq(Bytes)), Rests(s, fs)
    PROVE  FramesOf(s, TRUE) = fs /\ ~ Overruns(s)
<1>1. PICK before \in Seq(Seq(Bytes)), q \in 0..(Len(s) - 1) :
        /\ Covers(s, before, q)
        /\ Plain(s, q + 1, Len(s)) /\ Len(s) - q <= Limit
        /\ fs = Append(before, SubSeq(s, q + 1, Len(s)))
    BY DEF Rests
<1>2. /\ Rest(s) = SubSeq(s, q + 1, Len(s)) /\ Rest(s) \in Seq(Bytes)
      /\ Len(Rest(s)) = Len(s) - q /\ Overlong(s) = {} /\ before = Frames(s)
    BY <1>1, CoversAll
<1>3. Len(s) \in Nat /\ q \in Int /\ q < Len(s) /\ Limit \in Nat
    BY <1>1, FramingAssumption
<1>4. Rest(s) # <<>> /\ ~ Overruns(s)
    <2>1. Len(Rest(s)) # 0
        <3>1. Len(Rest(s)) = Len(s) - q
            BY <1>2
        <3> HIDE <1>2
        <3> QED
            BY <1>3, <3>1
    <2>2. Rest(s) # <<>>
        BY <2>1, EmptySeq
    <2>3. ~ (Len(Rest(s)) > Limit)
        BY <1>1, <1>2, <1>3
    <2> QED
        BY <1>2, <2>2, <2>3 DEF Overruns
<1>5. FramesOf(s, TRUE) = before \o <<Rest(s)>>
    BY <1>2, <1>4, FramesOfAll
<1>6. Append(before, Rest(s)) = before \o <<Rest(s)>>
    OBVIOUS
<1> QED
    BY <1>1, <1>2, <1>4, <1>5, <1>6

LEMMA CoversPrefix ==
    ASSUME NEW s \in Seq(Bytes), NEW fs \in Seq(Seq(Bytes)), NEW q, Covers(s, fs, q),
           NEW ended \in BOOLEAN
    PROVE  IsPrefix(fs, FramesOf(s, ended))
<1> DEFINE last == IF ended /\ ~ Overruns(s) /\ Rest(s) # <<>> THEN <<Rest(s)>> ELSE <<>>
           all == FramesOf(s, ended)
<1>1. PICK S : Frames(s) \in Seq(S) /\ Len(Frames(s)) = Cardinality(FrameEnds(s))
    BY FramesSeq
<1> DEFINE T == S \cup Seq(Bytes) \cup {Rest(s)}
<1>2. Frames(s) \in Seq(T) /\ fs \in Seq(T)
    <2>1. S \subseteq T /\ Seq(Bytes) \subseteq T
        OBVIOUS
    <2> QED
        BY <1>1, <2>1, SeqMonotonic
<1>3. last \in Seq(T)
    <2>1. Rest(s) \in T
        OBVIOUS
    <2> HIDE DEF T
    <2> QED
        BY <2>1
<1>4. all = Frames(s) \o last
    BY DEF FramesOf
<1> HIDE DEF T, last
<1>5. /\ all \in Seq(T) /\ Len(all) = Len(Frames(s)) + Len(last)
      /\ \A i \in 1..(Len(Frames(s)) + Len(last)) :
            all[i] = IF i <= Len(Frames(s)) THEN Frames(s)[i] ELSE last[i - Len(Frames(s))]
    BY <1>2, <1>3, <1>4, ConcatProperties
<1>6. /\ Len(fs) \in Nat /\ Len(fs) <= Len(Frames(s)) /\ Len(last) \in Nat
      /\ Len(Frames(s)) \in Nat
      /\ \A n \in 1..Len(fs) : fs[n] = Frames(s)[n]
    BY <1>1, <1>2, <1>3, CoversFirst
<1> HIDE DEF all
<1>7. Len(fs) <= Len(all) /\ \A n \in 1..Len(fs) : fs[n] = all[n]
    BY <1>5, <1>6
<1>8. SubSeq(fs, 1, Len(fs)) = SubSeq(all, 1, Len(fs))
    <2>1. SubSeq(fs, 1, Len(fs)) = fs
        BY <1>2, SubSeqFull
    <2>2. /\ SubSeq(all, 1, Len(fs)) \in Seq(T) /\ Len(SubSeq(all, 1, Len(fs))) = Len(fs)
          /\ \A n \in 1..Len(fs) : SubSeq(all, 1, Len(fs))[n] = all[n]
        <3>1. \A i \in 1..Len(fs) : all[i] \in T
            BY <1>5, <1>6, <1>7
        <3>2. /\ SubSeq(all, 1, Len(fs)) \in Seq(T)
              /\ Len(SubSeq(all, 1, Len(fs))) = IF 1 <= Len(fs) THEN Len(fs) - 1 + 1 ELSE 0
              /\ \A i \in 1..(Len(fs) - 1 + 1) : SubSeq(all, 1, Len(fs))[i] = all[1 + i - 1]
            BY <1>6, <3>1, SubSeqProperties
        <3> QED
            BY <1>6, <3>2
    <2> QED
        BY <1>2, <1>7, <2>1, <2>2, SeqEqual
<1> QED
    BY <1>7, <1>8 DEF IsPrefix, all

-----------------------------------------------------------------------------
(* The readers return the frames of the stream                             *)

\* How much of the stream has been returned, or passed over as blank
Position == taken - (Len(buffer) - consumed) - Len(line)

\* What a reader holds is what lies between there and what it has taken.
Held ==
    /\ reader = "timed" => line = <<>>
    /\ Position \in Nat
    /\ \A i \in (consumed + 1)..Len(buffer) : buffer[i] = sent[taken - Len(buffer) + i]
    /\ \A i \in 1..Len(line) : line[i] = sent[Position + i] /\ line[i] # LF
    /\ eof => closed /\ taken = Len(sent)
    /\ status = "Ended" => closed /\ Position = Len(sent)

InLines == status # "Failed" /\ Covers(sent, delivered, Position)

AtEnd == status # "Failed" /\ closed /\ Position = Len(sent) /\ Rests(sent, delivered)

Stuck ==
    /\ status = "Failed"
    /\ \E q \in 0..Len(sent) :
        /\ Covers(sent, delivered, q)
        /\ q + Limit + 1 <= Len(sent) /\ Plain(sent, q + 1, q + Limit + 1)

FrameInv == ReaderInv /\ Held /\ (InLines \/ AtEnd \/ Stuck)

LEMMA TypeFacts ==
    ASSUME ReaderInv
    PROVE  /\ sent \in Seq(Bytes) /\ Len(sent) \in Nat /\ closed \in BOOLEAN
           /\ taken \in 0..Len(sent)
           /\ buffer \in Seq(Bytes) /\ Len(buffer) \in Nat /\ consumed \in 0..Len(buffer)
           /\ line \in Seq(Bytes) /\ Len(line) \in Nat
           /\ delivered \in Seq(Seq(Bytes)) /\ reader \in Readers /\ Limit \in Nat
           /\ Pending \in Seq(Bytes) /\ Len(Pending) = Len(buffer) - consumed
           /\ \A i \in 1..Len(Pending) : Pending[i] = buffer[consumed + i]
<1>1. /\ sent \in Seq(Bytes) /\ closed \in BOOLEAN /\ taken \in 0..Len(sent)
      /\ buffer \in Seq(Bytes) /\ consumed \in 0..Len(buffer)
      /\ line \in Seq(Bytes) /\ reader \in Readers /\ Limit \in Nat
      /\ delivered \in Seq(Seq(Bytes) \ {<<>>})
    BY FramingAssumption DEF ReaderInv, TypeOK
<1>2. delivered \in Seq(Seq(Bytes))
    <2>1. Seq(Bytes) \ {<<>>} \subseteq Seq(Bytes)
        OBVIOUS
    <2> QED
        BY <1>1, <2>1, SeqMonotonic
<1>3. /\ Pending \in Seq(Bytes) /\ Len(Pending) = Len(buffer) - consumed
      /\ \A i \in 1..Len(Pending) : Pending[i] = buffer[consumed + i]
    <2>1. consumed \in Nat /\ Len(buffer) \in consumed..Len(buffer)
        BY <1>1
    <2> QED
        BY <1>1, <2>1, SliceAt DEF Pending
<1> QED
    BY <1>1, <1>2, <1>3

\* The bytes that are held, by their place in the stream
LEMMA HeldFacts ==
    ASSUME ReaderInv, Held
    PROVE  /\ Position \in Nat
           /\ Position + Len(line) + Len(Pending) = taken
           /\ \A i \in 1..Len(line) : line[i] = sent[Position + i] /\ line[i] # LF
           /\ \A i \in 1..Len(Pending) : Pending[i] = sent[Position + Len(line) + i]
<1>1. /\ Position \in Nat
      /\ \A i \in 1..Len(line) : line[i] = sent[Position + i] /\ line[i] # LF
      /\ \A i \in (consumed + 1)..Len(buffer) : buffer[i] = sent[taken - Len(buffer) + i]
    BY DEF Held
<1>2. /\ Position = taken - Len(Pending) - Len(line)
      /\ taken \in Nat /\ Len(Pending) \in Nat /\ Len(line) \in Nat
    BY TypeFacts DEF Position
<1>3. ASSUME NEW i \in 1..Len(Pending)
      PROVE  Pending[i] = sent[Position + Len(line) + i]
    <2>1. Pending[i] = buffer[consumed + i] /\ consumed + i \in (consumed + 1)..Len(buffer)
        BY TypeFacts
    <2>2. Pending[i] = sent[taken - Len(buffer) + (consumed + i)]
        BY <1>1, <2>1
    <2>3. /\ Len(Pending) = Len(buffer) - consumed
          /\ Len(buffer) \in Int /\ consumed \in Int /\ i \in Int
        BY TypeFacts
    <2>4. taken - Len(buffer) + (consumed + i) = Position + Len(line) + i
        BY <1>2, <2>3
    <2> QED
        BY <2>2, <2>4
<1> QED
    BY <1>1, <1>2, <1>3

LEMMA UndelimitedIs ==
    ASSUME NEW s \in Seq(Bytes), ~ Delimited(s)
    PROVE  Plain(s, 1, Len(s))
BY DEF Plain, Delimited, Delimiters

\* A line found in the stream is returned, unless it is blank.
LEMMA LineReturned ==
    ASSUME sent \in Seq(Bytes), delivered \in Seq(Seq(Bytes)),
           NEW q, Covers(sent, delivered, q), NEW l \in Seq(Bytes),
           q + Len(l) + 1 <= Len(sent), sent[q + Len(l) + 1] = LF, Fits(Len(l)),
           \A i \in 1..Len(l) : l[i] = sent[q + i] /\ l[i] # LF,
           Delivering(Trimmed(l))
    PROVE  Covers(sent, delivered', q + Len(l) + 1)
<1> DEFINE e == q + Len(l) + 1
<1>1. /\ q \in Nat /\ Len(l) \in Nat /\ Len(sent) \in Nat
      /\ e \in (q + 1)..Len(sent) /\ e - 1 - q = Len(l) /\ e - 1 = q + Len(l)
    BY DEF Covers, Boundary
<1>2. e - 1 - q <= Limit
    BY <1>1 DEF Fits
<1>3. Plain(sent, q + 1, e - 1)
    <2> SUFFICES ASSUME NEW i \in (q + 1)..(e - 1)
                 PROVE  sent[i] # LF
        BY DEF Plain
    <2>1. i - q \in 1..Len(l) /\ q + (i - q) = i
        BY <1>1
    <2> QED
        BY <2>1
<1>4. l = SubSeq(sent, q + 1, q + Len(l))
    BY <1>1, SliceIs
<1> HIDE DEF e
<1>5. /\ LineAt(sent, e) = SubSeq(sent, q + 1, e - 1)
      /\ Covers(sent, IF FrameAt(sent, e) = <<>> THEN delivered
                      ELSE Append(delivered, FrameAt(sent, e)), e)
    <2>1. sent[e] = LF
        BY DEF e
    <2> QED
        BY <1>1, <1>2, <1>3, <2>1, CoversLine
<1>6. FrameAt(sent, e) = Trimmed(l)
    BY <1>1, <1>4, <1>5 DEF FrameAt, Trimmed
<1> QED
    BY <1>5, <1>6 DEF Delivering, e

\* The last of a closed stream is returned, if there is anything.
LEMMA RestReturned ==
    ASSUME sent \in Seq(Bytes), delivered \in Seq(Seq(Bytes)),
           NEW q, Covers(sent, delivered, q), NEW l \in Seq(Bytes),
           q + Len(l) = Len(sent), Len(l) <= Limit,
           \A i \in 1..Len(l) : l[i] = sent[q + i] /\ l[i] # LF,
           Delivering(l)
    PROVE  IF l = <<>> THEN q = Len(sent) /\ delivered' = delivered ELSE Rests(sent, delivered')
<1>1. q \in Nat /\ Len(l) \in Nat /\ Len(sent) \in Nat
    BY DEF Covers, Boundary
<1>2. CASE l = <<>>
    BY <1>1, <1>2 DEF Delivering
<1>3. CASE l # <<>>
    <2>1. q \in 0..(Len(sent) - 1) /\ Len(sent) - q <= Limit
        BY <1>1, <1>3, EmptySeq
    <2>2. Plain(sent, q + 1, Len(sent))
        <3> SUFFICES ASSUME NEW i \in (q + 1)..Len(sent)
                     PROVE  sent[i] # LF
            BY DEF Plain
        <3>1. i - q \in 1..Len(l) /\ q + (i - q) = i
            BY <1>1
        <3> QED
            BY <3>1
    <2>3. l = SubSeq(sent, q + 1, q + Len(l))
        BY <1>1, SliceIs
    <2>4. delivered' = Append(delivered, SubSeq(sent, q + 1, Len(sent)))
        BY <1>3, <2>3 DEF Delivering
    <2> QED
        BY <1>3, <2>1, <2>2, <2>4 DEF Rests
<1> QED
    BY <1>2, <1>3

\* Too much without a delimiter
LEMMA LineTooLong ==
    ASSUME sent \in Seq(Bytes), NEW q, Covers(sent, delivered, q),
           NEW l \in Seq(Bytes), q + Len(l) <= Len(sent), ~ Fits(Len(l)),
           \A i \in 1..Len(l) : l[i] = sent[q + i] /\ l[i] # LF
    PROVE  \E p \in 0..Len(sent) :
                /\ Covers(sent, delivered, p)
                /\ p + Limit + 1 <= Len(sent) /\ Plain(sent, p + 1, p + Limit + 1)
<1>1. /\ q \in 0..Len(sent) /\ Len(l) \in Nat /\ Len(sent) \in Nat /\ Limit \in Nat
      /\ Len(l) > Limit
    BY FramingAssumption DEF Covers, Boundary, Fits
<1>2. Plain(sent, q + 1, q + Limit + 1)
    <2> SUFFICES ASSUME NEW i \in (q + 1)..(q + Limit + 1)
                 PROVE  sent[i] # LF
        BY DEF Plain
    <2>1. i - q \in 1..Len(l) /\ q + (i - q) = i
        BY <1>1
    <2> QED
        BY <2>1
<1> QED
    BY <1>1, <1>2

-----------------------------------------------------------------------------
(* Each step of a reader                                                   *)

LEMMA ArrivingIs ==
    ASSUME ReaderInv, NEW chunk \in Arriving
    PROVE  /\ chunk \in Seq(Bytes) /\ Len(chunk) \in Nat /\ taken + Len(chunk) <= Len(sent)
           /\ \A i \in 1..Len(chunk) : chunk[i] = sent[taken + i]
           /\ chunk = <<>> => closed /\ taken = Len(sent)
<1>1. /\ chunk \in Seq(Bytes) /\ Len(chunk) \in Nat /\ taken + Len(chunk) <= Len(sent)
      /\ taken \in Nat
    BY ArrivingFacts, TypeFacts DEF ReaderInv
<1>2. CASE chunk = <<>> /\ closed /\ taken = Len(sent)
    BY <1>1, <1>2
<1>3. ASSUME NEW n \in Nat \ {0}, chunk = SubSeq(sent, taken + 1, taken + n),
             taken + n <= Len(sent)
      PROVE  chunk # <<>> /\ \A i \in 1..Len(chunk) : chunk[i] = sent[taken + i]
    <2> DEFINE e == taken + n
    <2>1. sent \in Seq(Bytes) /\ e \in taken..Len(sent) /\ e - taken = n
        BY <1>1, <1>3, TypeFacts
    <2>2. chunk = SubSeq(sent, taken + 1, e)
        BY <1>3
    <2> HIDE DEF e
    <2>3. Len(chunk) = e - taken /\ \A i \in 1..(e - taken) : chunk[i] = sent[taken + i]
        BY <1>1, <2>1, <2>2, SliceAt
    <2> QED
        BY <2>1, <2>3, EmptySeq
<1>4. \/ chunk = <<>> /\ closed /\ taken = Len(sent)
      \/ \E n \in Nat \ {0} : chunk = SubSeq(sent, taken + 1, taken + n) /\ taken + n <= Len(sent)
    <2> DEFINE most == Min({ChunkSize, Len(sent) - taken})
    <2>1. {ChunkSize, Len(sent) - taken} \in SUBSET Nat
        BY FramingAssumption, TypeFacts
    <2>2. most \in Nat /\ most <= Len(sent) - taken
        BY <2>1, MinimumFacts
    <2>3. \A n \in 1..most : n \in Nat \ {0} /\ taken + n <= Len(sent)
        BY <1>1, <2>2, TypeFacts
    <2>4. \/ chunk \in {SubSeq(sent, taken + 1, taken + n) : n \in 1..most}
          \/ chunk = <<>> /\ closed /\ taken = Len(sent)
        BY DEF Arriving
    <2> HIDE DEF most
    <2> QED
        BY <2>3, <2>4
<1> QED
    BY <1>1, <1>2, <1>3, <1>4

LEMMA CompactIs ==
    ASSUME ReaderInv
    PROVE  /\ Compact(buffer) \in Seq(Bytes) /\ Len(Compact(buffer)) \in Nat
           /\ \A i \in 1..Len(Compact(buffer)) :
                Compact(buffer)[i] = buffer[Len(buffer) - Len(Compact(buffer)) + i]
<1>1. CASE Compact(buffer) = buffer
    BY <1>1, TypeFacts
<1>2. CASE Compact(buffer) = Pending
    BY <1>2, TypeFacts, SMTT(20)
<1> QED
    BY <1>1, <1>2 DEF Compact, Pending

\* A reader that is at the end of the stream holds nothing.
LEMMA AtEndFacts ==
    ASSUME ReaderInv, Held, Position = Len(sent)
    PROVE  /\ Len(line) = 0 /\ Len(Pending) = 0 /\ line = <<>> /\ Pending = <<>>
           /\ taken = Len(sent) /\ consumed = Len(buffer)
<1>1. Len(line) = 0 /\ Len(Pending) = 0 /\ taken = Len(sent) /\ consumed = Len(buffer)
    BY HeldFacts, TypeFacts
<1> QED
    BY <1>1, TypeFacts, EmptySeq

LEMMA TimedFacts ==
    ASSUME ReaderInv, Held, Reading("timed")
    PROVE  /\ line = <<>> /\ Len(line) = 0 /\ status = "Open" /\ reader = "timed"
           /\ UNCHANGED <<sent, closed, reader>>
           /\ Position + Len(Pending) = taken
           /\ \A i \in 1..Len(Pending) : Pending[i] = sent[Position + i]
<1>1. /\ line = <<>> /\ Len(line) = 0 /\ status = "Open" /\ reader = "timed"
      /\ UNCHANGED <<sent, closed, reader>>
    BY DEF Held, Reading, writerVars
<1>2. Position \in Nat /\ Len(Pending) \in Nat
    BY HeldFacts, TypeFacts
<1> QED
    BY <1>1, <1>2, HeldFacts

LEMMA LineFaithful ==
    ASSUME FrameInv, ReaderInv', ExtractLine
    PROVE  FrameInv'
<1> DEFINE length == Delimiter(Pending)
           l == SubSeq(Pending, 1, length)
<1>1. ReaderInv /\ Held /\ Reading("timed") /\ Delimited(Pending) /\ line' = line
    BY DEF FrameInv, ExtractLine
<1>2. /\ line = <<>> /\ Len(line) = 0 /\ status = "Open" /\ reader = "timed"
      /\ UNCHANGED <<sent, closed, reader>>
      /\ Position + Len(Pending) = taken /\ Position \in Nat
      /\ \A i \in 1..Len(Pending) : Pending[i] = sent[Position + i]
    BY <1>1, TimedFacts, HeldFacts
<1>3. /\ sent \in Seq(Bytes) /\ delivered \in Seq(Seq(Bytes)) /\ Pending \in Seq(Bytes)
      /\ taken \in 0..Len(sent) /\ Len(sent) \in Nat /\ Len(Pending) \in Nat
      /\ Len(Pending) = Len(buffer) - consumed
      /\ consumed \in Nat /\ Len(buffer) \in Nat
    BY <1>1, TypeFacts
<1>4. /\ length \in 0..(Len(Pending) - 1)
      /\ Pending[length + 1] = LF /\ Plain(Pending, 1, length)
    BY <1>1, <1>3, DelimiterFacts
<1>5. l \in Seq(Bytes) /\ Len(l) = length /\ \A i \in 1..length : l[i] = Pending[i]
    <2>1. length \in 0..Len(Pending) /\ length - 0 = length
        BY <1>3, <1>4
    <2>2. /\ SubSeq(Pending, 0 + 1, length) \in Seq(Bytes)
          /\ Len(SubSeq(Pending, 0 + 1, length)) = length - 0
          /\ \A i \in 1..(length - 0) : SubSeq(Pending, 0 + 1, length)[i] = Pending[0 + i]
        BY <1>3, <2>1, SliceAt
    <2>3. \A i \in 1..length : 0 + i = i
        OBVIOUS
    <2> QED
        BY <2>1, <2>2, <2>3
<1> HIDE DEF length, l
<1>6. \A i \in 1..Len(l) : l[i] = sent[Position + i] /\ l[i] # LF
    <2>1. \A i \in 1..length : i \in 1..Len(Pending)
        BY <1>3, <1>4
    <2> QED
        BY <1>2, <1>4, <1>5, <2>1 DEF Plain
<1>7. Position + Len(l) + 1 <= Len(sent) /\ sent[Position + Len(l) + 1] = LF
    <2>1. length + 1 \in 1..Len(Pending)
        BY <1>3, <1>4
    <2>2. Position \in Nat /\ length \in Nat
        BY <1>2, <1>4
    <2>3. Position + (length + 1) = Position + length + 1
        BY <2>2
    <2> QED
        BY <1>2, <1>3, <1>4, <1>5, <2>1, <2>3
<1>8. Covers(sent, delivered, Position)
    <2>1. ~ AtEnd
        BY <1>1, <1>3, <1>4, AtEndFacts DEF AtEnd
    <2> QED
        BY <1>2, <2>1 DEF FrameInv, InLines, Stuck
<1>9. CASE Fits(length)
    <2>1. /\ consumed' = consumed + length + 1
          /\ Delivering(Trimmed(l))
          /\ UNCHANGED <<taken, buffer, eof, status>>
        BY <1>9 DEF ExtractLine, length, l
    <2>2. Position' = Position + Len(l) + 1
        BY <1>1, <1>2, <1>3, <1>4, <1>5, <2>1 DEF Position
    <2>3. Covers(sent, delivered', Position + Len(l) + 1)
        BY <1>3, <1>5, <1>6, <1>7, <1>8, <1>9, <2>1, LineReturned
    <2>4. InLines'
        BY <1>2, <2>1, <2>2, <2>3 DEF InLines
    <2>5. Held'
        <3>1. Position' \in Nat
            BY <1>2, <1>4, <1>5, <2>2
        <3>2. \A i \in (consumed' + 1)..Len(buffer) : i \in (consumed + 1)..Len(buffer)
            BY <1>3, <1>4, <2>1
        <3> QED
            BY <1>1, <1>2, <2>1, <3>1, <3>2 DEF Held
    <2> QED
        BY <2>4, <2>5 DEF FrameInv
<1>10. CASE ~ Fits(length)
    <2>1. status' = "Failed" /\ UNCHANGED <<taken, buffer, consumed, eof, delivered>>
        BY <1>10 DEF ExtractLine, length, Fails
    <2>2. Stuck'
        <3>1. Position + Len(l) <= Len(sent) /\ ~ Fits(Len(l))
            BY <1>2, <1>5, <1>7, <1>10, <1>3, <1>4
        <3> QED
            BY <1>2, <1>3, <1>5, <1>6, <1>8, <2>1, <3>1, LineTooLong DEF Stuck
    <2>3. Held'
        BY <1>1, <1>2, <2>1 DEF Held, Position
    <2> QED
        BY <2>2, <2>3 DEF FrameInv
<1> QED
    BY <1>9, <1>10

LEMMA RestFaithful ==
    ASSUME FrameInv, ReaderInv', ExtractRest
    PROVE  FrameInv'
<1>1. ReaderInv /\ Held /\ Reading("timed") /\ ~ Delimited(Pending) /\ line' = line
    BY DEF FrameInv, ExtractRest
<1>2. /\ line = <<>> /\ Len(line) = 0 /\ status = "Open" /\ reader = "timed"
      /\ UNCHANGED <<sent, closed, reader>>
      /\ Position + Len(Pending) = taken /\ Position \in Nat
      /\ \A i \in 1..Len(Pending) : Pending[i] = sent[Position + i]
    BY <1>1, TimedFacts, HeldFacts
<1>3. /\ sent \in Seq(Bytes) /\ delivered \in Seq(Seq(Bytes)) /\ Pending \in Seq(Bytes)
      /\ taken \in 0..Len(sent) /\ Len(sent) \in Nat /\ Len(Pending) \in Nat
      /\ Len(Pending) = Len(buffer) - consumed
      /\ consumed \in Nat /\ Len(buffer) \in Nat
    BY <1>1, TypeFacts
<1>4. \A i \in 1..Len(Pending) : Pending[i] = sent[Position + i] /\ Pending[i] # LF
    BY <1>1, <1>2, <1>3, UndelimitedIs DEF Plain
<1>5. InLines \/ AtEnd
    BY <1>2 DEF FrameInv, Stuck
<1>6. CASE ~ Fits(Len(Pending)) /\ Fails
    <2>1. status' = "Failed" /\ UNCHANGED <<taken, buffer, consumed, eof, delivered>>
        BY <1>6 DEF Fails
    <2>2. ~ AtEnd
        BY <1>1, <1>6, AtEndFacts, FramingAssumption DEF AtEnd, Fits
    <2>3. Covers(sent, delivered, Position) /\ Position + Len(Pending) <= Len(sent)
        BY <1>2, <1>3, <1>5, <2>2 DEF InLines
    <2>4. Stuck'
        BY <1>2, <1>3, <1>4, <1>6, <2>1, <2>3, LineTooLong DEF Stuck
    <2>5. Held'
        BY <1>1, <1>2, <2>1 DEF Held, Position
    <2> QED
        BY <2>4, <2>5 DEF FrameInv
<1>7. CASE /\ Fits(Len(Pending)) /\ eof
           /\ consumed' = Len(buffer)
           /\ Delivering(Pending)
           /\ status' = IF Pending = <<>> THEN "Ended" ELSE status
           /\ UNCHANGED <<taken, buffer, eof>>
    <2>1. closed /\ taken = Len(sent) /\ Position + Len(Pending) = Len(sent)
        BY <1>1, <1>2, <1>7 DEF Held
    <2>2. Position' = Len(sent) /\ Position' = Len(sent')
        BY <1>1, <1>2, <1>3, <1>7, <2>1 DEF Position
    <2>3. Held'
        <3>1. \A i \in (consumed' + 1)..Len(buffer) : FALSE
            BY <1>3, <1>7
        <3> QED
            BY <1>1, <1>2, <1>3, <1>7, <2>1, <2>2, <3>1 DEF Held
    <2>4. status' # "Failed"
        BY <1>2, <1>7
    <2>5. CASE InLines
        <3>1. Covers(sent, delivered, Position) /\ Len(Pending) <= Limit
            BY <1>7, <2>5 DEF InLines, Fits
        <3>2. IF Pending = <<>> THEN Position = Len(sent) /\ delivered' = delivered
              ELSE Rests(sent, delivered')
            BY <1>3, <1>4, <1>7, <2>1, <3>1, RestReturned
        <3>3. InLines' \/ AtEnd'
            BY <1>2, <2>1, <2>2, <2>4, <3>1, <3>2 DEF InLines, AtEnd
        <3> QED
            BY <2>3, <3>3 DEF FrameInv
    <2>6. CASE AtEnd
        <3>1. delivered' = delivered
            BY <1>1, <1>7, <2>6, AtEndFacts DEF AtEnd, Delivering
        <3>2. AtEnd'
            BY <1>2, <2>2, <2>4, <2>6, <3>1 DEF AtEnd
        <3> QED
            BY <2>3, <3>2 DEF FrameInv
    <2> QED
        BY <1>5, <2>5, <2>6
<1> QED
    BY <1>6, <1>7 DEF ExtractRest

LEMMA AfterIs ==
    ASSUME NEW c \in Nat, NEW n \in Nat, NEW i \in (c + 1)..n
    PROVE  i \in 1..n /\ i >= c + 1
OBVIOUS

LEMMA TimedReadFaithful ==
    ASSUME FrameInv, ReaderInv', ReadTimed
    PROVE  FrameInv'
<1>1. /\ ReaderInv /\ Held /\ Reading("timed")
      /\ UNCHANGED <<line, delivered, status>>
    BY DEF FrameInv, ReadTimed
<1>2. PICK chunk \in Arriving :
        /\ buffer' = Compact(buffer) \o chunk
        /\ consumed' = consumed - (Len(buffer) - Len(Compact(buffer)))
        /\ taken' = taken + Len(chunk)
        /\ eof' = (chunk = <<>>)
    BY DEF ReadTimed
<1> DEFINE kept == Compact(buffer)
           dropped == Len(buffer) - Len(kept)
<1>3. /\ kept \in Seq(Bytes) /\ Len(kept) \in Nat
      /\ \A i \in 1..Len(kept) : kept[i] = buffer[dropped + i]
    BY <1>1, CompactIs
<1>4. /\ chunk \in Seq(Bytes) /\ Len(chunk) \in Nat
      /\ \A i \in 1..Len(chunk) : chunk[i] = sent[taken + i]
      /\ chunk = <<>> => closed /\ taken = Len(sent)
    BY <1>1, ArrivingIs
<1>5. /\ line = <<>> /\ status = "Open" /\ reader = "timed"
      /\ UNCHANGED <<sent, closed, reader>>
    BY <1>1, TimedFacts
<1>6. /\ taken \in Nat /\ Len(buffer) \in Nat /\ consumed \in Nat /\ Len(line) \in Nat
      /\ consumed <= Len(buffer)
    BY <1>1, TypeFacts
<1>7. /\ buffer' = kept \o chunk /\ consumed' = consumed - dropped
      /\ taken' = taken + Len(chunk) /\ eof' = (chunk = <<>>)
    BY <1>2
<1>8. dropped \in Int /\ dropped = Len(buffer) - Len(kept)
    BY <1>3, <1>6
<1> HIDE DEF kept, dropped
<1>9. /\ Len(buffer') = Len(kept) + Len(chunk)
      /\ \A i \in 1..(Len(kept) + Len(chunk)) :
            buffer'[i] = IF i <= Len(kept) THEN kept[i] ELSE chunk[i - Len(kept)]
    BY <1>3, <1>4, <1>7, ConcatProperties
<1>10. Position' = Position
    BY <1>1, <1>4, <1>6, <1>7, <1>8, <1>9, <1>3 DEF Position
<1>11. consumed' \in Nat
    BY TypeFacts DEF ReaderInv, TypeOK
<1>12. ASSUME NEW i \in (consumed' + 1)..Len(buffer')
       PROVE  buffer'[i] = sent[taken' - Len(buffer') + i]
    <2>1. i \in 1..(Len(kept) + Len(chunk)) /\ i >= consumed' + 1
        <3>1. Len(buffer') = Len(kept) + Len(chunk) /\ Len(buffer') \in Nat
            BY <1>3, <1>4, <1>9
        <3> QED
            BY <1>11, <3>1, AfterIs
    <2>2. CASE i <= Len(kept)
        <3>1. i \in 1..Len(kept) /\ dropped + i \in (consumed + 1)..Len(buffer)
            BY <1>3, <1>6, <1>7, <1>8, <2>1, <2>2
        <3>2. buffer'[i] = sent[taken - Len(buffer) + (dropped + i)]
            BY <1>1, <1>3, <1>9, <2>1, <2>2, <3>1 DEF Held
        <3>3. taken - Len(buffer) + (dropped + i) = taken' - Len(buffer') + i
            BY <1>3, <1>4, <1>6, <1>7, <1>8, <1>9, <2>1
        <3> QED
            BY <3>2, <3>3
    <2>3. CASE i > Len(kept)
        <3>1. i - Len(kept) \in 1..Len(chunk)
            BY <1>3, <1>4, <2>1, <2>3
        <3>2. buffer'[i] = sent[taken + (i - Len(kept))]
            BY <1>3, <1>4, <1>9, <2>1, <2>3, <3>1
        <3>3. taken + (i - Len(kept)) = taken' - Len(buffer') + i
            BY <1>3, <1>4, <1>6, <1>7, <1>9, <2>1
        <3> QED
            BY <3>2, <3>3
    <2> QED
        BY <1>3, <2>1, <2>2, <2>3
<1>13. eof' => closed' /\ taken' = Len(sent')
    <2>1. CASE chunk = <<>>
        BY <1>4, <1>5, <1>6, <1>7, <2>1
    <2> QED
        BY <1>7, <2>1
<1>14. Held'
    BY <1>1, <1>5, <1>10, <1>12, <1>13 DEF Held
<1>15. InLines' \/ AtEnd' \/ Stuck'
    BY <1>1, <1>5, <1>10 DEF FrameInv, InLines, AtEnd, Stuck
<1> QED
    BY <1>14, <1>15 DEF FrameInv

LEMMA ExecFaithful ==
    ASSUME FrameInv, ReaderInv', Exec
    PROVE  FrameInv'
<1>1. /\ ReaderInv /\ Held /\ Reading("timed") /\ ~ (consumed < Len(buffer))
      /\ buffer' = <<>> /\ consumed' = 0 /\ eof' = FALSE
      /\ UNCHANGED <<taken, line, delivered, status>>
    BY DEF FrameInv, Exec, HasBufferedInput
<1>2. UNCHANGED <<sent, closed, reader>> /\ status = "Open"
    BY <1>1, TimedFacts
<1>3. /\ consumed = Len(buffer) /\ Len(buffer) \in Nat /\ taken \in Nat /\ Len(line) \in Nat
      /\ Len(buffer') = 0
    BY <1>1, TypeFacts
<1>4. Position' = Position
    BY <1>1, <1>3 DEF Position
<1>5. Held'
    BY <1>1, <1>2, <1>3, <1>4 DEF Held
<1>6. InLines' \/ AtEnd' \/ Stuck'
    BY <1>1, <1>2, <1>4 DEF FrameInv, InLines, AtEnd, Stuck
<1> QED
    BY <1>5, <1>6 DEF FrameInv

LEMMA StreamingFacts ==
    ASSUME Reading("streaming")
    PROVE  /\ status = "Open" /\ reader = "streaming" /\ reader # "timed"
           /\ UNCHANGED <<sent, closed, reader>>
BY DEF Reading, writerVars

LEMMA FillFaithful ==
    ASSUME FrameInv, ReaderInv', Fill
    PROVE  FrameInv'
<1>1. ReaderInv /\ Held /\ Reading("streaming") /\ Pending = <<>> /\ eof' = eof
    BY DEF FrameInv, Fill
<1>2. PICK chunk \in Arriving :
        /\ buffer' = chunk /\ consumed' = 0
        /\ taken' = taken + Len(chunk)
        /\ IF chunk = <<>>
           THEN /\ Delivering(line)
                /\ line' = <<>>
                /\ status' = IF line = <<>> THEN "Ended" ELSE status
           ELSE UNCHANGED <<delivered, line, status>>
    BY DEF Fill
<1>3. /\ chunk \in Seq(Bytes) /\ Len(chunk) \in Nat /\ taken + Len(chunk) <= Len(sent)
      /\ \A i \in 1..Len(chunk) : chunk[i] = sent[taken + i]
      /\ chunk = <<>> => closed /\ taken = Len(sent)
    BY <1>1, ArrivingIs
<1>4. /\ status = "Open" /\ reader = "streaming" /\ reader' # "timed"
      /\ UNCHANGED <<sent, closed, reader>>
    BY <1>1, StreamingFacts
<1>5. /\ sent \in Seq(Bytes) /\ delivered \in Seq(Seq(Bytes)) /\ line \in Seq(Bytes)
      /\ Len(line) \in Nat /\ taken \in Nat /\ Len(sent) \in Nat
      /\ consumed \in Nat /\ Len(buffer) = consumed
    <2>1. Len(Pending) = 0
        BY <1>1
    <2> QED
        BY <1>1, <2>1, TypeFacts
<1>6. /\ Position \in Nat /\ Position + Len(line) = taken
      /\ \A i \in 1..Len(line) : line[i] = sent[Position + i] /\ line[i] # LF
    <2>1. Position \in Nat /\ \A i \in 1..Len(line) : line[i] = sent[Position + i] /\ line[i] # LF
        BY <1>1, HeldFacts
    <2>2. Position + Len(line) = taken
        BY <1>5 DEF Position
    <2> QED
        BY <2>1, <2>2
<1>7. InLines \/ AtEnd
    BY <1>4 DEF FrameInv, Stuck
<1>8. Len(line) <= Limit
    BY <1>1 DEF ReaderInv, BoundedMemory
<1>9. CASE chunk = <<>>
    <2>1. /\ Delivering(line) /\ line' = <<>> /\ buffer' = <<>> /\ consumed' = 0
          /\ status' = IF line = <<>> THEN "Ended" ELSE status
          /\ closed /\ taken = Len(sent)
        BY <1>2, <1>3, <1>9
    <2>2. Len(chunk) = 0 /\ Len(buffer') = 0 /\ Len(line') = 0 /\ taken' = taken
        BY <1>2, <1>5, <1>9, <2>1
    <2>3. Position' = Len(sent) /\ Position + Len(line) = Len(sent)
        BY <1>5, <1>6, <2>1, <2>2 DEF Position
    <2>4. Held'
        BY <1>1, <1>4, <1>5, <2>1, <2>2, <2>3 DEF Held
    <2>5. status' # "Failed"
        BY <1>4, <2>1
    <2>6. CASE InLines
        <3>1. Covers(sent, delivered, Position)
            BY <2>6 DEF InLines
        <3>2. IF line = <<>> THEN Position = Len(sent) /\ delivered' = delivered
              ELSE Rests(sent, delivered')
            BY <1>5, <1>6, <1>8, <2>1, <2>3, <3>1, RestReturned
        <3>3. InLines' \/ AtEnd'
            BY <1>4, <2>1, <2>3, <2>5, <3>1, <3>2 DEF InLines, AtEnd
        <3> QED
            BY <2>4, <3>3 DEF FrameInv
    <2>7. CASE AtEnd
        <3>1. delivered' = delivered
            BY <1>1, <2>1, <2>7, AtEndFacts DEF AtEnd, Delivering
        <3>2. AtEnd'
            BY <1>4, <2>3, <2>5, <2>7, <3>1 DEF AtEnd
        <3> QED
            BY <2>4, <3>2 DEF FrameInv
    <2> QED
        BY <1>7, <2>6, <2>7
<1>10. CASE chunk # <<>>
    <2>1. UNCHANGED <<delivered, line, status>>
        BY <1>2, <1>10
    <2>2. Position' = Position
        BY <1>2, <1>3, <1>5, <2>1 DEF Position
    <2>3. \A i \in (consumed' + 1)..Len(buffer') : buffer'[i] = sent'[taken' - Len(buffer') + i]
        <3> SUFFICES ASSUME NEW i \in (consumed' + 1)..Len(buffer')
                     PROVE  buffer'[i] = sent'[taken' - Len(buffer') + i]
            OBVIOUS
        <3>1. i \in 1..Len(chunk) /\ taken' - Len(buffer') + i = taken + i
            BY <1>2, <1>3, <1>5
        <3> QED
            BY <1>2, <1>3, <1>4, <3>1
    <2>4. ~ closed \/ taken # Len(sent)
        <3>1. Len(chunk) # 0
            BY <1>3, <1>10, EmptySeq
        <3> QED
            BY <1>3, <1>5, <3>1
    <2>5. Held'
        BY <1>1, <1>4, <1>6, <2>1, <2>2, <2>3, <2>4 DEF Held
    <2>6. InLines' \/ AtEnd'
        BY <1>4, <1>7, <2>1, <2>2 DEF InLines, AtEnd
    <2> QED
        BY <2>5, <2>6 DEF FrameInv
<1> QED
    BY <1>9, <1>10

LEMMA ConsumeFaithful ==
    ASSUME FrameInv, ReaderInv', Consume
    PROVE  FrameInv'
<1> DEFINE payload == IF Delimited(Pending)
                      THEN SubSeq(Pending, 1, Delimiter(Pending)) ELSE Pending
           l == line \o payload
<1>1. ReaderInv /\ Held /\ Reading("streaming") /\ Pending # <<>>
    BY DEF FrameInv, Consume
<1>2. /\ status = "Open" /\ reader = "streaming" /\ reader' # "timed"
      /\ UNCHANGED <<sent, closed, reader>>
    BY <1>1, StreamingFacts
<1>3. /\ sent \in Seq(Bytes) /\ delivered \in Seq(Seq(Bytes)) /\ line \in Seq(Bytes)
      /\ Len(line) \in Nat /\ taken \in 0..Len(sent) /\ Len(sent) \in Nat
      /\ consumed \in Nat /\ Len(buffer) \in Nat
      /\ Pending \in Seq(Bytes) /\ Len(Pending) = Len(buffer) - consumed /\ Len(Pending) \in Nat
    BY <1>1, TypeFacts
<1>4. /\ Position \in Nat
      /\ Position + Len(line) + Len(Pending) = taken
      /\ \A i \in 1..Len(line) : line[i] = sent[Position + i] /\ line[i] # LF
      /\ \A i \in 1..Len(Pending) : Pending[i] = sent[Position + Len(line) + i]
    BY <1>1, HeldFacts
<1>5. Covers(sent, delivered, Position)
    <2>1. ~ AtEnd
        BY <1>1, AtEndFacts DEF AtEnd
    <2> QED
        BY <1>2, <2>1 DEF FrameInv, InLines, Stuck
<1>6. /\ payload \in Seq(Bytes) /\ Len(payload) \in Nat /\ Len(payload) <= Len(Pending)
      /\ \A i \in 1..Len(payload) : payload[i] = Pending[i] /\ payload[i] # LF
      /\ Delimited(Pending) => /\ Len(payload) + 1 <= Len(Pending)
                               /\ Pending[Len(payload) + 1] = LF
    <2>1. CASE Delimited(Pending)
        <3> DEFINE length == Delimiter(Pending)
        <3>1. /\ length \in 0..(Len(Pending) - 1)
              /\ Pending[length + 1] = LF /\ Plain(Pending, 1, length)
            BY <1>3, <2>1, DelimiterFacts
        <3> HIDE DEF length
        <3>2. 1 \in 1..(Len(Pending) + 1) /\ length \in 0..Len(Pending) /\ length - 0 = length
            BY <1>3, <3>1
        <3>3. /\ SubSeq(Pending, 0 + 1, length) \in Seq(Bytes)
              /\ Len(SubSeq(Pending, 0 + 1, length)) = length - 0
              /\ \A i \in 1..(length - 0) : SubSeq(Pending, 0 + 1, length)[i] = Pending[0 + i]
            BY <1>3, <3>2, SliceAt
        <3>4. payload = SubSeq(Pending, 1, length)
            BY <2>1 DEF length
        <3> HIDE DEF payload
        <3>6. 0 + 1 = 1 /\ \A i \in 1..length : 0 + i = i
            OBVIOUS
        <3>5. payload \in Seq(Bytes) /\ Len(payload) = length
              /\ \A i \in 1..length : payload[i] = Pending[i]
            BY <3>2, <3>3, <3>4, <3>6
        <3> QED
            BY <1>3, <3>1, <3>2, <3>5 DEF Plain
    <2>2. CASE ~ Delimited(Pending)
        BY <1>3, <2>2, UndelimitedIs DEF Plain
    <2> QED
        BY <2>1, <2>2
<1>7. Consume => IF ~ Fits(Len(line) + Len(payload))
                 THEN Fails /\ line' = <<>>
                 ELSE /\ IF Delimited(Pending)
                         THEN /\ consumed' = consumed + Len(payload) + 1
                              /\ Delivering(Trimmed(l))
                              /\ line' = <<>>
                         ELSE /\ consumed' = consumed + Len(payload)
                              /\ line' = l
                              /\ UNCHANGED delivered
                      /\ UNCHANGED <<taken, buffer, eof, status>>
    BY DEF Consume
<1> HIDE DEF payload
<1>8. /\ l \in Seq(Bytes) /\ Len(l) = Len(line) + Len(payload) /\ Len(l) \in Nat
      /\ \A i \in 1..(Len(line) + Len(payload)) :
            l[i] = IF i <= Len(line) THEN line[i] ELSE payload[i - Len(line)]
    BY <1>3, <1>6, ConcatProperties
<1> HIDE DEF l
<1>9. \A i \in 1..Len(l) : l[i] = sent[Position + i] /\ l[i] # LF
    <2> SUFFICES ASSUME NEW i \in 1..Len(l)
                 PROVE  l[i] = sent[Position + i] /\ l[i] # LF
        OBVIOUS
    <2>1. CASE i <= Len(line)
        <3>1. i \in 1..Len(line)
            BY <1>3, <2>1
        <3> QED
            BY <1>4, <1>8, <2>1, <3>1
    <2>2. CASE i > Len(line)
        <3> DEFINE j == i - Len(line)
        <3>1. j \in 1..Len(payload) /\ j \in 1..Len(Pending)
              /\ Position + Len(line) + j = Position + i
            BY <1>3, <1>4, <1>6, <1>8, <2>2
        <3>2. l[i] = payload[j]
            BY <1>3, <1>8, <2>2
        <3> HIDE DEF j
        <3> QED
            BY <1>4, <1>6, <3>1, <3>2
    <2> QED
        BY <1>3, <2>1, <2>2
<1>10. Position + Len(l) <= Len(sent)
    BY <1>3, <1>4, <1>6, <1>8
<1>11. CASE ~ Fits(Len(line) + Len(payload))
    <2>1. /\ status' = "Failed" /\ line' = <<>>
          /\ UNCHANGED <<taken, buffer, consumed, eof, delivered>>
        BY <1>7, <1>11 DEF Fails
    <2>2. Stuck'
        BY <1>2, <1>3, <1>5, <1>8, <1>9, <1>10, <1>11, <2>1, LineTooLong DEF Stuck
    <2>3. Len(line') = 0 /\ Position' \in Nat
        <3>1. Len(line') = 0
            BY <2>1
        <3>2. Position' = Position + Len(line)
            BY <1>3, <2>1, <3>1 DEF Position
        <3> QED
            BY <1>3, <1>4, <3>1, <3>2
    <2>4. Held'
        BY <1>1, <1>2, <2>1, <2>3 DEF Held
    <2> QED
        BY <2>2, <2>4 DEF FrameInv
<1>12. CASE Fits(Len(line) + Len(payload)) /\ Delimited(Pending)
    <2>1. /\ consumed' = consumed + Len(payload) + 1
          /\ Delivering(Trimmed(l)) /\ line' = <<>>
          /\ UNCHANGED <<taken, buffer, eof, status>>
        BY <1>7, <1>12
    <2>2. Position + Len(l) + 1 <= Len(sent) /\ sent[Position + Len(l) + 1] = LF
        <3> DEFINE j == Len(payload) + 1
        <3>1. /\ j \in 1..Len(Pending) /\ Pending[j] = LF
              /\ Position + Len(line) + j = Position + Len(l) + 1
            BY <1>3, <1>4, <1>6, <1>8, <1>12
        <3> HIDE DEF j
        <3>2. Position + Len(line) + j <= Len(sent)
            BY <1>3, <1>4, <3>1
        <3>3. sent[Position + Len(line) + j] = LF
            BY <1>4, <3>1
        <3> QED
            BY <3>1, <3>2, <3>3
    <2>3. Covers(sent, delivered', Position + Len(l) + 1)
        BY <1>3, <1>5, <1>8, <1>9, <1>12, <2>1, <2>2, LineReturned
    <2>4. Len(line') = 0 /\ Position' = Position + Len(l) + 1
        BY <1>3, <1>4, <1>6, <1>8, <2>1 DEF Position
    <2>5. InLines'
        BY <1>2, <2>1, <2>3, <2>4 DEF InLines
    <2>6. Held'
        <3>1. \A i \in (consumed' + 1)..Len(buffer) : i \in (consumed + 1)..Len(buffer)
            BY <1>3, <1>6, <2>1
        <3>2. Position' \in Nat
            BY <1>4, <1>8, <2>4
        <3> QED
            BY <1>1, <1>2, <2>1, <2>4, <3>1, <3>2 DEF Held
    <2> QED
        BY <2>5, <2>6 DEF FrameInv
<1>13. CASE Fits(Len(line) + Len(payload)) /\ ~ Delimited(Pending)
    <2>1. /\ consumed' = consumed + Len(payload) /\ line' = l
          /\ UNCHANGED <<taken, buffer, eof, status, delivered>>
        BY <1>7, <1>13
    <2>2. Position' = Position
        <3>1. Len(line') = Len(line) + Len(payload)
            BY <1>8, <2>1
        <3> QED
            BY <1>3, <1>6, <2>1, <3>1 DEF Position
    <2>3. InLines'
        BY <1>2, <1>5, <2>1, <2>2 DEF InLines
    <2>4. Held'
        <3>1. \A i \in (consumed' + 1)..Len(buffer) : i \in (consumed + 1)..Len(buffer)
            BY <1>3, <1>6, <2>1
        <3> QED
            BY <1>1, <1>2, <1>4, <1>9, <2>1, <2>2, <3>1 DEF Held
    <2> QED
        BY <2>3, <2>4 DEF FrameInv
<1> QED
    BY <1>11, <1>12, <1>13

-----------------------------------------------------------------------------
(* Each step of the writer                                                 *)

\* Unless another writer has been at it, the stream is what was written.
Recorded ==
    ~ foreign => \/ Covers(sent, written, Len(sent))
                 \/ closed /\ Rests(sent, written)

StreamInv == FrameInv /\ Recorded

\* Bytes that are written change nothing of what has been read.
LEMMA WritesFaithful ==
    ASSUME FrameInv, ReaderInv', NEW bytes \in Seq(Bytes), Writes(bytes)
    PROVE  FrameInv'
<1>1. /\ ReaderInv /\ Held /\ ~ closed /\ sent' = sent \o bytes
      /\ UNCHANGED <<reader, taken, buffer, consumed, eof, line, delivered, status>>
    BY DEF FrameInv, Writes, readerVars
<1>2. /\ sent \in Seq(Bytes) /\ Len(sent) \in Nat /\ taken \in 0..Len(sent)
      /\ buffer \in Seq(Bytes) /\ Len(buffer) \in Nat /\ consumed \in 0..Len(buffer)
      /\ Len(line) \in Nat
    BY <1>1, TypeFacts
<1>3. /\ Len(sent') = Len(sent) + Len(bytes) /\ Len(bytes) \in Nat
      /\ \A i \in 1..Len(sent) : sent'[i] = sent[i]
    BY <1>1, <1>2, ConcatProperties
<1>4. Position' = Position /\ Position \in Nat
    BY <1>1, HeldFacts DEF Position
<1>5. \A i \in (consumed + 1)..Len(buffer) : buffer[i] = sent'[taken - Len(buffer) + i]
    <2> SUFFICES ASSUME NEW i \in (consumed + 1)..Len(buffer)
                 PROVE  buffer[i] = sent'[taken - Len(buffer) + i]
        OBVIOUS
    <2>1. buffer[i] = sent[taken - Len(buffer) + i]
        BY <1>1 DEF Held
    <2>2. taken - Len(buffer) + i \in 1..Len(sent)
        <3>1. taken - (Len(buffer) - consumed) >= 0
            BY <1>2, <1>4 DEF Position
        <3> QED
            BY <1>2, <3>1
    <2> QED
        BY <1>3, <2>1, <2>2
<1>6. \A i \in 1..Len(line) : line[i] = sent'[Position + i] /\ line[i] # LF
    <2> SUFFICES ASSUME NEW i \in 1..Len(line)
                 PROVE  line[i] = sent'[Position + i] /\ line[i] # LF
        OBVIOUS
    <2>1. line[i] = sent[Position + i] /\ line[i] # LF
        BY <1>1, HeldFacts
    <2>2. Position + Len(line) <= taken
        BY <1>1, <1>2, HeldFacts, TypeFacts
    <2>3. Position + i \in 1..Len(sent)
        BY <1>2, <1>4, <2>2
    <2> QED
        BY <1>3, <2>1, <2>3
<1>7. ~ eof /\ status # "Ended"
    BY <1>1 DEF Held
<1>8. Held'
    BY <1>1, <1>4, <1>5, <1>6, <1>7 DEF Held
<1>9. InLines => InLines'
    BY <1>1, <1>2, <1>4, CoversStays DEF InLines
<1>10. Stuck => Stuck'
    <2> SUFFICES ASSUME Stuck
                 PROVE  Stuck'
        OBVIOUS
    <2>1. PICK q \in 0..Len(sent) :
            /\ Covers(sent, delivered, q)
            /\ q + Limit + 1 <= Len(sent) /\ Plain(sent, q + 1, q + Limit + 1)
        BY DEF Stuck
    <2>2. Covers(sent', delivered', q)
        BY <1>1, <1>2, <2>1, CoversStays
    <2>3. q \in 0..Len(sent') /\ q + Limit + 1 <= Len(sent') /\ Limit \in Nat
        BY <1>2, <1>3, <2>1, FramingAssumption
    <2>4. Plain(sent', q + 1, q + Limit + 1)
        <3>1. \A i \in (q + 1)..(q + Limit + 1) : i \in 1..Len(sent)
            BY <1>2, <2>1, <2>3
        <3> QED
            BY <1>3, <2>1, <3>1 DEF Plain
    <2>5. status' = "Failed"
        BY <1>1 DEF Stuck
    <2> QED
        BY <2>2, <2>3, <2>4, <2>5 DEF Stuck
<1> QED
    BY <1>1, <1>8, <1>9, <1>10 DEF FrameInv, AtEnd

\* What write_frame writes is a line that reads as the payload.
LEMMA FrameRecorded ==
    ASSUME StreamInv, NEW payload \in Seq(Bytes), WriteFrame(payload)
    PROVE  Recorded'
<1>1. /\ payload # <<>> /\ Fits(Len(payload)) /\ ~ Delimited(payload) /\ Last(payload) # CR
      /\ ~ closed /\ sent' = sent \o Append(payload, LF)
      /\ written' = Append(written, payload) /\ UNCHANGED <<closed, foreign>>
    BY DEF WriteFrame, ValidPayload, Writes
<1>2. sent \in Seq(Bytes) /\ Len(sent) \in Nat /\ written \in Seq(Seq(Bytes))
      /\ Len(payload) \in Nat /\ Len(payload) <= Limit /\ Limit \in Nat
    BY <1>1, TypeFacts DEF StreamInv, FrameInv, ReaderInv, TypeOK, Fits
<1>3. CASE foreign
    BY <1>1, <1>3 DEF Recorded
<1>4. CASE ~ foreign
    <2> DEFINE tail == Append(payload, LF)
               s == sent \o tail
               q == Len(sent)
               e == Len(s)
    <2>1. Covers(sent, written, q)
        BY <1>1, <1>4 DEF StreamInv, Recorded
    <2>2. /\ tail \in Seq(Bytes) /\ Len(tail) = Len(payload) + 1
          /\ tail[Len(payload) + 1] = LF
          /\ \A i \in 1..Len(payload) : tail[i] = payload[i]
        <3>1. LF \in Bytes
            BY DEF Bytes
        <3> QED
            BY <3>1, AppendProperties
    <2> HIDE DEF tail
    <2>3. /\ s \in Seq(Bytes) /\ Len(s) = Len(sent) + Len(tail)
          /\ \A i \in 1..(Len(sent) + Len(tail)) :
                s[i] = IF i <= Len(sent) THEN sent[i] ELSE tail[i - Len(sent)]
        BY <1>2, <2>2, ConcatProperties
    <2>4. Covers(s, written, q)
        BY <1>2, <2>1, <2>2, CoversStays
    <2> HIDE DEF s
    <2>5. \A i \in 1..Len(tail) : s[q + i] = tail[i]
        <3> SUFFICES ASSUME NEW i \in 1..Len(tail)
                     PROVE  s[q + i] = tail[i]
            OBVIOUS
        <3>1. /\ q + i \in 1..(Len(sent) + Len(tail)) /\ ~ (q + i <= Len(sent))
              /\ q + i - Len(sent) = i
            BY <1>2, <2>2
        <3> QED
            BY <2>3, <3>1
    <2>6. /\ e = q + Len(payload) + 1 /\ e \in (q + 1)..Len(s) /\ e - 1 = q + Len(payload)
          /\ e - 1 - q <= Limit
        BY <1>2, <2>2, <2>3
    <2>7. \A i \in 1..Len(payload) : s[q + i] = payload[i]
        <3>1. \A i \in 1..Len(payload) : i \in 1..Len(tail)
            BY <1>2, <2>2
        <3> QED
            BY <2>2, <2>5, <3>1
    <2>8. s[e] = LF
        <3>1. Len(payload) + 1 \in 1..Len(tail) /\ q + (Len(payload) + 1) = e
            BY <1>2, <2>2, <2>6
        <3> QED
            BY <2>2, <2>5, <3>1
    <2>9. Plain(s, q + 1, e - 1)
        <3> SUFFICES ASSUME NEW i \in (q + 1)..(e - 1)
                     PROVE  s[i] # LF
            BY DEF Plain
        <3>1. i - q \in 1..Len(payload) /\ q + (i - q) = i
            BY <1>2, <2>6
        <3>2. payload[i - q] # LF
            BY <1>1, <3>1, UndelimitedIs DEF Plain
        <3> QED
            BY <2>7, <3>1, <3>2
    <2>10. payload = SubSeq(s, q + 1, q + Len(payload))
        <3>1. q + Len(payload) <= Len(s)
            BY <1>2, <2>2, <2>3
        <3> QED
            BY <1>2, <2>3, <2>7, <3>1, SliceIs
    <2> HIDE DEF e, q
    <2>11. /\ LineAt(s, e) = SubSeq(s, q + 1, e - 1)
           /\ Covers(s, IF FrameAt(s, e) = <<>> THEN written
                        ELSE Append(written, FrameAt(s, e)), e)
        <3>1. s \in Seq(Bytes) /\ e \in (q + 1)..Len(s) /\ e - 1 - q <= Limit
            BY <2>3, <2>6
        <3> HIDE <2>3, <2>6
        <3> QED
            BY <1>2, <2>4, <2>8, <2>9, <3>1, CoversLine
    <2>12. FrameAt(s, e) = payload
        BY <1>1, <2>6, <2>10, <2>11 DEF FrameAt
    <2> QED
        BY <1>1, <2>11, <2>12 DEF Recorded, s, e, tail
<1> QED
    BY <1>3, <1>4

\* What there is of a cut frame is the last of the stream.
LEMMA CutRecorded ==
    ASSUME StreamInv, NEW payload \in Seq(Bytes), NEW length \in 1..Limit,
           WriteCut(payload, length)
    PROVE  Recorded'
<1> DEFINE cut == SubSeq(payload, 1, length)
           s == sent \o cut
           q == Len(sent)
<1>1. /\ ~ Delimited(payload) /\ length \in 1..Len(payload)
      /\ ~ closed /\ sent' = s
      /\ written' = Append(written, cut) /\ closed' = TRUE /\ UNCHANGED foreign
    BY DEF WriteCut, ValidPayload, Writes
<1>2. /\ sent \in Seq(Bytes) /\ q \in Nat /\ written \in Seq(Seq(Bytes))
      /\ Len(payload) \in Nat /\ Limit \in Nat /\ length \in Nat
    BY TypeFacts DEF StreamInv, FrameInv, ReaderInv, TypeOK
<1>3. CASE foreign
    BY <1>1, <1>3 DEF Recorded
<1>4. CASE ~ foreign
    <2>1. Covers(sent, written, q)
        BY <1>1, <1>4 DEF StreamInv, Recorded
    <2>2. cut \in Seq(Bytes) /\ Len(cut) = length /\ \A i \in 1..length : cut[i] = payload[i]
        <3>1. \A i \in 1..length : payload[i] \in Bytes
            BY <1>1
        <3>2. /\ cut \in Seq(Bytes)
              /\ Len(cut) = IF 1 <= length THEN length - 1 + 1 ELSE 0
              /\ \A i \in 1..(length - 1 + 1) : cut[i] = payload[1 + i - 1]
            BY <1>2, <3>1, SubSeqProperties
        <3> QED
            BY <1>2, <3>2
    <2>3. \A i \in 1..length : cut[i] # LF
        <3>1. \A i \in 1..length : i \in 1..Len(payload)
            BY <1>1, <1>2
        <3> QED
            BY <1>1, <2>2, <3>1, UndelimitedIs DEF Plain
    <2> HIDE DEF cut
    <2>4. /\ s \in Seq(Bytes) /\ Len(s) = q + length
          /\ \A i \in 1..(q + length) : s[i] = IF i <= q THEN sent[i] ELSE cut[i - q]
        BY <1>2, <2>2, ConcatProperties
    <2>5. Covers(s, written, q)
        BY <1>2, <2>1, <2>2, CoversStays
    <2> HIDE DEF s, q
    <2>6. \A i \in 1..length : s[q + i] = cut[i]
        <3> SUFFICES ASSUME NEW i \in 1..length
                     PROVE  s[q + i] = cut[i]
            OBVIOUS
        <3> DEFINE k == q + i
        <3>1. k \in 1..(q + length) /\ ~ (k <= q) /\ k - q = i
            BY <1>2
        <3> HIDE DEF k
        <3>2. s[k] = cut[i]
            BY <2>4, <3>1
        <3> QED
            BY <3>2 DEF k
    <2>7. Plain(s, q + 1, Len(s))
        <3> SUFFICES ASSUME NEW i \in (q + 1)..Len(s)
                     PROVE  s[i] # LF
            BY DEF Plain
        <3>1. i - q \in 1..length /\ q + (i - q) = i
            BY <1>2, <2>4
        <3> QED
            BY <2>3, <2>6, <3>1
    <2>8. cut = SubSeq(s, q + 1, Len(s))
        BY <1>2, <2>2, <2>4, <2>6, SliceIs
    <2>9. q \in 0..(Len(s) - 1) /\ Len(s) - q <= Limit
        BY <1>1, <1>2, <2>4
    <2>10. Rests(s, Append(written, cut))
        BY <1>2, <2>5, <2>7, <2>8, <2>9 DEF Rests
    <2> QED
        BY <1>1, <2>10 DEF Recorded
<1> QED
    BY <1>3, <1>4

LEMMA StreamNext ==
    ASSUME StreamInv, [Next]_vars
    PROVE  StreamInv'
<1>1. FrameInv /\ Recorded /\ ReaderInv
    BY DEF StreamInv, FrameInv
<1>2. ReaderInv'
    BY <1>1, NextBounded
<1>3. ASSUME NEW payload \in Payloads, WriteFrame(payload)
      PROVE  StreamInv'
    <2>1. payload \in Seq(Bytes) /\ LF \in Bytes
        BY PayloadType DEF Bytes
    <2>2. Append(payload, LF) \in Seq(Bytes) /\ Writes(Append(payload, LF))
        BY <1>3, <2>1, AppendProperties DEF WriteFrame
    <2> QED
        BY <1>1, <1>2, <1>3, <2>1, <2>2, WritesFaithful, FrameRecorded DEF StreamInv
<1>4. ASSUME NEW payload \in Payloads, NEW length \in 1..Limit, WriteCut(payload, length)
      PROVE  StreamInv'
    <2>1. payload \in Seq(Bytes) /\ length \in 1..Len(payload)
        BY <1>4, PayloadType DEF WriteCut
    <2>2. 1 \in 1..(Len(payload) + 1) /\ length \in 0..Len(payload)
        BY <2>1
    <2>3. SubSeq(payload, 1, length) \in Seq(Bytes) /\ Writes(SubSeq(payload, 1, length))
        BY <1>4, <2>1, <2>2, SliceFacts DEF WriteCut
    <2> QED
        BY <1>1, <1>2, <1>4, <2>1, <2>3, WritesFaithful, CutRecorded DEF StreamInv
<1>5. ASSUME NEW byte \in Bytes, WriteByte(byte)
      PROVE  StreamInv'
    <2>1. <<byte>> \in Seq(Bytes) /\ Writes(<<byte>>) /\ foreign' = TRUE
        BY <1>5 DEF WriteByte
    <2> QED
        BY <1>1, <1>2, <2>1, WritesFaithful DEF StreamInv, Recorded
<1>6. CASE Close
    <2>1. /\ closed' = TRUE
          /\ UNCHANGED <<sent, written, foreign, reader, taken, buffer, consumed, eof,
                         line, delivered, status>>
        BY <1>6 DEF Close, readerVars
    <2>2. Held'
        BY <1>1, <2>1 DEF FrameInv, Held, Position
    <2>3. InLines' \/ AtEnd' \/ Stuck'
        BY <1>1, <2>1 DEF FrameInv, InLines, AtEnd, Stuck, Position
    <2>4. Recorded'
        BY <1>1, <2>1 DEF Recorded
    <2> QED
        BY <1>2, <2>2, <2>3, <2>4 DEF StreamInv, FrameInv
<1>7. CASE Read \/ Exec
    <2>1. UNCHANGED <<sent, closed, written, foreign>>
        BY <1>7 DEF Read, Exec, ExtractLine, ExtractRest, ReadTimed, Fill, Consume, Reading,
           writerVars
    <2>2. FrameInv'
        BY <1>1, <1>2, <1>7, LineFaithful, RestFaithful, TimedReadFaithful, FillFaithful,
           ConsumeFaithful, ExecFaithful DEF Read
    <2> QED
        BY <1>1, <2>1, <2>2 DEF StreamInv, Recorded
<1>8. CASE UNCHANGED vars
    <2>1. UNCHANGED <<sent, closed, written, foreign, reader, taken, buffer, consumed, eof,
                      line, delivered, status>>
        BY <1>8 DEF vars, writerVars, readerVars
    <2> QED
        BY <1>1, <1>2, <2>1 DEF StreamInv, FrameInv, Recorded, Held, InLines, AtEnd, Stuck,
           Position
<1> QED
    BY <1>3, <1>4, <1>5, <1>6, <1>7, <1>8 DEF Next, Writer

LEMMA StreamInit == Init => StreamInv
<1> SUFFICES ASSUME Init
             PROVE  StreamInv
    OBVIOUS
<1>1. /\ sent = <<>> /\ ~ closed /\ written = <<>> /\ taken = 0 /\ buffer = <<>>
      /\ consumed = 0 /\ eof = FALSE /\ line = <<>> /\ delivered = <<>> /\ status = "Open"
    BY DEF Init
<1>2. Len(sent) = 0 /\ Len(buffer) = 0 /\ Len(line) = 0 /\ sent \in Seq(Bytes)
    BY <1>1, NoBytes
<1>3. Position = 0
    <2>1. taken = 0 /\ Len(buffer) = 0 /\ consumed = 0 /\ Len(line) = 0
        BY <1>1, <1>2
    <2> QED
        BY <2>1 DEF Position
<1>4. Covers(sent, <<>>, 0)
    BY <1>1, <1>2, CoversNothing
<1>5. Held
    BY <1>1, <1>2, <1>3 DEF Held
<1>6. InLines /\ Recorded
    BY <1>1, <1>2, <1>3, <1>4 DEF InLines, Recorded
<1> QED
    BY <1>5, <1>6, InitBounded DEF StreamInv, FrameInv

LEMMA StreamFaithful == StreamInv => Faithful
<1> SUFFICES ASSUME StreamInv
             PROVE  Faithful
    OBVIOUS
<1>1. /\ ReaderInv /\ Held /\ (InLines \/ AtEnd \/ Stuck)
      /\ sent \in Seq(Bytes) /\ delivered \in Seq(Seq(Bytes)) /\ closed \in BOOLEAN
    BY TypeFacts DEF StreamInv, FrameInv
<1>2. CASE InLines
    <2>1. status # "Failed" /\ Covers(sent, delivered, Position)
        BY <1>2 DEF InLines
    <2>2. IsPrefix(delivered, FramesOf(sent, closed))
        BY <1>1, <2>1, CoversPrefix
    <2>3. status = "Ended" => closed /\ ~ Overruns(sent) /\ delivered = FramesOf(sent, TRUE)
        BY <1>1, <2>1, CoversWhole DEF Held
    <2> QED
        BY <2>1, <2>2, <2>3 DEF Faithful
<1>3. CASE AtEnd
    <2>1. status # "Failed" /\ closed /\ Rests(sent, delivered)
        BY <1>3 DEF AtEnd
    <2>2. FramesOf(sent, TRUE) = delivered /\ ~ Overruns(sent)
        BY <1>1, <2>1, RestsWhole
    <2>3. IsPrefix(delivered, FramesOf(sent, closed))
        <3>1. closed = TRUE /\ Len(delivered) \in Nat
            BY <1>1, <2>1
        <3>2. FramesOf(sent, closed) = delivered
            BY <2>2, <3>1
        <3> QED
            BY <3>1, <3>2 DEF IsPrefix
    <2> QED
        BY <2>1, <2>2, <2>3 DEF Faithful
<1>4. CASE Stuck
    <2>1. PICK q \in 0..Len(sent) :
            /\ Covers(sent, delivered, q)
            /\ q + Limit + 1 <= Len(sent) /\ Plain(sent, q + 1, q + Limit + 1)
        BY <1>4 DEF Stuck
    <2>2. Overruns(sent) /\ delivered = FramesOf(sent, FALSE)
        BY <1>1, <2>1, CoversOverrun, FramesOfAll
    <2>3. IsPrefix(delivered, FramesOf(sent, closed))
        BY <1>1, <2>1, CoversPrefix
    <2>4. status = "Failed"
        BY <1>4 DEF Stuck
    <2> QED
        BY <2>2, <2>3, <2>4 DEF Faithful
<1> QED
    BY <1>1, <1>2, <1>3, <1>4

LEMMA StreamRoundTrip == StreamInv => RoundTrip
<1> SUFFICES ASSUME StreamInv, ~ foreign
             PROVE  /\ IsPrefix(delivered, written)
                    /\ status # "Failed"
                    /\ status = "Ended" => delivered = written
    BY DEF RoundTrip
<1>1. /\ Recorded /\ sent \in Seq(Bytes) /\ closed \in BOOLEAN
      /\ written \in Seq(Seq(Bytes))
    BY TypeFacts DEF StreamInv, FrameInv, ReaderInv, TypeOK
<1>2. /\ IsPrefix(delivered, FramesOf(sent, closed))
      /\ status = "Failed" => Overruns(sent)
      /\ status = "Ended" => closed /\ delivered = FramesOf(sent, TRUE)
    BY StreamFaithful DEF Faithful
<1>3. FramesOf(sent, closed) = written /\ ~ Overruns(sent)
    <2>1. CASE Covers(sent, written, Len(sent))
        BY <1>1, <2>1, CoversWhole
    <2>2. CASE closed /\ Rests(sent, written)
        BY <1>1, <2>2, RestsWhole
    <2> QED
        BY <1>1, <2>1, <2>2 DEF Recorded
<1> QED
    BY <1>1, <1>2, <1>3

\* Both readers return exactly the frames of the stream, in order, wherever its
\* reads cut it, across time-outs and replacements of the process, for every
\* limit, size of a read and stream.
THEOREM FramesFaithful == Spec => []Faithful
BY StreamInit, StreamNext, StreamFaithful, PTL DEF Spec

\* What write_frame accepts reads as it was given, whatever the payloads are
\* and wherever the writer dies.
THEOREM FramesRoundTrip == Spec => []RoundTrip
BY StreamInit, StreamNext, StreamRoundTrip, PTL DEF Spec
=============================================================================
