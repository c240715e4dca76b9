---------------------------- MODULE FrameReader ----------------------------
(***************************************************************************)
(* Line-delimited framing of src/crates/libmcp/src/jsonrpc.rs: one byte    *)
(* stream from a writer to a reader, which turns it back into frames while *)
(* it arrives in pieces of any size.                                       *)
(*                                                                         *)
(* There are two readers.  The timed one (TimedFrameReader) keeps what it  *)
(* has read across calls; consumed counts the bytes of buffer it has       *)
(* handed out.  The streaming one (read_frame and read_frame_blocking,     *)
(* over a BufReader) keeps a frame that is not complete yet in line; there *)
(* buffer and consumed are those of the BufReader.                         *)
(*                                                                         *)
(* The writer is a peer that calls write_frame, or any other one.          *)
(***************************************************************************)
EXTENDS Integers, Sequences, FiniteSets, SequencesExt

CONSTANTS
    Limit,        \* FrameLimit: bytes of a line, the delimiter apart
    ChunkSize,    \* the most bytes one read returns
    CompactAt,    \* the 8 KiB at which consumed bytes are dropped
    StreamBound   \* how many bytes are sent

ASSUME FramingAssumption ==
    /\ {Limit, ChunkSize, CompactAt} \subseteq Nat \ {0}
    /\ StreamBound \in Nat

VARIABLES
    sent,       \* all bytes written to the stream
    closed,     \* whether the writer has closed it
    written,    \* the payloads given to write_frame
    foreign,    \* whether some bytes were not written by write_frame
    reader,     \* which of the two reads
    taken,      \* how many bytes have left the kernel's stream
    buffer, consumed, eof, line,
    delivered,  \* the frames returned
    status      \* how reading goes

writerVars == <<sent, closed, written, foreign>>
readerVars == <<taken, buffer, consumed, eof, line, delivered, status>>
vars == <<writerVars, reader, readerVars>>

LF == "LF"
CR == "CR"
Bytes == {"x", CR, LF}

Readers == {"timed", "streaming"}

Init ==
    /\ sent = <<>> /\ closed = FALSE
    /\ written = <<>> /\ foreign = FALSE
    /\ reader \in Readers
    /\ taken = 0
    /\ buffer = <<>> /\ consumed = 0 /\ eof = FALSE /\ line = <<>>
    /\ delivered = <<>>
    /\ status = "Open"

-----------------------------------------------------------------------------
(* Lines                                                                   *)

Delimiters(s) == {i \in DOMAIN s : s[i] = LF}

Delimited(s) == Delimiters(s) # {}

\* The position of the first delimiter, which is the length of the line.
Delimiter(s) == Min(Delimiters(s)) - 1

\* Mutant: the carriage return is part of the frame.
Untrimmed(l) == l

Trimmed(l) == IF l # <<>> /\ Last(l) = CR THEN Front(l) ELSE l

\* A blank line is no frame.
Delivering(frame) ==
    delivered' = IF frame = <<>> THEN delivered ELSE Append(delivered, frame)

Fits(length) == length <= Limit

Pending == SubSeq(buffer, consumed + 1, Len(buffer))

\* Mutant: the error is swallowed.
FailsSilently == UNCHANGED <<taken, buffer, consumed, eof, delivered, status>>

Fails ==
    /\ status' = "Failed"
    /\ UNCHANGED <<taken, buffer, consumed, eof, delivered>>

-----------------------------------------------------------------------------
(* The writer                                                              *)

Writes(bytes) ==
    /\ ~ closed
    /\ Len(sent) + Len(bytes) <= StreamBound
    /\ sent' = sent \o bytes
    /\ UNCHANGED <<reader, readerVars>>

\* Mutant: a payload that ends in a carriage return is written.
ValidAnyEnd(payload) ==
    payload # <<>> /\ Fits(Len(payload)) /\ ~ Delimited(payload)

(* validate_frame_payload *)
ValidPayload(payload) ==
    /\ payload # <<>>
    /\ Fits(Len(payload))
    /\ ~ Delimited(payload) /\ Last(payload) # CR

(* write_frame, write_frame_blocking: an invalid payload is refused, and   *)
(* nothing of it is written.                                               *)
WriteFrame(payload) ==
    /\ ValidPayload(payload)
    /\ Writes(Append(payload, LF))
    /\ written' = Append(written, payload)
    /\ UNCHANGED <<closed, foreign>>

\* The writer dies after some bytes of a frame.
WriteCut(payload, length) ==
    /\ ValidPayload(payload)
    /\ length \in 1..Len(payload)
    /\ Writes(SubSeq(payload, 1, length))
    /\ written' = Append(written, SubSeq(payload, 1, length))
    /\ closed' = TRUE
    /\ UNCHANGED foreign

WriteByte(byte) ==
    /\ Writes(<<byte>>)
    /\ foreign' = TRUE
    /\ UNCHANGED <<closed, written>>

Close ==
    /\ ~ closed /\ closed' = TRUE
    /\ UNCHANGED <<sent, written, foreign, reader, readerVars>>

-----------------------------------------------------------------------------
(* The timed reader.  read_frame extracts what it can, and reads only when *)
(* there is nothing to extract; a time-out returns from there and leaves   *)
(* everything as it is.                                                    *)

Reading(kind) == status = "Open" /\ reader = kind /\ UNCHANGED <<writerVars, reader>>

\* extract_frame, a delimiter found
ExtractLine ==
    LET length == Delimiter(Pending) IN
    /\ Reading("timed")
    /\ Delimited(Pending)
    /\ IF Fits(length)
       THEN /\ consumed' = consumed + length + 1
            /\ Delivering(Trimmed(SubSeq(Pending, 1, length)))
            /\ UNCHANGED <<taken, buffer, eof, status>>
       ELSE Fails
    /\ UNCHANGED line

\* extract_frame, no delimiter: too much of a line already, or the last one
ExtractRest ==
    /\ Reading("timed")
    /\ ~ Delimited(Pending)
    /\ \/ ~ Fits(Len(Pending)) /\ Fails
       \/ /\ Fits(Len(Pending)) /\ eof
          /\ consumed' = Len(buffer)
          /\ Delivering(Pending)
          /\ status' = IF Pending = <<>> THEN "Ended" ELSE status
          /\ UNCHANGED <<taken, buffer, eof>>
    /\ UNCHANGED line

\* Mutant: nothing is ever dropped.
KeepAll(b) == b

\* compact
Compact(b) ==
    IF consumed = Len(b) \/ consumed >= CompactAt
    THEN SubSeq(b, consumed + 1, Len(b)) ELSE b

\* What one read may return: some bytes, or none at the end of the stream.
Arriving ==
    {SubSeq(sent, taken + 1, taken + n) : n \in 1..Min({ChunkSize, Len(sent) - taken})}
        \cup (IF closed /\ taken = Len(sent) THEN {<<>>} ELSE {})

ReadTimed ==
    /\ Reading("timed")
    /\ ~ Delimited(Pending) /\ Fits(Len(Pending)) /\ ~ eof
    /\ \E chunk \in Arriving :
        /\ buffer' = Compact(buffer) \o chunk
        /\ consumed' = consumed - (Len(buffer) - Len(Compact(buffer)))
        /\ taken' = taken + Len(chunk)
        /\ eof' = (chunk = <<>>)
    /\ UNCHANGED <<line, delivered, status>>

HasBufferedInput == consumed < Len(buffer)

\* The caller replaces its process image, as has_buffered_input allows: the
\* stream goes on, and a new reader begins with nothing.  The call that finds
\* the end of the stream with nothing left does not return before it says so.
Exec ==
    /\ Reading("timed")
    /\ ~ HasBufferedInput
    /\ eof => buffer # <<>>
    /\ buffer' = <<>> /\ consumed' = 0 /\ eof' = FALSE
    /\ UNCHANGED <<taken, line, delivered, status>>

-----------------------------------------------------------------------------
(* The streaming readers                                                   *)

\* fill_buf of an empty BufReader.  At the end of the stream what there is of
\* a line is the last frame.
Fill ==
    /\ Reading("streaming")
    /\ Pending = <<>>
    /\ \E chunk \in Arriving :
        /\ buffer' = chunk /\ consumed' = 0
        /\ taken' = taken + Len(chunk)
        /\ IF chunk = <<>>
           THEN /\ Delivering(line)
                /\ line' = <<>>
                /\ status' = IF line = <<>> THEN "Ended" ELSE status
           ELSE UNCHANGED <<delivered, line, status>>
    /\ UNCHANGED eof

Consume ==
    LET payload == IF Delimited(Pending)
                   THEN SubSeq(Pending, 1, Delimiter(Pending)) ELSE Pending
    IN /\ Reading("streaming")
       /\ Pending # <<>>
       /\ IF ~ Fits(Len(line) + Len(payload))
          THEN Fails /\ line' = <<>>
          ELSE /\ IF Delimited(Pending)
                  THEN /\ consumed' = consumed + Len(payload) + 1
                       /\ Delivering(Trimmed(line \o payload))
                       /\ line' = <<>>
                  ELSE /\ consumed' = consumed + Len(payload)
                       /\ line' = line \o payload
                       /\ UNCHANGED delivered
               /\ UNCHANGED <<taken, buffer, eof, status>>

-----------------------------------------------------------------------------
Payloads == UNION {[1..n -> Bytes] : n \in 0..(Limit + 1)}

Writer ==
    \/ \E payload \in Payloads :
        WriteFrame(payload) \/ \E length \in 1..Limit : WriteCut(payload, length)
    \/ \E byte \in Bytes : WriteByte(byte)
    \/ Close

Read == ExtractLine \/ ExtractRest \/ ReadTimed \/ Fill \/ Consume

Next == Writer \/ Read \/ Exec

\* A reader reads on while it is open; nothing obliges the writer.
Spec == Init /\ [][Next]_vars /\ WF_vars(Read)

-----------------------------------------------------------------------------
(* The frames of a stream, defined without reading it.                     *)

\* the line in front of the delimiter at position e
LineAt(s, e) ==
    LET before == {d \in Delimiters(s) : d < e}
    IN SubSeq(s, 1 + Max(before \cup {0}), e - 1)

\* what follows the last delimiter
Rest(s) == LineAt(s, Len(s) + 1)

Overlong(s) == {e \in Delimiters(s) : Len(LineAt(s, e)) > Limit}

Overruns(s) == Overlong(s) # {} \/ Len(Rest(s)) > Limit

\* the line as a frame: a carriage return at its end is part of the delimiter
FrameAt(s, e) ==
    LET whole == LineAt(s, e)
    IN IF whole # <<>> /\ Last(whole) = CR THEN Front(whole) ELSE whole

\* Where the lines that are frames end: a blank one is none, and none is at or
\* after a line that is too long.
FrameEnds(s) ==
    {e \in Delimiters(s) : FrameAt(s, e) # <<>> /\ \A o \in Overlong(s) : e < o}

Ordinal(s, e) == Cardinality({f \in FrameEnds(s) : f <= e})

Frames(s) ==
    [n \in 1..Cardinality(FrameEnds(s)) |->
        FrameAt(s, CHOOSE e \in FrameEnds(s) : Ordinal(s, e) = n)]

\* What reads as a frame: these, and at the end of the stream what follows them.
FramesOf(s, ended) ==
    Frames(s) \o (IF ended /\ ~ Overruns(s) /\ Rest(s) # <<>> THEN <<Rest(s)>> ELSE <<>>)

-----------------------------------------------------------------------------
(* Properties                                                              *)

\* Every variable keeps its type.
TypeOK ==
    /\ sent \in Seq(Bytes) /\ Len(sent) <= StreamBound
    /\ written \in Seq(Seq(Bytes))
    /\ {closed, foreign, eof} \subseteq BOOLEAN
    /\ reader \in Readers
    /\ taken \in 0..Len(sent)
    /\ buffer \in Seq(Bytes) /\ consumed \in 0..Len(buffer)
    /\ line \in Seq(Bytes)
    /\ delivered \in Seq(Seq(Bytes) \ {<<>>})
    /\ status \in {"Open", "Ended", "Failed"}

\* Both readers return exactly the frames of the stream, in order, however the
\* stream is cut into reads, across time-outs and replacements of the process;
\* they fail only at a line that is over the limit, with all frames before it
\* returned, and end only at the end of a stream that has no such line.
Faithful ==
    /\ IsPrefix(delivered, FramesOf(sent, closed))
    /\ status = "Failed" => Overruns(sent) /\ delivered = FramesOf(sent, FALSE)
    /\ status = "Ended" =>
        closed /\ ~ Overruns(sent) /\ delivered = FramesOf(sent, TRUE)

\* What write_frame accepts, the readers accept, and return as it was given;
\* of a frame the writer died in, they return what had been written.
RoundTrip ==
    ~ foreign =>
        /\ IsPrefix(delivered, written)
        /\ status # "Failed"
        /\ status = "Ended" => delivered = written

\* A peer cannot make a reader hold more than a line of the limit and a chunk,
\* and what awaits being dropped ("an explicit per-frame byte limit").
BoundedMemory ==
    /\ Len(line) <= Limit
    /\ Len(buffer) < Limit + ChunkSize + CompactAt
    /\ reader = "streaming" => Len(buffer) <= ChunkSize

\* The reader of a closed stream is told so, or that a line is too long.
StreamEnds == closed ~> status # "Open"

=============================================================================
