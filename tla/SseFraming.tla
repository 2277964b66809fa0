----------------------------- MODULE SseFraming -----------------------------
(***************************************************************************)
(* How events are read off the stream (coordinator.py, _read_events): the   *)
(* bytes come in chunks cut anywhere, complete lines are taken from a       *)
(* buffer with a cap, and a blank line ends an event.                      *)
(*                                                                         *)
(* A line is its content, a carriage return if the server writes them, and  *)
(* a newline, each a byte here: enough for a chunk to end inside a line,    *)
(* before its end and inside its end.  What an event says is left to        *)
(* CueStream.                                                              *)
(***************************************************************************)
EXTENDS Integers, Sequences, FiniteSetsExt

CONSTANTS
    Payloads,  \* what a data line may carry
    Long,      \* the payloads that make a line long
    Cap,       \* MAX_EVENT_BYTES
    MaxChunk,  \* the bytes iter_any gives at most: what the transport holds
    MaxLines   \* bound: the lines sent on a connection

VARIABLES
    crlf,    \* the server ends its lines with a carriage return as well
    sent,    \* the lines it has sent on this connection
    text,    \* ... their bytes
    ends,    \* ... and where in the text each of them ends
    taken,   \* how many bytes have come
    buffer,  \* the bytes of lines not read yet
    event,   \* the last event field, or "none"
    data,    \* the data fields since the last blank line
    refused, \* the connection was given up as oversized
    handed   \* history: what _handle_cue_event was given

server == <<crlf, sent, text, ends>>
vars == <<crlf, sent, text, ends, taken, buffer, event, data, refused, handed>>

\* A line by what it says: nothing, an event field, a data field by its payload, or a
\* comment or any other field.
Names == {"cues", "other"}
Lines == {"blank", "comment"} \cup Names \cup Payloads

ASSUME FramingAssumption ==
    /\ Payloads \cap ({"blank", "comment", "\r", "\n", "..."} \cup Names) = {}
    /\ Long \subseteq Payloads
    /\ Cap \in Nat /\ MaxChunk \in Nat /\ MaxLines \in Nat

\* ... and as it is sent.
BytesOf(line) ==
    (IF line = "blank" THEN <<>> ELSE <<line>>) \o (IF line \in Long THEN <<"...", "...">> ELSE <<>>)
      \o (IF crlf THEN <<"\r">> ELSE <<>>) \o <<"\n">>
Bytes == Lines \cup {"...", "\r", "\n"}

Init ==
    /\ crlf \in BOOLEAN
    /\ sent = <<>> /\ text = <<>> /\ ends = <<>>
    /\ taken = 0
    /\ buffer = <<>>
    /\ event = "none"
    /\ data = <<>>
    /\ refused = FALSE
    /\ handed = <<>>
-----------------------------------------------------------------------------
Sends(line) ==
    /\ Len(sent) < MaxLines
    /\ sent' = Append(sent, line)
    /\ text' = text \o BytesOf(line)
    /\ ends' = Append(ends, Len(text) + Len(BytesOf(line)))
    /\ UNCHANGED <<crlf, taken, buffer, event, data, refused, handed>>

\* The buffer holds a complete line; the loop goes on before it asks for more.
LineEnds == {i \in DOMAIN buffer : buffer[i] = "\n"}
LineComplete == LineEnds # {}

\* Mutant: the cap is on the event so far.
OversizedEvent(bytes) == Len(bytes) + 2 * Len(data) > Cap

\* The cap is on the bytes not read yet, complete lines among them.
Oversized(bytes) == Len(bytes) > Cap

\* A chunk goes into the buffer, and the connection is given up if that is too much.
Chunk(n) ==
    /\ ~refused /\ ~LineComplete
    /\ n <= Len(text) - taken
    /\ taken' = taken + n
    /\ buffer' = buffer \o SubSeq(text, taken + 1, taken + n)
    /\ refused' = Oversized(buffer')
    /\ UNCHANGED <<server, event, data, handed>>

\* rstrip("\r")
Content(raw) == SubSeq(raw, 1, Max({0} \cup {i \in DOMAIN raw : raw[i] # "\r"}))

\* Mutant: the event field of one event is there for the next.
EndsKeepingField ==
    /\ handed' = IF event = "cues" /\ data # <<>> THEN Append(handed, data) ELSE handed
    /\ data' = <<>>
    /\ UNCHANGED event

\* A blank line: a cues event that has data is handed on, any other dropped.
Ends ==
    /\ handed' = IF event = "cues" /\ data # <<>> THEN Append(handed, data) ELSE handed
    /\ event' = "none"
    /\ data' = <<>>

\* Mutant: what is no event field is data.
CarriesOther(field) == field \notin Names

\* A data field.
Carries(field) == field \in Payloads

\* What one line does; comments and other fields do nothing.
Takes(content) ==
    IF content = <<>> THEN Ends
    ELSE /\ event' = IF content[1] \in Names THEN content[1] ELSE event
         /\ data' = IF Carries(content[1]) THEN Append(data, content[1]) ELSE data
         /\ UNCHANGED handed

ReadsLine ==
    /\ ~refused /\ LineComplete
    /\ Takes(Content(SubSeq(buffer, 1, Min(LineEnds) - 1)))
    /\ buffer' = SubSeq(buffer, Min(LineEnds) + 1, Len(buffer))
    /\ UNCHANGED <<server, taken, refused>>

\* The stream ends, at the latest once it was refused; the next starts with nothing.
Reconnects ==
    /\ sent' = <<>> /\ text' = <<>> /\ ends' = <<>>
    /\ taken' = 0
    /\ buffer' = <<>>
    /\ event' = "none"
    /\ data' = <<>>
    /\ refused' = FALSE
    /\ handed' = <<>>
    /\ UNCHANGED crlf

Next ==
    \/ \E line \in Lines : Sends(line)
    \/ \E n \in 1..MaxChunk : Chunk(n)
    \/ ReadsLine
    \/ Reconnects

Spec == Init /\ [][Next]_vars
-----------------------------------------------------------------------------
\* What the lines say, told from the lines alone: a blank line ends the block of lines
\* since the last one; a block is an event by the last name in it, with the data in it.

Block(b) == {i \in 1..(b - 1) : \A j \in i..(b - 1) : sent[j] # "blank"}
Named(b, name) ==
    \E i \in Block(b) : sent[i] = name /\ \A j \in Block(b) : j > i => sent[j] \notin Names
DataAt(b) == {i \in Block(b) : sent[i] \in Payloads}

\* The place of one of a set of numbers when they are put in order.
Place(S, i) == Cardinality({j \in S : j <= i})

\* The payloads are the data before line b, in order.
Says(payloads, b) ==
    /\ Len(payloads) = Cardinality(DataAt(b))
    /\ \A i \in DataAt(b) : payloads[Place(DataAt(b), i)] = sent[i]

\* The lines of which every byte has been read, and those of them that end an event.
Read == taken - Len(buffer)
ReadLines == {i \in DOMAIN sent : ends[i] <= Read}
EventEnds == {b \in ReadLines : sent[b] = "blank" /\ Named(b, "cues") /\ DataAt(b) # {}}

\* Every variable has the shape the code gives it, and a buffer that is read never more
\* bytes than the cap.
TypeOK ==
    /\ crlf \in BOOLEAN
    /\ sent \in Seq(Lines) /\ text \in Seq(Bytes) /\ ends \in Seq(Nat)
    /\ taken \in Nat
    /\ buffer \in Seq(Bytes) /\ (~refused => Len(buffer) <= Cap)
    /\ event \in {"none"} \cup Names
    /\ data \in Seq(Payloads)
    /\ refused \in BOOLEAN
    /\ handed \in Seq(Seq(Payloads))

\* However the bytes were cut into chunks, what was handed on is what the lines read so
\* far say: each event once, in order, with all of its data and nobody else's.
HandsOnWhatWasSaid ==
    /\ Len(handed) = Cardinality(EventEnds)
    /\ \A b \in EventEnds : Says(handed[Place(EventEnds, b)], b)

\* A connection is given up only for a line that is longer than the cap less what one
\* chunk may hold, whatever the lines before it amount to.
OnlyLongLinesRefused ==
    refused => \E i \in DOMAIN sent : Len(BytesOf(sent[i])) > Cap - MaxChunk
-----------------------------------------------------------------------------
\* The inductive invariant.

EndOf(i) == IF i = 0 THEN 0 ELSE ends[i]

\* The text is the lines, one after the other.
TextIsLines ==
    /\ Len(ends) = Len(sent) /\ Len(text) = EndOf(Len(sent))
    /\ \A i, j \in DOMAIN ends : i < j => ends[i] < ends[j]
    /\ \A i \in DOMAIN sent :
         LET bytes == BytesOf(sent[i])
         IN  /\ ends[i] = EndOf(i - 1) + Len(bytes)
             /\ \A j \in DOMAIN bytes : text[EndOf(i - 1) + j] = bytes[j]

\* The buffer is what has come and is not read, nothing lost and nothing twice.
BufferIsText ==
    /\ Len(buffer) <= taken /\ taken <= Len(text)
    /\ \A j \in DOMAIN buffer : buffer[j] = text[Read + j]

\* The fields are those of the block that line b would end.
FieldsOf(b) ==
    /\ Says(data, b)
    /\ IF event = "none" THEN \A i \in Block(b) : sent[i] \notin Names ELSE Named(b, event)

\* Reading has come to the end of a line, and the fields are those since a blank one.
ReadsWholeLines == \E m \in 0..Len(sent) : Read = EndOf(m) /\ FieldsOf(m + 1)

IInv ==
    /\ TypeOK
    /\ TextIsLines
    /\ BufferIsText
    /\ ReadsWholeLines
    /\ HandsOnWhatWasSaid
    /\ OnlyLongLinesRefused
=============================================================================
