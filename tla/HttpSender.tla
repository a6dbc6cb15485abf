----------------------------- MODULE HttpSender -----------------------------
(***************************************************************************)
(* An HTTP client: http_sender::send and handle_event, which write an      *)
(* http_request and read an http_response on a connection that is kept.    *)
(*                                                                         *)
(* A byte is a pair <<kind, value>>.  The text of a line is one byte: "S"  *)
(* a status line, "E" one with an invalid status, "L" a Content-Length     *)
(* header and its value, "T" chunked encoding, "H" any other header, "B"   *)
(* a line that is no header.  The positions are those of the code, offsets *)
(* from 0 into the response's content buffer.                              *)
(*                                                                         *)
(* The server is external.  It answers a complete request, and may close   *)
(* the connection.  What it sent arrives in pieces of any size.            *)
(***************************************************************************)
EXTENDS Integers, SequencesExt

CONSTANTS
    Block,          \* READ_BUFFER_SIZE_BLOCK
    Slack,          \* what set_size allocates in excess, 1024 bytes
    HeaderSize,     \* bytes of a request's first line and headers
    RequestSizes,   \* bytes of content of a request
    Layouts,        \* the lines that a response of the server may have
    Lengths,        \* bytes of content of a response
    MaxRequests     \* bound: requests sent with one sender

ASSUME HttpSenderAssumption ==
    /\ Block \in Nat \ {0, 1} /\ Slack \in Nat
    /\ HeaderSize \in Nat \ {0} /\ MaxRequests \in Nat
    /\ RequestSizes \subseteq Nat /\ Lengths \subseteq Nat
    /\ \A l \in Layouts: l \in Seq({"S", "E", "H", "L", "T", "B"})

Bytes == {"S", "E", "H", "L", "T", "B", "CR", "LF", "x"} \X Nat
CR == <<"CR", 0>>
LF == <<"LF", 0>>

\* The content of the k-th response; line breaks are nothing special in it.
Body(len, k) ==
    [i \in 1..len |-> IF i = 1 THEN CR ELSE IF i = 2 THEN LF ELSE <<"x", k>>]

Text(kind, len) == <<kind, IF kind = "L" THEN len ELSE 0>>

\* Lines of three bytes, text and line break, then an empty line.
Headers(layout, len) ==
    [i \in 1..(3 * Len(layout) + 2) |->
        IF i % 3 = 0 \/ i = 3 * Len(layout) + 2 THEN LF
        ELSE IF i % 3 = 2 \/ i = 3 * Len(layout) + 1 THEN CR
        ELSE Text(layout[(i + 2) \div 3], len)]

Stream(layout, len, k) == Headers(layout, len) \o Body(len, k)

\* A response that the reader supports.
Good(layout) ==
    /\ Len(layout) > 0 /\ layout[1] = "S"
    /\ \A i \in 2..Len(layout): layout[i] \in {"H", "L"}
    /\ \E i \in 2..Len(layout): layout[i] = "L"

VARIABLES
    at,             \* where the sender's handler is
    m_events,
    req_state, req_data, req_content,   \* the request: see HttpBase
    m_state, m_content_start, m_last_line_start, m_line_number,
    m_content_length, m_content_length_exists, m_chunked_enc,
    buf,            \* what was written to m_content_buffer, up to offset_write
    offset_read, m_size, capacity,      \* m_content_buffer; capacity: m_buffer.size()
    full,           \* local: towrite == bytes
    requests, asked, up,    \* requests sent; size of the last one; bytes of it written
    down, closed,   \* the connection: bytes in flight, the server has closed it
    sent, bad,      \* the contents the server sent, and if one of them was not Good
    misread,        \* history: read_data took a coincidence for something else, see Misreads
    handled         \* what handle_response saw

reqVars == <<req_state, req_data, req_content>>
parseVars == <<m_content_start, m_last_line_start, m_line_number, m_content_length,
               m_content_length_exists, m_chunked_enc>>
bufVars == <<buf, offset_read, m_size, capacity>>
upVars == <<requests, asked, up>>
serverVars == <<closed, sent, bad>>
vars == <<at, m_events, reqVars, m_state, parseVars, bufVars, full, upVars, down,
          serverVars, misread, handled>>

Request == INSTANCE HttpBase
    WITH m_state <- req_state, m_data <- req_data, m_content <- req_content

TypeOK ==
    /\ at \in {"new", "watch", "loop", "parse", "check", "respond", "ended"}
    /\ m_events \in {"READ", "WRITE"}
    /\ Request!BaseTypeOK
    /\ m_state \in {"READY", "READ_DATA", "READ_CONTENT", "DONE"}
    /\ m_content_start \in Nat /\ m_last_line_start \in Nat
    /\ m_line_number \in Nat /\ m_content_length \in Nat
    /\ m_content_length_exists \in BOOLEAN /\ m_chunked_enc \in BOOLEAN
    /\ offset_read \in Nat /\ m_size \in Nat /\ capacity \in Nat
    /\ full \in BOOLEAN /\ closed \in BOOLEAN /\ bad \in BOOLEAN /\ misread \in BOOLEAN
    /\ requests \in 0..MaxRequests /\ asked \in Nat /\ up \in Nat
    /\ buf \in Seq(Bytes) /\ down \in Seq(Bytes)
    /\ sent \in Seq(Seq(Bytes))
    /\ handled \in Seq([to_read: Nat, data: Seq(Bytes)])

Init ==
    /\ at = "new" /\ m_events = "WRITE"
    /\ req_state = "READY" /\ req_data = 0 /\ req_content = 0
    /\ m_state = "READY"
    /\ m_content_start = 0 /\ m_last_line_start = 0 /\ m_line_number = 0
    /\ m_content_length = 0 /\ m_content_length_exists = FALSE /\ m_chunked_enc = FALSE
    /\ buf = <<>> /\ offset_read = 0 /\ m_size = 0 /\ capacity = 0
    /\ full = FALSE
    /\ requests = 0 /\ asked = 0 /\ up = 0
    /\ down = <<>> /\ closed = FALSE /\ sent = <<>> /\ bad = FALSE
    /\ misread = FALSE /\ handled = <<>>
-----------------------------------------------------------------------------
(* Sending a request                                                       *)

\* prepare_data_buffer: first line, headers and length, then the content.
RequestSize(size) == HeaderSize + size

\* send(): connects and adds the task, or lets the kept connection be watched
\* for writing.  The handler calls it, or the application when a response was
\* handled.
send(size) ==
    /\ at \in {"new", "watch"}
    /\ Len(handled) = requests
    /\ requests < MaxRequests
    /\ requests' = requests + 1
    /\ asked' = RequestSize(size)
    /\ up' = 0
    /\ req_content' = size
    /\ at' = "watch"
    /\ m_events' = "WRITE"
    /\ UNCHANGED <<req_state, req_data, m_state, parseVars, bufVars, full, down,
                   serverVars, misread, handled>>

\* EV_WRITE: the socket takes at least a byte.
HandleWrite(nd, nc) ==
    /\ at = "watch" /\ m_events = "WRITE"
    /\ nd + nc > 0
    /\ up' = up + nd + nc
    /\ Request!Takes(HeaderSize, nd, nc)
    /\ IF Request!Completes(HeaderSize, nd, nc)
         THEN Request!clear /\ m_events' = "READ"
         ELSE Request!write_data(HeaderSize, nd, nc) /\ UNCHANGED m_events
    /\ UNCHANGED <<at, m_state, parseVars, bufVars, full, requests, asked, down,
                   serverVars, misread, handled>>

\* An exception ends the task.
Throw ==
    /\ at' = "ended"
    /\ UNCHANGED <<m_events, reqVars, m_state, parseVars, bufVars, full, upVars, down,
                   serverVars, misread, handled>>

\* socket::write fails after the peer has closed the connection.
WriteFails == at = "watch" /\ m_events = "WRITE" /\ closed /\ Throw
-----------------------------------------------------------------------------
(* Reading a response                                                      *)

\* buffer::set_size.
set_size(s) ==
    /\ m_size' = s
    /\ capacity' = IF capacity < s THEN s + Slack ELSE capacity

\* The size of the buffer for the next read: a first block, and more whenever
\* less than a block is left.  One byte stays for the terminating zero.
GrownSize ==
    LET size == IF m_state = "READY" THEN Block ELSE m_size
        cap == IF m_state = "READY" /\ capacity < Block THEN Block + Slack ELSE capacity
    IN IF size - Len(buf) - 1 < Block - 1 THEN cap + Block ELSE size

\* A mutated form of towrite: no room is kept for the terminating zero.
towrite_unterminated == GrownSize - Len(buf)

towrite == GrownSize - Len(buf) - 1

\* EV_READ, and again while a read filled all the room there was.
Reading == at = "loop" \/ (at = "watch" /\ m_events = "READ")

\* A read returns n bytes.
ReadBytes(n) ==
    /\ Reading
    /\ n <= towrite
    /\ set_size(GrownSize)
    /\ buf' = buf \o SubSeq(down, 1, n)
    /\ down' = SubSeq(down, n + 1, Len(down))
    /\ full' = (n = towrite)
    /\ m_state' = IF m_state = "READY" THEN "READ_DATA" ELSE m_state
    /\ at' = IF m_state' = "READ_DATA" THEN "parse" ELSE "check"
    /\ UNCHANGED <<m_events, reqVars, parseVars, offset_read, upVars, serverVars, misread, handled>>

AfterLoop == IF m_state = "DONE" THEN "respond" ELSE "watch"

\* EAGAIN: the rest has not arrived yet.
ReadNothing ==
    /\ at = "loop"
    /\ set_size(GrownSize)
    /\ at' = AfterLoop
    /\ UNCHANGED <<m_events, reqVars, m_state, parseVars, buf, offset_read, full, upVars,
                   down, serverVars, misread, handled>>

\* socket::read throws when the peer has closed the connection.
ReadClosed == Reading /\ closed /\ down = <<>> /\ Throw

\* The byte at offset p; a zero follows what was read.
Byte(p) == IF p < Len(buf) THEN buf[p + 1] ELSE <<"NUL", 0>>

\* parse_data skips the line feed of the line before.
LineStart == IF Byte(m_last_line_start) = LF THEN m_last_line_start + 1 ELSE m_last_line_start

\* Where the next line break is: strstr(..., CRLF).
Breaks == {p \in LineStart..(Len(buf) - 2): Byte(p) = CR /\ Byte(p + 1) = LF}
eol == Min(Breaks)

\* parse_status and parse_header accept the line.
Parses == IF m_line_number = 0 THEN Byte(LineStart)[1] = "S"
                               ELSE Byte(LineStart)[1] \in {"H", "L", "T"}

\* parse_line for a line that is not empty.
ParseLine ==
    /\ at = "parse"
    /\ Breaks # {} /\ eol > LineStart
    /\ Parses
    /\ m_line_number' = m_line_number + 1
    /\ m_content_length' = IF Byte(LineStart)[1] = "L" THEN Byte(LineStart)[2]
                                                      ELSE m_content_length
    /\ m_content_length_exists' = (m_content_length_exists \/ Byte(LineStart)[1] = "L")
    /\ m_chunked_enc' = (m_chunked_enc \/ Byte(LineStart)[1] = "T")
    /\ m_last_line_start' = eol + 1
    /\ UNCHANGED <<at, m_events, reqVars, m_state, m_content_start, bufVars, full, upVars,
                   down, serverVars, misread, handled>>

\* A mutated form of ContentStart: the line feed is not skipped.
ContentStart_linefeed == LineStart + 1

\* The content starts behind the line feed of the empty line.
ContentStart == LineStart + 2

\* The headers end.
ParseEnd ==
    /\ at = "parse"
    /\ Breaks # {} /\ eol = LineStart
    /\ ~m_chunked_enc /\ m_content_length_exists
    /\ m_last_line_start' = LineStart
    /\ m_content_start' = ContentStart
    /\ m_state' = "READ_CONTENT"
    /\ at' = "check"
    /\ UNCHANGED <<m_events, reqVars, m_line_number, m_content_length,
                   m_content_length_exists, m_chunked_enc, bufVars, full, upVars, down,
                   serverVars, misread, handled>>

\* An invalid status or header, a chunked response, one without a length.
ParseFails ==
    /\ at = "parse"
    /\ Breaks # {}
    /\ IF eol > LineStart THEN ~Parses ELSE m_chunked_enc \/ ~m_content_length_exists
    /\ Throw

\* No line break yet.
ParseRest ==
    /\ at = "parse"
    /\ Breaks = {}
    /\ m_last_line_start' = LineStart
    /\ at' = "check"
    /\ UNCHANGED <<m_events, reqVars, m_state, m_content_start, m_line_number,
                   m_content_length, m_content_length_exists, m_chunked_enc, bufVars, full,
                   upVars, down, serverVars, misread, handled>>

\* All of the content is there.
Complete == m_content_length = Len(buf) - m_content_start

\* The buffer ends with the content.
EndSize == m_content_start + m_content_length

\* The two cases in which a complete response is not the end of one: in the
\* middle of the headers as many bytes have arrived as the content will have,
\* or the last byte filled the room there was and the loop reads again.
Misreads == Complete /\ (m_state # "READ_CONTENT" \/ full)

\* A mutated form of AfterCheck: read until there is nothing left.
AfterCheck_drained == "loop"

AfterCheck == IF full THEN "loop" ELSE IF Complete THEN "respond" ELSE AfterLoop

CheckEnd ==
    /\ at = "check"
    /\ IF Complete
         THEN /\ set_size(EndSize)
              /\ offset_read' = m_content_start
              /\ m_state' = "DONE"
         ELSE UNCHANGED <<m_size, capacity, offset_read, m_state>>
    /\ at' = AfterCheck
    /\ misread' = (misread \/ Misreads)
    /\ UNCHANGED <<m_events, reqVars, parseVars, buf, full, upVars, down, serverVars, handled>>

\* http_response::clear; the memory of the buffer is kept.
clear ==
    /\ m_state' = "READY"
    /\ m_content_start' = 0 /\ m_last_line_start' = 0 /\ m_line_number' = 0
    /\ m_content_length' = 0 /\ m_content_length_exists' = FALSE
    /\ m_chunked_enc' = FALSE
    /\ buf' = <<>> /\ offset_read' = 0 /\ m_size' = 0

\* Where the bytes of the stream end in what can be read from the buffer.
EndOfData == IF m_size < Len(buf) THEN m_size ELSE Len(buf)

\* handle_response reads the content buffer, and decides whether the task goes on.
HandleResponse(success) ==
    /\ at = "respond"
    /\ handled' = Append(handled, [to_read |-> m_size - offset_read,
                                   data |-> SubSeq(buf, offset_read + 1, EndOfData)])
    /\ clear
    /\ at' = IF success THEN "watch" ELSE "ended"
    /\ UNCHANGED <<m_events, reqVars, capacity, full, upVars, down, serverVars, misread>>
-----------------------------------------------------------------------------
(* The server                                                              *)

Answer(layout, len) ==
    /\ ~closed
    /\ requests > Len(sent) /\ up = asked
    /\ down' = down \o Stream(layout, len, requests)
    /\ sent' = Append(sent, Body(len, requests))
    /\ bad' = (bad \/ ~Good(layout))
    /\ UNCHANGED <<at, m_events, reqVars, m_state, parseVars, bufVars, full, upVars, closed,
                   misread, handled>>

Close ==
    /\ ~closed /\ at # "new"
    /\ closed' = TRUE
    /\ UNCHANGED <<at, m_events, reqVars, m_state, parseVars, bufVars, full, upVars, down,
                   sent, bad, misread, handled>>
-----------------------------------------------------------------------------
Receive == (\E n \in 1..Len(down): ReadBytes(n)) \/ ReadClosed
Handle ==
    \/ \E nd, nc \in 0..asked: HandleWrite(nd, nc)
    \/ Receive \/ ReadNothing
    \/ ParseLine \/ ParseEnd \/ ParseFails \/ ParseRest \/ CheckEnd
    \/ \E success \in BOOLEAN: HandleResponse(success)
Serve == \E layout \in Layouts, len \in Lengths: Answer(layout, len)

Next ==
    \/ \E size \in RequestSizes: send(size)
    \/ Handle \/ WriteFails
    \/ Serve \/ Close

\* Handlers are called and return, bytes arrive, and the server answers.
Fairness == WF_vars(Handle) /\ WF_vars(Serve)

Spec == Init /\ [][Next]_vars /\ Fairness
-----------------------------------------------------------------------------
(* Safety                                                                  *)

\* done(): "True after an HTTP object has been read from a socket and parsed".
\* However the stream was cut, the handler sees exactly the content that the
\* server sent for the request, but for the coincidences that misread stands for.
HandledAsSent ==
    ~misread =>
    /\ Len(handled) <= Len(sent)
    /\ \A i \in DOMAIN handled:
          handled[i].data = sent[i] /\ handled[i].to_read = Len(sent[i])

\* assert(pos <= m_size) in buffer::ptr, and the terminating zero that
\* read_data writes behind the data: both stay inside of the buffer.
InBounds ==
    at \in {"parse", "check"} =>
        /\ m_size <= capacity
        /\ m_state # "DONE" => Len(buf) < m_size
        /\ m_last_line_start <= m_size /\ m_content_start <= m_size

\* A complete response that the reader supports is handled before the task
\* ends, also if the server closes the connection right behind it, with the same
\* exceptions.
NotLost == at = "ended" /\ ~bad /\ ~misread => Len(handled) = Len(sent)

\* Every request is answered, or the task ends, or waits in vain for a server
\* that is gone.
Answered ==
    \A k \in 1..MaxRequests: requests = k ~> Len(handled) >= k \/ at = "ended"
=============================================================================
