------------------------------ MODULE UwsgiTask ------------------------------
(***************************************************************************)
(* A uwsgi server: uwsgi_task reads a uwsgi_request, lets a handler answer *)
(* it, writes the http_response and closes the connection.  The handler is *)
(* that of the thrift processor, or another one.  The client is left to    *)
(* the module that extends this one, see ThriftCall.                       *)
(*                                                                         *)
(* The unit is a word of two bytes, a pair <<kind, value>>.  The packet    *)
(* header is two words: "mod" with the modifier and "size" with the        *)
(* datasize.  A variable is the length of its key, the key, the length of  *)
(* its value and the value; the text of a key is one word.  What was sent  *)
(* arrives in pieces of any size.  A response begins with HeaderSize words *)
(* that say how long its content is.                                       *)
(***************************************************************************)
EXTENDS Integers, SequencesExt

CONSTANTS
    HeaderSize, ResponseSizes   \* of the http_response

ASSUME UwsgiTaskAssumption ==
    HeaderSize \in Nat \ {0} /\ ResponseSizes \subseteq Nat

CONTENT_LENGTH == 0     \* the keys are numbers

Words == {"mod", "size", "len", "key", "val", "body", "head"} \X Nat
Zero == <<"len", 0>>

VARIABLES
    up, down,       \* the connection: words in flight to the server and to the client
    closed,         \* the client has closed it
    nonblock,       \* accept() hands O_NONBLOCK on: not on Linux, elsewhere it does
    at, m_events,   \* where the task is
    m_state, modifier1, datasize, m_data, pos, m_headers,   \* the uwsgi_request
    content_size, m_content,
    res_state, res_data, res_content,   \* the http_response, see HttpBase
    response,       \* its words
    reply,          \* history: the words of the answer to this connection's request
    outcome         \* how the task ended

wireVars == <<up, down, closed>>
reqVars == <<m_state, modifier1, datasize, m_data, pos, m_headers, content_size, m_content>>
resVars == <<res_state, res_data, res_content, response, reply>>
serverVars == <<wireVars, nonblock, at, m_events, reqVars, resVars, outcome>>

Response == INSTANCE HttpBase
    WITH m_state <- res_state, m_data <- res_data, m_content <- res_content

ServerTypeOK ==
    /\ up \in Seq(Words) /\ down \in Seq(Words) /\ closed \in BOOLEAN /\ nonblock \in BOOLEAN
    /\ at \in {"none", "watch", "read", "parse", "request", "ended"}
    /\ m_events \in {"READ", "WRITE"}
    /\ m_state \in {"READY", "READ_DATA", "READ_CONTENT", "DONE"}
    /\ modifier1 \in Nat /\ datasize \in Nat /\ pos \in Nat /\ content_size \in Nat
    /\ m_data \in Seq(Words) /\ Len(m_data) <= datasize
    /\ m_content \in Seq(Words) /\ Len(m_content) <= content_size
    /\ \A v \in m_headers: v \in Nat \X Nat
    /\ Response!BaseTypeOK /\ response \in Seq(Words) /\ reply \in Seq(Words)
    /\ outcome \in {"none", "answered", "refused", "closed", "cut", "error", "crashed"}

ServerInit ==
    /\ up = <<>> /\ down = <<>> /\ closed = FALSE /\ nonblock \in BOOLEAN
    /\ at = "none" /\ m_events = "READ"
    /\ m_state = "READY" /\ modifier1 = 0 /\ datasize = 0 /\ m_data = <<>> /\ pos = 0
    /\ m_headers = {} /\ content_size = 0 /\ m_content = <<>>
    /\ res_state = "READY" /\ res_data = 0 /\ res_content = 0 /\ response = <<>> /\ reply = <<>>
    /\ outcome = "none"

\* uwsgi_request::clear
clearRequest ==
    /\ m_state' = "READY" /\ modifier1' = 0 /\ datasize' = 0 /\ m_data' = <<>> /\ pos' = 0
    /\ m_headers' = {} /\ content_size' = 0 /\ m_content' = <<>>

\* A connection is accepted, and a new task waits for its request.
NewTask ==
    /\ at \in {"none", "ended"}
    /\ up' = <<>> /\ down' = <<>> /\ closed' = FALSE
    /\ at' = "watch" /\ m_events' = "READ"
    /\ clearRequest
    /\ Response!clear /\ response' = <<>> /\ reply' = <<>>
    /\ outcome' = "none"
    /\ UNCHANGED nonblock
-----------------------------------------------------------------------------
(* Reading the request                                                     *)

\* An exception, or a handler that returns FALSE, ends the task.
End(how) ==
    /\ at' = "ended"
    /\ outcome' = how
    /\ UNCHANGED <<wireVars, nonblock, m_events, reqVars, resVars>>

\* read_data goes on in state s: called for EV_READ, or after another part of
\* the request was read in the same call.
Reads(s) ==
    /\ m_state = s
    /\ at = "read" \/ (at = "watch" /\ m_events = "READ")

\* socket::read returns n words, or EAGAIN for n = 0 if it does not block.
Received(n) ==
    /\ n <= Len(up)
    /\ n = 0 => nonblock /\ at = "read" /\ ~(closed /\ up = <<>>)
    /\ up' = SubSeq(up, n + 1, Len(up))

ReadHeader ==
    /\ Reads("READY")
    /\ Received(2)
    /\ modifier1' = up[1][2] /\ datasize' = up[2][2]
    /\ m_state' = "READ_DATA"
    /\ at' = "read"
    /\ UNCHANGED <<down, closed, nonblock, m_events, m_data, pos, m_headers, content_size,
                   m_content, resVars, outcome>>

\* A part of the header is an error.
ReadHeaderCut == Reads("READY") /\ up # <<>> /\ End("cut")

\* to_write() of the buffer that is read into.
to_write == IF m_state = "READ_DATA" THEN datasize - Len(m_data)
                                     ELSE content_size - Len(m_content)

\* A mutated form of VarsComplete: one read is taken to be all.
VarsComplete_firstread(n) == n > 0

VarsComplete(n) == n = to_write

\* A packet that is not UWSGI_VARS never gets any further.
read_vars(n) ==
    /\ Reads("READ_DATA")
    /\ n <= to_write /\ to_write > 0
    /\ Received(n)
    /\ m_data' = m_data \o SubSeq(up, 1, n)
    /\ at' = IF VarsComplete(n) /\ modifier1 = 0 THEN "parse" ELSE "watch"
    /\ UNCHANGED <<down, closed, nonblock, m_events, m_state, modifier1, datasize, pos,
                   m_headers, content_size, m_content, resVars, outcome>>

Kept(key_len, val_len) == key_len > 0 /\ val_len > 0

IsLen(p) == p <= Len(m_data) /\ m_data[p][1] = "len"
ValueAt == pos + 2 + m_data[pos + 1][2]     \* where the length of the value is
IsVar == IsLen(pos + 1) /\ IsLen(ValueAt)

\* An iteration of the loop of parse_vars.
ParseVar ==
    LET key_len == m_data[pos + 1][2]
        val_len == m_data[ValueAt][2]
    IN
    /\ at = "parse" /\ pos < Len(m_data) /\ IsVar
    /\ m_headers' = IF Kept(key_len, val_len)
                      THEN m_headers \cup {<<m_data[pos + 2][2], m_data[ValueAt + 1][2]>>}
                      ELSE m_headers
    /\ pos' = ValueAt + val_len
    /\ UNCHANGED <<wireVars, nonblock, at, m_events, m_state, modifier1, datasize,
                   m_data, content_size, m_content, resVars, outcome>>

\* Text is taken for a length: assert(pos <= m_size) fails, or another part of
\* the memory is read, which may look like a variable.
Junk == <<1000, 1000>>

ParseText == at = "parse" /\ pos < Len(m_data) /\ ~IsVar /\ End("error")

ParseJunk ==
    /\ at = "parse" /\ pos < Len(m_data) /\ ~IsVar
    /\ pos' = Len(m_data)
    /\ m_headers' \in {m_headers, m_headers \cup {Junk}}
    /\ UNCHANGED <<wireVars, nonblock, at, m_events, m_state, modifier1, datasize,
                   m_data, content_size, m_content, resVars, outcome>>

\* The loop ends, and read_vars looks for CONTENT_LENGTH.
ParseEnd ==
    LET lengths == {h[2]: h \in {g \in m_headers: g[1] = CONTENT_LENGTH}} IN
    /\ at = "parse" /\ pos >= Len(m_data)
    /\ IF lengths = {}
         THEN at' = "request" /\ m_state' = "DONE" /\ UNCHANGED content_size
         ELSE at' = "read" /\ m_state' = "READ_CONTENT" /\ content_size' = Max(lengths)
    /\ UNCHANGED <<wireVars, nonblock, m_events, modifier1, datasize, m_data, pos,
                   m_headers, m_content, resVars, outcome>>

read_content(n) ==
    /\ Reads("READ_CONTENT")
    /\ n <= to_write /\ to_write > 0
    /\ Received(n)
    /\ m_content' = m_content \o SubSeq(up, 1, n)
    /\ IF n = to_write THEN at' = "request" /\ m_state' = "DONE"
                       ELSE at' = "watch" /\ UNCHANGED m_state
    /\ UNCHANGED <<down, closed, nonblock, m_events, modifier1, datasize, pos, m_data,
                   m_headers, content_size, resVars, outcome>>

\* socket::read returns 0, which it takes for the end of the stream, also
\* when there is no room to read into.
ReadEnds ==
    /\ \E s \in {"READY", "READ_DATA", "READ_CONTENT"}: Reads(s)
    /\ \/ closed /\ up = <<>>
       \/ m_state # "READY" /\ to_write = 0 /\ (at = "read" \/ up # <<>> \/ closed)
    /\ End("closed")
-----------------------------------------------------------------------------
(* Answering it                                                            *)

\* What the thrift transport reads from the content of the request.
Asked == IF m_content = <<>> THEN 0 ELSE m_content[1][2]

\* handle_request fills the response and calls send_response, then the request
\* is cleared.  The thrift processor answers what the content asks for, or
\* with "400 Bad Request" and no content.  The words of an answer are numbered
\* like those of the request that it answers.
HandleRequest(size) ==
    /\ at = "request"
    /\ at' = "watch" /\ m_events' = "WRITE"
    /\ res_content' = size
    /\ response' = [i \in 1..HeaderSize |-> <<"head", size>>] \o [i \in 1..size |-> <<"body", Asked>>]
    /\ reply' = response'
    /\ clearRequest
    /\ UNCHANGED <<wireVars, nonblock, res_state, res_data, outcome>>

\* A handler of another kind returns FALSE.
RefuseRequest == at = "request" /\ End("refused")

\* EV_WRITE: the socket takes at least a word, or all if it blocks.  The task
\* ends with the answer.
HandleWrite(nd, nc) ==
    LET out == Len(response) - Response!ToWrite(HeaderSize) - res_content
        complete == Response!Completes(HeaderSize, nd, nc)
    IN
    /\ at = "watch" /\ m_events = "WRITE"
    /\ nd + nc > 0
    /\ ~nonblock => complete
    /\ Response!Takes(HeaderSize, nd, nc)
    /\ down' = down \o SubSeq(response, out + 1, out + nd + nc)
    /\ IF complete
         THEN Response!clear /\ response' = <<>> /\ at' = "ended" /\ outcome' = "answered"
         ELSE Response!write_data(HeaderSize, nd, nc) /\ UNCHANGED <<response, at, outcome>>
    /\ UNCHANGED <<up, closed, nonblock, m_events, reqVars, reply>>

WriteFails == at = "watch" /\ m_events = "WRITE" /\ closed /\ End("closed")

\* The server's process ends; all of its connections are closed.
Crash == at \notin {"none", "ended"} /\ End("crashed")
-----------------------------------------------------------------------------
Receive ==
    \/ ReadHeader
    \/ \E n \in 0..Len(up): read_vars(n) \/ read_content(n)
    \/ ParseVar \/ ParseText \/ ParseJunk \/ ParseEnd
    \/ ReadEnds
Respond ==
    \/ \E size \in ResponseSizes: HandleRequest(size)
    \/ \E nd, nc \in 0..(HeaderSize + Max(ResponseSizes)): HandleWrite(nd, nc)

ServerStep == Receive \/ ReadHeaderCut \/ Respond \/ RefuseRequest \/ WriteFails \/ Crash
=============================================================================
