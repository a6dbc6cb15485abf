----------------------------- MODULE ThriftCall -----------------------------
(***************************************************************************)
(* Calls of a thrift service over uwsgi: uwsgi_thrift_client, which blocks,*)
(* writes a uwsgi_request and reads the http_response that a uwsgi_task    *)
(* sends (module UwsgiTask).  The variables of the request are those of    *)
(* other writers of the same class, such as http_sender; the thrift client *)
(* has none but the length of the content.                                 *)
(*                                                                         *)
(* The application may call again on an object whose last call failed, or  *)
(* after a oneway call, whose answer nobody reads.                         *)
(***************************************************************************)
EXTENDS UwsgiTask

CONSTANTS
    VarLists,       \* the variables that a request may have
    ContentSizes,   \* words of content of a request
    Modifiers,      \* modifier1 of a new request; 0 is UWSGI_VARS
    Base,           \* sizes from here on have a digit more
    MaxCalls        \* bound: calls

Empty == -1

ASSUME ThriftCallAssumption ==
    /\ \A l \in VarLists: l \in Seq([key: Nat \ {CONTENT_LENGTH}, val: Nat \cup {Empty}])
    /\ ContentSizes \subseteq Nat /\ Modifiers \subseteq Nat /\ 0 \in Modifiers
    /\ Base \in Nat /\ MaxCalls \in Nat

VARIABLES
    call, calls,    \* where the client is; calls so far
    connected,      \* m_socket is connected, and not only open
    req_state, mod, data, content, mem, \* the uwsgi_request: m_state, modifier1, what is left
                    \* to write of the two buffers, the memory behind the header
    got, done,      \* the http_response: the words read; m_state is DONE
    asked, clean,   \* what the last call asks for; see Trailer
    used, fresh,    \* history: a call was begun with this object since it was made or
                    \* readEnd returned; the last call was the first one of its object
    misread         \* history: the response was DONE before its headers ended

requestVars == <<req_state, mod, data, content, mem>>
objectVars == <<requestVars, got, done>>
historyVars == <<asked, clean, used, fresh, misread>>
clientVars == <<call, calls, connected, objectVars, historyVars>>
vars == <<clientVars, serverVars>>

InCall == {"headers", "content", "reading", "again"}

TypeOK ==
    /\ ServerTypeOK
    /\ call \in {"closed", "open", "returned", "failed"} \cup InCall
    /\ calls \in 0..MaxCalls /\ connected \in BOOLEAN
    /\ req_state \in {"READY", "WRITE_DATA", "WRITE_CONTENT", "DONE"} /\ mod \in Modifiers
    /\ data \in Seq(Words) /\ content \in Seq(Words) /\ mem \in Seq(Words) /\ got \in Seq(Words)
    /\ done \in BOOLEAN /\ clean \in BOOLEAN
    /\ used \in BOOLEAN /\ fresh \in BOOLEAN /\ misread \in BOOLEAN

Init ==
    /\ ServerInit
    /\ call = "closed" /\ calls = 0 /\ connected = FALSE
    /\ req_state = "READY" /\ mod \in Modifiers
    /\ data = <<>> /\ content = <<>> /\ mem = <<>> /\ got = <<>> /\ done = FALSE
    /\ asked = [vars |-> {}, content |-> <<>>] /\ clean = TRUE
    /\ used = FALSE /\ fresh = TRUE /\ misread = FALSE
-----------------------------------------------------------------------------
(* uwsgi_request::prepare_data_buffer                                      *)

\* The length of a text in words.
TextLen(v) == IF v.val = Empty THEN 0 ELSE IF v.val >= Base THEN 2 ELSE 1

VarWords(v) ==
    <<<<"len", 1>>, <<"key", v.key>>, <<"len", TextLen(v)>>>>
        \o [i \in 1..TextLen(v) |-> <<"val", v.val>>]

\* set_header("CONTENT_LENGTH", ...) if there is content.
AllVars(list, size) ==
    IF size > 0 THEN Append(list, [key |-> CONTENT_LENGTH, val |-> size]) ELSE list

VarBlock(list, size) ==
    FlattenSeq([i \in DOMAIN AllVars(list, size) |-> VarWords(AllVars(list, size)[i])])

\* A mutated form of DataSize: the size of the whole buffer.
DataSize_buffer(block) == (Len(block) + 4) % 32768

\* m_header.datasize = owrite, which counts the header: 16 bits, of bytes.
DataSize(block) == (Len(block) + 2) % 32768

\* What the buffer holds: the variables overwrite what is left in it.
Memory(old, block) ==
    IF Len(old) > Len(block) THEN block \o SubSeq(old, Len(block) + 1, Len(old)) ELSE block

\* Writing the header at the start extends the buffer by another header: two
\* words behind the variables that nobody wrote, zero in new memory.
Trailer(old, block) ==
    [i \in 1..2 |-> IF Len(block) + i <= Len(old) THEN old[Len(block) + i] ELSE Zero]

Content(size) == [i \in 1..size |-> <<"body", calls + 1>>]

\* What the handler is meant to find; variables without a value are not kept.
Meant(list, size) ==
    [vars |-> {<<v.key, v.val>>: v \in {w \in ToSet(AllVars(list, size)): w.val # Empty}},
     content |-> Content(size)]
-----------------------------------------------------------------------------
(* The client.  A step of it leaves the server alone unless it says more.  *)

\* open(), also at the end of readEnd.
Open ==
    /\ call = "closed"
    /\ call' = "open" /\ connected' = TRUE
    /\ NewTask
    /\ UNCHANGED <<calls, objectVars, historyVars>>

\* connect fails, and the socket stays open: isOpen() is TRUE.  (One connection
\* is looked at after the other.)
OpenFails ==
    /\ call = "closed" /\ at \in {"none", "ended"}
    /\ call' = "open" /\ connected' = FALSE
    /\ at' = "none" /\ outcome' = "none"
    /\ UNCHANGED <<calls, objectVars, historyVars,
                   wireVars, nonblock, m_events, reqVars, resVars>>

\* write() and the first part of flush(): the message is added to the content,
\* and prepare_data_buffer is called if the request is READY.
Flush(list, size) ==
    LET block == VarBlock(list, size) IN
    /\ call = "open"
    /\ calls < MaxCalls /\ calls' = calls + 1
    /\ call' = "headers"
    /\ content' = content \o Content(size)
    /\ asked' = Meant(list, size)
    /\ used' = TRUE /\ fresh' = ~used
    /\ IF req_state = "READY"
         THEN /\ req_state' = "WRITE_DATA"
              /\ data' = <<<<"mod", mod>>, <<"size", DataSize(block)>>>> \o block \o Trailer(mem, block)
              /\ mem' = Memory(mem, block)
              /\ clean' = (Trailer(mem, block) = <<Zero, Zero>>)
         ELSE UNCHANGED <<req_state, data, mem, clean>>
    /\ UNCHANGED <<connected, mod, got, done, misread, serverVars>>

\* write_headers: the socket blocks, so it takes all.
WriteHeaders ==
    /\ call = "headers" /\ (req_state = "WRITE_DATA" => connected)
    /\ call' = "content"
    /\ IF req_state = "WRITE_DATA"
         THEN /\ up' = up \o data
              /\ data' = <<>>
              /\ req_state' = IF content = <<>> THEN "DONE" ELSE "WRITE_CONTENT"
         ELSE UNCHANGED <<up, data, req_state>>
    /\ UNCHANGED <<calls, connected, mod, content, mem, got, done, historyVars,
                   down, closed, nonblock, at, m_events, reqVars, resVars, outcome>>

WriteContent ==
    /\ call = "content" /\ (req_state = "WRITE_CONTENT" => connected)
    /\ call' = "reading"
    /\ IF req_state = "WRITE_CONTENT"
         THEN up' = up \o content /\ content' = <<>> /\ req_state' = "DONE"
         ELSE UNCHANGED <<up, content, req_state>>
    /\ UNCHANGED <<calls, connected, mod, data, mem, got, done, historyVars,
                   down, closed, nonblock, at, m_events, reqVars, resVars, outcome>>

\* An exception leaves flush, and the object as it is.
Throw ==
    /\ call' = "failed"
    /\ UNCHANGED <<calls, connected, objectVars, historyVars, serverVars>>

\* socket::write throws: there is no connection, or the server has closed it.
FlushWriteFails ==
    /\ \/ call = "headers" /\ req_state = "WRITE_DATA"
       \/ call = "content" /\ req_state = "WRITE_CONTENT"
    /\ ~connected \/ at = "ended"
    /\ Throw

\* m_content_length == offset_write - m_content_start.  The content starts at 0
\* as long as the empty line, the last word of the headers, has not been read,
\* and the length is known from the word before it.
Complete(g) ==
    IF Len(g) < HeaderSize THEN Len(g) = HeaderSize - 1 /\ g[1][2] = Len(g)
                           ELSE Len(g) = HeaderSize + g[1][2]

\* The loop of flush reads until done(), and that of read_data reads again
\* whenever a read filled all the room there was.
ReadsResponse == call = "again" \/ (call = "reading" /\ ~done)

ReadResponse(n, full) ==
    /\ ReadsResponse /\ connected
    /\ n \in 1..Len(down)
    /\ got' = got \o SubSeq(down, 1, n)
    /\ down' = SubSeq(down, n + 1, Len(down))
    /\ done' = (done \/ Complete(got'))
    /\ misread' = (misread \/ (done' /\ Len(got') < HeaderSize))
    /\ call' = IF full THEN "again" ELSE "reading"
    /\ UNCHANGED <<calls, connected, requestVars, asked, clean, used, fresh,
                   up, closed, nonblock, at, m_events, reqVars, resVars, outcome>>

\* The connection is closed, or reset because the server left something unread.
FlushReadFails ==
    /\ ReadsResponse
    /\ ~connected \/ (at = "ended" /\ (down = <<>> \/ up # <<>>))
    /\ Throw

FlushReturns ==
    /\ call = "reading" /\ done
    /\ call' = "returned"
    /\ UNCHANGED <<calls, connected, objectVars, historyVars, serverVars>>

\* A mutated form of readEnd: the response is not cleared.
readEnd_response ==
    /\ call = "returned"
    /\ call' = "closed" /\ connected' = FALSE
    /\ req_state' = "READY" /\ mod' = 0 /\ data' = <<>> /\ content' = <<>>
    /\ used' = FALSE
    /\ closed' = TRUE
    /\ UNCHANGED <<calls, mem, got, done, asked, clean, fresh, misread,
                   up, down, nonblock, at, m_events, reqVars, resVars, outcome>>

\* readEnd: both objects are cleared, which keeps the memory of the buffers, and
\* the connection is closed; then it calls open.
readEnd ==
    /\ call = "returned"
    /\ call' = "closed" /\ connected' = FALSE
    /\ req_state' = "READY" /\ mod' = 0 /\ data' = <<>> /\ content' = <<>>
    /\ got' = <<>> /\ done' = FALSE
    /\ used' = FALSE /\ misread' = FALSE
    /\ closed' = TRUE
    /\ UNCHANGED <<calls, mem, asked, clean, fresh,
                   up, down, nonblock, at, m_events, reqVars, resVars, outcome>>

\* Nobody reads the answer to a oneway call, so readEnd is not called.
OnewayReturns ==
    /\ call = "returned"
    /\ call' = "open"
    /\ UNCHANGED <<calls, connected, objectVars, historyVars, serverVars>>

\* close(): the application gives up the connection and keeps the object.
Close ==
    /\ call \in {"open", "failed"}
    /\ call' = "closed" /\ connected' = FALSE
    /\ closed' = (closed \/ connected)
    /\ UNCHANGED <<calls, objectVars, historyVars,
                   up, down, nonblock, at, m_events, reqVars, resVars, outcome>>

\* A new object, in place of the old one or in a new process.  The constructors
\* for a remote leave modifier1 to chance.
NewClient ==
    /\ call' = "closed" /\ connected' = FALSE
    /\ req_state' = "READY" /\ mod' \in Modifiers
    /\ data' = <<>> /\ content' = <<>> /\ mem' = <<>> /\ got' = <<>> /\ done' = FALSE
    /\ used' = FALSE /\ misread' = FALSE
    /\ closed' = (closed \/ connected)
    /\ UNCHANGED <<calls, asked, clean, fresh,
                   up, down, nonblock, at, m_events, reqVars, resVars, outcome>>
-----------------------------------------------------------------------------
ClientStep ==
    \/ WriteHeaders \/ WriteContent \/ FlushWriteFails
    \/ \E n \in 1..Len(down), full \in BOOLEAN: ReadResponse(n, full)
    \/ FlushReadFails \/ FlushReturns

Next ==
    \/ Open \/ OpenFails \/ Close \/ NewClient
    \/ \E list \in VarLists, size \in ContentSizes: Flush(list, size)
    \/ ClientStep \/ readEnd \/ OnewayReturns
    \/ ServerStep /\ UNCHANGED clientVars

\* The client and the server's handlers run, and what was sent arrives.
Fairness ==
    /\ WF_vars(ClientStep)
    /\ WF_vars(Receive /\ UNCHANGED clientVars)
    /\ WF_vars(Respond /\ UNCHANGED clientVars)

Spec == Init /\ [][Next]_vars /\ Fairness
-----------------------------------------------------------------------------
(* Safety                                                                  *)

\* handle_request is called "after a uwsgi request has been deserialized
\* successfully": wherever the stream was cut, it finds the variables and the
\* content that prepare_data_buffer wrote, and nothing of them is left over,
\* unless the words behind the variables are those of an earlier request, or
\* the object was used again without readEnd.  parse_vars reads a length only
\* where one was written, with the first exception, and the task takes no
\* connection for closed that the client has not closed.
SeenAsSent ==
    /\ at = "request" /\ clean /\ fresh =>
        [vars |-> m_headers, content |-> m_content] = asked /\ up = <<>>
    /\ outcome = "error" => ~clean
    /\ outcome = "closed" /\ modifier1 = 0 => closed

\* What flush leaves for the caller to read is the answer that the server made
\* for this very call: each of its words, in order, and none of an answer to an
\* earlier call, however the two streams were cut and whatever earlier objects
\* and connections left behind.  Two cases are different: an object that was
\* used again without readEnd, and an answer that was DONE before its headers
\* ended, because its length is that of the headers read so far.
ReplyIsOurs ==
    call = "returned" /\ fresh /\ ~misread =>
        /\ got = reply
        /\ \A i \in DOMAIN got: got[i][1] = "body" =>
              got[i][2] = IF asked.content = <<>> THEN 0 ELSE calls

\* A call returns or throws: client and server do not wait for each other.
\* Two cases are different.  The first request of an object may be no
\* UWSGI_VARS packet, which nobody answers or refuses; and an object that was
\* used again without readEnd sends its request in part or not at all.
CallReturns == call \in InCall ~> call \notin InCall \/ modifier1 # 0 \/ ~fresh
=============================================================================
