-------------------------- MODULE HttpSenderProofs --------------------------
(***************************************************************************)
(* Theorems about HttpSender, for buffers, requests and responses of any   *)
(* size and any cut of the stream: the buffer is not overrun, the handler  *)
(* sees the content that was sent, and no complete response is lost.       *)
(***************************************************************************)
EXTENDS HttpSender, ListLemmas

\* What was read fits into the buffer, with room for the zero behind it, and
\* no position is behind what was read.
SizePart ==
    /\ Len(buf) <= m_size /\ m_size <= capacity
    /\ m_last_line_start <= Len(buf)
    /\ m_content_start <= Len(buf)
    /\ offset_read <= Len(buf)
    /\ at \in {"parse", "check"} => Len(buf) < m_size

\* What is left to write of the request.
Left == Request!ToWrite(HeaderSize) + req_content

\* A request is written until nothing of it is left; then the request object is
\* as new, and the sender waits for the response.
RequestPart ==
    /\ at = "new" => requests = 0 /\ m_events = "WRITE"
    /\ at \notin {"new", "watch", "ended"} => m_events = "READ"
    /\ at = "new" \/ m_events = "READ" => req_state = "READY"
    /\ at # "new" /\ m_events = "WRITE" =>
          /\ up + Left = asked /\ Left > 0 /\ req_state # "DONE"
          /\ Len(handled) < requests

\* Between two responses nothing is left of the last one.  The task has ended
\* because the server is gone, or because its handler wanted it.
Idle ==
    /\ buf = <<>> /\ down = <<>> /\ m_state = "READY"
    /\ m_content_start = 0 /\ m_last_line_start = 0 /\ m_line_number = 0
    /\ m_content_length = 0 /\ ~m_content_length_exists /\ ~m_chunked_enc
    /\ at \in {"new", "watch", "ended"}
    /\ at = "ended" => closed \/ requests = Len(handled)

\* The buffer and the connection hold the stream of one response.
Arrived(layout, len) ==
    LET stream == Stream(layout, len, Len(sent)) IN
    /\ Len(buf) + Len(down) = Len(stream)
    /\ \A i \in 1..Len(buf): buf[i] = stream[i]
    /\ \A i \in 1..Len(down): down[i] = stream[Len(buf) + i]

\* The parser's variables say what the first m_line_number lines are.
LinesParsed(layout, len) ==
    /\ m_line_number <= Len(layout)
    /\ \A i \in 1..m_line_number:
          layout[i] \in (IF i = 1 THEN {"S"} ELSE {"H", "L", "T"})
    /\ m_content_length_exists <=> \E i \in 1..m_line_number: layout[i] = "L"
    /\ m_content_length = IF m_content_length_exists THEN len ELSE 0
    /\ m_chunked_enc <=> \E i \in 1..m_line_number: layout[i] = "T"

\* The next line break has not arrived.
LineIncomplete(layout) ==
    Len(buf) < 3 * m_line_number + (IF m_line_number < Len(layout) THEN 3 ELSE 2)

\* Where the parser is in the stream, for every place of read_data.
Position(layout, len) ==
    /\ m_state = "READY" => at \in {"watch", "ended"} /\ buf = <<>> /\ m_line_number = 0
    /\ m_state \in {"READY", "READ_DATA"} =>
          /\ m_content_start = 0
          /\ 3 * m_line_number <= Len(buf)
          /\ m_last_line_start = 3 * m_line_number
                \/ (m_line_number > 0 /\ m_last_line_start = 3 * m_line_number - 1)
    /\ m_state = "READ_DATA" => at \notin {"new", "respond"}
    /\ m_state = "READ_DATA" /\ at \in {"check", "loop", "watch"} => LineIncomplete(layout)
    /\ m_state \in {"READ_CONTENT", "DONE"} =>
          /\ m_line_number = Len(layout) /\ ~m_chunked_enc /\ m_content_length_exists
          /\ m_content_start = 3 * Len(layout) + 2
    /\ m_state = "READ_CONTENT" => at \in {"check", "loop", "watch", "ended"}
    /\ m_state = "READ_CONTENT" /\ at \in {"loop", "watch"} => down # <<>>
    /\ m_state = "DONE" =>
          /\ at = "respond" /\ down = <<>>
          /\ offset_read = m_content_start /\ m_size = Len(buf)

\* A response is under way; it is refused only if it is not Good.
Reads(layout, len) ==
    /\ Arrived(layout, len)
    /\ LinesParsed(layout, len)
    /\ Position(layout, len)
    /\ sent[Len(sent)] = Body(len, Len(sent))
    /\ ~bad => Good(layout)
    /\ at = "ended" => bad
    /\ m_events = "READ"

CountPart == Len(handled) <= Len(sent) /\ Len(sent) <= requests /\ requests <= Len(handled) + 1
IdlePart == Len(sent) = Len(handled) => Idle
FlightPart == Len(sent) > Len(handled) =>
                 \E layout \in Layouts, len \in Lengths: Reads(layout, len)
HandledPart == \A i \in 1..Len(handled):
                 handled[i].data = sent[i] /\ handled[i].to_read = Len(sent[i])

FlowPart == CountPart /\ IdlePart /\ FlightPart /\ HandledPart

IInv == TypeOK /\ SizePart /\ RequestPart /\ (~misread => FlowPart)
-----------------------------------------------------------------------------
(* Numbers and lists                                                       *)

\* The least element of a set of numbers, when it is known.
LEMMA MinIs ==
    ASSUME NEW S, S \subseteq Nat, NEW x \in S, \A y \in S: x <= y
    PROVE  Min(S) = x
<1>1. Min(S) \in S /\ Min(S) <= x
  BY MinNat
<1>2. x <= Min(S) /\ x \in Nat /\ Min(S) \in Nat
  BY <1>1
<1> HIDE DEF Min
<1> QED
  BY <1>1, <1>2

\* n bytes move from the front of one list to the end of another.
LEMMA MoveElements ==
    ASSUME NEW S, NEW b \in Seq(S), NEW d \in Seq(S), NEW n \in 0..Len(d)
    PROVE  /\ b \o SubSeq(d, 1, n) \in Seq(S) /\ SubSeq(d, n + 1, Len(d)) \in Seq(S)
           /\ Len(b \o SubSeq(d, 1, n)) = Len(b) + n
           /\ Len(SubSeq(d, n + 1, Len(d))) = Len(d) - n
           /\ \A i \in 1..Len(b): (b \o SubSeq(d, 1, n))[i] = b[i]
           /\ \A i \in 1..n: (b \o SubSeq(d, 1, n))[Len(b) + i] = d[i]
           /\ \A i \in 1..(Len(d) - n): SubSeq(d, n + 1, Len(d))[i] = d[n + i]
<1> DEFINE l == SubSeq(d, 1, n)
           r == SubSeq(d, n + 1, Len(d))
<1>1. Len(b) \in Nat /\ Len(d) \in Nat
  OBVIOUS
<1>2. l \in Seq(S) /\ Len(l) = n /\ \A i \in 1..n: l[i] = d[i]
  BY <1>1
<1>3. r \in Seq(S) /\ Len(r) = Len(d) - n /\ \A i \in 1..(Len(d) - n): r[i] = d[n + i]
  BY <1>1
<1> HIDE DEF l, r
<1>4. /\ b \o l \in Seq(S) /\ Len(b \o l) = Len(b) + n
      /\ \A i \in 1..Len(b): (b \o l)[i] = b[i]
      /\ \A i \in 1..n: (b \o l)[Len(b) + i] = l[i]
  BY <1>1, <1>2
<1> QED
  BY <1>2, <1>3, <1>4 DEF l, r
-----------------------------------------------------------------------------
(* The stream of a response                                                *)

\* A layout is a list of lines, a length is a number.
LEMMA Sizes ==
    ASSUME NEW layout \in Layouts, NEW len \in Lengths
    PROVE  /\ Len(layout) \in Nat /\ len \in Nat
           /\ \A i \in 1..Len(layout): layout[i] \in {"S", "E", "H", "L", "T", "B"}
BY HttpSenderAssumption

LEMMA TextType ==
    ASSUME NEW kind \in {"S", "E", "H", "L", "T", "B"}, NEW len \in Nat
    PROVE  /\ Text(kind, len) \in Bytes /\ Text(kind, len) # LF /\ Text(kind, len) # CR
           /\ Text(kind, len)[1] = kind /\ (kind = "L" => Text(kind, len)[2] = len)
BY DEF Text, Bytes, LF, CR

LEMMA HeadersBytes ==
    ASSUME NEW layout \in Layouts, NEW len \in Lengths
    PROVE  /\ Headers(layout, len) \in Seq(Bytes)
           /\ Len(Headers(layout, len)) = 3 * Len(layout) + 2
           /\ \A i \in 1..Len(layout):
                 /\ Headers(layout, len)[3 * i - 2] = Text(layout[i], len)
                 /\ Headers(layout, len)[3 * i - 1] = CR
                 /\ Headers(layout, len)[3 * i] = LF
           /\ Headers(layout, len)[3 * Len(layout) + 1] = CR
           /\ Headers(layout, len)[3 * Len(layout) + 2] = LF
<1> DEFINE N == Len(layout)
           h == Headers(layout, len)
           byte(i) == IF i % 3 = 0 \/ i = 3 * N + 2 THEN LF
                      ELSE IF i % 3 = 2 \/ i = 3 * N + 1 THEN CR
                      ELSE Text(layout[(i + 2) \div 3], len)
<1>1. N \in Nat /\ len \in Nat /\ \A i \in 1..N: layout[i] \in {"S", "E", "H", "L", "T", "B"}
  BY Sizes
<1>2. h = [i \in 1..(3 * N + 2) |-> byte(i)]
  BY DEF Headers
<1>3. LF \in Bytes /\ CR \in Bytes
  BY DEF Bytes, LF, CR
<1>4. ASSUME NEW i \in 1..(3 * N + 2) PROVE byte(i) \in Bytes
  <2>1. CASE i % 3 = 1 /\ i <= 3 * N
    <3>1. (i + 2) \div 3 \in 1..N
      BY <1>1, <2>1
    <3> QED
      BY <1>1, <1>3, <3>1, TextType
  <2>2. CASE ~(i % 3 = 1 /\ i <= 3 * N)
    <3>1. i % 3 = 0 \/ i % 3 = 2 \/ i = 3 * N + 1 \/ i = 3 * N + 2
      BY <1>1, <2>2
    <3> QED
      BY <1>3, <3>1
  <2> QED
    BY <2>1, <2>2
<1>5. ASSUME NEW i \in 1..N
      PROVE  /\ 3 * i - 2 \in 1..(3 * N + 2) /\ byte(3 * i - 2) = Text(layout[i], len)
             /\ 3 * i - 1 \in 1..(3 * N + 2) /\ byte(3 * i - 1) = CR
             /\ 3 * i \in 1..(3 * N + 2) /\ byte(3 * i) = LF
  <2>1. /\ (3 * i - 2) % 3 = 1 /\ ((3 * i - 2) + 2) \div 3 = i /\ 3 * i - 2 <= 3 * N
        /\ (3 * i - 1) % 3 = 2 /\ 3 * i - 1 <= 3 * N /\ (3 * i) % 3 = 0
    BY <1>1
  <2> QED
    BY <1>1, <2>1
<1>6. byte(3 * N + 1) = CR /\ byte(3 * N + 2) = LF
  <2>1. (3 * N + 1) % 3 = 1
    BY <1>1
  <2> QED
    BY <1>1, <2>1
<1>7. 3 * N + 1 \in 1..(3 * N + 2) /\ 3 * N + 2 \in 1..(3 * N + 2) /\ 3 * N + 2 \in Nat
  BY <1>1
<1> HIDE DEF byte, N, h
<1>8. h \in Seq(Bytes) /\ Len(h) = 3 * N + 2
  BY <1>2, <1>4, <1>7
<1>9. \A i \in 1..N: h[3 * i - 2] = Text(layout[i], len) /\ h[3 * i - 1] = CR /\ h[3 * i] = LF
  BY <1>2, <1>5
<1>10. h[3 * N + 1] = CR /\ h[3 * N + 2] = LF
  BY <1>2, <1>6, <1>7
<1> QED
  BY <1>8, <1>9, <1>10 DEF h, N

LEMMA BodyType ==
    ASSUME NEW len \in Nat, NEW k \in Nat
    PROVE  Body(len, k) \in Seq(Bytes) /\ Len(Body(len, k)) = len
<1>1. \A i \in 1..len:
        (IF i = 1 THEN CR ELSE IF i = 2 THEN LF ELSE <<"x", k>>) \in Bytes
  BY DEF Bytes, CR, LF
<1> QED
  BY <1>1 DEF Body

\* The bytes of a response.
LEMMA StreamBytes ==
    ASSUME NEW layout \in Layouts, NEW len \in Lengths, NEW k \in Nat
    PROVE  LET s == Stream(layout, len, k) IN
           /\ s \in Seq(Bytes) /\ Len(s) = 3 * Len(layout) + 2 + len
           /\ \A i \in 1..Len(layout):
                 s[3 * i - 2] = Text(layout[i], len) /\ s[3 * i - 1] = CR /\ s[3 * i] = LF
           /\ s[3 * Len(layout) + 1] = CR /\ s[3 * Len(layout) + 2] = LF
           /\ \A i \in 1..len: s[3 * Len(layout) + 2 + i] = Body(len, k)[i]
<1> DEFINE N == Len(layout)
           h == Headers(layout, len)
           b == Body(len, k)
           s == h \o b
<1>1. N \in Nat /\ len \in Nat
  BY Sizes
<1>2. b \in Seq(Bytes) /\ Len(b) = len
  BY <1>1, BodyType
<1>3. /\ h \in Seq(Bytes) /\ Len(h) = 3 * N + 2
      /\ \A i \in 1..N: h[3 * i - 2] = Text(layout[i], len) /\ h[3 * i - 1] = CR /\ h[3 * i] = LF
      /\ h[3 * N + 1] = CR /\ h[3 * N + 2] = LF
  BY HeadersBytes
<1> HIDE DEF h, b, N
<1>4. /\ s \in Seq(Bytes) /\ Len(s) = 3 * N + 2 + len
      /\ \A i \in 1..(3 * N + 2): s[i] = h[i]
      /\ \A i \in 1..len: s[3 * N + 2 + i] = b[i]
  <2>1. /\ s \in Seq(Bytes) /\ Len(s) = Len(h) + Len(b)
        /\ \A i \in 1..Len(h): s[i] = h[i]
        /\ \A i \in 1..Len(b): s[Len(h) + i] = b[i]
    <3>1. h \in Seq(Bytes) /\ b \in Seq(Bytes)
      BY <1>2, <1>3
    <3> QED
      BY <3>1
  <2> QED
    BY <1>2, <1>3, <2>1
<1>5. \A i \in 1..N: /\ 3 * i - 2 \in 1..(3 * N + 2) /\ 3 * i - 1 \in 1..(3 * N + 2)
                     /\ 3 * i \in 1..(3 * N + 2)
  BY <1>1
<1>6. 3 * N + 1 \in 1..(3 * N + 2) /\ 3 * N + 2 \in 1..(3 * N + 2)
  BY <1>1
<1>7. Stream(layout, len, k) = s
  BY DEF Stream, h, b
<1> HIDE DEF s
<1>8. \A i \in 1..N: s[3 * i - 2] = Text(layout[i], len) /\ s[3 * i - 1] = CR /\ s[3 * i] = LF
  BY <1>3, <1>4, <1>5
<1>9. s[3 * N + 1] = CR /\ s[3 * N + 2] = LF
  BY <1>3, <1>4, <1>6
<1> QED
  BY <1>4, <1>7, <1>8, <1>9 DEF N, b
-----------------------------------------------------------------------------
(* The positions in the buffer                                             *)

\* The buffer is made large enough for another byte and a zero.
LEMMA GrownSizeFits ==
    ASSUME TypeOK, SizePart
    PROVE  GrownSize \in Nat /\ Len(buf) < GrownSize
<1>1. Len(buf) \in Nat
  BY DEF TypeOK
<1> QED
  BY <1>1, HttpSenderAssumption DEF TypeOK, SizePart, GrownSize

\* set_size keeps m_size inside of the memory.
LEMMA SetSizeFits ==
    ASSUME TypeOK, NEW s \in Nat, set_size(s)
    PROVE  m_size' = s /\ capacity' \in Nat /\ m_size' <= capacity'
BY HttpSenderAssumption DEF TypeOK, set_size

LEMMA LineStartFits ==
    ASSUME TypeOK, SizePart
    PROVE  LineStart \in Nat /\ LineStart <= Len(buf)
<1>1. Len(buf) \in Nat
  BY DEF TypeOK
<1>2. Byte(m_last_line_start) = LF => m_last_line_start < Len(buf)
  BY <1>1 DEF TypeOK, Byte, LF
<1> QED
  BY <1>1, <1>2 DEF TypeOK, SizePart, LineStart

\* A line break is inside of what was read, and the line before it too.
LEMMA BreakFits ==
    ASSUME TypeOK, SizePart, Breaks # {}
    PROVE  /\ eol \in Nat /\ LineStart \in Nat
           /\ LineStart <= eol /\ eol + 2 <= Len(buf)
           /\ Byte(LineStart) \in Bytes
<1>1. Len(buf) \in Nat /\ LineStart \in Nat
  BY LineStartFits DEF TypeOK
<1>2. Breaks \subseteq Nat /\ \A p \in Breaks: LineStart <= p /\ p + 2 <= Len(buf)
  BY <1>1 DEF Breaks
<1>3. eol \in Breaks
  BY <1>2, MinNat DEF eol
<1>4. LineStart <= eol /\ eol + 2 <= Len(buf) /\ eol \in Nat
  BY <1>2, <1>3
<1>5. LineStart < Len(buf) /\ LineStart + 1 \in 1..Len(buf)
  BY <1>1, <1>4
<1>6. Byte(LineStart) \in Bytes
  BY <1>5 DEF TypeOK, Byte
<1> QED
  BY <1>1, <1>4, <1>6
-----------------------------------------------------------------------------
(* Types                                                                   *)

\* Every step keeps the types.
LEMMA TypeStep == TypeOK /\ SizePart /\ [Next]_vars => TypeOK'
<1> SUFFICES ASSUME TypeOK, SizePart, [Next]_vars PROVE TypeOK'
  OBVIOUS
<1> USE DEF reqVars, parseVars, bufVars, upVars, serverVars
<1>0. Len(buf) \in Nat /\ Len(down) \in Nat
  BY DEF TypeOK
<1>1. ASSUME NEW size \in RequestSizes, send(size) PROVE TypeOK'
  <2>1. size \in Nat /\ RequestSize(size) \in Nat
    BY HttpSenderAssumption DEF RequestSize
  <2>2. requests' \in 0..MaxRequests
    BY <1>1, HttpSenderAssumption DEF TypeOK, send
  <2>3. Request!BaseTypeOK'
    BY <1>1, <2>1 DEF TypeOK, send, Request!BaseTypeOK
  <2> QED
    BY <1>1, <2>1, <2>2, <2>3 DEF TypeOK, send
<1>2. ASSUME NEW nd \in 0..asked, NEW nc \in 0..asked, HandleWrite(nd, nc) PROVE TypeOK'
  <2>1. nd \in Nat /\ nc \in Nat
    BY DEF TypeOK
  <2>2. Request!BaseTypeOK'
    BY <1>2, <2>1, HttpSenderAssumption
       DEF TypeOK, HandleWrite, Request!BaseTypeOK, Request!clear, Request!write_data,
           Request!Takes, Request!Completes, Request!ToWrite
  <2>3. m_events' \in {"READ", "WRITE"} /\ up' \in Nat
    BY <1>2, <2>1 DEF TypeOK, HandleWrite
  <2> QED
    BY <1>2, <2>2, <2>3 DEF TypeOK, HandleWrite
<1>3. ASSUME Throw PROVE TypeOK'
  BY <1>3 DEF TypeOK, Throw, Request!BaseTypeOK
<1>4. ASSUME NEW n \in 1..Len(down), ReadBytes(n) PROVE TypeOK'
  <2>1. m_size' \in Nat /\ capacity' \in Nat
    BY <1>4, GrownSizeFits, SetSizeFits DEF ReadBytes
  <2>2. buf' \in Seq(Bytes) /\ down' \in Seq(Bytes)
    <3>1. n \in 0..Len(down) /\ buf \in Seq(Bytes) /\ down \in Seq(Bytes)
      BY <1>0 DEF TypeOK
    <3> QED
      BY <1>4, <3>1, MoveElements DEF ReadBytes
  <2>3. /\ m_state' \in {"READY", "READ_DATA", "READ_CONTENT", "DONE"} /\ full' \in BOOLEAN
        /\ at' \in {"parse", "check"}
    BY <1>4 DEF TypeOK, ReadBytes
  <2> QED
    BY <1>4, <2>1, <2>2, <2>3 DEF TypeOK, ReadBytes, Request!BaseTypeOK
<1>5. ASSUME ReadNothing PROVE TypeOK'
  <2>1. m_size' \in Nat /\ capacity' \in Nat
    BY <1>5, GrownSizeFits, SetSizeFits DEF ReadNothing
  <2> QED
    BY <1>5, <2>1 DEF TypeOK, ReadNothing, AfterLoop, Request!BaseTypeOK
<1>6. ASSUME ParseLine PROVE TypeOK'
  <2>1. eol \in Nat /\ Byte(LineStart) \in Bytes
    BY <1>6, BreakFits DEF ParseLine
  <2>2. Byte(LineStart)[2] \in Nat
    BY <2>1 DEF Bytes
  <2> QED
    BY <1>6, <2>1, <2>2 DEF TypeOK, ParseLine, Request!BaseTypeOK
<1>7. ASSUME ParseEnd PROVE TypeOK'
  <2>1. LineStart \in Nat
    BY LineStartFits
  <2> QED
    BY <1>7, <2>1 DEF TypeOK, ParseEnd, ContentStart, Request!BaseTypeOK
<1>8. ASSUME ParseRest PROVE TypeOK'
  <2>1. LineStart \in Nat
    BY LineStartFits
  <2> QED
    BY <1>8, <2>1 DEF TypeOK, ParseRest, Request!BaseTypeOK
<1>9. ASSUME CheckEnd PROVE TypeOK'
  <2>1. EndSize \in Nat
    BY DEF TypeOK, EndSize
  <2>2. m_size' \in Nat /\ capacity' \in Nat /\ offset_read' \in Nat
    BY <1>9, <2>1, SetSizeFits DEF TypeOK, CheckEnd
  <2>3. /\ m_state' \in {"READY", "READ_DATA", "READ_CONTENT", "DONE"} /\ misread' \in BOOLEAN
        /\ at' \in {"loop", "respond", "watch"}
    BY <1>9 DEF TypeOK, CheckEnd, AfterCheck, AfterLoop
  <2> QED
    BY <1>9, <2>2, <2>3 DEF TypeOK, CheckEnd, Request!BaseTypeOK
<1>10. ASSUME NEW success \in BOOLEAN, HandleResponse(success) PROVE TypeOK'
  <2> DEFINE item == [to_read |-> m_size - offset_read,
                      data |-> SubSeq(buf, offset_read + 1, EndOfData)]
  <2>1. m_size - offset_read \in Nat
    BY <1>0 DEF TypeOK, SizePart
  <2>2. EndOfData \in Nat /\ EndOfData <= Len(buf) /\ buf \in Seq(Bytes) /\ offset_read \in Nat
    BY <1>0 DEF TypeOK, EndOfData
  <2>3. SubSeq(buf, offset_read + 1, EndOfData) \in Seq(Bytes)
    BY <1>0, <2>2
  <2>4. item \in [to_read: Nat, data: Seq(Bytes)]
    BY <2>1, <2>3
  <2> HIDE DEF item
  <2>5. handled' \in Seq([to_read: Nat, data: Seq(Bytes)])
    <3>1. handled' = Append(handled, item)
      BY <1>10 DEF HandleResponse, item
    <3> QED
      BY <2>4, <3>1 DEF TypeOK
  <2>6. buf' \in Seq(Bytes)
    BY <1>10 DEF HandleResponse, clear
  <2> QED
    BY <1>10, <2>5, <2>6 DEF TypeOK, HandleResponse, clear, Request!BaseTypeOK
<1>11. ASSUME NEW layout \in Layouts, NEW len \in Lengths, Answer(layout, len) PROVE TypeOK'
  <2>1. requests \in Nat /\ len \in Nat
    BY Sizes, HttpSenderAssumption DEF TypeOK
  <2>2. Stream(layout, len, requests) \in Seq(Bytes)
    BY <2>1, StreamBytes
  <2>3. Body(len, requests) \in Seq(Bytes)
    BY <2>1, BodyType
  <2>4. down' \in Seq(Bytes)
    BY <1>11, <2>2 DEF TypeOK, Answer
  <2>5. sent' \in Seq(Seq(Bytes))
    BY <1>11, <2>3 DEF TypeOK, Answer
  <2> QED
    BY <1>11, <2>4, <2>5 DEF TypeOK, Answer, Request!BaseTypeOK
<1>12. ASSUME Close PROVE TypeOK'
  BY <1>12 DEF TypeOK, Close, Request!BaseTypeOK
<1>13. ASSUME UNCHANGED vars PROVE TypeOK'
  BY <1>13 DEF TypeOK, vars, Request!BaseTypeOK
<1> QED
  BY <1>1, <1>2, <1>3, <1>4, <1>5, <1>6, <1>7, <1>8, <1>9, <1>10, <1>11, <1>12, <1>13
     DEF Next, Handle, Receive, Serve, ReadClosed, WriteFails, ParseFails
-----------------------------------------------------------------------------
(* The buffer                                                              *)

\* Every step keeps the positions inside of the buffer.
LEMMA SizeStep == TypeOK /\ SizePart /\ [Next]_vars => SizePart'
<1> SUFFICES ASSUME TypeOK, SizePart, [Next]_vars PROVE SizePart'
  OBVIOUS
<1> USE DEF reqVars, parseVars, bufVars, upVars, serverVars
<1>0. Len(buf) \in Nat /\ Len(down) \in Nat
  BY DEF TypeOK
<1>1. ASSUME UNCHANGED <<parseVars, bufVars>>, at' \notin {"parse", "check"} \/ at' = at
      PROVE  SizePart'
  BY <1>1 DEF SizePart
<1>4. ASSUME NEW n \in 1..Len(down), ReadBytes(n) PROVE SizePart'
  <2>1. GrownSize \in Nat /\ Len(buf) < GrownSize /\ m_size' = GrownSize /\ m_size' <= capacity'
    BY <1>4, GrownSizeFits, SetSizeFits DEF ReadBytes
  <2>2. Len(buf') = Len(buf) + n
    <3>1. n \in 0..Len(down) /\ buf \in Seq(Bytes) /\ down \in Seq(Bytes)
      BY <1>0 DEF TypeOK
    <3> QED
      BY <1>4, <3>1, MoveElements DEF ReadBytes
  <2>3. Len(buf') < m_size'
    BY <1>0, <1>4, <2>1, <2>2 DEF ReadBytes, towrite
  <2> QED
    BY <1>0, <1>4, <2>1, <2>2, <2>3 DEF TypeOK, SizePart, ReadBytes
<1>5. ASSUME ReadNothing PROVE SizePart'
  <2>1. GrownSize \in Nat /\ Len(buf) < GrownSize /\ m_size' = GrownSize /\ m_size' <= capacity'
    BY <1>5, GrownSizeFits, SetSizeFits DEF ReadNothing
  <2> QED
    BY <1>0, <1>5, <2>1 DEF TypeOK, SizePart, ReadNothing, AfterLoop
<1>6. ASSUME ParseLine PROVE SizePart'
  <2>1. eol \in Nat /\ eol + 2 <= Len(buf)
    BY <1>6, BreakFits DEF ParseLine
  <2> QED
    BY <1>0, <1>6, <2>1 DEF TypeOK, SizePart, ParseLine
<1>7. ASSUME ParseEnd PROVE SizePart'
  <2>1. LineStart \in Nat /\ LineStart + 2 <= Len(buf)
    BY <1>7, BreakFits DEF ParseEnd
  <2> QED
    BY <1>0, <1>7, <2>1 DEF TypeOK, SizePart, ParseEnd, ContentStart
<1>8. ASSUME ParseRest PROVE SizePart'
  <2>1. LineStart \in Nat /\ LineStart <= Len(buf)
    BY LineStartFits
  <2> QED
    BY <1>0, <1>8, <2>1 DEF TypeOK, SizePart, ParseRest
<1>9. ASSUME CheckEnd PROVE SizePart'
  <2>1. at' \notin {"parse", "check"}
    BY <1>9 DEF CheckEnd, AfterCheck, AfterLoop
  <2>2. CASE Complete
    <3>1. EndSize = Len(buf) /\ EndSize \in Nat
      BY <1>0, <2>2 DEF TypeOK, Complete, EndSize
    <3>2. m_size' = Len(buf) /\ m_size' <= capacity'
      BY <1>9, <2>2, <3>1, SetSizeFits DEF CheckEnd
    <3> QED
      BY <1>0, <1>9, <2>1, <2>2, <3>2 DEF TypeOK, SizePart, CheckEnd
  <2>3. CASE ~Complete
    BY <1>9, <2>1, <2>3 DEF SizePart, CheckEnd
  <2> QED
    BY <2>2, <2>3
<1>10. ASSUME NEW success \in BOOLEAN, HandleResponse(success) PROVE SizePart'
  <2>1. Len(buf') = 0
    BY <1>10 DEF HandleResponse, clear
  <2> QED
    BY <1>10, <2>1 DEF TypeOK, SizePart, HandleResponse, clear
<1>11. CASE UNCHANGED vars
  BY <1>1, <1>11 DEF vars
<1>12. CASE (\E size \in RequestSizes: send(size)) \/ Throw
  BY <1>1, <1>12 DEF send, Throw
<1>13. CASE \E nd, nc \in 0..asked: HandleWrite(nd, nc)
  BY <1>1, <1>13 DEF HandleWrite
<1>14. CASE (\E layout \in Layouts, len \in Lengths: Answer(layout, len)) \/ Close
  BY <1>1, <1>14 DEF Answer, Close
<1> QED
  BY <1>4, <1>5, <1>6, <1>7, <1>8, <1>9, <1>10, <1>11, <1>12, <1>13, <1>14
     DEF Next, Handle, Receive, Serve, ReadClosed, WriteFails, ParseFails
-----------------------------------------------------------------------------
(* The request                                                             *)

\* What HandleWrite does to the request.
LEMMA WriteLeaves ==
    ASSUME TypeOK, RequestPart, NEW nd \in 0..asked, NEW nc \in 0..asked, HandleWrite(nd, nc)
    PROVE  \/ m_events' = "READ" /\ req_state' = "READY" /\ up' = asked
           \/ /\ m_events' = "WRITE" /\ req_state' \in {"WRITE_DATA", "WRITE_CONTENT"}
              /\ up' + Left' = asked /\ Left' > 0
<1>1. /\ nd \in Nat /\ nc \in Nat /\ HeaderSize \in Nat /\ asked \in Nat /\ up \in Nat
      /\ req_data \in Nat /\ req_content \in Nat
  BY HttpSenderAssumption DEF TypeOK, Request!BaseTypeOK
<1>2. /\ at = "watch" /\ m_events = "WRITE" /\ up' = up + nd + nc
      /\ Request!Takes(HeaderSize, nd, nc)
  BY DEF HandleWrite
<1>3. up + Left = asked
  BY <1>2 DEF RequestPart
<1> DEFINE W == Request!ToWrite(HeaderSize)
<1>4. W \in Nat
  BY <1>1 DEF Request!ToWrite
<1>5. CASE Request!Completes(HeaderSize, nd, nc)
  <2>1. nd = W /\ nc = req_content
    BY <1>5 DEF Request!Completes
  <2>2. up' = asked
    BY <1>1, <1>2, <1>3, <1>4, <2>1 DEF Left
  <2> QED
    BY <1>5, <2>2 DEF HandleWrite, Request!clear
<1>6. CASE ~Request!Completes(HeaderSize, nd, nc)
  <2>1. Request!write_data(HeaderSize, nd, nc) /\ m_events' = "WRITE"
    BY <1>2, <1>6 DEF HandleWrite
  <2>2. /\ req_data' = W - nd /\ req_content' = req_content - nc
        /\ req_state' \in {"WRITE_DATA", "WRITE_CONTENT"}
    BY <1>6, <2>1 DEF Request!write_data
  <2>3. Left' = (W - nd) + (req_content - nc)
    BY <2>2 DEF Left, Request!ToWrite
  <2>4. nd <= W /\ nc <= req_content /\ ~(nd = W /\ nc = req_content)
    BY <1>2, <1>6 DEF Request!Takes, Request!Completes
  <2>5. up' + Left' = asked /\ Left' > 0
    <3> HIDE DEF W
    <3>1. up + (W + req_content) = asked
      BY <1>3 DEF Left, W
    <3> QED
      BY <1>1, <1>2, <1>4, <2>3, <2>4, <3>1
  <2> QED
    BY <2>1, <2>2, <2>5
<1> QED
  BY <1>5, <1>6

\* Every step keeps the accounts of the request.
LEMMA RequestStep == TypeOK /\ RequestPart /\ [Next]_vars => RequestPart'
<1> SUFFICES ASSUME TypeOK, RequestPart, [Next]_vars PROVE RequestPart'
  OBVIOUS
<1> USE DEF reqVars, parseVars, bufVars, upVars, serverVars
<1>0. requests \in Nat /\ Len(handled) \in Nat /\ asked \in Nat /\ up \in Nat
  BY HttpSenderAssumption DEF TypeOK
<1>1. ASSUME UNCHANGED <<m_events, reqVars, upVars, handled>>,
             at' = at \/ (at # "new" /\ at' = "ended")
      PROVE  RequestPart'
  BY <1>1 DEF RequestPart, Left, Request!ToWrite
<1>2. ASSUME UNCHANGED <<m_events, reqVars, upVars>>,
             at \notin {"new", "watch", "ended"}, at' # "new"
      PROVE  RequestPart'
  BY <1>2 DEF RequestPart
<1>3. ASSUME UNCHANGED <<m_events, reqVars, upVars>>, at # "new", m_events = "READ", at' # "new"
      PROVE  RequestPart'
  BY <1>3 DEF RequestPart
<1>4. ASSUME NEW size \in RequestSizes, send(size) PROVE RequestPart'
  <2>1. size \in Nat /\ HeaderSize \in Nat /\ HeaderSize > 0
    BY HttpSenderAssumption
  <2>2. req_state = "READY"
    BY <1>0, <1>4 DEF TypeOK, RequestPart, send
  <2>3. /\ req_state' = "READY" /\ req_content' = size /\ asked' = HeaderSize + size /\ up' = 0
        /\ at' = "watch" /\ m_events' = "WRITE" /\ Len(handled') < requests'
    BY <1>0, <1>4, <2>2 DEF send, RequestSize
  <2>4. Left' = HeaderSize + size
    BY <2>3 DEF Left, Request!ToWrite
  <2>5. up' + Left' = asked' /\ Left' > 0
    BY <2>1, <2>3, <2>4
  <2> QED
    BY <2>3, <2>5 DEF RequestPart
<1>5. ASSUME NEW nd \in 0..asked, NEW nc \in 0..asked, HandleWrite(nd, nc) PROVE RequestPart'
  <2>1. /\ at = "watch" /\ m_events = "WRITE" /\ at' = "watch"
        /\ UNCHANGED <<requests, asked, handled>>
    BY <1>5 DEF HandleWrite
  <2>2. Len(handled') < requests'
    BY <2>1 DEF RequestPart
  <2> QED
    BY <1>5, <2>1, <2>2, WriteLeaves DEF RequestPart
<1>6. ASSUME NEW n \in 1..Len(down), ReadBytes(n) PROVE RequestPart'
  <2>1. CASE at = "loop"
    BY <1>2, <1>6, <2>1 DEF ReadBytes
  <2>2. CASE at = "watch" /\ m_events = "READ"
    BY <1>3, <1>6, <2>2 DEF ReadBytes
  <2> QED
    BY <1>6, <2>1, <2>2 DEF ReadBytes, Reading
<1>7. CASE ReadNothing \/ ParseLine \/ ParseEnd \/ ParseRest \/ CheckEnd
  <2>1. CASE ReadNothing
    BY <1>2, <2>1 DEF ReadNothing, AfterLoop
  <2>2. CASE ParseLine
    BY <1>2, <2>2 DEF ParseLine
  <2>3. CASE ParseEnd
    BY <1>2, <2>3 DEF ParseEnd
  <2>4. CASE ParseRest
    BY <1>2, <2>4 DEF ParseRest
  <2>5. CASE CheckEnd
    BY <1>2, <2>5 DEF CheckEnd, AfterCheck, AfterLoop
  <2> QED
    BY <1>7, <2>1, <2>2, <2>3, <2>4, <2>5
<1>8. CASE \E success \in BOOLEAN: HandleResponse(success)
  BY <1>2, <1>8 DEF HandleResponse
<1>9. CASE UNCHANGED vars
  BY <1>1, <1>9 DEF vars
<1>10. CASE ReadClosed \/ WriteFails \/ ParseFails
  BY <1>1, <1>10 DEF ReadClosed, WriteFails, ParseFails, Reading, Throw
<1>11. CASE (\E layout \in Layouts, len \in Lengths: Answer(layout, len)) \/ Close
  BY <1>1, <1>11 DEF Answer, Close
<1> QED
  BY <1>4, <1>5, <1>6, <1>7, <1>8, <1>9, <1>10, <1>11
     DEF Next, Handle, Receive, Serve
-----------------------------------------------------------------------------
(* The parser in the headers                                               *)

\* While the headers are read, a byte of the buffer is one of the stream.
LEMMA ByteOfStream ==
    ASSUME TypeOK, NEW layout \in Layouts, NEW len \in Lengths, Arrived(layout, len),
           NEW p \in Nat, p < Len(buf)
    PROVE  Byte(p) = Stream(layout, len, Len(sent))[p + 1]
<1>1. Len(buf) \in Nat /\ p + 1 \in 1..Len(buf)
  BY DEF TypeOK
<1> QED
  BY <1>1 DEF Byte, Arrived

\* The parser goes on with the line that m_line_number says.
LEMMA NextLine ==
    ASSUME TypeOK, NEW layout \in Layouts, NEW len \in Lengths,
           Arrived(layout, len), LinesParsed(layout, len), Position(layout, len),
           m_state = "READ_DATA"
    PROVE  /\ LineStart = 3 * m_line_number
           /\ LineStart < Len(buf) =>
                 Byte(LineStart) = IF m_line_number < Len(layout)
                                     THEN Text(layout[m_line_number + 1], len) ELSE CR
<1> DEFINE N == Len(layout)
           j == m_line_number
           s == Stream(layout, len, Len(sent))
<1>1. /\ N \in Nat /\ len \in Nat /\ j \in Nat /\ j <= N /\ Len(buf) \in Nat /\ Len(sent) \in Nat
      /\ m_last_line_start \in Nat
  BY Sizes DEF TypeOK, LinesParsed
<1>2. \A i \in 1..N: layout[i] \in {"S", "E", "H", "L", "T", "B"}
  BY Sizes
<1>3. /\ \A i \in 1..N: s[3 * i - 2] = Text(layout[i], len) /\ s[3 * i] = LF
      /\ s[3 * N + 1] = CR
  BY <1>1, StreamBytes
<1>4. \A p \in Nat: p < Len(buf) => Byte(p) = s[p + 1]
  BY ByteOfStream
<1>5. 3 * j <= Len(buf)
      /\ (m_last_line_start = 3 * j \/ (j > 0 /\ m_last_line_start = 3 * j - 1))
  BY DEF Position
<1> HIDE DEF N, j, s
<1>6. 3 * j < Len(buf) => Byte(3 * j) = IF j < N THEN Text(layout[j + 1], len) ELSE CR
  <2>1. j < N => j + 1 \in 1..N /\ 3 * (j + 1) - 2 = 3 * j + 1
    BY <1>1
  <2>2. s[3 * j + 1] = IF j < N THEN Text(layout[j + 1], len) ELSE CR
    <3>1. CASE j < N
      BY <1>3, <2>1, <3>1
    <3>2. CASE ~(j < N)
      <4>1. j = N
        BY <1>1, <3>2
      <4> QED
        BY <1>3, <3>2, <4>1
    <3> QED
      BY <3>1, <3>2
  <2>3. 3 * j \in Nat
    BY <1>1
  <2> QED
    BY <1>4, <2>2, <2>3
<1>7. Byte(3 * j) # LF
  <2>1. CASE 3 * j < Len(buf) /\ j < N
    <3>1. j + 1 \in 1..N
      BY <1>1, <2>1
    <3>2. Text(layout[j + 1], len) # LF
      BY <1>1, <1>2, <3>1, TextType
    <3> QED
      BY <1>6, <2>1, <3>2
  <2>2. CASE 3 * j < Len(buf) /\ ~(j < N)
    BY <1>6, <2>2 DEF CR, LF
  <2>3. CASE ~(3 * j < Len(buf))
    BY <2>3 DEF Byte, LF
  <2> QED
    BY <2>1, <2>2, <2>3
<1>8. LineStart = 3 * j
  <2>1. CASE m_last_line_start = 3 * j
    BY <1>7, <2>1 DEF LineStart
  <2>2. CASE j > 0 /\ m_last_line_start = 3 * j - 1
    <3>1. j \in 1..N /\ 3 * j - 1 \in Nat /\ 3 * j - 1 < Len(buf) /\ (3 * j - 1) + 1 = 3 * j
      BY <1>1, <1>5, <2>2
    <3>2. Byte(3 * j - 1) = LF
      BY <1>3, <1>4, <3>1
    <3> QED
      BY <2>2, <3>1, <3>2 DEF LineStart
  <2> QED
    BY <1>5, <2>1, <2>2
<1> QED
  BY <1>6, <1>8 DEF j, N

\* strstr finds the line break of the next line if it has arrived, and no other.
LEMMA BreakFound ==
    ASSUME TypeOK, NEW layout \in Layouts, NEW len \in Lengths,
           Arrived(layout, len), LinesParsed(layout, len), Position(layout, len),
           m_state = "READ_DATA"
    PROVE  /\ Breaks = {} <=> LineIncomplete(layout)
           /\ Breaks # {} => /\ LineStart = 3 * m_line_number /\ LineStart < Len(buf)
                             /\ eol = LineStart + (IF m_line_number < Len(layout) THEN 1 ELSE 0)
                             /\ eol + 2 <= Len(buf)
<1> DEFINE N == Len(layout)
           j == m_line_number
           s == Stream(layout, len, Len(sent))
<1>1. /\ N \in Nat /\ len \in Nat /\ j \in Nat /\ j <= N /\ Len(buf) \in Nat /\ Len(sent) \in Nat
  BY Sizes DEF TypeOK, LinesParsed
<1>2. \A i \in 1..N: layout[i] \in {"S", "E", "H", "L", "T", "B"}
  BY Sizes
<1>3. /\ \A i \in 1..N: s[3 * i - 1] = CR /\ s[3 * i] = LF
      /\ s[3 * N + 1] = CR /\ s[3 * N + 2] = LF
  BY <1>1, StreamBytes
<1>4. \A p \in Nat: p < Len(buf) => Byte(p) = s[p + 1]
  BY ByteOfStream
<1>5. /\ LineStart = 3 * j
      /\ 3 * j < Len(buf) => Byte(3 * j) = IF j < N THEN Text(layout[j + 1], len) ELSE CR
  BY NextLine
<1>6. LineIncomplete(layout) <=> Len(buf) < 3 * j + (IF j < N THEN 3 ELSE 2)
  BY DEF LineIncomplete
<1> HIDE DEF N, j, s
<1>7. CASE j < N
  <2>1. /\ j + 1 \in 1..N /\ 3 * (j + 1) - 1 = 3 * j + 2 /\ 3 * (j + 1) = 3 * j + 3
        /\ 3 * j \in Nat /\ 3 * j + 1 \in Nat /\ 3 * j + 2 \in Nat
        /\ (3 * j + 1) + 1 = 3 * j + 2 /\ (3 * j + 2) + 1 = 3 * j + 3
    BY <1>1, <1>7
  <2>2. 3 * j < Len(buf) => Byte(3 * j) # CR
    <3>1. Text(layout[j + 1], len) # CR
      BY <1>1, <1>2, <2>1, TextType
    <3> QED
      BY <1>5, <1>7, <3>1
  <2>3. CASE Len(buf) < 3 * j + 3
    <3>1. ASSUME NEW p \in 3 * j .. (Len(buf) - 2), Byte(p) = CR PROVE FALSE
      <4>1. p = 3 * j /\ 3 * j < Len(buf)
        BY <1>1, <2>3
      <4> QED
        BY <2>2, <3>1, <4>1
    <3>2. Breaks = {}
      BY <1>5, <3>1 DEF Breaks
    <3> QED
      BY <1>6, <1>7, <2>3, <3>2
  <2>4. CASE ~(Len(buf) < 3 * j + 3)
    <3>1. /\ 3 * j + 1 < Len(buf) /\ 3 * j + 2 < Len(buf) /\ 3 * j < Len(buf)
          /\ 3 * j + 1 \in 3 * j .. (Len(buf) - 2) /\ (3 * j + 1) + 2 <= Len(buf)
      BY <1>1, <2>1, <2>4
    <3>2. Byte(3 * j + 1) = CR /\ Byte(3 * j + 2) = LF
      BY <1>3, <1>4, <2>1, <3>1
    <3>3. 3 * j + 1 \in Breaks
      BY <1>5, <2>1, <3>1, <3>2 DEF Breaks
    <3>4. ASSUME NEW p \in Breaks PROVE p \in Nat /\ 3 * j + 1 <= p
      <4>1. p \in 3 * j .. (Len(buf) - 2) /\ Byte(p) = CR
        BY <1>5 DEF Breaks
      <4>2. p # 3 * j
        BY <2>2, <3>1, <4>1
      <4> QED
        BY <1>1, <2>1, <4>1, <4>2
    <3>5. eol = 3 * j + 1
      <4>1. Breaks \subseteq Nat
        BY <3>4
      <4> QED
        BY <3>3, <3>4, <4>1, MinIs DEF eol
    <3>6. ~LineIncomplete(layout)
      BY <1>6, <1>7, <2>4
    <3> QED
      BY <1>5, <1>7, <3>1, <3>3, <3>5, <3>6 DEF j, N
  <2> QED
    BY <2>3, <2>4
<1>8. CASE ~(j < N)
  <2>1. j = N /\ 3 * j \in Nat /\ 3 * j + 1 \in Nat /\ (3 * j + 1) + 1 = 3 * j + 2
    BY <1>1, <1>8
  <2>2. CASE Len(buf) < 3 * j + 2
    <3>1. 3 * j .. (Len(buf) - 2) = {}
      BY <1>1, <2>2
    <3>2. Breaks = {}
      BY <1>5, <3>1 DEF Breaks
    <3> QED
      BY <1>6, <1>8, <2>2, <3>2
  <2>3. CASE ~(Len(buf) < 3 * j + 2)
    <3>1. /\ 3 * j < Len(buf) /\ 3 * j + 1 < Len(buf)
          /\ 3 * j \in 3 * j .. (Len(buf) - 2) /\ 3 * j + 2 <= Len(buf)
      BY <1>1, <2>1, <2>3
    <3>2. Byte(3 * j) = CR /\ Byte(3 * j + 1) = LF
      BY <1>3, <1>4, <2>1, <3>1
    <3>3. 3 * j \in Breaks
      BY <1>5, <3>1, <3>2 DEF Breaks
    <3>4. ASSUME NEW p \in Breaks PROVE p \in Nat /\ 3 * j <= p
      <4>1. p \in 3 * j .. (Len(buf) - 2)
        BY <1>5 DEF Breaks
      <4> QED
        BY <1>1, <2>1, <4>1
    <3>5. eol = 3 * j
      <4>1. Breaks \subseteq Nat
        BY <3>4
      <4> QED
        BY <2>1, <3>3, <3>4, <4>1, MinIs DEF eol
    <3>6. ~LineIncomplete(layout)
      BY <1>6, <1>8, <2>3
    <3>7. eol = LineStart + 0
      BY <1>5, <2>1, <3>5
    <3> QED
      BY <1>5, <1>8, <3>1, <3>3, <3>5, <3>6, <3>7 DEF j, N
  <2> QED
    BY <2>2, <2>3
<1> QED
  BY <1>7, <1>8
-----------------------------------------------------------------------------
(* What arrives, and what is handled                                       *)

\* While a response is under way it is the answer to the last request.
LEMMA Flight ==
    ASSUME TypeOK, RequestPart, FlowPart, Len(sent) # Len(handled)
    PROVE  /\ Len(sent) > Len(handled) /\ requests = Len(sent) /\ Len(sent) = Len(handled) + 1
           /\ at # "new"
           /\ \E layout \in Layouts, len \in Lengths: Reads(layout, len)
<1>1. Len(sent) \in Nat /\ Len(handled) \in Nat /\ requests \in Nat
  BY HttpSenderAssumption DEF TypeOK
<1>2. Len(sent) > Len(handled) /\ requests = Len(sent) /\ Len(sent) = Len(handled) + 1
  BY <1>1 DEF FlowPart, CountPart
<1>3. at # "new"
  BY <1>1, <1>2 DEF RequestPart
<1> QED
  BY <1>2, <1>3 DEF FlowPart, FlightPart

\* A step of the reader that leaves a response under way.
LEMMA FlightGoesOn ==
    ASSUME TypeOK, FlowPart, Len(sent) # Len(handled), UNCHANGED <<requests, sent, handled>>,
           NEW layout \in Layouts, NEW len \in Lengths, Reads(layout, len)'
    PROVE  FlowPart'
<1>1. CountPart' /\ HandledPart'
  BY DEF FlowPart, CountPart, HandledPart
<1>2. FlightPart'
  BY DEF FlightPart
<1>3. IdlePart'
  BY DEF IdlePart
<1> QED
  BY <1>1, <1>2, <1>3 DEF FlowPart

\* A step between two responses.
LEMMA IdleGoesOn ==
    ASSUME TypeOK, FlowPart, Len(sent) = Len(handled), UNCHANGED <<sent, handled>>,
           Idle', requests' <= Len(handled) + 1, Len(sent) <= requests'
    PROVE  FlowPart'
<1>1. Len(sent) \in Nat
  BY DEF TypeOK
<1>2. CountPart' /\ HandledPart'
  BY <1>1 DEF FlowPart, CountPart, HandledPart
<1>3. FlightPart'
  BY <1>1 DEF FlightPart
<1>4. IdlePart'
  BY DEF IdlePart
<1> QED
  BY <1>2, <1>3, <1>4 DEF FlowPart

LEMMA SendFlow ==
    ASSUME TypeOK, FlowPart, NEW size \in RequestSizes, send(size)
    PROVE  FlowPart'
<1> USE DEF reqVars, parseVars, bufVars, upVars, serverVars
<1>1. Len(sent) \in Nat /\ Len(handled) \in Nat /\ requests \in Nat
  BY HttpSenderAssumption DEF TypeOK
<1>2. Len(handled) = requests /\ Len(sent) = Len(handled)
  BY <1>1 DEF FlowPart, CountPart, send
<1>3. Idle
  BY <1>2 DEF FlowPart, IdlePart
<1>4. Idle'
  BY <1>3 DEF Idle, send
<1>5. /\ UNCHANGED <<sent, handled>>
      /\ requests' <= Len(handled) + 1 /\ Len(sent) <= requests'
  BY <1>1, <1>2 DEF send
<1> QED
  BY <1>2, <1>4, <1>5, IdleGoesOn

\* While a request is written, and while the connection is only watched.
LEMMA WriteFlow ==
    ASSUME TypeOK, RequestPart, FlowPart, at = "watch", m_events = "WRITE",
           UNCHANGED <<requests, closed, m_state, parseVars, bufVars, down, sent, handled>>,
           at' = "watch" \/ (at' = "ended" /\ closed)
    PROVE  FlowPart'
<1> USE DEF parseVars, bufVars
<1>1. Len(sent) = Len(handled)
  <2> SUFFICES ASSUME Len(sent) # Len(handled) PROVE FALSE
    OBVIOUS
  <2> QED
    BY Flight DEF Reads
<1>2. Idle
  BY <1>1 DEF FlowPart, IdlePart
<1>3. Idle'
  BY <1>2 DEF Idle
<1>4. requests' <= Len(handled) + 1 /\ Len(sent) <= requests'
  BY DEF FlowPart, CountPart
<1> QED
  BY <1>1, <1>3, <1>4, IdleGoesOn

\* A read moves bytes of the stream from the connection to the buffer.
LEMMA ReadFlow ==
    ASSUME TypeOK, RequestPart, FlowPart, NEW n \in 1..Len(down), ReadBytes(n)
    PROVE  FlowPart'
<1> USE DEF reqVars, parseVars, bufVars, upVars, serverVars
<1>1. Len(buf) \in Nat /\ Len(down) \in Nat /\ n \in 0..Len(down) /\ n \in Nat
  BY DEF TypeOK
<1>2. Len(sent) # Len(handled)
  <2>1. down # <<>>
    BY <1>1
  <2> QED
    BY <2>1 DEF FlowPart, IdlePart, Idle
<1>3. PICK layout \in Layouts, len \in Lengths: Reads(layout, len)
  BY <1>2, Flight
<1>4. /\ Len(buf') = Len(buf) + n /\ Len(down') = Len(down) - n
      /\ \A i \in 1..Len(buf): buf'[i] = buf[i]
      /\ \A i \in 1..n: buf'[Len(buf) + i] = down[i]
      /\ \A i \in 1..(Len(down) - n): down'[i] = down[n + i]
  <2>1. buf \in Seq(Bytes) /\ down \in Seq(Bytes)
    BY DEF TypeOK
  <2> QED
    BY <1>1, <2>1, MoveElements DEF ReadBytes
<1>5. Arrived(layout, len)'
  <2> DEFINE s == Stream(layout, len, Len(sent))
  <2>1. sent' = sent
    BY DEF ReadBytes
  <2>2. /\ Len(buf) + Len(down) = Len(s)
        /\ \A i \in 1..Len(buf): buf[i] = s[i]
        /\ \A i \in 1..Len(down): down[i] = s[Len(buf) + i]
    BY <1>3 DEF Reads, Arrived
  <2> HIDE DEF s
  <2>3. Len(buf') + Len(down') = Len(s)
    BY <1>1, <1>4, <2>2
  <2>4. ASSUME NEW i \in 1..Len(buf') PROVE buf'[i] = s[i]
    <3>1. CASE i <= Len(buf)
      BY <1>1, <1>4, <2>2, <3>1
    <3>2. CASE i > Len(buf)
      <4>1. i - Len(buf) \in 1..n /\ i - Len(buf) \in 1..Len(down) /\ Len(buf) + (i - Len(buf)) = i
        BY <1>1, <1>4, <3>2
      <4>2. buf'[i] = down[i - Len(buf)] /\ down[i - Len(buf)] = s[i]
        BY <1>4, <2>2, <4>1
      <4> QED
        BY <4>2
    <3> QED
      BY <1>1, <1>4, <3>1, <3>2
  <2>5. ASSUME NEW i \in 1..Len(down') PROVE down'[i] = s[Len(buf') + i]
    <3>1. i \in 1..(Len(down) - n) /\ n + i \in 1..Len(down) /\ Len(buf) + (n + i) = Len(buf') + i
      BY <1>1, <1>4
    <3> QED
      BY <1>4, <2>2, <3>1
  <2> QED
    BY <2>1, <2>3, <2>4, <2>5 DEF Arrived, s
<1>6. LinesParsed(layout, len)'
  BY <1>3 DEF Reads, LinesParsed, ReadBytes
<1>7. Position(layout, len)'
  <2>1. m_state # "DONE" /\ at # "ended"
    BY <1>3 DEF Reads, Position, ReadBytes, Reading
  <2>2. CASE m_state \in {"READY", "READ_DATA"}
    <3>1. m_state' = "READ_DATA" /\ at' = "parse"
      BY <2>2 DEF ReadBytes
    <3>2. /\ m_content_start' = 0
          /\ 3 * m_line_number' <= Len(buf')
          /\ m_last_line_start' = 3 * m_line_number'
                \/ (m_line_number' > 0 /\ m_last_line_start' = 3 * m_line_number' - 1)
      BY <1>1, <1>3, <1>4, <2>2 DEF TypeOK, Reads, Position, ReadBytes
    <3> QED
      BY <3>1, <3>2 DEF Position
  <2>3. CASE m_state = "READ_CONTENT"
    <3>1. m_state' = "READ_CONTENT" /\ at' = "check"
      BY <2>3 DEF ReadBytes
    <3>2. /\ m_line_number' = Len(layout) /\ ~m_chunked_enc' /\ m_content_length_exists'
          /\ m_content_start' = 3 * Len(layout) + 2
      BY <1>3, <2>3 DEF Reads, Position, ReadBytes
    <3> QED
      BY <3>1, <3>2 DEF Position
  <2> QED
    BY <2>1, <2>2, <2>3 DEF TypeOK
<1>8. Reads(layout, len)'
  <2>1. at' # "ended"
    BY DEF ReadBytes
  <2>2. UNCHANGED <<m_events, sent, bad>>
    BY DEF ReadBytes
  <2> QED
    BY <1>3, <1>5, <1>6, <1>7, <2>1, <2>2 DEF Reads
<1>9. UNCHANGED <<requests, sent, handled>>
  BY DEF ReadBytes
<1> QED
  BY <1>2, <1>8, <1>9, FlightGoesOn

\* Nothing has arrived: the handler returns.
LEMMA NothingFlow == ASSUME TypeOK, RequestPart, FlowPart, ReadNothing PROVE FlowPart'
<1> USE DEF reqVars, parseVars, bufVars, upVars, serverVars
<1>1. Len(sent) # Len(handled)
  BY DEF FlowPart, IdlePart, Idle, ReadNothing
<1>2. PICK layout \in Layouts, len \in Lengths: Reads(layout, len)
  BY <1>1, Flight
<1>3. at = "loop" /\ at' = "watch" /\ m_state \notin {"READY", "DONE"}
  BY <1>2 DEF Reads, Position, ReadNothing, AfterLoop
<1>4. UNCHANGED <<requests, sent, handled, m_events, m_state, parseVars, buf, offset_read,
                  down, bad>>
  BY DEF ReadNothing
<1>5. Arrived(layout, len)' /\ LinesParsed(layout, len)'
  BY <1>2, <1>4 DEF Reads, Arrived, LinesParsed
<1>6. Position(layout, len)'
  BY <1>2, <1>3, <1>4 DEF Reads, Position, LineIncomplete
<1>7. Reads(layout, len)'
  BY <1>2, <1>3, <1>4, <1>5, <1>6 DEF Reads
<1> QED
  BY <1>1, <1>4, <1>7, FlightGoesOn

\* The server may close the connection, but not before its response was read.
LEMMA ClosedFlow == ASSUME TypeOK, RequestPart, FlowPart, ReadClosed PROVE FlowPart'
<1> USE DEF reqVars, parseVars, bufVars, upVars, serverVars
<1>1. Len(sent) = Len(handled)
  <2> SUFFICES ASSUME Len(sent) # Len(handled) PROVE FALSE
    OBVIOUS
  <2>1. PICK layout \in Layouts, len \in Lengths: Reads(layout, len)
    BY Flight
  <2>2. /\ Len(layout) \in Nat /\ len \in Nat /\ Len(buf) \in Nat /\ Len(sent) \in Nat
        /\ m_line_number \in Nat /\ m_line_number <= Len(layout)
    BY <2>1, Sizes DEF TypeOK, Reads, LinesParsed
  <2>3. down = <<>> /\ Len(down) = 0 /\ at \in {"loop", "watch"}
    BY DEF ReadClosed, Reading
  <2>4. Len(buf) = 3 * Len(layout) + 2 + len
    <3>1. Len(Stream(layout, len, Len(sent))) = 3 * Len(layout) + 2 + len
      BY <2>2, StreamBytes
    <3>2. Len(buf) + Len(down) = Len(Stream(layout, len, Len(sent)))
      BY <2>1 DEF Reads, Arrived
    <3> QED
      BY <2>2, <2>3, <3>1, <3>2
  <2>5. m_state # "READY"
    <3>1. Len(buf) # 0
      BY <2>2, <2>4
    <3> QED
      BY <2>1, <3>1 DEF Reads, Position
  <2>6. m_state # "READ_DATA"
    <3>1. ~LineIncomplete(layout)
      BY <2>2, <2>4 DEF LineIncomplete
    <3> QED
      BY <2>1, <2>3, <3>1 DEF Reads, Position
  <2>7. m_state # "READ_CONTENT" /\ m_state # "DONE"
    BY <2>1, <2>3 DEF Reads, Position
  <2> QED
    BY <2>5, <2>6, <2>7 DEF TypeOK
<1>2. Idle
  BY <1>1 DEF FlowPart, IdlePart
<1>3. Idle'
  BY <1>2 DEF Idle, ReadClosed, Throw
<1>4. UNCHANGED <<requests, sent, handled>>
  BY DEF ReadClosed, Throw
<1>5. requests' <= Len(handled) + 1 /\ Len(sent) <= requests'
  BY <1>4 DEF FlowPart, CountPart
<1> QED
  BY <1>1, <1>3, <1>4, <1>5, IdleGoesOn

\* The parser runs on the headers of a response.
LEMMA Parsing ==
    ASSUME TypeOK, RequestPart, FlowPart, at = "parse"
    PROVE  /\ Len(sent) # Len(handled)
           /\ m_state = "READ_DATA"
           /\ \E layout \in Layouts, len \in Lengths: Reads(layout, len)
<1>1. Len(sent) # Len(handled)
  BY DEF FlowPart, IdlePart, Idle
<1>2. PICK layout \in Layouts, len \in Lengths: Reads(layout, len)
  BY <1>1, Flight
<1>3. m_state = "READ_DATA"
  BY <1>2 DEF TypeOK, Reads, Position
<1> QED
  BY <1>1, <1>2, <1>3

\* A line is taken for what the server sent.
LEMMA LineFlow == ASSUME TypeOK, RequestPart, FlowPart, ParseLine PROVE FlowPart'
<1> USE DEF reqVars, parseVars, bufVars, upVars, serverVars
<1>1. /\ at = "parse" /\ at' = "parse" /\ Breaks # {} /\ eol > LineStart /\ Parses
      /\ m_line_number' = m_line_number + 1 /\ m_last_line_start' = eol + 1
      /\ UNCHANGED <<requests, sent, handled, m_events, m_state, m_content_start, buf, down, bad>>
  BY DEF ParseLine
<1>2. Len(sent) # Len(handled) /\ m_state = "READ_DATA"
  BY <1>1, Parsing
<1>3. PICK layout \in Layouts, len \in Lengths: Reads(layout, len)
  BY <1>1, Parsing
<1>4. Arrived(layout, len) /\ LinesParsed(layout, len) /\ Position(layout, len)
  BY <1>3 DEF Reads
<1>5. /\ LineStart = 3 * m_line_number /\ LineStart < Len(buf) /\ eol + 2 <= Len(buf)
      /\ eol = LineStart + (IF m_line_number < Len(layout) THEN 1 ELSE 0)
  BY <1>1, <1>2, <1>4, BreakFound
<1>6. /\ Len(layout) \in Nat /\ len \in Nat /\ Len(buf) \in Nat
      /\ m_line_number \in Nat /\ m_line_number <= Len(layout)
  BY <1>4, Sizes DEF TypeOK, LinesParsed
<1>7. m_line_number < Len(layout) /\ eol = 3 * m_line_number + 1
  BY <1>1, <1>5, <1>6
<1> DEFINE kind == layout[m_line_number + 1]
<1>8. Byte(LineStart) = Text(kind, len)
  BY <1>2, <1>4, <1>5, <1>7, NextLine
<1>9. Byte(LineStart)[1] = kind /\ (kind = "L" => Byte(LineStart)[2] = len)
  <2>1. m_line_number + 1 \in 1..Len(layout)
    BY <1>6, <1>7
  <2>2. kind \in {"S", "E", "H", "L", "T", "B"}
    BY <2>1, Sizes
  <2> HIDE DEF kind
  <2> QED
    BY <1>6, <1>8, <2>2, TextType
<1>10. /\ kind \in (IF m_line_number + 1 = 1 THEN {"S"} ELSE {"H", "L", "T"})
       /\ m_content_length' = IF kind = "L" THEN len ELSE m_content_length
       /\ m_content_length_exists' = (m_content_length_exists \/ kind = "L")
       /\ m_chunked_enc' = (m_chunked_enc \/ kind = "T")
  <2> HIDE DEF kind
  <2>1. kind \in (IF m_line_number = 0 THEN {"S"} ELSE {"H", "L", "T"})
    BY <1>1, <1>9 DEF Parses
  <2>2. m_line_number + 1 = 1 <=> m_line_number = 0
    BY <1>6
  <2> QED
    BY <1>9, <2>1, <2>2 DEF ParseLine
<1>11. LinesParsed(layout, len)'
  <2> DEFINE j == m_line_number
  <2>1. /\ \A i \in 1..j: layout[i] \in (IF i = 1 THEN {"S"} ELSE {"H", "L", "T"})
        /\ m_content_length_exists <=> \E i \in 1..j: layout[i] = "L"
        /\ m_content_length = IF m_content_length_exists THEN len ELSE 0
        /\ m_chunked_enc <=> \E i \in 1..j: layout[i] = "T"
    BY <1>4 DEF LinesParsed
  <2>2. \A i \in 1..(j + 1): i \in 1..j \/ i = j + 1
    BY <1>6
  <2>3. j + 1 \in 1..(j + 1) /\ \A i \in 1..j: i \in 1..(j + 1)
    BY <1>6
  <2>4. \A i \in 1..(j + 1): layout[i] \in (IF i = 1 THEN {"S"} ELSE {"H", "L", "T"})
    BY <1>10, <2>1, <2>2
  <2>5. m_content_length_exists' <=> \E i \in 1..(j + 1): layout[i] = "L"
    BY <1>10, <2>1, <2>2, <2>3
  <2>6. m_chunked_enc' <=> \E i \in 1..(j + 1): layout[i] = "T"
    BY <1>10, <2>1, <2>2, <2>3
  <2>7. m_content_length' = IF m_content_length_exists' THEN len ELSE 0
    BY <1>10, <2>1
  <2>8. j + 1 <= Len(layout) /\ m_line_number' = j + 1
    BY <1>1, <1>6, <1>7
  <2> HIDE DEF j
  <2> QED
    BY <2>4, <2>5, <2>6, <2>7, <2>8 DEF LinesParsed
<1>12. Position(layout, len)'
  <2>1. m_content_start = 0
    BY <1>2, <1>4 DEF Position
  <2>2. /\ 3 * m_line_number' <= Len(buf) /\ m_line_number' > 0
        /\ m_last_line_start' = 3 * m_line_number' - 1
    BY <1>1, <1>5, <1>6, <1>7
  <2>3. UNCHANGED <<m_state, buf, m_content_start>> /\ at' = "parse"
    BY <1>1
  <2> QED
    BY <1>2, <2>1, <2>2, <2>3 DEF Position
<1>13. Reads(layout, len)'
  <2>1. Arrived(layout, len)'
    BY <1>1, <1>4 DEF Arrived
  <2> QED
    BY <1>1, <1>3, <1>11, <1>12, <2>1 DEF Reads
<1> QED
  BY <1>1, <1>2, <1>13, FlightGoesOn

\* The headers end where the server ended them.
LEMMA EndFlow == ASSUME TypeOK, RequestPart, FlowPart, ParseEnd PROVE FlowPart'
<1> USE DEF reqVars, parseVars, bufVars, upVars, serverVars
<1>1. /\ at = "parse" /\ at' = "check" /\ Breaks # {} /\ eol = LineStart
      /\ ~m_chunked_enc /\ m_content_length_exists
      /\ m_state' = "READ_CONTENT" /\ m_content_start' = LineStart + 2
      /\ UNCHANGED <<requests, sent, handled, m_events, buf, down, bad, m_line_number,
                     m_content_length, m_content_length_exists, m_chunked_enc>>
  BY DEF ParseEnd, ContentStart
<1>2. Len(sent) # Len(handled) /\ m_state = "READ_DATA"
  BY <1>1, Parsing
<1>3. PICK layout \in Layouts, len \in Lengths: Reads(layout, len)
  BY <1>1, Parsing
<1>4. Arrived(layout, len) /\ LinesParsed(layout, len) /\ Position(layout, len)
  BY <1>3 DEF Reads
<1>5. /\ LineStart = 3 * m_line_number
      /\ eol = LineStart + (IF m_line_number < Len(layout) THEN 1 ELSE 0)
  BY <1>1, <1>2, <1>4, BreakFound
<1>6. Len(layout) \in Nat /\ m_line_number \in Nat /\ m_line_number <= Len(layout)
  BY <1>4, Sizes DEF TypeOK, LinesParsed
<1>7. m_line_number = Len(layout) /\ m_content_start' = 3 * Len(layout) + 2
  BY <1>1, <1>5, <1>6
<1>8. Arrived(layout, len)' /\ LinesParsed(layout, len)'
  BY <1>1, <1>4 DEF Arrived, LinesParsed
<1>9. Position(layout, len)'
  BY <1>1, <1>7 DEF Position
<1>10. Reads(layout, len)'
  BY <1>1, <1>3, <1>8, <1>9 DEF Reads
<1> QED
  BY <1>1, <1>2, <1>10, FlightGoesOn

\* Only a response that is not supported is refused.
LEMMA FailsFlow == ASSUME TypeOK, RequestPart, FlowPart, ParseFails PROVE FlowPart'
<1> USE DEF reqVars, parseVars, bufVars, upVars, serverVars
<1>1. /\ at = "parse" /\ at' = "ended" /\ Breaks # {}
      /\ IF eol > LineStart THEN ~Parses ELSE m_chunked_enc \/ ~m_content_length_exists
      /\ UNCHANGED <<requests, sent, handled, m_events, m_state, parseVars, bufVars, down, bad>>
  BY DEF ParseFails, Throw
<1>2. Len(sent) # Len(handled) /\ m_state = "READ_DATA"
  BY <1>1, Parsing
<1>3. PICK layout \in Layouts, len \in Lengths: Reads(layout, len)
  BY <1>1, Parsing
<1>4. Arrived(layout, len) /\ LinesParsed(layout, len) /\ Position(layout, len)
  BY <1>3 DEF Reads
<1>5. /\ LineStart = 3 * m_line_number /\ LineStart < Len(buf)
      /\ eol = LineStart + (IF m_line_number < Len(layout) THEN 1 ELSE 0)
  BY <1>1, <1>2, <1>4, BreakFound
<1>6. /\ Len(layout) \in Nat /\ len \in Nat
      /\ m_line_number \in Nat /\ m_line_number <= Len(layout)
  BY <1>4, Sizes DEF TypeOK, LinesParsed
<1>7. ~Good(layout)
  <2> SUFFICES ASSUME Good(layout) PROVE FALSE
    OBVIOUS
  <2>1. CASE m_line_number < Len(layout)
    <3>1. eol > LineStart
      BY <1>5, <1>6, <2>1
    <3>2. Byte(LineStart) = Text(layout[m_line_number + 1], len)
      BY <1>2, <1>4, <1>5, <2>1, NextLine
    <3>3. m_line_number + 1 \in 1..Len(layout)
      BY <1>6, <2>1
    <3>4. layout[m_line_number + 1] \in {"S", "E", "H", "L", "T", "B"}
      BY <3>3, Sizes
    <3>5. Byte(LineStart)[1] = layout[m_line_number + 1]
      BY <1>6, <3>2, <3>4, TextType
    <3>6. CASE m_line_number = 0
      BY <1>1, <3>1, <3>5, <3>6 DEF Good, Parses
    <3>7. CASE m_line_number # 0
      <4>1. m_line_number + 1 \in 2..Len(layout)
        BY <1>6, <3>3, <3>7
      <4>2. layout[m_line_number + 1] \in {"H", "L"}
        BY <4>1 DEF Good
      <4> QED
        BY <1>1, <3>1, <3>5, <3>7, <4>2 DEF Parses
    <3> QED
      BY <3>6, <3>7
  <2>2. CASE ~(m_line_number < Len(layout))
    <3>1. m_line_number = Len(layout) /\ ~(eol > LineStart)
      BY <1>5, <1>6, <2>2
    <3>2. PICK i \in 2..Len(layout): layout[i] = "L"
      BY DEF Good
    <3>3. m_content_length_exists
      <4>1. i \in 1..m_line_number
        BY <1>6, <3>1
      <4> QED
        BY <1>4, <3>2, <4>1 DEF LinesParsed
    <3>4. ~m_chunked_enc
      <4>1. ASSUME NEW h \in 1..m_line_number PROVE layout[h] # "T"
        <5>1. h = 1 \/ h \in 2..Len(layout)
          BY <1>6, <3>1
        <5> QED
          BY <5>1 DEF Good
      <4> QED
        BY <1>4, <4>1 DEF LinesParsed
    <3> QED
      BY <1>1, <3>1, <3>3, <3>4
  <2> QED
    BY <2>1, <2>2
<1>8. Arrived(layout, len)' /\ LinesParsed(layout, len)'
  BY <1>1, <1>4 DEF Arrived, LinesParsed
<1>9. Position(layout, len)'
  BY <1>1, <1>2, <1>4 DEF Position
<1>10. Reads(layout, len)'
  BY <1>1, <1>3, <1>7, <1>8, <1>9 DEF Reads
<1> QED
  BY <1>1, <1>2, <1>10, FlightGoesOn

\* The rest of the line has not arrived.
LEMMA RestFlow == ASSUME TypeOK, RequestPart, FlowPart, ParseRest PROVE FlowPart'
<1> USE DEF reqVars, parseVars, bufVars, upVars, serverVars
<1>1. /\ at = "parse" /\ at' = "check" /\ Breaks = {} /\ m_last_line_start' = LineStart
      /\ UNCHANGED <<requests, sent, handled, m_events, m_state, m_content_start, m_line_number,
                     m_content_length, m_content_length_exists, m_chunked_enc, buf, down, bad>>
  BY DEF ParseRest
<1>2. Len(sent) # Len(handled) /\ m_state = "READ_DATA"
  BY <1>1, Parsing
<1>3. PICK layout \in Layouts, len \in Lengths: Reads(layout, len)
  BY <1>1, Parsing
<1>4. Arrived(layout, len) /\ LinesParsed(layout, len) /\ Position(layout, len)
  BY <1>3 DEF Reads
<1>5. LineStart = 3 * m_line_number /\ LineIncomplete(layout)
  BY <1>1, <1>2, <1>4, BreakFound, NextLine
<1>6. Arrived(layout, len)' /\ LinesParsed(layout, len)'
  BY <1>1, <1>4 DEF Arrived, LinesParsed
<1>7. Position(layout, len)'
  BY <1>1, <1>2, <1>4, <1>5 DEF Position, LineIncomplete
<1>8. Reads(layout, len)'
  BY <1>1, <1>3, <1>6, <1>7 DEF Reads
<1> QED
  BY <1>1, <1>2, <1>8, FlightGoesOn

\* The response is complete when, and only when, all of it was read.
LEMMA CheckFlow ==
    ASSUME TypeOK, RequestPart, FlowPart, CheckEnd, ~misread'
    PROVE  FlowPart'
<1> USE DEF reqVars, parseVars, bufVars, upVars, serverVars
<1>1. /\ at = "check" /\ ~Misreads
      /\ UNCHANGED <<requests, sent, handled, m_events, parseVars, buf, down, bad>>
  BY DEF CheckEnd
<1>2. Len(sent) # Len(handled)
  BY <1>1 DEF FlowPart, IdlePart, Idle
<1>3. PICK layout \in Layouts, len \in Lengths: Reads(layout, len)
  BY <1>2, Flight
<1>4. Arrived(layout, len) /\ LinesParsed(layout, len) /\ Position(layout, len)
  BY <1>3 DEF Reads
<1>5. m_state \in {"READ_DATA", "READ_CONTENT"}
  BY <1>1, <1>4 DEF TypeOK, Position
<1>6. /\ Len(layout) \in Nat /\ len \in Nat /\ Len(buf) \in Nat /\ Len(down) \in Nat
      /\ m_content_length \in Nat /\ m_content_start \in Nat
  BY Sizes DEF TypeOK
<1>7. Len(buf) + Len(down) = 3 * Len(layout) + 2 + len
  <2>1. Len(sent) \in Nat
    BY DEF TypeOK
  <2>2. Len(Stream(layout, len, Len(sent))) = 3 * Len(layout) + 2 + len
    BY <2>1, StreamBytes
  <2> QED
    BY <1>4, <2>2 DEF Arrived
<1>8. m_state = "READ_CONTENT" =>
        m_content_length = len /\ m_content_start = 3 * Len(layout) + 2
  BY <1>4 DEF LinesParsed, Position
<1>9. Arrived(layout, len)' /\ LinesParsed(layout, len)'
  BY <1>1, <1>4 DEF Arrived, LinesParsed
<1>10. CASE Complete
  <2>1. m_state = "READ_CONTENT" /\ ~full
    BY <1>1, <1>10 DEF Misreads
  <2>2. at' = "respond" /\ m_state' = "DONE" /\ offset_read' = m_content_start /\ m_size' = EndSize
    BY <1>10, <2>1 DEF CheckEnd, AfterCheck, set_size
  <2>3. m_size' = Len(buf)
    BY <1>6, <1>10, <2>2 DEF Complete, EndSize
  <2>4. Len(down) = 0
    BY <1>6, <1>7, <1>8, <1>10, <2>1 DEF Complete
  <2>5. down = <<>>
    BY <2>4 DEF TypeOK
  <2>6. Position(layout, len)'
    BY <1>1, <1>4, <2>1, <2>2, <2>3, <2>5 DEF Position
  <2>7. Reads(layout, len)'
    BY <1>1, <1>3, <1>9, <2>2, <2>6 DEF Reads
  <2> QED
    BY <1>1, <1>2, <2>7, FlightGoesOn
<1>11. CASE ~Complete
  <2>1. at' \in {"loop", "watch"} /\ m_state' = m_state
    BY <1>5, <1>11 DEF CheckEnd, AfterCheck, AfterLoop
  <2>2. m_state = "READ_CONTENT" => down # <<>>
    <3>1. m_state = "READ_CONTENT" => Len(down) # 0
      BY <1>6, <1>7, <1>8, <1>11 DEF Complete
    <3> QED
      BY <3>1
  <2>3. Position(layout, len)'
    BY <1>1, <1>4, <1>5, <2>1, <2>2 DEF Position, LineIncomplete
  <2>4. Reads(layout, len)'
    BY <1>1, <1>3, <1>9, <2>1, <2>3 DEF Reads
  <2> QED
    BY <1>1, <1>2, <2>4, FlightGoesOn
<1> QED
  BY <1>10, <1>11

\* The handler sees the content, and nothing is left of the response.
LEMMA ResponseFlow ==
    ASSUME TypeOK, RequestPart, FlowPart, NEW success \in BOOLEAN, HandleResponse(success)
    PROVE  FlowPart'
<1> USE DEF reqVars, parseVars, bufVars, upVars, serverVars
<1> DEFINE item == [to_read |-> m_size - offset_read,
                    data |-> SubSeq(buf, offset_read + 1, EndOfData)]
           k == Len(sent)
<1>1. /\ at = "respond" /\ handled' = Append(handled, item)
      /\ UNCHANGED <<requests, sent, down>> /\ clear
      /\ at' \in {"watch", "ended"}
  BY DEF HandleResponse
<1>2. Len(sent) # Len(handled)
  BY <1>1 DEF FlowPart, IdlePart, Idle
<1>3. PICK layout \in Layouts, len \in Lengths: Reads(layout, len)
  BY <1>2, Flight
<1>4. k = Len(handled) + 1 /\ requests = k
  BY <1>2, Flight
<1>5. m_state = "DONE"
  BY <1>1, <1>3 DEF TypeOK, Reads, Position
<1>6. /\ Len(layout) \in Nat /\ len \in Nat /\ Len(buf) \in Nat /\ k \in Nat
      /\ Len(handled) \in Nat /\ buf \in Seq(Bytes)
  BY Sizes DEF TypeOK
<1>7. /\ down = <<>> /\ offset_read = 3 * Len(layout) + 2 /\ m_size = Len(buf)
  BY <1>3, <1>5 DEF Reads, Position
<1> DEFINE s == Stream(layout, len, k)
<1>8. Len(s) = 3 * Len(layout) + 2 + len
      /\ \A i \in 1..len: s[3 * Len(layout) + 2 + i] = Body(len, k)[i]
  BY <1>6, StreamBytes
<1>9. Len(buf) = 3 * Len(layout) + 2 + len /\ \A i \in 1..Len(buf): buf[i] = s[i]
  <2>1. Len(buf) + Len(down) = Len(s) /\ \A i \in 1..Len(buf): buf[i] = s[i]
    BY <1>3 DEF Reads, Arrived
  <2>2. Len(down) = 0
    BY <1>7
  <2> QED
    BY <1>6, <1>8, <2>1, <2>2
<1>10. sent[k] = Body(len, k)
  BY <1>3 DEF Reads
<1>11. EndOfData = Len(buf)
  BY <1>7 DEF EndOfData
<1> HIDE DEF s, k
<1>12. SubSeq(buf, offset_read + 1, EndOfData) = Body(len, k)
  <2> DEFINE o == 3 * Len(layout) + 2
             c == SubSeq(buf, o + 1, o + len)
  <2>1. o \in Nat /\ Len(buf) = o + len
    BY <1>6, <1>9
  <2> HIDE DEF o
  <2>2. c \in Seq(Bytes) /\ Len(c) = len /\ \A i \in 1..len: c[i] = buf[o + i]
    BY <1>6, <2>1
  <2>3. Body(len, k) \in Seq(Bytes) /\ Len(Body(len, k)) = len
    BY <1>6, BodyType
  <2>4. \A i \in 1..len: o + i \in 1..Len(buf)
    BY <1>6, <2>1
  <2>5. \A i \in 1..len: buf[o + i] = Body(len, k)[i]
    BY <1>8, <1>9, <2>4 DEF o
  <2> HIDE DEF c
  <2>6. \A i \in 1..len: c[i] = Body(len, k)[i]
    BY <2>2, <2>5
  <2>7. c = Body(len, k)
    BY <2>2, <2>3, <2>6, SameList
  <2> QED
    BY <1>7, <1>9, <1>11, <2>7 DEF o, c
<1>13. item.data = sent[k] /\ item.to_read = Len(sent[k])
  <2>1. Len(sent[k]) = len
    BY <1>6, <1>10, BodyType
  <2>2. m_size - offset_read = len
    BY <1>6, <1>7, <1>9
  <2> QED
    BY <1>10, <1>12, <2>1, <2>2
<1> HIDE DEF item
<1>14. Len(handled') = k
       /\ handled'[k] = item /\ \A i \in 1..Len(handled): handled'[i] = handled[i]
  BY <1>1, <1>4 DEF TypeOK
<1>15. HandledPart'
  <2> SUFFICES ASSUME NEW i \in 1..Len(handled')
               PROVE  handled'[i].data = sent[i] /\ handled'[i].to_read = Len(sent[i])
    BY <1>1 DEF HandledPart
  <2>1. CASE i = k
    BY <1>13, <1>14, <2>1
  <2>2. CASE i # k
    <3>1. i \in 1..Len(handled)
      BY <1>4, <1>6, <1>14, <2>2
    <3> QED
      BY <1>14, <3>1 DEF FlowPart, HandledPart
  <2> QED
    BY <2>1, <2>2
<1>16. Len(sent') = k /\ requests' = k
  BY <1>1, <1>4 DEF k
<1>17. CountPart'
  BY <1>6, <1>14, <1>16 DEF CountPart
<1>18. Idle'
  BY <1>1, <1>7, <1>14, <1>16 DEF Idle, clear
<1>19. IdlePart' /\ FlightPart'
  BY <1>6, <1>14, <1>16, <1>18 DEF IdlePart, FlightPart
<1> QED
  BY <1>15, <1>17, <1>19 DEF FlowPart

\* The server answers a request when the reader is ready for a response.
LEMMA AnswerFlow ==
    ASSUME TypeOK, RequestPart, FlowPart, NEW layout \in Layouts, NEW len \in Lengths,
           Answer(layout, len)
    PROVE  FlowPart'
<1> USE DEF reqVars, parseVars, bufVars, upVars, serverVars
<1>1. /\ ~closed /\ requests > Len(sent) /\ up = asked
      /\ down' = down \o Stream(layout, len, requests)
      /\ sent' = Append(sent, Body(len, requests))
      /\ bad' = (bad \/ ~Good(layout))
      /\ UNCHANGED <<at, m_events, requests, m_state, parseVars, bufVars, handled>>
  BY DEF Answer
<1>2. /\ Len(sent) \in Nat /\ Len(handled) \in Nat /\ requests \in Nat /\ up \in Nat
      /\ Len(layout) \in Nat /\ len \in Nat
  BY Sizes, HttpSenderAssumption DEF TypeOK
<1>3. Len(sent) = Len(handled) /\ requests = Len(sent) + 1
  BY <1>1, <1>2 DEF FlowPart, CountPart
<1>4. Idle
  BY <1>3 DEF FlowPart, IdlePart
<1>5. at = "watch"
  BY <1>1, <1>2, <1>3, <1>4 DEF Idle, RequestPart
<1>6. m_events = "READ"
  <2>1. Left \in Nat
    BY HttpSenderAssumption DEF TypeOK, Left, Request!ToWrite, Request!BaseTypeOK
  <2>2. ~(up + Left = asked /\ Left > 0)
    BY <1>1, <1>2, <2>1
  <2> QED
    BY <1>5, <2>2 DEF TypeOK, RequestPart
<1> DEFINE s == Stream(layout, len, requests)
<1>7. s \in Seq(Bytes)
  BY <1>2, StreamBytes
<1>8. /\ Len(sent') = requests /\ sent'[requests] = Body(len, requests)
      /\ \A i \in 1..Len(sent): sent'[i] = sent[i]
  BY <1>1, <1>2, <1>3 DEF TypeOK
<1>9. down' = s
  <2> HIDE DEF s
  <2> QED
    BY <1>1, <1>4, <1>7 DEF Idle, s
<1>10. Arrived(layout, len)'
  <2>1. buf' = <<>> /\ Len(buf') = 0
    BY <1>1, <1>4 DEF Idle
  <2>2. Stream(layout, len, Len(sent')) = s
    BY <1>8
  <2>3. Len(s) \in Nat
    BY <1>7
  <2> HIDE DEF s
  <2>4. \A i \in 1..Len(down'): down'[i] = s[Len(buf') + i]
    BY <1>9, <2>1
  <2>5. Len(buf') + Len(down') = Len(s)
    BY <1>9, <2>1, <2>3
  <2> QED
    BY <2>1, <2>2, <2>4, <2>5 DEF Arrived
<1>11. LinesParsed(layout, len)'
  BY <1>1, <1>2, <1>4 DEF Idle, LinesParsed
<1>12. Position(layout, len)'
  <2>1. /\ m_state' = "READY" /\ at' = "watch" /\ buf' = <<>> /\ m_line_number' = 0
        /\ m_content_start' = 0 /\ m_last_line_start' = 0 /\ Len(buf') = 0
    BY <1>1, <1>4, <1>5 DEF Idle
  <2> QED
    BY <2>1 DEF Position
<1>13. Reads(layout, len)'
  BY <1>1, <1>5, <1>6, <1>8, <1>10, <1>11, <1>12 DEF Reads
<1>14. CountPart' /\ FlightPart' /\ IdlePart'
  BY <1>1, <1>2, <1>3, <1>8, <1>13 DEF CountPart, FlightPart, IdlePart
<1>15. HandledPart'
  <2>1. \A i \in 1..Len(handled): sent'[i] = sent[i]
    BY <1>3, <1>8
  <2> QED
    BY <1>1, <2>1 DEF FlowPart, HandledPart
<1> QED
  BY <1>14, <1>15 DEF FlowPart

\* Steps that only the server sees.
LEMMA CloseFlow ==
    ASSUME TypeOK, RequestPart, FlowPart, Close \/ UNCHANGED vars
    PROVE  FlowPart'
<1> USE DEF reqVars, parseVars, bufVars, upVars, serverVars
<1>1. /\ UNCHANGED <<at, m_events, m_state, parseVars, bufVars, requests, down, sent, bad, handled>>
      /\ closed => closed'
  BY DEF Close, vars
<1>2. CASE Len(sent) = Len(handled)
  <2>1. Idle
    BY <1>2 DEF FlowPart, IdlePart
  <2>2. Idle'
    BY <1>1, <2>1 DEF Idle
  <2>3. requests' <= Len(handled) + 1 /\ Len(sent) <= requests'
    BY <1>1 DEF FlowPart, CountPart
  <2> QED
    BY <1>1, <1>2, <2>2, <2>3, IdleGoesOn
<1>3. CASE Len(sent) # Len(handled)
  <2>1. PICK layout \in Layouts, len \in Lengths: Reads(layout, len)
    BY <1>3, Flight
  <2>2. Arrived(layout, len)' /\ LinesParsed(layout, len)'
    BY <1>1, <2>1 DEF Reads, Arrived, LinesParsed
  <2>3. Position(layout, len)'
    BY <1>1, <2>1 DEF Reads, Position, LineIncomplete
  <2>4. Reads(layout, len)'
    BY <1>1, <2>1, <2>2, <2>3 DEF Reads
  <2> QED
    BY <1>1, <1>3, <2>4, FlightGoesOn
<1> QED
  BY <1>2, <1>3

\* Every step keeps the account of what was sent and handled, unless it
\* misreads the response.
LEMMA FlowStep == TypeOK /\ RequestPart /\ FlowPart /\ [Next]_vars /\ ~misread' => FlowPart'
<1> SUFFICES ASSUME TypeOK, RequestPart, FlowPart, [Next]_vars, ~misread' PROVE FlowPart'
  OBVIOUS
<1> USE DEF reqVars, parseVars, bufVars, upVars, serverVars
<1>1. CASE \E nd, nc \in 0..asked: HandleWrite(nd, nc)
  BY <1>1, WriteFlow DEF HandleWrite
<1>2. CASE WriteFails
  BY <1>2, WriteFlow DEF WriteFails, Throw
<1> QED
  BY <1>1, <1>2, SendFlow, ReadFlow, NothingFlow, ClosedFlow, LineFlow, EndFlow, FailsFlow,
     RestFlow, CheckFlow, ResponseFlow, AnswerFlow, CloseFlow
     DEF Next, Handle, Receive, Serve
-----------------------------------------------------------------------------
(* Theorems                                                                *)

LEMMA InitInvariant == Init => IInv
<1> SUFFICES ASSUME Init PROVE IInv
  OBVIOUS
<1>1. Len(buf) = 0 /\ Len(sent) = 0 /\ Len(handled) = 0
  BY DEF Init
<1>2. TypeOK
  <2>1. buf \in Seq(Bytes) /\ down \in Seq(Bytes) /\ sent \in Seq(Seq(Bytes))
    BY DEF Init
  <2>2. handled \in Seq([to_read: Nat, data: Seq(Bytes)])
    BY DEF Init
  <2>3. requests \in 0..MaxRequests
    BY HttpSenderAssumption DEF Init
  <2>4. Request!BaseTypeOK
    BY DEF Init, Request!BaseTypeOK
  <2> QED
    BY <2>1, <2>2, <2>3, <2>4 DEF Init, TypeOK
<1>3. SizePart
  BY <1>1 DEF Init, SizePart
<1>4. RequestPart
  BY DEF Init, RequestPart
<1>5. FlowPart
  <2>1. Idle
    BY DEF Init, Idle
  <2>2. CountPart /\ IdlePart /\ FlightPart /\ HandledPart
    BY <1>1, <2>1 DEF Init, CountPart, IdlePart, FlightPart, HandledPart
  <2> QED
    BY <2>2 DEF FlowPart
<1> QED
  BY <1>2, <1>3, <1>4, <1>5 DEF IInv

LEMMA MisreadStays == TypeOK /\ [Next]_vars /\ misread => misread'
BY DEF TypeOK, Next, vars, send, Handle, HandleWrite, Receive, ReadBytes, ReadClosed, Throw,
       ReadNothing, ParseLine, ParseEnd, ParseFails, ParseRest, CheckEnd, HandleResponse, WriteFails, Serve,
       Answer, Close

\* The inductive invariant: types, the sizes of the buffer, what is left of the
\* request, and the account of the response under way.
THEOREM Invariant == Spec => []IInv
<1>1. IInv /\ [Next]_vars => IInv'
  <2> SUFFICES ASSUME IInv, [Next]_vars PROVE IInv'
    OBVIOUS
  <2>1. TypeOK /\ SizePart /\ RequestPart /\ (~misread => FlowPart)
    BY DEF IInv
  <2>2. TypeOK' /\ SizePart' /\ RequestPart'
    BY <2>1, TypeStep, SizeStep, RequestStep
  <2>3. ~misread' => FlowPart'
    BY <2>1, MisreadStays, FlowStep
  <2> QED
    BY <2>2, <2>3 DEF IInv
<1> QED
  BY <1>1, InitInvariant, PTL DEF Spec

\* The variables of the sender, the request and the response have their types.
THEOREM TypeCorrect == Spec => []TypeOK
<1>1. IInv => TypeOK
  BY DEF IInv
<1> QED
  BY <1>1, Invariant, PTL

\* read_data neither reads nor writes outside of the response's buffer, for
\* every block size and every cut of the stream.
THEOREM BufferInBounds == Spec => []InBounds
<1>1. IInv => InBounds
  <2> SUFFICES ASSUME IInv PROVE InBounds
    OBVIOUS
  <2>1. Len(buf) \in Nat
    BY DEF IInv, TypeOK
  <2> QED
    BY <2>1 DEF IInv, TypeOK, SizePart, InBounds
<1> QED
  BY <1>1, Invariant, PTL

\* handle_response sees the content that the server sent, whatever its length
\* and however the stream was cut, unless read_data met one of the coincidences.
THEOREM ContentAsSent == Spec => []HandledAsSent
<1>1. IInv => HandledAsSent
  <2> SUFFICES ASSUME IInv, ~misread PROVE HandledAsSent
    BY DEF HandledAsSent
  <2>1. DOMAIN handled = 1..Len(handled)
    BY DEF IInv, TypeOK
  <2> QED
    BY <2>1 DEF IInv, FlowPart, CountPart, HandledPart, HandledAsSent
<1> QED
  BY <1>1, Invariant, PTL

\* When the task ends, every response that the reader supports was handled,
\* with the same exception.
THEOREM NothingDropped == Spec => []NotLost
<1>1. IInv => NotLost
  <2> SUFFICES ASSUME IInv, at = "ended", ~bad, ~misread PROVE Len(handled) = Len(sent)
    BY DEF NotLost
  <2> SUFFICES ASSUME Len(sent) # Len(handled) PROVE FALSE
    OBVIOUS
  <2>1. \E layout \in Layouts, len \in Lengths: Reads(layout, len)
    BY Flight DEF IInv
  <2> QED
    BY <2>1 DEF Reads
<1> QED
  BY <1>1, Invariant, PTL
=============================================================================
