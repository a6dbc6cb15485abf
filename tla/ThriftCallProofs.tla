-------------------------- MODULE ThriftCallProofs --------------------------
(***************************************************************************)
(* Theorems about ThriftCall, for any variables that datasize can count,   *)
(* any sizes and number of calls, and any cut of the streams: the handler  *)
(* finds what the client wrote, and a call returns the answer to its own   *)
(* request.                                                                *)
(***************************************************************************)
EXTENDS ThriftCall, ListLemmas, SequenceTheorems

\* The 16 bits of datasize hold the size of the header and of all variables: they
\* take less than 64 KB.
SizesFit ==
    \A list \in VarLists, size \in ContentSizes: Len(VarBlock(list, size)) + 2 < 32768

\* A word of the content that a client writes.  The words of the last call have
\* its number, if it began with an empty object.
IsBody(w) == w[1] = "body" /\ w[2] \in Nat \ {0} /\ (fresh => w[2] = calls)

\* Where the first k variables of vs end, and what the parser keeps of them.
Off(vs, k) == Len(FlattenSeq([i \in 1..k |-> VarWords(vs[i])]))
Seen(vs, k) == {<<vs[i].key, vs[i].val>>: i \in {j \in 1..k: vs[j].val # Empty}}
AllSeen(list, size) == Seen(AllVars(list, size), Len(AllVars(list, size)))

\* What the request says behind its header: the variables and two more words.
Body(list, size, tail) == VarBlock(list, size) \o tail

\* A request of the client: of the last call, if that began with an empty object.
Request(list, size, tail) ==
    /\ list \in VarLists /\ size \in ContentSizes /\ tail \in Words \X Words
    /\ clean => tail = <<Zero, Zero>>
    /\ fresh => /\ asked.vars = AllSeen(list, size)
                /\ asked.content = [i \in 1..size |-> <<"body", calls>>]

Header(m, body) == <<<<"mod", m>>, <<"size", Len(body)>>>>

\* The request object holds a request that it has not begun to write.
DataPart ==
    req_state = "WRITE_DATA" =>
        \E list \in VarLists, size \in ContentSizes, tail \in Words \X Words:
            /\ Request(list, size, tail)
            /\ data = Header(mod, Body(list, size, tail)) \o Body(list, size, tail)

ContentPart ==
    /\ \A i \in 1..Len(content): IsBody(content[i])
    /\ asked = [vars |-> asked.vars, content |-> asked.content] /\ asked.content \in Seq(Words)

\* Words of content that this call has yet to write.
Unsent == IF call = "content" /\ req_state = "WRITE_CONTENT" THEN Len(content) ELSE 0

\* What is in flight to the server: the words of full from the q-th on, then content.
InFlight(full, q) ==
    /\ Len(up) + q >= Len(full)
    /\ \A i \in 1..Len(up): IF i + q <= Len(full) THEN up[i] = full[i + q] ELSE IsBody(up[i])
    /\ fresh => Len(up) + q - Len(full) + Unsent <= Len(asked.content)

\* The parser is at the k-th variable, or behind the last one.
Parsed(list, size) ==
    LET vs == AllVars(list, size) IN
    \/ \E k \in 0..Len(vs): pos = Off(vs, k) /\ m_headers = Seen(vs, k)
    \/ /\ pos >= Len(m_data)
       /\ m_headers = AllSeen(list, size) \/ (~clean /\ m_headers = AllSeen(list, size) \cup {Junk})

\* The server has read a part of the content.
ContentRead ==
    /\ \A i \in 1..Len(m_content): IsBody(m_content[i])
    /\ \A i \in 1..Len(up): IsBody(up[i])
    /\ fresh => Len(m_content) + Len(up) + Unsent <= Len(asked.content)

\* The places of the server in a request.
InHeader(body) ==
    /\ m_state = "READY" /\ at = "watch"
    /\ \E m \in Nat: InFlight(Header(m, body) \o body, 0)

InVars(body) ==
    /\ m_state = "READ_DATA" /\ at \in {"read", "watch"}
    /\ Len(m_data) < Len(body)
    /\ \A i \in 1..Len(m_data): m_data[i] = body[i]
    /\ InFlight(body, Len(m_data))
    /\ pos = 0 /\ m_headers = {} /\ m_content = <<>>

InParser(list, size, body) ==
    /\ m_state = "READ_DATA" /\ at = "parse"
    /\ m_data = body
    /\ InFlight(body, Len(body))
    /\ Parsed(list, size) /\ m_content = <<>>

InContent(size) ==
    /\ m_state = "READ_CONTENT" /\ at \in {"read", "watch"}
    /\ content_size = size /\ Len(m_content) < size
    /\ ContentRead

InRequest(size) ==
    /\ m_state = "DONE" /\ at = "request"
    /\ Len(m_content) = size
    /\ ContentRead

Serving(list, size, body) ==
    \/ InHeader(body)
    \/ /\ modifier1 = 0 /\ datasize = Len(body)
       /\ \/ InVars(body)
          \/ InParser(list, size, body)
          \/ /\ m_headers = AllSeen(list, size) \/ ~clean
             /\ InContent(size) \/ InRequest(size)

\* Nothing but content has arrived, which only an object that was used before
\* writes without a header.
NoHeader ==
    /\ m_state = "READY" /\ at = "watch"
    /\ \A i \in 1..Len(up): IsBody(up[i])
    /\ fresh => up = <<>> /\ Unsent = 0

\* A packet of another kind is not parsed.
OtherPacket == modifier1 # 0 /\ m_state = "READ_DATA" /\ at \in {"read", "watch"}

Live == at \notin {"none", "ended"}

ServerPart ==
    Live /\ m_events = "READ" =>
        \/ NoHeader
        \/ OtherPacket
        \/ \E list \in VarLists, size \in ContentSizes, tail \in Words \X Words:
              Request(list, size, tail) /\ Serving(list, size, Body(list, size, tail))

\* The client has written nothing to the connection.
Untouched ==
    /\ up = <<>> /\ down = <<>> /\ response = <<>>
    /\ at = "ended" => outcome = "crashed"
    /\ Live => m_state = "READY" /\ m_events = "READ" /\ at = "watch"

\* A request object is empty until its header has arrived.
EmptyPart ==
    Live /\ m_state = "READY" => m_data = <<>> /\ pos = 0 /\ m_headers = {} /\ m_content = <<>>

\* Where a call is, and what it has done to its object and its connection.
ClientPart ==
    /\ connected => ~closed /\ call # "closed"
    /\ ~connected /\ call # "closed" => at = "none"
    /\ call = "headers" => req_state # "READY"
    /\ call = "content" => req_state \in {"WRITE_CONTENT", "DONE"}
    /\ call \in {"reading", "again", "returned"} => req_state = "DONE"
    /\ call = "headers" /\ fresh => req_state = "WRITE_DATA" /\ content = asked.content
    /\ connected /\ call \in {"open", "headers"} => Untouched \/ (req_state = "DONE" /\ got # <<>>)

\* How the task ends.
OutcomePart ==
    /\ at # "ended" => outcome = "none"
    /\ outcome = "error" => ~clean
    /\ outcome = "closed" /\ modifier1 = 0 => closed

\* The response that the server writes.
ResponsePart ==
    /\ Live /\ m_events = "READ" => res_state = "READY" /\ response = <<>>
    /\ Live /\ m_events = "WRITE" =>
          /\ at = "watch" /\ res_state # "DONE"
          /\ Response!ToWrite(HeaderSize) + res_content <= Len(response)

\* The words of content in s answer the last call.
Ours(s) ==
    \A i \in 1..Len(s): s[i][1] = "body" => s[i][2] = IF asked.content = <<>> THEN 0 ELSE calls

ReplyPart ==
    /\ call = "returned" => done
    /\ done => got # <<>>
    /\ call \in InCall => used
    /\ ~used => req_state = "READY" /\ content = <<>> /\ got = <<>>
    /\ fresh /\ call \notin {"closed", "open"} =>
          Ours(got) /\ (connected => Ours(down) /\ Ours(response))

IInv ==
    /\ TypeOK /\ DataPart /\ ContentPart /\ ServerPart /\ EmptyPart
    /\ ClientPart /\ OutcomePart /\ ResponsePart /\ ReplyPart
-----------------------------------------------------------------------------
(* The words of a request                                                  *)

Var == [key: Nat, val: Nat \cup {Empty}]

LEMMA AllVarsType ==
    ASSUME NEW list \in VarLists, NEW size \in ContentSizes
    PROVE  /\ AllVars(list, size) \in Seq(Var) /\ list \in Seq(Var)
           /\ \A i \in 1..Len(list): list[i].key # CONTENT_LENGTH
           /\ size = 0 => AllVars(list, size) = list
           /\ size > 0 => /\ Len(AllVars(list, size)) = Len(list) + 1
                          /\ \A i \in 1..Len(list): AllVars(list, size)[i] = list[i]
                          /\ AllVars(list, size)[Len(list) + 1] = [key |-> CONTENT_LENGTH, val |-> size]
<1> DEFINE T == [key: Nat \ {CONTENT_LENGTH}, val: Nat \cup {Empty}]
<1>0. size \in Nat /\ CONTENT_LENGTH \in Nat
  BY ThriftCallAssumption DEF CONTENT_LENGTH
<1>1. list \in Seq(T)
  BY ThriftCallAssumption
<1>2. \A v \in T: v \in Var /\ v.key # CONTENT_LENGTH
  BY DEF Var
<1>3. list \in Seq(Var) /\ \A i \in 1..Len(list): list[i].key # CONTENT_LENGTH
  <2> HIDE DEF T
  <2> QED
    BY <1>1, <1>2
<1>4. [key |-> CONTENT_LENGTH, val |-> size] \in Var
  BY <1>0 DEF Var
<1> HIDE DEF T
<1> QED
  BY <1>0, <1>3, <1>4 DEF AllVars

LEMMA VarWordsType ==
    ASSUME NEW v \in Var
    PROVE  /\ VarWords(v) \in Seq(Words) /\ TextLen(v) \in Nat
           /\ Len(VarWords(v)) = 3 + TextLen(v)
           /\ VarWords(v)[1] = <<"len", 1>> /\ VarWords(v)[2] = <<"key", v.key>>
           /\ VarWords(v)[3] = <<"len", TextLen(v)>>
           /\ v.val = Empty <=> TextLen(v) = 0
           /\ v.val # Empty => VarWords(v)[4] = <<"val", v.val>>
<1> DEFINE h == <<<<"len", 1>>, <<"key", v.key>>, <<"len", TextLen(v)>>>>
           t == [i \in 1..TextLen(v) |-> <<"val", v.val>>]
<1>1. TextLen(v) \in Nat /\ (v.val = Empty <=> TextLen(v) = 0)
  BY DEF TextLen
<1>2. v.key \in Nat /\ (v.val # Empty => v.val \in Nat)
  BY DEF Var
<1>3. h \in Seq(Words) /\ Len(h) = 3 /\ h[1] = <<"len", 1>> /\ h[2] = <<"key", v.key>>
      /\ h[3] = <<"len", TextLen(v)>>
  <2>1. <<"len", 1>> \in Words /\ <<"key", v.key>> \in Words /\ <<"len", TextLen(v)>> \in Words
    BY <1>1, <1>2 DEF Words
  <2> QED
    BY <2>1
<1>4. t \in Seq(Words) /\ Len(t) = TextLen(v) /\ (v.val # Empty => t[1] = <<"val", v.val>>)
  <2>1. \A i \in 1..TextLen(v): <<"val", v.val>> \in Words
    BY <1>1, <1>2 DEF Words
  <2>2. t \in Seq(Words) /\ Len(t) = TextLen(v)
    <3>1. PICK n \in Nat: n = TextLen(v)
      BY <1>1
    <3>2. \A w: (\A i \in 1..n: w \in Words) =>
             [i \in 1..n |-> w] \in Seq(Words) /\ Len([i \in 1..n |-> w]) = n
      BY <3>1
    <3> QED
      BY <2>1, <3>1, <3>2, Zenon
  <2>3. v.val # Empty => 1 \in 1..TextLen(v)
    BY <1>1
  <2> QED
    BY <2>2, <2>3
<1>5. VarWords(v) = h \o t
  BY DEF VarWords
<1> HIDE DEF h, t
<1>6. /\ h \o t \in Seq(Words) /\ Len(h \o t) = 3 + TextLen(v)
      /\ \A i \in 1..3: (h \o t)[i] = h[i]
      /\ \A i \in 1..TextLen(v): (h \o t)[3 + i] = t[i]
  <2>1. /\ h \o t \in Seq(Words) /\ Len(h \o t) = Len(h) + Len(t)
        /\ \A x \in 1..Len(h): (h \o t)[x] = h[x]
        /\ \A x \in 1..Len(t): (h \o t)[Len(h) + x] = t[x]
    <3>1. h \in Seq(Words) /\ t \in Seq(Words)
      BY <1>3, <1>4
    <3> QED
      BY <3>1, ConcatElements
  <2>2. Len(h) = 3 /\ Len(t) = TextLen(v)
    BY <1>3, <1>4
  <2> QED
    BY <2>1, <2>2, Zenon
<1>7. v.val # Empty => (h \o t)[3 + 1] = t[1]
  BY <1>1, <1>6
<1> QED
  BY <1>1, <1>3, <1>4, <1>5, <1>6, <1>7

\* Where the variables of a request are.
LEMMA BlockLayout ==
    ASSUME NEW list \in VarLists, NEW size \in ContentSizes
    PROVE  LET vs == AllVars(list, size)
               block == VarBlock(list, size)
           IN  /\ block \in Seq(Words) /\ Len(block) = Off(vs, Len(vs))
               /\ vs \in Seq(Var) /\ Off(vs, 0) = 0
               /\ \A k \in 0..(Len(vs) - 1):
                     /\ Off(vs, k) \in Nat /\ TextLen(vs[k + 1]) \in Nat /\ vs[k + 1] \in Var
                     /\ Off(vs, k + 1) = Off(vs, k) + 3 + TextLen(vs[k + 1])
                     /\ Off(vs, k + 1) <= Len(block)
                     /\ block[Off(vs, k) + 1] = <<"len", 1>>
                     /\ block[Off(vs, k) + 2] = <<"key", vs[k + 1].key>>
                     /\ block[Off(vs, k) + 3] = <<"len", TextLen(vs[k + 1])>>
                     /\ vs[k + 1].val = Empty <=> TextLen(vs[k + 1]) = 0
                     /\ vs[k + 1].val # Empty =>
                           block[Off(vs, k) + 4] = <<"val", vs[k + 1].val>>
<1> DEFINE vs == AllVars(list, size)
           n == Len(vs)
           ss == [i \in 1..n |-> VarWords(vs[i])]
           F(k) == FlattenSeq([i \in 1..k |-> ss[i]])
<1>1. vs \in Seq(Var)
  BY AllVarsType
<1> HIDE DEF vs
<1>2. n \in Nat /\ DOMAIN vs = 1..n /\ \A i \in 1..n: vs[i] \in Var
  BY <1>1
<1> HIDE DEF n
<1>3. ss \in Seq(Seq(Words)) /\ Len(ss) = n /\ \A i \in 1..n: ss[i] = VarWords(vs[i])
  <2>1. \A i \in 1..n: VarWords(vs[i]) \in Seq(Words)
    BY <1>2, VarWordsType
  <2> QED
    BY <1>2, <2>1
<1>4. \A k \in 0..n: [i \in 1..k |-> ss[i]] = [i \in 1..k |-> VarWords(vs[i])]
  BY <1>2, <1>3
<1>5. \A k \in 0..n: Off(vs, k) = Len(F(k))
  BY <1>4, Zenon DEF Off
<1>6. VarBlock(list, size) = F(n)
  <2>1. VarBlock(list, size) = FlattenSeq(ss)
    BY <1>2 DEF VarBlock, vs
  <2>2. ss = [i \in 1..n |-> ss[i]]
    BY <1>3
  <2> QED
    BY <2>1, <2>2, Zenon
<1>7. F(0) = <<>>
  <2>1. [i \in 1..0 |-> ss[i]] = <<>>
    OBVIOUS
  <2> HIDE DEF ss
  <2> QED
    BY <2>1 DEF FlattenSeq
<1> HIDE DEF ss
<1>8. ASSUME NEW k \in 0..(n - 1)
      PROVE  /\ F(k) \in Seq(Words) /\ F(k + 1) = F(k) \o ss[k + 1] /\ ss[k + 1] \in Seq(Words)
             /\ F(n) \in Seq(Words)
             /\ Len(F(k)) + Len(ss[k + 1]) <= Len(F(n))
             /\ \A x \in 1..Len(ss[k + 1]): F(n)[Len(F(k)) + x] = ss[k + 1][x]
  <2>1. k \in 0..(Len(ss) - 1) /\ n \in (k + 1)..Len(ss)
    BY <1>2, <1>3
  <2> QED
    BY <1>3, <2>1, FlattenStep, FlattenPart
<1> HIDE DEF F
<1>9. F(n) \in Seq(Words)
  <2>1. CASE n = 0
    <3>1. F(n) = <<>>
      BY <1>7, <2>1, Zenon
    <3> QED
      BY <3>1
  <2>2. CASE n > 0
    <3>1. n - 1 \in 0..(n - 1)
      BY <1>2, <2>2
    <3> QED
      BY <1>8, <3>1
  <2> QED
    BY <1>2, <2>1, <2>2
<1>10. ASSUME NEW k \in 0..(n - 1)
       PROVE  LET block == VarBlock(list, size) IN
              /\ Off(vs, k) \in Nat /\ TextLen(vs[k + 1]) \in Nat /\ vs[k + 1] \in Var
              /\ Off(vs, k + 1) = Off(vs, k) + 3 + TextLen(vs[k + 1])
              /\ Off(vs, k + 1) <= Len(block)
              /\ block[Off(vs, k) + 1] = <<"len", 1>>
              /\ block[Off(vs, k) + 2] = <<"key", vs[k + 1].key>>
              /\ block[Off(vs, k) + 3] = <<"len", TextLen(vs[k + 1])>>
              /\ vs[k + 1].val = Empty <=> TextLen(vs[k + 1]) = 0
              /\ vs[k + 1].val # Empty => block[Off(vs, k) + 4] = <<"val", vs[k + 1].val>>
  <2>0. k \in 0..n /\ k + 1 \in 0..n /\ k + 1 \in 1..n
    BY <1>2
  <2>1. PICK v \in Var, w \in Seq(Words), a \in Seq(Words), b \in Seq(Words):
            v = vs[k + 1] /\ w = ss[k + 1] /\ a = F(k) /\ b = F(n)
    BY <1>2, <1>8, <1>9, <2>0
  <2>2. w = VarWords(v)
    BY <1>3, <2>0, <2>1
  <2>3. /\ TextLen(v) \in Nat /\ Len(w) = 3 + TextLen(v)
        /\ w[1] = <<"len", 1>> /\ w[2] = <<"key", v.key>> /\ w[3] = <<"len", TextLen(v)>>
        /\ v.val = Empty <=> TextLen(v) = 0
        /\ v.val # Empty => w[4] = <<"val", v.val>>
    BY <2>2, VarWordsType
  <2>4. Len(a) + Len(w) <= Len(b) /\ \A x \in 1..Len(w): b[Len(a) + x] = w[x]
    BY <1>8, <2>1
  <2>5. Off(vs, k) = Len(a) /\ Off(vs, k + 1) = Len(a) + Len(w)
    <3>1. F(k + 1) = a \o w
      BY <1>8, <2>1
    <3>2. Off(vs, k) = Len(F(k)) /\ Off(vs, k + 1) = Len(F(k + 1))
      BY <1>5, <2>0, Zenon
    <3>3. Len(a \o w) = Len(a) + Len(w)
      BY <2>1
    <3> QED
      BY <2>1, <3>1, <3>2, <3>3, Zenon
  <2>6. /\ b[Len(a) + 1] = w[1] /\ b[Len(a) + 2] = w[2] /\ b[Len(a) + 3] = w[3]
        /\ v.val # Empty => b[Len(a) + 4] = w[4]
    <3>1. PICK m \in Nat: m = TextLen(v)
      BY <2>3
    <3>2. 1 \in 1..(3 + m) /\ 2 \in 1..(3 + m) /\ 3 \in 1..(3 + m) /\ (m # 0 => 4 \in 1..(3 + m))
      BY <3>1
    <3>3. v.val # Empty => m # 0
      BY <2>3, <3>1, Zenon
    <3> QED
      BY <2>3, <2>4, <3>1, <3>2, <3>3, Zenon
  <2>7. Len(a) + 3 + TextLen(v) = Len(a) + Len(w) /\ Len(a) \in Nat
    <3>1. PICK l \in Nat, m \in Nat: l = Len(a) /\ m = TextLen(v)
      BY <2>1, <2>3
    <3>2. \A x, y \in Nat: x + 3 + y = x + (3 + y)
      OBVIOUS
    <3> QED
      BY <2>3, <3>1, <3>2, Zenon
  <2>8. VarBlock(list, size) = b /\ vs[k + 1] = v /\ v \in Var
    BY <1>6, <2>1
  <2> QED
    BY <2>3, <2>4, <2>5, <2>6, <2>7, <2>8, Zenon
<1>11. Len(F(n)) = Off(vs, n) /\ Off(vs, 0) = 0
  BY <1>2, <1>5, <1>7
<1> QED
  BY <1>1, <1>6, <1>9, <1>10, <1>11 DEF vs, n
-----------------------------------------------------------------------------
(* Steps of the client                                                     *)

LEMMA RequestSame ==
    ASSUME UNCHANGED <<calls, asked, clean, fresh>>, NEW list, NEW size, NEW tail,
           Request(list, size, tail)
    PROVE  Request(list, size, tail)'
BY DEF Request

LEMMA BodyType ==
    ASSUME NEW list \in VarLists, NEW size \in ContentSizes, NEW tail \in Words \X Words, NEW m \in Nat
    PROVE  /\ Body(list, size, tail) \in Seq(Words)
           /\ Len(Body(list, size, tail)) = Len(VarBlock(list, size)) + 2
           /\ Header(m, Body(list, size, tail)) \in Seq(Words)
           /\ Len(Header(m, Body(list, size, tail))) = 2
           /\ Header(m, Body(list, size, tail))[1] = <<"mod", m>>
           /\ Header(m, Body(list, size, tail))[2] = <<"size", Len(Body(list, size, tail))>>
<1>1. PICK b \in Seq(Words): b = VarBlock(list, size)
  BY BlockLayout
<1>2. tail \in Seq(Words) /\ Len(tail) = 2
  <2>1. PICK x \in Words, y \in Words: tail = <<x, y>>
    OBVIOUS
  <2> QED
    BY <2>1
<1>3. b \o tail \in Seq(Words) /\ Len(b \o tail) = Len(b) + 2
  <2>1. PICK t \in Seq(Words): t = tail /\ Len(t) = 2
    BY <1>2
  <2>2. b \o t \in Seq(Words) /\ Len(b \o t) = Len(b) + Len(t)
    BY <1>1, <2>1, ConcatElements
  <2> QED
    BY <2>1, <2>2, Zenon
<1>4. PICK c \in Seq(Words): c = Body(list, size, tail) /\ Len(c) = Len(b) + 2
  BY <1>1, <1>3 DEF Body
<1>5. <<"mod", m>> \in Words /\ <<"size", Len(c)>> \in Words
  BY <1>4 DEF Words
<1>6. /\ Header(m, c) \in Seq(Words) /\ Len(Header(m, c)) = 2
      /\ Header(m, c)[1] = <<"mod", m>> /\ Header(m, c)[2] = <<"size", Len(c)>>
  BY <1>5 DEF Header
<1> QED
  BY <1>1, <1>4, <1>6

\* The client writes c, which is content, or nothing; the server does not look yet.
Writes(c) ==
    /\ up' = up \o c /\ \A i \in 1..Len(c): IsBody(c[i])
    /\ UNCHANGED <<calls, asked, clean, fresh, at, m_events, reqVars>>
    /\ fresh => Unsent' + Len(c) <= Unsent

LEMMA UnsentType ==
    TypeOK => /\ Unsent \in Nat /\ up \in Seq(Words)
              /\ m_content \in Seq(Words) /\ m_data \in Seq(Words)
<1> SUFFICES ASSUME TypeOK
             PROVE  Unsent \in Nat /\ up \in Seq(Words) /\ m_content \in Seq(Words) /\ m_data \in Seq(Words)
  OBVIOUS
<1>1. content \in Seq(Words) /\ up \in Seq(Words) /\ m_content \in Seq(Words) /\ m_data \in Seq(Words)
  BY DEF TypeOK, ServerTypeOK
<1>2. Len(content) \in Nat
  BY <1>1
<1> QED
  BY <1>1, <1>2 DEF Unsent

LEMMA UnsentTypeNext == TypeOK' => (Unsent \in Nat)'
BY UnsentType, PTL

LEMMA InFlightMore ==
    ASSUME TypeOK, TypeOK', NEW c \in Seq(Words), Writes(c),
           NEW full \in Seq(Words), NEW q \in Nat, InFlight(full, q), asked.content \in Seq(Words)
    PROVE  InFlight(full, q)'
<1>1. up \in Seq(Words) /\ Unsent \in Nat /\ Unsent' \in Nat /\ Len(asked.content) \in Nat
  <2>1. Unsent \in Nat /\ up \in Seq(Words) /\ m_content \in Seq(Words) /\ Unsent' \in Nat
    BY UnsentType, UnsentTypeNext
  <2> QED
    BY <2>1
<1>2. /\ up \o c \in Seq(Words) /\ Len(up \o c) = Len(up) + Len(c)
      /\ \A x \in 1..Len(up): (up \o c)[x] = up[x]
      /\ \A x \in 1..Len(c): (up \o c)[Len(up) + x] = c[x]
  BY <1>1, ConcatElements
<1>3. /\ up' = up \o c /\ UNCHANGED <<calls, asked, fresh>> /\ \A i \in 1..Len(c): IsBody(c[i])
      /\ fresh => Unsent' + Len(c) <= Unsent
  BY DEF Writes
<1>4. /\ Len(up) + q >= Len(full)
      /\ \A i \in 1..Len(up): IF i + q <= Len(full) THEN up[i] = full[i + q] ELSE IsBody(up[i])
      /\ fresh => Len(up) + q - Len(full) + Unsent <= Len(asked.content)
  BY DEF InFlight
<1>5. PICK l \in Nat, m \in Nat, f \in Nat: l = Len(up) /\ m = Len(c) /\ f = Len(full)
  BY <1>1
<1>6. /\ l + m + q >= f
      /\ fresh => l + m + q - f + Unsent' <= Len(asked.content)
  <2>1. l + q >= f /\ (fresh => l + q - f + Unsent <= Len(asked.content) /\ Unsent' + m <= Unsent)
    BY <1>3, <1>4, <1>5
  <2> QED
    BY <1>1, <1>5, <2>1
<1>7. ASSUME NEW i \in 1..(l + m)
      PROVE  IF i + q <= f THEN up'[i] = full[i + q] ELSE IsBody(up'[i])
  <2>1. CASE i \in 1..l
    BY <1>2, <1>3, <1>4, <1>5, <2>1, Zenon
  <2>2. CASE i \notin 1..l
    <3>1. i - l \in 1..m /\ l + (i - l) = i /\ ~(i + q <= f)
      BY <1>4, <1>5, <2>2
    <3>2. (up \o c)[l + (i - l)] = c[i - l]
      BY <1>2, <1>5, <3>1, Zenon
    <3>3. up'[i] = c[i - l]
      BY <1>3, <3>1, <3>2, Zenon
    <3>4. IsBody(up'[i])
      BY <1>3, <1>5, <3>1, <3>3, Zenon
    <3> QED
      BY <3>1, <3>4, Zenon
  <2> QED
    BY <2>1, <2>2
<1>8. Len(up') = l + m
  BY <1>2, <1>3, <1>5
<1>9. (\A i \in 1..Len(up): IF i + q <= f THEN up[i] = full[i + q] ELSE IsBody(up[i]))'
  BY <1>3, <1>7, <1>8, Zenon DEF IsBody
<1> QED
  BY <1>3, <1>5, <1>6, <1>8, <1>9, Zenon DEF InFlight

LEMMA ContentReadMore ==
    ASSUME TypeOK, TypeOK', NEW c \in Seq(Words), Writes(c), ContentRead, asked.content \in Seq(Words)
    PROVE  ContentRead'
<1>1. /\ up \in Seq(Words) /\ m_content \in Seq(Words)
      /\ Unsent \in Nat /\ Unsent' \in Nat /\ Len(asked.content) \in Nat
  <2>1. Unsent \in Nat /\ up \in Seq(Words) /\ m_content \in Seq(Words) /\ Unsent' \in Nat
    BY UnsentType, UnsentTypeNext
  <2> QED
    BY <2>1
<1>2. /\ up \o c \in Seq(Words) /\ Len(up \o c) = Len(up) + Len(c)
      /\ \A x \in 1..Len(up): (up \o c)[x] = up[x]
      /\ \A x \in 1..Len(c): (up \o c)[Len(up) + x] = c[x]
  BY <1>1, ConcatElements
<1>3. /\ up' = up \o c /\ UNCHANGED <<calls, asked, fresh, m_content>>
      /\ \A i \in 1..Len(c): IsBody(c[i])
      /\ fresh => Unsent' + Len(c) <= Unsent
  BY DEF Writes, reqVars
<1>4. /\ \A i \in 1..Len(m_content): IsBody(m_content[i])
      /\ \A i \in 1..Len(up): IsBody(up[i])
      /\ fresh => Len(m_content) + Len(up) + Unsent <= Len(asked.content)
  BY DEF ContentRead
<1>5. PICK l \in Nat, m \in Nat, k \in Nat: l = Len(up) /\ m = Len(c) /\ k = Len(m_content)
  BY <1>1
<1>6. fresh => k + (l + m) + Unsent' <= Len(asked.content)
  <2>1. fresh => k + l + Unsent <= Len(asked.content) /\ Unsent' + m <= Unsent
    BY <1>3, <1>4, <1>5
  <2> QED
    BY <1>1, <1>5, <2>1
<1>7. ASSUME NEW i \in 1..(l + m)
      PROVE  IsBody(up'[i])
  <2>1. CASE i \in 1..l
    BY <1>2, <1>3, <1>4, <1>5, <2>1, Zenon
  <2>2. CASE i \notin 1..l
    <3>1. i - l \in 1..m /\ l + (i - l) = i
      BY <1>5, <2>2
    <3>2. (up \o c)[l + (i - l)] = c[i - l]
      BY <1>2, <1>5, <3>1, Zenon
    <3> QED
      BY <1>3, <1>5, <3>1, <3>2, Zenon
  <2> QED
    BY <2>1, <2>2
<1>8. Len(up') = l + m
  BY <1>2, <1>3, <1>5
<1>9. /\ (\A i \in 1..Len(up): IsBody(up[i]))'
      /\ (\A i \in 1..Len(m_content): IsBody(m_content[i]))'
  BY <1>3, <1>4, <1>7, <1>8, Zenon DEF IsBody
<1> QED
  BY <1>3, <1>5, <1>6, <1>8, <1>9, Zenon DEF ContentRead

LEMMA ServingMore ==
    ASSUME TypeOK, TypeOK', NEW c \in Seq(Words), Writes(c), asked.content \in Seq(Words),
           NEW list \in VarLists, NEW size \in ContentSizes, NEW tail \in Words \X Words,
           Serving(list, size, Body(list, size, tail))
    PROVE  Serving(list, size, Body(list, size, tail))'
<1>0. PICK body \in Seq(Words): body = Body(list, size, tail)
  BY BodyType, ThriftCallAssumption
<1>1. UNCHANGED <<calls, asked, clean, fresh, at, m_events, reqVars>>
  BY DEF Writes
<1>2. CASE InHeader(body)
  <2>1. PICK m \in Nat: InFlight(Header(m, body) \o body, 0)
    BY <1>2 DEF InHeader
  <2>2. PICK full \in Seq(Words): full = Header(m, body) \o body
    <3>1. PICK h \in Seq(Words): h = Header(m, body)
      BY <1>0, <2>1, BodyType
    <3> QED
      BY <1>0, <3>1, ConcatElements
  <2>3. InFlight(full, 0)'
    BY <2>1, <2>2, InFlightMore
  <2>4. InHeader(body)'
    BY <1>1, <1>2, <2>1, <2>2, <2>3, Zenon DEF InHeader, reqVars
  <2> QED
    BY <1>0, <2>4 DEF Serving
<1>3. CASE modifier1 = 0 /\ datasize = Len(body) /\ InVars(body)
  <2>1. PICK q \in Nat: q = Len(m_data)
    BY UnsentType
  <2>2. InFlight(body, q)
    BY <1>3, <2>1 DEF InVars
  <2>3. InFlight(body, q)'
    BY <1>0, <2>1, <2>2, InFlightMore
  <2>4. InVars(body)'
    BY <1>1, <1>3, <2>1, <2>3 DEF InVars, reqVars
  <2> QED
    BY <1>0, <1>1, <1>3, <2>4 DEF Serving, reqVars
<1>4. CASE modifier1 = 0 /\ datasize = Len(body) /\ InParser(list, size, body)
  <2>1. PICK q \in Nat: q = Len(body)
    BY <1>0
  <2>2. InFlight(body, q)
    BY <1>4, <2>1 DEF InParser
  <2>3. InFlight(body, q)'
    BY <1>0, <2>1, <2>2, InFlightMore
  <2>4. Parsed(list, size)'
    BY <1>1, <1>4 DEF InParser, Parsed, reqVars
  <2>5. InParser(list, size, body)'
    BY <1>1, <1>4, <2>1, <2>3, <2>4 DEF InParser, reqVars
  <2> QED
    BY <1>0, <1>1, <1>4, <2>5 DEF Serving, reqVars
<1>5. CASE /\ modifier1 = 0 /\ datasize = Len(body)
           /\ m_headers = AllSeen(list, size) \/ ~clean
           /\ InContent(size) \/ InRequest(size)
  <2>1. ContentRead
    BY <1>5 DEF InContent, InRequest
  <2>2. ContentRead'
    BY <2>1, ContentReadMore
  <2>3. (InContent(size) \/ InRequest(size))'
    BY <1>1, <1>5, <2>2 DEF InContent, InRequest, reqVars
  <2> QED
    BY <1>0, <1>1, <1>5, <2>3 DEF Serving, reqVars
<1> QED
  BY <1>0, <1>2, <1>3, <1>4, <1>5, Zenon DEF Serving

LEMMA ServerPartMore ==
    ASSUME TypeOK, TypeOK', ContentPart, ServerPart, NEW c \in Seq(Words), Writes(c)
    PROVE  ServerPart'
<1>1. UNCHANGED <<calls, asked, clean, fresh, at, m_events, reqVars>>
  BY DEF Writes
<1>2. SUFFICES ASSUME Live, m_events = "READ"
               PROVE  \/ NoHeader' \/ OtherPacket'
                      \/ \E list \in VarLists, size \in ContentSizes, tail \in Words \X Words:
                            /\ Request(list, size, tail)'
                            /\ Serving(list, size, Body(list, size, tail))'
  BY <1>1 DEF ServerPart, Live
<1>3. asked.content \in Seq(Words)
  BY DEF ContentPart
<1>4. CASE NoHeader
  <2>1. up \in Seq(Words) /\ Unsent \in Nat /\ Unsent' \in Nat
    BY UnsentType, UnsentTypeNext
  <2>2. m_content' = m_content /\ m_state' = m_state
    BY <1>1 DEF reqVars
  <2>3. /\ \A i \in 1..Len(up): IsBody(up[i])
        /\ \A j \in 1..Len(c): IsBody(c[j])
        /\ up' = up \o c
        /\ fresh => up = <<>> /\ Unsent = 0 /\ Unsent' + Len(c) <= Unsent
    BY <1>4 DEF NoHeader, Writes
  <2>4. CASE fresh
    <3>1. up = <<>> /\ c = <<>> /\ Unsent' = 0
      <4>1. PICK l \in Nat: l = Len(c)
        OBVIOUS
      <4>2. Unsent' + l <= 0
        BY <2>1, <2>3, <2>4, <4>1
      <4>3. l = 0 /\ Unsent' = 0
        BY <2>1, <4>1, <4>2
      <4>4. c = <<>>
        <5>1. \A s \in Seq(Words): Len(s) = 0 => s = <<>>
          OBVIOUS
        <5> QED
          BY <4>1, <4>3, <5>1, Zenon
      <4> QED
        BY <2>3, <2>4, <4>3, <4>4, Zenon
    <3>2. up' = <<>>
      BY <2>3, <3>1
    <3> QED
      BY <1>1, <1>4, <2>2, <3>1, <3>2 DEF NoHeader
  <2>5. CASE ~fresh
    <3>1. \A i \in 1..Len(up \o c): IsBody((up \o c)[i])
      <4>1. /\ Len(up \o c) = Len(up) + Len(c)
            /\ \A x \in 1..Len(up): (up \o c)[x] = up[x]
            /\ \A x \in 1..Len(c): (up \o c)[Len(up) + x] = c[x]
        BY <2>1, ConcatElements
      <4>2. PICK l \in Nat, m \in Nat: l = Len(up) /\ m = Len(c)
        BY <2>1
      <4> SUFFICES ASSUME NEW i \in 1..(l + m) PROVE IsBody((up \o c)[i])
        BY <4>1, <4>2, Zenon
      <4>3. CASE i \in 1..l
        BY <2>3, <4>1, <4>2, <4>3, Zenon
      <4>4. CASE i \notin 1..l
        <5>1. i - l \in 1..m /\ l + (i - l) = i
          BY <4>2, <4>4
        <5>2. (up \o c)[l + (i - l)] = c[i - l]
          BY <4>1, <4>2, <5>1, Zenon
        <5> QED
          BY <2>3, <4>2, <5>1, <5>2, Zenon
      <4> QED
        BY <4>3, <4>4
    <3>2. (\A i \in 1..Len(up): IsBody(up[i]))'
      BY <1>1, <2>3, <3>1, Zenon DEF IsBody
    <3> QED
      BY <1>1, <1>4, <2>2, <2>5, <3>2, Zenon DEF NoHeader
  <2> QED
    BY <2>4, <2>5
<1>5. CASE OtherPacket
  BY <1>1, <1>5 DEF OtherPacket, reqVars
<1>6. CASE \E list \in VarLists, size \in ContentSizes, tail \in Words \X Words:
              Request(list, size, tail) /\ Serving(list, size, Body(list, size, tail))
  <2>1. PICK list \in VarLists, size \in ContentSizes, tail \in Words \X Words:
            Request(list, size, tail) /\ Serving(list, size, Body(list, size, tail))
    BY <1>6
  <2>2. Request(list, size, tail)'
    BY <1>1, <2>1, RequestSame
  <2>3. Serving(list, size, Body(list, size, tail))'
    BY <1>3, <2>1, ServingMore
  <2> QED
    BY <2>1, <2>2, <2>3
<1> QED
  BY <1>2, <1>4, <1>5, <1>6 DEF ServerPart

LEMMA NoWords == <<>> \in Seq(Words) /\ Len(<<>>) = 0
OBVIOUS

\* A step that writes nothing and begins no call.
Silent ==
    /\ UNCHANGED <<up, calls, asked, clean, fresh, at, m_events, reqVars>>
    /\ Unsent' = 0 \/ Unsent' = Unsent

LEMMA ServerPartSilent ==
    ASSUME TypeOK, TypeOK', ContentPart, ServerPart, Silent
    PROVE  ServerPart'
<1>1. up \in Seq(Words) /\ Unsent \in Nat /\ Unsent' \in Nat
  BY UnsentType, UnsentTypeNext
<1>2. PICK c \in Seq(Words): c = <<>>
  BY NoWords, Zenon
<1>3. up \o c = up /\ Len(c) = 0
  BY <1>1, <1>2
<1>4. Unsent' + Len(c) <= Unsent
  <2>1. \A x, y \in Nat: (x = 0 \/ x = y) => x + 0 <= y
    OBVIOUS
  <2>2. Unsent' + 0 <= Unsent
    BY <1>1, <2>1, Zenon DEF Silent
  <2> QED
    BY <1>3, <2>2, Zenon
<1>5. Writes(c)
  BY <1>3, <1>4 DEF Writes, Silent
<1> QED
  BY <1>2, <1>5, ServerPartMore

\* The request and its content stay as they are.
LEMMA ObjectSame ==
    ASSUME DataPart, ContentPart,
           UNCHANGED <<calls, asked, clean, fresh, content>>,
           UNCHANGED <<req_state, mod, data>> \/ req_state' # "WRITE_DATA"
    PROVE  DataPart' /\ ContentPart'
<1>1. ContentPart'
  BY DEF ContentPart, IsBody
<1>2. CASE req_state' # "WRITE_DATA"
  BY <1>1, <1>2 DEF DataPart
<1>3. CASE UNCHANGED <<req_state, mod, data>> /\ req_state = "WRITE_DATA"
  <2>1. PICK list \in VarLists, size \in ContentSizes, tail \in Words \X Words:
            /\ Request(list, size, tail)
            /\ data = Header(mod, Body(list, size, tail)) \o Body(list, size, tail)
    BY <1>3 DEF DataPart
  <2>2. Request(list, size, tail)'
    BY <2>1, RequestSame
  <2>3. data' = Header(mod', Body(list, size, tail)) \o Body(list, size, tail)
    BY <1>3, <2>1
  <2> QED
    BY <1>1, <2>1, <2>2, <2>3, Zenon DEF DataPart
<1> QED
  BY <1>2, <1>3

LEMMA InitIInv == Init => IInv
<1> SUFFICES ASSUME Init PROVE IInv
  OBVIOUS
<1>1. TypeOK
  <2>1. ServerTypeOK
    <3>1. Len(m_data) <= datasize /\ Len(m_content) <= content_size
      BY DEF Init, ServerInit
    <3> QED
      BY <3>1, NoWords DEF Init, ServerInit, ServerTypeOK, Response!BaseTypeOK
  <2>2. calls \in 0..MaxCalls
    BY ThriftCallAssumption DEF Init
  <2> QED
    BY <2>1, <2>2, NoWords DEF Init, TypeOK
<1>2. DataPart /\ ContentPart
  BY DEF Init, DataPart, ContentPart
<1>3. ServerPart /\ EmptyPart /\ OutcomePart /\ ResponsePart
  BY DEF Init, ServerInit, ServerPart, EmptyPart, Live, OutcomePart, ResponsePart
<1>4. ClientPart /\ ReplyPart
  BY DEF Init, ServerInit, ClientPart, ReplyPart, InCall
<1> QED
  BY <1>1, <1>2, <1>3, <1>4 DEF IInv

LEMMA OpenStep == IInv /\ Open => IInv'
<1> SUFFICES ASSUME IInv, Open PROVE IInv'
  OBVIOUS
<1>1. TypeOK'
  <2>1. ServerTypeOK'
    <3>1. Len(m_data') <= datasize' /\ Len(m_content') <= content_size'
      BY DEF Open, NewTask, clearRequest
    <3>2. nonblock' \in BOOLEAN
      BY DEF IInv, TypeOK, ServerTypeOK, Open, NewTask
    <3> QED
      BY <3>1, <3>2, NoWords DEF Open, NewTask, clearRequest, Response!clear, ServerTypeOK,
                                Response!BaseTypeOK
  <2> QED
    BY <2>1 DEF IInv, Open, TypeOK, objectVars, requestVars, historyVars
<1>2. DataPart' /\ ContentPart'
  <2>1. UNCHANGED <<calls, asked, clean, fresh, content, req_state, mod, data>>
    BY DEF Open, objectVars, requestVars, historyVars
  <2> QED
    BY <2>1, ObjectSame DEF IInv
<1>3. ServerPart' /\ EmptyPart' /\ OutcomePart' /\ ResponsePart'
  <2>1. NoHeader'
    BY DEF Open, NewTask, clearRequest, NoHeader, Unsent
  <2> QED
    BY <2>1 DEF Open, NewTask, clearRequest, ServerPart, EmptyPart, Live, OutcomePart, ResponsePart,
                Response!clear
<1>4. ClientPart' /\ ReplyPart'
  BY DEF IInv, Open, NewTask, clearRequest, ClientPart, Untouched, ReplyPart, Live, InCall,
         objectVars, requestVars, historyVars
<1> QED
  BY <1>1, <1>2, <1>3, <1>4 DEF IInv

LEMMA OpenFailsStep == IInv /\ OpenFails => IInv'
<1> SUFFICES ASSUME IInv, OpenFails PROVE IInv'
  OBVIOUS
<1>1. TypeOK'
  <2>1. ServerTypeOK'
    BY DEF IInv, OpenFails, TypeOK, ServerTypeOK, wireVars, reqVars, resVars, Response!BaseTypeOK
  <2> QED
    BY <2>1 DEF IInv, OpenFails, TypeOK, objectVars, requestVars, historyVars
<1>2. DataPart' /\ ContentPart'
  <2>1. UNCHANGED <<calls, asked, clean, fresh, content, req_state, mod, data>>
    BY DEF OpenFails, objectVars, requestVars, historyVars
  <2> QED
    BY <2>1, ObjectSame DEF IInv
<1>3. ServerPart' /\ EmptyPart' /\ OutcomePart' /\ ResponsePart'
  BY DEF OpenFails, ServerPart, EmptyPart, Live, OutcomePart, ResponsePart
<1>4. ClientPart' /\ ReplyPart'
  BY DEF IInv, OpenFails, ClientPart, ReplyPart, InCall, objectVars, requestVars, historyVars
<1> QED
  BY <1>1, <1>2, <1>3, <1>4 DEF IInv

\* The client leaves its object and the server alone.
LEMMA CallMoves ==
    ASSUME IInv, UNCHANGED <<calls, connected, objectVars, historyVars, serverVars>>,
           call' \in {"open", "returned", "failed"} \/ call' = call, TypeOK', ClientPart', ReplyPart'
    PROVE  IInv'
<1>1. DataPart' /\ ContentPart'
  <2>1. UNCHANGED <<calls, asked, clean, fresh, content, req_state, mod, data>>
    BY DEF objectVars, requestVars, historyVars
  <2> QED
    BY <2>1, ObjectSame DEF IInv
<1>2. Silent
  BY DEF Silent, Unsent, serverVars, wireVars, objectVars, requestVars, historyVars
<1>3. ServerPart'
  BY <1>2, ServerPartSilent DEF IInv
<1>4. EmptyPart' /\ OutcomePart' /\ ResponsePart'
  BY DEF IInv, EmptyPart, OutcomePart, ResponsePart, Live, serverVars, wireVars, reqVars, resVars,
         Response!ToWrite, historyVars
<1> QED
  BY <1>1, <1>3, <1>4 DEF IInv

LEMMA ThrowStep ==
    ASSUME IInv, Throw, call \in InCall
    PROVE  IInv'
<1>1. TypeOK'
  BY DEF IInv, Throw, TypeOK, ServerTypeOK, serverVars, objectVars, requestVars, historyVars, wireVars, reqVars, resVars,
         Response!BaseTypeOK
<1>2. ClientPart'
  BY DEF IInv, Throw, ClientPart, InCall, serverVars, wireVars
<1>3. ReplyPart'
  BY DEF IInv, Throw, ReplyPart, InCall, Ours, serverVars, wireVars, resVars, objectVars, requestVars, historyVars
<1> QED
  BY <1>1, <1>2, <1>3, CallMoves DEF Throw

LEMMA FlushWriteFailsStep == IInv /\ FlushWriteFails => IInv'
BY ThrowStep DEF FlushWriteFails, InCall

LEMMA FlushReadFailsStep == IInv /\ FlushReadFails => IInv'
BY ThrowStep DEF FlushReadFails, ReadsResponse, InCall

LEMMA FlushReturnsStep == IInv /\ FlushReturns => IInv'
<1> SUFFICES ASSUME IInv, FlushReturns PROVE IInv'
  OBVIOUS
<1>1. TypeOK'
  BY DEF IInv, FlushReturns, TypeOK, ServerTypeOK, serverVars, objectVars, requestVars, historyVars, wireVars, reqVars, resVars,
         Response!BaseTypeOK
<1>2. ClientPart'
  BY DEF IInv, FlushReturns, ClientPart, serverVars, wireVars, objectVars, requestVars, historyVars
<1>3. ReplyPart'
  BY DEF IInv, FlushReturns, ReplyPart, InCall, Ours, serverVars, wireVars, resVars, objectVars, requestVars, historyVars
<1> QED
  BY <1>1, <1>2, <1>3, CallMoves DEF FlushReturns

LEMMA OnewayReturnsStep == IInv /\ OnewayReturns => IInv'
<1> SUFFICES ASSUME IInv, OnewayReturns PROVE IInv'
  OBVIOUS
<1>1. TypeOK'
  BY DEF IInv, OnewayReturns, TypeOK, ServerTypeOK, serverVars, objectVars, requestVars, historyVars, wireVars, reqVars, resVars,
         Response!BaseTypeOK
<1>2. got # <<>> /\ req_state = "DONE"
  BY UwsgiTaskAssumption DEF IInv, OnewayReturns, ClientPart, ReplyPart
<1>3. ClientPart'
  BY <1>2 DEF IInv, OnewayReturns, ClientPart, serverVars, wireVars, objectVars, requestVars, historyVars
<1>4. ReplyPart'
  BY DEF IInv, OnewayReturns, ReplyPart, InCall, objectVars, requestVars, historyVars
<1> QED
  BY <1>1, <1>3, <1>4, CallMoves DEF OnewayReturns

\* The client gives up its connection, and may clear its object.
LEMMA LeaveStep ==
    ASSUME IInv, call' = "closed", connected' = FALSE, closed' \in BOOLEAN, closed => closed',
           UNCHANGED <<calls, asked, clean, fresh, up, down, nonblock, at, m_events, reqVars, resVars, outcome>>,
           used' \in BOOLEAN, misread' \in BOOLEAN,
           \/ UNCHANGED <<objectVars, used>>
           \/ /\ req_state' = "READY" /\ mod' \in Modifiers /\ done' = FALSE
              /\ data' = <<>> /\ content' = <<>> /\ got' = <<>> /\ mem' \in Seq(Words)
    PROVE  IInv'
<1>1. TypeOK'
  <2>1. ServerTypeOK'
    BY DEF IInv, TypeOK, ServerTypeOK, reqVars, resVars, Response!BaseTypeOK
  <2>2. /\ req_state' \in {"READY", "WRITE_DATA", "WRITE_CONTENT", "DONE"} /\ mod' \in Modifiers
        /\ data' \in Seq(Words) /\ content' \in Seq(Words) /\ mem' \in Seq(Words)
        /\ got' \in Seq(Words) /\ done' \in BOOLEAN
    BY NoWords DEF IInv, TypeOK, objectVars, requestVars, historyVars
  <2> QED
    BY <2>1, <2>2 DEF IInv, TypeOK
<1>2. DataPart' /\ ContentPart'
  <2>1. CASE UNCHANGED objectVars
    BY <2>1, ObjectSame DEF IInv, objectVars, requestVars, historyVars
  <2>2. CASE req_state' = "READY" /\ content' = <<>>
    BY <2>2 DEF IInv, DataPart, ContentPart
  <2> QED
    BY <2>1, <2>2
<1>3. ServerPart'
  <2>1. Silent
    BY DEF Silent, Unsent
  <2> QED
    BY <1>1, <2>1, ServerPartSilent DEF IInv
<1>4. EmptyPart' /\ OutcomePart' /\ ResponsePart'
  BY DEF IInv, EmptyPart, OutcomePart, ResponsePart, Live, reqVars, resVars, Response!ToWrite
<1>5. ClientPart' /\ ReplyPart'
  BY DEF IInv, ClientPart, ReplyPart, InCall, objectVars, requestVars
<1> QED
  BY <1>1, <1>2, <1>3, <1>4, <1>5 DEF IInv

LEMMA readEndStep == IInv /\ readEnd => IInv'
<1> SUFFICES ASSUME IInv, readEnd PROVE IInv'
  OBVIOUS
<1>1. mem' \in Seq(Words) /\ mod' \in Modifiers
  BY ThriftCallAssumption DEF IInv, TypeOK, readEnd
<1> QED
  BY <1>1, LeaveStep DEF readEnd

LEMMA CloseStep == IInv /\ Close => IInv'
<1> SUFFICES ASSUME IInv, Close PROVE IInv'
  OBVIOUS
<1>1. closed' \in BOOLEAN /\ (closed => closed')
  BY DEF IInv, TypeOK, ServerTypeOK, Close
<1>2. used' \in BOOLEAN /\ misread' \in BOOLEAN
  BY DEF IInv, TypeOK, Close, historyVars
<1> QED
  BY <1>1, <1>2, LeaveStep DEF Close, historyVars

LEMMA NewClientStep == IInv /\ NewClient => IInv'
<1> SUFFICES ASSUME IInv, NewClient PROVE IInv'
  OBVIOUS
<1>1. closed' \in BOOLEAN /\ (closed => closed')
  BY DEF IInv, TypeOK, ServerTypeOK, NewClient
<1>2. mem' \in Seq(Words)
  BY DEF NewClient
<1> QED
  BY <1>1, <1>2, LeaveStep DEF NewClient

\* A part of a list, and the rest.
LEMMA PartOf ==
    ASSUME NEW S, NEW s \in Seq(S), NEW m \in Nat, NEW n \in Nat, m + n <= Len(s)
    PROVE  /\ SubSeq(s, m + 1, m + n) \in Seq(S) /\ Len(SubSeq(s, m + 1, m + n)) = n
           /\ \A i \in 1..n: SubSeq(s, m + 1, m + n)[i] = s[m + i]
<1>1. \A i \in (m + 1)..(m + n): i \in 1..Len(s) /\ s[i] \in S
  OBVIOUS
<1>2. m + 1 \in Nat /\ m + n \in Nat /\ (m + n) - (m + 1) + 1 = n
  OBVIOUS
<1> QED
  BY <1>1, <1>2

LEMMA Split ==
    ASSUME NEW S, NEW s \in Seq(S), NEW n \in 0..Len(s)
    PROVE  /\ SubSeq(s, 1, n) \in Seq(S) /\ Len(SubSeq(s, 1, n)) = n
           /\ \A i \in 1..n: SubSeq(s, 1, n)[i] = s[i]
           /\ SubSeq(s, n + 1, Len(s)) \in Seq(S) /\ Len(SubSeq(s, n + 1, Len(s))) = Len(s) - n
           /\ \A i \in 1..(Len(s) - n): SubSeq(s, n + 1, Len(s))[i] = s[i + n]
OBVIOUS

LEMMA OursConcat ==
    ASSUME NEW s \in Seq(Words), NEW r \in Seq(Words), Ours(s), Ours(r)
    PROVE  Ours(s \o r)
<1>1. /\ Len(s \o r) = Len(s) + Len(r)
      /\ \A x \in 1..Len(s): (s \o r)[x] = s[x]
      /\ \A x \in 1..Len(r): (s \o r)[Len(s) + x] = r[x]
  BY ConcatElements
<1>2. PICK l \in Nat, m \in Nat: l = Len(s) /\ m = Len(r)
  OBVIOUS
<1> DEFINE P(w) == w[1] = "body" => w[2] = IF asked.content = <<>> THEN 0 ELSE calls
<1>3. (\A i \in 1..l: P(s[i])) /\ (\A i \in 1..m: P(r[i]))
  BY <1>2 DEF Ours
<1> HIDE DEF P
<1>4. ASSUME NEW i \in 1..(l + m) PROVE P((s \o r)[i])
  <2>1. CASE i \in 1..l
    BY <1>1, <1>2, <1>3, <2>1, Zenon
  <2>2. CASE i \notin 1..l
    <3>1. i - l \in 1..m /\ l + (i - l) = i
      BY <1>2, <2>2
    <3>2. (s \o r)[l + (i - l)] = r[i - l]
      BY <1>1, <1>2, <3>1, Zenon
    <3> QED
      BY <1>3, <3>1, <3>2, Zenon
  <2> QED
    BY <2>1, <2>2
<1> QED
  BY <1>1, <1>2, <1>4 DEF Ours, P

LEMMA OursPart ==
    ASSUME NEW s \in Seq(Words), Ours(s), NEW m \in Nat, NEW n \in Nat, m + n <= Len(s)
    PROVE  Ours(SubSeq(s, m + 1, m + n))
<1> DEFINE r == SubSeq(s, m + 1, m + n)
           P(w) == w[1] = "body" => w[2] = IF asked.content = <<>> THEN 0 ELSE calls
<1>1. Len(r) = n /\ \A i \in 1..n: r[i] = s[m + i]
  BY PartOf
<1>2. \A i \in 1..n: m + i \in 1..Len(s)
  OBVIOUS
<1>3. \A i \in 1..Len(s): P(s[i])
  BY DEF Ours
<1> HIDE DEF r, P
<1>4. \A i \in 1..Len(r): P(r[i])
  BY <1>1, <1>2, <1>3, Zenon
<1> QED
  BY <1>4, Zenon DEF Ours, P, r

LEMMA ReadResponseStep ==
    ASSUME IInv, NEW n \in 1..Len(down), NEW full \in BOOLEAN, ReadResponse(n, full)
    PROVE  IInv'
<1>1. down \in Seq(Words) /\ got \in Seq(Words) /\ n \in 0..Len(down) /\ Len(down) \in Nat
  BY DEF IInv, TypeOK, ServerTypeOK
<1>2. PICK a \in Seq(Words), b \in Seq(Words):
        a = SubSeq(down, 1, n) /\ b = SubSeq(down, n + 1, Len(down))
  BY <1>1, Split
<1>3. got' = got \o a /\ down' = b
  BY <1>2 DEF ReadResponse
<1>4. got \o a \in Seq(Words)
  BY <1>1, <1>2, ConcatElements
<1>5. /\ call \in {"reading", "again"} /\ call' \in {"reading", "again"} /\ connected
      /\ UNCHANGED <<calls, connected, req_state, mod, data, content, mem, asked, clean, used, fresh,
                     up, closed, nonblock, at, m_events, reqVars, resVars, outcome>>
  BY DEF ReadResponse, ReadsResponse, requestVars
<1>d. done' \in BOOLEAN /\ misread' \in BOOLEAN
  BY DEF IInv, TypeOK, ReadResponse
<1>6. TypeOK'
  BY <1>2, <1>3, <1>4, <1>5, <1>d DEF IInv, TypeOK, InCall, ServerTypeOK, reqVars, resVars,
                                     Response!BaseTypeOK
<1>7. DataPart' /\ ContentPart'
  BY <1>5, ObjectSame DEF IInv
<1>8. ServerPart'
  <2>1. Silent
    BY <1>5 DEF Silent, Unsent
  <2> QED
    BY <1>6, <2>1, ServerPartSilent DEF IInv
<1>9. EmptyPart' /\ OutcomePart' /\ ResponsePart'
  BY <1>5 DEF IInv, EmptyPart, OutcomePart, ResponsePart, Live, reqVars, resVars, Response!ToWrite
<1>10. ClientPart'
  BY <1>5 DEF IInv, ClientPart
<1>11. ReplyPart'
  <2>1. used /\ got' # <<>>
    <3>1. used
      BY <1>5 DEF IInv, ReplyPart, InCall
    <3>2. Len(a) = n
      BY <1>1, <1>2, Split
    <3>3. Len(got \o a) = Len(got) + Len(a) /\ Len(got) \in Nat
      BY <1>1, <1>2
    <3> QED
      BY <1>1, <1>3, <3>1, <3>2, <3>3
  <2>2. fresh => Ours(got) /\ Ours(down) /\ Ours(response)
    BY <1>5 DEF IInv, ReplyPart
  <2>3. fresh => Ours(a)
    <3>1. 0 + n <= Len(down) /\ n \in Nat /\ 0 + n = n /\ 0 + 1 = 1
      BY <1>1
    <3>2. fresh => Ours(SubSeq(down, 0 + 1, 0 + n))
      BY <1>1, <2>2, <3>1, OursPart
    <3> QED
      BY <1>2, <3>1, <3>2, Zenon
  <2>4. fresh => Ours(b)
    <3>0. Len(down) - n \in Nat
      BY <1>1
    <3>1. PICK m \in Nat: m = Len(down) - n
      BY <3>0, Zenon
    <3>2. n + m <= Len(down) /\ n \in Nat /\ n + m = Len(down)
      BY <1>1, <3>1
    <3>3. fresh => Ours(SubSeq(down, n + 1, n + m))
      BY <1>1, <2>2, <3>1, <3>2, OursPart
    <3> QED
      BY <1>2, <3>2, <3>3, Zenon
  <2>5. fresh => Ours(got \o a)
    BY <1>1, <1>2, <2>2, <2>3, OursConcat
  <2> QED
    BY <1>3, <1>5, <2>1, <2>2, <2>4, <2>5 DEF ReplyPart, Ours, resVars
<1> QED
  BY <1>6, <1>7, <1>8, <1>9, <1>10, <1>11 DEF IInv

LEMMA WriteContentStep == IInv /\ WriteContent => IInv'
<1> SUFFICES ASSUME IInv, WriteContent PROVE IInv'
  OBVIOUS
<1>1. up \in Seq(Words) /\ content \in Seq(Words)
  BY DEF IInv, TypeOK, ServerTypeOK
<1>2. /\ call = "content" /\ call' = "reading"
      /\ UNCHANGED <<calls, connected, mod, data, mem, got, done, historyVars,
                     down, closed, nonblock, at, m_events, reqVars, resVars, outcome>>
  BY DEF WriteContent
<1>3. PICK c \in Seq(Words):
        /\ c = IF req_state = "WRITE_CONTENT" THEN content ELSE <<>>
        /\ up' = up \o c /\ Len(c) = Unsent /\ up \o c \in Seq(Words)
  <2>1. CASE req_state = "WRITE_CONTENT"
    BY <1>1, <1>2, <2>1, ConcatElements DEF WriteContent, Unsent
  <2>2. CASE req_state # "WRITE_CONTENT"
    <3>1. up \o <<>> = up /\ up' = up
      BY <1>1, <2>2 DEF WriteContent
    <3>2. Unsent = 0
      BY <2>2 DEF Unsent
    <3> QED
      BY <1>1, <2>2, <3>1, <3>2, NoWords, Zenon
  <2> QED
    BY <2>1, <2>2
<1>4. /\ req_state' = "DONE" /\ Unsent' = 0
      /\ content' = content \/ content' = <<>>
  BY <1>2 DEF WriteContent, Unsent, IInv, ClientPart
<1>5. TypeOK'
  <2>1. ServerTypeOK'
    BY <1>2, <1>3 DEF IInv, TypeOK, ServerTypeOK, reqVars, resVars, Response!BaseTypeOK
  <2> QED
    BY <1>1, <1>2, <1>4, <2>1, NoWords DEF IInv, TypeOK, InCall, historyVars
<1>6. DataPart' /\ ContentPart'
  BY <1>2, <1>4 DEF IInv, DataPart, ContentPart, IsBody, historyVars
<1>7. ServerPart'
  <2>1. Unsent \in Nat
    BY UnsentType DEF IInv
  <2>2. Unsent' + Len(c) <= Unsent
    BY <1>3, <1>4, <2>1
  <2>3. \A i \in 1..Len(c): IsBody(c[i])
    BY <1>3, NoWords DEF IInv, ContentPart
  <2>4. Writes(c)
    BY <1>2, <1>3, <2>2, <2>3 DEF Writes, historyVars
  <2> QED
    BY <1>3, <1>5, <2>4, ServerPartMore DEF IInv
<1>8. EmptyPart' /\ OutcomePart' /\ ResponsePart'
  BY <1>2 DEF IInv, EmptyPart, OutcomePart, ResponsePart, Live, reqVars, resVars, Response!ToWrite, historyVars
<1>9. ClientPart' /\ ReplyPart'
  BY <1>2, <1>4 DEF IInv, ClientPart, ReplyPart, InCall, Ours, resVars, historyVars
<1> QED
  BY <1>5, <1>6, <1>7, <1>8, <1>9 DEF IInv

\* The header and the variables leave for a server that has seen nothing.
LEMMA FirstWrite ==
    ASSUME IInv, WriteHeaders, req_state = "WRITE_DATA", TypeOK'
    PROVE  ServerPart'
<1>1. /\ call = "headers" /\ connected /\ call' = "content" /\ up' = up \o data
      /\ req_state' = IF content = <<>> THEN "DONE" ELSE "WRITE_CONTENT"
      /\ UNCHANGED <<calls, connected, mod, content, asked, clean, fresh, at, m_events, reqVars>>
  BY DEF WriteHeaders, historyVars
<1>2. up = <<>> /\ (Live => m_state = "READY" /\ m_events = "READ" /\ at = "watch")
  BY <1>1 DEF IInv, ClientPart, Untouched
<1>3. PICK list \in VarLists, size \in ContentSizes, tail \in Words \X Words:
          /\ Request(list, size, tail)
          /\ data = Header(mod, Body(list, size, tail)) \o Body(list, size, tail)
  BY DEF IInv, DataPart
<1>4. Request(list, size, tail)'
  BY <1>1, <1>3, RequestSame
<1>5. PICK full \in Seq(Words): full = data
  BY DEF IInv, TypeOK
<1>6. up' = full
  <2>1. <<>> \o full = full
    BY <1>5
  <2> QED
    BY <1>1, <1>2, <1>5, <2>1, Zenon
<1>7. fresh => Unsent' = Len(asked.content)
  <2>1. fresh => content = asked.content
    BY <1>1 DEF IInv, ClientPart
  <2> QED
    BY <1>1, <2>1 DEF Unsent
<1>8. InFlight(full, 0)'
  <2>1. PICK l \in Nat, u \in Nat, k \in Nat:
          l = Len(full) /\ u = Unsent' /\ k = Len(asked.content)
    <3>1. asked.content \in Seq(Words) /\ Unsent' \in Nat
      BY UnsentTypeNext DEF IInv, ContentPart
    <3>2. Len(asked.content) \in Nat /\ Len(full) \in Nat
      BY <1>5, <3>1
    <3> QED
      BY <3>1, <3>2, Zenon
  <2>2. Len(up') = l /\ asked' = asked /\ fresh' = fresh /\ (fresh => u = k)
    BY <1>1, <1>6, <1>7, <2>1, Zenon
  <2>3. \A i \in 1..l: i + 0 <= l /\ i + 0 = i
    BY <2>1
  <2>4. l + 0 >= l /\ (fresh => l + 0 - l + u <= k)
    BY <2>1, <2>2
  <2>5. /\ Len(up') + 0 >= Len(full)
        /\ fresh' => Len(up') + 0 - Len(full) + Unsent' <= Len(asked'.content)
    BY <2>1, <2>2, <2>4, Zenon
  <2>6. (\A i \in 1..Len(up): IF i + 0 <= Len(full) THEN up[i] = full[i + 0] ELSE IsBody(up[i]))'
    BY <1>6, <2>1, <2>2, <2>3, Zenon
  <2> QED
    BY <2>5, <2>6, Zenon DEF InFlight
<1>9. Live => InHeader(Body(list, size, tail))'
  <2>1. mod \in Nat
    BY ThriftCallAssumption DEF IInv, TypeOK
  <2>2. m_state' = m_state /\ at' = at
    BY <1>1 DEF reqVars
  <2>3. Live => m_state' = "READY" /\ at' = "watch"
    BY <1>2, <2>2
  <2> QED
    BY <1>3, <1>5, <1>8, <2>1, <2>3, Zenon DEF InHeader
<1>10. Live' => Live
  BY <1>1 DEF Live
<1> QED
  BY <1>3, <1>4, <1>9, <1>10, Zenon DEF ServerPart, Serving

LEMMA WriteHeadersStep == IInv /\ WriteHeaders => IInv'
<1> SUFFICES ASSUME IInv, WriteHeaders PROVE IInv'
  OBVIOUS
<1>1. up \in Seq(Words) /\ data \in Seq(Words) /\ content \in Seq(Words)
  BY DEF IInv, TypeOK, ServerTypeOK
<1>2. /\ call = "headers" /\ call' = "content"
      /\ UNCHANGED <<calls, connected, mod, content, mem, got, done, historyVars,
                     down, closed, nonblock, at, m_events, reqVars, resVars, outcome>>
  BY DEF WriteHeaders
<1>3. req_state' \in {"WRITE_CONTENT", "DONE"}
  <2>1. req_state \in {"WRITE_DATA", "WRITE_CONTENT", "DONE"}
    BY <1>2 DEF IInv, TypeOK, ClientPart
  <2> QED
    BY <2>1 DEF WriteHeaders
<1>4. up' \in Seq(Words) /\ data' \in Seq(Words)
  <2>1. up \o data \in Seq(Words)
    BY <1>1, ConcatElements
  <2> QED
    BY <1>1, <2>1, NoWords DEF WriteHeaders
<1>5. TypeOK'
  <2>1. ServerTypeOK'
    BY <1>2, <1>4 DEF IInv, TypeOK, ServerTypeOK, reqVars, resVars, Response!BaseTypeOK
  <2> QED
    BY <1>2, <1>3, <1>4, <2>1 DEF IInv, TypeOK, InCall, historyVars
<1>6. DataPart' /\ ContentPart'
  BY <1>2, <1>3 DEF IInv, DataPart, ContentPart, IsBody, historyVars
<1>7. ServerPart'
  <2>1. CASE req_state = "WRITE_DATA"
    BY <1>5, <2>1, FirstWrite
  <2>2. CASE req_state # "WRITE_DATA"
    <3>1. ~fresh /\ up' = up
      BY <1>2, <2>2 DEF IInv, ClientPart, WriteHeaders
    <3>2. PICK c \in Seq(Words): c = <<>> /\ Len(c) = 0
      BY NoWords, Zenon
    <3>3. up \o c = up
      BY <1>1, <3>2
    <3>4. \A i \in 1..Len(c): IsBody(c[i])
      BY <3>2
    <3>5. Writes(c)
      BY <1>2, <3>1, <3>3, <3>4 DEF Writes, historyVars
    <3> QED
      BY <1>5, <3>2, <3>5, ServerPartMore DEF IInv
  <2> QED
    BY <2>1, <2>2
<1>8. EmptyPart' /\ OutcomePart' /\ ResponsePart'
  BY <1>2 DEF IInv, EmptyPart, OutcomePart, ResponsePart, Live, reqVars, resVars, Response!ToWrite, historyVars
<1>9. ClientPart' /\ ReplyPart'
  BY <1>2, <1>3 DEF IInv, ClientPart, ReplyPart, InCall, Ours, resVars, historyVars
<1> QED
  BY <1>5, <1>6, <1>7, <1>8, <1>9 DEF IInv

-----------------------------------------------------------------------------
(* A new call                                                              *)

LEMMA TrailerType ==
    ASSUME NEW old \in Seq(Words), NEW block \in Seq(Words)
    PROVE  Trailer(old, block) \in Words \X Words /\ Memory(old, block) \in Seq(Words)
<1>1. PICK l \in Nat, k \in Nat: l = Len(old) /\ k = Len(block)
  OBVIOUS
<1>2. Zero \in Words
  BY DEF Zero, Words
<1> DEFINE T(i) == IF k + i <= l THEN old[k + i] ELSE Zero
<1>3. \A i \in 1..2: T(i) \in Words
  BY <1>1, <1>2
<1>4. Trailer(old, block) = [i \in 1..2 |-> T(i)]
  BY <1>1 DEF Trailer
<1> HIDE DEF T
<1>5. [i \in 1..2 |-> T(i)] = <<T(1), T(2)>>
  OBVIOUS
<1>6. Trailer(old, block) \in Words \X Words
  BY <1>3, <1>4, <1>5
<1>7. Memory(old, block) \in Seq(Words)
  <2>1. CASE l > k
    <3>1. k \in 0..Len(old)
      BY <1>1, <2>1
    <3>2. SubSeq(old, k + 1, Len(old)) \in Seq(Words)
      BY <3>1, Split
    <3>3. block \o SubSeq(old, k + 1, Len(old)) \in Seq(Words)
      BY <3>2, ConcatElements
    <3> QED
      BY <1>1, <2>1, <3>3 DEF Memory
  <2>2. CASE ~(l > k)
    BY <1>1, <2>2 DEF Memory
  <2> QED
    BY <2>1, <2>2
<1> QED
  BY <1>6, <1>7

LEMMA MeantIs ==
    ASSUME NEW list \in VarLists, NEW size \in ContentSizes
    PROVE  Meant(list, size).vars = AllSeen(list, size)
<1>1. PICK vs \in Seq(Var): vs = AllVars(list, size)
  BY AllVarsType
<1>2. PICK n \in Nat: n = Len(vs) /\ DOMAIN vs = 1..n
  BY <1>1
<1>3. ToSet(vs) = {vs[i]: i \in 1..n}
  BY <1>2 DEF ToSet
<1>4. {<<v.key, v.val>>: v \in {w \in ToSet(vs): w.val # Empty}}
        = {<<vs[i].key, vs[i].val>>: i \in {j \in 1..n: vs[j].val # Empty}}
  BY <1>3, Zenon
<1>5. Meant(list, size).vars = {<<v.key, v.val>>: v \in {w \in ToSet(vs): w.val # Empty}}
  BY <1>1 DEF Meant
<1> QED
  BY <1>1, <1>2, <1>4, <1>5, Zenon DEF AllSeen, Seen

LEMMA ContentIs ==
    ASSUME TypeOK, NEW size \in ContentSizes
    PROVE  /\ Content(size) \in Seq(Words) /\ Len(Content(size)) = size
           /\ \A i \in 1..size: Content(size)[i] = <<"body", calls + 1>>
           /\ calls + 1 \in Nat \ {0}
<1>1. size \in Nat /\ calls + 1 \in Nat \ {0}
  BY ThriftCallAssumption DEF TypeOK
<1>2. <<"body", calls + 1>> \in Words
  BY <1>1 DEF Words
<1> QED
  BY <1>1, <1>2 DEF Content

\* A call on an object that was used before: what is under way was asked by others.
LEMMA ServerPartStale ==
    ASSUME ServerPart, fresh' = FALSE, UNCHANGED <<clean, up, at, m_events, reqVars>>
    PROVE  ServerPart'
<1>1. \A w: IsBody(w) => w[1] = "body" /\ w[2] \in Nat \ {0}
  BY DEF IsBody
<1>2. ASSUME NEW full, NEW q, InFlight(full, q) PROVE InFlight(full, q)'
  BY <1>1, <1>2 DEF InFlight, IsBody
<1>3. ContentRead => ContentRead'
  BY DEF ContentRead, IsBody, reqVars
<1>4. SUFFICES ASSUME Live, m_events = "READ"
               PROVE  \/ NoHeader' \/ OtherPacket'
                      \/ \E list \in VarLists, size \in ContentSizes, tail \in Words \X Words:
                            /\ Request(list, size, tail)'
                            /\ Serving(list, size, Body(list, size, tail))'
  BY DEF ServerPart, Live
<1>5. CASE NoHeader
  BY <1>5 DEF NoHeader, IsBody, reqVars
<1>6. CASE OtherPacket
  BY <1>6 DEF OtherPacket, reqVars
<1>7. CASE \E list \in VarLists, size \in ContentSizes, tail \in Words \X Words:
              Request(list, size, tail) /\ Serving(list, size, Body(list, size, tail))
  <2>1. PICK list \in VarLists, size \in ContentSizes, tail \in Words \X Words:
            Request(list, size, tail) /\ Serving(list, size, Body(list, size, tail))
    BY <1>7
  <2>2. Request(list, size, tail)'
    BY <2>1 DEF Request
  <2>3. PICK body: body = Body(list, size, tail)
    OBVIOUS
  <2>4. InHeader(body) => InHeader(body)'
    BY <1>2 DEF InHeader, reqVars
  <2>5. InVars(body) => InVars(body)'
    BY <1>2 DEF InVars, reqVars
  <2>6. InParser(list, size, body) => InParser(list, size, body)'
    BY <1>2 DEF InParser, Parsed, reqVars
  <2>7. (InContent(size) => InContent(size)') /\ (InRequest(size) => InRequest(size)')
    BY <1>3 DEF InContent, InRequest, reqVars
  <2>8. UNCHANGED <<modifier1, datasize, m_headers>>
    BY DEF reqVars
  <2>9. Serving(list, size, body)'
    BY <2>1, <2>3, <2>4, <2>5, <2>6, <2>7, <2>8 DEF Serving
  <2> QED
    BY <2>1, <2>2, <2>3, <2>9
<1> QED
  BY <1>4, <1>5, <1>6, <1>7 DEF ServerPart

LEMMA WordsAssociative ==
    ASSUME NEW a \in Seq(Words), NEW b \in Seq(Words), NEW c \in Seq(Words)
    PROVE  (a \o b) \o c = a \o (b \o c)
BY ConcatAssociative

LEMMA FlushStep ==
    ASSUME SizesFit, IInv, NEW list \in VarLists, NEW size \in ContentSizes, Flush(list, size)
    PROVE  IInv'
<1>0. PICK block \in Seq(Words): block = VarBlock(list, size)
  BY BlockLayout
<1>t. PICK tail \in Words \X Words: tail = Trailer(mem, block)
  BY <1>0, TrailerType DEF IInv, TypeOK
<1>c. PICK c \in Seq(Words):
        /\ c = Content(size) /\ Len(c) = size /\ calls + 1 \in Nat \ {0}
        /\ \A i \in 1..size: c[i] = <<"body", calls + 1>>
  BY ContentIs DEF IInv
<1>m. asked'.vars = AllSeen(list, size) /\ asked'.content = c
  <2>1. asked' = Meant(list, size)
    BY DEF Flush
  <2>2. Meant(list, size).content = c
    BY <1>c DEF Meant
  <2> QED
    BY <2>1, <2>2, MeantIs, Zenon
<1>1. /\ call = "open" /\ call' = "headers" /\ calls < MaxCalls /\ calls' = calls + 1
      /\ content' = content \o c
      /\ used' = TRUE /\ fresh' = ~used
      /\ UNCHANGED <<connected, mod, got, done, misread, serverVars>>
  BY <1>c DEF Flush
<1>u. fresh' => req_state = "READY" /\ content = <<>> /\ got = <<>>
  BY <1>1 DEF IInv, ReplyPart
<1>2. ASSUME req_state = "READY"
      PROVE  /\ req_state' = "WRITE_DATA" /\ data' \in Seq(Words) /\ mem' \in Seq(Words)
             /\ clean' \in BOOLEAN /\ DataPart'
  <2>1. /\ req_state' = "WRITE_DATA" /\ mem' = Memory(mem, block)
        /\ data' = <<<<"mod", mod>>, <<"size", DataSize(block)>>>> \o block \o Trailer(mem, block)
        /\ clean' = (tail = <<Zero, Zero>>)
    BY <1>0, <1>t, <1>2 DEF Flush
  <2>2. Request(list, size, tail)'
    <3>1. c = [i \in 1..size |-> <<"body", calls'>>]
      BY <1>c, <1>1 DEF Content
    <3> QED
      BY <1>t, <1>m, <2>1, <3>1 DEF Request
  <2>3. /\ data' = Header(mod, Body(list, size, tail)) \o Body(list, size, tail)
        /\ data' \in Seq(Words)
    <3>1. mod \in Nat
      BY ThriftCallAssumption DEF IInv, TypeOK
    <3>2. PICK body \in Seq(Words): body = Body(list, size, tail) /\ Len(body) = Len(block) + 2
      BY <1>0, <1>t, <3>1, BodyType
    <3>3. PICK h \in Seq(Words): h = Header(mod, body)
      BY <1>t, <3>1, <3>2, BodyType
    <3>4. h = <<<<"mod", mod>>, <<"size", DataSize(block)>>>>
      <4>1. PICK n \in Nat: n = Len(block) + 2 /\ n < 32768
        BY <1>0 DEF SizesFit
      <4>2. n % 32768 = n
        BY <4>1
      <4>3. DataSize(block) = n % 32768
        BY <4>1 DEF DataSize
      <4>4. DataSize(block) = Len(body)
        BY <3>2, <4>1, <4>2, <4>3
      <4> QED
        BY <3>3, <4>4, Zenon DEF Header
    <3>5. PICK t \in Seq(Words): t = tail
      <4>1. PICK x \in Words, y \in Words: tail = <<x, y>>
        BY <1>t
      <4>2. <<x, y>> \in Seq(Words)
        BY <4>1
      <4> QED
        BY <4>1, <4>2, Zenon
    <3>6. (h \o block) \o t = h \o (block \o t)
      <4>1. h \in Seq(Words) /\ block \in Seq(Words) /\ t \in Seq(Words)
        BY <1>0, <3>3, <3>5
      <4> QED
        BY <4>1, WordsAssociative
    <3>7. body = block \o t
      BY <1>0, <3>2, <3>5 DEF Body
    <3>8. data' = (h \o block) \o t
      BY <1>t, <2>1, <3>4, <3>5, Zenon
    <3>9. h \o body \in Seq(Words)
      BY <3>2, <3>3, ConcatElements
    <3> QED
      BY <3>2, <3>3, <3>6, <3>7, <3>8, <3>9, Zenon
  <2>4. mem' \in Seq(Words)
    BY <1>0, <2>1, TrailerType DEF IInv, TypeOK
  <2>5. DataPart'
    BY <1>1, <1>t, <2>2, <2>3, Zenon DEF DataPart
  <2> QED
    BY <1>2, <2>1, <2>3, <2>4, <2>5
<1>3. req_state # "READY" => UNCHANGED <<req_state, data, mem, clean>> /\ fresh' = FALSE
  BY <1>1, <1>u DEF Flush, IInv, TypeOK
<1>4. /\ req_state' \in {"WRITE_DATA", "WRITE_CONTENT", "DONE"} /\ data' \in Seq(Words)
      /\ mem' \in Seq(Words) /\ clean' \in BOOLEAN
  BY <1>2, <1>3 DEF IInv, TypeOK
<1>5. DataPart'
  <2>1. CASE req_state # "READY" /\ req_state = "WRITE_DATA"
    <3>1. PICK l \in VarLists, s \in ContentSizes, t \in Words \X Words:
            Request(l, s, t) /\ data = Header(mod, Body(l, s, t)) \o Body(l, s, t)
      BY <2>1 DEF IInv, DataPart
    <3>2. Request(l, s, t)'
      BY <1>3, <2>1, <3>1 DEF Request
    <3>3. data' = Header(mod', Body(l, s, t)) \o Body(l, s, t)
      BY <1>1, <1>3, <2>1, <3>1
    <3> QED
      BY <3>1, <3>2, <3>3, Zenon DEF DataPart
  <2>2. CASE req_state # "READY" /\ req_state # "WRITE_DATA"
    BY <1>3, <2>2 DEF DataPart
  <2> QED
    BY <1>2, <2>1, <2>2
<1>6. content \in Seq(Words) /\ content \o c \in Seq(Words)
  BY <1>c, ConcatElements DEF IInv, TypeOK
<1>7. TypeOK'
  <2>1. ServerTypeOK'
    BY <1>1 DEF IInv, TypeOK, ServerTypeOK, serverVars, wireVars, reqVars, resVars, Response!BaseTypeOK
  <2>2. calls' \in 0..MaxCalls /\ fresh' \in BOOLEAN
    BY <1>1, ThriftCallAssumption DEF IInv, TypeOK
  <2> QED
    BY <1>1, <1>4, <1>6, <2>1, <2>2 DEF IInv, TypeOK, InCall
<1>8. ContentPart'
  <2>1. \A i \in 1..Len(c): c[i][1] = "body" /\ c[i][2] = calls' /\ c[i][2] \in Nat \ {0}
    BY <1>c, <1>1
  <2>2. \A i \in 1..Len(content): content[i][1] = "body" /\ content[i][2] \in Nat \ {0}
    BY DEF IInv, ContentPart, IsBody
  <2>3. fresh' => content = <<>>
    BY <1>u
  <2>4. ASSUME NEW i \in 1..Len(content \o c)
        PROVE  LET w == (content \o c)[i] IN
               w[1] = "body" /\ w[2] \in Nat \ {0} /\ (fresh' => w[2] = calls')
    <3>1. /\ Len(content \o c) = Len(content) + Len(c)
          /\ \A x \in 1..Len(content): (content \o c)[x] = content[x]
          /\ \A x \in 1..Len(c): (content \o c)[Len(content) + x] = c[x]
      BY <1>c, <1>6, ConcatElements
    <3>2. PICK l \in Nat, m \in Nat: l = Len(content) /\ m = Len(c)
      BY <1>c, <1>6
    <3>3. CASE i \in 1..l
      <4>1. (content \o c)[i] = content[i] /\ ~fresh'
        BY <2>3, <3>1, <3>2, <3>3
      <4> QED
        BY <2>2, <3>2, <3>3, <4>1
    <3>4. CASE i \notin 1..l
      <4>0. i \in 1..(l + m)
        BY <3>1, <3>2
      <4>1. i - l \in 1..m /\ l + (i - l) = i
        BY <3>2, <3>4, <4>0
      <4>2. (content \o c)[l + (i - l)] = c[i - l]
        BY <3>1, <3>2, <4>1, Zenon
      <4>3. (content \o c)[i] = c[i - l]
        BY <4>1, <4>2, Zenon
      <4> QED
        BY <2>1, <3>2, <4>1, <4>3, Zenon
    <3> QED
      BY <3>3, <3>4
  <2>5. (\A i \in 1..Len(content): IsBody(content[i]))'
    BY <1>1, <2>4, Zenon DEF IsBody
  <2>6. asked'.content \in Seq(Words) /\ asked' = [vars |-> asked'.vars, content |-> asked'.content]
    BY <1>c, <1>m DEF Flush, Meant
  <2> QED
    BY <2>5, <2>6, Zenon DEF ContentPart
<1>9. connected => Untouched \/ (req_state = "DONE" /\ got # <<>>)
  BY <1>1 DEF IInv, ClientPart
<1>10. ~connected => at = "none"
  BY <1>1 DEF IInv, ClientPart
<1>11. ServerPart'
  <2>0. UNCHANGED <<at, up, m_events, reqVars>> /\ m_state' = m_state
    BY <1>1 DEF serverVars, wireVars, reqVars
  <2>1. CASE connected /\ Untouched
    <3>1. up = <<>> /\ (Live => m_state = "READY" /\ at = "watch")
      BY <2>1 DEF Untouched
    <3>2. Unsent' = 0
      BY <1>1 DEF Unsent
    <3>3. Live => NoHeader'
      BY <2>0, <3>1, <3>2 DEF NoHeader
    <3> QED
      BY <2>0, <3>3 DEF ServerPart, Live
  <2>2. CASE connected /\ req_state = "DONE"
    BY <1>3, <2>0, <2>2, ServerPartStale DEF IInv
  <2>3. CASE ~connected
    BY <1>10, <2>0, <2>3 DEF ServerPart, Live
  <2> QED
    BY <1>9, <2>1, <2>2, <2>3
<1>12. EmptyPart' /\ ResponsePart'
  BY <1>1 DEF IInv, EmptyPart, ResponsePart, Live, serverVars, reqVars, resVars, Response!ToWrite
<1>13. OutcomePart'
  <2>1. UNCHANGED <<at, outcome, modifier1, closed>>
    BY <1>1 DEF serverVars, wireVars, reqVars
  <2>2. outcome = "error" => ~clean /\ at = "ended"
    BY DEF IInv, OutcomePart
  <2>3. outcome = "error" => connected /\ ~Untouched
    BY <1>10, <2>2 DEF Untouched
  <2>4. outcome = "error" => ~clean'
    BY <1>3, <1>9, <2>2, <2>3
  <2> QED
    BY <2>1, <2>4 DEF IInv, OutcomePart
<1>14. ClientPart'
  <2>1. fresh' => req_state' = "WRITE_DATA" /\ content' = asked'.content
    <3>1. fresh' => req_state = "READY" /\ content = <<>>
      BY <1>u
    <3>2. <<>> \o c = c
      BY <1>c
    <3> QED
      BY <1>1, <1>2, <1>m, <3>1, <3>2
  <2>2. connected => Untouched' \/ (req_state' = "DONE" /\ got' # <<>>)
    <3>1. Untouched => Untouched'
      BY <1>1 DEF Untouched, Live, serverVars, wireVars, reqVars, resVars
    <3> QED
      BY <1>1, <1>3, <1>9, <3>1
  <2>3. UNCHANGED <<connected, closed, at>>
    BY <1>1 DEF serverVars, wireVars
  <2> QED
    BY <1>1, <1>4, <2>1, <2>2, <2>3 DEF IInv, ClientPart
<1>15. ReplyPart'
  <2>1. fresh' => got' = <<>>
    BY <1>1, <1>u
  <2>2. fresh' /\ connected' => down' = <<>> /\ response' = <<>>
    <3>1. fresh' /\ connected' => Untouched
      BY <1>1, <1>u, <1>9
    <3> QED
      BY <1>1, <3>1 DEF Untouched, serverVars, wireVars, resVars
  <2>3. /\ (got = <<>> => Ours(got))' /\ (down = <<>> => Ours(down))'
        /\ (response = <<>> => Ours(response))'
    BY DEF Ours
  <2> QED
    BY <1>1, <2>1, <2>2, <2>3 DEF IInv, ReplyPart
<1> QED
  BY <1>5, <1>7, <1>8, <1>11, <1>12, <1>13, <1>14, <1>15 DEF IInv
-----------------------------------------------------------------------------
(* Steps of the server                                                     *)

\* What every step of the server leaves alone, and what is left to show.
LEMMA ServerKeeps ==
    ASSUME IInv, UNCHANGED clientVars, closed' = closed, Live, ~(connected /\ Untouched),
           TypeOK', ServerPart', EmptyPart', OutcomePart', ResponsePart',
           fresh /\ connected /\ call \notin {"closed", "open"} => Ours(down') /\ Ours(response')
    PROVE  IInv'
<1>1. UNCHANGED <<call, calls, connected, req_state, mod, data, content, got, done, asked, clean,
                  used, fresh>>
  BY DEF clientVars, objectVars, requestVars, historyVars
<1>2. DataPart' /\ ContentPart'
  BY <1>1, ObjectSame DEF IInv
<1>3. ClientPart'
  BY <1>1 DEF IInv, ClientPart, Live
<1>4. ReplyPart'
  BY <1>1 DEF IInv, ReplyPart, Ours
<1> QED
  BY <1>2, <1>3, <1>4 DEF IInv

LEMMA EndStep ==
    ASSUME IInv, UNCHANGED clientVars, Live, NEW how \in {"refused", "closed", "cut", "error", "crashed"},
           End(how), how = "error" => ~clean, how = "closed" /\ modifier1 = 0 => closed,
           connected /\ Untouched => how = "crashed"
    PROVE  IInv'
<1>1. /\ at' = "ended" /\ outcome' = how
      /\ UNCHANGED <<wireVars, nonblock, m_events, reqVars, resVars>>
  BY DEF End
<1>2. TypeOK'
  <2>1. ServerTypeOK'
    BY <1>1 DEF IInv, TypeOK, ServerTypeOK, wireVars, reqVars, resVars, Response!BaseTypeOK
  <2> QED
    BY <2>1 DEF IInv, TypeOK, clientVars, objectVars, requestVars, historyVars
<1>3. ServerPart' /\ EmptyPart' /\ ResponsePart'
  BY <1>1 DEF ServerPart, EmptyPart, ResponsePart, Live
<1>4. OutcomePart'
  BY <1>1 DEF OutcomePart, clientVars, historyVars, wireVars, reqVars
<1>5. CASE connected /\ Untouched
  <2>1. UNCHANGED <<call, calls, connected, req_state, mod, data, content, got, done, asked, clean,
                  used, fresh>>
    BY DEF clientVars, objectVars, requestVars, historyVars
  <2>2. DataPart' /\ ContentPart'
    BY <2>1, ObjectSame DEF IInv
  <2>3. Untouched' /\ closed' = closed
    BY <1>1, <1>5 DEF Untouched, Live, wireVars, resVars
  <2>4. ClientPart'
    BY <1>5, <2>1, <2>3 DEF IInv, ClientPart
  <2>5. ReplyPart'
    BY <1>1, <2>1 DEF IInv, ReplyPart, Ours, wireVars, resVars
  <2> QED
    BY <1>2, <1>3, <1>4, <2>2, <2>4, <2>5 DEF IInv
<1>6. CASE ~(connected /\ Untouched)
  <2>1. fresh /\ connected /\ call \notin {"closed", "open"} => Ours(down') /\ Ours(response')
    BY <1>1 DEF IInv, ReplyPart, wireVars, resVars
  <2>2. closed' = closed
    BY <1>1 DEF wireVars
  <2> QED
    BY <1>2, <1>3, <1>4, <1>6, <2>1, <2>2, ServerKeeps
<1> QED
  BY <1>5, <1>6

LEMMA CrashStep == IInv /\ Crash /\ UNCHANGED clientVars => IInv'
BY EndStep DEF Crash, Live

LEMMA RefuseRequestStep == IInv /\ RefuseRequest /\ UNCHANGED clientVars => IInv'
BY EndStep DEF RefuseRequest, Live, Untouched

LEMMA WriteFailsStep == IInv /\ WriteFails /\ UNCHANGED clientVars => IInv'
BY EndStep DEF WriteFails, Live, Untouched

LEMMA ReadHeaderCutStep == IInv /\ ReadHeaderCut /\ UNCHANGED clientVars => IInv'
BY EndStep DEF ReadHeaderCut, Reads, Live, Untouched

\* The place of the task when it reads or has read.
LEMMA Place ==
    ASSUME IInv, Live, m_events = "READ"
    PROVE  \/ NoHeader \/ OtherPacket
           \/ \E list \in VarLists, size \in ContentSizes, tail \in Words \X Words:
                 Request(list, size, tail) /\ Serving(list, size, Body(list, size, tail))
BY DEF IInv, ServerPart

\* EV_WRITE is watched for only with a response.
LEMMA Reading ==
    ASSUME IInv, at \in {"read", "parse", "request"} \/ (at = "watch" /\ m_events = "READ")
    PROVE  Live /\ m_events = "READ"
BY DEF IInv, ResponsePart, Live, TypeOK, ServerTypeOK

LEMMA ReadEndsStep == IInv /\ ReadEnds /\ UNCHANGED clientVars => IInv'
<1> SUFFICES ASSUME IInv, ReadEnds, UNCHANGED clientVars PROVE IInv'
  OBVIOUS
<1>1. Live /\ m_events = "READ" /\ at \in {"read", "watch"}
  BY Reading DEF ReadEnds, Reads
<1>2. connected => ~closed
  BY DEF IInv, ClientPart
<1>3. ~(connected /\ Untouched)
  BY <1>1, <1>2 DEF ReadEnds, Untouched
<1>4. modifier1 = 0 => closed
  <2>1. SUFFICES ASSUME modifier1 = 0, m_state # "READY", to_write = 0 PROVE FALSE
    BY DEF ReadEnds
  <2>2. PICK list \in VarLists, size \in ContentSizes, tail \in Words \X Words:
            Serving(list, size, Body(list, size, tail))
    BY <1>1, <2>1, Place DEF NoHeader, OtherPacket
  <2>3. PICK body \in Seq(Words): body = Body(list, size, tail)
    BY <2>2, BodyType, ThriftCallAssumption
  <2>4. CASE datasize = Len(body) /\ InVars(body)
    <3>0. m_data \in Seq(Words)
      BY UnsentType DEF IInv
    <3>1. PICK l \in Nat, m \in Nat: l = Len(body) /\ m = Len(m_data) /\ m < l
      BY <2>3, <2>4, <3>0 DEF InVars
    <3>2. l - m = 0
      BY <2>1, <2>4, <3>1 DEF to_write, InVars
    <3> QED
      BY <3>1, <3>2
  <2>5. CASE InContent(size)
    <3>0. m_content \in Seq(Words)
      BY UnsentType DEF IInv
    <3>a. size \in Nat
      BY <2>2, ThriftCallAssumption
    <3>b. Len(m_content) \in Nat /\ Len(m_content) < size
      BY <2>5, <3>0 DEF InContent
    <3>1. PICK l \in Nat, m \in Nat: l = size /\ m = Len(m_content) /\ m < l
      BY <3>a, <3>b, Zenon
    <3>2. l - m = 0
      BY <2>1, <2>5, <3>1 DEF to_write, InContent
    <3> QED
      BY <3>1, <3>2
  <2> QED
    BY <1>1, <2>1, <2>2, <2>3, <2>4, <2>5 DEF Serving, InHeader, InParser, InRequest
<1> QED
  BY <1>1, <1>3, <1>4, EndStep DEF ReadEnds

\* The server takes n words off the connection.
Takes(n) ==
    /\ n \in 0..Len(up) /\ up' = SubSeq(up, n + 1, Len(up))
    /\ UNCHANGED clientVars

LEMMA TakesIs ==
    ASSUME IInv, NEW n, Takes(n)
    PROVE  /\ up \in Seq(Words) /\ n \in Nat /\ up' \in Seq(Words) /\ Len(up') = Len(up) - n
           /\ \A i \in 1..(Len(up) - n): up'[i] = up[i + n]
           /\ SubSeq(up, 1, n) \in Seq(Words) /\ Len(SubSeq(up, 1, n)) = n
           /\ \A i \in 1..n: SubSeq(up, 1, n)[i] = up[i]
           /\ Unsent \in Nat /\ Unsent' = Unsent /\ asked.content \in Seq(Words)
           /\ UNCHANGED <<calls, asked, clean, fresh>>
<1>1. up \in Seq(Words) /\ Unsent \in Nat /\ asked.content \in Seq(Words)
  BY UnsentType DEF IInv, ContentPart
<1>2. n \in 0..Len(up) /\ up' = SubSeq(up, n + 1, Len(up))
  BY DEF Takes
<1>3. /\ SubSeq(up, 1, n) \in Seq(Words) /\ Len(SubSeq(up, 1, n)) = n
      /\ \A i \in 1..n: SubSeq(up, 1, n)[i] = up[i]
      /\ up' \in Seq(Words) /\ Len(up') = Len(up) - n
      /\ \A i \in 1..(Len(up) - n): up'[i] = up[i + n]
  BY <1>1, <1>2, Split
<1>4. Unsent' = Unsent /\ UNCHANGED <<calls, asked, clean, fresh>>
  BY DEF Takes, clientVars, objectVars, requestVars, historyVars, Unsent
<1> QED
  BY <1>1, <1>2, <1>3, <1>4

LEMMA Remainder ==
    ASSUME NEW l \in Nat, NEW k \in Nat, NEW f \in Nat, NEW r \in Nat, NEW q \in Nat, NEW p \in Nat,
           k <= l, l + q >= f, f - (q + k) = r - p
    PROVE  l - k + p >= r /\ l - k + p - r = l + q - f
OBVIOUS

\* What follows the m-th word of full is what follows the p-th word of rest.
Rest(full, m, rest, p) ==
    /\ Len(full) - m = Len(rest) - p
    /\ \A j \in (p + 1)..Len(rest): rest[j] = full[j + m - p]

LEMMA InFlightTakes ==
    ASSUME IInv, NEW n, Takes(n), NEW full \in Seq(Words), NEW rest \in Seq(Words),
           NEW q \in Nat, NEW p \in Nat, InFlight(full, q), Rest(full, q + n, rest, p)
    PROVE  InFlight(rest, p)'
<1>0. /\ Len(full) - (q + n) = Len(rest) - p
      /\ \A j \in (p + 1)..Len(rest): rest[j] = full[j + (q + n) - p]
  BY DEF Rest
<1>1. PICK l \in Nat, f \in Nat, r \in Nat, k \in Nat:
        l = Len(up) /\ f = Len(full) /\ r = Len(rest) /\ k = n
  BY TakesIs
<1>2. /\ k <= l /\ Len(up') = l - k /\ f - (q + k) = r - p
      /\ \A i \in 1..(l - k): up'[i] = up[i + k]
      /\ Unsent' = Unsent /\ UNCHANGED <<calls, asked, fresh>>
  <2>1. n <= Len(up)
    BY TakesIs DEF Takes
  <2> QED
    BY <1>0, <1>1, <2>1, TakesIs, Zenon
<1>3. /\ l + q >= f
      /\ \A i \in 1..l: IF i + q <= f THEN up[i] = full[i + q] ELSE IsBody(up[i])
      /\ fresh => l + q - f + Unsent <= Len(asked.content)
  BY <1>1 DEF InFlight
<1>4. Len(up') + p >= r /\ (fresh => Len(up') + p - r + Unsent <= Len(asked.content))
  <2>1. PICK u \in Nat, a \in Nat: u = Unsent /\ a = Len(asked.content)
    <3>1. Unsent \in Nat /\ Len(asked.content) \in Nat
      BY TakesIs
    <3> QED
      BY <3>1, Zenon
  <2>2. l - k + p >= r /\ l - k + p - r = l + q - f
    <3>1. k <= l /\ f - (q + k) = r - p /\ l + q >= f
      BY <1>2, <1>3
    <3> QED
      BY <1>1, <3>1, Remainder
  <2> QED
    BY <1>1, <1>2, <1>3, <2>1, <2>2
<1>5. ASSUME NEW i \in 1..(l - k)
      PROVE  IF i + p <= r THEN up'[i] = rest[i + p] ELSE IsBody(up'[i])
  <2>1. i + k \in 1..l /\ up'[i] = up[i + k]
    BY <1>1, <1>2
  <2>2. CASE i + p <= r
    <3>1. i + p \in (p + 1)..r /\ i + k + q <= f /\ (i + p) + (q + k) - p = i + k + q
      <4>1. /\ i \in Nat \ {0} /\ k \in Nat /\ f \in Nat /\ r \in Nat
            /\ f - (q + k) = r - p /\ i + p <= r
        BY <1>1, <1>2, <2>2
      <4> QED
        BY <4>1
    <3>2. rest[i + p] = full[(i + p) + (q + k) - p]
      BY <1>0, <1>1, <3>1
    <3>3. up[i + k] = full[i + k + q]
      BY <1>3, <2>1, <3>1, Zenon
    <3> QED
      BY <2>1, <2>2, <3>1, <3>2, <3>3, Zenon
  <2>3. CASE ~(i + p <= r)
    <3>1. ~(i + k + q <= f)
      <4>1. i \in Nat /\ k \in Nat /\ f \in Nat /\ r \in Nat /\ f - (q + k) = r - p
        BY <1>1, <1>2
      <4> QED
        BY <2>3, <4>1
    <3> QED
      BY <1>3, <2>1, <2>3, <3>1, Zenon
  <2> QED
    BY <2>2, <2>3
<1>6. (\A i \in 1..Len(up): IF i + p <= Len(rest) THEN up[i] = rest[i + p] ELSE IsBody(up[i]))'
  BY <1>1, <1>2, <1>5, Zenon DEF IsBody
<1>7. (fresh => Len(up) + p - Len(rest) + Unsent <= Len(asked.content))'
  BY <1>1, <1>2, <1>4, Zenon
<1> QED
  BY <1>1, <1>4, <1>6, <1>7, Zenon DEF InFlight

\* The header is off the connection.
LEMMA InFlightBody ==
    ASSUME IInv, Takes(2), NEW full \in Seq(Words), NEW body \in Seq(Words), InFlight(full, 0),
           Len(full) = Len(body) + 2, \A x \in 1..Len(body): full[2 + x] = body[x]
    PROVE  InFlight(body, 0)'
<1>0. 0 \in Nat /\ 2 \in Nat /\ Len(body) \in Nat
  OBVIOUS
<1>1. PICK q \in Nat, k \in Nat, b \in Nat: q = 0 /\ k = 2 /\ b = Len(body)
  BY <1>0, Zenon
<1>2. Len(full) - (q + k) = Len(body) - q
  BY <1>1
<1>3. \A j \in (q + 1)..Len(body): body[j] = full[j + (q + k) - q]
  <2>1. \A j \in (q + 1)..b: j \in 1..b /\ j + (q + k) - q = 2 + j
    BY <1>1
  <2> QED
    BY <1>1, <2>1, Zenon
<1>4. Takes(k) /\ InFlight(full, q) /\ Rest(full, q + k, body, q)
  BY <1>1, <1>2, <1>3, Zenon DEF Rest
<1>5. InFlight(body, q)'
  BY <1>1, <1>4, InFlightTakes
<1> QED
  BY <1>1, <1>5, Zenon

LEMMA ReadHeaderStep == IInv /\ ReadHeader /\ UNCHANGED clientVars => IInv'
<1> SUFFICES ASSUME IInv, ReadHeader, UNCHANGED clientVars PROVE IInv'
  OBVIOUS
<1>1. Live /\ m_events = "READ" /\ at \in {"read", "watch"} /\ m_state = "READY"
  BY Reading DEF ReadHeader, Reads
<1>2. /\ up' = SubSeq(up, 2 + 1, Len(up)) /\ 2 <= Len(up)
      /\ modifier1' = up[1][2] /\ datasize' = up[2][2] /\ m_state' = "READ_DATA" /\ at' = "read"
      /\ UNCHANGED <<down, closed, nonblock, m_events, m_data, pos, m_headers, content_size,
                     m_content, resVars, outcome>>
  BY DEF ReadHeader, Received
<1>3. up \in Seq(Words) /\ Takes(2) /\ up[1] \in Words /\ up[2] \in Words
  <2>1. up \in Seq(Words)
    BY UnsentType DEF IInv
  <2>2. 2 \in 0..Len(up) /\ up[1] \in Words /\ up[2] \in Words
    BY <1>2, <2>1
  <2> QED
    BY <1>2, <2>1, <2>2 DEF Takes
<1>4. m_data = <<>> /\ pos = 0 /\ m_headers = {} /\ m_content = <<>>
  BY <1>1 DEF IInv, EmptyPart
<1>5. TypeOK'
  <2>1. modifier1' \in Nat /\ datasize' \in Nat
    BY <1>2, <1>3 DEF Words
  <2>2. up' \in Seq(Words)
    BY <1>3, TakesIs
  <2>3. m_data' = <<>> /\ Len(m_data') <= datasize'
    BY <1>2, <1>4, <2>1
  <2>4. ServerTypeOK'
    BY <1>2, <2>1, <2>2, <2>3, NoWords DEF IInv, TypeOK, ServerTypeOK, resVars, Response!BaseTypeOK
  <2> QED
    BY <2>4 DEF IInv, TypeOK, clientVars, objectVars, requestVars, historyVars
<1>6. ServerPart'
  <2>1. CASE NoHeader
    <3>1. IsBody(up[1])
      <4>1. 1 \in 1..Len(up)
        BY <1>2, <1>3
      <4> QED
        BY <2>1, <4>1 DEF NoHeader
    <3>2. OtherPacket'
      BY <1>2, <3>1 DEF OtherPacket, IsBody
    <3> QED
      BY <3>2 DEF ServerPart
  <2>2. CASE ~NoHeader
    <3>1. PICK list \in VarLists, size \in ContentSizes, tail \in Words \X Words:
              Request(list, size, tail) /\ Serving(list, size, Body(list, size, tail))
      BY <1>1, <2>2, Place DEF OtherPacket
    <3>2. PICK body \in Seq(Words): body = Body(list, size, tail) /\ Len(body) >= 2 /\ Len(body) \in Nat
      <4>1. Len(VarBlock(list, size)) \in Nat
        BY <3>1, BlockLayout
      <4>2. /\ Body(list, size, tail) \in Seq(Words)
            /\ Len(Body(list, size, tail)) = Len(VarBlock(list, size)) + 2
        BY <3>1, BodyType, ThriftCallAssumption
      <4> QED
        BY <4>1, <4>2
    <3>3. InHeader(body)
      BY <1>1, <3>1, <3>2 DEF Serving, InVars, InParser, InContent, InRequest
    <3>4. PICK m \in Nat: InFlight(Header(m, body) \o body, 0)
      BY <3>3 DEF InHeader
    <3>5. PICK h \in Seq(Words): /\ h = Header(m, body) /\ Len(h) = 2
                                 /\ h[1] = <<"mod", m>> /\ h[2] = <<"size", Len(body)>>
      BY <3>1, <3>2, <3>4, BodyType
    <3>6. PICK full \in Seq(Words): /\ full = h \o body /\ Len(full) = Len(body) + 2
                                    /\ full[1] = h[1] /\ full[2] = h[2]
                                    /\ \A x \in 1..Len(body): full[2 + x] = body[x]
      <4>1. /\ h \o body \in Seq(Words) /\ Len(h \o body) = Len(h) + Len(body)
            /\ \A x \in 1..Len(h): (h \o body)[x] = h[x]
            /\ \A x \in 1..Len(body): (h \o body)[Len(h) + x] = body[x]
        <5>1. h \in Seq(Words) /\ body \in Seq(Words)
          BY <3>2, <3>5
        <5> QED
          BY <5>1, ConcatElements
      <4>2. /\ Len(h \o body) = Len(body) + 2 /\ (h \o body)[1] = h[1] /\ (h \o body)[2] = h[2]
            /\ \A x \in 1..Len(body): (h \o body)[2 + x] = body[x]
        BY <3>2, <3>5, <4>1
      <4> QED
        BY <4>1, <4>2, Zenon
    <3>7. InFlight(full, 0)
      BY <3>4, <3>5, <3>6
    <3>8. up[1] = <<"mod", m>> /\ up[2] = <<"size", Len(body)>>
      <4>1. 1 \in 1..Len(up) /\ 2 \in 1..Len(up) /\ 1 + 0 <= Len(full) /\ 2 + 0 <= Len(full)
        BY <1>2, <1>3, <3>2, <3>6
      <4>2. up[1] = full[1 + 0] /\ up[2] = full[2 + 0]
        BY <3>7, <4>1, Zenon DEF InFlight
      <4> QED
        BY <3>5, <3>6, <4>2
    <3>9. modifier1' = m /\ datasize' = Len(body)
      BY <1>2, <3>8
    <3>10. InFlight(body, 0)'
      <4>1. /\ InFlight(full, 0) /\ Len(full) = Len(body) + 2 /\ full \in Seq(Words)
            /\ \A x \in 1..Len(body): full[2 + x] = body[x]
        BY <3>6, <3>7
      <4> QED
        BY <1>3, <3>2, <4>1, InFlightBody
    <3>11. CASE m = 0
      <4>1. Request(list, size, tail)'
        BY <1>3, <3>1, RequestSame, TakesIs
      <4>2. m_data' = <<>> /\ Len(m_data') = 0
        BY <1>2, <1>4
      <4>3. InVars(body)'
        BY <1>2, <1>4, <3>2, <3>10, <4>2 DEF InVars
      <4>4. Serving(list, size, body)'
        BY <3>9, <3>11, <4>3 DEF Serving
      <4> QED
        BY <3>1, <3>2, <4>1, <4>4, Zenon DEF ServerPart
    <3>12. CASE m # 0
      <4>1. OtherPacket'
        BY <1>2, <3>9, <3>12 DEF OtherPacket
      <4> QED
        BY <4>1 DEF ServerPart
    <3> QED
      BY <3>11, <3>12
  <2> QED
    BY <2>1, <2>2
<1>7. EmptyPart' /\ OutcomePart' /\ ResponsePart'
  BY <1>1, <1>2 DEF IInv, EmptyPart, OutcomePart, ResponsePart, Live, resVars, Response!ToWrite
<1>8. ~(connected /\ Untouched)
  BY <1>2 DEF Untouched
<1>9. fresh /\ connected /\ call \notin {"closed", "open"} => Ours(down') /\ Ours(response')
  BY <1>2 DEF IInv, ReplyPart, resVars
<1> QED
  BY <1>1, <1>2, <1>5, <1>6, <1>7, <1>8, <1>9, ServerKeeps

LEMMA InFlightNext ==
    ASSUME IInv, NEW n, Takes(n), NEW full \in Seq(Words), NEW q \in Nat, InFlight(full, q),
           NEW p \in Nat, p = q + n
    PROVE  InFlight(full, p)'
<1>1. n \in Nat /\ Len(full) \in Nat
  BY TakesIs
<1>2. Len(full) - (q + n) = Len(full) - p
  OBVIOUS
<1>3. \A j \in (p + 1)..Len(full): full[j] = full[j + (q + n) - p]
  <2>1. \A j \in (p + 1)..Len(full): j + p - p = j
    BY <1>1
  <2> QED
    BY <2>1, Zenon
<1> QED
  <2>1. Rest(full, q + n, full, p)
    BY <1>2, <1>3, Zenon DEF Rest
  <2> QED
    BY <2>1, InFlightTakes

LEMMA read_varsStep ==
    ASSUME IInv, UNCHANGED clientVars, NEW n \in 0..Len(up), read_vars(n)
    PROVE  IInv'
<1>1. Live /\ m_events = "READ" /\ at \in {"read", "watch"} /\ m_state = "READ_DATA"
  BY Reading DEF read_vars, Reads
<1>2. /\ up' = SubSeq(up, n + 1, Len(up)) /\ n <= to_write /\ to_write > 0
      /\ m_data' = m_data \o SubSeq(up, 1, n)
      /\ at' = IF VarsComplete(n) /\ modifier1 = 0 THEN "parse" ELSE "watch"
      /\ UNCHANGED <<down, closed, nonblock, m_events, m_state, modifier1, datasize, pos,
                     m_headers, content_size, m_content, resVars, outcome>>
  BY DEF read_vars, Received
<1>3. Takes(n) /\ n \in Nat
  BY <1>2 DEF Takes
<1>4. PICK a \in Seq(Words): a = SubSeq(up, 1, n) /\ Len(a) = n /\ \A i \in 1..n: a[i] = up[i]
  BY <1>3, TakesIs
<1>5. PICK d \in Seq(Words): d = m_data
  BY UnsentType DEF IInv
<1>6. /\ d \o a \in Seq(Words) /\ Len(d \o a) = Len(d) + Len(a)
      /\ \A x \in 1..Len(d): (d \o a)[x] = d[x]
      /\ \A x \in 1..Len(a): (d \o a)[Len(d) + x] = a[x]
  BY <1>4, <1>5, ConcatElements
<1>7. PICK l \in Nat: l = Len(d)
  BY <1>5
<1>8. m_data' = d \o a /\ to_write = datasize - l /\ datasize \in Nat
  BY <1>1, <1>2, <1>4, <1>5, <1>7 DEF to_write, IInv, TypeOK, ServerTypeOK
<1>9. Len(m_data') = l + n /\ m_data' \in Seq(Words)
  BY <1>4, <1>6, <1>7, <1>8
<1>10. TypeOK'
  <2>1. Len(m_data') <= datasize'
    <3>1. n <= datasize - l
      BY <1>2, <1>8
    <3> QED
      BY <1>2, <1>3, <1>7, <1>8, <1>9, <3>1
  <2>2. up' \in Seq(Words)
    BY <1>3, TakesIs
  <2>3. ServerTypeOK'
    BY <1>2, <1>9, <2>1, <2>2 DEF IInv, TypeOK, ServerTypeOK, resVars, Response!BaseTypeOK
  <2> QED
    BY <2>3 DEF IInv, TypeOK, clientVars, objectVars, requestVars, historyVars
<1>11. ServerPart'
  <2>1. CASE modifier1 # 0
    <3>1. OtherPacket'
      BY <1>1, <1>2, <2>1 DEF OtherPacket
    <3> QED
      BY <3>1 DEF ServerPart
  <2>2. CASE modifier1 = 0
    <3>1. PICK list \in VarLists, size \in ContentSizes, tail \in Words \X Words:
              Request(list, size, tail) /\ Serving(list, size, Body(list, size, tail))
      BY <1>1, <2>2, Place DEF OtherPacket, NoHeader
    <3>2. PICK body \in Seq(Words): body = Body(list, size, tail)
      BY <3>1, BodyType, ThriftCallAssumption
    <3>3. datasize = Len(body) /\ InVars(body)
      BY <1>1, <3>1, <3>2 DEF Serving, InHeader, InParser, InContent, InRequest
    <3>4. PICK b \in Nat: b = Len(body)
      BY <3>2
    <3>5. l < b /\ n <= b - l /\ (\A i \in 1..l: d[i] = body[i]) /\ InFlight(body, l)
      BY <1>2, <1>5, <1>7, <1>8, <3>3, <3>4 DEF InVars
    <3>6. \A i \in 1..(l + n): m_data'[i] = body[i]
      <4> SUFFICES ASSUME NEW i \in 1..(l + n) PROVE (d \o a)[i] = body[i]
        BY <1>8, Zenon
      <4>1. CASE i \in 1..l
        BY <1>6, <1>7, <3>5, <4>1, Zenon
      <4>2. CASE i \notin 1..l
        <5>1. i - l \in 1..n /\ l + (i - l) = i /\ (i - l) + l = i /\ i <= b
          <6>1. n <= b - l
            BY <3>5
          <6> QED
            BY <1>3, <1>7, <3>4, <4>2, <6>1
        <5>2. (d \o a)[i] = a[i - l]
          <6>1. (d \o a)[l + (i - l)] = a[i - l]
            BY <1>4, <1>6, <1>7, <5>1, Zenon
          <6> QED
            BY <5>1, <6>1, Zenon
        <5>3. a[i - l] = up[i - l] /\ i - l \in 1..Len(up)
          <6>1. n <= Len(up) /\ Len(up) \in Nat
            BY <1>3, TakesIs DEF Takes
          <6>2. i - l \in 1..Len(up)
            BY <1>3, <5>1, <6>1
          <6> QED
            BY <1>4, <5>1, <6>2, Zenon
        <5>4. up[i - l] = body[(i - l) + l]
          BY <3>4, <3>5, <5>1, <5>3, Zenon DEF InFlight
        <5> QED
          BY <5>1, <5>2, <5>3, <5>4, Zenon
      <4> QED
        BY <4>1, <4>2
    <3>7. PICK p \in Nat: p = l + n
      BY <1>3, <1>7
    <3>8. InFlight(body, p)'
      BY <1>3, <1>7, <3>2, <3>5, <3>7, InFlightNext
    <3>9. Request(list, size, tail)'
      BY <1>3, <3>1, RequestSame, TakesIs
    <3>10. Len(m_data') = p /\ pos' = 0 /\ m_headers' = {} /\ m_content' = <<>>
           /\ modifier1' = 0 /\ datasize' = Len(body) /\ m_state' = "READ_DATA"
      BY <1>1, <1>2, <1>9, <2>2, <3>3, <3>7 DEF InVars
    <3>11. CASE p = b
      <4>1. at' = "parse"
        <5>1. n = b - l
          BY <1>3, <1>7, <3>4, <3>7, <3>11
        <5> QED
          BY <1>2, <1>8, <2>2, <3>3, <3>4, <5>1 DEF VarsComplete
      <4>2. m_data' = body
        <5>1. Len(m_data') = Len(body)
          BY <3>4, <3>10, <3>11
        <5>2. \A i \in 1..Len(m_data'): m_data'[i] = body[i]
          BY <1>9, <3>6
        <5>3. PICK e \in Seq(Words): e = m_data'
          BY <1>9
        <5> QED
          BY <3>2, <5>1, <5>2, <5>3, SameList
      <4>3. Parsed(list, size)'
        <5>1. Off(AllVars(list, size), 0) = 0 /\ AllVars(list, size) \in Seq(Var)
          BY <3>1, BlockLayout
        <5>2. Seen(AllVars(list, size), 0) = {}
          BY DEF Seen
        <5>3. 0 \in 0..Len(AllVars(list, size))
          BY <5>1
        <5> QED
          BY <3>10, <5>1, <5>2, <5>3, Zenon DEF Parsed
      <4>4. InParser(list, size, body)'
        BY <3>4, <3>8, <3>10, <3>11, <4>1, <4>2, <4>3 DEF InParser
      <4>5. Serving(list, size, body)'
        BY <3>10, <4>4 DEF Serving
      <4> QED
        BY <3>1, <3>2, <3>9, <4>5, Zenon DEF ServerPart
    <3>12. CASE p # b
      <4>0. p < b
        <5>1. n <= b - l
          BY <3>5
        <5> QED
          BY <1>3, <1>7, <3>4, <3>7, <3>12, <5>1
      <4>1. at' = "watch"
        <5>1. n # b - l
          BY <1>3, <1>7, <3>4, <3>7, <3>12
        <5> QED
          BY <1>2, <1>8, <3>3, <3>4, <5>1 DEF VarsComplete
      <4>2. (\A i \in 1..Len(m_data): m_data[i] = body[i])'
        BY <1>9, <3>6, Zenon
      <4>3. InVars(body)'
        BY <3>4, <3>8, <3>10, <4>0, <4>1, <4>2 DEF InVars
      <4>4. Serving(list, size, body)'
        BY <3>10, <4>3 DEF Serving
      <4> QED
        BY <3>1, <3>2, <3>9, <4>4, Zenon DEF ServerPart
    <3> QED
      BY <3>11, <3>12
  <2> QED
    BY <2>1, <2>2
<1>12. EmptyPart' /\ OutcomePart' /\ ResponsePart'
  BY <1>1, <1>2 DEF IInv, EmptyPart, OutcomePart, ResponsePart, Live, resVars, Response!ToWrite
<1>13. ~(connected /\ Untouched)
  BY <1>1 DEF Untouched
<1>14. fresh /\ connected /\ call \notin {"closed", "open"} => Ours(down') /\ Ours(response')
  BY <1>2 DEF IInv, ReplyPart, resVars
<1> QED
  BY <1>1, <1>2, <1>10, <1>11, <1>12, <1>13, <1>14, ServerKeeps

LEMMA read_contentStep ==
    ASSUME IInv, UNCHANGED clientVars, NEW n \in 0..Len(up), read_content(n)
    PROVE  IInv'
<1>1. Live /\ m_events = "READ" /\ at \in {"read", "watch"} /\ m_state = "READ_CONTENT"
  BY Reading DEF read_content, Reads
<1>2. /\ up' = SubSeq(up, n + 1, Len(up)) /\ n <= to_write
      /\ m_content' = m_content \o SubSeq(up, 1, n)
      /\ IF n = to_write THEN at' = "request" /\ m_state' = "DONE"
                         ELSE at' = "watch" /\ UNCHANGED m_state
      /\ UNCHANGED <<down, closed, nonblock, m_events, modifier1, datasize, pos, m_data,
                     m_headers, content_size, resVars, outcome>>
  BY DEF read_content, Received
<1>3. Takes(n) /\ n \in Nat
  BY <1>2 DEF Takes
<1>4. PICK a \in Seq(Words): a = SubSeq(up, 1, n) /\ Len(a) = n /\ \A i \in 1..n: a[i] = up[i]
  BY <1>3, TakesIs
<1>5. PICK d \in Seq(Words): d = m_content
  BY UnsentType DEF IInv
<1>6. /\ d \o a \in Seq(Words) /\ Len(d \o a) = Len(d) + Len(a)
      /\ \A x \in 1..Len(d): (d \o a)[x] = d[x]
      /\ \A x \in 1..Len(a): (d \o a)[Len(d) + x] = a[x]
  BY <1>4, <1>5, ConcatElements
<1>7. PICK l \in Nat: l = Len(d)
  BY <1>5
<1>8. m_content' = d \o a /\ to_write = content_size - l /\ content_size \in Nat
  BY <1>1, <1>2, <1>4, <1>5, <1>7 DEF to_write, IInv, TypeOK, ServerTypeOK
<1>9. Len(m_content') = l + n /\ m_content' \in Seq(Words)
  BY <1>4, <1>6, <1>7, <1>8
<1>10. n <= content_size - l /\ l + n <= content_size
  <2>1. n <= content_size - l
    BY <1>2, <1>8
  <2> QED
    BY <1>3, <1>7, <1>8, <2>1
<1>11. TypeOK'
  <2>1. Len(m_content') <= content_size'
    BY <1>2, <1>9, <1>10
  <2>2. up' \in Seq(Words) /\ m_state' \in {"READY", "READ_DATA", "READ_CONTENT", "DONE"}
        /\ at' \in {"none", "watch", "read", "parse", "request", "ended"}
    BY <1>1, <1>2, <1>3, TakesIs
  <2>3. ServerTypeOK'
    BY <1>2, <1>9, <2>1, <2>2 DEF IInv, TypeOK, ServerTypeOK, resVars, Response!BaseTypeOK
  <2> QED
    BY <2>3 DEF IInv, TypeOK, clientVars, objectVars, requestVars, historyVars
<1>12. ServerPart'
  <2>1. PICK list \in VarLists, size \in ContentSizes, tail \in Words \X Words:
            Request(list, size, tail) /\ Serving(list, size, Body(list, size, tail))
    BY <1>1, Place DEF OtherPacket, NoHeader
  <2>2. /\ modifier1 = 0 /\ datasize = Len(Body(list, size, tail))
        /\ m_headers = AllSeen(list, size) \/ ~clean
        /\ InContent(size)
    BY <1>1, <2>1 DEF Serving, InHeader, InParser, InVars, InRequest
  <2>3. ContentRead'
    <3>1. PICK u \in Nat, k \in Nat, c \in Nat:
            u = Unsent /\ k = Len(asked.content) /\ c = Len(up) /\ n <= c
      <4>1. Unsent \in Nat /\ Len(asked.content) \in Nat /\ Len(up) \in Nat
        BY <1>3, TakesIs
      <4>2. n <= Len(up)
        BY <4>1
      <4> QED
        BY <4>1, <4>2, Zenon
    <3>2. /\ \A i \in 1..l: IsBody(d[i])
          /\ \A i \in 1..c: IsBody(up[i])
          /\ fresh => l + c + u <= k
      BY <1>5, <1>7, <2>2, <3>1 DEF InContent, ContentRead
    <3>3. /\ Len(up') = c - n /\ (\A i \in 1..(c - n): up'[i] = up[i + n])
          /\ Unsent' = u /\ UNCHANGED <<calls, asked, fresh>>
      BY <1>3, <3>1, TakesIs, Zenon
    <3>4. fresh => (l + n) + (c - n) + u <= k
      BY <1>3, <1>7, <3>1, <3>2
    <3>5. \A i \in 1..(c - n): i + n \in 1..c
      BY <1>3, <3>1
    <3>6. (\A i \in 1..Len(up): IsBody(up[i]))'
      <4>1. \A i \in 1..(c - n): IsBody(up'[i])
        BY <3>2, <3>3, <3>5, Zenon
      <4> QED
        BY <3>3, <4>1, Zenon DEF IsBody
    <3>7. ASSUME NEW i \in 1..(l + n) PROVE IsBody((d \o a)[i])
      <4>1. CASE i \in 1..l
        BY <1>6, <1>7, <3>2, <4>1, Zenon
      <4>2. CASE i \notin 1..l
        <5>1. i - l \in 1..n /\ l + (i - l) = i /\ i - l \in 1..c
          BY <1>3, <1>7, <3>1, <4>2
        <5>2. (d \o a)[l + (i - l)] = a[i - l]
          BY <1>4, <1>6, <1>7, <5>1, Zenon
        <5>3. (d \o a)[i] = up[i - l]
          BY <1>4, <5>1, <5>2, Zenon
        <5> QED
          BY <3>2, <5>1, <5>3, Zenon
      <4> QED
        BY <4>1, <4>2
    <3>8. (\A i \in 1..Len(m_content): IsBody(m_content[i]))'
      BY <1>8, <1>9, <3>3, <3>7, Zenon DEF IsBody
    <3>9. (fresh => Len(m_content) + Len(up) + Unsent <= Len(asked.content))'
      BY <1>9, <3>1, <3>3, <3>4, Zenon
    <3> QED
      BY <3>6, <3>8, <3>9, Zenon DEF ContentRead
  <2>4. Request(list, size, tail)' /\ clean' = clean
    BY <1>3, <2>1, RequestSame, TakesIs
  <2>5. (InContent(size) \/ InRequest(size))'
    <3>1. content_size = size
      BY <2>2 DEF InContent
    <3>2. CASE n = to_write
      <4>1. n = size - l /\ size \in Nat
        BY <1>8, <3>1, <3>2
      <4>2. Len(m_content') = size
        BY <1>3, <1>7, <1>9, <4>1
      <4> QED
        BY <1>2, <2>3, <3>2, <4>2 DEF InRequest
    <3>3. CASE n # to_write
      <4>1. n # size - l /\ size \in Nat /\ l + n <= size
        BY <1>8, <1>10, <3>1, <3>3
      <4>2. l + n < size
        BY <1>3, <1>7, <4>1
      <4>3. Len(m_content') < size
        BY <1>9, <4>2, Zenon
      <4> QED
        BY <1>1, <1>2, <2>3, <3>1, <3>3, <4>3 DEF InContent
    <3> QED
      BY <3>2, <3>3
  <2>6. Serving(list, size, Body(list, size, tail))'
    BY <1>2, <2>2, <2>4, <2>5 DEF Serving
  <2> QED
    BY <2>1, <2>4, <2>6, Zenon DEF ServerPart
<1>13. EmptyPart' /\ OutcomePart' /\ ResponsePart'
  BY <1>1, <1>2 DEF IInv, EmptyPart, OutcomePart, ResponsePart, Live, resVars, Response!ToWrite
<1>14. ~(connected /\ Untouched)
  BY <1>1 DEF Untouched
<1>15. fresh /\ connected /\ call \notin {"closed", "open"} => Ours(down') /\ Ours(response')
  BY <1>2 DEF IInv, ReplyPart, resVars
<1> QED
  BY <1>1, <1>2, <1>11, <1>12, <1>13, <1>14, <1>15, ServerKeeps
-----------------------------------------------------------------------------
(* Parsing the variables                                                   *)

\* What the parser finds at the k-th variable.
LEMMA AtVar ==
    ASSUME NEW list \in VarLists, NEW size \in ContentSizes, NEW tail \in Words \X Words,
           m_data = Body(list, size, tail),
           NEW vs, vs = AllVars(list, size), NEW k \in 0..(Len(vs) - 1), pos = Off(vs, k)
    PROVE  /\ vs \in Seq(Var) /\ vs[k + 1] \in Var /\ pos \in Nat
           /\ IsVar /\ m_data[pos + 1][2] = 1 /\ ValueAt = pos + 3
           /\ m_data[pos + 2][2] = vs[k + 1].key
           /\ m_data[ValueAt][2] = TextLen(vs[k + 1]) /\ TextLen(vs[k + 1]) \in Nat
           /\ Off(vs, k + 1) = ValueAt + TextLen(vs[k + 1])
           /\ vs[k + 1].val = Empty <=> TextLen(vs[k + 1]) = 0
           /\ vs[k + 1].val # Empty => m_data[ValueAt + 1][2] = vs[k + 1].val
<1>1. PICK block \in Seq(Words): block = VarBlock(list, size)
  BY BlockLayout
<1>2. PICK t \in Seq(Words): t = tail
  <2>1. PICK x \in Words, y \in Words: tail = <<x, y>>
    OBVIOUS
  <2>2. <<x, y>> \in Seq(Words)
    BY <2>1
  <2> QED
    BY <2>1, <2>2, Zenon
<1>3. PICK v \in Var: v = vs[k + 1]
  BY BlockLayout
<1>4. vs \in Seq(Var) /\ pos \in Nat /\ TextLen(v) \in Nat
  BY <1>3, BlockLayout
<1>5. PICK p \in Nat, n \in Nat: p = pos /\ n = TextLen(v)
  BY <1>4
<1>6. /\ Off(vs, k + 1) = p + 3 + n /\ p + 3 + n <= Len(block)
      /\ block[p + 1] = <<"len", 1>> /\ block[p + 2] = <<"key", v.key>>
      /\ block[p + 3] = <<"len", n>>
      /\ v.val = Empty <=> n = 0
      /\ v.val # Empty => block[p + 4] = <<"val", v.val>>
  BY <1>1, <1>3, <1>5, BlockLayout
<1>7. /\ Len(block \o t) = Len(block) + Len(t)
      /\ \A x \in 1..Len(block): (block \o t)[x] = block[x]
  BY <1>1, <1>2, ConcatElements
<1>8. m_data = block \o t
  BY <1>1, <1>2 DEF Body
<1>9. Len(block) \in Nat /\ Len(t) \in Nat /\ Len(block) <= Len(m_data) /\ Len(m_data) \in Nat
  BY <1>1, <1>2, <1>7, <1>8
<1>10. /\ p + 1 \in 1..Len(block) /\ p + 2 \in 1..Len(block) /\ p + 3 \in 1..Len(block)
       /\ n > 0 => p + 4 \in 1..Len(block)
       /\ p + 1 <= Len(m_data) /\ p + 3 <= Len(m_data)
  <2>1. PICK b \in Nat, m \in Nat: b = Len(block) /\ m = Len(m_data) /\ b <= m /\ p + 3 + n <= b
    BY <1>6, <1>9
  <2>2. /\ p + 1 \in 1..b /\ p + 2 \in 1..b /\ p + 3 \in 1..b
        /\ n > 0 => p + 4 \in 1..b
        /\ p + 1 <= m /\ p + 3 <= m
    <3>1. p \in Nat /\ n \in Nat
      BY <1>5
    <3> QED
      BY <2>1, <3>1
  <2> QED
    BY <2>1, <2>2, Zenon
<1>11. /\ m_data[p + 1] = <<"len", 1>> /\ m_data[p + 2] = <<"key", v.key>>
       /\ m_data[p + 3] = <<"len", n>>
       /\ v.val # Empty => m_data[p + 4] = <<"val", v.val>>
  <2>1. v.val # Empty => n > 0
    <3>1. v.val # Empty => n # 0
      BY <1>6, Zenon
    <3>2. n # 0 => n > 0
      BY <1>5
    <3> QED
      BY <3>1, <3>2, Zenon
  <2> QED
    BY <1>6, <1>7, <1>8, <1>10, <2>1, Zenon
<1>12. ValueAt = p + 3 /\ m_data[pos + 1][2] = 1 /\ ValueAt + 1 = p + 4 /\ ValueAt + n = p + 3 + n
  <2>1. ValueAt = p + 2 + 1
    BY <1>5, <1>11 DEF ValueAt
  <2> QED
    BY <1>5, <1>11, <2>1
<1>13. IsVar
  <2>1. pos + 1 <= Len(m_data) /\ m_data[pos + 1][1] = "len"
    BY <1>5, <1>10, <1>11
  <2>2. ValueAt <= Len(m_data) /\ m_data[ValueAt] = <<"len", n>>
    BY <1>10, <1>11, <1>12, Zenon
  <2>3. m_data[ValueAt][1] = "len"
    BY <2>2
  <2> QED
    BY <2>1, <2>2, <2>3, Zenon DEF IsVar, IsLen
<1>14. /\ m_data[pos + 2][2] = v.key /\ m_data[ValueAt][2] = n
       /\ v.val # Empty => m_data[ValueAt + 1][2] = v.val
  <2>1. /\ m_data[pos + 2] = <<"key", v.key>> /\ m_data[ValueAt] = <<"len", n>>
        /\ v.val # Empty => m_data[ValueAt + 1] = <<"val", v.val>>
    BY <1>5, <1>11, <1>12, Zenon
  <2> QED
    BY <2>1
<1> QED
  BY <1>3, <1>4, <1>5, <1>6, <1>12, <1>13, <1>14, Zenon

\* What it finds behind the last one.
LEMMA AtTail ==
    ASSUME NEW list \in VarLists, NEW size \in ContentSizes, NEW tail \in Words \X Words,
           m_data = Body(list, size, tail), pos = Len(VarBlock(list, size))
    PROVE  /\ IsVar => m_data[pos + 1][2] = 0 /\ ValueAt = pos + 2 /\ m_data[ValueAt][2] \in Nat
           /\ ~IsVar => tail # <<Zero, Zero>>
           /\ Len(m_data) = pos + 2 /\ pos \in Nat
<1>1. PICK block \in Seq(Words): block = VarBlock(list, size)
  BY BlockLayout
<1>2. PICK x \in Words, y \in Words: tail = <<x, y>>
  OBVIOUS
<1>3. PICK t \in Seq(Words): t = tail /\ Len(t) = 2 /\ t[1] = x /\ t[2] = y
  <2>1. <<x, y>> \in Seq(Words) /\ Len(<<x, y>>) = 2 /\ <<x, y>>[1] = x /\ <<x, y>>[2] = y
    BY <1>2
  <2> QED
    BY <1>2, <2>1, Zenon
<1>4. PICK p \in Nat: p = Len(block) /\ p = pos
  BY <1>1
<1>5. /\ Len(block \o t) = Len(block) + Len(t)
      /\ \A i \in 1..Len(t): (block \o t)[Len(block) + i] = t[i]
  <2>1. block \in Seq(Words) /\ t \in Seq(Words)
    BY <1>1, <1>3
  <2> QED
    BY <2>1, ConcatElements
<1>6. m_data = block \o t
  BY <1>1, <1>3 DEF Body
<1>7. Len(m_data) = p + 2 /\ m_data[p + 1] = x /\ m_data[p + 2] = y
  BY <1>3, <1>4, <1>5, <1>6
<1>8. x[2] \in Nat /\ y[2] \in Nat
  BY <1>2 DEF Words
<1>9. PICK a \in Nat, b \in Nat: a = x[2] /\ b = y[2]
  BY <1>8
<1>10. ValueAt = p + 2 + a /\ m_data[pos + 1][2] = a
  BY <1>4, <1>7, <1>9 DEF ValueAt
<1>11. ASSUME IsVar
       PROVE  m_data[pos + 1][2] = 0 /\ ValueAt = pos + 2 /\ m_data[ValueAt][2] \in Nat
  <2>1. p + 2 + a <= p + 2
    BY <1>7, <1>10, <1>11 DEF IsVar, IsLen
  <2>2. a = 0 /\ p + 2 + a = p + 2
    BY <1>4, <1>9, <2>1
  <2> QED
    BY <1>4, <1>7, <1>8, <1>10, <2>2
<1>12. ASSUME tail = <<Zero, Zero>> PROVE IsVar
  <2>1. x = <<"len", 0>> /\ y = <<"len", 0>>
    BY <1>2, <1>12 DEF Zero
  <2>2. a = 0
    BY <1>9, <2>1
  <2>3. ValueAt = p + 2 /\ p + 1 <= Len(m_data) /\ p + 2 <= Len(m_data)
    BY <1>4, <1>7, <1>10, <2>2
  <2> QED
    BY <1>4, <1>7, <2>1, <2>3 DEF IsVar, IsLen
<1> QED
  BY <1>4, <1>7, <1>11, <1>12

\* The task parses the variables of a request that it has read.
LEMMA ParserPlace ==
    ASSUME IInv, at = "parse"
    PROVE  /\ Live /\ m_events = "READ" /\ m_state = "READ_DATA" /\ modifier1 = 0
           /\ \E list \in VarLists, size \in ContentSizes, tail \in Words \X Words:
                 /\ Request(list, size, tail)
                 /\ datasize = Len(Body(list, size, tail))
                 /\ InParser(list, size, Body(list, size, tail))
<1>1. Live /\ m_events = "READ"
  BY Reading
<1>2. PICK list \in VarLists, size \in ContentSizes, tail \in Words \X Words:
          Request(list, size, tail) /\ Serving(list, size, Body(list, size, tail))
  BY <1>1, Place DEF NoHeader, OtherPacket
<1>3. modifier1 = 0 /\ datasize = Len(Body(list, size, tail)) /\ InParser(list, size, Body(list, size, tail))
  BY <1>2 DEF Serving, InHeader, InVars, InContent, InRequest
<1> QED
  BY <1>1, <1>2, <1>3 DEF InParser

\* Before the loop ends, it is at a variable or behind the last one.
LEMMA ParserAt ==
    ASSUME IInv, at = "parse", pos < Len(m_data),
           NEW list \in VarLists, NEW size \in ContentSizes, NEW vs, vs = AllVars(list, size),
           Parsed(list, size)
    PROVE  \/ \E k \in 0..(Len(vs) - 1): pos = Off(vs, k) /\ m_headers = Seen(vs, k)
           \/ pos = Len(VarBlock(list, size)) /\ m_headers = AllSeen(list, size)
<1>1. pos \in Nat /\ Len(m_data) \in Nat
  <2>1. m_data \in Seq(Words)
    BY UnsentType DEF IInv
  <2> QED
    BY <2>1 DEF IInv, TypeOK, ServerTypeOK
<1>2. PICK k \in 0..Len(vs): pos = Off(vs, k) /\ m_headers = Seen(vs, k)
  BY <1>1 DEF Parsed
<1>3. vs \in Seq(Var) /\ Len(VarBlock(list, size)) = Off(vs, Len(vs))
  BY BlockLayout
<1>4. PICK n \in Nat: n = Len(vs)
  BY <1>3
<1>5. CASE k = n
  BY <1>2, <1>3, <1>4, <1>5 DEF AllSeen
<1>6. CASE k # n
  <2>1. k \in 0..(Len(vs) - 1)
    BY <1>2, <1>4, <1>6
  <2> QED
    BY <1>2, <2>1
<1> QED
  BY <1>5, <1>6

LEMMA InFlightSame ==
    ASSUME UNCHANGED <<up, clientVars>>, NEW full, NEW q, InFlight(full, q)
    PROVE  InFlight(full, q)'
<1>1. UNCHANGED <<up, call, calls, req_state, content, asked, fresh>>
  BY DEF clientVars, objectVars, requestVars, historyVars
<1>2. Unsent' = Unsent
  BY <1>1 DEF Unsent
<1> QED
  BY <1>1, <1>2 DEF InFlight, IsBody

\* An iteration of the loop moves pos and adds to m_headers.
LEMMA ParserKeeps ==
    ASSUME IInv, at = "parse", UNCHANGED clientVars,
           UNCHANGED <<wireVars, nonblock, at, m_events, m_state, modifier1, datasize,
                       m_data, content_size, m_content, resVars, outcome>>,
           pos' \in Nat, \A v \in m_headers': v \in Nat \X Nat,
           NEW list \in VarLists, NEW size \in ContentSizes, NEW tail \in Words \X Words,
           Request(list, size, tail), InParser(list, size, Body(list, size, tail)),
           datasize = Len(Body(list, size, tail)), Parsed(list, size)'
    PROVE  IInv'
<1>1. Live /\ m_events = "READ" /\ m_state = "READ_DATA" /\ modifier1 = 0
  BY ParserPlace
<1>2. TypeOK'
  <2>1. ServerTypeOK'
    BY DEF IInv, TypeOK, ServerTypeOK, wireVars, resVars, Response!BaseTypeOK
  <2> QED
    BY <2>1 DEF IInv, TypeOK, clientVars, objectVars, requestVars, historyVars
<1>3. Request(list, size, tail)'
  BY RequestSame DEF clientVars, historyVars
<1>4. PICK body: body = Body(list, size, tail)
  OBVIOUS
<1>5. InFlight(body, Len(body))'
  BY <1>4, InFlightSame DEF InParser, wireVars
<1>6. InParser(list, size, body)'
  BY <1>4, <1>5 DEF InParser
<1>7. Serving(list, size, body)'
  BY <1>1, <1>4, <1>6 DEF Serving
<1>8. ServerPart'
  BY <1>3, <1>4, <1>7, Zenon DEF ServerPart
<1>9. EmptyPart' /\ OutcomePart' /\ ResponsePart'
  BY <1>1 DEF IInv, EmptyPart, OutcomePart, ResponsePart, Live, wireVars, resVars, Response!ToWrite
<1>10. ~(connected /\ Untouched) /\ closed' = closed
  BY <1>1 DEF Untouched, wireVars
<1>11. fresh /\ connected /\ call \notin {"closed", "open"} => Ours(down') /\ Ours(response')
  BY DEF IInv, ReplyPart, wireVars, resVars
<1> QED
  BY <1>1, <1>2, <1>8, <1>9, <1>10, <1>11, ServerKeeps

LEMMA SeenNext ==
    ASSUME NEW vs \in Seq(Var), NEW k \in 0..(Len(vs) - 1)
    PROVE  /\ vs[k + 1].val = Empty => Seen(vs, k + 1) = Seen(vs, k)
           /\ vs[k + 1].val # Empty =>
                 /\ Seen(vs, k + 1) = Seen(vs, k) \cup {<<vs[k + 1].key, vs[k + 1].val>>}
                 /\ <<vs[k + 1].key, vs[k + 1].val>> \in Nat \X Nat
<1> DEFINE I(m) == {j \in 1..m: vs[j].val # Empty}
<1>1. vs[k + 1] \in Var /\ k \in Nat /\ 1..(k + 1) = 1..k \cup {k + 1}
  OBVIOUS
<1>2. vs[k + 1].val = Empty => I(k + 1) = I(k)
  BY <1>1
<1>3. vs[k + 1].val # Empty => I(k + 1) = I(k) \cup {k + 1}
  BY <1>1
<1>4. \A m: Seen(vs, m) = {<<vs[i].key, vs[i].val>>: i \in I(m)}
  BY DEF Seen
<1> HIDE DEF I
<1>5. vs[k + 1].val = Empty => Seen(vs, k + 1) = Seen(vs, k)
  BY <1>2, <1>4, Zenon
<1>6. vs[k + 1].val # Empty => Seen(vs, k + 1) = Seen(vs, k) \cup {<<vs[k + 1].key, vs[k + 1].val>>}
  <2>1. \A A, a: {<<vs[i].key, vs[i].val>>: i \in A \cup {a}}
                   = {<<vs[i].key, vs[i].val>>: i \in A} \cup {<<vs[a].key, vs[a].val>>}
    OBVIOUS
  <2>2. {<<vs[i].key, vs[i].val>>: i \in I(k) \cup {k + 1}}
          = {<<vs[i].key, vs[i].val>>: i \in I(k)} \cup {<<vs[k + 1].key, vs[k + 1].val>>}
    BY <2>1
  <2>3. /\ Seen(vs, k) = {<<vs[i].key, vs[i].val>>: i \in I(k)}
        /\ Seen(vs, k + 1) = {<<vs[i].key, vs[i].val>>: i \in I(k + 1)}
    BY <1>4
  <2> SUFFICES ASSUME I(k + 1) = I(k) \cup {k + 1}
               PROVE  Seen(vs, k + 1) = Seen(vs, k) \cup {<<vs[k + 1].key, vs[k + 1].val>>}
    BY <1>3, Zenon
  <2> QED
    BY <2>2, <2>3, Zenon
<1>7. vs[k + 1].val # Empty => <<vs[k + 1].key, vs[k + 1].val>> \in Nat \X Nat
  BY <1>1 DEF Var
<1> QED
  BY <1>5, <1>6, <1>7

LEMMA ParseVarStep == IInv /\ ParseVar /\ UNCHANGED clientVars => IInv'
<1> SUFFICES ASSUME IInv, ParseVar, UNCHANGED clientVars PROVE IInv'
  OBVIOUS
<1>1. /\ at = "parse" /\ pos < Len(m_data) /\ IsVar
      /\ UNCHANGED <<wireVars, nonblock, at, m_events, m_state, modifier1, datasize,
                     m_data, content_size, m_content, resVars, outcome>>
  BY DEF ParseVar
<1>2. PICK list \in VarLists, size \in ContentSizes, tail \in Words \X Words:
          /\ Request(list, size, tail) /\ datasize = Len(Body(list, size, tail))
          /\ InParser(list, size, Body(list, size, tail))
  BY <1>1, ParserPlace
<1>3. PICK vs: vs = AllVars(list, size)
  OBVIOUS
<1>4. m_data = Body(list, size, tail) /\ Parsed(list, size)
  BY <1>2 DEF InParser
<1>5. /\ pos' = ValueAt + m_data[ValueAt][2]
      /\ m_headers' = IF Kept(m_data[pos + 1][2], m_data[ValueAt][2])
                        THEN m_headers \cup {<<m_data[pos + 2][2], m_data[ValueAt + 1][2]>>}
                        ELSE m_headers
  BY DEF ParseVar
<1>6. \A v \in m_headers: v \in Nat \X Nat
  BY DEF IInv, TypeOK, ServerTypeOK
<1>7. CASE \E k \in 0..(Len(vs) - 1): pos = Off(vs, k) /\ m_headers = Seen(vs, k)
  <2>1. PICK k \in 0..(Len(vs) - 1): pos = Off(vs, k) /\ m_headers = Seen(vs, k)
    BY <1>7
  <2>2. PICK v: v = vs[k + 1]
    OBVIOUS
  <2>3. /\ vs \in Seq(Var) /\ v \in Var /\ pos \in Nat
        /\ m_data[pos + 1][2] = 1 /\ ValueAt = pos + 3
        /\ m_data[pos + 2][2] = v.key
        /\ m_data[ValueAt][2] = TextLen(v) /\ TextLen(v) \in Nat
        /\ Off(vs, k + 1) = ValueAt + TextLen(v)
        /\ v.val = Empty <=> TextLen(v) = 0
        /\ v.val # Empty => m_data[ValueAt + 1][2] = v.val
    BY <1>2, <1>3, <1>4, <2>1, <2>2, AtVar
  <2>4. PICK n \in Nat: n = TextLen(v)
    BY <2>3
  <2>5. pos' = Off(vs, k + 1) /\ pos' \in Nat
    <3>1. pos' = ValueAt + n /\ ValueAt = pos + 3
      BY <1>5, <2>3, <2>4
    <3>2. ValueAt + n \in Nat
      BY <2>3, <2>4, <3>1
    <3> QED
      BY <2>3, <2>4, <3>1, <3>2, Zenon
  <2>6. m_headers' = Seen(vs, k + 1) /\ \A w \in m_headers': w \in Nat \X Nat
    <3>1. CASE v.val = Empty
      <4>1. n = 0
        BY <2>3, <2>4, <3>1, Zenon
      <4>2. ~Kept(m_data[pos + 1][2], m_data[ValueAt][2])
        BY <2>3, <2>4, <4>1 DEF Kept
      <4>3. m_headers' = m_headers
        BY <1>5, <4>2, Zenon
      <4>4. Seen(vs, k + 1) = Seen(vs, k)
        BY <2>1, <2>2, <2>3, <3>1, SeenNext
      <4> QED
        BY <1>6, <2>1, <4>3, <4>4, Zenon
    <3>2. CASE v.val # Empty
      <4>1. n # 0
        BY <2>3, <2>4, <3>2, Zenon
      <4>2. Kept(m_data[pos + 1][2], m_data[ValueAt][2])
        <5>1. 1 > 0 /\ n > 0
          BY <2>4, <4>1
        <5> QED
          BY <2>3, <2>4, <5>1, Zenon DEF Kept
      <4>3. m_headers' = m_headers \cup {<<v.key, v.val>>}
        BY <1>5, <2>3, <3>2, <4>2, Zenon
      <4>4. Seen(vs, k + 1) = Seen(vs, k) \cup {<<v.key, v.val>>} /\ <<v.key, v.val>> \in Nat \X Nat
        BY <2>1, <2>2, <2>3, <3>2, SeenNext
      <4> QED
        BY <1>6, <2>1, <4>3, <4>4, Zenon
    <3> QED
      BY <3>1, <3>2
  <2>7. Parsed(list, size)'
    <3>1. k + 1 \in 0..Len(vs)
      BY <2>1, <2>3
    <3> QED
      BY <1>3, <2>5, <2>6, <3>1, Zenon DEF Parsed
  <2> QED
    BY <1>1, <1>2, <2>5, <2>6, <2>7, ParserKeeps
<1>8. CASE pos = Len(VarBlock(list, size)) /\ m_headers = AllSeen(list, size)
  <2>1. /\ m_data[pos + 1][2] = 0 /\ ValueAt = pos + 2 /\ m_data[ValueAt][2] \in Nat
        /\ Len(m_data) = pos + 2 /\ pos \in Nat
    BY <1>1, <1>2, <1>4, <1>8, AtTail
  <2>2. ~Kept(m_data[pos + 1][2], m_data[ValueAt][2])
    BY <2>1 DEF Kept
  <2>3. m_headers' = AllSeen(list, size)
    BY <1>5, <1>8, <2>2, Zenon
  <2>4. PICK n \in Nat: n = m_data[ValueAt][2]
    BY <2>1
  <2>5. pos' = pos + 2 + n
    BY <1>5, <2>1, <2>4
  <2>6. pos' \in Nat /\ pos' >= Len(m_data')
    BY <1>1, <2>1, <2>4, <2>5
  <2>7. Parsed(list, size)'
    BY <2>3, <2>6, Zenon DEF Parsed
  <2>8. \A v \in m_headers': v \in Nat \X Nat
    BY <1>6, <1>8, <2>3
  <2> QED
    BY <1>1, <1>2, <2>6, <2>7, <2>8, ParserKeeps
<1> QED
  BY <1>1, <1>2, <1>3, <1>4, <1>7, <1>8, ParserAt

\* What is no variable is behind the last one, and not zero.
LEMMA NoVar ==
    ASSUME IInv, at = "parse", pos < Len(m_data), ~IsVar,
           NEW list \in VarLists, NEW size \in ContentSizes, NEW tail \in Words \X Words,
           Request(list, size, tail), InParser(list, size, Body(list, size, tail))
    PROVE  ~clean /\ m_headers = AllSeen(list, size)
<1>1. m_data = Body(list, size, tail) /\ Parsed(list, size)
  BY DEF InParser
<1>2. PICK vs: vs = AllVars(list, size)
  OBVIOUS
<1>3. ASSUME NEW k \in 0..(Len(vs) - 1), pos = Off(vs, k) PROVE FALSE
  BY <1>1, <1>2, <1>3, AtVar
<1>4. pos = Len(VarBlock(list, size)) /\ m_headers = AllSeen(list, size)
  BY <1>1, <1>2, <1>3, ParserAt
<1>5. tail # <<Zero, Zero>>
  BY <1>1, <1>4, AtTail
<1> QED
  BY <1>4, <1>5 DEF Request

LEMMA ParseTextStep == IInv /\ ParseText /\ UNCHANGED clientVars => IInv'
<1> SUFFICES ASSUME IInv, ParseText, UNCHANGED clientVars PROVE IInv'
  OBVIOUS
<1>1. at = "parse" /\ pos < Len(m_data) /\ ~IsVar /\ End("error")
  BY DEF ParseText
<1>2. Live /\ m_state = "READ_DATA" /\ ~clean
  BY <1>1, ParserPlace, NoVar
<1>3. ~(connected /\ Untouched)
  BY <1>2 DEF Untouched
<1> QED
  BY <1>1, <1>2, <1>3, EndStep

LEMMA ParseJunkStep == IInv /\ ParseJunk /\ UNCHANGED clientVars => IInv'
<1> SUFFICES ASSUME IInv, ParseJunk, UNCHANGED clientVars PROVE IInv'
  OBVIOUS
<1>1. /\ at = "parse" /\ pos < Len(m_data) /\ ~IsVar /\ pos' = Len(m_data)
      /\ m_headers' \in {m_headers, m_headers \cup {Junk}}
      /\ UNCHANGED <<wireVars, nonblock, at, m_events, m_state, modifier1, datasize,
                     m_data, content_size, m_content, resVars, outcome>>
  BY DEF ParseJunk
<1>2. PICK list \in VarLists, size \in ContentSizes, tail \in Words \X Words:
          /\ Request(list, size, tail) /\ datasize = Len(Body(list, size, tail))
          /\ InParser(list, size, Body(list, size, tail))
  BY <1>1, ParserPlace
<1>3. ~clean /\ m_headers = AllSeen(list, size)
  BY <1>1, <1>2, NoVar
<1>4. pos' \in Nat /\ pos' >= Len(m_data')
  <2>1. m_data \in Seq(Words)
    BY UnsentType DEF IInv
  <2> QED
    BY <1>1, <2>1
<1>5. \A v \in m_headers': v \in Nat \X Nat
  <2>1. Junk \in Nat \X Nat
    BY DEF Junk
  <2>2. \A v \in m_headers: v \in Nat \X Nat
    BY DEF IInv, TypeOK, ServerTypeOK
  <2> QED
    BY <1>1, <2>1, <2>2, Zenon
<1>6. Parsed(list, size)'
  <2>1. clean' = clean
    BY DEF clientVars, historyVars
  <2>2. m_headers' = AllSeen(list, size) \/ m_headers' = AllSeen(list, size) \cup {Junk}
    BY <1>1, <1>3, Zenon
  <2> QED
    BY <1>3, <1>4, <2>1, <2>2, Zenon DEF Parsed
<1> QED
  BY <1>1, <1>2, <1>4, <1>5, <1>6, ParserKeeps

\* CONTENT_LENGTH is found if there is content, and only then.
LEMMA Lengths ==
    ASSUME NEW list \in VarLists, NEW size \in ContentSizes, NEW H,
           H = AllSeen(list, size) \/ H = AllSeen(list, size) \cup {Junk}
    PROVE  /\ size = 0 => {h[2]: h \in {g \in H: g[1] = CONTENT_LENGTH}} = {}
           /\ size > 0 => {h[2]: h \in {g \in H: g[1] = CONTENT_LENGTH}} = {size}
<1>1. PICK vs \in Seq(Var): vs = AllVars(list, size)
  BY AllVarsType
<1>2. PICK n \in Nat: n = Len(list)
  BY AllVarsType
<1>3. /\ \A i \in 1..n: list[i].key # CONTENT_LENGTH
      /\ size = 0 => vs = list
      /\ size > 0 => /\ Len(vs) = n + 1 /\ \A i \in 1..n: vs[i] = list[i]
                     /\ vs[n + 1] = [key |-> CONTENT_LENGTH, val |-> size]
  BY <1>1, <1>2, AllVarsType
<1>4. size \in Nat /\ size # Empty
  BY ThriftCallAssumption DEF Empty
<1>5. \A g \in H: g[1] = CONTENT_LENGTH =>
            \E i \in 1..Len(vs): vs[i].key = CONTENT_LENGTH /\ g = <<vs[i].key, vs[i].val>>
  <2>1. Junk[1] # CONTENT_LENGTH
    BY DEF Junk, CONTENT_LENGTH
  <2>2. \A g \in H: g[1] = CONTENT_LENGTH => g \in AllSeen(list, size)
    BY <2>1, Zenon
  <2>3. \A g \in AllSeen(list, size): \E i \in 1..Len(vs): g = <<vs[i].key, vs[i].val>>
    BY <1>1 DEF AllSeen, Seen
  <2>4. \A a, b: <<a, b>>[1] = a
    OBVIOUS
  <2> SUFFICES ASSUME NEW g \in H, g[1] = CONTENT_LENGTH
               PROVE  \E i \in 1..Len(vs): vs[i].key = CONTENT_LENGTH /\ g = <<vs[i].key, vs[i].val>>
    OBVIOUS
  <2>5. PICK i \in 1..Len(vs): g = <<vs[i].key, vs[i].val>>
    BY <2>2, <2>3, Zenon
  <2>6. vs[i].key = CONTENT_LENGTH
    BY <2>4, <2>5, Zenon
  <2> QED
    BY <2>5, <2>6, Zenon
<1>6. CASE size = 0
  <2>1. \A i \in 1..Len(vs): vs[i].key # CONTENT_LENGTH
    BY <1>2, <1>3, <1>6
  <2>2. \A g \in H: g[1] # CONTENT_LENGTH
    BY <1>5, <2>1, Zenon
  <2>3. {g \in H: g[1] = CONTENT_LENGTH} = {}
    BY <2>2, Zenon
  <2> QED
    BY <1>6, <2>3
<1>7. CASE size > 0
  <2>1. \A i \in 1..Len(vs): vs[i].key = CONTENT_LENGTH => i = n + 1
    <3>1. Len(vs) = n + 1 /\ \A i \in 1..n: vs[i].key # CONTENT_LENGTH
      BY <1>3, <1>7
    <3>2. \A i \in 1..(n + 1): i # n + 1 => i \in 1..n
      BY <1>2
    <3> QED
      BY <3>1, <3>2, Zenon
  <2>2. vs[n + 1].key = CONTENT_LENGTH /\ vs[n + 1].val = size
    BY <1>3, <1>7
  <2>3. \A g \in H: g[1] = CONTENT_LENGTH => g = <<CONTENT_LENGTH, size>>
    BY <1>5, <2>1, <2>2, Zenon
  <2>4. <<CONTENT_LENGTH, size>> \in H
    <3>1. n + 1 \in {j \in 1..Len(vs): vs[j].val # Empty}
      BY <1>2, <1>3, <1>4, <1>7, <2>2
    <3>2. <<vs[n + 1].key, vs[n + 1].val>> \in AllSeen(list, size)
      BY <1>1, <3>1, Zenon DEF AllSeen, Seen
    <3> QED
      BY <2>2, <3>2, Zenon
  <2>5. {g \in H: g[1] = CONTENT_LENGTH} = {<<CONTENT_LENGTH, size>>}
    <3>1. <<CONTENT_LENGTH, size>>[1] = CONTENT_LENGTH
      OBVIOUS
    <3> QED
      BY <2>3, <2>4, <3>1, Zenon
  <2>6. {h[2]: h \in {<<CONTENT_LENGTH, size>>}} = {size}
    <3>1. <<CONTENT_LENGTH, size>>[2] = size
      OBVIOUS
    <3> QED
      BY <3>1, Zenon
  <2>7. size # 0
    BY <1>4, <1>7
  <2> QED
    BY <2>5, <2>6, <2>7, Zenon
<1> QED
  BY <1>4, <1>6, <1>7

LEMMA ParseEndStep == IInv /\ ParseEnd /\ UNCHANGED clientVars => IInv'
<1> SUFFICES ASSUME IInv, ParseEnd, UNCHANGED clientVars PROVE IInv'
  OBVIOUS
<1> DEFINE lengths == {h[2]: h \in {g \in m_headers: g[1] = CONTENT_LENGTH}}
<1>1. /\ at = "parse" /\ pos >= Len(m_data)
      /\ IF lengths = {}
           THEN at' = "request" /\ m_state' = "DONE" /\ UNCHANGED content_size
           ELSE at' = "read" /\ m_state' = "READ_CONTENT" /\ content_size' = Max(lengths)
      /\ UNCHANGED <<wireVars, nonblock, m_events, modifier1, datasize, m_data, pos,
                     m_headers, m_content, resVars, outcome>>
  BY DEF ParseEnd
<1>2. PICK list \in VarLists, size \in ContentSizes, tail \in Words \X Words:
          /\ Request(list, size, tail) /\ datasize = Len(Body(list, size, tail))
          /\ InParser(list, size, Body(list, size, tail))
  BY <1>1, ParserPlace
<1>3. PICK body \in Seq(Words): body = Body(list, size, tail) /\ Len(body) = Len(VarBlock(list, size)) + 2
  BY <1>2, BodyType, ThriftCallAssumption
<1>4. /\ m_data = body /\ Parsed(list, size) /\ m_content = <<>> /\ m_state = "READ_DATA"
      /\ InFlight(body, Len(body))
  BY <1>2, <1>3 DEF InParser
<1>5. m_headers = AllSeen(list, size) \/ (~clean /\ m_headers = AllSeen(list, size) \cup {Junk})
  <2>1. PICK vs: vs = AllVars(list, size)
    OBVIOUS
  <2>2. vs \in Seq(Var) /\ Len(VarBlock(list, size)) = Off(vs, Len(vs))
        /\ Len(VarBlock(list, size)) \in Nat
    BY <1>2, <2>1, BlockLayout
  <2>3. ASSUME NEW k \in 0..Len(vs), pos = Off(vs, k) PROVE FALSE
    <3>1. PICK b \in Nat: b = Len(VarBlock(list, size)) /\ Len(m_data) = b + 2
      BY <1>3, <1>4, <2>2
    <3>2. pos <= b
      <4>1. CASE k = Len(vs)
        BY <2>2, <2>3, <3>1, <4>1
      <4>2. CASE k # Len(vs)
        <5>1. k \in 0..(Len(vs) - 1)
          BY <2>2, <2>3, <4>2
        <5>2. /\ Off(vs, k) \in Nat /\ TextLen(vs[k + 1]) \in Nat
              /\ Off(vs, k + 1) = Off(vs, k) + 3 + TextLen(vs[k + 1])
              /\ Off(vs, k + 1) <= Len(VarBlock(list, size))
          BY <1>2, <2>1, <5>1, BlockLayout
        <5>3. PICK o \in Nat, t \in Nat: o = Off(vs, k) /\ t = TextLen(vs[k + 1]) /\ o + 3 + t <= b
          BY <3>1, <5>2
        <5>4. o <= b
          BY <3>1, <5>3
        <5> QED
          BY <2>3, <5>3, <5>4, Zenon
      <4> QED
        BY <4>1, <4>2
    <3>3. pos \in Nat
      BY DEF IInv, TypeOK, ServerTypeOK
    <3> QED
      BY <1>1, <3>1, <3>2, <3>3
  <2> QED
    BY <1>4, <2>1, <2>3 DEF Parsed
<1>6. /\ size \in Nat
      /\ size = 0 => lengths = {}
      /\ size > 0 => lengths = {size}
  BY <1>2, <1>5, Lengths, ThriftCallAssumption
<1> HIDE DEF lengths
<1>7. \/ size = 0 /\ at' = "request" /\ m_state' = "DONE" /\ content_size' = content_size
      \/ size > 0 /\ at' = "read" /\ m_state' = "READ_CONTENT" /\ content_size' = size
  <2>1. CASE size = 0
    BY <1>1, <1>6, <2>1
  <2>2. CASE size > 0
    <3>1. Max({size}) = size
      <4>1. \E x \in {size}: \A y \in {size}: x >= y
        BY <1>6
      <4> QED
        BY <4>1 DEF Max
    <3>2. lengths = {size} /\ lengths # {}
      BY <1>6, <2>2
    <3> QED
      BY <1>1, <2>2, <3>1, <3>2, Zenon
  <2> QED
    BY <1>6, <2>1, <2>2
<1>8. TypeOK'
  <2>1. /\ content_size' \in Nat /\ m_content' = <<>>
        /\ at' \in {"none", "watch", "read", "parse", "request", "ended"}
        /\ m_state' \in {"READY", "READ_DATA", "READ_CONTENT", "DONE"}
    BY <1>1, <1>4, <1>6, <1>7 DEF IInv, TypeOK, ServerTypeOK
  <2>2. m_content' \in Seq(Words) /\ Len(m_content') <= content_size'
    BY <2>1, NoWords
  <2>3. ServerTypeOK'
    BY <1>1, <2>1, <2>2 DEF IInv, TypeOK, ServerTypeOK, wireVars, resVars, Response!BaseTypeOK
  <2> QED
    BY <2>3 DEF IInv, TypeOK, clientVars, objectVars, requestVars, historyVars
<1>9. ContentRead'
  <2>0. UNCHANGED <<up, call, calls, req_state, content, asked, fresh>> /\ m_content' = <<>>
    BY <1>1, <1>4 DEF clientVars, objectVars, requestVars, historyVars, wireVars
  <2>1. PICK l \in Nat, b \in Nat, u \in Nat, k \in Nat:
          l = Len(up) /\ b = Len(body) /\ u = Unsent /\ k = Len(asked.content)
    <3>1. up \in Seq(Words) /\ Unsent \in Nat /\ asked.content \in Seq(Words)
      BY UnsentType DEF IInv, ContentPart
    <3>2. Len(up) \in Nat /\ Len(body) \in Nat /\ Len(asked.content) \in Nat
      BY <1>3, <3>1
    <3> QED
      BY <3>1, <3>2, Zenon
  <2>2. Unsent' = u
    BY <2>0, <2>1 DEF Unsent
  <2>3. /\ \A i \in 1..l: IF i + b <= b THEN up[i] = body[i + b] ELSE IsBody(up[i])
        /\ fresh => l + b - b + u <= k
    BY <1>4, <2>1 DEF InFlight
  <2>4. (\A i \in 1..l: ~(i + b <= b)) /\ (fresh => 0 + l + u <= k)
    BY <2>1, <2>3
  <2>5. \A i \in 1..l: IsBody(up[i])
    BY <2>3, <2>4, Zenon
  <2>6. (\A i \in 1..Len(up): IsBody(up[i]))'
    BY <2>0, <2>1, <2>5, Zenon DEF IsBody
  <2>7. Len(m_content') = 0
    BY <2>0
  <2>8. (\A i \in 1..Len(m_content): IsBody(m_content[i]))'
    BY <2>7
  <2>9. (fresh => Len(m_content) + Len(up) + Unsent <= Len(asked.content))'
    BY <2>0, <2>1, <2>2, <2>4, <2>7, Zenon
  <2> QED
    BY <2>6, <2>8, <2>9, Zenon DEF ContentRead
<1>10. ServerPart'
  <2>1. Request(list, size, tail)' /\ clean' = clean
    BY <1>2, RequestSame DEF clientVars, historyVars
  <2>2. modifier1' = 0 /\ datasize' = Len(body) /\ m_headers' = m_headers
    BY <1>1, <1>2, <1>3, ParserPlace
  <2>3. (InContent(size) \/ InRequest(size))'
    <3>1. Len(m_content') = 0
      BY <1>1, <1>4
    <3> QED
      BY <1>6, <1>7, <1>9, <3>1 DEF InContent, InRequest
  <2>4. m_headers' = AllSeen(list, size) \/ ~clean'
    BY <1>5, <2>1, <2>2, Zenon
  <2>5. Serving(list, size, body)'
    BY <2>2, <2>3, <2>4, Zenon DEF Serving
  <2> QED
    BY <1>2, <1>3, <2>1, <2>5, Zenon DEF ServerPart
<1>11. Live /\ m_events = "READ"
  BY <1>1, ParserPlace
<1>12. EmptyPart' /\ OutcomePart' /\ ResponsePart'
  BY <1>1, <1>7, <1>11 DEF IInv, EmptyPart, OutcomePart, ResponsePart, Live, wireVars, resVars,
                           Response!ToWrite
<1>13. ~(connected /\ Untouched) /\ closed' = closed
  BY <1>1, <1>11 DEF Untouched, wireVars
<1>14. fresh /\ connected /\ call \notin {"closed", "open"} => Ours(down') /\ Ours(response')
  BY <1>1 DEF IInv, ReplyPart, wireVars, resVars
<1> QED
  BY <1>8, <1>10, <1>11, <1>12, <1>13, <1>14, ServerKeeps
-----------------------------------------------------------------------------
(* Answering                                                               *)

\* The request that the handler gets.
LEMMA Handled ==
    ASSUME IInv, at = "request"
    PROVE  /\ Live /\ m_events = "READ" /\ m_state = "DONE" /\ ContentRead
           /\ \E list \in VarLists, size \in ContentSizes, tail \in Words \X Words:
                 /\ Request(list, size, tail) /\ Len(m_content) = size
                 /\ m_headers = AllSeen(list, size) \/ ~clean
<1>1. Live /\ m_events = "READ"
  BY Reading
<1>2. PICK list \in VarLists, size \in ContentSizes, tail \in Words \X Words:
          Request(list, size, tail) /\ Serving(list, size, Body(list, size, tail))
  BY <1>1, Place DEF NoHeader, OtherPacket
<1>3. InRequest(size) /\ (m_headers = AllSeen(list, size) \/ ~clean)
  BY <1>2 DEF Serving, InHeader, InVars, InParser, InContent
<1> QED
  BY <1>1, <1>2, <1>3 DEF InRequest

\* It is what the last call asked, and all of it, if that began with an empty object.
LEMMA HandledContent ==
    ASSUME IInv, at = "request", fresh
    PROVE  m_content = asked.content /\ up = <<>>
<1>1. PICK list \in VarLists, size \in ContentSizes, tail \in Words \X Words:
          Request(list, size, tail) /\ Len(m_content) = size
  BY Handled
<1>2. asked.content = [i \in 1..size |-> <<"body", calls>>] /\ size \in Nat
  BY <1>1, ThriftCallAssumption DEF Request
<1>3. m_content \in Seq(Words) /\ up \in Seq(Words) /\ Unsent \in Nat /\ asked.content \in Seq(Words)
  BY UnsentType DEF IInv, ContentPart
<1>4. /\ \A i \in 1..Len(m_content): IsBody(m_content[i])
      /\ Len(m_content) + Len(up) + Unsent <= Len(asked.content)
  BY Handled DEF ContentRead
<1>5. Len(asked.content) = size
  BY <1>2
<1>6. ASSUME NEW i \in 1..size PROVE m_content[i] = asked.content[i]
  <2>1. m_content[i] \in Words /\ IsBody(m_content[i])
    BY <1>1, <1>3, <1>4
  <2>2. m_content[i] = <<"body", calls>>
    BY <2>1 DEF Words, IsBody
  <2> QED
    BY <1>2, <2>2
<1>7. m_content = asked.content
  BY <1>1, <1>3, <1>5, <1>6, SameList
<1>8. up = <<>>
  <2>1. PICK l \in Nat, u \in Nat: l = Len(up) /\ u = Unsent
    BY <1>3
  <2>2. size + l + u <= size
    BY <1>1, <1>4, <1>5, <2>1
  <2>3. Len(up) = 0
    BY <1>2, <2>1, <2>2
  <2>4. \A s \in Seq(Words): Len(s) = 0 => s = <<>>
    OBVIOUS
  <2> QED
    BY <1>3, <2>3, <2>4, Zenon
<1> QED
  BY <1>7, <1>8

LEMMA HandleRequestStep ==
    ASSUME IInv, UNCHANGED clientVars, NEW size \in ResponseSizes, HandleRequest(size)
    PROVE  IInv'
<1> DEFINE head == [i \in 1..HeaderSize |-> <<"head", size>>]
           words == [i \in 1..size |-> <<"body", Asked>>]
<1>1. /\ at = "request" /\ at' = "watch" /\ m_events' = "WRITE" /\ res_content' = size
      /\ response' = head \o words /\ reply' = response' /\ clearRequest
      /\ UNCHANGED <<wireVars, nonblock, res_state, res_data, outcome>>
  BY DEF HandleRequest
<1>2. Live /\ m_events = "READ" /\ m_state = "DONE" /\ res_state = "READY"
  BY <1>1, Handled DEF IInv, ResponsePart
<1>3. size \in Nat /\ HeaderSize \in Nat
  BY UwsgiTaskAssumption
<1>4. Asked \in Nat
  <2>1. m_content \in Seq(Words)
    BY UnsentType DEF IInv
  <2>2. m_content # <<>> => m_content[1] \in Words
    BY <2>1
  <2> QED
    BY <2>2 DEF Asked, Words
<1>5. head \in Seq(Words) /\ Len(head) = HeaderSize /\ \A i \in 1..HeaderSize: head[i][1] = "head"
  <2>1. <<"head", size>> \in Words
    BY <1>3 DEF Words
  <2> QED
    BY <1>3, <2>1
<1>6. words \in Seq(Words) /\ Len(words) = size /\ \A i \in 1..size: words[i][2] = Asked
  <2>1. <<"body", Asked>> \in Words
    BY <1>4 DEF Words
  <2> QED
    BY <1>3, <2>1
<1> HIDE DEF head, words
<1>7. head \o words \in Seq(Words) /\ Len(head \o words) = HeaderSize + size
  <2>1. head \o words \in Seq(Words) /\ Len(head \o words) = Len(head) + Len(words)
    BY <1>5, <1>6, ConcatElements
  <2> QED
    BY <1>5, <1>6, <2>1
<1>8. TypeOK'
  <2>1. Len(m_data') <= datasize' /\ Len(m_content') <= content_size'
    BY <1>1 DEF clearRequest
  <2>2. up' \in Seq(Words) /\ down' \in Seq(Words) /\ closed' \in BOOLEAN /\ nonblock' \in BOOLEAN
        /\ outcome' = outcome
    BY <1>1 DEF IInv, TypeOK, ServerTypeOK, wireVars
  <2>3. (Response!BaseTypeOK)'
    BY <1>1, <1>3 DEF IInv, TypeOK, ServerTypeOK, Response!BaseTypeOK
  <2>4. ServerTypeOK'
    BY <1>1, <1>7, <2>1, <2>2, <2>3, NoWords DEF IInv, TypeOK, ServerTypeOK, clearRequest
  <2> QED
    BY <2>4 DEF IInv, TypeOK, clientVars, objectVars, requestVars, historyVars
<1>9. ServerPart' /\ EmptyPart'
  BY <1>1 DEF ServerPart, EmptyPart, clearRequest
<1>10. OutcomePart'
  BY <1>1, <1>2 DEF IInv, OutcomePart, Live
<1>11. ResponsePart'
  <2>1. (Response!ToWrite(HeaderSize))' = HeaderSize
    BY <1>1, <1>2 DEF Response!ToWrite
  <2>2. HeaderSize + size <= Len(response')
    BY <1>1, <1>3, <1>7
  <2> QED
    BY <1>1, <1>2, <2>1, <2>2 DEF ResponsePart
<1>12. fresh => Ours(response')
  <2> SUFFICES ASSUME fresh PROVE Ours(head \o words)
    BY <1>1
  <2>1. Asked = IF asked.content = <<>> THEN 0 ELSE calls
    <3>1. m_content = asked.content
      BY <1>1, HandledContent
    <3>2. m_content # <<>> => IsBody(m_content[1])
      <4>1. m_content \in Seq(Words)
        BY UnsentType DEF IInv
      <4>2. m_content # <<>> => 1 \in 1..Len(m_content)
        BY <4>1
      <4> QED
        BY <1>1, <4>2, Handled DEF ContentRead
    <3> QED
      BY <3>1, <3>2 DEF Asked, IsBody
  <2>2. Ours(words)
    BY <1>6, <2>1, Zenon DEF Ours
  <2>3. Ours(head)
    BY <1>5 DEF Ours
  <2> QED
    BY <1>5, <1>6, <2>2, <2>3, OursConcat
<1>13. ~(connected /\ Untouched) /\ closed' = closed /\ down' = down
  BY <1>1, <1>2 DEF Untouched, wireVars
<1>14. fresh /\ connected /\ call \notin {"closed", "open"} => Ours(down') /\ Ours(response')
  BY <1>12, <1>13 DEF IInv, ReplyPart
<1> QED
  BY <1>2, <1>8, <1>9, <1>10, <1>11, <1>13, <1>14, ServerKeeps

LEMMA HandleWriteStep ==
    ASSUME IInv, UNCHANGED clientVars, NEW nd \in Nat, NEW nc \in Nat, HandleWrite(nd, nc)
    PROVE  IInv'
<1> DEFINE complete == Response!Completes(HeaderSize, nd, nc)
<1>1. PICK w \in Nat, r \in Nat, l \in Nat:
        /\ w = Response!ToWrite(HeaderSize) /\ r = res_content /\ l = Len(response)
        /\ response \in Seq(Words) /\ down \in Seq(Words)
  <2>1. response \in Seq(Words) /\ down \in Seq(Words) /\ res_content \in Nat /\ res_data \in Nat
    BY DEF IInv, TypeOK, ServerTypeOK, Response!BaseTypeOK
  <2>2. Response!ToWrite(HeaderSize) \in Nat
    BY <2>1, UwsgiTaskAssumption DEF Response!ToWrite
  <2>3. Len(response) \in Nat
    BY <2>1
  <2> QED
    BY <2>1, <2>2, <2>3, Zenon
<1>2. /\ at = "watch" /\ m_events = "WRITE"
      /\ nd <= w /\ nc <= r /\ (nd < w => nc = 0) /\ res_state # "DONE"
      /\ down' = down \o SubSeq(response, (l - w - r) + 1, (l - w - r) + nd + nc)
      /\ UNCHANGED <<up, closed, nonblock, m_events, reqVars, reply>>
  BY <1>1 DEF HandleWrite, Response!Takes
<1>3. IF complete
        THEN Response!clear /\ response' = <<>> /\ at' = "ended" /\ outcome' = "answered"
        ELSE Response!write_data(HeaderSize, nd, nc) /\ UNCHANGED <<response, at, outcome>>
  BY DEF HandleWrite
<1>4. Live /\ w + r <= l
  BY <1>1, <1>2 DEF IInv, ResponsePart, Live
<1>b. nd <= w /\ nc <= r /\ w + r <= l /\ w \in Nat /\ r \in Nat /\ l \in Nat
  BY <1>1, <1>2, <1>4
<1>5. PICK m \in Nat, n \in Nat: m = l - w - r /\ n = nd + nc /\ m + n <= l
  <2>1. l - w - r \in Nat /\ nd + nc \in Nat /\ l - w - r + (nd + nc) <= l
    BY <1>b
  <2> QED
    BY <2>1, Zenon
<1>6. PICK part \in Seq(Words): part = SubSeq(response, m + 1, m + n) /\ down' = down \o part
  <2>1. SubSeq(response, m + 1, m + n) \in Seq(Words)
    BY <1>1, <1>5, PartOf
  <2>2. (l - w - r) + nd + nc = m + n
    BY <1>1, <1>5
  <2> QED
    BY <1>2, <1>5, <2>1, <2>2, Zenon
<1>7. down' \in Seq(Words)
  BY <1>1, <1>6, ConcatElements
<1>8. fresh /\ connected /\ call \notin {"closed", "open"} => Ours(down') /\ Ours(response')
  <2> SUFFICES ASSUME fresh, connected, call \notin {"closed", "open"}
               PROVE  Ours(down') /\ Ours(response')
    OBVIOUS
  <2>1. Ours(down) /\ Ours(response)
    BY DEF IInv, ReplyPart
  <2>2. Ours(part)
    BY <1>1, <1>5, <1>6, <2>1, OursPart
  <2>3. Ours(down \o part)
    BY <1>1, <1>6, <2>1, <2>2, OursConcat
  <2>4. Ours(<<>>)
    BY DEF Ours
  <2>5. response' = response \/ response' = <<>>
    BY <1>3
  <2> QED
    BY <1>6, <2>1, <2>3, <2>4, <2>5, Zenon
<1>9. /\ res_state' \in {"READY", "WRITE_DATA", "WRITE_CONTENT", "DONE"}
      /\ res_data' \in Nat /\ res_content' \in Nat /\ response' \in Seq(Words)
      /\ ~complete => /\ res_state' \in {"WRITE_DATA", "WRITE_CONTENT"}
                      /\ res_data' + res_content' <= l
  <2>1. CASE complete
    BY <1>3, <2>1, NoWords DEF Response!clear
  <2>2. CASE ~complete
    <3>1. /\ res_data' = w - nd /\ res_content' = r - nc /\ response' = response
          /\ res_state' \in {"WRITE_DATA", "WRITE_CONTENT"}
      BY <1>1, <1>3, <2>2 DEF Response!write_data
    <3>2. w - nd \in Nat /\ r - nc \in Nat /\ (w - nd) + (r - nc) <= l
      BY <1>b
    <3> QED
      BY <1>1, <3>1, <3>2, Zenon
  <2> QED
    BY <2>1, <2>2
<1>10. TypeOK'
  <2>1. (Response!BaseTypeOK)'
    BY <1>9 DEF Response!BaseTypeOK
  <2>2. /\ at' \in {"none", "watch", "read", "parse", "request", "ended"}
        /\ outcome' \in {"none", "answered", "refused", "closed", "cut", "error", "crashed"}
    BY <1>3 DEF IInv, TypeOK, ServerTypeOK
  <2>3. ServerTypeOK'
    BY <1>2, <1>7, <1>9, <2>1, <2>2 DEF IInv, TypeOK, ServerTypeOK, reqVars
  <2> QED
    BY <2>3 DEF IInv, TypeOK, clientVars, objectVars, requestVars, historyVars
<1>11. ServerPart' /\ EmptyPart'
  <2>1. m_events' = "WRITE" /\ (Live' => Live) /\ UNCHANGED reqVars
    BY <1>2, <1>4
  <2> QED
    BY <2>1 DEF IInv, ServerPart, EmptyPart, reqVars
<1>12. OutcomePart'
  BY <1>2, <1>3 DEF IInv, OutcomePart, reqVars
<1>13. ResponsePart'
  <2>1. CASE complete
    BY <1>3, <2>1 DEF ResponsePart, Live
  <2>2. CASE ~complete
    <3>1. res_state' \in {"WRITE_DATA", "WRITE_CONTENT"} /\ res_data' + res_content' <= l
          /\ response' = response /\ at' = at
      BY <1>3, <1>9, <2>2
    <3>2. (Response!ToWrite(HeaderSize))' = res_data'
      BY <3>1 DEF Response!ToWrite
    <3>3. (Response!ToWrite(HeaderSize) + res_content <= Len(response))'
      BY <1>1, <3>1, <3>2, Zenon
    <3> QED
      BY <1>2, <3>1, <3>3 DEF ResponsePart
  <2> QED
    BY <2>1, <2>2
<1>14. ~(connected /\ Untouched)
  BY <1>2, <1>4 DEF Untouched
<1> QED
  BY <1>2, <1>4, <1>8, <1>10, <1>11, <1>12, <1>13, <1>14, ServerKeeps
-----------------------------------------------------------------------------
(* The stream of an answer                                                 *)

\* What the client has read and what is in flight to it is the beginning of the
\* answer to its request, and the server is about to write the rest.
Streamed ==
    /\ Len(got) + Len(down) <= Len(reply)
    /\ \A i \in 1..Len(got): got[i] = reply[i]
    /\ \A i \in 1..Len(down): down[i] = reply[Len(got) + i]
    /\ Live /\ m_events = "WRITE" =>
          /\ response = reply
          /\ Len(got) + Len(down) + Response!ToWrite(HeaderSize) + res_content = Len(reply)
    /\ done /\ ~misread => Len(got) = Len(reply)

\* An answer is as long as its first word says.
Whole(r) == Len(r) = HeaderSize + r[1][2]

StreamPart ==
    /\ reply # <<>> => Whole(reply)
    /\ Live /\ m_events = "READ" => reply = <<>>
    /\ ~used => ~done
    /\ fresh /\ call \notin {"closed", "open"} => IF connected THEN Streamed ELSE ~done

LEMMA InitStream == Init => StreamPart
BY DEF Init, ServerInit, StreamPart, Live

\* A step that leaves both ends of the stream alone.
LEMMA StreamSame ==
    ASSUME StreamPart, UNCHANGED <<got, done, misread, used, fresh, connected, down, m_events, resVars>>,
           call' \in {"closed", "open"} \/ call \notin {"closed", "open"}, Live' => Live
    PROVE  StreamPart'
<1>1. UNCHANGED <<reply, response, res_state, res_data, res_content>>
  BY DEF resVars
<1>2. Streamed => Streamed'
  BY <1>1 DEF Streamed, Response!ToWrite
<1> QED
  BY <1>1, <1>2 DEF StreamPart

\* The client opens or gives up its connection.
LEMMA StreamOpen ==
    ASSUME StreamPart, Open \/ OpenFails \/ Close \/ NewClient \/ readEnd
    PROVE  StreamPart'
<1>1. CASE Open
  BY <1>1 DEF Open, NewTask, StreamPart, Live, objectVars, historyVars
<1>2. CASE OpenFails
  BY <1>2 DEF OpenFails, StreamPart, Live, objectVars, historyVars, resVars
<1>3. CASE Close
  BY <1>3 DEF Close, StreamPart, Live, objectVars, historyVars, resVars
<1>4. CASE NewClient
  BY <1>4 DEF NewClient, StreamPart, Live, resVars
<1>5. CASE readEnd
  BY <1>5 DEF readEnd, StreamPart, Live, resVars
<1> QED
  BY <1>1, <1>2, <1>3, <1>4, <1>5

\* A call begins: with an empty object, on a connection that nobody has used.
LEMMA StreamFlush ==
    ASSUME IInv, StreamPart, NEW list, NEW size, Flush(list, size)
    PROVE  StreamPart'
<1>1. /\ call = "open" /\ fresh' = ~used /\ used' = TRUE
      /\ UNCHANGED <<connected, got, done, misread, serverVars>>
  BY DEF Flush
<1>2. UNCHANGED <<down, at, m_events, reply, response, res_state, res_data, res_content>>
  BY <1>1 DEF serverVars, wireVars, resVars
<1>3. reply \in Seq(Words)
  BY DEF IInv, TypeOK, ServerTypeOK
<1>4. ASSUME ~used, connected PROVE Streamed'
  <2>1. got = <<>> /\ ~done /\ Untouched
    BY <1>1, <1>4 DEF IInv, StreamPart, ReplyPart, ClientPart
  <2>2. got' = <<>> /\ down' = <<>> /\ ~done' /\ ~(Live' /\ m_events' = "WRITE")
    BY <1>1, <1>2, <2>1 DEF Untouched, Live
  <2>3. Len(reply') \in Nat
    BY <1>2, <1>3
  <2> QED
    BY <2>2, <2>3 DEF Streamed
<1> QED
  BY <1>1, <1>2, <1>4 DEF StreamPart, Live

\* The client reads words: those that come next, and after the last one no more.
LEMMA StreamRead ==
    ASSUME IInv, StreamPart, NEW n \in 1..Len(down), NEW full \in BOOLEAN, ReadResponse(n, full)
    PROVE  StreamPart'
<1>1. down \in Seq(Words) /\ got \in Seq(Words) /\ reply \in Seq(Words)
  BY DEF IInv, TypeOK, ServerTypeOK
<1>2. PICK d \in Nat, g \in Nat, r \in Nat: d = Len(down) /\ g = Len(got) /\ r = Len(reply)
  BY <1>1
<1>n. n \in 1..d /\ n \in 0..Len(down) /\ d \in Nat
  BY <1>2
<1>3. PICK a \in Seq(Words), b \in Seq(Words):
        /\ a = SubSeq(down, 1, n) /\ b = SubSeq(down, n + 1, Len(down))
        /\ Len(a) = n /\ Len(b) = d - n
        /\ \A i \in 1..n: a[i] = down[i]
        /\ \A i \in 1..(d - n): b[i] = down[i + n]
  <2>1. /\ SubSeq(down, 1, n) \in Seq(Words) /\ Len(SubSeq(down, 1, n)) = n
        /\ \A i \in 1..n: SubSeq(down, 1, n)[i] = down[i]
        /\ SubSeq(down, n + 1, Len(down)) \in Seq(Words)
        /\ Len(SubSeq(down, n + 1, Len(down))) = Len(down) - n
        /\ \A i \in 1..(Len(down) - n): SubSeq(down, n + 1, Len(down))[i] = down[i + n]
    BY <1>1, <1>n, Split
  <2> QED
    BY <1>2, <2>1, Zenon
<1>4. /\ got' = got \o a /\ down' = b /\ connected /\ call \notin {"closed", "open"}
      /\ call' \notin {"closed", "open"}
      /\ done' = (done \/ Complete(got')) /\ misread' = (misread \/ (done' /\ Len(got') < HeaderSize))
      /\ UNCHANGED <<connected, used, fresh, at, m_events, reply, response, res_state, res_data, res_content>>
  BY <1>3 DEF ReadResponse, ReadsResponse, resVars
<1>5. used
  BY DEF IInv, ReplyPart, ReadResponse, ReadsResponse, InCall
<1>6. ASSUME fresh PROVE Streamed'
  <2>1. Streamed
    BY <1>4, <1>6 DEF StreamPart
  <2>2. g + d <= r /\ (\A i \in 1..g: got[i] = reply[i]) /\ (\A i \in 1..d: down[i] = reply[g + i])
    BY <1>2, <2>1 DEF Streamed
  <2>3. /\ Len(got') = g + n
        /\ \A x \in 1..g: got'[x] = got[x]
        /\ \A x \in 1..n: got'[g + x] = a[x]
    <3>1. /\ Len(got \o a) = Len(got) + Len(a)
          /\ \A x \in 1..Len(got): (got \o a)[x] = got[x]
          /\ \A x \in 1..Len(a): (got \o a)[Len(got) + x] = a[x]
      BY <1>1, <1>3, ConcatElements
    <3> QED
      BY <1>2, <1>3, <1>4, <3>1, Zenon
  <2>4. Len(down') = d - n
    BY <1>3, <1>4
  <2>5. (g + n) + (d - n) <= r /\ (g + n) + (d - n) = g + d /\ g + n <= r
    <3>1. \A x, y, z \in Nat: \A k \in 1..y:
            x + y <= z => (x + k) + (y - k) <= z /\ (x + k) + (y - k) = x + y /\ x + k <= z
      OBVIOUS
    <3>2. g \in Nat /\ d \in Nat /\ r \in Nat /\ g + d <= r /\ n \in 1..d
      BY <1>n, <1>2, <2>2
    <3> QED
      BY <3>1, <3>2
  <2>6. ASSUME NEW i \in 1..(g + n) PROVE got'[i] = reply[i]
    <3>1. CASE i \in 1..g
      BY <2>2, <2>3, <3>1, Zenon
    <3>2. CASE i \notin 1..g
      <4>1. i - g \in 1..n /\ g + (i - g) = i /\ i - g \in 1..d
        BY <1>n, <1>2, <3>2
      <4>2. got'[g + (i - g)] = a[i - g]
        BY <2>3, <4>1, Zenon
      <4>3. a[i - g] = down[i - g] /\ down[i - g] = reply[g + (i - g)]
        BY <1>3, <2>2, <4>1, Zenon
      <4> QED
        BY <4>1, <4>2, <4>3, Zenon
    <3> QED
      BY <3>1, <3>2
  <2>7. ASSUME NEW i \in 1..(d - n) PROVE down'[i] = reply[(g + n) + i]
    <3>1. i + n \in 1..d /\ g + (i + n) = (g + n) + i
      BY <1>n, <1>2
    <3>2. down'[i] = down[i + n]
      BY <1>3, <1>4
    <3> QED
      BY <2>2, <3>1, <3>2, Zenon
  <2>8. ASSUME Live', m_events' = "WRITE"
        PROVE  /\ response' = reply'
               /\ (Len(got) + Len(down) + Response!ToWrite(HeaderSize) + res_content)' = Len(reply')
    <3>1. Live /\ m_events = "WRITE"
      BY <1>4, <2>8 DEF Live
    <3>2. response = reply /\ g + d + Response!ToWrite(HeaderSize) + res_content = r
      BY <1>2, <2>1, <3>1 DEF Streamed
    <3>3. (Response!ToWrite(HeaderSize))' = Response!ToWrite(HeaderSize)
      BY <1>4 DEF Response!ToWrite
    <3>4. (g + n) + (d - n) + (Response!ToWrite(HeaderSize))' + res_content' = r
      BY <1>4, <2>5, <3>2, <3>3, Zenon
    <3> QED
      BY <1>2, <1>4, <2>3, <2>4, <3>2, <3>4, Zenon
  <2>9. ASSUME done', ~misread' PROVE Len(got') = r
    <3>1. CASE done
      <4>1. g = r
        BY <1>2, <1>4, <2>1, <2>9, <3>1 DEF Streamed
      <4> QED
        BY <1>n, <1>2, <2>2, <4>1
    <3>2. CASE ~done
      <4>1. Complete(got') /\ ~(g + n < HeaderSize)
        BY <1>4, <2>3, <2>9, <3>2
      <4>2. g + n = HeaderSize + got'[1][2]
        BY <2>3, <4>1 DEF Complete
      <4>3. 1 \in 1..(g + n) /\ reply # <<>>
        BY <1>1, <1>n, <1>2, <2>5
      <4>4. got'[1] = reply[1]
        BY <2>6, <4>3
      <4>5. r = HeaderSize + reply[1][2]
        BY <1>2, <4>3 DEF StreamPart, Whole
      <4> QED
        BY <2>3, <4>2, <4>4, <4>5, Zenon
    <3> QED
      BY <3>1, <3>2
  <2>10. /\ Len(got') + Len(down') <= Len(reply')
         /\ \A i \in 1..Len(got'): got'[i] = reply'[i]
         /\ \A i \in 1..Len(down'): down'[i] = reply'[Len(got') + i]
    BY <1>2, <1>4, <2>3, <2>4, <2>5, <2>6, <2>7, Zenon
  <2>11. done' /\ ~misread' => Len(got') = Len(reply')
    BY <1>2, <1>4, <2>9, Zenon
  <2> QED
    BY <2>8, <2>10, <2>11, Zenon DEF Streamed
<1> QED
  BY <1>4, <1>5, <1>6 DEF StreamPart, Live

\* The server makes an answer: nothing was sent before.
LEMMA StreamRequest ==
    ASSUME IInv, StreamPart, UNCHANGED clientVars, NEW size \in ResponseSizes, HandleRequest(size)
    PROVE  StreamPart'
<1> DEFINE head == [i \in 1..HeaderSize |-> <<"head", size>>]
           words == [i \in 1..size |-> <<"body", Asked>>]
<1>1. /\ at = "request" /\ at' = "watch" /\ m_events' = "WRITE" /\ res_content' = size
      /\ response' = head \o words /\ reply' = response'
      /\ UNCHANGED <<down, res_state, res_data>>
  BY DEF HandleRequest, wireVars
<1>2. UNCHANGED <<call, connected, got, done, misread, used, fresh>>
  BY DEF clientVars, objectVars, historyVars
<1>3. size \in Nat /\ HeaderSize \in Nat \ {0}
  BY UwsgiTaskAssumption
<1>4. Len(response') = HeaderSize + size /\ response'[1] = <<"head", size>>
  BY <1>1, <1>3
<1>5. Live /\ m_events = "READ" /\ res_state = "READY" /\ reply = <<>>
  BY <1>1, Handled DEF IInv, ResponsePart, StreamPart
<1>6. Whole(reply')
  <2>1. <<"head", size>>[2] = size
    OBVIOUS
  <2> HIDE DEF head, words
  <2> QED
    BY <1>1, <1>4, <2>1, Zenon DEF Whole
<1>7. ASSUME fresh, connected, call \notin {"closed", "open"} PROVE Streamed'
  <2>1. Len(got) + Len(down) <= 0 /\ got \in Seq(Words) /\ down \in Seq(Words)
    BY <1>5, <1>7 DEF IInv, TypeOK, ServerTypeOK, StreamPart, Streamed
  <2>2. got = <<>> /\ down = <<>>
    BY <2>1
  <2>3. ~done
    BY <2>2 DEF IInv, ReplyPart
  <2>4. (Response!ToWrite(HeaderSize))' = HeaderSize
    BY <1>1, <1>5 DEF Response!ToWrite
  <2> HIDE DEF head, words
  <2>5. Len(got') = 0 /\ Len(down') = 0 /\ ~done'
    BY <1>1, <1>2, <2>2, <2>3
  <2>6. Len(reply') = HeaderSize + size
    BY <1>1, <1>4
  <2> QED
    BY <1>1, <1>3, <2>4, <2>5, <2>6 DEF Streamed
<1> QED
  BY <1>1, <1>2, <1>5, <1>6, <1>7 DEF StreamPart

\* The server writes the next words of it.
LEMMA StreamWrite ==
    ASSUME IInv, StreamPart, UNCHANGED clientVars, NEW nd \in Nat, NEW nc \in Nat, HandleWrite(nd, nc)
    PROVE  StreamPart'
<1> DEFINE complete == Response!Completes(HeaderSize, nd, nc)
<1>1. UNCHANGED <<call, connected, got, done, misread, used, fresh>>
  BY DEF clientVars, objectVars, historyVars
<1>2. /\ response \in Seq(Words) /\ down \in Seq(Words) /\ got \in Seq(Words)
      /\ Response!ToWrite(HeaderSize) \in Nat /\ res_content \in Nat
  BY UwsgiTaskAssumption DEF IInv, TypeOK, ServerTypeOK, Response!BaseTypeOK, Response!ToWrite
<1>3. PICK w \in Nat, r \in Nat, l \in Nat, g \in Nat, d \in Nat:
        /\ w = Response!ToWrite(HeaderSize) /\ r = res_content /\ l = Len(response)
        /\ g = Len(got) /\ d = Len(down)
  <2>1. Len(response) \in Nat /\ Len(got) \in Nat /\ Len(down) \in Nat
    BY <1>2
  <2> QED
    BY <1>2, <2>1, Zenon
<1>t. w \in Nat /\ r \in Nat /\ l \in Nat /\ g \in Nat /\ d \in Nat
  BY <1>3
<1>4. /\ at = "watch" /\ m_events = "WRITE" /\ m_events' = "WRITE" /\ reply' = reply
      /\ nd <= w /\ nc <= r
      /\ down' = down \o SubSeq(response, (l - w - r) + 1, (l - w - r) + nd + nc)
  BY <1>3 DEF HandleWrite, Response!Takes
<1>5. IF complete
        THEN at' = "ended"
        ELSE Response!write_data(HeaderSize, nd, nc) /\ UNCHANGED <<response, at>>
  BY DEF HandleWrite
<1>6. ASSUME fresh, connected, call \notin {"closed", "open"} PROVE Streamed'
  <2>1. Streamed
    BY <1>6 DEF StreamPart
  <2>2. /\ response = reply /\ g + d + w + r = l
        /\ \A i \in 1..g: got[i] = reply[i]
        /\ \A i \in 1..d: down[i] = reply[g + i]
        /\ done /\ ~misread => g = l
    BY <1>3, <1>4, <2>1 DEF Streamed, Live
  <2>3. PICK m \in Nat, n \in Nat:
          /\ m = l - w - r /\ n = nd + nc /\ m + n <= l /\ m = g + d
          /\ (l - w - r) + nd + nc = m + n /\ g + (d + n) <= l
    <3>1. /\ g + d = l - w - r /\ nd + nc \in Nat /\ g + d \in Nat /\ (g + d) + (nd + nc) <= l
          /\ (l - w - r) + nd + nc = (g + d) + (nd + nc) /\ g + (d + (nd + nc)) <= l
      <4>1. nd <= w /\ nc <= r /\ g + d + w + r = l
        BY <1>4, <2>2
      <4> QED
        BY <1>t, <4>1
    <3> QED
      BY <3>1, Zenon
  <2>t. m \in Nat /\ n \in Nat /\ m = g + d /\ n = nd + nc /\ m + n <= l
    BY <2>3
  <2>4. PICK part \in Seq(Words):
          /\ down' = down \o part /\ Len(part) = n
          /\ \A i \in 1..n: part[i] = reply[m + i]
    <3>1. /\ SubSeq(response, m + 1, m + n) \in Seq(Words) /\ Len(SubSeq(response, m + 1, m + n)) = n
          /\ \A i \in 1..n: SubSeq(response, m + 1, m + n)[i] = response[m + i]
      <4>1. m + n <= Len(response)
        BY <1>3, <2>t, Zenon
      <4> QED
        BY <1>2, <2>t, <4>1, PartOf
    <3> QED
      BY <1>4, <2>2, <2>3, <3>1, Zenon
  <2>5. /\ Len(down') = d + n
        /\ \A x \in 1..d: down'[x] = down[x]
        /\ \A x \in 1..n: down'[d + x] = part[x]
    <3>1. /\ Len(down \o part) = Len(down) + Len(part)
          /\ \A x \in 1..Len(down): (down \o part)[x] = down[x]
          /\ \A x \in 1..Len(part): (down \o part)[Len(down) + x] = part[x]
      <4>1. down \in Seq(Words) /\ part \in Seq(Words)
        BY <1>2, <2>4
      <4> QED
        BY <4>1, ConcatElements
    <3> QED
      BY <1>3, <2>4, <3>1, Zenon
  <2>6. ASSUME NEW i \in 1..(d + n) PROVE down'[i] = reply[g + i]
    <3>1. CASE i \in 1..d
      BY <2>2, <2>5, <3>1, Zenon
    <3>2. CASE i \notin 1..d
      <4>1. i - d \in 1..n /\ d + (i - d) = i /\ m + (i - d) = g + i
        BY <1>t, <2>t, <3>2
      <4>2. down'[d + (i - d)] = part[i - d] /\ part[i - d] = reply[m + (i - d)]
        BY <2>4, <2>5, <4>1, Zenon
      <4> QED
        BY <4>1, <4>2, Zenon
    <3> QED
      BY <3>1, <3>2
  <2>7. ASSUME Live'
        PROVE  /\ response' = reply'
               /\ (Len(got) + Len(down) + Response!ToWrite(HeaderSize) + res_content)' = Len(reply')
    <3>1. ~complete /\ Response!write_data(HeaderSize, nd, nc) /\ response' = response
      BY <1>5, <2>7 DEF Live
    <3>2. /\ res_data' = w - nd /\ res_content' = r - nc
          /\ res_state' \in {"WRITE_DATA", "WRITE_CONTENT"}
      BY <1>3, <3>1 DEF Response!write_data
    <3>3. (Response!ToWrite(HeaderSize))' = w - nd
      BY <3>2 DEF Response!ToWrite
    <3>4. g + (d + n) + (w - nd) + (r - nc) = l
      <4>1. nd <= w /\ nc <= r /\ g + d + w + r = l
        BY <1>4, <2>2
      <4> QED
        BY <1>t, <2>t, <4>1
    <3> QED
      BY <1>1, <1>3, <1>4, <2>2, <2>5, <3>1, <3>2, <3>3, <3>4, Zenon
  <2>8. /\ Len(got') + Len(down') <= Len(reply')
        /\ \A i \in 1..Len(got'): got'[i] = reply'[i]
        /\ \A i \in 1..Len(down'): down'[i] = reply'[Len(got') + i]
        /\ done' /\ ~misread' => Len(got') = Len(reply')
    BY <1>1, <1>3, <1>4, <2>2, <2>3, <2>5, <2>6, Zenon
  <2> QED
    BY <2>7, <2>8, Zenon DEF Streamed
<1>7. reply' # <<>> => Whole(reply')
  BY <1>4 DEF StreamPart
<1> QED
  BY <1>1, <1>4, <1>6, <1>7 DEF StreamPart

LEMMA NextStream == IInv /\ StreamPart /\ [Next]_vars => StreamPart'
<1> SUFFICES ASSUME IInv, StreamPart, [Next]_vars PROVE StreamPart'
  OBVIOUS
<1> DEFINE Same == UNCHANGED <<got, done, misread, used, fresh, connected, down, m_events, resVars>>
<1>1. CASE Open \/ OpenFails \/ Close \/ NewClient \/ readEnd
  BY <1>1, StreamOpen
<1>2. CASE \E list \in VarLists, size \in ContentSizes: Flush(list, size)
  BY <1>2, StreamFlush
<1>3. CASE \E n \in 1..Len(down), full \in BOOLEAN: ReadResponse(n, full)
  BY <1>3, StreamRead
<1>4. CASE WriteHeaders \/ WriteContent
  <2>1. Same /\ Live' = Live /\ call \notin {"closed", "open"}
    BY <1>4 DEF WriteHeaders, WriteContent, historyVars, Live
  <2> QED
    BY <2>1, StreamSame
<1>5. CASE FlushWriteFails \/ FlushReadFails \/ FlushReturns \/ OnewayReturns
  <2>1. Same /\ Live' = Live /\ call \notin {"closed", "open"}
    BY <1>5 DEF FlushWriteFails, FlushReadFails, ReadsResponse, Throw, FlushReturns, OnewayReturns,
                objectVars, historyVars, serverVars, wireVars, Live
  <2> QED
    BY <2>1, StreamSame
<1>6. CASE ServerStep /\ UNCHANGED clientVars
  <2>1. UNCHANGED <<got, done, misread, used, fresh, connected, call>>
    BY <1>6 DEF clientVars, objectVars, historyVars
  <2>2. CASE Receive
    <3>1. UNCHANGED <<down, m_events, resVars>> /\ (Live' => Live)
      BY <2>2 DEF Receive, ReadHeader, read_vars, read_content, ParseVar, ParseText, ParseJunk, ParseEnd,
                  ReadEnds, End, Reads, wireVars, Live
    <3> QED
      BY <2>1, <3>1, StreamSame
  <2>3. CASE ReadHeaderCut \/ RefuseRequest \/ WriteFails \/ Crash
    <3>1. UNCHANGED <<down, m_events, resVars>> /\ (Live' => Live)
      BY <2>3 DEF ReadHeaderCut, RefuseRequest, WriteFails, Crash, End, wireVars, Live
    <3> QED
      BY <2>1, <3>1, StreamSame
  <2>4. CASE \E size \in ResponseSizes: HandleRequest(size)
    BY <1>6, <2>4, StreamRequest
  <2>5. CASE \E nd, nc \in 0..(HeaderSize + Max(ResponseSizes)): HandleWrite(nd, nc)
    <3>1. PICK nd \in 0..(HeaderSize + Max(ResponseSizes)), nc \in 0..(HeaderSize + Max(ResponseSizes)):
              HandleWrite(nd, nc)
      BY <2>5
    <3>2. nd \in Nat /\ nc \in Nat
      BY <3>1
    <3> QED
      BY <1>6, <3>1, <3>2, StreamWrite
  <2> QED
    BY <1>6, <2>2, <2>3, <2>4, <2>5 DEF ServerStep, Respond
<1>7. CASE UNCHANGED vars
  <2>1. Same /\ call' = call /\ Live' = Live
    BY <1>7 DEF vars, clientVars, objectVars, historyVars, serverVars, wireVars, Live
  <2> QED
    BY <2>1, StreamSame
<1> QED
  BY <1>1, <1>2, <1>3, <1>4, <1>5, <1>6, <1>7 DEF Next, ClientStep
-----------------------------------------------------------------------------
(* The theorems                                                            *)

LEMMA ServerStepIInv == IInv /\ ServerStep /\ UNCHANGED clientVars => IInv'
<1> SUFFICES ASSUME IInv, ServerStep, UNCHANGED clientVars PROVE IInv'
  OBVIOUS
<1>1. CASE \E n \in 0..Len(up): read_vars(n) \/ read_content(n)
  BY <1>1, read_varsStep, read_contentStep
<1>2. CASE ParseVar \/ ParseText \/ ParseJunk \/ ParseEnd
  BY <1>2, ParseVarStep, ParseTextStep, ParseJunkStep, ParseEndStep
<1>3. CASE ReadHeader \/ ReadEnds \/ ReadHeaderCut
  BY <1>3, ReadHeaderStep, ReadEndsStep, ReadHeaderCutStep
<1>4. CASE \E size \in ResponseSizes: HandleRequest(size)
  BY <1>4, HandleRequestStep
<1>5. CASE \E nd, nc \in 0..(HeaderSize + Max(ResponseSizes)): HandleWrite(nd, nc)
  <2>1. PICK nd \in 0..(HeaderSize + Max(ResponseSizes)), nc \in 0..(HeaderSize + Max(ResponseSizes)):
            HandleWrite(nd, nc)
    BY <1>5
  <2>2. nd \in Nat /\ nc \in Nat
    BY <2>1
  <2> QED
    BY <2>1, <2>2, HandleWriteStep
<1>6. CASE RefuseRequest \/ WriteFails \/ Crash
  BY <1>6, RefuseRequestStep, WriteFailsStep, CrashStep
<1> QED
  BY <1>1, <1>2, <1>3, <1>4, <1>5, <1>6 DEF ServerStep, Receive, Respond

LEMMA NextIInv == SizesFit /\ IInv /\ [Next]_vars => IInv'
<1> SUFFICES ASSUME SizesFit, IInv, [Next]_vars PROVE IInv'
  OBVIOUS
<1>1. CASE Open \/ OpenFails \/ Close \/ NewClient
  BY <1>1, OpenStep, OpenFailsStep, CloseStep, NewClientStep
<1>2. CASE \E list \in VarLists, size \in ContentSizes: Flush(list, size)
  BY <1>2, FlushStep
<1>3. CASE ClientStep
  <2>1. CASE WriteHeaders \/ WriteContent \/ FlushWriteFails
    BY <2>1, WriteHeadersStep, WriteContentStep, FlushWriteFailsStep
  <2>2. CASE \E n \in 1..Len(down), full \in BOOLEAN: ReadResponse(n, full)
    BY <2>2, ReadResponseStep
  <2>3. CASE FlushReadFails \/ FlushReturns
    BY <2>3, FlushReadFailsStep, FlushReturnsStep
  <2> QED
    BY <1>3, <2>1, <2>2, <2>3 DEF ClientStep
<1>4. CASE readEnd \/ OnewayReturns
  BY <1>4, readEndStep, OnewayReturnsStep
<1>5. CASE ServerStep /\ UNCHANGED clientVars
  BY <1>5, ServerStepIInv
<1>6. CASE UNCHANGED vars
  <2>1. UNCHANGED <<call, calls, connected, objectVars, historyVars, serverVars>>
    BY <1>6 DEF vars, clientVars
  <2>2. TypeOK'
    BY <2>1 DEF IInv, TypeOK, ServerTypeOK, objectVars, requestVars, historyVars, serverVars, wireVars, reqVars, resVars,
                Response!BaseTypeOK
  <2>3. ClientPart'
    BY <2>1 DEF IInv, ClientPart, Untouched, Live, objectVars, requestVars, historyVars, serverVars, wireVars, reqVars, resVars
  <2>4. ReplyPart'
    BY <2>1 DEF IInv, ReplyPart, Ours, objectVars, requestVars, historyVars, serverVars, wireVars, resVars
  <2> QED
    BY <2>1, <2>2, <2>3, <2>4, CallMoves
<1> QED
  BY <1>1, <1>2, <1>3, <1>4, <1>5, <1>6 DEF Next

\* The inductive invariant: what is in flight and in the buffers of both sides is
\* the part of a request, and of its answer, that the places of client and
\* server say.
THEOREM Invariant ==
    ASSUME SizesFit
    PROVE  Spec => []IInv
<1>1. Init => IInv
  BY InitIInv
<1>2. IInv /\ [Next]_vars => IInv'
  BY NextIInv
<1> QED
  BY <1>1, <1>2, PTL DEF Spec

\* Every state of client and server has its types: read_data and parse_vars put
\* nothing but words of the stream into m_data, m_headers and m_content.
THEOREM TypeCorrect ==
    ASSUME SizesFit
    PROVE  Spec => []TypeOK
<1>1. IInv => TypeOK
  BY DEF IInv
<1> QED
  BY <1>1, Invariant, PTL

\* handle_request finds the variables and the content that prepare_data_buffer
\* wrote, wherever the stream is cut; parse_vars meets text for a length, and
\* the task an end of the stream, only where SeenAsSent says so.
THEOREM RequestSeenAsSent ==
    ASSUME SizesFit
    PROVE  Spec => []SeenAsSent
<1>1. IInv => SeenAsSent
  <2> SUFFICES ASSUME IInv PROVE SeenAsSent
    OBVIOUS
  <2>1. ASSUME at = "request", clean, fresh
        PROVE  [vars |-> m_headers, content |-> m_content] = asked /\ up = <<>>
    <3>1. m_content = asked.content /\ up = <<>>
      BY <2>1, HandledContent
    <3>2. m_headers = asked.vars
      BY <2>1, Handled DEF Request
    <3>3. asked = [vars |-> asked.vars, content |-> asked.content]
      BY DEF IInv, ContentPart
    <3> QED
      BY <3>1, <3>2, <3>3, Zenon
  <2>2. (outcome = "error" => ~clean) /\ (outcome = "closed" /\ modifier1 = 0 => closed)
    BY DEF IInv, OutcomePart
  <2> QED
    BY <2>1, <2>2 DEF SeenAsSent
<1> QED
  BY <1>1, Invariant, PTL

\* flush returns with every word of the answer that the server made for this
\* call and with no word of another, unless the object was used before or the
\* response was DONE before its headers ended.
THEOREM ReplyOurs ==
    ASSUME SizesFit
    PROVE  Spec => []ReplyIsOurs
<1>1. Spec => []StreamPart
  <2>1. Init => StreamPart
    BY InitStream
  <2>2. IInv /\ StreamPart /\ [Next]_vars => StreamPart'
    BY NextStream
  <2> QED
    BY <2>1, <2>2, Invariant, PTL DEF Spec
<1>2. IInv /\ StreamPart => ReplyIsOurs
  <2> SUFFICES ASSUME IInv, StreamPart, call = "returned", fresh, ~misread
               PROVE  /\ got = reply
                      /\ \A i \in DOMAIN got: got[i][1] = "body" =>
                            got[i][2] = IF asked.content = <<>> THEN 0 ELSE calls
    BY DEF ReplyIsOurs
  <2>1. done /\ Ours(got)
    BY DEF IInv, ReplyPart
  <2>2. Streamed
    BY <2>1 DEF StreamPart
  <2>3. got \in Seq(Words) /\ reply \in Seq(Words) /\ DOMAIN got = 1..Len(got)
    BY DEF IInv, TypeOK, ServerTypeOK
  <2>4. Len(got) = Len(reply) /\ \A i \in 1..Len(got): got[i] = reply[i]
    BY <2>1, <2>2 DEF Streamed
  <2>5. got = reply
    BY <2>3, <2>4, SameList
  <2> QED
    BY <2>1, <2>3, <2>5, Zenon DEF Ours
<1> QED
  BY <1>1, <1>2, Invariant, PTL
=============================================================================
