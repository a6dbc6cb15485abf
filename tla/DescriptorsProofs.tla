------------------------- MODULE DescriptorsProofs -------------------------
(***************************************************************************)
(* Theorems about Descriptors, for any number of objects of each kind and  *)
(* any descriptor table.                                                   *)
(***************************************************************************)
EXTENDS Descriptors, TLAPS

\* The files of datagram sockets and of terminals are of their kind.
FilesPart ==
    \A f \in Fds: file[f] # None =>
        /\ file[f].by \in Datagrams => file[f].kind = "dgram"
        /\ file[f].by \in Terms => file[f].kind = "tty" /\ file[f].nonblock

\* An object without a life has no descriptor.
LifePart == \A o \in Objects: life[o] = "none" => m_fd[o] = NoFd

\* Only an application's datagram socket may block.
BlockingPart == \A s \in Sockets: m_blocking[s] => s \in Datagrams

\* No loop watches o, nor has it been asked to.
Idle(o) == ~m_io[o].active /\ queue[o]["start"] = 0

\* The watcher of o has the descriptor of o, which is ready.
Fit(o) == m_io[o].fd = m_fd[o] /\ Ready(o)

\* A task that is not astray.  A watcher is listed under the descriptor it has; it
\* is started, and a handler that may start it runs, only while its descriptor is
\* ready.  A sender without a connection is not watched, and the only handler that
\* runs while send() connects is the one that has called it.
Sound(o) ==
    /\ watch[o] = IF m_io[o].active THEN {m_io[o].fd} ELSE {}
    /\ ~Idle(o) => Fit(o)
    /\ life[o] # "added" => Idle(o)
    /\ o \in Senders =>
        /\ life[o] # "added" => busy[o] = 0
        /\ busy[o] > 0 /\ ~failed[o] /\ send[o] # "connect" => Fit(o)
        /\ send[o] = "connect" => busy[o] <= Sending(o)
        /\ send[o] = "connect" \/ failed[o] => Idle(o)

\* Assertions are needed: without them an acceptor that could not listen is
\* watched all the same.
WatchPart == ~NDebug /\ ~aborted => \A o \in Tasks \ astray: Sound(o)

IInv ==
    /\ TypeOK /\ OwnFile /\ NothingLost /\ FilesPart
    /\ LifePart /\ BlockingPart /\ TermSettled /\ WatchPart
-----------------------------------------------------------------------------
(* What the operations do to the descriptor table                          *)

\* What holds of the table and of m_fd.
TablePart ==
    /\ file \in [Fds -> Files \cup {None}]
    /\ m_fd \in [Objects -> Fds \cup {NoFd}]
    /\ OwnFile /\ NothingLost /\ FilesPart

\* A step of object o leaves the descriptors of the others, and their files, alone.
Others(o) ==
    \A p \in Objects \ {o}:
        /\ m_fd'[p] = m_fd[p]
        /\ m_fd[p] # NoFd => file'[m_fd[p]] = file[m_fd[p]]

\* A step is about one object.
OneObject == \E o \in Objects: Others(o)

\* A file that may be lost: an object of this kind forgets it without closing it.
MayLose(o) ==
    \/ m_fd[o] = NoFd
    \/ o \in Datagrams /\ file[m_fd[o]].use = "new"
    \/ o \in Terms /\ o \in reopened'

\* The exceptions of NothingLost.
Excused(x, terms) ==
    \/ x.use = "shut"
    \/ x.kind = "dgram" /\ x.use = "new"
    \/ x.kind = "tty" /\ x.by \in terms

\* NothingLost, in terms of its exceptions.
LEMMA LostExcused ==
    NothingLost <=>
        \A f \in Fds: file[f] # None /\ m_fd[file[f].by] # f => Excused(file[f], reopened)
BY DEF NothingLost, Excused

\* The same after a step.
LEMMA LostExcusedNext ==
    NothingLost' <=>
        \A f \in Fds: file'[f] # None /\ m_fd'[file'[f].by] # f => Excused(file'[f], reopened')
BY DEF NothingLost, Excused

\* What object o had may be lost.
LEMMA LoseExcused ==
    ASSUME TablePart, NEW o \in Objects, MayLose(o), m_fd[o] # NoFd
    PROVE  Excused(file[m_fd[o]], reopened')
BY DescriptorsAssumption DEF MayLose, Excused, TablePart, OwnFile, FilesPart

\* The files that were lost before a step are excused after it.
LEMMA StayExcused ==
    ASSUME TablePart, reopened \subseteq reopened',
           NEW g \in Fds, file[g] # None, m_fd[file[g].by] # g
    PROVE  Excused(file[g], reopened')
BY LostExcused DEF Excused, TablePart

\* An object opens a file x at a free descriptor.
LEMMA OpenKeepsTable ==
    ASSUME TablePart, NEW o \in Objects, NEW f \in Fds, NEW x \in Files,
           MayLose(o), reopened \subseteq reopened',
           file[f] = None, x.by = o, o \in Datagrams => x.kind = "dgram",
           o \in Terms => x.kind = "tty" /\ x.nonblock,
           file' = [file EXCEPT ![f] = x], m_fd' = [m_fd EXCEPT ![o] = f]
    PROVE  TablePart' /\ Others(o)
<1> USE DescriptorsAssumption, NoFileAssumption
<1>1. file' \in [Fds -> Files \cup {None}] /\ m_fd' \in [Objects -> Fds \cup {NoFd}]
  BY DEF TablePart
<1>2. OwnFile'
  BY <1>1 DEF OwnFile, TablePart
<1>3. ASSUME NEW g \in Fds, file'[g] # None, m_fd'[file'[g].by] # g
      PROVE  Excused(file'[g], reopened')
  <2>1. g # f /\ file'[g] = file[g]
    BY <1>3 DEF TablePart
  <2>2. file[g] \in Files /\ file[g].by \in Objects
    BY <1>3, <2>1 DEF TablePart, Files
  <2>3. CASE g = m_fd[o]
    BY <2>1, <2>3, LoseExcused
  <2>4. CASE g # m_fd[o]
    <3>1. m_fd[file[g].by] # g
      BY <1>3, <2>1, <2>2, <2>4 DEF TablePart
    <3> QED
      BY <1>3, <2>1, <3>1, StayExcused
  <2> QED
    BY <2>3, <2>4
<1>4. NothingLost'
  BY <1>3, LostExcusedNext
<1>5. FilesPart'
  BY DEF FilesPart, TablePart
<1>6. Others(o)
  BY DEF Others, OwnFile, TablePart
<1> QED
  BY <1>1, <1>2, <1>4, <1>5, <1>6 DEF TablePart

\* An object forgets its descriptor, if it has one.
LEMMA ForgetKeepsTable ==
    ASSUME TablePart, NEW o \in Objects, MayLose(o), reopened \subseteq reopened',
           file' = file, m_fd' = [m_fd EXCEPT ![o] = NoFd]
    PROVE  TablePart' /\ Others(o)
<1> USE DescriptorsAssumption, NoFileAssumption
<1>1. m_fd' \in [Objects -> Fds \cup {NoFd}]
  BY DEF TablePart
<1>2. OwnFile'
  BY <1>1 DEF OwnFile, TablePart
<1>3. ASSUME NEW g \in Fds, file[g] # None, m_fd'[file[g].by] # g
      PROVE  Excused(file[g], reopened')
  <2>1. file[g].by \in Objects
    BY <1>3 DEF TablePart, Files
  <2>2. CASE g = m_fd[o]
    BY <2>2, LoseExcused
  <2>3. CASE g # m_fd[o]
    <3>1. m_fd[file[g].by] # g
      BY <1>3, <2>1, <2>3 DEF TablePart
    <3> QED
      BY <1>3, <3>1, StayExcused
  <2> QED
    BY <2>2, <2>3
<1>4. NothingLost'
  BY <1>3, LostExcusedNext
<1> QED
  BY <1>1, <1>2, <1>4 DEF TablePart, FilesPart, Others

\* Nothing happens to the table.
LEMMA SameTable ==
    ASSUME TablePart, reopened \subseteq reopened', NEW o \in Objects, file' = file, m_fd' = m_fd
    PROVE  TablePart' /\ Others(o)
<1>1. NothingLost'
  BY LostExcusedNext, StayExcused
<1> QED
  BY <1>1 DEF TablePart, OwnFile, FilesPart, Others

\* An object closes the file it has, if any.
LEMMA CloseKeepsTable ==
    ASSUME TablePart, reopened \subseteq reopened', NEW o \in Objects, close(o)
    PROVE  TablePart' /\ Others(o)
<1> USE DescriptorsAssumption, NoFileAssumption
<1>1. /\ m_fd' = [m_fd EXCEPT ![o] = NoFd]
      /\ file' = [f \in Fds |-> IF f = m_fd[o] THEN None ELSE file[f]]
  BY DEF close, Closed
<1>2. file' \in [Fds -> Files \cup {None}] /\ m_fd' \in [Objects -> Fds \cup {NoFd}]
  BY <1>1 DEF TablePart
<1>3. OwnFile'
  BY <1>1, <1>2 DEF OwnFile, TablePart
<1>4. ASSUME NEW g \in Fds, file'[g] # None, m_fd'[file'[g].by] # g
      PROVE  Excused(file'[g], reopened')
  <2>1. file'[g] = file[g] /\ g # m_fd[o]
    BY <1>1, <1>4
  <2>2. file[g].by \in Objects
    BY <1>4, <2>1 DEF TablePart, Files
  <2>3. m_fd[file[g].by] # g
    BY <1>1, <1>4, <2>1, <2>2 DEF TablePart
  <2> QED
    BY <1>4, <2>1, <2>3, StayExcused
<1>5. NothingLost'
  BY <1>4, LostExcusedNext
<1>6. FilesPart'
  BY <1>1 DEF FilesPart, TablePart
<1>7. Others(o)
  BY <1>1 DEF Others, OwnFile, TablePart
<1> QED
  BY <1>2, <1>3, <1>5, <1>6, <1>7 DEF TablePart

\* shutdown() forgets a descriptor, and marks its file.
LEMMA ShutdownKeepsTable ==
    ASSUME TablePart, reopened \subseteq reopened', NEW o \in Objects, shutdown(o)
    PROVE  TablePart' /\ Others(o)
<1> USE DescriptorsAssumption, NoFileAssumption
<1>1. /\ file' = [f \in Fds |-> IF f = m_fd[o] THEN [file[f] EXCEPT !.use = "shut"]
                                        ELSE file[f]]
      /\ m_fd' = [m_fd EXCEPT ![o] = NoFd]
  BY DEF shutdown
<1>2. ASSUME NEW f \in Fds
      PROVE  /\ f # m_fd[o] => file'[f] = file[f]
             /\ f = m_fd[o] => /\ file[f] \in Files /\ file'[f] \in Files
                               /\ file'[f].by = file[f].by /\ file'[f].kind = file[f].kind
                               /\ file'[f].nonblock = file[f].nonblock
                               /\ file'[f].use = "shut"
  <2>1. CASE f # m_fd[o]
    BY <1>1, <2>1
  <2>2. CASE f = m_fd[o]
    <3>1. file[f] \in Files
      BY <2>2 DEF OwnFile, TablePart
    <3> QED
      BY <1>1, <2>2, <3>1 DEF Files
  <2> QED
    BY <2>1, <2>2
<1>3. file' \in [Fds -> Files \cup {None}] /\ m_fd' \in [Objects -> Fds \cup {NoFd}]
  <2>1. \A f \in Fds: file'[f] \in Files \cup {None}
    BY <1>2 DEF TablePart
  <2> QED
    BY <1>1, <2>1 DEF TablePart
<1>4. OwnFile'
  BY <1>1, <1>2 DEF OwnFile, TablePart
<1>5. ASSUME NEW g \in Fds, file'[g] # None, m_fd'[file'[g].by] # g
      PROVE  Excused(file'[g], reopened')
  <2>1. CASE g = m_fd[o]
    BY <1>2, <2>1 DEF Excused
  <2>2. CASE g # m_fd[o]
    <3>1. file'[g] = file[g]
      BY <1>2, <2>2
    <3>2. file[g].by \in Objects
      BY <1>5, <3>1 DEF TablePart, Files
    <3>3. m_fd[file[g].by] # g
      BY <1>1, <1>5, <2>2, <3>1, <3>2 DEF TablePart
    <3> QED
      BY <1>5, <3>1, <3>3, StayExcused
  <2> QED
    BY <2>1, <2>2
<1>6. NothingLost'
  BY <1>5, LostExcusedNext
<1>7. FilesPart'
  BY <1>2 DEF FilesPart, TablePart
<1>8. Others(o)
  BY <1>1, <1>2 DEF Others, OwnFile, TablePart
<1> QED
  BY <1>3, <1>4, <1>6, <1>7, <1>8 DEF TablePart

\* What a list of calls that do not fail leaves: acceptors listen, senders are
\* connected, and neither blocks.
LEMMA AllCalls ==
    ASSUME NEW fail
    PROVE  /\ \A calls \in {ListenPath, ListenPort}: Ok(calls, fail) =>
                 /\ {"socket", "fcntl"} \subseteq Done(calls, fail)
                 /\ UseAfter(Done(calls, fail)) = "listening"
           /\ \A calls \in {ConnectPath, ConnectHost}: Ok(calls, fail) =>
                 /\ {"socket", "fcntl"} \subseteq Done(calls, fail)
                 /\ UseAfter(Done(calls, fail)) = "connected"
<1>1. ASSUME NEW calls, NEW n \in Nat, DOMAIN calls = 1..n, Ok(calls, fail)
      PROVE  Done(calls, fail) = {calls[i]: i \in DOMAIN calls}
  <2>1. \A j \in DOMAIN calls: \A k \in 1..j: calls[k] # fail
    BY <1>1 DEF Ok
  <2> QED
    BY <2>1 DEF Done
<1>2. Ok(ListenPath, fail) =>
        Done(ListenPath, fail) = {"socket", "fcntl", "bind", "chmod", "listen"}
  <2>1. /\ DOMAIN ListenPath = 1..5
        /\ {ListenPath[i]: i \in DOMAIN ListenPath} =
             {"socket", "fcntl", "bind", "chmod", "listen"}
    BY DEF ListenPath
  <2> QED
    BY <1>1, <2>1
<1>3. Ok(ListenPort, fail) =>
        Done(ListenPort, fail) = {"socket", "sockopt", "fcntl", "bind", "listen"}
  <2>1. /\ DOMAIN ListenPort = 1..5
        /\ {ListenPort[i]: i \in DOMAIN ListenPort} =
             {"socket", "sockopt", "fcntl", "bind", "listen"}
    BY DEF ListenPort
  <2> QED
    BY <1>1, <2>1
<1>4. Ok(ConnectPath, fail) =>
        Done(ConnectPath, fail) = {"socket", "connect", "fcntl"}
  <2>1. /\ DOMAIN ConnectPath = 1..3
        /\ {ConnectPath[i]: i \in DOMAIN ConnectPath} =
             {"socket", "connect", "fcntl"}
    BY DEF ConnectPath
  <2> QED
    BY <1>1, <2>1
<1>5. Ok(ConnectHost, fail) =>
        Done(ConnectHost, fail) = {"resolve", "socket", "connect", "fcntl"}
  <2>1. /\ DOMAIN ConnectHost = 1..4
        /\ {ConnectHost[i]: i \in DOMAIN ConnectHost} =
             {"resolve", "socket", "connect", "fcntl"}
    BY DEF ConnectHost
  <2> QED
    BY <1>1, <2>1
<1> QED
  BY <1>1, <1>2, <1>3, <1>4, <1>5 DEF UseAfter

\* Object o gets a descriptor for a new file, as the calls left it.
Opens(o, kind, done) ==
    \E f \in Fds, x \in Files:
        /\ file[f] = None
        /\ x.by = o /\ x.kind = kind /\ x.use = UseAfter(done)
        /\ x.nonblock = ("fcntl" \in done /\ ~m_blocking[o])
        /\ file' = [file EXCEPT ![f] = x] /\ m_fd' = [m_fd EXCEPT ![o] = f]

\* Object o is left without a descriptor.
Forgets(o) == file' = file /\ m_fd' = [m_fd EXCEPT ![o] = NoFd]

\* Run opens a file for o, unless its socket call fails.
LEMMA RunEffect ==
    ASSUME TypeOK, NEW o \in Sockets, NEW kind \in {"stream", "dgram"},
           NEW calls, NEW fail, Run(o, kind, calls, fail)
    PROVE  \/ Opens(o, kind, Done(calls, fail))
           \/ "socket" \notin Done(calls, fail) /\ Forgets(o)
<1> DEFINE done == Done(calls, fail)
           x == [kind |-> kind, by |-> o, use |-> UseAfter(done),
                 nonblock |-> "fcntl" \in done /\ ~m_blocking[o]]
<1>1. x \in Files
  BY DEF Files, UseAfter, TypeOK, Objects
<1>2. CASE "socket" \in done
  <2>1. PICK f \in Fds: /\ file[f] = None /\ file' = [file EXCEPT ![f] = x]
                        /\ m_fd' = [m_fd EXCEPT ![o] = f]
    BY <1>2 DEF Run
  <2> QED
    BY <1>1, <1>2, <2>1 DEF Opens
<1>3. CASE "socket" \notin done
  BY <1>3 DEF Run, Forgets
<1> QED
  BY <1>2, <1>3

\* Running a list of calls keeps the table, however far it gets.
LEMMA RunKeepsTable ==
    ASSUME TypeOK, TablePart, NEW o \in Sockets, MayLose(o), reopened' = reopened,
           NEW kind \in {"stream", "dgram"}, o \in Datagrams => kind = "dgram",
           NEW calls, NEW fail, Run(o, kind, calls, fail)
    PROVE  TablePart' /\ Others(o)
<1>1. o \in Objects /\ o \notin Terms
  BY KindsAssumption DEF Objects, Sockets
<1>2. CASE Forgets(o)
  BY <1>1, <1>2, ForgetKeepsTable DEF Forgets
<1>3. CASE Opens(o, kind, Done(calls, fail))
  <2>1. PICK f \in Fds, x \in Files:
           /\ file[f] = None /\ x.by = o /\ x.kind = kind
           /\ file' = [file EXCEPT ![f] = x] /\ m_fd' = [m_fd EXCEPT ![o] = f]
    BY <1>3 DEF Opens
  <2> QED
    BY <1>1, <2>1, OpenKeepsTable
<1> QED
  BY <1>2, <1>3, RunEffect

\* What an acceptor or a sender has after calls that do not fail is ready.
LEMMA RunReady ==
    ASSUME TypeOK, BlockingPart, NEW o \in Acceptors \cup Senders, NEW fail,
           NEW calls \in IF o \in Acceptors THEN {ListenPath, ListenPort}
                                            ELSE {ConnectPath, ConnectHost},
           Run(o, "stream", calls, fail), Ok(calls, fail)
    PROVE  Ready(o)'
<1> USE KindsAssumption DEF Sockets
<1>1. /\ {"socket", "fcntl"} \subseteq Done(calls, fail)
      /\ UseAfter(Done(calls, fail)) = IF o \in Acceptors THEN "listening" ELSE "connected"
  BY AllCalls
<1>2. Opens(o, "stream", Done(calls, fail))
  BY <1>1, RunEffect
<1>3. PICK f \in Fds, x \in Files:
         /\ x.use = IF o \in Acceptors THEN "listening" ELSE "connected"
         /\ x.nonblock
         /\ file' = [file EXCEPT ![f] = x] /\ m_fd' = [m_fd EXCEPT ![o] = f]
  BY <1>1, <1>2 DEF Opens, BlockingPart
<1>4. m_fd'[o] = f /\ file'[f] = x /\ f # NoFd
  BY <1>3, DescriptorsAssumption DEF TypeOK, Objects
<1> QED
  BY <1>3, <1>4 DEF Ready
-----------------------------------------------------------------------------
(* What the operations do to the watchers                                  *)

QueueType == [Tasks -> [Functors -> Nat]]

\* A functor is added to the queue of one task.
LEMMA QueueEffect ==
    ASSUME queue \in QueueType, NEW o \in Tasks, NEW f \in Functors, Queue(o, f)
    PROVE  /\ queue' \in QueueType
           /\ \A p \in Tasks \ {o}: queue'[p] = queue[p]
           /\ \A g \in Functors \ {f}: queue'[o][g] = queue[o][g]
           /\ queue'[o][f] > 0
BY DEF Queue, QueueType

\* A functor is taken from the queue of one task.
LEMMA TakeEffect ==
    ASSUME queue \in QueueType, NEW o \in Tasks, NEW f \in Functors, Take(o, f)
    PROVE  /\ queue' \in QueueType /\ queue[o][f] > 0
           /\ \A p \in Tasks \ {o}: queue'[p] = queue[p]
           /\ \A g \in Functors \ {f}: queue'[o][g] = queue[o][g]
<1>1. queue[o][f] \in Nat /\ queue[o][f] - 1 \in Nat
  BY DEF Take, QueueType
<1> QED
  BY <1>1 DEF Take, QueueType

WatcherType == [Tasks -> [fd: Fds \cup {NoFd}, active: BOOLEAN]]

\* A watcher whose descriptor or activity is set is a watcher.
LEMMA WatcherSet ==
    ASSUME m_io \in WatcherType, NEW o \in Tasks, NEW fd \in Fds \cup {NoFd}, NEW b \in BOOLEAN
    PROVE  /\ [m_io EXCEPT ![o].fd = fd] \in WatcherType
           /\ [m_io EXCEPT ![o].active = b] \in WatcherType
BY DEF WatcherType

\* A step of o leaves the watchers of the others, and their handlers, alone.
Frame(o) ==
    /\ \A p \in Tasks \ {o}:
          /\ m_io'[p] = m_io[p] /\ watch'[p] = watch[p] /\ queue'[p] = queue[p]
          /\ life'[p] = life[p] /\ (p \in astray' <=> p \in astray)
    /\ \A p \in Senders \ {o}:
          /\ busy'[p] = busy[p] /\ send'[p] = send[p]
          /\ inside'[p] = inside[p] /\ failed'[p] = failed[p]

\* What holds of the watcher of another object stays so.
LEMMA OthersSound ==
    ASSUME NEW o \in Objects, NEW p \in Tasks \ {o}, Others(o), Frame(o), Sound(p)
    PROVE  Sound(p)'
<1>1. p \in Objects
  BY DEF Tasks, Objects, Sockets
<1>2. Ready(p) => Ready(p)'
  BY <1>1 DEF Others, Ready
<1>3. /\ m_io'[p] = m_io[p] /\ watch'[p] = watch[p] /\ queue'[p] = queue[p]
      /\ life'[p] = life[p] /\ m_fd'[p] = m_fd[p]
  BY <1>1 DEF Frame, Others
<1>4. (Fit(p) => Fit(p)') /\ (Idle(p) <=> Idle(p)')
  BY <1>2, <1>3 DEF Fit, Idle
<1>5. CASE p \notin Senders
  BY <1>3, <1>4, <1>5 DEF Sound
<1>6. CASE p \in Senders
  <2>1. /\ busy'[p] = busy[p] /\ send'[p] = send[p] /\ failed'[p] = failed[p]
        /\ Sending(p)' = Sending(p)
    BY <1>6 DEF Frame, Sending
  <2> QED
    BY <1>3, <1>4, <2>1 DEF Sound
<1> QED
  BY <1>5, <1>6

\* So only the watcher of the object of a step needs a look.
LEMMA WatchStep ==
    ASSUME WatchPart, ~aborted, NEW o \in Objects, Others(o), Frame(o),
           o \in Tasks /\ o \notin astray' /\ ~NDebug /\ ~aborted' => Sound(o)'
    PROVE  WatchPart'
<1> SUFFICES ASSUME ~NDebug, ~aborted', NEW p \in Tasks, p \notin astray' PROVE Sound(p)'
  BY DEF WatchPart
<1>1. CASE p = o
  BY <1>1
<1>2. CASE p # o
  <2>1. p \notin astray
    BY <1>2 DEF Frame
  <2>2. Sound(p)
    BY <2>1 DEF WatchPart
  <2> QED
    BY <1>2, <2>2, OthersSound
<1> QED
  BY <1>1, <1>2

\* A task that is added is sound if its watcher was idle and its descriptor is ready.
LEMMA AddSound ==
    ASSUME TypeOK, NEW o \in Tasks, Add(o), Sound(o), Idle(o), Ready(o)',
           o \in Senders => send'[o] # "connect" /\ ~failed'[o]
    PROVE  Sound(o)'
<1>1. m_io'[o].fd = m_fd'[o] /\ m_io'[o].active = m_io[o].active /\ watch' = watch
  BY DEF Add, TypeOK
<1>2. life'[o] = "added"
  BY DEF Add, Become, TypeOK, Tasks, Objects, Sockets
<1>3. Fit(o)'
  BY <1>1 DEF Fit
<1> QED
  BY <1>1, <1>2, <1>3 DEF Sound, Idle
-----------------------------------------------------------------------------
(* Every operation keeps the invariant                                     *)

\* An acceptor that is watched listens: it would have aborted otherwise.
LEMMA NewAcceptorStep ==
    ASSUME IInv, ~aborted, app' = app, NEW a \in Acceptors,
           NEW calls \in {ListenPath, ListenPort}, NEW fail,
           NewAcceptor(a, calls, fail)
    PROVE  IInv' /\ OneObject
<1> USE KindsAssumption, DescriptorsAssumption, NoFileAssumption
    DEF Tasks, Objects, Sockets, socketVars, watcherVars, sendVars, senderVars, termVars
<1>1. /\ TypeOK /\ TablePart /\ LifePart /\ BlockingPart /\ TermSettled /\ WatchPart
      /\ a \in Objects
  BY DEF IInv, TypeOK, TablePart
<1>2. TablePart' /\ Others(a)
  BY <1>1, RunKeepsTable DEF NewAcceptor, LifePart, MayLose
<1>3. /\ queue' \in QueueType
      /\ \A p \in Tasks \ {a}: queue'[p] = queue[p]
  BY <1>1, QueueEffect DEF NewAcceptor, Add, TypeOK, QueueType, Functors
<1>4. TypeOK'
  <2>1. m_io' \in WatcherType
    BY <1>1, <1>2, WatcherSet DEF TypeOK, TablePart, WatcherType, NewAcceptor, Add, Become,
       AssertThat
  <2> QED
    BY <1>1, <1>2, <1>3, <2>1 DEF TypeOK, TablePart, QueueType, WatcherType, NewAcceptor, Add,
       Become, AssertThat
<1>5. LifePart' /\ BlockingPart' /\ TermSettled'
  BY <1>1, <1>2, <1>4 DEF LifePart, BlockingPart, TermSettled, Others, TypeOK, NewAcceptor, Add,
     Become, AssertThat
<1>6. Frame(a)
  BY <1>1, <1>2, <1>3 DEF Frame, TypeOK, QueueType, NewAcceptor, Add, Become, AssertThat
<1>7. ASSUME a \notin astray', ~NDebug, ~aborted' PROVE Sound(a)'
  <2>1. Sound(a)
    BY <1>1, <1>7 DEF WatchPart, NewAcceptor
  <2>2. Ok(calls, fail) /\ Run(a, "stream", calls, fail) /\ Add(a)
    BY <1>7 DEF NewAcceptor, AssertThat
  <2>3. Ready(a)'
    BY <1>1, <2>2, RunReady
  <2>4. Idle(a)
    BY <2>1 DEF NewAcceptor, Sound
  <2> QED
    BY <1>1, <2>1, <2>2, <2>3, <2>4, AddSound
<1>8. WatchPart'
  BY <1>1, <1>2, <1>6, <1>7, WatchStep
<1> QED
  BY <1>2, <1>4, <1>5, <1>8 DEF IInv, TablePart, OneObject

\* The task of a client is added with the socket that accept returned.
LEMMA AcceptStep ==
    ASSUME IInv, ~aborted, app' = app, NEW a \in Acceptors, NEW c \in Clients,
           Accept(a, c)
    PROVE  IInv' /\ OneObject
<1> USE KindsAssumption, DescriptorsAssumption, NoFileAssumption
    DEF Tasks, Objects, Sockets, socketVars, watcherVars, sendVars, senderVars, termVars
<1>1. /\ TypeOK /\ TablePart /\ LifePart /\ BlockingPart /\ TermSettled /\ WatchPart
      /\ c \in Objects
  BY DEF IInv, TypeOK, TablePart
<1>2. TablePart' /\ Others(c)
  <2>1. PICK f \in Fds, nb \in BOOLEAN:
           /\ file[f] = None
           /\ file' = [file EXCEPT ![f] =
                 [kind |-> "stream", by |-> c, use |-> "connected", nonblock |-> nb]]
           /\ m_fd' = [m_fd EXCEPT ![c] = f]
    <3>1. file[m_fd[a]].nonblock \in BOOLEAN
      BY <1>1 DEF Accept, TablePart, OwnFile, Files
    <3> QED
      BY <3>1 DEF Accept, NewClientTask
  <2>2. [kind |-> "stream", by |-> c, use |-> "connected", nonblock |-> nb] \in Files
    BY DEF Files
  <2>3. MayLose(c) /\ reopened' = reopened
    BY <1>1 DEF Accept, LifePart, MayLose
  <2> QED
    BY <1>1, <2>1, <2>2, <2>3, OpenKeepsTable
<1>3. /\ queue' \in QueueType
      /\ \A p \in Tasks \ {c}: queue'[p] = queue[p]
  BY <1>1, QueueEffect DEF Accept, NewClientTask, Add, TypeOK, QueueType, Functors
<1>4. TypeOK'
  <2>1. m_io' \in WatcherType
    BY <1>1, <1>2, WatcherSet DEF TypeOK, TablePart, WatcherType, Accept, NewClientTask, Add,
       Become
  <2> QED
    BY <1>1, <1>2, <1>3, <2>1 DEF TypeOK, TablePart, QueueType, WatcherType, Accept,
       NewClientTask, Add, Become
<1>5. LifePart' /\ BlockingPart' /\ TermSettled'
  BY <1>1, <1>2, <1>4 DEF LifePart, BlockingPart, TermSettled, Others, TypeOK, Accept,
     NewClientTask, Add, Become
<1>6. Frame(c)
  BY <1>1, <1>2, <1>3 DEF Frame, TypeOK, QueueType, Accept, NewClientTask, Add, Become
<1>7. ASSUME c \notin astray', ~NDebug, ~aborted' PROVE Sound(c)'
  <2>1. Sound(c)
    BY <1>1, <1>7 DEF WatchPart, Accept
  <2>2. PICK f \in Fds, nb \in {FALSE, file[m_fd[a]].nonblock}:
           /\ file' = [file EXCEPT ![f] =
                 [kind |-> "stream", by |-> c, use |-> "connected", nonblock |-> nb]]
           /\ m_fd' = [m_fd EXCEPT ![c] = f]
    BY DEF Accept, NewClientTask
  <2>3. m_fd'[c] = f /\ f # NoFd /\ file'[f].use = "connected"
    BY <1>1, <2>2 DEF TypeOK
  <2>4. Ready(c)'
    BY <2>3 DEF Ready
  <2>5. Idle(c) /\ Add(c)
    BY <2>1 DEF Accept, NewClientTask, Sound
  <2> QED
    BY <1>1, <2>1, <2>4, <2>5, AddSound
<1>8. WatchPart'
  BY <1>1, <1>2, <1>6, <1>7, WatchStep
<1> QED
  BY <1>2, <1>4, <1>5, <1>8 DEF IInv, TablePart, OneObject

\* accept() that throws leaves the descriptors alone.
LEMMA AcceptFailsStep ==
    ASSUME IInv, ~aborted, app' = app, NEW a \in Acceptors,
           AcceptFails(a)
    PROVE  IInv' /\ OneObject
<1> USE KindsAssumption, DescriptorsAssumption, NoFileAssumption
    DEF Tasks, Objects, Sockets, socketVars, watcherVars, sendVars, senderVars, termVars
<1>1. /\ TypeOK /\ TablePart /\ LifePart /\ BlockingPart /\ TermSettled /\ WatchPart
      /\ a \in Objects
  BY DEF IInv, TypeOK, TablePart
<1>2. TablePart' /\ Others(a)
  BY <1>1, SameTable DEF AcceptFails
<1>4. TypeOK'
  BY <1>1, <1>2 DEF TypeOK, TablePart, QueueType, AcceptFails, AssertThat
<1>5. LifePart' /\ BlockingPart' /\ TermSettled'
  BY <1>1, <1>2, <1>4 DEF LifePart, BlockingPart, TermSettled, Others, TypeOK, AcceptFails,
     AssertThat
<1>6. Frame(a)
  BY <1>1, <1>2 DEF Frame, TypeOK, QueueType, AcceptFails, AssertThat
<1>7. ASSUME a \notin astray', ~NDebug, ~aborted' PROVE Sound(a)'
  <2>1. Sound(a)
    BY <1>1, <1>7 DEF WatchPart, AcceptFails
  <2> QED
    BY <1>1, <2>1 DEF Sound, Idle, Fit, Ready, Sending, AcceptFails
<1>8. WatchPart'
  BY <1>1, <1>2, <1>6, <1>7, WatchStep
<1> QED
  BY <1>2, <1>4, <1>5, <1>8 DEF IInv, TablePart, OneObject

\* ~acceptor shuts its socket down; the watcher goes with it.
LEMMA DeleteAcceptorStep ==
    ASSUME IInv, ~aborted, app' = app, NEW a \in Acceptors,
           DeleteAcceptor(a)
    PROVE  IInv' /\ OneObject
<1> USE KindsAssumption, DescriptorsAssumption, NoFileAssumption
    DEF Tasks, Objects, Sockets, socketVars, watcherVars, sendVars, senderVars, termVars
<1>1. /\ TypeOK /\ TablePart /\ LifePart /\ BlockingPart /\ TermSettled /\ WatchPart
      /\ a \in Objects
  BY DEF IInv, TypeOK, TablePart
<1>2. TablePart' /\ Others(a)
  BY <1>1, ShutdownKeepsTable DEF DeleteAcceptor
<1>4. TypeOK'
  BY <1>1, <1>2 DEF TypeOK, TablePart, QueueType, DeleteAcceptor, shutdown, Dispose, NewWatcher,
     EmptyQueue, Become
<1>5. LifePart' /\ BlockingPart' /\ TermSettled'
  BY <1>1, <1>2, <1>4 DEF LifePart, BlockingPart, TermSettled, Others, TypeOK, DeleteAcceptor,
     shutdown, Dispose, NewWatcher, EmptyQueue, Become
<1>6. Frame(a)
  BY <1>1, <1>2 DEF Frame, TypeOK, QueueType, DeleteAcceptor, shutdown, Dispose, NewWatcher,
     EmptyQueue, Become
<1>7. ASSUME a \notin astray', ~NDebug, ~aborted' PROVE Sound(a)'
  <2>1. watch'[a] = {} /\ ~m_io'[a].active /\ queue'[a]["start"] = 0
    BY <1>1 DEF DeleteAcceptor, Dispose, NewWatcher, EmptyQueue, Functors, TypeOK
  <2> QED
    BY <1>1, <2>1 DEF Sound, Idle
<1>8. WatchPart'
  BY <1>1, <1>2, <1>6, <1>7, WatchStep
<1> QED
  BY <1>2, <1>4, <1>5, <1>8 DEF IInv, TablePart, OneObject

\* The task of a client closes its socket; the watcher goes with it.
LEMMA DeleteClientStep ==
    ASSUME IInv, ~aborted, app' = app, NEW c \in Clients,
           DeleteClient(c)
    PROVE  IInv' /\ OneObject
<1> USE KindsAssumption, DescriptorsAssumption, NoFileAssumption
    DEF Tasks, Objects, Sockets, socketVars, watcherVars, sendVars, senderVars, termVars
<1>1. /\ TypeOK /\ TablePart /\ LifePart /\ BlockingPart /\ TermSettled /\ WatchPart
      /\ c \in Objects
  BY DEF IInv, TypeOK, TablePart
<1>2. TablePart' /\ Others(c)
  BY <1>1, CloseKeepsTable DEF DeleteClient
<1>4. TypeOK'
  BY <1>1, <1>2 DEF TypeOK, TablePart, QueueType, DeleteClient, close, Dispose, NewWatcher,
     EmptyQueue, Become
<1>5. LifePart' /\ BlockingPart' /\ TermSettled'
  BY <1>1, <1>2, <1>4 DEF LifePart, BlockingPart, TermSettled, Others, TypeOK, DeleteClient,
     close, Dispose, NewWatcher, EmptyQueue, Become
<1>6. Frame(c)
  BY <1>1, <1>2 DEF Frame, TypeOK, QueueType, DeleteClient, close, Dispose, NewWatcher,
     EmptyQueue, Become
<1>7. ASSUME c \notin astray', ~NDebug, ~aborted' PROVE Sound(c)'
  <2>1. watch'[c] = {} /\ ~m_io'[c].active /\ queue'[c]["start"] = 0
    BY <1>1 DEF DeleteClient, Dispose, NewWatcher, EmptyQueue, Functors, TypeOK
  <2> QED
    BY <1>1, <2>1 DEF Sound, Idle
<1>8. WatchPart'
  BY <1>1, <1>2, <1>6, <1>7, WatchStep
<1> QED
  BY <1>2, <1>4, <1>5, <1>8 DEF IInv, TablePart, OneObject

\* A new sender has neither a descriptor nor an active watcher.
LEMMA NewSenderStep ==
    ASSUME IInv, ~aborted, app' = app, NEW s \in Senders,
           NewSender(s)
    PROVE  IInv' /\ OneObject
<1> USE KindsAssumption, DescriptorsAssumption, NoFileAssumption
    DEF Tasks, Objects, Sockets, socketVars, watcherVars, sendVars, senderVars, termVars
<1>1. /\ TypeOK /\ TablePart /\ LifePart /\ BlockingPart /\ TermSettled /\ WatchPart
      /\ s \in Objects
  BY DEF IInv, TypeOK, TablePart
<1>2. TablePart' /\ Others(s)
  BY <1>1, SameTable DEF NewSender
<1>4. TypeOK'
  BY <1>1, <1>2 DEF TypeOK, TablePart, QueueType, NewSender, Become
<1>5. LifePart' /\ BlockingPart' /\ TermSettled'
  BY <1>1, <1>2, <1>4 DEF LifePart, BlockingPart, TermSettled, Others, TypeOK, NewSender, Become
<1>6. Frame(s)
  BY <1>1, <1>2 DEF Frame, TypeOK, QueueType, NewSender, Become
<1>7. ASSUME s \notin astray', ~NDebug, ~aborted' PROVE Sound(s)'
  <2>1. Sound(s)
    BY <1>1, <1>7 DEF WatchPart, NewSender
  <2> QED
    BY <1>1, <2>1 DEF Sound, Idle, Fit, Ready, Sending, NewSender
<1>8. WatchPart'
  BY <1>1, <1>2, <1>6, <1>7, WatchStep
<1> QED
  BY <1>2, <1>4, <1>5, <1>8 DEF IInv, TablePart, OneObject

\* The callback finds a watcher that is active, so its descriptor is ready.
LEMMA FiresStep ==
    ASSUME IInv, ~aborted, app' = app, NEW s \in Senders,
           Fires(s)
    PROVE  IInv' /\ OneObject
<1> USE KindsAssumption, DescriptorsAssumption, NoFileAssumption
    DEF Tasks, Objects, Sockets, socketVars, watcherVars, sendVars, senderVars, termVars
<1>1. /\ TypeOK /\ TablePart /\ LifePart /\ BlockingPart /\ TermSettled /\ WatchPart
      /\ s \in Objects
  BY DEF IInv, TypeOK, TablePart
<1>2. TablePart' /\ Others(s)
  BY <1>1, SameTable DEF Fires
<1>4. TypeOK'
  <2>1. m_io' \in WatcherType
    BY <1>1, <1>2, WatcherSet DEF TypeOK, TablePart, WatcherType, Fires, StopIo, Unlisted
  <2> QED
    BY <1>1, <1>2, <2>1 DEF TypeOK, TablePart, QueueType, WatcherType, Fires, StopIo, Unlisted
<1>5. LifePart' /\ BlockingPart' /\ TermSettled'
  BY <1>1, <1>2, <1>4 DEF LifePart, BlockingPart, TermSettled, Others, TypeOK, Fires, StopIo,
     Unlisted
<1>6. Frame(s)
  BY <1>1, <1>2 DEF Frame, TypeOK, QueueType, Fires, StopIo, Unlisted
<1>7. ASSUME s \notin astray', ~NDebug, ~aborted' PROVE Sound(s)'
  <2>1. Sound(s)
    BY <1>1, <1>7 DEF WatchPart, Fires
  <2>2. m_io[s].active /\ watch[s] = {m_io[s].fd}
    BY <2>1 DEF Fires, Sound
  <2>3. Fit(s) /\ life[s] = "added" /\ send[s] # "connect" /\ ~failed[s]
    BY <2>1, <2>2 DEF Sound, Idle
  <2>4. m_io'[s].fd = m_io[s].fd /\ ~m_io'[s].active /\ watch'[s] = {}
    BY <1>1, <2>2 DEF Fires, StopIo, Unlisted, TypeOK
  <2>5. Fit(s)'
    BY <2>3, <2>4 DEF Fires, Fit, Ready
  <2> QED
    BY <2>3, <2>4, <2>5 DEF Sound, Fires
<1>8. WatchPart'
  BY <1>1, <1>2, <1>6, <1>7, WatchStep
<1> QED
  BY <1>2, <1>4, <1>5, <1>8 DEF IInv, TablePart, OneObject

\* A handler goes on with the connection its event was for, or with a new one; if its
\* connect has failed the task is astray.
LEMMA HandledStep ==
    ASSUME IInv, ~aborted, app' = app, NEW s \in Senders, NEW cont \in BOOLEAN,
           Handled(s, cont)
    PROVE  IInv' /\ OneObject
<1> USE KindsAssumption, DescriptorsAssumption, NoFileAssumption
    DEF Tasks, Objects, Sockets, socketVars, watcherVars, sendVars, senderVars, termVars
<1>1. /\ TypeOK /\ TablePart /\ LifePart /\ BlockingPart /\ TermSettled /\ WatchPart
      /\ s \in Objects
  BY DEF IInv, TypeOK, TablePart
<1>2. TablePart' /\ Others(s)
  BY <1>1, SameTable DEF Handled
<1>3. /\ queue' \in QueueType
      /\ \A p \in Tasks \ {s}: queue'[p] = queue[p]
  <2>1. CASE cont
    BY <1>1, <2>1, QueueEffect DEF Handled, TypeOK, QueueType, Functors
  <2>2. CASE ~cont
    BY <1>1, <2>2 DEF Handled, TypeOK, QueueType
  <2> QED
    BY <2>1, <2>2
<1>4. TypeOK'
  <2>1. busy[s] \in Nat /\ busy[s] > 0
    BY <1>1 DEF Handled, Sending, TypeOK
  <2>2. busy' \in [Senders -> Nat]
    BY <1>1, <2>1 DEF Handled, TypeOK
  <2> QED
    BY <1>1, <1>2, <1>3, <2>2 DEF TypeOK, TablePart, QueueType, Handled, Strays
<1>5. LifePart' /\ BlockingPart' /\ TermSettled'
  BY <1>1, <1>2, <1>4 DEF LifePart, BlockingPart, TermSettled, Others, TypeOK, Handled, Strays
<1>6. Frame(s)
  BY <1>1, <1>2, <1>3 DEF Frame, TypeOK, QueueType, Handled, Strays
<1>7. ASSUME s \notin astray', ~NDebug, ~aborted' PROVE Sound(s)'
  <2>1. Sound(s) /\ ~(cont /\ failed[s])
    BY <1>1, <1>7 DEF WatchPart, Handled, Strays
  <2>2. /\ busy[s] \in Nat /\ busy[s] > 0 /\ busy'[s] = busy[s] - 1
        /\ send[s] # "connect"
    BY <1>1, <2>1 DEF Handled, Sound, Sending, TypeOK
  <2>3. Fit(s)' = Fit(s) /\ m_io' = m_io /\ watch' = watch /\ life' = life
    BY DEF Handled, Fit, Ready
  <2>4. CASE ~cont
    BY <2>1, <2>2, <2>3, <2>4 DEF Handled, Sound, Idle
  <2>5. CASE cont
    <3>1. Fit(s) /\ ~failed[s] /\ life[s] = "added"
      BY <2>1, <2>2, <2>5 DEF Sound
    <3> QED
      BY <2>1, <2>2, <2>3, <3>1 DEF Handled, Sound
  <2> QED
    BY <2>4, <2>5
<1>8. WatchPart'
  BY <1>1, <1>2, <1>6, <1>7, WatchStep
<1> QED
  BY <1>2, <1>4, <1>5, <1>8 DEF IInv, TablePart, OneObject

\* The stop is only queued: the sender still has its connection.
LEMMA SendStopsStep ==
    ASSUME IInv, ~aborted, app' = app, NEW s \in Senders, NEW handler \in BOOLEAN,
           SendStops(s, handler)
    PROVE  IInv' /\ OneObject
<1> USE KindsAssumption, DescriptorsAssumption, NoFileAssumption
    DEF Tasks, Objects, Sockets, socketVars, watcherVars, sendVars, senderVars, termVars
<1>1. /\ TypeOK /\ TablePart /\ LifePart /\ BlockingPart /\ TermSettled /\ WatchPart
      /\ s \in Objects
  BY DEF IInv, TypeOK, TablePart
<1>2. TablePart' /\ Others(s)
  BY <1>1, SameTable DEF SendStops
<1>3. /\ queue' \in QueueType
      /\ \A p \in Tasks \ {s}: queue'[p] = queue[p]
  BY <1>1, QueueEffect DEF SendStops, TypeOK, QueueType, Functors
<1>4. TypeOK'
  BY <1>1, <1>2, <1>3 DEF TypeOK, TablePart, QueueType, SendStops, AssertThat
<1>5. LifePart' /\ BlockingPart' /\ TermSettled'
  BY <1>1, <1>2, <1>4 DEF LifePart, BlockingPart, TermSettled, Others, TypeOK, SendStops,
     AssertThat
<1>6. Frame(s)
  BY <1>1, <1>2, <1>3 DEF Frame, TypeOK, QueueType, SendStops, AssertThat
<1>7. ASSUME s \notin astray', ~NDebug, ~aborted' PROVE Sound(s)'
  <2>1. Sound(s)
    BY <1>1, <1>7 DEF WatchPart, SendStops
  <2>2. queue'[s]["start"] = queue[s]["start"]
    BY <1>1, QueueEffect DEF SendStops, TypeOK, QueueType, Functors
  <2>3. Fit(s)' = Fit(s) /\ Idle(s)' = Idle(s)
    BY <2>2 DEF SendStops, Fit, Ready, Idle
  <2>4. send[s] = "none" /\ send'[s] = "close"
    BY <1>1 DEF SendStops, TypeOK
  <2> QED
    BY <2>1, <2>3, <2>4 DEF Sound, SendStops
<1>8. WatchPart'
  BY <1>1, <1>2, <1>6, <1>7, WatchStep
<1> QED
  BY <1>2, <1>4, <1>5, <1>8 DEF IInv, TablePart, OneObject

\* A sender that is closed and not astray is idle, and no handler of it is left but the
\* one that calls send().
LEMMA SendClosesStep ==
    ASSUME IInv, ~aborted, app' = app, NEW s \in Senders, NEW remote \in Remotes,
           SendCloses(s, remote)
    PROVE  IInv' /\ OneObject
<1> USE KindsAssumption, DescriptorsAssumption, NoFileAssumption
    DEF Tasks, Objects, Sockets, socketVars, watcherVars, sendVars, senderVars, termVars
<1>1. /\ TypeOK /\ TablePart /\ LifePart /\ BlockingPart /\ TermSettled /\ WatchPart
      /\ s \in Objects
  BY DEF IInv, TypeOK, TablePart
<1>2. TablePart' /\ Others(s)
  BY <1>1, CloseKeepsTable DEF SendCloses
<1>4. TypeOK'
  BY <1>1, <1>2 DEF TypeOK, TablePart, QueueType, SendCloses, Strays, close
<1>5. LifePart' /\ BlockingPart' /\ TermSettled'
  BY <1>1, <1>2, <1>4 DEF LifePart, BlockingPart, TermSettled, Others, TypeOK, SendCloses, Strays,
     close
<1>6. Frame(s)
  BY <1>1, <1>2 DEF Frame, TypeOK, QueueType, SendCloses, Strays, close
<1>7. ASSUME s \notin astray', ~NDebug, ~aborted' PROVE Sound(s)'
  <2>1. Sound(s) /\ watch[s] = {} /\ ~(queue[s]["start"] > 0) /\ ~(busy[s] > Sending(s))
    BY <1>1, <1>7 DEF WatchPart, SendCloses, Strays
  <2>2. queue[s]["start"] = 0 /\ busy[s] <= Sending(s)
    BY <1>1, <2>1 DEF TypeOK, Functors, Sending
  <2>3. Idle(s) /\ Idle(s)'
    BY <2>1, <2>2 DEF Sound, Idle, SendCloses
  <2>4. send'[s] = "connect" /\ Sending(s)' = Sending(s)
    BY <1>1 DEF SendCloses, Sending, TypeOK
  <2> QED
    BY <2>1, <2>2, <2>3, <2>4 DEF Sound, SendCloses, Idle
<1>8. WatchPart'
  BY <1>1, <1>2, <1>6, <1>7, WatchStep
<1> QED
  BY <1>2, <1>4, <1>5, <1>8 DEF IInv, TablePart, OneObject

\* Without a connection a sender is idle; with a new one its watcher is initialized.
LEMMA SendConnectsStep ==
    ASSUME IInv, ~aborted, app' = app, NEW s \in Senders, NEW remote \in Remotes,
           NEW calls \in {ConnectPath, ConnectHost}, NEW fail,
           SendConnects(s, remote, calls, fail)
    PROVE  IInv' /\ OneObject
<1> USE KindsAssumption, DescriptorsAssumption, NoFileAssumption
    DEF Tasks, Objects, Sockets, socketVars, watcherVars, sendVars, senderVars, termVars
<1>1. /\ TypeOK /\ TablePart /\ LifePart /\ BlockingPart /\ TermSettled /\ WatchPart
      /\ s \in Objects
  BY DEF IInv, TypeOK, TablePart
<1>2. TablePart' /\ Others(s)
  BY <1>1, RunKeepsTable DEF SendConnects, connected, MayLose
<1>3. /\ queue' \in QueueType
      /\ \A p \in Tasks \ {s}: queue'[p] = queue[p]
  <2>1. CASE Ok(calls, fail)
    BY <1>1, <2>1, QueueEffect DEF SendConnects, Add, TypeOK, QueueType, Functors
  <2>2. CASE ~Ok(calls, fail)
    BY <1>1, <2>2 DEF SendConnects, TypeOK, QueueType
  <2> QED
    BY <2>1, <2>2
<1>4. TypeOK'
  <2>1. m_io' \in WatcherType /\ life' \in [Objects -> {"none", "made", "added"}] /\ watch' = watch
    <3>1. CASE Ok(calls, fail)
      <4>1. Add(s)
        BY <3>1 DEF SendConnects
      <4>2. m_fd'[s] \in Fds \cup {NoFd}
        BY <1>2 DEF TablePart
      <4> QED
        BY <1>1, <4>1, <4>2, WatcherSet DEF TypeOK, WatcherType, Add, Become
    <3>2. CASE ~Ok(calls, fail)
      BY <1>1, <3>2 DEF SendConnects, TypeOK, WatcherType
    <3> QED
      BY <3>1, <3>2
  <2>2. /\ m_remote' \in [Senders -> Remotes \cup {None}] /\ failed' \in [Senders -> BOOLEAN]
        /\ send' \in [Senders -> {"none", "close", "connect"}] /\ inside' \in [Senders -> BOOLEAN]
    BY <1>1 DEF SendConnects, TypeOK
  <2>3. UNCHANGED <<dev, m_type, m_blocking, busy, wanted, aborted, astray, reopened>>
    BY DEF SendConnects
  <2> QED
    BY <1>1, <1>2, <1>3, <2>1, <2>2, <2>3 DEF TypeOK, TablePart, QueueType, WatcherType
<1>5. LifePart' /\ BlockingPart' /\ TermSettled'
  <2>1. LifePart'
    <3>1. life'[s] # "none"
      <4>1. life[s] # "none"
        BY DEF SendConnects
      <4> QED
        BY <1>1, <4>1 DEF SendConnects, Add, Become, TypeOK
    <3>2. \A p \in Objects \ {s}: life'[p] = life[p]
      BY <1>1 DEF SendConnects, Add, Become, TypeOK
    <3> QED
      BY <1>1, <1>2, <3>1, <3>2 DEF LifePart, Others
  <2>2. BlockingPart'
    BY <1>1 DEF BlockingPart, TypeOK, SendConnects, Add, Become
  <2>3. TermSettled'
    <3>1. UNCHANGED <<dev, wanted>>
      BY DEF SendConnects
    <3> QED
      BY <1>1, <1>2, <3>1 DEF TermSettled, Others
  <2> QED
    BY <2>1, <2>2, <2>3
<1>6. Frame(s)
  BY <1>1, <1>2, <1>3 DEF Frame, TypeOK, QueueType, SendConnects, Add, Become
<1>7. ASSUME s \notin astray', ~NDebug, ~aborted' PROVE Sound(s)'
  <2>1. Sound(s)
    BY <1>1, <1>7 DEF WatchPart, SendConnects
  <2>2. Idle(s)
    BY <2>1 DEF Sound, Fit, Ready, SendConnects, connected
  <2>3. send'[s] = "none" /\ failed'[s] = ~Ok(calls, fail)
    BY <1>1 DEF SendConnects, TypeOK
  <2>4. CASE Ok(calls, fail)
    <3>1. Run(s, "stream", calls, fail) /\ Add(s)
      BY <2>4 DEF SendConnects
    <3>2. Ready(s)'
      BY <1>1, <2>4, <3>1, RunReady
    <3> QED
      BY <1>1, <2>1, <2>2, <2>3, <2>4, <3>1, <3>2, AddSound
  <2>5. CASE ~Ok(calls, fail)
    BY <1>1, <2>1, <2>2, <2>3, <2>5 DEF Sound, Idle, SendConnects
  <2> QED
    BY <2>4, <2>5
<1>8. WatchPart'
  BY <1>1, <1>2, <1>6, <1>7, WatchStep
<1> QED
  BY <1>2, <1>4, <1>5, <1>8 DEF IInv, TablePart, OneObject

\* An update is only queued.
LEMMA UpdateWatcherStep ==
    ASSUME IInv, ~aborted, app' = app, NEW s \in Senders,
           UpdateWatcher(s)
    PROVE  IInv' /\ OneObject
<1> USE KindsAssumption, DescriptorsAssumption, NoFileAssumption
    DEF Tasks, Objects, Sockets, socketVars, watcherVars, sendVars, senderVars, termVars
<1>1. /\ TypeOK /\ TablePart /\ LifePart /\ BlockingPart /\ TermSettled /\ WatchPart
      /\ s \in Objects
  BY DEF IInv, TypeOK, TablePart
<1>2. TablePart' /\ Others(s)
  BY <1>1, SameTable DEF UpdateWatcher
<1>3. /\ queue' \in QueueType
      /\ \A p \in Tasks \ {s}: queue'[p] = queue[p]
  BY <1>1, QueueEffect DEF UpdateWatcher, TypeOK, QueueType, Functors
<1>4. TypeOK'
  BY <1>1, <1>2, <1>3 DEF TypeOK, TablePart, QueueType, UpdateWatcher, AssertThat
<1>5. LifePart' /\ BlockingPart' /\ TermSettled'
  BY <1>1, <1>2, <1>4 DEF LifePart, BlockingPart, TermSettled, Others, TypeOK, UpdateWatcher,
     AssertThat
<1>6. Frame(s)
  BY <1>1, <1>2, <1>3 DEF Frame, TypeOK, QueueType, UpdateWatcher, AssertThat
<1>7. ASSUME s \notin astray', ~NDebug, ~aborted' PROVE Sound(s)'
  <2>1. Sound(s)
    BY <1>1, <1>7 DEF WatchPart, UpdateWatcher
  <2>2. queue'[s]["start"] = queue[s]["start"]
    BY <1>1, QueueEffect DEF UpdateWatcher, TypeOK, QueueType, Functors
  <2> QED
    BY <2>1, <2>2 DEF Sound, Idle, Fit, Ready, Sending, UpdateWatcher
<1>8. WatchPart'
  BY <1>1, <1>2, <1>6, <1>7, WatchStep
<1> QED
  BY <1>2, <1>4, <1>5, <1>8 DEF IInv, TablePart, OneObject

\* A sender closes its connection; watcher and handlers go with it.
LEMMA DeleteSenderStep ==
    ASSUME IInv, ~aborted, app' = app, NEW s \in Senders,
           DeleteSender(s)
    PROVE  IInv' /\ OneObject
<1> USE KindsAssumption, DescriptorsAssumption, NoFileAssumption
    DEF Tasks, Objects, Sockets, socketVars, watcherVars, sendVars, senderVars, termVars
<1>1. /\ TypeOK /\ TablePart /\ LifePart /\ BlockingPart /\ TermSettled /\ WatchPart
      /\ s \in Objects
  BY DEF IInv, TypeOK, TablePart
<1>2. TablePart' /\ Others(s)
  BY <1>1, CloseKeepsTable DEF DeleteSender
<1>4. TypeOK'
  BY <1>1, <1>2 DEF TypeOK, TablePart, QueueType, DeleteSender, close, Dispose, NewWatcher,
     EmptyQueue, Become
<1>5. LifePart' /\ BlockingPart' /\ TermSettled'
  BY <1>1, <1>2, <1>4 DEF LifePart, BlockingPart, TermSettled, Others, TypeOK, DeleteSender,
     close, Dispose, NewWatcher, EmptyQueue, Become
<1>6. Frame(s)
  BY <1>1, <1>2 DEF Frame, TypeOK, QueueType, DeleteSender, close, Dispose, NewWatcher,
     EmptyQueue, Become
<1>7. ASSUME s \notin astray', ~NDebug, ~aborted' PROVE Sound(s)'
  <2>1. watch'[s] = {} /\ ~m_io'[s].active /\ queue'[s]["start"] = 0
    BY <1>1 DEF DeleteSender, Dispose, NewWatcher, EmptyQueue, Functors, TypeOK
  <2>2. busy'[s] = 0 /\ send'[s] = "none" /\ ~failed'[s]
    BY <1>1 DEF DeleteSender, TypeOK
  <2> QED
    BY <1>1, <2>1, <2>2 DEF Sound, Idle
<1>8. WatchPart'
  BY <1>1, <1>2, <1>6, <1>7, WatchStep
<1> QED
  BY <1>2, <1>4, <1>5, <1>8 DEF IInv, TablePart, OneObject

\* A datagram socket is opened by its constructor, or not made.
LEMMA NewDatagramStep ==
    ASSUME IInv, ~aborted, app' = app, NEW s \in Datagrams, NEW fail,
           NewDatagram(s, fail)
    PROVE  IInv' /\ OneObject
<1> USE KindsAssumption, DescriptorsAssumption, NoFileAssumption
    DEF Tasks, Objects, Sockets, socketVars, watcherVars, sendVars, senderVars, termVars
<1>1. /\ TypeOK /\ TablePart /\ LifePart /\ BlockingPart /\ TermSettled /\ WatchPart
      /\ s \in Objects
  BY DEF IInv, TypeOK, TablePart
<1>2. TablePart' /\ Others(s)
  BY <1>1, RunKeepsTable DEF NewDatagram, LifePart, MayLose
<1>4. TypeOK'
  <2>1. life' \in [Objects -> {"none", "made", "added"}] /\ m_type' \in [Sockets -> {"TCP", "UDP"}]
    <3>1. CASE fail = "socket"
      BY <1>1, <3>1 DEF TypeOK, NewDatagram
    <3>2. CASE fail # "socket"
      <4>1. life' = [life EXCEPT ![s] = "made"] /\ m_type' = [m_type EXCEPT ![s] = "UDP"]
        BY <3>2 DEF NewDatagram, Become
      <4> QED
        BY <1>1, <4>1 DEF TypeOK
    <3> QED
      BY <3>1, <3>2
  <2>2. UNCHANGED <<m_blocking, watcherVars, senderVars, termVars, aborted, astray>>
    BY DEF NewDatagram
  <2> QED
    BY <1>1, <1>2, <2>1, <2>2 DEF TypeOK, TablePart
<1>5. LifePart' /\ BlockingPart' /\ TermSettled'
  <2>1. LifePart'
    <3>1. CASE fail = "socket"
      <4>1. "socket" \notin Done(<<"socket">>, fail)
        BY <3>1 DEF Done
      <4>2. m_fd' = [m_fd EXCEPT ![s] = NoFd]
        BY <4>1 DEF NewDatagram, Run
      <4> QED
        BY <1>1, <3>1, <4>2 DEF LifePart, TypeOK, NewDatagram
    <3>2. CASE fail # "socket"
      BY <1>1, <1>2, <3>2 DEF LifePart, Others, TypeOK, NewDatagram, Become
    <3> QED
      BY <3>1, <3>2
  <2>2. BlockingPart'
    BY <1>1 DEF BlockingPart, TypeOK, NewDatagram, Become
  <2>3. TermSettled'
    <3>1. UNCHANGED <<dev, wanted>>
      BY DEF NewDatagram
    <3> QED
      BY <1>1, <1>2, <3>1 DEF TermSettled, Others
  <2> QED
    BY <2>1, <2>2, <2>3
<1>6. Frame(s)
  BY <1>1, <1>2 DEF Frame, TypeOK, QueueType, NewDatagram, Become
<1>8. WatchPart'
  BY <1>1, <1>2, <1>6, WatchStep
<1> QED
  BY <1>2, <1>4, <1>5, <1>8 DEF IInv, TablePart, OneObject

\* Only a datagram socket is made a blocking one.
LEMMA SetBlockingStep ==
    ASSUME IInv, ~aborted, app' = app, NEW s \in Datagrams,
           set_blocking(s)
    PROVE  IInv' /\ OneObject
<1> USE KindsAssumption, DescriptorsAssumption, NoFileAssumption
    DEF Tasks, Objects, Sockets, socketVars, watcherVars, sendVars, senderVars, termVars
<1>1. /\ TypeOK /\ TablePart /\ LifePart /\ BlockingPart /\ TermSettled /\ WatchPart
      /\ s \in Objects
  BY DEF IInv, TypeOK, TablePart
<1>2. TablePart' /\ Others(s)
  BY <1>1, SameTable DEF set_blocking
<1>4. TypeOK'
  BY <1>1, <1>2 DEF TypeOK, TablePart, QueueType, set_blocking
<1>5. LifePart' /\ BlockingPart' /\ TermSettled'
  BY <1>1, <1>2, <1>4 DEF LifePart, BlockingPart, TermSettled, Others, TypeOK, set_blocking
<1>6. Frame(s)
  BY <1>1, <1>2 DEF Frame, TypeOK, QueueType, set_blocking
<1>8. WatchPart'
  BY <1>1, <1>2, <1>6, WatchStep
<1> QED
  BY <1>2, <1>4, <1>5, <1>8 DEF IInv, TablePart, OneObject

\* bind() may lose the descriptor that the constructor opened.
LEMMA BindDatagramStep ==
    ASSUME IInv, ~aborted, app' = app, NEW s \in Datagrams, NEW fail,
           BindDatagram(s, fail)
    PROVE  IInv' /\ OneObject
<1> USE KindsAssumption, DescriptorsAssumption, NoFileAssumption
    DEF Tasks, Objects, Sockets, socketVars, watcherVars, sendVars, senderVars, termVars
<1>1. /\ TypeOK /\ TablePart /\ LifePart /\ BlockingPart /\ TermSettled /\ WatchPart
      /\ s \in Objects
  BY DEF IInv, TypeOK, TablePart
<1>2. TablePart' /\ Others(s)
  BY <1>1, RunKeepsTable DEF BindDatagram, MayLose
<1>4. TypeOK'
  BY <1>1, <1>2 DEF TypeOK, TablePart, QueueType, BindDatagram
<1>5. LifePart' /\ BlockingPart' /\ TermSettled'
  BY <1>1, <1>2, <1>4 DEF LifePart, BlockingPart, TermSettled, Others, TypeOK, BindDatagram
<1>6. Frame(s)
  BY <1>1, <1>2 DEF Frame, TypeOK, QueueType, BindDatagram
<1>8. WatchPart'
  BY <1>1, <1>2, <1>6, WatchStep
<1> QED
  BY <1>2, <1>4, <1>5, <1>8 DEF IInv, TablePart, OneObject

\* write() opens a socket where there is none.
LEMMA WriteStep ==
    ASSUME IInv, ~aborted, app' = app, NEW s \in Datagrams, NEW fail,
           Write(s, fail)
    PROVE  IInv' /\ OneObject
<1> USE KindsAssumption, DescriptorsAssumption, NoFileAssumption
    DEF Tasks, Objects, Sockets, socketVars, watcherVars, sendVars, senderVars, termVars
<1>1. /\ TypeOK /\ TablePart /\ LifePart /\ BlockingPart /\ TermSettled /\ WatchPart
      /\ s \in Objects
  BY DEF IInv, TypeOK, TablePart
<1>2. TablePart' /\ Others(s)
  BY <1>1, RunKeepsTable DEF Write, MayLose
<1>4. TypeOK'
  BY <1>1, <1>2 DEF TypeOK, TablePart, QueueType, Write
<1>5. LifePart' /\ BlockingPart' /\ TermSettled'
  BY <1>1, <1>2, <1>4 DEF LifePart, BlockingPart, TermSettled, Others, TypeOK, Write
<1>6. Frame(s)
  BY <1>1, <1>2 DEF Frame, TypeOK, QueueType, Write
<1>8. WatchPart'
  BY <1>1, <1>2, <1>6, WatchStep
<1> QED
  BY <1>2, <1>4, <1>5, <1>8 DEF IInv, TablePart, OneObject

\* A datagram socket is closed by its own object.
LEMMA CloseDatagramStep ==
    ASSUME IInv, ~aborted, app' = app, NEW s \in Datagrams,
           CloseDatagram(s)
    PROVE  IInv' /\ OneObject
<1> USE KindsAssumption, DescriptorsAssumption, NoFileAssumption
    DEF Tasks, Objects, Sockets, socketVars, watcherVars, sendVars, senderVars, termVars
<1>1. /\ TypeOK /\ TablePart /\ LifePart /\ BlockingPart /\ TermSettled /\ WatchPart
      /\ s \in Objects
  BY DEF IInv, TypeOK, TablePart
<1>2. TablePart' /\ Others(s)
  BY <1>1, CloseKeepsTable DEF CloseDatagram
<1>4. TypeOK'
  BY <1>1, <1>2 DEF TypeOK, TablePart, QueueType, CloseDatagram, close
<1>5. LifePart' /\ BlockingPart' /\ TermSettled'
  BY <1>1, <1>2, <1>4 DEF LifePart, BlockingPart, TermSettled, Others, TypeOK, CloseDatagram,
     close
<1>6. Frame(s)
  BY <1>1, <1>2 DEF Frame, TypeOK, QueueType, CloseDatagram, close
<1>8. WatchPart'
  BY <1>1, <1>2, <1>6, WatchStep
<1> QED
  BY <1>2, <1>4, <1>5, <1>8 DEF IInv, TablePart, OneObject

\* A terminal that is opened and not astray has not been added.
LEMMA OpenTermStep ==
    ASSUME IInv, ~aborted, app' = app, NEW t \in Terms, NEW req \in Settings, NEW ok \in BOOLEAN,
           OpenTerm(t, req, ok)
    PROVE  IInv' /\ OneObject
<1> USE KindsAssumption, DescriptorsAssumption, NoFileAssumption
    DEF Tasks, Objects, Sockets, socketVars, watcherVars, sendVars, senderVars, termVars
<1>1. /\ TypeOK /\ TablePart /\ LifePart /\ BlockingPart /\ TermSettled /\ WatchPart
      /\ t \in Objects
  BY DEF IInv, TypeOK, TablePart
<1>2. TablePart' /\ Others(t)
  <2>1. MayLose(t) /\ reopened \subseteq reopened'
    BY DEF OpenTerm, MayLose
  <2>2. CASE ok
    <3>1. PICK f \in Fds:
             /\ file[f] = None
             /\ file' = [file EXCEPT ![f] =
                   [kind |-> "tty", by |-> t, use |-> "new", nonblock |-> TRUE]]
             /\ m_fd' = [m_fd EXCEPT ![t] = f]
      BY <2>2 DEF OpenTerm
    <3>2. [kind |-> "tty", by |-> t, use |-> "new", nonblock |-> TRUE] \in Files
      BY DEF Files
    <3> QED
      BY <1>1, <2>1, <3>1, <3>2, OpenKeepsTable
  <2>3. CASE ~ok
    BY <1>1, <2>1, <2>3, ForgetKeepsTable DEF OpenTerm
  <2> QED
    BY <2>2, <2>3
<1>4. TypeOK'
  <2>1. ASSUME NEW flags \in Flags PROVE SetFlags(flags, req) \in Flags
    BY DEF SetFlags, Flags
  <2>2. /\ dev' \in [Terms -> Flags] /\ wanted' \in [Terms -> Settings]
        /\ life' \in [Objects -> {"none", "made", "added"}]
    <3>1. CASE ok
      <4>1. /\ wanted' = [wanted EXCEPT ![t] = req]
            /\ dev' = [dev EXCEPT ![t] = SetFlags(dev[t], req)]
            /\ life' = [life EXCEPT ![t] = IF life[t] = "none" THEN "made" ELSE life[t]]
        BY <3>1 DEF OpenTerm
      <4> QED
        BY <1>1, <2>1, <4>1 DEF TypeOK
    <3>2. CASE ~ok
      BY <1>1, <3>2 DEF TypeOK, OpenTerm
    <3> QED
      BY <3>1, <3>2
  <2>3. astray' \subseteq Tasks /\ reopened' \subseteq Terms
    BY <1>1 DEF TypeOK, OpenTerm, Strays
  <2>4. UNCHANGED <<socketVars, watcherVars, senderVars, aborted>>
    BY DEF OpenTerm
  <2> QED
    BY <1>1, <1>2, <2>2, <2>3, <2>4 DEF TypeOK, TablePart
<1>5. LifePart' /\ BlockingPart' /\ TermSettled'
  <2>1. LifePart'
    <3>1. CASE ok
      <4>1. life' = [life EXCEPT ![t] = IF life[t] = "none" THEN "made" ELSE life[t]]
        BY <3>1 DEF OpenTerm
      <4> QED
        BY <1>1, <1>2, <4>1 DEF LifePart, Others, TypeOK
    <3>2. CASE ~ok
      BY <1>1, <1>2, <3>2 DEF LifePart, Others, TypeOK, OpenTerm
    <3> QED
      BY <3>1, <3>2
  <2>2. BlockingPart'
    BY <1>1 DEF BlockingPart, TypeOK, OpenTerm, Strays
  <2>3. TermSettled'
    <3>1. CASE ok
      <4>1. /\ dev' = [dev EXCEPT ![t] = SetFlags(dev[t], req)]
            /\ wanted' = [wanted EXCEPT ![t] = req]
        BY <3>1 DEF OpenTerm
      <4>2. /\ Parity(SetFlags(dev[t], req)) = req.parity
            /\ SetFlags(dev[t], req).CSTOPB = (req.stop = 2)
        BY DEF SetFlags, Parity, Settings, Parities
      <4> QED
        BY <1>1, <1>2, <4>1, <4>2 DEF TermSettled, Others, TypeOK
    <3>2. CASE ~ok
      BY <1>1, <1>2, <3>2 DEF TermSettled, Others, TypeOK, OpenTerm
    <3> QED
      BY <3>1, <3>2
  <2> QED
    BY <2>1, <2>2, <2>3
<1>6. Frame(t)
  BY <1>1, <1>2 DEF Frame, TypeOK, QueueType, OpenTerm, Strays
<1>7. ASSUME t \notin astray', ~NDebug, ~aborted' PROVE Sound(t)'
  <2>1. Sound(t) /\ life[t] # "added" /\ life'[t] # "added"
    BY <1>1, <1>7 DEF WatchPart, OpenTerm, Strays, TypeOK
  <2> QED
    BY <2>1 DEF Sound, Idle, OpenTerm
<1>8. WatchPart'
  BY <1>1, <1>2, <1>6, <1>7, WatchStep
<1> QED
  BY <1>2, <1>4, <1>5, <1>8 DEF IInv, TablePart, OneObject

\* The terminal that is added is open, and a terminal.
LEMMA AddTermStep ==
    ASSUME IInv, ~aborted, app' = app, NEW t \in Terms,
           AddTerm(t)
    PROVE  IInv' /\ OneObject
<1> USE KindsAssumption, DescriptorsAssumption, NoFileAssumption
    DEF Tasks, Objects, Sockets, socketVars, watcherVars, sendVars, senderVars, termVars
<1>1. /\ TypeOK /\ TablePart /\ LifePart /\ BlockingPart /\ TermSettled /\ WatchPart
      /\ t \in Objects
  BY DEF IInv, TypeOK, TablePart
<1>2. TablePart' /\ Others(t)
  BY <1>1, SameTable DEF AddTerm
<1>3. /\ queue' \in QueueType
      /\ \A p \in Tasks \ {t}: queue'[p] = queue[p]
  BY <1>1, QueueEffect DEF AddTerm, Add, TypeOK, QueueType, Functors
<1>4. TypeOK'
  <2>1. m_io' \in WatcherType
    BY <1>1, <1>2, WatcherSet DEF TypeOK, TablePart, WatcherType, AddTerm, Add, Become
  <2> QED
    BY <1>1, <1>2, <1>3, <2>1 DEF TypeOK, TablePart, QueueType, WatcherType, AddTerm, Add, Become
<1>5. LifePart' /\ BlockingPart' /\ TermSettled'
  BY <1>1, <1>2, <1>4 DEF LifePart, BlockingPart, TermSettled, Others, TypeOK, AddTerm, Add,
     Become
<1>6. Frame(t)
  BY <1>1, <1>2, <1>3 DEF Frame, TypeOK, QueueType, AddTerm, Add, Become
<1>7. ASSUME t \notin astray', ~NDebug, ~aborted' PROVE Sound(t)'
  <2>1. Sound(t)
    BY <1>1, <1>7 DEF WatchPart, AddTerm
  <2>2. file[m_fd[t]].kind = "tty" /\ file[m_fd[t]].nonblock
    BY <1>1 DEF AddTerm, TablePart, OwnFile, FilesPart
  <2>3. Ready(t)' /\ Add(t) /\ Idle(t)
    BY <2>1, <2>2 DEF Ready, AddTerm, Sound
  <2> QED
    BY <1>1, <2>1, <2>3, AddSound
<1>8. WatchPart'
  BY <1>1, <1>2, <1>6, <1>7, WatchStep
<1> QED
  BY <1>2, <1>4, <1>5, <1>8 DEF IInv, TablePart, OneObject

\* A terminal that is closed by a failure and not astray has not been added.
LEMMA OptionsFailStep ==
    ASSUME IInv, ~aborted, app' = app, NEW t \in Terms,
           OptionsFail(t)
    PROVE  IInv' /\ OneObject
<1> USE KindsAssumption, DescriptorsAssumption, NoFileAssumption
    DEF Tasks, Objects, Sockets, socketVars, watcherVars, sendVars, senderVars, termVars
<1>1. /\ TypeOK /\ TablePart /\ LifePart /\ BlockingPart /\ TermSettled /\ WatchPart
      /\ t \in Objects
  BY DEF IInv, TypeOK, TablePart
<1>2. TablePart' /\ Others(t)
  BY <1>1, CloseKeepsTable DEF OptionsFail
<1>4. TypeOK'
  BY <1>1, <1>2 DEF TypeOK, TablePart, QueueType, OptionsFail, Strays, close
<1>5. LifePart' /\ BlockingPart' /\ TermSettled'
  BY <1>1, <1>2, <1>4 DEF LifePart, BlockingPart, TermSettled, Others, TypeOK, OptionsFail,
     Strays, close
<1>6. Frame(t)
  BY <1>1, <1>2 DEF Frame, TypeOK, QueueType, OptionsFail, Strays, close
<1>7. ASSUME t \notin astray', ~NDebug, ~aborted' PROVE Sound(t)'
  <2>1. Sound(t) /\ life[t] # "added"
    BY <1>1, <1>7 DEF WatchPart, OptionsFail, Strays
  <2> QED
    BY <2>1 DEF Sound, Idle, OptionsFail
<1>8. WatchPart'
  BY <1>1, <1>2, <1>6, <1>7, WatchStep
<1> QED
  BY <1>2, <1>4, <1>5, <1>8 DEF IInv, TablePart, OneObject

\* set_options() leaves what it was asked for.
LEMMA SetOptionsStep ==
    ASSUME IInv, ~aborted, app' = app, NEW t \in Terms, NEW req \in Settings,
           SetOptions(t, req)
    PROVE  IInv' /\ OneObject
<1> USE KindsAssumption, DescriptorsAssumption, NoFileAssumption
    DEF Tasks, Objects, Sockets, socketVars, watcherVars, sendVars, senderVars, termVars
<1>1. /\ TypeOK /\ TablePart /\ LifePart /\ BlockingPart /\ TermSettled /\ WatchPart
      /\ t \in Objects
  BY DEF IInv, TypeOK, TablePart
<1>2. TablePart' /\ Others(t)
  BY <1>1, SameTable DEF SetOptions
<1>4. TypeOK'
  <2>1. dev' \in [Terms -> Flags]
    BY <1>1 DEF TypeOK, SetOptions, Flags
  <2> QED
    BY <1>1, <2>1 DEF TypeOK, SetOptions
<1>5. LifePart' /\ BlockingPart' /\ TermSettled'
  <2>1. LifePart'
    BY <1>1, <1>2, <1>4 DEF LifePart, Others, TypeOK, SetOptions
  <2>2. BlockingPart'
    BY <1>1 DEF BlockingPart, TypeOK, SetOptions
  <2>3. TermSettled'
    <3> DEFINE flags == [PARENB |-> req.parity # "NONE", PARODD |-> req.parity = "ODD",
                         CSTOPB |-> req.stop = 2]
    <3>1. Parity(flags) = req.parity /\ flags.CSTOPB = (req.stop = 2)
      BY DEF Parity, Settings, Parities
    <3>2. /\ dev' = [dev EXCEPT ![t] = flags]
          /\ wanted' = [wanted EXCEPT ![t] = req] /\ m_fd' = m_fd
      BY DEF SetOptions
    <3> HIDE DEF flags
    <3> QED
      BY <1>1, <3>1, <3>2 DEF TermSettled, TypeOK
  <2> QED
    BY <2>1, <2>2, <2>3
<1>6. Frame(t)
  BY <1>1, <1>2 DEF Frame, TypeOK, QueueType, SetOptions
<1>7. ASSUME t \notin astray', ~NDebug, ~aborted' PROVE Sound(t)'
  <2>1. Sound(t)
    BY <1>1, <1>7 DEF WatchPart, SetOptions
  <2> QED
    BY <1>1, <2>1 DEF Sound, Idle, Fit, Ready, Sending, SetOptions
<1>8. WatchPart'
  BY <1>1, <1>2, <1>6, <1>7, WatchStep
<1> QED
  BY <1>2, <1>4, <1>5, <1>8 DEF IInv, TablePart, OneObject

\* ~serial_io_task closes its terminal; the watcher goes with it.
LEMMA DeleteTermStep ==
    ASSUME IInv, ~aborted, app' = app, NEW t \in Terms,
           DeleteTerm(t)
    PROVE  IInv' /\ OneObject
<1> USE KindsAssumption, DescriptorsAssumption, NoFileAssumption
    DEF Tasks, Objects, Sockets, socketVars, watcherVars, sendVars, senderVars, termVars
<1>1. /\ TypeOK /\ TablePart /\ LifePart /\ BlockingPart /\ TermSettled /\ WatchPart
      /\ t \in Objects
  BY DEF IInv, TypeOK, TablePart
<1>2. TablePart' /\ Others(t)
  BY <1>1, CloseKeepsTable DEF DeleteTerm
<1>4. TypeOK'
  BY <1>1, <1>2 DEF TypeOK, TablePart, QueueType, DeleteTerm, close, Dispose, NewWatcher,
     EmptyQueue, Become
<1>5. LifePart' /\ BlockingPart' /\ TermSettled'
  BY <1>1, <1>2, <1>4 DEF LifePart, BlockingPart, TermSettled, Others, TypeOK, DeleteTerm, close,
     Dispose, NewWatcher, EmptyQueue, Become
<1>6. Frame(t)
  BY <1>1, <1>2 DEF Frame, TypeOK, QueueType, DeleteTerm, close, Dispose, NewWatcher, EmptyQueue,
     Become
<1>7. ASSUME t \notin astray', ~NDebug, ~aborted' PROVE Sound(t)'
  <2>1. watch'[t] = {} /\ ~m_io'[t].active /\ queue'[t]["start"] = 0
    BY <1>1 DEF DeleteTerm, Dispose, NewWatcher, EmptyQueue, Functors, TypeOK
  <2> QED
    BY <1>1, <2>1 DEF Sound, Idle
<1>8. WatchPart'
  BY <1>1, <1>2, <1>6, <1>7, WatchStep
<1> QED
  BY <1>2, <1>4, <1>5, <1>8 DEF IInv, TablePart, OneObject

\* A start that waits finds a descriptor that is ready.
LEMMA RunStartStep ==
    ASSUME IInv, ~aborted, app' = app, NEW o \in Tasks,
           RunStart(o)
    PROVE  IInv' /\ OneObject
<1> USE KindsAssumption, DescriptorsAssumption, NoFileAssumption
    DEF Tasks, Objects, Sockets, socketVars, watcherVars, sendVars, senderVars, termVars
<1>1. /\ TypeOK /\ TablePart /\ LifePart /\ BlockingPart /\ TermSettled /\ WatchPart
      /\ o \in Objects
  BY DEF IInv, TypeOK, TablePart
<1>2. TablePart' /\ Others(o)
  BY <1>1, SameTable DEF RunStart
<1>3. /\ queue' \in QueueType
      /\ \A p \in Tasks \ {o}: queue'[p] = queue[p]
  BY <1>1, TakeEffect DEF RunStart, TypeOK, QueueType, Functors
<1>4. TypeOK'
  <2>1. m_io' \in WatcherType
    BY <1>1, <1>2, WatcherSet DEF TypeOK, TablePart, WatcherType, RunStart, Listed
  <2> QED
    BY <1>1, <1>2, <1>3, <2>1 DEF TypeOK, TablePart, QueueType, WatcherType, RunStart, Listed
<1>5. LifePart' /\ BlockingPart' /\ TermSettled'
  BY <1>1, <1>2, <1>4 DEF LifePart, BlockingPart, TermSettled, Others, TypeOK, RunStart, Listed
<1>6. Frame(o)
  BY <1>1, <1>2, <1>3 DEF Frame, TypeOK, QueueType, RunStart, Listed
<1>7. ASSUME o \notin astray', ~NDebug, ~aborted' PROVE Sound(o)'
  <2>1. Sound(o)
    BY <1>1, <1>7 DEF WatchPart, RunStart
  <2>2. queue[o]["start"] > 0
    BY DEF RunStart, Take
  <2>3. Fit(o) /\ life[o] = "added"
    BY <2>1, <2>2 DEF Sound, Idle
  <2>4. ~m_io[o].active => Listed(o, m_io[o].fd) = {m_io[o].fd}
    BY <1>1, <2>1, <2>3 DEF Listed, Sound, Fit, Ready, TypeOK
  <2>5. m_io'[o].fd = m_io[o].fd /\ m_io'[o].active /\ watch'[o] = {m_io[o].fd}
    BY <1>1, <2>1, <2>4 DEF RunStart, Sound, TypeOK
  <2>6. Fit(o)'
    BY <2>3, <2>5 DEF RunStart, Fit, Ready
  <2>7. o \in Senders => send[o] # "connect" /\ ~failed[o]
    BY <2>1, <2>2 DEF Sound, Idle
  <2> QED
    BY <2>3, <2>5, <2>6, <2>7 DEF Sound, RunStart
<1>8. WatchPart'
  BY <1>1, <1>2, <1>6, <1>7, WatchStep
<1> QED
  BY <1>2, <1>4, <1>5, <1>8 DEF IInv, TablePart, OneObject

\* A stop takes the watcher from the list it is in.
LEMMA RunStopStep ==
    ASSUME IInv, ~aborted, app' = app, NEW o \in Tasks,
           RunStop(o)
    PROVE  IInv' /\ OneObject
<1> USE KindsAssumption, DescriptorsAssumption, NoFileAssumption
    DEF Tasks, Objects, Sockets, socketVars, watcherVars, sendVars, senderVars, termVars
<1>1. /\ TypeOK /\ TablePart /\ LifePart /\ BlockingPart /\ TermSettled /\ WatchPart
      /\ o \in Objects
  BY DEF IInv, TypeOK, TablePart
<1>2. TablePart' /\ Others(o)
  BY <1>1, SameTable DEF RunStop
<1>3. /\ queue' \in QueueType
      /\ \A p \in Tasks \ {o}: queue'[p] = queue[p]
  BY <1>1, TakeEffect DEF RunStop, TypeOK, QueueType, Functors
<1>4. TypeOK'
  <2>1. m_io' \in WatcherType
    BY <1>1, <1>2, WatcherSet DEF TypeOK, TablePart, WatcherType, RunStop, StopIo, Unlisted
  <2> QED
    BY <1>1, <1>2, <1>3, <2>1 DEF TypeOK, TablePart, QueueType, WatcherType, RunStop, StopIo,
       Unlisted
<1>5. LifePart' /\ BlockingPart' /\ TermSettled'
  BY <1>1, <1>2, <1>4 DEF LifePart, BlockingPart, TermSettled, Others, TypeOK, RunStop, StopIo,
     Unlisted
<1>6. Frame(o)
  BY <1>1, <1>2, <1>3 DEF Frame, TypeOK, QueueType, RunStop, StopIo, Unlisted
<1>7. ASSUME o \notin astray', ~NDebug, ~aborted' PROVE Sound(o)'
  <2>1. Sound(o)
    BY <1>1, <1>7 DEF WatchPart, RunStop
  <2>2. queue'[o]["start"] = queue[o]["start"]
    BY <1>1, TakeEffect DEF RunStop, TypeOK, QueueType, Functors
  <2>3. m_io'[o].fd = m_io[o].fd /\ ~m_io'[o].active /\ watch'[o] = {}
    BY <1>1, <2>1 DEF RunStop, StopIo, Unlisted, Sound, TypeOK
  <2>4. (Fit(o)' <=> Fit(o)) /\ (Idle(o) => Idle(o)') /\ (~Idle(o)' => ~Idle(o))
    BY <2>2, <2>3 DEF RunStop, Fit, Ready, Idle
  <2> QED
    BY <2>1, <2>3, <2>4 DEF Sound, Sending, RunStop
<1>8. WatchPart'
  BY <1>1, <1>2, <1>6, <1>7, WatchStep
<1> QED
  BY <1>2, <1>4, <1>5, <1>8 DEF IInv, TablePart, OneObject

\* An update moves an active watcher to the descriptor that it has already.
LEMMA RunUpdateStep ==
    ASSUME IInv, ~aborted, app' = app, NEW o \in Tasks,
           RunUpdate(o)
    PROVE  IInv' /\ OneObject
<1> USE KindsAssumption, DescriptorsAssumption, NoFileAssumption
    DEF Tasks, Objects, Sockets, socketVars, watcherVars, sendVars, senderVars, termVars
<1>1. /\ TypeOK /\ TablePart /\ LifePart /\ BlockingPart /\ TermSettled /\ WatchPart
      /\ o \in Objects
  BY DEF IInv, TypeOK, TablePart
<1>2. TablePart' /\ Others(o)
  BY <1>1, SameTable DEF RunUpdate
<1>3. /\ queue' \in QueueType
      /\ \A p \in Tasks \ {o}: queue'[p] = queue[p]
  BY <1>1, TakeEffect DEF RunUpdate, TypeOK, QueueType, Functors
<1>4. TypeOK'
  <2>1. m_io' \in WatcherType
    BY <1>1, <1>2, WatcherSet DEF TypeOK, TablePart, WatcherType, RunUpdate, Unlisted
  <2> QED
    BY <1>1, <1>2, <1>3, <2>1 DEF TypeOK, TablePart, QueueType, WatcherType, RunUpdate, Unlisted
<1>5. LifePart' /\ BlockingPart' /\ TermSettled'
  BY <1>1, <1>2, <1>4 DEF LifePart, BlockingPart, TermSettled, Others, TypeOK, RunUpdate, Unlisted
<1>6. Frame(o)
  BY <1>1, <1>2, <1>3 DEF Frame, TypeOK, QueueType, RunUpdate, Unlisted
<1>7. ASSUME o \notin astray', ~NDebug, ~aborted' PROVE Sound(o)'
  <2>1. Sound(o)
    BY <1>1, <1>7 DEF WatchPart, RunUpdate
  <2>2. queue'[o]["start"] = queue[o]["start"]
    BY <1>1, TakeEffect DEF RunUpdate, TypeOK, QueueType, Functors
  <2>3. m_io'[o].fd = m_fd[o] /\ m_io'[o].active = m_io[o].active
    BY <1>1 DEF RunUpdate, TypeOK
  <2>4. (Fit(o) => Fit(o)') /\ (Idle(o)' <=> Idle(o))
    BY <2>2, <2>3 DEF RunUpdate, Fit, Ready, Idle
  <2>5. watch'[o] = IF m_io[o].active THEN {m_fd[o]} ELSE {}
    <3>1. CASE m_io[o].active
      <4>1. watch[o] = {m_io[o].fd} /\ m_fd[o] \in Fds
        BY <1>1, <2>1, <3>1 DEF Sound, Idle, Fit, Ready, TypeOK
      <4> QED
        BY <1>1, <3>1, <4>1 DEF RunUpdate, Unlisted, TypeOK
    <3>2. CASE ~m_io[o].active
      BY <1>1, <2>1, <3>2 DEF RunUpdate, Sound, TypeOK
    <3> QED
      BY <3>1, <3>2
  <2> QED
    BY <2>1, <2>3, <2>4, <2>5 DEF Sound, Sending, RunUpdate
<1>8. WatchPart'
  BY <1>1, <1>2, <1>6, <1>7, WatchStep
<1> QED
  BY <1>2, <1>4, <1>5, <1>8 DEF IInv, TablePart, OneObject

\* Every operation keeps the invariant, and is about one object.
LEMMA Step == IInv /\ Next => IInv' /\ OneObject
<1> SUFFICES ASSUME IInv, Next PROVE IInv' /\ OneObject
  OBVIOUS
<1>1. ~aborted /\ app' = app
  BY DEF Next
<1>2. ASSUME NEW a \in Acceptors, AcceptorStep(a) PROVE IInv' /\ OneObject
  BY <1>1, <1>2, NewAcceptorStep, AcceptStep, AcceptFailsStep, DeleteAcceptorStep DEF AcceptorStep
<1>3. ASSUME NEW c \in Clients, DeleteClient(c) PROVE IInv' /\ OneObject
  BY <1>1, <1>3, DeleteClientStep
<1>4. ASSUME NEW s \in Senders, SenderStep(s) PROVE IInv' /\ OneObject
  BY <1>1, <1>4, NewSenderStep, SendStopsStep, SendClosesStep, SendConnectsStep,
     UpdateWatcherStep, FiresStep, HandledStep, DeleteSenderStep DEF SenderStep
<1>5. ASSUME NEW s \in Datagrams, DatagramStep(s) PROVE IInv' /\ OneObject
  BY <1>1, <1>5, NewDatagramStep, SetBlockingStep, BindDatagramStep, WriteStep,
     CloseDatagramStep DEF DatagramStep
<1>6. ASSUME NEW t \in Terms, TermStep(t) PROVE IInv' /\ OneObject
  <2>1. \A mode \in Modes: ModeSettings(mode) \in Settings
    BY DEF Modes, ModeSettings, Settings, Parities
  <2> QED
    BY <1>1, <1>6, <2>1, OpenTermStep, AddTermStep, OptionsFailStep, SetOptionsStep,
       DeleteTermStep DEF TermStep
<1>7. ASSUME NEW o \in Tasks, LoopStep(o) PROVE IInv' /\ OneObject
  BY <1>1, <1>7, RunStartStep, RunStopStep, RunUpdateStep DEF LoopStep
<1> QED
  BY <1>2, <1>3, <1>4, <1>5, <1>6, <1>7 DEF Next

\* The process starts with no object.
LEMMA InitInvariant == Init => IInv
<1> SUFFICES ASSUME Init PROVE IInv
  OBVIOUS
<1> USE KindsAssumption, DescriptorsAssumption, NoFileAssumption
    DEF Init, Tasks, Objects, Sockets, NewWatcher, EmptyQueue, Functors
<1>1. TypeOK
  <2>1. dev \in [Terms -> Flags]
    <3>1. [PARENB |-> FALSE, PARODD |-> FALSE, CSTOPB |-> FALSE] \in Flags
      BY DEF Flags
    <3> QED
      BY <3>1
  <2>2. wanted \in [Terms -> Settings]
    BY DEF Settings, Parities
  <2> QED
    BY <2>1, <2>2 DEF TypeOK
<1>2. OwnFile /\ NothingLost /\ FilesPart
  BY DEF OwnFile, NothingLost, FilesPart
<1>3. LifePart /\ BlockingPart /\ TermSettled
  BY DEF LifePart, BlockingPart, TermSettled
<1>4. WatchPart
  BY DEF WatchPart, Sound, Idle
<1> QED
  BY <1>1, <1>2, <1>3, <1>4 DEF IInv

\* The invariant holds after any list of operations, whichever of their system
\* calls fail.
THEOREM Invariant == Spec => []IInv
<1>1. ASSUME IInv, UNCHANGED vars PROVE IInv'
  BY <1>1 DEF IInv, TypeOK, OwnFile, NothingLost, FilesPart, LifePart, BlockingPart,
     TermSettled, WatchPart, Sound, Idle, Fit, Ready, Sending, vars, socketVars, watcherVars,
     sendVars, senderVars, termVars
<1>2. IInv /\ [Next]_vars => IInv'
  BY <1>1, Step
<1> QED
  BY <1>2, InitInvariant, PTL DEF Spec

\* Every variable keeps its type.
THEOREM TypeCorrect == Spec => []TypeOK
<1>1. IInv => TypeOK
  BY DEF IInv
<1> QED
  BY <1>1, Invariant, PTL

\* m_fd is -1, or the object's own open file: no close, read or write of one object
\* hits a descriptor that the kernel has meanwhile given to another.
THEOREM DescriptorsOwned == Spec => []OwnFile
<1>1. IInv => OwnFile
  BY DEF IInv
<1> QED
  BY <1>1, Invariant, PTL

\* Descriptors leak in three places only: socket::shutdown, socket::bind, and
\* term::open of a terminal that is open.
THEOREM LeaksKnown == Spec => []NothingLost
<1>1. IInv => NothingLost
  BY DEF IInv
<1> QED
  BY <1>1, Invariant, PTL

\* An open terminal has the settings it was last asked for.
THEOREM TerminalsSettled == Spec => []TermSettled
<1>1. IInv => TermSettled
  BY DEF IInv
<1> QED
  BY <1>1, Invariant, PTL

\* With assertions compiled in, a loop watches a task under the descriptor that the
\* task has, of a file that is ready for its handler, in every interleaving of
\* send(), handlers and queued functors; unless the task is astray.
THEOREM WatchersReady ==
    ASSUME ~NDebug
    PROVE  Spec => []WatchedReady
<1>1. IInv => WatchedReady
  <2> SUFFICES ASSUME IInv, ~aborted, NEW o \in Tasks \ astray, NEW f \in watch[o]
               PROVE  f = m_fd[o] /\ Ready(o)
    BY DEF WatchedReady
  <2>1. Sound(o)
    BY DEF IInv, WatchPart
  <2> QED
    BY <2>1 DEF Sound, Idle, Fit
<1> QED
  BY <1>1, Invariant, PTL

\* No operation, on whatever path, touches the descriptor of another object or
\* the file behind it.
THEOREM OneObjectPerStep == Spec => [][OneObject]_vars
<1>1. IInv /\ [Next]_vars => [OneObject]_vars
  BY Step
<1> QED
  BY <1>1, Invariant, PTL DEF Spec
=============================================================================
