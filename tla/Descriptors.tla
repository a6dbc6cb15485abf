---------------------------- MODULE Descriptors ----------------------------
(***************************************************************************)
(* The file descriptors of sockets and terminals, and of the tasks that    *)
(* own them: acceptor, the task of an accepted client, http_sender,        *)
(* serial_io_task, and datagram sockets of the application.  A task has a  *)
(* watcher, an ev_io with a copy of the descriptor; a loop watches the     *)
(* descriptor the watcher had when it was started.                         *)
(*                                                                         *)
(* An operation runs a list of system calls, of which one may fail; what   *)
(* the calls before it did stays.  The kernel gives out any number that is *)
(* free (other threads open files too), and none when the table is full.   *)
(* A name stands for one object after the other.                           *)
(*                                                                         *)
(* close, connect and init_watcher happen at once, on the thread that      *)
(* calls them; starting, stopping and updating a watcher is a functor that *)
(* the leader of the loop runs at once, and otherwise queues with some     *)
(* worker: a queued functor may run at any time, in any order.             *)
(***************************************************************************)
EXTENDS Naturals, Sequences

CONSTANTS
    Acceptors, Clients, Senders, Datagrams, Terms,  \* objects
    Remotes,        \* where a sender connects to
    Fds,            \* the descriptor table
    NoFd,           \* -1
    NDebug,         \* assertions are compiled out
    None,
    MaxPending,     \* bound: the functors of a kind that wait for a task, and the
                    \* handlers of a sender that run or have their event queued
    Applications    \* the sets of objects that an application may have

Sockets == Acceptors \cup Clients \cup Senders \cup Datagrams
Objects == Sockets \cup Terms
Tasks == Acceptors \cup Clients \cup Senders \cup Terms
Functors == {"start", "stop", "update"}

ASSUME DescriptorsAssumption ==
    /\ NDebug \in BOOLEAN /\ MaxPending \in Nat
    /\ None \notin Remotes /\ NoFd \notin Fds
    /\ Applications \subseteq SUBSET Objects
\* An object is of one kind.
ASSUME KindsAssumption ==
    /\ Acceptors \cap (Clients \cup Senders \cup Datagrams \cup Terms) = {}
    /\ Clients \cap (Senders \cup Datagrams \cup Terms) = {}
    /\ Senders \cap (Datagrams \cup Terms) = {}
    /\ Datagrams \cap Terms = {}

VARIABLES
    file,           \* kernel: per descriptor the open file, or None
    dev,            \* kernel: per terminal the flags of its device
    life,           \* per object: none, made, added to the dispatcher
    m_fd,           \* per object
    m_type, m_blocking, \* per socket
    m_io,           \* per task: the descriptor of its watcher, and ev_is_active
    watch,          \* libev: per task the descriptors whose lists hold its watcher
    queue,          \* per task: how many functors of each kind wait
    m_remote,       \* per sender
    busy,           \* per sender: handlers that run or have their event queued
    send, inside,   \* per sender: where its send() is, and whether a handler calls it
    failed,         \* per sender: its last connect failed
    wanted,         \* per terminal: the settings that open or set_options asked for
    app,            \* the objects of the application
    aborted,        \* an assertion has failed
    astray,         \* history: tasks whose descriptor was changed under their watcher
    reopened        \* history: terminals that were opened while they were open

socketVars == <<m_type, m_blocking>>
watcherVars == <<m_io, watch, queue>>
sendVars == <<m_remote, send, inside, failed>>
senderVars == <<sendVars, busy>>
termVars == <<dev, wanted, reopened>>
vars == <<file, life, m_fd, socketVars, watcherVars, senderVars, termVars, app, aborted, astray>>

Parities == {"NONE", "EVEN", "ODD"}
Settings == [parity: Parities, stop: {1, 2}]
Flags == [PARENB: BOOLEAN, PARODD: BOOLEAN, CSTOPB: BOOLEAN]
Files == [kind: {"stream", "dgram", "tty"}, nonblock: BOOLEAN, by: Objects,
          use: {"new", "bound", "listening", "connected", "shut"}]

ASSUME NoFileAssumption == None \notin Files

TypeOK ==
    /\ file \in [Fds -> Files \cup {None}]
    /\ dev \in [Terms -> Flags]
    /\ life \in [Objects -> {"none", "made", "added"}]
    /\ m_fd \in [Objects -> Fds \cup {NoFd}]
    /\ m_type \in [Sockets -> {"TCP", "UDP"}]
    /\ m_blocking \in [Sockets -> BOOLEAN]
    /\ m_remote \in [Senders -> Remotes \cup {None}]
    /\ m_io \in [Tasks -> [fd: Fds \cup {NoFd}, active: BOOLEAN]]
    /\ watch \in [Tasks -> SUBSET Fds]
    /\ queue \in [Tasks -> [Functors -> Nat]]
    /\ busy \in [Senders -> Nat]
    /\ send \in [Senders -> {"none", "close", "connect"}]
    /\ inside \in [Senders -> BOOLEAN] /\ failed \in [Senders -> BOOLEAN]
    /\ wanted \in [Terms -> Settings]
    /\ app \in Applications
    /\ aborted \in BOOLEAN
    /\ astray \subseteq Tasks /\ reopened \subseteq Terms

NewWatcher == [fd |-> NoFd, active |-> FALSE]
EmptyQueue == [f \in Functors |-> 0]

Init ==
    /\ file = [f \in Fds |-> None]
    /\ dev \in [Terms -> {[PARENB |-> FALSE, PARODD |-> FALSE, CSTOPB |-> FALSE]}]
    /\ life = [o \in Objects |-> "none"]
    /\ m_fd = [o \in Objects |-> NoFd]
    /\ m_type = [s \in Sockets |-> "TCP"]
    /\ m_blocking = [s \in Sockets |-> FALSE]
    /\ m_remote = [s \in Senders |-> None]
    /\ m_io = [o \in Tasks |-> NewWatcher]
    /\ watch = [o \in Tasks |-> {}]
    /\ queue = [o \in Tasks |-> EmptyQueue]
    /\ busy = [s \in Senders |-> 0]
    /\ send = [s \in Senders |-> "none"]
    /\ inside = [s \in Senders |-> FALSE] /\ failed = [s \in Senders |-> FALSE]
    /\ wanted = [t \in Terms |-> [parity |-> "NONE", stop |-> 1]]
    /\ app \in Applications
    /\ aborted = FALSE
    /\ astray = {} /\ reopened = {}
-----------------------------------------------------------------------------
(* System calls                                                            *)

\* What is called in turn; a call that fails throws.  fcntl is left out for a
\* blocking socket.
ListenPath == <<"socket", "fcntl", "bind", "chmod", "listen">>
ListenPort == <<"socket", "sockopt", "fcntl", "bind", "listen">>
Bind == <<"socket", "sockopt", "fcntl", "bind">>
ConnectPath == <<"socket", "connect", "fcntl">>
ConnectHost == <<"resolve", "socket", "connect", "fcntl">>

\* The calls before the one that fails; all if none does.
Done(calls, fail) == {calls[i]: i \in {j \in DOMAIN calls: \A k \in 1..j: calls[k] # fail}}

UseAfter(done) ==
    IF "connect" \in done THEN "connected"
    ELSE IF "listen" \in done THEN "listening"
    ELSE IF "bind" \in done THEN "bound" ELSE "new"

Fails(calls) == {calls[i]: i \in DOMAIN calls} \cup {"none"}

Ok(calls, fail) == \A i \in DOMAIN calls: calls[i] # fail

\* The file and the descriptor of object o after it has run the calls.
Run(o, kind, calls, fail) ==
    LET done == Done(calls, fail) IN
    /\ fail = "fcntl" => ~m_blocking[o]
    /\ IF "socket" \in done
         THEN \E f \in Fds:
                /\ file[f] = None
                /\ file' = [file EXCEPT ![f] =
                      [kind |-> kind, by |-> o, use |-> UseAfter(done),
                       nonblock |-> "fcntl" \in done /\ ~m_blocking[o]]]
                /\ m_fd' = [m_fd EXCEPT ![o] = f]
         ELSE UNCHANGED file /\ m_fd' = [m_fd EXCEPT ![o] = NoFd]

\* The descriptor table without the file of object o.
Closed(o) == [f \in Fds |-> IF f = m_fd[o] THEN None ELSE file[f]]

\* A mutated form of close: m_fd keeps its value.
close_kept(o) == file' = Closed(o) /\ UNCHANGED m_fd

close(o) == file' = Closed(o) /\ m_fd' = [m_fd EXCEPT ![o] = NoFd]

\* An assertion that fails ends the process.
AssertThat(holds) == aborted' = (~holds /\ ~NDebug)

Become(o, state) == life' = [life EXCEPT ![o] = state]
-----------------------------------------------------------------------------
(* Watchers                                                                *)

\* A functor is queued; the loop takes one.
Queue(o, f) == queue[o][f] < MaxPending /\ queue' = [queue EXCEPT ![o][f] = @ + 1]
Take(o, f) == queue[o][f] > 0 /\ queue' = [queue EXCEPT ![o][f] = @ - 1]

\* What the loop watches for o without, and with, a descriptor.
Unlisted(o) == watch[o] \ {m_io[o].fd}
Listed(o, fd) == watch[o] \cup ({fd} \cap Fds)

\* A mutated form of Add: a watcher that has a descriptor is not initialized again.
Add_initialized(o) ==
    /\ m_io' = [m_io EXCEPT ![o].fd = IF @ = NoFd THEN m_fd'[o] ELSE @]
    /\ Queue(o, "start") /\ UNCHANGED watch
    /\ Become(o, "added")

\* add_event_task: init_watcher takes the descriptor, whether the watcher is
\* active or not; the watcher is started by a functor.
Add(o) ==
    /\ m_io' = [m_io EXCEPT ![o].fd = m_fd'[o]]
    /\ Queue(o, "start") /\ UNCHANGED watch
    /\ Become(o, "added")

RunStart(o) ==
    /\ Take(o, "start")
    /\ m_io' = [m_io EXCEPT ![o].active = TRUE]
    /\ watch' = [watch EXCEPT ![o] = IF m_io[o].active THEN @ ELSE Listed(o, m_io[o].fd)]
    /\ UNCHANGED <<file, life, m_fd, socketVars, senderVars, termVars, aborted, astray>>

\* ev_io_stop, if the watcher is active: it leaves the list of the descriptor
\* that it has now.
StopIo(o) ==
    /\ m_io' = [m_io EXCEPT ![o].active = FALSE]
    /\ watch' = [watch EXCEPT ![o] = IF m_io[o].active THEN Unlisted(o) ELSE @]

RunStop(o) ==
    /\ Take(o, "stop")
    /\ StopIo(o)
    /\ UNCHANGED <<file, life, m_fd, socketVars, senderVars, termVars, aborted, astray>>

\* The functor of update_watcher: stop, set the descriptor of now, start.
RunUpdate(o) ==
    /\ Take(o, "update")
    /\ m_io' = [m_io EXCEPT ![o].fd = m_fd[o]]
    /\ watch' = [watch EXCEPT ![o] =
          IF m_io[o].active THEN Unlisted(o) \cup ({m_fd[o]} \cap Fds) ELSE @]
    /\ UNCHANGED <<file, life, m_fd, socketVars, senderVars, termVars, aborted, astray>>

\* dispose: the watcher is stopped, and goes with its task.  If the task was astray
\* libev may go on to list it under another descriptor, a watcher of no task then.
Dispose(o) ==
    /\ m_io' = [m_io EXCEPT ![o] = NewWatcher]
    /\ watch' = [watch EXCEPT ![o] = {}]
    /\ queue' = [queue EXCEPT ![o] = EmptyQueue]
    /\ astray' = astray \ {o}
    /\ Become(o, "none")

\* The descriptor of o is changed under its watcher if changed.
Strays(o, changed) == astray' = astray \cup {p \in {o}: changed}
-----------------------------------------------------------------------------
(* acceptor                                                                *)

\* The constructor listens, and catches what listen throws; then the task is
\* added.  A port makes the socket a UDP one, whatever it is used for.
NewAcceptor(a, calls, fail) ==
    /\ life[a] = "none"
    /\ Run(a, "stream", calls, fail)
    /\ m_type' = [m_type EXCEPT ![a] = IF calls = ListenPort THEN "UDP" ELSE "TCP"]
    /\ Add(a)
    /\ AssertThat(Ok(calls, fail))
    /\ UNCHANGED <<m_blocking, senderVars, termVars, astray>>

\* A task is made for the socket of a client, and added.
NewClientTask(c, f) == m_fd' = [m_fd EXCEPT ![c] = f] /\ Add(c)

\* handle_event: accept.  On Linux the new socket blocks, elsewhere it is like
\* the one that listens.  That the watcher of the acceptor is stopped and started
\* around it is left out: no handler but a sender's changes its task's descriptor.
Accept(a, c) ==
    /\ watch[a] # {} /\ m_fd[a] # NoFd /\ file[m_fd[a]].use = "listening"
    /\ life[c] = "none"
    /\ \E f \in Fds, nb \in {FALSE, file[m_fd[a]].nonblock}:
          /\ file[f] = None
          /\ file' = [file EXCEPT ![f] =
                [kind |-> "stream", by |-> c, use |-> "connected", nonblock |-> nb]]
          /\ NewClientTask(c, f)
    /\ UNCHANGED <<socketVars, senderVars, termVars, aborted, astray>>

\* accept throws: there is no descriptor left, or the client has gone.
AcceptFails(a) ==
    /\ watch[a] # {}
    /\ AssertThat(FALSE)
    /\ UNCHANGED <<file, life, m_fd, socketVars, watcherVars, senderVars, termVars, astray>>

\* The file is shut down and stays open, but its descriptor is forgotten.
shutdown(a) ==
    /\ file' = [f \in Fds |-> IF f = m_fd[a] THEN [file[f] EXCEPT !.use = "shut"] ELSE file[f]]
    /\ m_fd' = [m_fd EXCEPT ![a] = NoFd]

\* ~acceptor, after which ~net_io_task has nothing to close.
DeleteAcceptor(a) ==
    /\ life[a] = "added"
    /\ Dispose(a)
    /\ shutdown(a)
    /\ m_type' = [m_type EXCEPT ![a] = "TCP"]
    /\ UNCHANGED <<m_blocking, senderVars, termVars, aborted>>

DeleteClient(c) ==
    /\ life[c] = "added"
    /\ Dispose(c)
    /\ close(c)
    /\ UNCHANGED <<socketVars, senderVars, termVars, aborted>>
-----------------------------------------------------------------------------
(* http_sender                                                             *)

NewSender(s) ==
    /\ life[s] = "none"
    /\ Become(s, "made")
    /\ UNCHANGED <<file, m_fd, socketVars, watcherVars, senderVars, termVars, aborted, astray>>

\* The callback of the watcher stops it; its event is queued for a handler.
Fires(s) ==
    /\ watch[s] # {} /\ busy[s] < MaxPending
    /\ StopIo(s)
    /\ busy' = [busy EXCEPT ![s] = @ + 1]
    /\ UNCHANGED <<file, life, m_fd, queue, socketVars, sendVars, termVars, aborted, astray>>

\* The handlers of s that wait for a send() they have called.
Sending(s) == IF inside[s] THEN 1 ELSE 0

\* A handler returns, and wants to go on or not.  One that goes on although its
\* send() has failed starts a watcher that nobody has initialized for it.
Handled(s, cont) ==
    /\ busy[s] > Sending(s)
    /\ busy' = [busy EXCEPT ![s] = @ - 1]
    /\ IF cont THEN Queue(s, "start") ELSE UNCHANGED queue
    /\ Strays(s, cont /\ failed[s])
    /\ UNCHANGED <<file, life, m_fd, m_io, watch, socketVars, sendVars, termVars, aborted>>

connected(s) == m_fd[s] # NoFd

\* send() is called by a handler of s or by the application, not by both at once.
\* With a connection to another remote it first stops the watcher, which asserts
\* that there is one ...
SendStops(s, handler) ==
    /\ life[s] # "none" /\ send[s] = "none"
    /\ connected(s) /\ \E remote \in Remotes: m_remote[s] # remote
    /\ handler => busy[s] > 0
    /\ AssertThat(life[s] # "made")
    /\ Queue(s, "stop")
    /\ send' = [send EXCEPT ![s] = "close"]
    /\ inside' = [inside EXCEPT ![s] = handler]
    /\ UNCHANGED <<file, life, m_fd, m_io, watch, m_remote, failed, busy, socketVars, termVars, astray>>

\* A mutated form of SendCloses: the descriptor is forgotten, not closed.
SendCloses_forgotten(s, remote) ==
    /\ send[s] = "close" /\ m_remote[s] # remote
    /\ Strays(s, watch[s] # {} \/ queue[s]["start"] > 0 \/ busy[s] > Sending(s))
    /\ m_fd' = [m_fd EXCEPT ![s] = NoFd]
    /\ m_remote' = [m_remote EXCEPT ![s] = remote]
    /\ send' = [send EXCEPT ![s] = "connect"]
    /\ UNCHANGED <<file, life, inside, failed, busy, watcherVars, socketVars, termVars, aborted>>

\* ... and closes the connection, whether the watcher has been stopped by then or
\* not.  The task goes astray if the loop watches it, or is going to: a start is
\* queued, or a handler runs that this send() is not part of.
SendCloses(s, remote) ==
    /\ send[s] = "close" /\ m_remote[s] # remote
    /\ Strays(s, watch[s] # {} \/ queue[s]["start"] > 0 \/ busy[s] > Sending(s))
    /\ close(s)
    /\ m_remote' = [m_remote EXCEPT ![s] = remote]
    /\ send' = [send EXCEPT ![s] = "connect"]
    /\ UNCHANGED <<life, inside, failed, busy, watcherVars, socketVars, termVars, aborted>>

\* Then, or if there was no connection: connect, and add the task.
SendConnects(s, remote, calls, fail) ==
    /\ life[s] # "none" /\ ~connected(s)
    /\ \/ send[s] = "none"
       \/ send[s] = "connect" /\ m_remote[s] = remote
    /\ m_remote' = [m_remote EXCEPT ![s] = remote]
    /\ Run(s, "stream", calls, fail)
    /\ IF Ok(calls, fail) THEN Add(s) ELSE UNCHANGED <<life, watcherVars>>
    /\ failed' = [failed EXCEPT ![s] = ~Ok(calls, fail)]
    /\ send' = [send EXCEPT ![s] = "none"] /\ inside' = [inside EXCEPT ![s] = FALSE]
    /\ UNCHANGED <<busy, socketVars, termVars, aborted, astray>>

\* send() to the same remote, and a handler that has sent its request: update_watcher.
UpdateWatcher(s) ==
    /\ life[s] # "none" /\ send[s] = "none" /\ connected(s)
    /\ AssertThat(life[s] # "made")
    /\ Queue(s, "update")
    /\ UNCHANGED <<file, life, m_fd, m_io, watch, senderVars, socketVars, termVars, astray>>

\* ~net_io_task
DeleteSender(s) ==
    /\ life[s] # "none"
    /\ Dispose(s)
    /\ close(s)
    /\ m_remote' = [m_remote EXCEPT ![s] = None]
    /\ busy' = [busy EXCEPT ![s] = 0] /\ send' = [send EXCEPT ![s] = "none"]
    /\ inside' = [inside EXCEPT ![s] = FALSE] /\ failed' = [failed EXCEPT ![s] = FALSE]
    /\ UNCHANGED <<socketVars, termVars, aborted>>
-----------------------------------------------------------------------------
(* Datagram sockets of the application                                     *)

\* The constructor opens a socket, or throws.
NewDatagram(s, fail) ==
    /\ life[s] = "none"
    /\ Run(s, "dgram", <<"socket">>, fail)
    /\ IF fail = "socket" THEN UNCHANGED <<life, m_type>>
       ELSE Become(s, "made") /\ m_type' = [m_type EXCEPT ![s] = "UDP"]
    /\ UNCHANGED <<m_blocking, watcherVars, senderVars, termVars, aborted, astray>>

set_blocking(s) ==
    /\ life[s] = "made" /\ s \in Datagrams
    /\ m_blocking' = [m_blocking EXCEPT ![s] = TRUE]
    /\ UNCHANGED <<file, life, m_fd, m_type, watcherVars, senderVars, termVars, aborted, astray>>

\* bind() opens another socket.
BindDatagram(s, fail) ==
    /\ life[s] = "made"
    /\ m_fd[s] # NoFd => file[m_fd[s]].use = "new"
    /\ m_type' = [m_type EXCEPT ![s] = "UDP"]
    /\ Run(s, "dgram", Bind, fail)
    /\ UNCHANGED <<life, m_blocking, watcherVars, senderVars, termVars, aborted, astray>>

\* write() opens a socket if there is none.
Write(s, fail) ==
    /\ life[s] = "made" /\ m_fd[s] = NoFd /\ m_type[s] = "UDP"
    /\ Run(s, "dgram", <<"socket">>, fail)
    /\ UNCHANGED <<life, socketVars, watcherVars, senderVars, termVars, aborted, astray>>

CloseDatagram(s) ==
    /\ life[s] = "made"
    /\ close(s)
    /\ UNCHANGED <<life, socketVars, watcherVars, senderVars, termVars, aborted, astray>>
-----------------------------------------------------------------------------
(* term                                                                    *)

\* A mutated form of SetFlags: even parity keeps the flag of odd parity.
SetFlags_parodd(flags, req) ==
    [PARENB |-> req.parity # "NONE",
     PARODD |-> flags.PARODD \/ req.parity = "ODD",
     CSTOPB |-> req.stop = 2]

\* The changes that open makes to the flags that it has read.
SetFlags(flags, req) ==
    [PARENB |-> req.parity # "NONE",
     PARODD |-> IF req.parity = "NONE" THEN flags.PARODD ELSE req.parity = "ODD",
     CSTOPB |-> req.stop = 2]

\* What open() makes of a termmode_t.
Modes == {"8N1", "7S1", "7E1", "7O1"}
ModeSettings(mode) ==
    [parity |-> CASE mode = "7E1" -> "EVEN" [] mode = "7O1" -> "ODD" [] OTHER -> "NONE",
     stop |-> 1]

\* open(), of a closed terminal or of an open one, whose descriptor is overwritten.
\* It throws if there is no such device, one of the calls behind it fails, or for
\* two stop bits, and then the device is closed again.
OpenTerm(t, req, ok) ==
    /\ ok => req.stop = 1
    /\ reopened' = reopened \cup {p \in {t}: m_fd[t] # NoFd}
    /\ Strays(t, life[t] = "added")
    /\ IF ok
         THEN /\ wanted' = [wanted EXCEPT ![t] = req]
              /\ dev' = [dev EXCEPT ![t] = SetFlags(@, req)]
              /\ life' = [life EXCEPT ![t] = IF @ = "none" THEN "made" ELSE @]
              /\ \E f \in Fds:
                    /\ file[f] = None
                    /\ file' = [file EXCEPT ![f] =
                          [kind |-> "tty", by |-> t, use |-> "new", nonblock |-> TRUE]]
                    /\ m_fd' = [m_fd EXCEPT ![t] = f]
         ELSE /\ m_fd' = [m_fd EXCEPT ![t] = NoFd]
              /\ UNCHANGED <<wanted, dev, life, file>>
    /\ UNCHANGED <<socketVars, watcherVars, senderVars, aborted>>

\* The task of an open terminal is added.
AddTerm(t) ==
    /\ life[t] = "made" /\ m_fd[t] # NoFd
    /\ UNCHANGED m_fd
    /\ Add(t)
    /\ UNCHANGED <<file, socketVars, senderVars, termVars, aborted, astray>>

\* options() and set_options() close the device when they fail; the watcher stays
\* as it is.
OptionsFail(t) ==
    /\ m_fd[t] # NoFd
    /\ close(t)
    /\ Strays(t, life[t] = "added")
    /\ UNCHANGED <<life, socketVars, watcherVars, senderVars, termVars, aborted>>

SetOptions(t, req) ==
    /\ m_fd[t] # NoFd
    /\ wanted' = [wanted EXCEPT ![t] = req]
    /\ dev' = [dev EXCEPT ![t] = [PARENB |-> req.parity # "NONE", PARODD |-> req.parity = "ODD",
                                  CSTOPB |-> req.stop = 2]]
    /\ UNCHANGED <<file, life, m_fd, socketVars, watcherVars, senderVars, reopened, aborted, astray>>

\* ~serial_io_task
DeleteTerm(t) ==
    /\ life[t] # "none"
    /\ Dispose(t)
    /\ close(t)
    /\ UNCHANGED <<socketVars, senderVars, termVars, aborted>>
-----------------------------------------------------------------------------
AcceptorStep(a) ==
    \/ \E calls \in {ListenPath, ListenPort}: \E fail \in Fails(calls): NewAcceptor(a, calls, fail)
    \/ \E c \in Clients \cap app: Accept(a, c)
    \/ AcceptFails(a) \/ DeleteAcceptor(a)

SenderStep(s) ==
    \/ NewSender(s)
    \/ \E handler \in BOOLEAN: SendStops(s, handler)
    \/ \E remote \in Remotes: SendCloses(s, remote)
    \/ \E remote \in Remotes, calls \in {ConnectPath, ConnectHost}:
          \E fail \in Fails(calls): SendConnects(s, remote, calls, fail)
    \/ UpdateWatcher(s)
    \/ Fires(s)
    \/ \E cont \in BOOLEAN: Handled(s, cont)
    \/ DeleteSender(s)

DatagramStep(s) ==
    \/ \E fail \in {"socket", "none"}: NewDatagram(s, fail)
    \/ set_blocking(s)
    \/ \E fail \in Fails(Bind): BindDatagram(s, fail)
    \/ \E fail \in {"socket", "none"}: Write(s, fail)
    \/ CloseDatagram(s)

TermStep(t) ==
    \/ \E req \in Settings, ok \in BOOLEAN: OpenTerm(t, req, ok)
    \/ \E mode \in Modes, ok \in BOOLEAN: OpenTerm(t, ModeSettings(mode), ok)
    \/ \E req \in Settings: SetOptions(t, req)
    \/ AddTerm(t) \/ OptionsFail(t) \/ DeleteTerm(t)

LoopStep(o) == RunStart(o) \/ RunStop(o) \/ RunUpdate(o)

Next ==
    /\ ~aborted
    /\ \/ \E a \in Acceptors \cap app: AcceptorStep(a)
       \/ \E c \in Clients \cap app: DeleteClient(c)
       \/ \E s \in Senders \cap app: SenderStep(s)
       \/ \E s \in Datagrams \cap app: DatagramStep(s)
       \/ \E t \in Terms \cap app: TermStep(t)
       \/ \E o \in Tasks \cap app: LoopStep(o)
    /\ UNCHANGED app

Spec == Init /\ [][Next]_vars
-----------------------------------------------------------------------------
(* Safety                                                                  *)

\* The descriptor of an object is an open file that this object has opened, or
\* got from accept: nobody closes, reads or writes a number that meanwhile
\* belongs to another object.
OwnFile ==
    \A o \in Objects: m_fd[o] # NoFd => file[m_fd[o]] # None /\ file[m_fd[o]].by = o

\* An open file is known to its object, with three exceptions: shutdown() forgets
\* the one of an acceptor, bind() replaces the one of a datagram socket, and open()
\* the one of a terminal that is open.
NothingLost ==
    \A f \in Fds: file[f] # None /\ m_fd[file[f].by] # f =>
        \/ file[f].use = "shut"
        \/ file[f].kind = "dgram" /\ file[f].use = "new"
        \/ file[f].kind = "tty" /\ file[f].by \in reopened

\* The descriptor of a task is ready for its handler.
Ready(o) ==
    /\ m_fd[o] # NoFd
    /\ o \in Acceptors => file[m_fd[o]].use = "listening"
    /\ o \in Clients \cup Senders => file[m_fd[o]].use = "connected"
    /\ o \in Terms => file[m_fd[o]].kind = "tty"
    /\ o \notin Clients => file[m_fd[o]].nonblock

\* What a loop watches for a task is the descriptor that the task has, and ready
\* for its handler: a socket that listens, one that is connected, or a terminal,
\* and it does not block ("Create a non-blocking master socket"), but for accepted
\* ones.  The exceptions are the tasks astray: a sender whose connection was closed
\* before its watcher was stopped (the stop is a functor, the close is not) or whose
\* handler went on after a failed connect, and a terminal that was closed by a
\* failure, or opened again, after it had been added.
WatchedReady ==
    ~aborted => \A o \in Tasks \ astray: \A f \in watch[o]: f = m_fd[o] /\ Ready(o)

Parity(flags) == IF ~flags.PARENB THEN "NONE" ELSE IF flags.PARODD THEN "ODD" ELSE "EVEN"

\* An open terminal has the settings that open() or set_options() was called
\* with, whatever the device was used for before; what fails leaves it closed.
TermSettled ==
    \A t \in Terms: m_fd[t] # NoFd =>
        /\ Parity(dev[t]) = wanted[t].parity
        /\ dev[t].CSTOPB = (wanted[t].stop = 2)
=============================================================================
