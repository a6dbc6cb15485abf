# A TLA+ model of libtasks

libtasks is a C++ library for I/O tasks on top of libev. Its core is a pool of
worker threads that follow the leader/followers pattern, an unlocked hand-over of
one event loop from thread to thread, and tasks whose watchers, handlers and
deletion run on whichever thread leads at the time. Around it are a pool of
executor threads for blocking work, and network tasks (HTTP, uwsgi, thrift).

This directory holds TLA+ modules for the concurrent core, the messages, the descriptors and the
tools, TLC configurations that check them on small instances, and TLAPS proofs, for instances of any
size, of every safety property that the runs check. `PROJECT.json` is the machine-readable index:
components, runs, the source lines behind every definition, findings, hazards and theorems.

## Inventory

| component | state | operations | hard behaviour |
|---|---|---|---|
| dispatcher, `tasks/dispatcher.cpp` | `m_workers_busy` (a bit that is set is a *free* worker), `m_last_worker_id`, `m_term`, the workers, the executors | `start`, `join`, `terminate`, `destroy`, `free_worker`, `add_free_worker`, `get_worker_by_task`, signal handlers | start and shutdown against running workers; the bitset is read and written without a lock |
| worker, `tasks/worker.cpp`, `worker.h` | `m_leader`, `m_loop`, `m_term`, `m_events_queue`, the queue of functors | `run`, `promote_leader`, `set_event_loop`, `mark_free`, `exec_in_worker_ctx`, `async_call`, `terminate` | the loop changes hands in four unlocked steps; functors are queued with one worker and run by another |
| executors, `tasks/executor.cpp` | list of executors; per executor `m_busy`, `m_term`, `m_task`, a mutex and a condition variable | `exec`, `free_executor`, `add_exec_task`, `executor::run`, idle timeout, destruction | the idle timeout races with the claim of an idle executor; threads are joined under a mutex |
| event tasks, `task.cpp`, `event_task.cpp`, `io_task_base.cpp`, `net_io_task.cpp` | assigned worker, watcher, `m_events`, `m_can_dispose`, error | `add_task`, `start_watcher`, `update_watcher`, `handle_event`, `finish_task`, `dispose`, `cleanup_task` | order of functors that wait in different queues; deletion while another thread still has the task |
| timer and disk tasks | watcher or pending event | start, stop, immediate execution, op | as for event tasks |
| acceptor, uwsgi task, thrift processors, HTTP sender | socket, request, response, handler | accept, read, process, `send_response`, `send` | answers given by other threads; a task that adds itself again |
| HTTP and uwsgi messages | `io_state`, two buffers with read and write positions | `read_data`, `write_data`, parsing | the stream is cut anywhere; short reads and writes; 16 bit arithmetic |
| thrift client, `uwsgi_thrift_client.h` | socket, a `uwsgi_request`, an `http_response` | `open`, `write`, `flush`, `readEnd`, `close` | it blocks until the server has answered; objects are used again after calls that failed |
| queue, spinlock, `tools/` | nodes, `m_first`, `m_last`, a lock for each end | `push`, `pop` | unlocked reads of the neighbour's end of the queue; nodes are deleted outside of the lock |
| buffer, bitset | bytes with a read and a write position; bits | `set_size`, `write`, `next` | part of the modules of their users |
| sockets, serial terminals | `m_fd`, `m_type`, `m_blocking`; the flags of a device | `listen`, `bind`, `accept`, `connect`, `shutdown`, `close`, `open`, `set_options` | one of several system calls fails; numbers of closed descriptors come back |
| logging, version, exceptions | none | text and error values | none |

Interaction. The application calls the dispatcher (`start`/`run`, `add_task`,
`terminate`, `destroy`, `exec`). libev calls back into the worker that is the user
data of the loop; the callback queues an event with that worker. After `ev_loop`
returns, the worker promotes a free one and calls `handle_event` of the queued tasks.
Whatever touches a watcher goes through `exec_in_worker_ctx`: it runs at once if the
caller is the thread that leads, otherwise it is queued with a worker, whose async
watcher wakes up the loop. Executor threads and asynchronous thrift handlers call
back into the dispatcher from threads that are no workers.

What makes the parts correct:

* dispatcher and workers: never two threads in one loop; only an idle worker is
  promoted; no event is left in the queue of a worker that waits or has ended; every
  event is handled, every queued call collected; `join` returns, and only then have
  all threads ended;
* executors: an executor is claimed by one caller at a time, every task runs exactly
  once, nobody refers to a destroyed executor, calls return;
* event tasks: no access to a deleted task, one handler per task at a time, a task is
  never forgotten by its loop, an ended task is deleted, a response gets sent;
* HTTP sender, uwsgi task, thrift client and messages: what is read does not depend on
  how the stream is cut; what is written is a prefix of the message, and all of it in
  the end; a call gets its own answer, and client and server do not wait for each other;
* queue: it is a FIFO queue, no thread uses a node that another one has deleted;
* sockets and terminals: an object uses and closes only its own descriptor, none is
  lost, and what a loop watches is ready for its handler.

## Modules

| module | models | how |
|---|---|---|
| `Dispatcher` | `dispatcher` and `worker`, both run modes | one step per access to state that two threads share. `pc[w]` follows `worker::run`, `promote_leader` and `bitset::next`; `main` and `mi` follow the application's thread through `start`, `join`, `destroy`. Handlers and watchers are reduced to the number of queued events and to the pending wake-up of a loop |
| `LeaderFollowers` | the abstract pattern | a role per thread; leadership passes in one step |
| `DispatcherInv` | the inductive invariant `IInv` | used by a run and by the proofs |
| `DispatcherProofs` | theorems about `Dispatcher`, with the safety part of the refinement of `LeaderFollowers` | TLAPS; one case per action |
| `Executors` | `executor::run`, `free_executor`, `add_exec_task`, `~executor`, `~dispatcher` | `thread[e]` follows the executor's thread, `call[c]` a caller of `exec`; executors call `exec` too, from the task they run |
| `EventTasks` | tasks on running workers | functors, events and watchers are explicit. `at[w]` follows a worker through a poll, the functors it runs, its handlers and what follows each; `op[t]` follows the finish callback of an asynchronous handler |
| `HttpBase` | `http_base::write_data` | numbers of bytes that are still to be written |
| `HttpSender` | `http_sender`, the request it writes (an instance of `HttpBase`), `http_response::read_data` and its parser, `buffer` | the stream is a sequence of bytes of which each read takes a prefix. `at` follows the loop of `read_data`: `loop`, `parse`, `check`; one step per line that is parsed |
| `UwsgiTask` | the server: `uwsgi_task`, `uwsgi_request` as its reader, the thrift processor's handler, the response (an instance of `HttpBase`) | one connection after the other; `at` follows `read_data` and `parse_vars`, one step per read and per variable |
| `ThriftCall` | extends `UwsgiTask` by the client: `uwsgi_thrift_client` and `prepare_data_buffer` | the composition of both sides over a connection; `call` follows `flush`, one step per system call |
| `SpinQueue` | `tools::queue`, `tools::spinlock` | one step per access to shared memory; `pc[t]` follows `push` and `pop` |
| `Fifo` | the abstract queue | push and pop in one step each |
| `Descriptors` | `socket`, `io_base`, `term`, the tasks that own them (`acceptor`, accepted clients, `http_sender`, `serial_io_task`), datagram sockets, and the watchers of the tasks | an operation runs a list of system calls (`ListenPath`, `Bind`, `ConnectHost`, ...), any of which may fail; the kernel's table of open files is explicit, and so are the descriptor that a watcher has copied (`m_io`), the lists of libev that hold it (`watch`) and the functors that wait (`queue`) |
| `ExecutorsProofs`, `EventTasksProofs`, `HttpSenderProofs`, `ThriftCallProofs`, `SpinQueueProofs`, `DescriptorsProofs` | the inductive invariants of these modules and theorems about them | TLAPS |
| `ListLemmas` | lemmas about lists without duplicates, and about lists put together | what erasing, appending and taking off leave; where the parts of a concatenation and of `FlattenSeq` begin and end |
| `MCDispatcher`, `MCExecutors`, `MCEventTasks`, `MCHttpSender`, `MCThriftCall`, `MCSpinQueue`, `MCDescriptors` | instances for TLC | symmetry sets, layouts of responses, lists of variables |

The variables keep the names of the data members. Definitions that end in a word such
as `_dropped` or `_always` and are introduced by "a mutated form" are plausible bugs; no
specification uses them. They show that each property can fail.

### Abstractions

* `Dispatcher`: an event is a unit in a counter, a call of `ev_loop` delivers up to
  `MaxBatch` of them. The 8-bit worker ids are kept (`NumWorkers \in 1..255`).
  `bitset::next` is a scan bit by bit, during which other threads set bits.
  `std::thread` is external: ending the process on a joinable thread is `Abort`.
* `Executors`: `IdleRuns` replaces ten times the timeout in seconds. A caller may be the
  one that destroys an executor, because it holds the last `shared_ptr`.
* `EventTasks` starts where `start` ends and has no shutdown. A promotion is one step,
  and a worker's queue is its own; both are justified by what `Dispatcher` is shown to
  do (the refinement of `LeaderFollowers`, `LoopSafe` and `EventsNotStranded`). A thread
  that is no worker gets any worker from `get_worker_by_task`, which covers a stale
  `m_last_worker_id` and every value of the round-robin counter. An asynchronous task
  reads any number of requests, also while the handler of an earlier one is at work: it is
  deleted then (`replaced`), and that its thread goes on with it is an access to a deleted
  object, whose effects are not followed; `op` goes on with the new handler. Without
  an error of the task the callback always queues `send_response`. The model stops at the
  first access to a deleted object (`crashed`). `update_watcher` is modelled without
  `m_change_pending`: what it skips is an update to what is set, or queued to be set. Left
  out: `auto_delete(false)`, the `on_finish` and `on_error` functors, times. A timer may
  fire whenever it is active.

* `HttpSender`: the text of a line is one byte, which carries what the parser makes of it,
  so that the lengths are smaller than real ones but every position and comparison
  of the code is there. The server is external; the layout of its responses is that of
  `http_response::prepare_data_buffer`, with further headers and errors. The watchers
  are those of `EventTasks`, here `m_events` says what the sender waits for. A response
  whose parsing goes on in the middle of another one (after one that was complete too
  early, see below) is refused as invalid. The history variable `misread`, which the code
  does not have, says that `read_data` has met one of two coincidences of lengths (`Misreads`): a
  response counts as complete before its headers are, or it fills the buffer exactly. The
  properties about what the handler sees except what follows such a step.

* `UwsgiTask`, `ThriftCall`: the unit is a word of two bytes, the size of a length; a key
  is one word, a value one or, from `Base` on, two, so that a shorter `CONTENT_LENGTH` does
  not overwrite a longer one. The packet header is two words, and less than that is the
  short read that `read_header` refuses. `Trailer` is the one effect of the buffer that
  matters: writing the header into its room extends the buffer, so that four bytes nobody
  wrote follow the variables, and `datasize`, which counts the header, makes the reader
  parse them. They are zero, hence an empty variable, in a new object, and old bytes in an
  object that was used for a request with more variables. Text that is taken for a length
  fails the assertion of `buffer::ptr` or reads other memory; both are alternatives. A
  response is `HeaderSize` words that say how long its content is; how its lines are
  parsed is in `HttpSender`. `Complete` is the comparison of `http_response.cpp:62`: also a part
  of the headers is complete if it is as long as the content is said to be, which is what `misread`
  stands for here. A read may fill the buffer at any length, and then `read_data` reads again
  (`:69`), also after the response is complete, and may throw or wait for ever. The
  content carries the number of the call that it answers; `reply` is a history of the last
  answer that the server has made. Handlers
  answer at once; those that answer later are in `EventTasks`. The sockets of accepted
  clients block or not, depending on the platform (`nonblock`); the client's blocks. The
  fault model: `connect`, `write` and `read` fail, the server's process ends at any time,
  the application gives up a call, keeps the object or makes a new one.

* `SpinQueue`: a spinlock is the thread that holds it; spinning is waiting. Two accesses
  that no lock orders (`m_first->next` against `m_last->next`, the deletion of the old node)
  are steps of their own. An address is free again as soon as its node is deleted. `chain` is a
  history variable that the code does not have: the order in which nodes were linked.

* `Descriptors`: the system calls of one `listen`, `bind`, `connect` or `open` are one step;
  between the steps of one object those of any other happen, on other threads. `send()` to
  another remote is three: it stops the watcher, closes, and connects and adds the task; handlers
  and functors of the same task run in between. It is called by a handler of the sender or by the
  application, one call at a time. A functor is queued and runs at any time and in any order,
  which covers the queues of several workers, both run modes, and the leader, which runs it at
  once. `ev_io_set` (in `init_watcher`) changes the descriptor of a watcher whether it is active
  or not; `ev_io_start` lists it under the descriptor it has then, and `ev_io_stop` looks for it
  under the one it has when it is stopped. The watchers of acceptors, clients and terminals
  are not stopped and started around their handlers, which do not change the descriptor;
  those of senders are (`Fires`, `Handled`). A watcher goes with its task: what libev keeps of
  one that was astray is a defect of its own, which is not followed. The kernel gives out any free
  number. A name stands for one object after the other. An application has the objects of one
  of the sets in `Applications` (`app`). Terminals are opened, again while they are open if the
  application likes, and added while they are open; a datagram socket is bound once. Copies of a
  socket, which share a descriptor, exist only while `accept` hands a client over. `NDebug` says
  whether the assertions are there. The history variables `astray` and `reopened`,
  which the code does not have, are the tasks whose descriptor was changed under their watcher
  and the terminals that were opened twice; the properties except them.

## Runs

| run | instance | shows |
|---|---|---|
| `dispatcher_single` | 3 workers, one loop | safety of promotion, start and join; events are handled, calls collected, workers become free again, `join` returns; the implementation refines `LeaderFollowers`, its fairness included; `IInv` holds in every reachable state |
| `dispatcher_multi` | 2 workers, a loop each, 2 events per poll | calls are collected and `join` returns in `MULTI_LOOP` mode (the invariants are proved for both modes) |
| `executors_safety` | 2 clients, 3 executors, 3 tasks | exclusive claims, single execution, no dangling reference |
| `executors_live` | 2 clients, 2 executors, 2 tasks | stored tasks run, `exec` returns, idle executors end, destruction ends |
| `tasks_single` | 2 workers, one loop, a task with asynchronous handlers that answer, its cleanup task | one handler at a time; a task is watched again and again until it ends; an ended one is deleted, retries included; each up to the first access to a deleted object |
| `tasks_multi` | 2 workers with a loop each, acceptor, reconnecting sender, timer, disk task | tasks stay with their worker; one handler at a time, although the sender stops and adds itself from its handler |
| `tasks_respond` | 2 workers, one task with asynchronous handlers, one signal, removal by other threads | a deleted task is not used, but for a `send_response` that was queued before the deletion and after a removal from outside; a response is not left behind a watcher that waits for input |
| `http_sender` | 2 requests with 0 or 1 bytes of content, 6 layouts of responses, 0, 4 or 6 bytes of content | the handler sees what was sent however it was cut, the buffer is never overrun, a complete response is not lost when the server closes (the two coincidences of lengths that `misread` stands for excepted), every request is answered or the task ends |
| `thrift_call` | 2 calls, 3 lists of variables, 0 to 2 words of content, answers of 0 to 2 words, new and used objects, packets of another kind, failures and crashes | the handler finds what the client wrote, however the stream is cut, and the parser is misled only by bytes of an earlier request; a call returns, word for word, the answer that the server made for it, unless `done()` was true inside of the headers; client and server do not wait for each other |
| `queue` | 2 producers, 2 consumers, 3 pushes, 4 addresses | no access to a deleted node, nothing deleted twice or left; the queue implements `Fifo`; every value is popped |
| `descriptors` | an acceptor and a sender with 2 remotes, or an acceptor with a client, a datagram socket and a terminal; 3 descriptors, 2 functors of a kind and 2 handlers of the sender at once | an object never holds a number that belongs to another one; nothing is lost but what `shutdown()`, `bind()` and `open()` of an open terminal forget; what a loop watches for a task is the descriptor that the task has, and it listens or is connected and does not block, unless the descriptor was changed under the watcher; a terminal has the settings it was opened with |

One run is marked `violation` in `PROJECT.json`: it states what a comment and a test
say, and TLC finds a behaviour of the code that contradicts it:

| run | the code |
|---|---|
| `executors_lost` | an executor that is claimed while it reaches its idle timeout takes a task that nobody runs |

More disagreements of the same kind, which the modules contain and for which no run is
kept. Each is a property of its module that TLC violates in seconds, with two workers
and one task where nothing else is said, or a definition that shows it by itself:

| definition | the code |
|---|---|
| `Dispatcher!BlocksUntilTerminate` | `join` takes a spurious wake-up of its condition variable for `terminate()` (`dispatcher.cpp:103`; `dispatcher.h:133` says "blocks until terminate() gets called") |
| `EventTasks!OneHandler` with `SINGLE_LOOP`, `Reconnecting = {a}` | a sender that connects elsewhere from its response handler adds its task again (`http_sender.h:114`) and can be handled by two workers at once (`worker.cpp:99` says that the watcher is active again after the handler) |
| `EventTasks!NoUseAfterFree` without its exception for `"respond"` | the finish callback of the asynchronous processor queues `send_response` and enables the disposal (`uwsgi_thrift_async_processor.h:80-85`); when the peer closes, the task can be deleted before the functor runs (`:104` says "Make sure the object is kept until the m_handler finishes") |
| `EventTasks!ResetHandler`; `replaced = {}` as an invariant of `tasks_single` | a second request that is read while the handler of the first is at work deletes that handler (`uwsgi_thrift_async_processor.h:56`), whose thread goes on with it; and the first to finish enables the disposal under the other |
| `HttpSender!HandledAsSent` without `misread`, with `Block = 8`, `Slack = 1`, `HeaderSize = 1`, `RequestSizes = {0}`, `Layouts = {<<"S", "L">>}`, `Lengths = {6}`, `MaxRequests = 1` | a response is complete too early when a read ends inside the headers, behind `Content-Length`, at an offset equal to its value (`http_response.cpp:62`; `http_base.h:133` says "True after an HTTP object has been read from a socket and parsed") |
| `ThriftCall!SeenAsSent` without `clean` | a request object that is used again for fewer variables, or for a `CONTENT_LENGTH` with fewer digits, sends four bytes of the earlier request (`uwsgi_request.cpp:115`; `http_sender.h:58` says "Reset the request buffer to be able to reuse the same object again") |
| `ThriftCall!CallReturns` without `modifier1 # 0` | a packet that is not `UWSGI_VARS` never reaches the branch of `uwsgi_task.cpp:27` ("No suuport for anything else for now") that refuses it, because `read_vars` leaves it in `READ_DATA`; both sides wait. The constructors of `uwsgi_request` that the thrift client uses leave `modifier1` uninitialised (`uwsgi_request.h:37`) until the first `clear()` |
| `ThriftCall!CallReturns`, `SeenAsSent`, `ReplyIsOurs` without `fresh` | a client object that is used again after a call that failed, or after a oneway call, for which generated code does not call `readEnd`, keeps its request and its response (`uwsgi_thrift_client.h:55`): the next call sends what was left or nothing, and returns the old answer or waits |
| `ThriftCall!ReplyIsOurs` without `misread` | the client uses the same `read_data`: an answer as long as the headers before their last line is returned before it has been read (`http_response.cpp:62`) |
| `Descriptors!WatchedReady` without `astray` | to connect elsewhere, `send()` stops the watcher by a functor and closes at once (`http_sender.h:100-101`; the comment above says "Stop the watcher and close an existing connection"): off the leader's thread the loop watches a closed number, which the next `open` of any thread gets, and `init_watcher` (`dispatcher.cpp:214`) gives an active watcher another descriptor. A handler that goes on although its `send()` has failed to connect starts a watcher of the connection that was closed (`worker.cpp:103`). `options()` and `set_options()` close the device under the watcher of its task when they fail (`term.cpp:22`, `:34`) |
| `Descriptors!UpdateWatcher`, `connected` | after a failed connect `m_fd` stays set, and `connected()` (`http_sender.h:72` says "True if connected") is true: the next `send()` does not connect but updates a watcher that is stopped, and returns (`http_sender.h:115`) |
| `Descriptors!WatchedReady` with `NDebug = TRUE` | the acceptor catches what `listen` throws and only asserts (`acceptor.h:38`): without assertions it is added with a socket that does not listen |
| `Descriptors!WatchedReady`, extended to accepted clients | on Linux the socket that `accept` returns blocks whatever the listening one does (`socket.cpp:144`; `acceptor.h:32` says "Create a non-blocking master socket") |
| `Descriptors!NothingLost` without its exceptions | `shutdown()` forgets the descriptor of an acceptor without closing it (`socket.cpp:221`, called by `~acceptor`); `bind()` opens a second descriptor for a datagram socket that has one (`socket.cpp:93`); `open()` does for a terminal that is open (`term.cpp:41`) |
| `Descriptors!NewAcceptor` | `bind` sets `m_type` to `UDP` also when `listen` calls it (`socket.cpp:92`; `socket.cpp:80` says "mark this object as tcp socket") |
| `Descriptors!OpenTerm` | two stop bits fall through to the error (`term.cpp:101`; `stopbits_t::_2` is one of the two values of `term.h:25`). `term::baudrate` is declared (`term.h:73`) and defined nowhere |
| `EventTasks!NoUseAfterFree` without `o \notin disposed`, with `OutsideRemoval = TRUE` | a task removed from outside is deleted while a worker handles its event (`io_task_base.cpp:79`; `event_task.h:72` says that dispose may be called from outside) |
| `HttpSender!HandledAsSent`, `NotLost` without `misread`, with a response that fills the buffer exactly (`Block = 6`, `Lengths = {4}`) | the loop of `read_data` reads again although the response is complete (`http_response.cpp:69`): the buffer grows, so that more than the content can be read from it, and if the server has closed the connection the exception takes the complete response with it |
| `Dispatcher!LoopDestroyedAtShutdown` | a leader that sees `m_term` in the outer `while` of `run`, or had ended before it was promoted, never destroys the loop (`worker.cpp:84` says "Shutdown, the leader terminates the loop") |
| `Dispatcher!TerminateStopsWorkers` | `terminate()` and then `destroy()` skip the join (`dispatcher.h:85`) and destroy joinable threads |
| `Dispatcher!InterruptsLiveLoop` | in `MULTI_LOOP` mode `worker::terminate` can send to a loop that its leader has destroyed (`worker.h:138`) |
| `EventTasks!SignalFunctorThere` | the second arrival of a signal calls a functor that the first one deleted (`dispatcher.cpp:288`) |
| `EventTasks!NeverForgotten` with `NDebug = TRUE` | the functors are called inside of `assert` (`worker.cpp:123`): with `NDEBUG` they are popped and not called |

### Bounds

* Three workers are the least for which a promotion overlaps with a third thread that
  becomes free, and a promoted worker can promote the next one before the first has
  finished its handlers; two suffice where every worker has its own loop. Two events
  per poll distinguish "the first" from "the last event was handled"; with one loop one
  event per poll is checked, and the safety theorems hold for every batch.
* `Executors` needs at least as many executors as tasks: a caller that finds none
  creates one. Two clients and three tasks let one caller erase the executor that
  another one has just claimed or still refers to. `IdleRuns = 2` has a wake-up that
  does not time out and one that does.
* `EventTasks` has few tasks because each is independent of the others but for the
  queues: one task that is queued behind or before another is enough to see a
  wrong order. Two workers are a leader and a former leader. Liveness is checked with one
  loop and an asynchronous task only, the one case in which a watcher or a deletion waits
  for another thread; a task of a loop of its own is started by its own worker's queue.
  Further kinds of task are in `tasks_multi`, removal and signals in `tasks_respond`.

* `HttpSender`: `Block = 6` and `Slack = 1` are the smallest for which a response needs
  the first block, one growth or two. Contents of 0, 4 and 6 bytes are the empty one, one
  with a line break in it that can fill the buffer exactly, and one as long as headers that
  a read can end in: both coincidences of `misread` happen, and responses without either
  are read before and after them. The theorems hold for all sizes.

* `ThriftCall`: two calls are a request and one from the same object, or from another one
  after a failure; the lists are no variable, one, and two of which one is empty, so that
  each overwrites more or less of the one before. Two words of content can be cut. Answers of
  0, 1 and 2 words are one that is complete with its headers, one as long as the headers before
  their last word (the coincidence of `misread`), and one that can be cut.

* `SpinQueue`: two threads at each end contend for a lock while the other end moves.
  Three pushes leave one value in the list while the next is linked and the one before
  is deleted. Four addresses are as many as can be in use; a new node gets any that is
  free, one that was just deleted included.

* `Descriptors`: three descriptors are no more than the objects want, so that the table gets
  full and numbers come back; two remotes are needed to reconnect. `MaxPending = 2` lets two
  starts wait for one watcher, and two handlers of a sender run at once. Two applications
  instead of all objects at a time keep the run short: the one with the sender has an acceptor as
  the stranger that gets its numbers. The theorems hold for any objects and bounds.

`CHECK_DEADLOCK FALSE` is set for the event task, sender, thrift, queue and descriptor runs
only: when every task has been deleted or has ended, the application sends or calls no more, the
queue has been destroyed, or an assertion has ended the process, nothing is left to happen. In
`thrift_call` the exceptions of `CallReturns` leave both sides waiting.

### Fairness

* Threads are scheduled and handlers return (weak fairness of each thread). An event
  loop must return only if a call is pending for it; nothing forces I/O to happen, the
  application to call `join`, `destroy` or `terminate`, or a condition variable to wake
  up without a reason.
* Asynchronous handlers finish: the processor waits for them without a timeout.
* A loop that is run again and again serves the timers that have expired (strong
  fairness of the cleanup timers only): libev looks at the timers in each iteration. Weak
  fairness would not do, because a loop that is between two iterations has left it.
* An HTTP server answers a request that it got, or closes the connection; what was sent
  arrives. Nothing forces it to close, or the application to send again.
* In `ThriftCall` the client's thread and the server's handlers run, and what was sent
  arrives. Nothing forces a process to end, the application to call, close or give up,
  or a handler to refuse.
* In `SpinQueue` threads are scheduled and consumers call `pop` again and again; no
  producer has to push, and a spinlock gives no thread a turn of its own (weak fairness
  only).
* A thread of `EventTasks` that holds a deleted object gets to use it (`Crash`); the model
  stops there.
* Nothing is assumed about the acquisition of a mutex beyond the fairness of the thread:
  in `Executors` the holder always leaves.

## Proofs

### Dispatcher and workers

`DispatcherProofs` proves, for every number of workers from 1 to 255, both run modes
and every batch size (assumptions `NumWorkersAssumption`, `RunModeAssumption`,
`MaxBatchAssumption` of `Dispatcher`):

| theorem | statement |
|---|---|
| `TypeCorrect` | `Spec => []TypeOK` |
| `InvHolds` | `Spec => []IInv` |
| `LoopSafety` | one thread per loop; it is a leader, owns the loop, is the user data, and the loop is not destroyed |
| `NoStrandedEvents` | events wait only with a worker that is on its way to handle them |
| `LastWorkerIsLeader` | outside a promotion `m_last_worker_id` names the leader |
| `FreeMeansIdle` | a worker in the bitset has no loop, no events and runs no handler |
| `JoinStopsWorkers` | after `join` every thread has ended with an empty queue |

`LoopSafe` is not inductive: that a second thread stays out of the loop depends on
who may be handed it. `IInv` treats the loop as a token. `Ownership` says that a loop
has one owner and that a leader owns the loop whose user data it is; `Places` says
what a thread may rely on at each `pc`; `FreeWorkers` and `Promotions` say that a worker
whose bit is set, or that was claimed from the bitset, is `Passive`: it waits, has ended,
or is leaving because of `m_term`, so it cannot use the loop before it is raised.
`OnePromotion` excludes two hand-overs at a time, `StartUp` and `Creation` cover the
promotion of worker 0 by `start`, `Destroyed` and `JoinOrder` the shutdown. The proof of
`InvStep` has one case per action, and under it one step per conjunct that the action
can disturb.

`ImplementsPattern` proves for `SINGLE_LOOP` that `Spec` implies
`LeaderFollowersSafety`, the pattern without its fairness. The role of a worker is computed
from where it is, the bitset and the claims; each step of `Dispatcher` either keeps all
roles or is one step of the pattern: the four unlocked steps of a hand-over are one change
of leaders, in the step that makes the new one a leader.

### Executors

For any sets of clients, executors and tasks and every `IdleRuns` (`NamesAssumption`: their
names differ; `IdleRunsAssumption`):

| theorem | statement |
|---|---|
| `TypeCorrect`, `Invariant` | `Spec => []TypeOK`, `Spec => []IInv` |
| `ClaimsExclude` | an executor that was claimed is claimed by one caller, and holds no task that `add_task` would overwrite |
| `TasksRunOnce` | a task is executed at most once, and an executor that passes its wait without `m_term` has one |
| `RefsStayValid` | nobody refers to an executor that was destroyed |
| `RunningTasksSafe` | no executor that executes a task is terminated or destroyed before the dispatcher is |

`IInv` says who owns what. The properties are about two threads at an executor; that there are not
more follows only from who is in which place: `ListMutexPart` and `ThreadPart` tie both mutexes to
the places of their holders, `ListPart` says that an executor outside of the list has been
terminated, `RefPart` that who erases or destroys an executor has the only reference to it,
`ClaimPart` that an executor that is not busy is empty and a claimed one has one claim, `TaskPart`
that a task is with one caller or in one executor.

### Event tasks

For any sets of workers and tasks, both run modes, with and without assertions
(`EventTasksAssumption`, `KindsAssumption`: a name stands for one kind of object). Three invariants,
each of which needs the one before, and a fourth, `ResponseInv`, on top of the second:

| theorem | assumed | statement |
|---|---|---|
| `PlacesInvariant`, `TypeCorrect` | | `Spec => []PlaceInv`, `Spec => []TypeOK` |
| `AssignmentStays` | | `StaysAssigned`: in `MULTI_LOOP` mode a task's watcher, functors and events are with its worker |
| `TasksInOnePlace` | `SingleLoop => Reconnecting = {}` | `Spec => []TokenInv` |
| `TaskHandledOnce` | `SingleLoop => Reconnecting = {}` | `OneHandler`: no two events of a task are to be handled |
| `ResponsesWatched` | `~NDebug`, `SingleLoop => Reconnecting = {}` | `ResponseWatched`: a task that has a response to send is not left waiting for input |
| `NothingUsedAfterFree` | `SingleLoop => Reconnecting = {}` | `NoUseAfterFree`: no callback is called for a deleted task; unless the application has removed it, no handler, cleanup task or asynchronous handler uses it, and no functor but a `send_response` that was left behind |

* `PlaceInv`: who leads, what a thread has in its hands at each place (`ThreadPart`), what functors
  and watchers refer to (`RefPart`), which kinds of task reach which places (`PlacePart`), that
  the callbacks left to a loop are those of its own watchers (`TodoPart`).
* `TokenInv`: `OneHandler` alone is not inductive, because an event comes from a watcher, which
  comes from a functor. A token of a task is an active watcher, a queued functor that will start
  one, or an event; `TokenPart` says that a task has at most one, and `CleanupPart` that
  a task which is left to a cleanup task has none but the event in whose handling that happened.
* `SafeInv`: deletion takes the last reference, as far as the application has not removed the task.
  `DisposePart`: a queued disposal is the only one and its task has no token; a cleanup task
  that is still to dispose of a task is alone with it. `AsyncPart`: while an asynchronous handler
  works for a task, the task cannot be disposed of, whoever asks for it. `UpdatePart`: the functor
  that updates a watcher is followed by the one that starts it, so that it cannot be left
  behind when the task goes; the other functor that is no token, `send_response`, can, and is the
  exception of the property. `StopPart`: with the hypothesis, a watcher is stopped at once.
  `DeletedPart`: what was deleted is not watched, whoever deleted it, and has no token.
* `ResponseInv`: `TokenInv` and, for each task that answers, how the response gets to its watcher.
  The handler that answers at once sets `m_events`, then asks for the update, then has the watcher
  started, in a queue of its own worker; the finish callback of an asynchronous handler queues
  `send_response` with any worker, behind or before the functors that start the watcher. Until the
  watcher has its new events the invariant keeps track of who will set them: a queued
  `send_response`, a queued update, or a handler between `set_events` and the update. It also says
  that `m_events` is `READ` until there is an answer and does not change after, so that no update
  that comes late takes `WRITE` back. That the handler in between has no active watcher is what
  `TokenInv` is for.

The hypotheses are cases that the table of disagreements names: without them the conclusion is
false, and TLC finds the behaviour. `OwnLoop` says that no sender connects elsewhere from its
handler while its loop can be handed over, `RespondersServed` in addition that the functors are
called (with `NDEBUG` they are not, and no watcher starts at all). Nothing else is excluded:
asynchronous handlers answer, further requests arrive while they work, other threads remove tasks,
and signals come. `TokenInv`, `SafeInv` and `ResponsePart` were checked by TLC on the instances of the
runs before they were proved.

### HTTP sender

For every block size from 2 on, every slack, request and response size and every set of layouts
(`HttpSenderAssumption`):

| theorem | statement |
|---|---|
| `TypeCorrect`, `Invariant` | `Spec => []TypeOK`, `Spec => []IInv` |
| `BufferInBounds` | reads and the zero behind them stay inside of the buffer |
| `ContentAsSent` | `HandledAsSent`: the handler sees the content that was sent for its request |
| `NothingDropped` | `NotLost`: when the task ends without an error of the response, every response was handled |

The invariant relates the parser to the stream. `SizePart` bounds every position by what was read,
`RequestPart` counts what is left to write. As long as nothing was misread (`FlowPart`), at
most one response is on its way, the buffer and the connection hold its stream
(`Arrived`), the parser's variables are what the first `m_line_number` lines say
(`LinesParsed`), and for each place of `read_data` `Position` says how far it has come. The last
two theorems have the exception `misread` of their properties; the first has none.

### Thrift calls

For any lists of variables that the 16 bits of `datasize` can count (hypothesis `SizesFit`), any
sizes of contents and responses, modifiers and number of calls (`UwsgiTaskAssumption`,
`ThriftCallAssumption`), for blocking and non-blocking sockets, however the streams are cut and
whatever fails:

| theorem | statement |
|---|---|
| `TypeCorrect`, `Invariant` | `Spec => []TypeOK`, `Spec => []IInv` |
| `RequestSeenAsSent` | `SeenAsSent`: the handler finds the variables and the content that the client wrote; the parser is misled only by bytes of an earlier request |
| `ReplyOurs` | `ReplyIsOurs`: what a call returns is word for word the answer that the server made for it, unless `done()` was true inside of the headers |

`IInv` follows one request from object to object. `DataPart`: what the client has not begun to write
is a header, a list of variables and the two words behind them (`Body`), the size being that of the
body. `ServerPart` says for each place of the server which part of that is already in its buffers
and which is still in flight (`InFlight`): before the header (`InHeader`), in the variables
(`InVars`), at the k-th variable (`InParser`; `Off` is where it begins, `Seen` what the parser keeps
of those before), in the content (`InContent`), at the handler (`InRequest`); or nothing but content
arrives, which only a used object writes (`NoHeader`), or the packet is not parsed (`OtherPacket`).
`ClientPart` says how far `flush` is and that a connection on which this call has written nothing
has nothing of another call in it (`Untouched`), `ReplyPart` and `ResponsePart` the same for the way
back, `OutcomePart` why the task has ended, `EmptyPart` that a new request object has nothing of the
last one. The properties need all of it: that the handler's content is this call's follows from what
was in flight when the header was read, and that from what the call found when it began.
`ReplyOurs` needs one more invariant on top of `IInv`: `StreamPart` says that what the client has read
and what is in flight to it is the beginning of the answer (`Streamed`), that the server is about to
write the rest, and that an answer is as long as its first word says, from which it follows that
the comparison of lengths holds at its end or inside of the headers and nowhere else.

The least obvious step is the parser at the end of the variables: the two words behind them, which
the client never wrote, are zero in a clean object and make up an empty variable, which is not kept;
in a used one they are text, and what follows is the exception of `SeenAsSent`. Where the k-th
variable begins is a fact about `FlattenSeq`, which is defined by recursion over the list. The
induction theorems of the library take an operator as a parameter, so `ListLemmas` argues by the
least counterexample (`MinNat`) instead: `FlattenIs` says that `FlattenSeq` is the one function with
the layout `IsFlattening`, `FlattenPart` where its parts are. `IInv` was checked by TLC on the
instance of `thrift_call` before it was proved.

`SizesFit` is used in one step, the one in which `prepare_data_buffer` announces the size
(`DataSize`): the header and the variables take less than 64 KB. Nothing in the code checks that
(`uwsgi_request.cpp:111`); beyond it the size wraps and the reader takes variables for content. No
run is that large.

### Queue

For any producers, consumers, values, addresses and pushes (`SpinQueueAssumption`):

| theorem | statement |
|---|---|
| `TypeCorrect`, `Invariant` | `Spec => []TypeOK`, `Spec => []IInv` |
| `NodesSafe` | `NoDanglingNode`: no thread uses a deleted node, none is deleted twice or lost |
| `ImplementsFifo` | `Spec => FifoSpec`: every step is one of `Fifo` or changes nothing in it |

`ChainPart` says that following `next` from `m_first` gives the linked nodes, `LockPart` ties the
locks to the places, `LastPart` that `m_last` is the last node but while a push moves it, `NewPart`
and `OldPart` that a node that is not yet linked, or no longer, belongs to one thread, and
`HeapPart` that nothing else is allocated. A push takes effect when it links its node, a pop when it
moves `m_first`.

### Descriptors

For any objects of each kind, remotes and descriptor table (`DescriptorsAssumption`,
`KindsAssumption`, `NoFileAssumption`), whichever system calls fail:

| theorem | statement |
|---|---|
| `TypeCorrect`, `Invariant` | `Spec => []TypeOK`, `Spec => []IInv` |
| `DescriptorsOwned` | `OwnFile`: the descriptor of an object is its own open file |
| `LeaksKnown` | `NothingLost`: nothing is left open but what `shutdown()`, `bind()` and `open()` of an open terminal forget |
| `TerminalsSettled` | `TermSettled`: an open terminal has the settings that it was last asked for |
| `WatchersReady` | with assertions (`~NDebug`), `WatchedReady`: what a loop watches for a task is the task's own descriptor, and ready, unless the descriptor was changed under the watcher |
| `OneObjectPerStep` | an operation changes neither another object's descriptor nor its file |

The operations are lists of system calls; a lemma for each list says what it does to the table, and
the step of the invariant uses only those. `FilesPart`, `LifePart` and `BlockingPart` are what the
table needs of the steps before. `WatchedReady` is not inductive: a watcher that is not listed now
may be started by a functor that was queued long ago, or by a handler that has yet to return.
`WatchPart` says of every task that is not astray (`Sound`): its watcher is listed under the
descriptor it has, exactly if it is active; while it is active or a start is queued, that is the
descriptor of the task and ready (`Fit`), and so it is while a handler of a connected sender
runs, which may end in a start; while `send()` connects, no handler runs but the one that has called
it, and as long as it connects or after it has failed nothing is active or queued to start. That
stops and updates wait in any order does not matter then: a stop only takes the watcher away, and
an update sets the descriptor that it has. The step is proved object by object: a step of one
object leaves the descriptors, files and watchers of the others alone. Without assertions an
acceptor that could not listen is watched.

### Only model-checked

* Every liveness property, and the fairness of `LeaderFollowersSpec`: the prover has no
  support for fairness and `ENABLED`.
* What a hypothesis of a theorem about `EventTasks` excludes, and what the histories `misread`,
  `clean`, `fresh`, `disposed`, `astray` and `reopened` except: there the property is false, or TLC checks the instances of the runs
  only.

## Not modelled

* Thrift encoding is done by the thrift library.
* Sockets: addresses of datagrams, `set_fd`, `disable_auto_close` and copies of a socket
  that share its descriptor. Terminals: speed and character size, which are set without a
  condition; reads and writes, which pass the result of a system call on.
* File I/O of the disk tasks: a system call that ends before the task is added.
* `readEnd` of the thrift client lacks its return statement; the model returns.
* Event tasks: `auto_delete(false)`, the `on_finish` and `on_error` functors, and
  `m_change_pending`, which only skips updates.
* Logging, exceptions, version, code generator: no behaviour of their own.
* Weak memory: `m_leader`, `m_term` and the bits are atomics of the default order in
  the source, so steps are interleaved sequentially consistently. The plain `m_loop` is
  published by the store to `m_leader`.

## Plan

1. Dispatcher and workers with their abstract pattern (done); executors (done); event
   tasks (done).
2. HTTP sender with requests and responses (done).
3. uwsgi task and messages, composed with the thrift client (done). Left: a run
   in which `datasize` wraps.
4. `SpinQueue`: the two-lock queue refines a FIFO queue (done). Descriptors of sockets
   and terminals (done).
5. Event tasks: `auto_delete(false)`, shutdown with tasks pending.
6. Proofs: the hand-over in `Dispatcher` implements the steps of `LeaderFollowers` (done); claims,
   tasks and references of `Executors` (done); `SpinQueue` and its refinement of `Fifo` (done);
   `Descriptors` (done); what the handler of `HttpSender` sees (done); `StaysAssigned`,
   `OneHandler`, `NoUseAfterFree` and `ResponseWatched` of `EventTasks` (done); `SeenAsSent` and
   `ReplyIsOurs` of `ThriftCall` (done). Every safety property of a passing run is a theorem; what
   is left is liveness.
