# Verification of the chat room (聊天室) and the process killer (病毒项目EDR)

TLA+ models of the C programs under `src/`, TLC runs that check them on small
instances, and TLAPS proofs of their invariants for instances of every size.

| file | what it is |
|---|---|
| `TaskPool.tla` | what a thread pool promises |
| `ThreadPool.tla`, `MCThreadPool.tla`, `ThreadPoolProofs.tla` | the thread pool, its instances, its theorems |
| `TcpServer.tla`, `MCTcpServer.tla`, `TcpServerProofs.tla` | epoll reactor and receive loop, over `TaskPool` |
| `ChatServer.tla`, `MCChatServer.tla`, `ChatServerProofs.tla` | the requests and the database |
| `ChatHistory.tla`, `MCChatHistory.tla` | `ChatServer` with a history of who lost a connection and whose notices changed under a request |
| `ListSeq.tla` | what a list promises |
| `DoubleLinkList.tla`, `MCDoubleLinkList.tla`, `DoubleLinkListProofs.tla`, `ListSeqProofs.tla` | the linked list and the queue |
| `ChatClient.tla`, `MCChatClient.tla`, `ChatClientProofs.tla` | the client's menu and receiver |
| `MyVector.tla` | the process killer's vector of pids |
| `KillProcess.tla`, `MCKillProcess.tla`, `KillProcessProofs.tla` | the process killer among processes that come and go |
| `CommonLemmas.tla` | facts about numbers and sequences that several proofs need |
| `*.cfg` | one TLC run each, see [Runs](#runs) |
| `PROJECT.json` | components, runs, seeded bugs, hazards, theorems, and the source lines of each definition |

Line numbers below are those of the named file; server files are in
`src/聊天室/server/` and `src/聊天室/server/server_src_so/`, client files in
`src/聊天室/client/`, those of the process killer in
`src/病毒项目EDR/KillProcess/`.

## The system

A chat room: one server process and any number of clients over TCP. Next to it
lie two unrelated exercises: a process killer with programs to try it on
(`病毒项目EDR`), and an old copy of the TCP functions (`StdTcp.c`).

```
 client process                      server process
 main (menu) --send--> socket ----> TcpServerAccept (reactor, main thread)
 thread_handler <-recv-- socket           | communicate_sock, Threadp_AddTask
     | msg1 (global)                      v
 main looks at msg1                 thread pool: workers + manager
                                          | thread_handler: recv, switch, send
                                          v
                                    Users.db (sqlite3, one handle sq2)
```

| component | state | operations | what is hard | what makes it correct |
|---|---|---|---|---|
| Thread pool (`ThreadPool.c`, `StdThread.c`) | task queue, thread list, `busy_thrd_num`, `exit_thread_num`, `shutdown`, two mutexes, two condition variables | `InitThreadPool`, `thread_worker`, `thread_manager`, `Threadp_AddTask`, `DestoryThreadPool` | wakeups shared by workers and leavers; counters read without their mutex; shutdown against sleeping workers | every accepted task runs once, in order; no lost wakeup; bounds of queue and pool; nothing left at the end |
| Reactor and receive loop (`StdTcp_Server.c`, head of `thread_handler` in `testServer.c`) | sockets, epoll set, `communicate_sock` | `TcpServerAccept`, `TcpServerRecv`, `TcpServerSend` | edge-triggered events; one shared field for all tasks; several handlers of one connection; descriptor reuse; SIGPIPE | nothing readable is forgotten but where the code has a place for it; answers go to who asked; hang-ups are noticed |
| Requests (`testServer.c` switch, `StdSqlite.c`) | tables `user`, `<a>`, `<a>informlist`, `<a>Group`, `<group>` | twelve requests | several statements per request without a transaction, handlers in parallel; crash and restart on the same file | accounts given away once; friendship mutual; group lists complete; read notices were shown; messages reach the right person |
| List and queue (`DoubleLinkList.c`, `Queue.c`) | nodes on the heap | insert, remove, find, set, travel, free; push, pop | four ways of removal; running out of memory | it is a sequence; links whole in both directions; no leak, no dangling pointer |
| Client (`testClient.c`, `StdTcp_Client.c`) | `msg`, `msg1`, the connection | menu prompts, receiver loop | two threads share `msg1`; either ends the process | what was sent is printed once and in order; requests carry the right account; the client ends with the server |
| Process killer (`KillProcess/`) | place in `/proc`, vector of pids, count, streams that are never closed | look at each process, note those that run the file, take the file's x right, kill | processes fork, exec, exit, are reaped during the scan; the scan makes zombies and meets them; capacity against slots | whoever ran the file from the start is killed; the scan ends; the vector is used within its bounds |
| Simulated virus (`simulationvirus/`) | none | fork, run a file, leave zombies | | it is the world of `KillProcess` |
| Files (`StdFile.c`) | none | read and write a file; lines into a list and back | | `LoadFromFile` and `WriteToFile` have callers and are modelled there |
| Unused helpers of `StdSqlite.c`, `src/StdTcp.c` | none | | | no callers, left out |

Main creates the pool with `InitThreadPool(10, 20, 10)`: a minimum of 20 above
the maximum of 10, so the pool in the server never grows or shrinks. The model
keeps both numbers free, and covers elastic pools as well.

## The models

### TaskPool and ThreadPool

`TaskPool` is the view of a caller: a bounded FIFO `queue`, the task each worker
is `running`, and `closed`. `ThreadPool` has the variables of `struct ThreadPool`
under their own names and a position for each thread (`pc`, `caller`, `mgr`,
`dst`); the comments at these sets name the lines. A step is the code between
two points where another thread could tell the difference:

* what runs under `pool_mutex` is one step, except where it touches
  `busy_thrd_num` or `shutdown`, which others use without that mutex, and except
  the moment between testing a condition and sleeping on it, and the moment in which
  a leaver is off the list (91) and has not unlocked yet (96): `DestoryThreadPool`
  looks at the list without the mutex, so `WorkerLeave` and `WorkerExit` are two steps;
* `WorkerLock` .. `WorkerDone` are `thread_worker` (69-124), `ManagerTest` ..
  `ManagerWake` are `thread_manager` (126-166), `Call` and `Threadp_AddTask`
  are 205-223, the `Destroy...` actions are 225-266. `DestroyHead`, `DestroyJoin` and
  `DestroyJoinFreed` are the walk of 244-252, one step per thread of the list.

Condition variables follow POSIX: a signal wakes one sleeper, any one, and
sleepers may wake for no reason. The signal at line 110 comes after the
mutex was released and is a step of its own.

Abstractions: the initial state is the one `InitThreadPool` leaves; `malloc` and
`pthread_create` succeed; the thread list is a set, with the order in which
`DestoryThreadPool` walks it left open; a thread that left gives its identity to
a later one; nobody calls a pool that is being destroyed except callers already
inside.

### TcpServer

The reactor's `rpc` goes around epoll_wait (109), the event loop (118) and
`Threadp_AddTask` (188). The pool is an instance of `TaskPool`, of which
`ThreadPoolProofs` shows that the real one implements it. The handlers run lines 110-136
of `testServer.c` with `TcpServerRecv` and `TcpServerSend`; the switch is any number of
sends: to the handler's own socket (`Answer`), to the numbers that the table `user` has
for others (`Forward`, lines 228, 445, 483), none at all for a flag nobody knows. It may
die of a result that is not there (`Crash`), and it ends (`EndSwitch`) by going on with
the loop or by returning. Kernel and clients are external: an edge is reported once for
new data or an end of stream; descriptors are given out lowest first; a hung-up peer
answers the first send with a reset, the next send raises SIGPIPE, which nobody handles,
and the process is gone.

Here a message is one recv. In the real system a `Msg` has 7248 bytes and TCP may
split it; what that does to a reader is modelled in `ChatClient`, whose recv is
the same code.

### ChatServer

One variable per kind of table, `None` for a row or table that is absent. A
step is one SQL statement or one send, or several of them when no other handler
can tell. `job[w]` is the request a handler works on with its locals. A person
uses the account of the same name, so only effects among honest users are
modelled. `asked`, `notices`, `shown`, `stray` and `welcomed` record what people
saw and are read by properties and by the numbering of notices only.

A SQL statement is atomic: all handlers share one handle, which sqlite
serialises. `update .. order by .. limit 1` (353) assumes a sqlite built with
`SQLITE_ENABLE_UPDATE_DELETE_LIMIT`. What the code does with an empty result
(225, 274, 281, 366, 392, 433) is undefined: the process dies, or the handler goes
on with any value that can be there. After a crash the server may start again on
the same database, with all connections gone. Nothing keeps a person from naming
himself as the receiver, so `Requests` lets him.

`CreateTable` fails for a name that is no table name for sqlite, one that begins
with a digit or a keyword, and the callers go on (`StdSqlite.c:49`): `Nameable` says
which names are fit. The tables of different accounts and groups have
different names, and none is called `user`.

`ChatHistory` adds three variables that guard nothing: `ended`, who has lost a
connection, by leaving or with the server; `guessed`, who was sent a message
before he had an account; `muddled`, whose notices changed while a request of his was
reading them. They say in which situations the code does not keep its word, and the
two properties of that module say that it does in all others. None of the
three can be left out: without it, TLC refutes the property it stands in.

### ListSeq and DoubleLinkList

`DoubleLinkList` has a heap `node`, one action per piece of straight code and per
turn of a loop, and locals under the source's names. `QPush` and `FreeQueue`
are `DBInsertTail` and `FreeDLlist`; `Pop` is `DBRemoveByIndex` of 0. `malloc` of a
node may fail. `ListSeq` is the sequence behind it. The refinement maps `seq` to
the chain from `head` when no call is in progress and to what it was when the
call was made otherwise: a call takes effect as a whole when it returns. What
`DBRemoveByElement` leaves (`IsWithout`) is stated by its positions in the old
sequence and not with `SelectSeq`, whose recursive definition the provers cannot
expand. Calls
on one list do not overlap, as in `src/`, where a list is used under a lock or by
one thread, but for one place: `DestoryThreadPool` walks and frees the list of threads
without the lock, while a leaver may unlink a node. That is modelled in `ThreadPool`, whose
`WalkOnLiveNodes` it breaks. `DBSeValueByElent` with two equal values never returns; nobody
makes that call and `ListAssumption` excludes it. The rest of that assumption says that
a call has the arguments its function takes, and that `NULL` is no address, no value
and no node.

### ChatClient

`pc` is the prompt of the menu, `msg` the one request that is filled and sent
again and again, `rpc` the receiver, `msg1` the global it fills. `TcpClientSend` and
`TcpClientRecv` are the functions of `StdTcp_Client.c` on a connection that the
server may close at any time, with its unread data (a reset) or without (an end of
stream). A reset is reported once, to whichever thread calls next. The user
chooses freely at each prompt, may stop, and may end the input, after which the
loops over `getchar` spin for ever. The server is external: it reads and sends at
will; how it answers is `ChatServer`'s matter.

What the server sends is a stream of halves: a `Msg` has a head, with the flag,
and a tail. With `Splits` a recv may return one half, which goes to the place of
the head in `msg1` and leaves an older tail behind it; from then on heads and
tails may be out of step (`askew`), and a tail where the flag should be is taken for
a flag nobody knows.

### MyVector and KillProcess

`MyVector` is a record of the elements, the `capacity` that push compares with, and
the `slots` there are. They differ, because a growth always makes 100 slots and
doubles the capacity. The operators say when an access is beyond the slots.

`KillProcess` has a killer and a world. The killer goes from `main` through
`getdents`, `scan` and `grep` for each entry of `/proc`, to `list` (print, chmod), `kill`
and its end: `returned`, `refused` by main, `failed` when popen finds no descriptor,
`crashed` at an undefined access (`cause`). `Look` is one turn of the loop (129-190)
for a line with a `>`; for one without, `Grep` is the rest of it (157-171), which is a
step of its own because the process may change between `ls` and `grep`.
readdir hands out entries of a batch that one system call has collected;
`Getdents` enters one process at a time, so that others come and go in between.

In the world (`World`) a process forks, executes another file, exits or is
reaped; this is also what `guard.c`, `virus.c` and `corpse.c` do. A pid is `target`
when it runs the file, `alike` when its path begins with that of the file,
`hidden` when `/proc/<pid>/exe` cannot be read (kernel threads, processes of
others), `leaked` when it is a grep of the killer that was never waited for.
Each line without a `>` costs the killer a stream (313) and adds such a zombie,
which the scan may meet later. An undefined access to the vector may crash or
not; strcmp with NULL and a read at address 1 do.

Assumed: `malloc` succeeds, no path has a space in it (`parse_fields` takes the last
word of a line), pids are not used again within one run, popen works
while there are descriptors, and a grep that was started has ended when
somebody looks at it.

## Runs

| run | instance | checked | states | shows |
|---|---|---|---|---|
| `PoolSafety` | 3 threads, 2 callers, min 1, queue 2, 4 tasks, destroyed at any time | `PoolInv`, `WorkIsSeen`, `SpaceIsSeen`, `QueueBounded`, `PoolFloor`, `ShedIsSane`, `DestroyedMeansStopped`, `ImplementsTaskPool` | 180,529 | the inductive invariant and what follows from it |
| `PoolLiveness` | 2 threads, 1 caller, min 0, queue 1, 3 tasks | `ServesEveryTask`, `CallsReturn`, `ShrinksToMin` | 6,833 | tasks are run, calls return, the pool comes down |
| `PoolLostShutdown` | 2 threads | `DestroyWakesAll`, violated | - | finding 1 |
| `ReactorOneClient` | 1 client, 3 handlers, 3 messages, hang-up | `TypeOK`, `NoStranded`, `EveryMessageTaken`, `HangUpIsNoticed` | 158,824 | one connection is served to the end |
| `ReactorTwoClients` | 2 clients, 2 handlers, 2 messages each, hang-ups, early returns | `RepliesReachSender`, `LostInTwoPlaces` | 4,991,056 | where answers go and where a connection is forgotten, with numbers that are used again |
| `ReactorStranded` | 2 clients, 1 message each | `NoStranded`, violated | - | finding 2 |
| `ChatService` | 2 people, 1 of them registered, 2 requests each, overlapping: register, log in, groups, message a person or a group; leaving, one restart | `RegisteredOnce`, `StraysAreExplained` | 2,448,469 | accounts and messages, with everything that may go wrong around them |
| `ChatRegistered` | 2 registered people, 2 requests each, overlapping: friends, notices with times that do not grow, groups, files; leaving | `TypeOK`, `FriendshipMutual`, `MembersKnowTheirGroups`, `ReadMeansShownOrMuddled` | 2,734,835 | what the tables mean to each other, and when a notice may be marked unsent |
| `ChatReadAll` | 2 people, notices and `READ_ALL_INFO` | `ReadMeansShown`, violated | - | finding 3 |
| `ListService` | 4 nodes, 2 values, all 16 calls with all indices | `TypeOK`, `WellLinked`, `NothingLeaks`, `AnswersRight`, `ImplementsListSeq`, `CallsReturn` | 109,053 | the list is a sequence |
| `ClientService` | 2 accounts, 3 requests, 2 messages from the server in halves, which may stop; the input may end | `TypeOK`, `ShownInOrder`, `RequestsSigned`, `EveryMessageShown`, `HangUpEndsClient` | 378,190 | the client with its two threads |
| `KillService` | 5 pids, each running the file, hidden or not yet there; batches of 2, vector of 2 that grows to 4 slots, 2 streams to lose, 2 events | `TypeOK`, `NothingForgotten`, `FailsOnlyCrowded`, `HuntInBounds`, `KillerReturns` | 547,360 | the killer among processes that come and go |

Why the bounds are enough. The pool needs two workers and a leaver for wakeups
to be absorbed, two callers to compete for the room in the queue, more tasks
than the queue holds; three threads above a floor of one make two rounds of
shedding overlap. In the reactor two handlers of one connection are the least
that makes them meet, a third leaves while both are busy; three messages let one
arrive before, during and after the handler's last recv. With two clients that hang
up, a number is closed by one handler and given out again while another works on it.
Messages go astray with one person who left and one who got his number. Relations between tables
concern two people; two handlers interleave their statements. Every case of the
list's removal (only, first, last, inner node) occurs in three nodes, a fourth
makes two inner ones. The client needs a registration under one name, a login
under another and a request after it: three; two messages are enough for a
head with the tail of another one, and for the step back into line. The killer
needs two batches, of which a process can be in one while its child is in
another or in none, more entries without a file than streams it can lose, and
a vector that outgrows its slots: five pids of which up to five match, with
capacities 2, 4, 8 over 4 slots where the source has 10, 20, .., 160 over 100. Two events
are a fork and the exit of the parent, or an exit and its reaping.

Bounds in the guards, all named in the modules: `MaxTasks`, `MaxMsgs`,
`MaxRequests`, `MaxRestarts`, `MaxMessages`, `MaxUnread`, `Addr`, `MaxPid`,
`MaxEvents`. `Batch`, `MaxLeaks`, `InitialCapacity` and `GrownSlots` are numbers of the
real system made small, `Splits` and `InitialStates` choose what can happen. Symmetry is used
in safety runs only, for interchangeable threads.

`CHECK_DEADLOCK FALSE` stands where the system may stop: all bounded work is done,
the process has died or ended, or the pool is destroyed. `PoolLiveness` and
`ListService` are checked for deadlock. That no thread of the pool hangs while there
is work follows from `WorkIsSeen`, `SpaceIsSeen` and the liveness properties.

Every property of a passing run was also run against a `Faulty...` variant of an
operator, a plausible bug of that code, which violates it; `PROJECT.json` lists
them under `mutants`.

### Fairness

* Pool: threads keep running and tasks return (weak fairness of each step). A
  step that takes `pool_mutex` has strong fairness: nobody computes under the
  mutex and the manager asks for it once in ten seconds (131), so a thread that
  finds it free again and again gets it. New calls and spurious wakeups are not
  promised.
* Reactor: the reactor, each handler and the start of queued tasks have weak
  fairness, the latter promised by `TaskPool`. Clients promise nothing.
* List: a call that was made goes on.
* Client: the receiver has weak fairness. User and server promise nothing.
* Killer: its one thread has weak fairness. The world promises nothing, and
  `MaxEvents` is not what makes the scan end: `/proc` is read in the order of pids,
  of which there are finitely many.

## Findings

1. **A worker can sleep through `DestoryThreadPool`** (`ThreadPool.c:239`, run
   `PoolLostShutdown`). The comment at 237 says that the waiting and working
   threads are killed. `shutdown` is set (232) and the broadcasts are made (239-242)
   without `pool_mutex`: a worker between its test (76) and its sleep (78) misses
   all of them, and the join (248) waits for ever.
2. **A readable connection can be forgotten** (`StdTcp_Server.c:186`, run
   `ReactorStranded`). Line 185 says the descriptor is handed to the pool; it is
   stored in one field that the queued handler reads later (`testServer.c:122`). A
   second descriptor overwrites it, and the first one's edge has been used up.
3. **`READ_ALL_INFO` marks notices it has not sent** (`testServer.c:326`, run
   `ChatReadAll`). What is marked is what is unread at the end, not what the
   select of line 307 found.

Other properties one would like to have, which the models refute at once when the
named assumption is changed:

* The process survives a client that hangs up: no, SIGPIPE on the second send
  (`StdTcp_Server.c:216`).
* `NoStranded` with a handler that returns early (`testServer.c:191`, 291;
  `EarlyReturn = {1}`, one client).
* A handler closes only what has hung up: no, two handlers see the same end of a
  stream, and between their closes (`StdTcp_Server.c:246`) the number may have been
  given to a new client.
* Answers in the order of the requests ("先来的先处理", `ThreadPool.c:14`): two handlers
  of one connection take its messages in turns.
* `WalkOnLiveNodes`, in a pool that can shrink: `DestoryThreadPool` reads a
  node that a leaver freed (244-251 against 91). It is proved for rigid pools.
* `NobodyLeftBehind`, in such a pool: `DestoryThreadPool` waits for the threads on the list
  (244-252), a leaver that has taken itself off (91) and not unlocked yet (96) is not
  waited for, and 262 destroys the mutex it holds. It is proved for rigid pools.
* Every message reaches its person or nobody: nothing clears `state` and `sock` when a
  connection ends (`testServer.c:206`), and the number is given away again; and line 225
  takes a number from a result that is empty. `StraysAreExplained` says that these are the
  only ways.
* `FriendshipMutual` with somebody who is just registering: `&&` at
  `testServer.c:285` reports success although one insert failed.
* The list of groups is right in the other direction: it is updated for a
  group that does not exist (408).
* `ReadMeansShown` for `READ_GINGLE_INFO` alone: not with two requests of one person at
  once (the search of 353 may find another notice than that of 339), nor when a notice is
  stored meanwhile whose time sorts before others (245 writes it without leading zeros,
  and 9:59:59 becomes larger than 10:00:00), nor for who has hung up.
  `ReadMeansShownOrMuddled` says that these are the only ways.
* Every account is complete: a crash between the statements of 153-178 leaves one
  that can neither be used nor registered again.
* The server survives `SEND_FILE`: line 455 passes the server for the database.
* `DBFindByElement` when all elements match: the end mark (`DoubleLinkList.c:227`)
  overwrites the last index. `AnswersRight` says so.
* A file is ever saved: `testClient.c:400` waits for flag 13, the server answers 712
  (`testServer.c:500`). In `ChatClient` `saved` stays empty.
* Who was told of success can use the account, or the group, with any name: no, see
  `Nameable`; `RegisteredOnce` is about those that are fit.
* What the client prints is a message of the server: not once a recv has returned a
  part of one, and nothing brings the halves back into step except another
  part. `ShownInOrder` says what is left.
* The client ends with its input: it spins at the next `getchar` loop
  (`testClient.c:252`), or sends the same request for ever (288-299).
* The client prints each message once: after a reset, recv fails, and the last
  message is printed again. `ShownInOrder` says so.

What `KillProcess` shows of the process killer (`process.c`):

* It crashes at the first zombie after a match: `fatherpid` holds the parent, and
  `fatherppid`, always NULL, is looked for in the vector (164), whose comment says
  that the parent is (163). Nothing has been killed by then.
* It crashes at a process that vanishes between readdir and `ls` (171, 250).
* Its own greps are zombies to it (313). A scan of two batches or more can meet
  them, and with about a thousand pids that have no file to read it finds no
  descriptor for popen, returns at 152, and kills nothing.
* A path that begins with the given one matches (173), and the md5 compared is that
  of the given file (177), whatever the process runs: `alike` is killed too.
* A relative path with a slash in it is taken for an absolute one (206-219);
  then nothing matches, and the file loses its x right all the same, as it does when
  the md5 is wrong (199, 262).
* With a wrong md5 and more than 10 matches, line 195 prints elements that are not there;
  with more than 78 matches `destory_vector` frees slots that are not there, with more
  than 100 `push_vector` writes to them.

## Theorems

Of what the passing runs check, all invariants are proved but `NoStranded`, and so are the
action properties `AnswersRight` and `LostInTwoPlaces` and both refinements, for every
value of the constants that satisfies the assumption of the module: any number of threads,
clients, accounts, nodes, messages or processes, any limit, any bound. Four theorems have
a hypothesis, without which the property is false (see [Findings](#findings)): a pool like
that of main for two of them, people who are all registered for the other two.

| theorem | says `Spec => []` of | hypotheses |
|---|---|---|
| `ThreadPoolProofs` | | |
| `PoolInvariant`, `PoolTypes` | `PoolInv`, `TypeOK` | |
| `NoWorkerOversleeps` | `WorkIsSeen` | |
| `NoCallerOversleeps` | `SpaceIsSeen` | |
| `QueueKeepsLimit`, `PoolKeepsFloor`, `SheddingIsSane` | `QueueBounded`, `PoolFloor`, `ShedIsSane` | |
| `RigidPoolWalksSafely` | `WalkOnLiveNodes` | `min_thrd_num >= max_thrd_num`, as in main |
| `RigidPoolLeavesNobody` | `NobodyLeftBehind` | `min_thrd_num >= max_thrd_num`, as in main |
| `DestroyIsFinal` | `DestroyedMeansStopped` | |
| `PoolRefinement` | (`Spec => ImplementsTaskPool`) | |
| `TcpServerProofs` | | |
| `ServerInvariant`, `ServerTypes` | `ServerInv`, `TypeOK` | |
| `RepliesAreDelivered` | `RepliesReachSender` | |
| `AttentionIsKept` | (`Spec => LostInTwoPlaces`) | |
| `ChatServerProofs` | | |
| `ChatTypes` | `TypeOK` | |
| `AccountsAreGivenOnce` | `RegisteredOnce` | |
| `FriendsAreMutual` | `FriendshipMutual` | everybody has an account |
| `MembersHaveTheirLists` | `MembersKnowTheirGroups` | everybody has an account |
| `MessagesReachTheirPerson` | `StraysAreExplained` (of `HSpec`) | |
| `NoticesAreShownFirst` | `ReadMeansShownOrMuddled` (of `HSpec`) | |
| `DoubleLinkListProofs` | | |
| `ListInvariant`, `NothingDangles` | `ListInv`, `TypeOK` | |
| `ListIsWellLinked` | `WellLinked` | |
| `NoNodeLeaks` | `NothingLeaks` | |
| `ListSeqProofs` | | |
| `HistoryInvariant` | `HistoryInv` | |
| `AnswersAreRight` | (`Spec => AnswersRight`) | |
| `ListRefinement` | (`Spec => ImplementsListSeq`) | |
| `ChatClientProofs` | | |
| `ClientTypes` | `TypeOK` | |
| `RequestsAreSigned` | `RequestsSigned` | |
| `MessagesAreShownInOrder` | `ShownInOrder` | |
| `KillProcessProofs` | | |
| `KillInvariant`, `KillTypes` | `KillInv`, `TypeOK` | |
| `NoneIsForgotten` | `NothingForgotten` | |
| `FailsOnlyInACrowd` | `FailsOnlyCrowded` | |
| `HuntKeepsInBounds` | `HuntInBounds` | |

What is assumed of the constants: threads, addresses, clients, accounts and
descriptors are finite sets; there are at least as many descriptors as clients; a
queue has a place; the marks `None`, `NULL` and `Empty` are none of the things in
whose place they stand; a grown vector is no smaller than the first one. TLC evaluates
each of these assumptions on its instances. Each proof has one lemma per action, or
group of actions that disturb the same things; each strengthening was an invariant of
a TLC run before it was proved.

### The pool

None of the named properties is inductive alone. `PoolInv` adds

* `MutexInv`: who is between two steps under `pool_mutex`. It makes the test of
  line 76 and the sleep of line 78 one critical section against callers, which is
  why a push cannot slip in between, and why `WorkIsSeen` holds;
* `ListInv`, `TaskInv`: the list is the set of existing threads, and a worker
  holds a task between 106 and 122, which ties `busy_thrd_num` to `Running`;
* `LeaveInv`: the leavers that were promised fit above the floor. It is what
  makes the stale `exit_thread_num` harmless: a new round overwrites it with a
  number computed from the list as it is then, under the mutex under which
  leavers leave;
* `DestroyInv`: shutdown is set and the manager gone before the list is walked, and
  nobody is joined before that.

`QueueBounded`, `PoolFloor` and `ShedIsSane` are parts of it, and it is an invariant of
the run `PoolSafety`. `DestroyIsFinal` needs, above that, that every worker that the walk
does not find has ended or is a leaver about to unlock (`JoinInv`), and `MutexInv` makes
that one leaver at most. In a pool where nobody leaves (`StayInv`),
`RigidPoolLeavesNobody` proves that no worker is left and no mutex held. `PoolRefinement`
maps each action to one of `TaskPool` or to a stutter under `PoolInv`.

### Reactor and receive loop

`ServerInv` matches descriptors and clients one to one (`ConnInv`), so that accept finds a
free number (a cardinality argument: a client in the backlog has none), and says which
tasks and handlers have a number that was accepted (`HandInv`). `communicate_sock` may be
that of another task all the same.

`RepliesReachSender` is about a number between `recv` and `send`. It can change hands only
when some other handler closes it, and then the client it belonged to has departed for
good: a client connects once (`Departed`, `SenderInv`).

`LostInTwoPlaces` is an action property: whatever step makes a readable descriptor
unattended is an overwriting of `communicate_sock` or an early return. Under `ServerInv`,
all other actions keep somebody who will look (`AttentionStep`): a report moves from
`ready` to `events`, to `communicate_sock`, to a handler, and data that comes after a
handler's last `recv` is a new edge. `NoStranded` of one client is the case in which
neither place does harm, and stays with TLC.

### Requests

* `RegInv`: the primary key of `user` lets one handler into a registration, and its
  place in the code says which tables of the account exist. Rows and tables are never
  deleted (`TablesStay`), so this survives a crash.
* `FriendInv`, `MemberInv`: half a friendship, or a member without his list, belongs to a
  handler that stands between its two statements.
* `SockInv`: what column `sock` holds is the person's own descriptor, and so is what a
  handler has read from there, unless he has lost a connection (`Leads`). A handler
  answers the person who asked, with the same exception (`Answers`).
* `NoticeInv`: what a handler found as the oldest unread notice (339) is that still when
  it marks (353), and what it selected of all (307) is all there is when it marks (326):
  other handlers append behind it or the addressee is `muddled` (`HasSelected`), and
  with two requests of his at once he is `muddled` too (`OneReader`).

### The list

`ListInv` says that there is a function `c` from positions to addresses, injective, along
which `next` and `prev` lead forth and back, whose range is what is allocated but for a
node about to be linked (`Chain`), and where the walking pointer of a call stands on
it (`Where`). Each action is proved to keep it by naming the new `c`. That
every pointer of a linked node leads to a live one, a part of `TypeOK`, follows from the
chain (`LinksAreLive`). That `Nth`, defined
by recursion, computes `c` is an induction over the length; the library's induction theorems
are out of the provers' reach, so `NthIsTheChain` takes the least position at which
the two differ (`MinOfNats`) and refutes it.

`HistoryInv` extends it by what a call has to do with the sequence `before` on which it
was made. `Progress`: a `DBRemoveByElement` has left out some of its hits and nothing
else (`Thinned`), a `DBSeValueByElent` has replaced some of them (`Replaced`), any
other call has changed nothing until it returns. `Reached`: a search has passed no hit, a
walk ends at the index that was asked for, what is about to be removed or overwritten is
what the call wants (`Aim`), and the vector of `DBFindByElement` holds the hits
before `index`. `CommonLemmas` says which sequence `InsertAt`, `RemoveAt` and `Tail`
give; with that, each step of a call is shown to be right (`Right`): it keeps
`HistoryInv` without changing the mapped `seq`, or it returns, and then it is a
`Complete` of `ListSeq` with the answer of `AnswersRight`.

### The client

`SignInv` follows the one `msg` through the prompts: the statement is cleared when it
was sent, the name is that of the login in every prompt after it, and before the login
only registrations were sent. `ShowInv` compares what was printed with the place of the
receiver in the stream: the head in `msg1` is newer than what was printed, except
when the connection is broken and nothing will be read any more; without short
recvs, what was printed is exactly what is due.

### The killer

`KillInv` has where the scan is (`ScanInv`): what was found and what readdir has yet to
return are no more than the pids before `pos`; what the lost streams were lost for
(`LeakInv`): each for another pid without a file that was looked at, which bounds
`leaks` by their number; and the vector (`VectInv`): its capacity is one of `Capacities`, which
double from the first as long as a grown vector has the slots, or the vector has
outgrown them. For the numbers of the source `SafeCount` is 78. `NothingForgotten` is a
part of `KillInv`, as a pid changes sides only at the step that looks at it.

### Only model-checked

* Liveness everywhere (`ServesEveryTask`, `ShrinksToMin`, `EveryMessageTaken`,
  `HangUpIsNoticed`, `EveryMessageShown`, `HangUpEndsClient`, `KillerReturns`, both
  `CallsReturn`): reasoning about fairness needs `ENABLED`, which the provers do not
  reach.
* `NoStranded`, for one client and three handlers; `LostInTwoPlaces`, which is proved, says
  in general what can break it.
* What the runs of the findings violate is false, and has no theorem.

## Not modelled

* `StdFile.c` but for `LoadFromFile` and `WriteToFile`, and the helpers of `StdSqlite.c`
  listed above: no callers, sequential input and output, one SQL text each.
* `src/StdTcp.c`: the functions of `StdTcp_Server.c` and `StdTcp_Client.c` once more,
  in no build. The copies of list, file, thread and database functions under `client/` are
  those of the server.
* A pool whose `pthread_create` fails: `InitThread` returns NULL, which the list takes
  and the next walk over it dereferences (`ThreadPool.c:89`, 247). The process dies
  there; there is nothing to state.
* A request that arrives in parts at the server: see `TcpServer`.
* Reuse of pids during one run of the killer.

## Plan

Done, in the order of what other parts rest on: thread pool and its contract, reactor,
requests, list, client, process killer; then the proofs of the invariants of each and
of both refinements. To come:

1. `ChatClient` with the answers of `ChatServer` to its requests.

## Running

```
tlc -config PoolSafety.cfg MCThreadPool      # and so on, see PROJECT.json
tlapm ThreadPoolProofs.tla                   # and each of the other ...Proofs.tla
```
