# A TLA+ model of CodeWarehouse

CodeWarehouse collects course projects. The one whose correctness is hard to see
from its code is **SimpleNet**, a network stack in C (`src/NetworkingLab/SimpleNet`,
complete in `lab10`): a connection-oriented transport protocol (STCP) over a
distance-vector routing layer (SIP) over an overlay of TCP connections (SON). This
directory models it, top layer first, and beside it the **IR simulator**
(`src/CMMIRSimulator`), which loads and runs the intermediate code that the compilers
of the course produce.

## 1. The system

### SimpleNet lab10

Three processes run on every node, joined by local TCP connections.

| Part | State | Operations | Talks to |
|---|---|---|---|
| STCP client (`client/stcp_client.c`) | a table of TCBs: `state`, `next_seqNum`, the list `sendBufHead .. sendBufTail` with `sendBufunSent` inside it, `unAck_segNum`, `bufMutex` | `stcp_client_init/sock/connect/send/disconnect/close`, `stcp_send`; threads `seghandler` and `sendBuf_timer` | the local SIP process, through `sip_sendseg`/`sip_recvseg` |
| STCP server (`server/stcp_server.c`) | a table of TCBs: `state`, `expect_seqNum`, `recvBuf`, `usedBufLen`, `bufMutex` | `stcp_server_init/sock/accept/recv/close`; thread `seghandler` | the local SIP process |
| Segments (`common/seg.c`) | none; frames `!& .. !#` on a TCP socket shared by all threads | send, receive, checksum, `seglost` (drops, or flips a bit) | both |
| SIP (`sip/`) | distance vectors with online flags, routing table, neighbour costs with flags; `dv_mutex`, `routingtable_mutex`, one `flag_mutex` per neighbour | `pkthandler`, `routeupdate_daemon`, `monitor_route_update`, `waitSTCP` | the local SON and STCP processes |
| SON (`son/`) | neighbour table `nt` with the descriptor of one TCP connection each, `sip_conn`, `listenfd`; no lock | `main`, `waitNbrs`, `connectNbrs`, one thread `listen_to_neighbor` per neighbour, `waitSIP`, `son_stop` | neighbours' SON, local SIP |
| Topology (`topology/`) | none | parses `topology.dat` | SIP, SON |

What is hard: the TCB's `state` is read and written by the application thread and
`seghandler` without a lock; several timer threads resend what `seghandler` is
freeing; segments are lost, corrupted, duplicated by resending and, when SIP
changes a route, overtaken; processes are killed and restarted while the other end
keeps its TCB; and every timeout may fire just as the answer arrives. Below, SON keeps
numbers of connections that others close: whoever comes back is accepted by whichever
thread is waiting, a closed number is given to the next socket, and a send to somebody
who has gone ends the process.

What makes it correct: the server's application reads the bytes the client's
application wrote, each once and in order; what the client considers acknowledged
has arrived; the window and both buffers keep their limits; the two ends agree on
being connected and on being closed; and what was sent arrives in the end. In SIP:
routes lead somewhere, and nearer. In SON: a packet goes to the neighbour it is for, all
get connected, and stay so or get connected again.

### The IR simulator

One process, one thread, one window. Its two versions, 1.0.2 (`irsim/irsim.py`, PyQt 4)
and 1.1.0 (`irsim.py`, PyQt 5), share all that matters except `labelCheck`,
`okToContinue` and what PyQt does with an exception nobody catches.

| Part | State | Operations |
|---|---|---|
| Loading | `codes`, `labelTable`, `functionDict`, `symbolTable`, `offset`, `entranceIP`, `currentFunction` | `fileOpen`, `loadFile`, `sanityCheck` with `tableInsert` for each line, `labelCheck`, `initialize` |
| Execution | `ip`, `mem`, `callStack`, `argumentStack`, the text window | `execute_code` for a line, `getValue`, `getNewAddr` |
| Window | which actions are enabled, the table of variables | `run`, `step`, `stop`, `okToContinue`, `displayWatchTable` |

What is hard: a variable has one entry in `symbolTable`, whatever function is running.
`CALL` overwrites the entries of the callee with new addresses and puts the old ones on
`callStack`; `RETURN` puts them back and then stores the value. Nesting, recursion,
errors in the middle, and a user who stops, runs and steps in any order all work on
those same entries, and `stop` forgets the calls without restoring anything.

What makes it correct: no two variables that are alive ever share memory; when calls
have returned the addresses are what they were; a program whose functions keep to their
own variables computes what it would with a frame of its own per call; and what can
still fail at run time is known.

### The rest of the repository

| Project | State and interaction | Why (not) modelled |
|---|---|---|
| `DistributedSystem` | a master process with lists of servers and clients, heartbeats, a queue of work for a failed server, file copies compared by MD5; many threads, few locks | planned, after the network stack |
| `NetworkingLab/lab3` | chat and game server, one thread per client on unlocked lists | planned |
| `NetworkingLab/BitTorrent*` | peer wire protocol, pieces, choking; three versions | planned last |
| `CMMIRSimulator/ui.py`, `irsim/ui_mainwindow.py`, `resources_rc.py` | window layout and icons, generated by pyuic and pyrcc | not modelled: no state of their own |
| `SimpleNet/lab07..lab09` | earlier states of SimpleNet | not modelled: `lab10` contains them |
| `Compiler` | four stages of a student compiler, mostly generated C | not modelled: sequential, no protocol |
| `Supermarket`, `Huanqiu`, `lab2` | forms over MySQL, a crawler, an HTTP client | not modelled: I/O around other programs' state |
| `MapReduce`, `DataMining`, `NLP`, `CS229ML`, `DisEX01` | batch jobs, numerical exercises, RPC stubs | not modelled: pure functions of their input |

## 2. Modules

    StcpNet            segments and the two paths between the STCP processes
      |-- StcpClient       client TCB, application thread, seghandler, timers
      |-- StcpServer       server TCB, application thread, seghandler
            Stcp           both together: Init, Next, Spec, properties, fairness
              |-- StcpProofs        theorems about Stcp: stream, buffers, refinement
                    |-- StcpPhaseProofs   opening and closing, who dies, restarts in line
    StcpService        the promised byte stream; Stcp implements it

    SipTables          distance vectors, routes, flags; update_routingtable
      |-- Sip              the SIP processes and the overlay between them
            |-- SipMC          topologies and action constraint for TLC
            |-- SipProofs      theorems about Sip: types, locks, hops, costs, offline
                  |-- SipLoopProofs    routes have no loops

    Son                the SON processes: connections, descriptors, listener threads
      |-- SonMC            topology and bounds for TLC
      |-- SonProofs        theorems about Son: types, the table of neighbours
            |-- SonQuietProofs   nobody is killed while nothing stops

    IRCode             what sanityCheck and labelCheck make of a file
      |-- IRMachine        execute_code, one action per instruction
      |     |-- IRSim          the window around it: open, run, step, stop; properties
      |           |-- IRSimMC      files for TLC
      |           |-- IRProofs     theorems about IRSim: addresses, calls, errors
      |                 |-- IRFramesProofs   IRSim implements IRFrames
      |-- IRFrames         what a program means; IRSim implements it

STCP and SIP are not composed: `StcpNet` already lets the network lose, delay and
reorder segments, which is all that SIP can do to them. `Sip` carries a data packet
as its destination only, to ask where it goes. `Sip` has a queue per pair of neighbours
in the place of SON; `Son` is about how the connections behind those queues come about
and end, and packets have no contents there: one may be there whenever there is a
connection to read from.

### StcpNet

A segment keeps `type`, `seq`, `ack` and `data`; ports and node ids are those of
the one connection. A data byte is a pair `<<run, position>>` (which client process
wrote it, and where in its stream), so no two bytes can be confused: a byte out of
place cannot hide behind an equal value. `toServer` and `toClient` are the segments
under way. `SipSend` loses what finds the path full (`sip_sendseg` returns 1
whatever happens below); `RecvResults` are the three results of `sip_recvseg` for a
segment that arrives (intact, bit flipped, chosen to be lost), picked freely;
`Arriving` lets any segment arrive next when `Overtaking`, else the oldest. The
checksum is taken to detect a flipped bit: the code flips exactly one, and a
one's-complement sum differs then.

### StcpClient

`cpc` is the place of the application thread, which calls the API in the order of
the two applications: sock, connect, sends, disconnect, close. `chold` is the
segment `seghandler` works on together with the state it read: `ClientRecv` is
`sip_recvseg`, the tests and the `switch`, the next step acts. Between the two any
other thread may move, which is what the missing lock allows. Everything done under
`bufMutex` is one step: one turn of the loop of `stcp_client_send`, `stcp_send`,
the whole acknowledgement loop, one pass of a timer thread. `sendBuf` is the linked
list and `unSent` the place of `sendBufunSent` in it (0 is NULL). Timeouts are
nondeterministic: `SynTimeout`, `FinTimeout` and `TimerResend` may happen whenever
the code waits for them. `ClientStart` also stands for the kill of the previous
process at any point; the new one starts with nothing.

Two memory errors of the code are outcomes: the acknowledgement loop that runs past
the end of the list (`Overrun`), and threads on a freed TCB (`ClientActOnFreed`,
`TimerOnFreed`), end in `cpc = "crashed"`.

### StcpServer

`spc` is the place of the application thread, `want` the argument of
`stcp_server_recv`, `read` everything it returned so far (a history variable),
`recvBuf` the used part of the buffer. `ServerRecv` reads the state and, for data,
the sequence number and the room left (`fits`), all before the lock; `ServerData`
appends under the lock and acknowledges. `stcp_server_recv` can run in between.
`CLOSEWAIT_TIMEOUT` is never used by the code, so the server stays in CLOSEWAIT
until its application closes.

### StcpService

Three variables: how many bytes the client gave away, which the server has, how
many the client may forget. The mapping from `Stcp` is `sent = next_seqNum`,
`taken = read \o recvBuf`, `confirmed = acked`, the position of the head of the
send buffer.

### SipTables

Each table is a function of the node that owns it: `cost[n][from][to]` is
`dvtable_getcost` at `n`, infinite in rows the table does not have; `next[n][dest]`
the routing table as a map (`NoHop` is both -1 and no entry); `flag[n][nbr]` the flag
in the neighbour cost table; `online[n]` the online flags of the node's own vector,
the only ones anything reads. The topology is a constant, and `NodeArray` its nodes in the order in
which `topology_getNodeArray` lists them, because `update_routingtable` works in that
order. `UpdateRoute(n, d)` is one turn of its outer loop: the minimum over the direct
link and over every other node as a way, with the code's choice of the hop (the first
node of the array that reaches the minimum, unless the link does).

### Sip

Every node has the threads of `sip.c`. `handler[n]` is `pkthandler`: idle, in
`update_routingtable` for a packet, or forwarding a notice; `todo` are the neighbours
its loop has still to write to. `monitor[n]` is `monitor_route_update`: scanning,
waiting for the tables with a `flag_mutex` held (`want`), holding them (`update`), or
sending notices. `dv_mutex` and `routingtable_mutex` are always taken together, so
they are one lock, held by whichever thread is in `update`: `Free(n)`. The pass over the nodes is
a step per turn (`pass[n]`), since the threads that send notices read `next` without
the lock. `queue[a][b]` are the packets SON carries from `a` to its neighbour `b`, in
order (one TCP connection each way). The list of nodes a notice has been to is a set.

`NotifyOffline` keeps what the code tests: the flag of the *silent* node and not of
the neighbour written to (`sip.c:367`). A notice that a node is offline is therefore
sent only when a packet of that node was handled in between.

`Stop` is `sip_stop` at any point (the tables are freed; the next process creates them
anew), `Start` the next process, `Drop` what SON cannot hand over in between.

### Son

`fd[n]` is what each descriptor of the SON process of `n` is: `Free`, a connection, or a
`Socket` that is none (the one of `SON_PORT`, or one whose `connect` failed, which nobody
closes). A connection is a record of who opened it, in which of his runs, and to whom;
the two ends hold the same record, and one that is accepted by nobody yet is in `backlog`
or `sipBacklog`. `Gone` says that the other end is closed. A new descriptor is always the
`Lowest` free one, as POSIX has it, so numbers come back at once; `conn[n][m]` is the
number in the entry of `m` (`nt[i].conn`), which `listen_to_neighbor` closes without
clearing it.

`main[n]` is the place of the main thread, from the 30 seconds of `SON_START_DELAY` to
`waitSIP`, and `left[n]` what is left to the thread `waitNbrs`. `listener[n][m]` is the thread for the
entry of `m`: it reads its entry when it first runs (`ListenerStart`), and after its
connection has ended accepts whoever comes (`ListenerAccept`): `Accept` puts the number
into the entry of the neighbour it comes from and into the thread's own variable.
`ConnectNbr` takes the neighbours in any order; at the first that is not there it gives up,
and so nobody tries the rest. Sending changes nothing here but when it kills: a send on a connection whose other
end is closed, or on a socket that is no connection, raises SIGPIPE, which nobody handles
(`SendKills` for the neighbours, `ForwardKills` for SIP); it *may*, because the first such send often succeeds. `Stop` is `son_stop`, or a crash, at any point.
`moved[n]` is a history variable: the parties whose connection ended, or who were given a
descriptor since one did.

### IRCode

A line is a record of what its words say: `op`, up to three operands `x`, `y`, `z` in the
order in which the code looks at them, and an operator, a name or a size. An operand has a
mode: a constant (`#`), a variable, an address (`&`) or what an address points to (`*`).
`BAD` stands for every line that fails a syntax test for reasons the record does not show,
`WORD` for a line of one word that is no instruction, where the code looks at a second
word that is not there. `Rejected` collects the tests of `sanityCheck`, `Accept` the traces
a line leaves in the tables. `functionDict[f]`, a list of names in the code, is kept as
the place each variable will have in a frame of `f`, which is what the loop over that list
in `CALL` computes. Text, columns and messages are left out.

### IRMachine

`result` is the value `execute_code` returns, or `raise` for an exception other than
IndexError. Memory is a Python list: index -1 is its last word, so a variable with address
-1 (of a function that has not been called) reads and writes that word, and only an index
beyond both ends is an error (`IsIndex`, `Word`). Everything an instruction does before it
fails stays done: PARAM has taken the argument, RETURN has closed the call. `homes` is a
history variable: the tables as they were when the run began and at each open call.

### IRSim

A handler of the window runs to its end before the next one starts; `slot` is the one at
work, and its loops (the lines of the file, the instructions of `run`) are steps. An
exception ends a handler where it is (`Escapes`); PyQt 5 aborts the process on it unless a
hook is installed, PyQt 4 goes on, so version 1.1.0 has both outcomes. `Displayable` is
when `displayWatchTable` does not itself raise an IndexError. `CannotAsk` is
`okToContinue` of 1.1.0 while a program runs: `QMessageBox.questin` (`irsim.py:315`) does
not exist, so the warning of the comment in line 312 is never shown.

### IRFrames

The abstract machine: `frames` has the variables of main and of each open call, and a call
only ever touches the last one. There is no memory and no address. The mapping takes a
variable of an open call to the word at the address it had in that call (`SymbolsOf`,
`Content`). It speaks of programs that are `Plain`: words only, every function uses
variables it was the first to mention, jumps stay inside a function, and no function runs
into the next. Uninitialised variables of a new frame have any value. `Phase` is what the
window does, as far as the program is concerned: while memory is full (`Displayable` fails)
it is `lost`, and nothing is promised until the program is stopped or another file opened.

## 3. What is checked

Deadlock is checked in `sip_converge`, where the daemons go on for ever; elsewhere `CHECK_DEADLOCK FALSE`, because applications end or a bound
is reached.

| Run | Question | Result |
|---|---|---|
| `stcp_safety` | one client process; segments lost, corrupted, repeated, overtaking each other: the stream, the window, the buffers, opening and closing, and `ImplementsService` | holds |
| `stcp_restart` | the client process restarted once, anywhere | `IInv`, `ConnInv`, `PositionsInOrder`, `RunsInOrder` hold, and either process dies only where `DiesAfterClose` and `DiesWithoutTcb` say |
| `stcp_liveness` | sent bytes are acknowledged, receive and disconnect return | holds |
| `stcp_connect_fails` | a failed connect leaves CLOSED (`stcp_client.c:101`) | violated: `stcp_client.c:428` |
| `stcp_restart_acks` | acknowledged is received (`stcp_client.c:439`), with a restart | violated: `stcp_client.c:441` |
| `stcp_recv_stuck` | a receive returns when its bytes were sent (`stcp_server.c:106`) | violated when they do not fit beside a segment boundary: `stcp_server.c:228` |
| `sip_failures` | four nodes in a line; a neighbour taken for offline comes back, or a process stops and starts while its old packets are under way: one writer, hops are neighbours, hops and costs agree, no cost is too low, offline nodes are not used | holds |
| `sip_converge` | a line of three, nothing fails, any number of updates: every hop is nearer, vectors become the distances, data leaves the network; types and the inductive invariant | holds |
| `sip_locks` | the daemon sends an update every interval (`sip.c:80`) | violated: lock order, `sip.c:241` against `351-353` |
| `son_links` | a node with two larger neighbours; all start at any time, the neighbours stop and come back, a SIP process comes and goes: whom numbers mean, who is killed, that all get connected and that whoever comes back is in the table again | holds |
| `irsim_programs` | both versions of the simulator with twenty-four files, opened, run, stepped through and stopped in any order: `IInv`, `FramesInv`, no overlap (in the file with a `DEC` of negative size there is one, and it is exempt), calls leave no trace, known errors only, `ImplementsFrames` | holds |
| `irsim_labels` | undefined labels are reported at loading (`irsim.py:418`) | violated in 1.1.0: `irsim.py:411-416` are inside the branch for GOTO |

The last column names a line for each disagreement between code and comment. Some
more were met, are part of the model and have no run of their own. In SIP, the destination is tried
as a way to itself by the node's own old cost (`sip.c:138`), so a detour's cost may stay
when the route is the direct link again. In STCP, a segment chosen to be lost is
acted on when its state allows (`stcp_client.c:401`, against `common/seg.c:38`: the
call says "lost" but has filled the buffer); the timer threads go on after the
send buffer is empty (`stcp_client.c:494`, against 482); the server's `seghandler`
dereferences a NULL table entry for a segment that comes after
`stcp_server_close` (`stcp_server.c:174`, against 155). In SON, `Readme.md` gives a
minute to start all nodes and the code waits 30 seconds (`son.c:30`); a neighbour whose
`connect` came too early is never connected, since nobody tries again, and its partner
waits in `pthread_join` for ever; the same holds for a node that comes back and has larger
neighbours, which do not connect a second time.

### STCP

**Bounds.** A window of 2 with three or four segments has a full window, waiting
segments and a timer that resends two; a buffer of 3 with segments of 1 and 2 bytes
has a segment that does not fit and one that fits exactly; paths of 2 or 3 segments
hold a resent duplicate beside new data. `MaxSeq`, `MaxRuns` and `ChanCap` bound the
stream, the restarts and the segments under way. At the bound `ChanCap` two things
happen: sends of the application threads and of the acknowledgement loop are lost
(the code's network may lose any segment), while the timer and the server's
`seghandler` wait for room, so that a full path is not by itself a livelock.

**Fairness.** `FairSpec` asks for weak fairness of each thread: the application
thread inside a blocking call, both `seghandler`s, the timers, and the server's
application, which keeps calling `stcp_server_recv`. POSIX threads that poll with
`usleep` are scheduled. Strong fairness of `DataArrives` and `AckArrives` says that
one and the same segment, resent for ever, is not lost every time: `seglost` draws
each time anew. Nothing forces the client application to send or disconnect. The
run `stcp_liveness` has segments of one byte and a buffer of one byte; that
`RecvReturns` needs such a fit is what `stcp_recv_stuck` shows.

### SIP

**Bounds.** `QueueCap` = 1 packet between two neighbours: with any number of updates
(`MaxUpdates = 0`) a vector under way may still be arbitrarily old, because its receiver
may wait. Where something fails, two or three updates let a node be heard of, fall silent
and be heard of again. `Watchers` are the nodes whose monitor gets to run (3, in the
middle of the line, has a neighbour on each side), `MaxSuspects` how often one finds a
flag 0, `Stoppers` the nodes whose process may stop, `MaxStops` how often, `MaxData` the segments handed to SIP. The
line of three has a node that is reached by a hop only, the line of four is the
smallest where a notice is forwarded to somebody. Both are parts of `topology.dat` with
its costs. Topologies with a cycle, where a loop of more than two nodes could arise, are
left to the theorems.

**`OneFailure`.** A constraint of `sip_failures`: either process 1 stops, once, or node 3 takes
a neighbour for offline, once and with two updates in all (otherwise three). Both together
are covered by the theorems, which have no such bound.

**`PassFirst`.** An action constraint of `sip_failures` and
`sip_converge`: while a node is in `update_routingtable`, and no thread of that node is
sending notices, the next step is the next turn of that pass. All that these turns read and
write is protected by the locks the pass holds; the only steps of others that touch it
are notices sent by the same node, which read `next` without the lock, and the stop of
the process, which discards it. So every other step commutes with the turns. The states
left out lie inside a pass, and the properties of these runs either speak of `Free(n)`,
or of what holds in the end, or (`TypeOK`, `OneWriter`, `HopIsNeighbour`,
`Inductive`, `HopIsNearer`) are proved for all interleavings in section 4. `sip_locks`
has no such constraint.

**Fairness.** `FairSpec`: weak fairness of a pass, of what `pkthandler` has begun, and
of the monitor as far as it has something to do; a monitor need not find anybody
silent. Strong fairness of `Broadcast` and of `Receive` from each neighbour: the daemon
sleeps and then takes a mutex that is free again and again, and `pkthandler` reads one
stream in which SON puts the packets of all neighbours as they arrive, so none is passed
over for ever. Both rest on a mutex being fair to a thread that asks again and again,
which POSIX does not promise but its scheduling gives.

### SON

**Bounds.** Node 1 with the larger neighbours 2 and 3, which each run at most twice, and a
SIP process at node 1. Two neighbours stop, or one of them twice, or one and the SIP
process is started: `MaxStops` = 2 and the action constraint `TwoFailures`. That is the
smallest network in which a listener may accept the other neighbour, and both may have gone
at once. Six descriptors are more than a process ever has in use here (two neighbours,
`SON_PORT`, SIP), so `Lowest` never fails to exist. Node 1 runs once: started anew it would wait for ever for its larger
neighbours, as the code does.

**What is asked.** `EntriesRight` speaks of the time in which at most one party of a node
has moved (its connection ended, or it was given a descriptor since); with two, a stale number may mean the wrong one until its
owner is accepted again. `DiesOnlyAfterStop`: late starts and failed connects leave
nothing that kills. `StartsTogether`: if all start within the delay, all get connected, both tables say
so, a thread listens, and nobody waits for ever. `Relinks`: when a larger neighbour comes
back and stays, its entry ends up with its new connection. Its premise `Prompt` is needed:
a thread that first runs after another of the node's connections has ended may read an
entry that the other thread has filled anew; then two threads read one connection, none is
left to accept, and TLC shows the neighbour waiting for ever.

**Fairness.** Weak fairness of `waitNbrs`, of the main thread and of each listener: threads
are scheduled, `accept` returns when there is somebody, and what is left to read of a closed
connection comes to an end. Nobody has to start, stop, or send.

### IR simulator

**Files.** `SomeFiles` in `IRSimMC` has a recursive function, an array filled through its
address, two functions that call each other from a loop, lines that read or write outside
of memory (one for each kind of instruction), memory that ends inside a frame (noticed when
a variable is used, when a call returns, or only when the table is displayed), a target that is missing, and files that do
not load. **Bounds.** Memory of 12 words holds the frames of a recursion of depth
two; typing 100 makes it overflow. Nothing else is bounded: the user may go on for ever,
and the state space is finite because every run clears memory and every program ends or
fills it. There is no fairness: a user need not do anything, and a program may loop.

**Negative sizes.** `DEC` of a negative multiple of four passes
`sanityCheck` (`irsim.py:358`) and moves `offset` back, so that variables overlap and
addresses may be negative. `Line` takes sizes from the integers, and the file `Back` has
two such lines, in main and in a function that calls itself. `Forward` says that no variable
has a negative size. `FramesDisjoint` is conditional on it: without the condition TLC shows the overlap in `Back`.
The other properties hold of such files too.

Met while modelling, part of the model, without a run: Stop in the middle of a call leaves
the callee's addresses and the grown `offset` in place, so that each such stop costs memory
until the file is loaded again, which the message in `irsim.py:170` advises; a target `*x` of an
arithmetic instruction or a call raises a KeyError, though `sanityCheck` lets it through; `DEC` outside of main is not
counted in the test of the memory size at loading; when the table cannot be displayed, `run`
leaves `ip` where it is and the next Step goes on from there.

## 4. What is proved

### STCP

`StcpProofs` proves, for every value of the constants that satisfies
`ConstantsAssumption` (a window of at least 1, no empty segments, naturals
otherwise), with and without overtaking:

| Theorem | Statement |
|---|---|
| `Invariance` | `Spec => []IInv` |
| `TypeCorrect` | `Spec => []TypeOK` |
| `Window` | `Spec => []WindowBookkeeping` |
| `Buffer` | `Spec => []BufferFits` |
| `Reliable` | `Spec => []ReliableStream` |
| `Acknowledged` | `Spec => []AckedIsTaken` |
| `Positions` | `Spec => []PositionsInOrder` |
| `Refinement` | with `MaxRuns <= 1`, `Spec => ImplementsService` |
| `Phases` | `Spec => []PhaseInv` |
| `OpenConnected` | `Spec => []OpenMeansConnected` |
| `ClosesBoth` | `Spec => []DisconnectClosesBoth` |
| `ClosedAfterData` | `Spec => []CloseAfterAllData` |
| `ClientDies`, `ServerDies` | `Spec => DiesAfterClose`, `Spec => DiesWithoutTcb` |
| `Line`, `Connection` | `Spec => []LineInv`, `Spec => []ConnInv` |
| `NeverBack` | `Spec => []RunsInOrder` |

The theorems from `Phases` on are in `StcpPhaseProofs`.

The argument. `ReliableStream` alone is not inductive: a data segment under way
could carry the wrong bytes. `IInv` adds what every segment and buffer holds:

* `BufferIsStream`: the send buffer is the last part of the stream, cut into
  consecutive segments;
* `SegmentsOK`: a data segment under way (or held by `seghandler`) carries the
  bytes its sequence number says, and ends between two segments of the buffer; an
  acknowledgement under way is at most `expect_seqNum` and also at such a place;
* `ServerStream`: the server's bytes have the positions 1, 2, ...;
* `StreamsAgree`: head of the send buffer <= `expect_seqNum` <= `next_seqNum`,
  and `expect_seqNum` is not inside a buffered segment;
* `FitsStaysTrue`: after the test of the room only `stcp_server_recv` can run, which
  makes room and leaves `expect_seqNum` alone;
* `WindowBookkeeping`, `BufferFits`, `BufferByPhase` (nothing is buffered outside of a
  connection), `HoldOK`, `TypeOK`.

"Not inside a segment" is the key: the acknowledgement loop subtracts whole segment
lengths, and would free one byte too many, or run off the list, if an
acknowledgement could fall inside a segment. It cannot, because resending never cuts
segments anew. The clauses about the client's stream hold for one client process
(`run <= 1`); the others survive restarts, which is why `Positions` and `Window` have
no such condition.

How a connection opens and closes is about control segments: which may still be under way,
held or answered in which phase. `PhaseInv` says so, and is inductive relative to `IInv`:

* `ServerPhase`, `ClientPhase`: at each place of an application thread, the states its TCB
  may be in and what its `seghandler` may hold; a segment held was read in a state that
  handles it, and the state may have changed since.
* `EndsAgree` (one client process): before the client sends a FIN there is none anywhere, so
  the server is not in CLOSEWAIT, and if the client is CONNECTED, or a SYNACK is there, the
  server is CONNECTED; a FINACK, or a client that its FINACK has closed, means that the
  server is in CLOSEWAIT or gone. This is what `OpenMeansConnected` and
  `DisconnectClosesBoth` need, and it fails across restarts, where an old FIN or SYNACK
  meets a new connection.

`ClosedAfterData` then follows from the stream: a client that has sent a FIN has drained its buffer, and
an empty buffer means (`StreamsAgree`) that `expect_seqNum` is `next_seqNum`.
`ClientDies` says that a client process that is not restarted never dies of an
acknowledgement (the loop never runs past the end of the list): only of what its own threads do
after `stcp_client_close` has freed the TCB. `ServerDies` is the same for the server's NULL
table entry. `RunsInOrder` speaks of restarts on a path without overtaking: `RunsInLine`
puts what the server has, what it holds and what is under way into one line, in which the
number of the client process never falls.

Model-checked only: liveness (the prover has no fairness and no ENABLED).

### SIP

`SipProofs` proves, for every topology that satisfies `TopologyAssumption` (costs are
positive, at most `INFINITE_COST` and the same both ways; every node is in the node
array) and all bounds:

| Theorem | Statement |
|---|---|
| `Invariance` | for every distance `D`, `Spec => []IInv(D)` |
| `CostsNeverTooLow` | for every distance `D`, `Spec => []NotBelow(D)` |
| `InductiveHolds`, `NeverTooLow` | the same for `Dist`: `Spec => []Inductive`, `Spec => []CostsAreReal` |
| `TypeCorrect` | `Spec => []TypeOK` |
| `TablesHaveOneWriter` | `Spec => []OneWriter` |
| `HopsAreNeighbours` | `Spec => []HopIsNeighbour` |
| `HopsFollowCosts` | `Spec => []HopIffReachable` |
| `OfflineNotUsed` | `Spec => []OfflineUnused` |

A distance is any `D` with `D[x][x] = 0` that no link and no detour undercuts. The constant
`Dist` is one (`DistAssumption`); the runs put the lengths of the shortest paths there
(`LongLineShortest`, `LineShortest` in `SipMC`, for which TLC evaluates the assumption). So costs never drop below
the shortest paths, whatever fails and comes back. The argument: a vector is only ever made of links,
of `INFINITE_COST` and of sums of the owner's own cost to a node and that node's cost as
stored, and the triangle inequality carries the bound from the parts to the sum. A route update
under way must therefore be about its sender (`GoodPacket`), whose row is the one the
receiver overwrites. `HopIsNeighbour` needs more than itself: the minimum of
`update_routingtable` is taken over *all* nodes, and a node that is no neighbour is never chosen only because
its row is infinite (`GoodCosts`), which makes a way through it cost at least
`INFINITE_COST`, no less than the direct link. `TypeOK` needs the link among
the ways: without it a sum of two infinite costs would be stored. `OneWriter` needs
`pass # 0 => ~Free`, that a pass is always inside the lock.

`HopsFollowCosts` and `OfflineNotUsed` rest on `TablesAgree`, which follows a pass turn by turn: the routes whose
turn is over exist exactly for finite costs and use nobody who is offline, and whoever is
offline has no route and an infinite vector. The table of a node agrees with itself only
between passes, which is why both properties ask for `Free(n)`.

`SipLoopProofs` proves

| Theorem | Statement |
|---|---|
| `RoutesHaveNoLoops` | with `MaxSuspects = 0` and `MaxStops = 0`, `Spec => []HopIsNearer` |

Loop-freedom is a statement about two nodes. What `n` stores of a neighbour is old, and the
neighbour's costs may have changed since. The invariant `LoopFree` says that while nothing
fails they only fall (`VectorsFall`): along the line from the stored vector over those
under way to the neighbour's present one, no cost rises. A node's own cost to a destination is at least the
stored cost of its hop plus its own cost to that hop (`WayThere`), so the hop's present cost is
lower still, by at least that positive cost, and no cycle of hops can close. A node taken for offline, or one
that starts anew, raises costs, and then routes may loop until the costs have counted up.

Model-checked only: the liveness properties.

### SON

`SonProofs` and `SonQuietProofs` prove, for every topology that satisfies `SonAssumption`
(natural node ids, neighbours of each other) and all bounds, `MaxFd` included:

| Theorem | Statement |
|---|---|
| `TypeCorrect` | `Spec => []TypeOK` |
| `EntriesAreRight` | `Spec => []EntriesRight` |
| `QuietNobodyDies` | `Spec => []DiesOnlyAfterStop` |

For the first two `IInv`: types; what waits at a port comes from a neighbour (`BacklogsOK`);
no thread before `Join`, no SIP before `Listen`, and a thread that waits in `accept` has moved
(`PhasesOK`); and `OneMoves`. That extends `EntriesRight` to the numbers the threads keep in
their own variables, and forbids more: only the number of the party that moved may be free. It must, because the next descriptor
is a free number, and would be put behind every entry that still has it. The argument for a new
descriptor uses the invariant for two different parties at once where nothing has moved
yet (then no number is free), and otherwise the fact that the only entry that may be free is
the one that gets the new number.

The third theorem is about both ends of a connection. While nothing stops, `Alive`:
whatever one end holds, the other holds or has waiting; and `NumbersOK`: every number in use
is a connection or -1. Hence no `recv` ends but on -1, nothing is closed, and no
send breaks. A thread that starts with -1 (its neighbour was never there) closes
nothing and goes to `accept`, which the invariant has to allow.

Model-checked only: `StartsTogether` and `Relinks` (liveness).

### IR simulator

`IRProofs` and `IRFramesProofs` prove, for every set of files (sizes in `DEC` are any integers), every size of memory, any values typed and both
versions:

| Theorem | Statement |
|---|---|
| `Invariance` | `Spec => []IInv` |
| `TypeCorrect` | `Spec => []TypeOK` |
| `NeverOverlap` | `Spec => []FramesDisjoint`: no overlap if no size is negative (`Forward`) |
| `HomeAgain` | `Spec => []AlwaysHome` |
| `ErrorsKnown` | `Spec => []OnlyKnownErrors` |
| `FramesHold` (`IRFramesProofs`) | `Spec => []FramesInv` |
| `Refinement` (`IRFramesProofs`) | `Spec => ImplementsFrames` |

The argument. That variables do not overlap *now* is not inductive: `RETURN` brings back
addresses that were in force before the call, and they must fit with the ones it leaves
alone. So the invariant looks at a sequence of views: the tables when the run began, the
tables at each open call, and the tables now.

* `ViewsOK`: all views have the same variables with the same sizes. If no size is negative (`Forward`), each view is
  well laid out below its own `offset` (`Stacked`), and of two views the later
  one differs only by addresses at or above the `offset` of the earlier (`Later`). A call
  adds a view on top, a return removes the last, and `FramesDisjoint` follows.
* `CallsOK`: what the k-th open call keeps, put over view k+2, gives back view k+1. That is
  what makes `Restored` exact, and `AlwaysHome` is its case with no call open. It needs no `Forward`: a
  return restores the tables also where variables overlap.
* `LoadedOK`: the variables of a function lie side by side in its frame (`Framed`, again under `Forward`), so the
  new addresses of a call are apart from each other; every operand of a line that was let
  through has a symbol, so `symbolTable[x]` is never a KeyError.
* `JumpsOK`: once a file is loaded, the jumps that `labelCheck` looks at have targets, and an
  open call was made by a CALL line, which is at `ip` again when it returns.

`Refinement` compares two machines: one that moves addresses about in a flat memory, and one
in which every call has variables of its own and there are no addresses. `IInv` is about
addresses only; for a step to be one of `IRFrames`, the line that is executed must also be a
line of the function whose variables are in force. `FramesInv` adds that:

* `FunctionsOK`: every line after the first function belongs to exactly one, and
  `labelTable` and `functionDict` point to the lines that define what they name; true of
  every file, while it is being loaded and after.
* `AddressesOK`: without DEC every symbol is a word; under `Forward`, the variables of main
  always have an address, those of an open call one at or above the `offset` of its caller.
* `ControlOK`, of programs that are `Plain`: `ip` is a line of the function of the last call,
  and the place each open call returns to is a line of its caller's. It is stated only where
  memory suffices for the level in question (`Shown`, `Displayable`), because an exception
  of `displayWatchTable` leaves `ip` behind on a RETURN or GOTO that was executed already.

From these, any two variables of any two frames lie in different words (`WordsApart`): a read gives
what the frame has (`OperandIs`), a write changes one variable of one frame (`StoreAssigns`), a
call puts a frame on top whose variables disturb no other (`CallExecutes`), and a return
shows the caller's again, with the result in its target (`ReturnExecutes`). Handlers of the window are a
run's begin, its end, or a stutter (`WindowRefines`, `StopRefines`). The theorem has no
bound on recursion, memory or files; what it does not say is anything about a program that
is not `Plain` (arrays, variables shared between functions), or while `Phase` is `lost`. `NeverOverlap` (if no size is negative) and
`HomeAgain` cover those.

## 5. Plan

Done: STCP with one connection; SIP with failures and restarts; SON with its connections;
the IR simulator. Every invariant and action property of the passing runs, and both refinements, are
theorems; the liveness properties cannot be. Next, in this order:

1. `SegFraming`: frames of two connections written by two `send` calls each into one
   socket, and the finite-state receiver; the same for SON's listeners on `sip_conn`
   (`pkt.c:183`).
2. `RoutingTable`: the hash table with its slots, against a plain map; what happens when
   node ids collide. `Topology`: the shared list that every call reads anew.
3. `StcpServerTable`: several TCBs, the search with NULL entries and unknown ports.
4. `StorageMaster` (`DistributedSystem`): registration, heartbeats, failover,
   replication. Abstract specification: every stored file has a copy.
5. `ChatServer` (`lab3`), then BitTorrent piece bookkeeping.

There are twelve runs, which together take about fifteen minutes; new ones should replace or
merge old ones where a theorem has made a run redundant.

## 6. Not modelled in what is modelled

* Real time: the values of the timeouts, sleeps and polling intervals.
* Byte layout, ports and node ids of segments, logging.
* Failure of `socket`, `malloc`, `pthread_create` and the like.
* A closed connection to the SIP process (both `seghandler`s would spin).
* Sequence numbers are naturals; the code's are 32-bit and would wrap after 4 GB.
* The contents of freed memory: a thread that uses a freed TCB crashes, where the
  code might also go on with stale bytes.
* SIP: the slots of the routing table's hash; the neighbour cost table allocates room
  for one entry only (`nbrcosttable.c:21`) and then writes one per neighbour; what
  happens in the moment between unlocking the tables and writing to SON; the order in
  which the monitor looks at neighbours (any order here); the loss of the connection
  to SON; entries for the node itself in a stored vector, which an uninitialised
  flag decides on and nothing reads.
* SON: the contents and framing of packets; the descriptor of `topology.dat`, which every
  call of the topology functions opens and closes again and which may therefore hold a
  low number for a moment; connections from addresses that are no neighbour's (`nt_addconn` returns -1
  and the connection stays in the thread's own variable); the limits of the backlog; what `son_stop`, a
  signal handler, finds half done. The ends of a connection close at once
  (a node that is cut off without closing is not modelled).
* IR simulator: Quit and About, colours, texts and the selected line, the count of
  instructions; the division of 1.0.2, which is `/` (the floor under Python 2, for which
  PyQt 4 was used; a float under Python 3) where 1.1.0 has `//`; the size of Python's
  integers (unbounded in both).
* A large part of the lines of `src/` is out of reach of any model: 22351 lines of the
  Python files are icons encoded by pyrcc (`resources_rc.py`) and some 400 the layout made
  by pyuic. They have no behaviour.
