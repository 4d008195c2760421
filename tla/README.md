# Verification of the MockTrue serial core

MockTrue is a desktop application (Go, with a Vue frontend) for serial work: terminals, monitors that
tap a port, Modbus and FECbus masters and slaves, virtual ports, and *serial graphs* in which ports,
bridges, filters, scripts and protocol nodes are wired together. This directory holds TLA+ models of its
concurrent core, the TLC runs that check them and TLAPS proofs of the results that hold for every size.

Contents: [Inventory](#inventory) ·
[Modules and code](#modules-and-code) ·
[Runs](#runs) ·
[Fairness](#fairness) ·
[Proofs](#proofs) ·
[What the models show about the code](#what-the-models-show-about-the-code) ·
[Not modelled](#not-modelled) ·
[Plan](#plan)

Paths are relative to `src/internal/modules/serial/` unless they begin with `src/`.

To check a run: `tlc -config Host.cfg MCHost`. To check the proofs: `tlapm AlgorithmProofs.tla`.
`PROJECT.json` lists components, runs, mutants (one plausible bug for each property, which TLC must find),
the source lines each definition models, hazards and theorems.

## Inventory

Every public call comes in on a goroutine of its own (from the frontend, the MCP server or a test), so
any two calls can overlap. Locks are short: a call typically looks something up under a lock, unlocks,
talks to a device, and locks again to record the result.

| Component | State | Operations | Talks to | What is hard | What makes it correct |
|---|---|---|---|---|---|
| Serial service, `service.go` | `buffers`, `graphs`, `autoMonitorVirtuals` | `OpenPort`, `ClosePort`, `StartAutoVirtualMonitor`, `StopMonitor`, `cleanup` | all managers | a handle and its ring are recorded in two steps; every call races with the others and with the shutdown | every handle, ring and virtual port has somebody who will release it |
| Port manager, `manager/` | `handles`, `nextID`, one read loop per handle | `Open`, `Close`, `Write`, `CloseAll` | port backend, event bus | `Open` of an open port returns the same handle | one handle per port |
| Graph runtime, `graph_runtime.go` | status, owned handles and virtual ports, subscription, senders | `StartSerialGraph`, `StopSerialGraph`, `start`, `stop` | port and virtual port managers, event bus | one step of many fails; stop during start; restart during stop | all or nothing: a graph runs with all its ports, or holds none |
| Remote TCP node, `graph_runtime.go` | `remoteConn`, `remoteListener`, `remoteReconnectActive`, `remoteCtx` | dial, listen, read, write, reconnect, stop | the network | readers, writers, the accept loop, the reconnect loop and `stop` all replace the one connection | no connection leaks, none goes unread, one reconnect loop, no lost reconnect |
| Graph validation, `graph_runtime.go`, `mcpserver/server.go` | none | `validateSerialGraphRuntimeRequest`, `validateSerialGraph` | routing relies on it | two copies of the rules; the routing recursion has no bound of its own | the copies agree; exactly the graphs that can be routed start |
| Graph filter, `graph_filter.go` | none | match a candidate | routing | a parser that evaluates as it reads | what the expression says passes |
| Graph routing | the call stack | `send`, `emit`, `receive`, handlers of the node types | ports, remote nodes, scripts | fan-out, loopback, errors in one branch | ends, reaches every target once, tells errors |
| Frame history of a node | frames, `frameSeq`, byte count | `captureFrame`, query, clear | routing | limits of count and bytes | the newest frames, in order |
| Ring buffer, `buffer/` | `chunks`, `total`, `retained` | `Append`, `Query`, `Total`, `Reset` | read loops, graph nodes, frontend | base taken before the append; chunk arithmetic at the limits | exactly the newest bytes, each at its offset |
| Monitor, `monitor/` | `sessions`, ports, two goroutines per session, frames | `Start`, `Stop`, `Delete`, `ClearFrames`, `Query` | port backend, virtual ports | a stop waits for goroutines that may be failing; sessions share ids | stopped means silent, running means served, nothing leaks |
| Modbus session, `modbus/session.go` | port, status, simulated units, slave loop | open, close, start and stop slave, edit units, master requests, scans | port backend | stop gives up after a second; late answers; address wrap-around | one owner of the port; answers belong to their requests |
| FECbus session, `fecbus/session.go` | the same, and frame history | the same, without scans | port backend | the same; a record gets its number outside of the lock; an answer is told by addresses and a number that defaults to 1; nothing escapes the boundary byte | the same; the history is in order; frames decode to what was encoded |
| Modbus and FECbus managers | `sessions` | `OpenSession`, `CloseSession`, `CloseAll`, `PortInUse` | port backend, the service's guards | check, unlock, open, check again | one session per port; the loser gives its port back |
| Modbus data, `modbus/protocol.go`, `datamodel.go` | the tables of a unit | build, serve and parse PDUs | masters and slaves | widths, byte counts and PLC numbers at their limits | a transaction reads or writes exactly the cells it names |
| Virtual ports, `virtualserial/` | `pairs`, backends | `CreatePort`, `DeletePair`, bridges | the operating system | ids come back after a restart | a pair has one owner |
| Script runtime, `script_runtime.go` | the state the runs of a node share | run with timeout | routing | a run goes on after its timeout; runs overlap | limits hold, no part of a run that failed is emitted |
| Event bus, `src/internal/core/eventbus` | handlers | publish, subscribe, cancel | read loops, graphs | handlers run on a copy, without the lock | no delivery is lost |
| Module registry and application, `src/internal/core/{module,app}` | modules, order | init, start, stop, dispose | all modules | failure half way; requests that outlive the shutdown | modules run in the order of dependencies; nothing is left |
| Configuration and workspace files, `src/internal/core/{config,workspace}` | files | save by temporary file and rename | the file system | a crash between steps | old or new content, never a part |
| Frontend stores, `src/frontend/src/serial/stores` | copies of backend state | async actions | all services | state read before an `await` and written after it | no update is lost |

The other parts (port backends, enumerators, parsers, templates, recorder, encodings, fonts, logging, metrics, most of the MCP
tools, views) either are pure functions or pass calls on; `PROJECT.json` lists them with the reason they are left out.

The hazards that come with this (`PROJECT.json`, "hazards") are of five sorts: lists and maps that are
taken under a lock and used after it; several goroutines that notice the same failure; several steps that must be undone
when one fails; answers and calls that come late; and arithmetic at a limit (ring, histories, address space, byte counts).

## Modules and code

In all modules one action is one critical section, one atomic operation or one blocking
call of one goroutine. What happens between two of them can be interleaved with anything. A choice that the model does not
make (does the dial succeed, does the device answer, does the filter match) is nondeterministic. Definitions that begin with
`\* mutant:` are plausible bugs, used only to show that a property can fail.

| Module | Models | State and actions |
|---|---|---|
| `RemoteNode` | the `serial.remote` node of `graph_runtime.go` | shared fields of runtime and node, a state per TCP connection, and the locals of the goroutines: `starter`, `stopper` (two callers of `stop()`), `accept`, `reader[c]`, `rec[k]` (reconnect loops, named by the connection whose loss caused them), `writer[w]`. `Break(c)` is the network |
| `GraphPorts` | `StartSerialGraph` … `stop`, `OpenPort`, `ClosePort`, `cleanup`, port manager, virtual port manager | handles, pairs, rings, the map of graphs, the lists of each runtime, and the steps of `start` (per resource node: check, create the virtual port, open, bind, record), `stop` (take the lists, cancel, delete pairs, close handles) and the calls of terminals. A deletion of a pair may fail, and the callers drop the error, as in the code. History variables: `stuck`, the pairs that could not be deleted, and `early`, the handles closed before their ring was stored. Runtimes are the objects of successive starts of *one* graph id, because that is where ids collide |
| `MonitorSession` | `monitor/manager.go`, auto virtual monitors of `service.go` | session objects under shared ids, the two devices, `forward` per direction, stop with its wait group, the map of virtual ports, whose deletion may fail. Starts, stops and deletes of one id overlap freely. History variables: `kept`, the sessions whose virtual port could not be deleted, and `overlapped`, those whose own calls met a start of their id |
| `RingBuffer` | `buffer/ring.go`, and callers that read `Total()` first | chunks as intervals; `Append` and `Query` are loops under the lock and every iteration is a step. The history variable `stale` says whether a base was used that was no longer `Total()` |
| `CycleCheck` | `graphRuntimeCreatesCycle` | stack and visited set; the order of the search is left open |
| `GraphValidation` | the two validators, of `graph_runtime.go` and of `mcpserver/server.go`, and the demo graphs of the tools | operators: the errors of a graph, which a client draws edge by edge. Both validators are built from the same pieces exactly where the code of the two is the same |
| `GraphFilter` | `graph_filter.go` | operators: tokens to a verdict, by the recursive descent of the code; the grammar is stated beside it |
| `ScriptNode` | `script_runtime.go`; transform, analyzer and generator nodes; the frame history | per run the machine and the handler that waits for it, which go apart at a timeout; the shared state with its lock; frames |
| `GraphRouting` | the edges a graph may have and the mutual recursion of `emit` and `receive` | the graph is drawn edge by edge, validated, started, and then bytes are injected; the recursion is an explicit stack. `INSTANCE`s `CycleCheck` for reachability |
| `RegisterScan` | `scanRegisters` | the loop with `uint16` addresses, `% Space` |
| `ModbusSlave` | slave simulation of a Modbus session | `startSlave`, `stopSlave`, `close`, the loop (check, read, clone, store, write, fail), edits of units, exclusion with master transactions; every caller first looks the session up and may find it closed later |
| `ModbusMaster` | `masterRequest`, `readFrame` and the line | attempts, buffer, the two frame modes, devices that answer late, in parts, damaged or never |
| `ModbusTables` | what a unit promises (abstract) | four tables of cells: read, write, or refuse |
| `ModbusData` | `modbus/protocol.go`, `datamodel.go`, the Modbus slave node of a graph | one transaction in bytes: build, serve, parse. Refines `ModbusTables`; a byte has `ByteBits` bits, so that the limits of the real widths are reached with small ones |
| `FecbusSession` | slave, transactions and history of `fecbus/session.go` | as `ModbusSlave`, with the frame history that master and slave write |
| `FecbusMaster` | `sendRequest`, `readFrame` and the line | frames are boundaries and bodies; a body may hold a boundary |
| `FecbusProtocol` | `fecbus/protocol.go`, `function.go` | operators on bytes: encode, decode, extract, match |
| `PortOwners` | the owners of ports: terminals, sessions, bridges, virtual pairs; the guards of `service.go`; `cleanup` | every open is asked, resolved, opened and stored in steps of its own. `CreateBridge` asks each session manager for each port without a lock (`AskSession`), then takes the lock of the virtual port manager, looks both devices up and opens one (`OpenFirst`) and the other (`OpenSecond`, or closes the first); `LockFree` keeps away whoever needs that lock. `DeleteBridge` and the bridges in `cleanup` close both devices in one step, under that lock. Every owner opens and closes at any time, the clean up meets all of them |
| `AtomicRegister` | what saving promises (abstract) | a file changes in one step or not at all |
| `AtomicSave` | `config.Save`, `writeAtomic`, `SaveWorkspace`, the last workspace (which may be remembered without being there) | the steps of a save, each of which may fail, several saves at once, and `Crash` between any two. Refines `AtomicRegister` |
| `ModuleOrder` | `orderLocked` of `module/registry.go` | Kahn's algorithm, one step for each iteration of its loops; a map is visited in any order |
| `AppLifecycle` | `module/registry.go`, `app.go`, start and stop of the serial and the MCP module | the starter and the stopper as two goroutines, each call with any sorted order of its own (`ModuleOrder` finds some of them), requests that open ports |
| `EventBus` | `eventbus/bus.go` | subscriptions, and per publisher the copy it still calls |
| `RemoteNodeInv` | – | the inductive invariant of `RemoteNode` |
| `*Proofs` | – | theorems |
| `MC*` | – | constants, symmetry, and inputs. `MCGraphs`, `MCModbus` (which has a monitor session beside Modbus, for the liveness of both), `MCFecbus` and `MCHost` hold several modules that share no state: a behaviour is of one `part`, chosen at the start, and the others keep still |

Abstractions shared by all: payloads are left out or are model values (in the ring, a byte is its position in the stream; in
the master, a frame is two parts, enough to be split and to run together); counters, timestamps and log messages are left out;
a device is what its callers rely on. TCP connections, handles and loops are drawn from finite sets; a TCP identity is used
again once nothing refers to it, so that the number of reconnects is not bounded.

## Runs

| Run | Bounds, and why they are enough | Shows |
|---|---|---|
| `remote_node` | 2 connections, 1 writer, both roles, stop during start. Two connections are what the hazards need: one being lost while its successor is installed; identities are reused, so losses repeat for ever. The theorems lift the bound | `ConnsAreLookedAfter` (`NoOrphanConn` and `CurrentConnIsRead`), `OneReconnectLoop`, `ReconnectNotLost`, `StopReachesReaders` |
| `remote_node_live` | the same, client role | `ReconnectsOrEnds`: a lost connection is restored or the node is stopped, and a cancelled loop ends |
| `graph_ports` | 2 starts, a physical and a virtual node, 2 terminals on the physical port, 3 handles in the course of a run (a number is not given twice): the ports of both nodes, and one that is opened again. Two starts are needed for a restart during a stop, two nodes for "a later one fails", two terminals for one that is handed the handle of the other before its ring is stored. Any deletion may fail | `NothingOrphaned` (handles, rings and virtual ports), `RunningHasPorts`, `StoppedIsClean` |
| `graph_failed` | 2 starts, a virtual node; stop, start and shutdown overlap freely; any deletion may fail | `FailedStartIsUndone` |
| `graph_overlap` | as `graph_ports` without a terminal, 4 handles, with overlap | **violation** of `StoppedIsClean`, see below |
| `monitor` | 2 sessions under one id, one caller of stop and delete, a history of 1 frame, 2 payloads while only one session was started, 1 otherwise (`FewReads`). Two sessions of one id are what lets one take the ports of the other, and a start fail into a newer session; every call may overlap with every other. One frame is the limit | `NothingStaysOpen`, `StatusIsTrue`, `FramesNewest` |
| `monitor_delete` | as `monitor`, 1 payload | **violation** of `DeletedIsStopped`, see below |
| `graphs` | *search*: every graph on 3 nodes, one a master. *routing*: every graph of at most 4 edges between a node of every kind of `receive`: four edges allow a cycle through a master, a fan-out and a branch that joins again. *validation*: up to 3 edges, right and wrong, between 3 nodes; one and two remote nodes with every pair of values at or beyond a limit; ports claimed twice; the demos. *filter*: every sequence of 6 pieces of an expression (broken ones among the first), keywords, bytes. *script*: 2 runs at once, 2 keys, 2 calls of a generator's script, a history of 2 frames and 3 bytes, a frame larger than that | `SearchIsExact`, `DeliveredOnce` (and none twice on the stack: the recursion is no deeper than the graph has nodes), `ErrorIsTold`; `ValidatorsAgree`, `StartsExactly`; `FilterIsExact`; `NodeIsBounded` |
| `modbus` | *scan*: 5 addresses, chunks of up to 3, every request and every device. *slave*: 2 callers for stop against close, 2 loops for one that outlives its `stopSlave`, 1 unit. *master*: 2 requests to one unit and 1 to another, 1 retry, 1 request not answered yet, 3 parts on the line: a whole frame behind the rest of another. *data*: 2 transactions of every function, addresses at both ends and at the PLC numbers of every table, quantities at and beyond what a byte counts. *monitor*: 1 session, 2 callers that stop and delete it at once, 1 payload | `ScansExactly`; `SlaveIsSound`, `MasterAlone`; `AnswerIsForRequest`; `DataIsExact` (refines `ModbusTables`); `EverythingEnds`; `StopsAndFailuresEnd` |
| `fecbus` | *session*: 2 callers, 2 loops, units that answer all, some or nothing encodable, 1 retry, a history of 2 and 3 records. *line*: 2 devices, 2 message numbers, 2 requests with 1 retry, stray and lost boundaries. *bytes*: every field at and beyond its limits, the boundary byte among the functions | `SlaveIsServed`, `HistoryInOrder`, `AnswerIsForRequest`, `CodecIsExact` |
| `fecbus_extract` | the same frames | **violation** of `ExtractsFirstFrame`, see below |
| `host` | *owners*: 2 callers that open terminals and sessions, 1 that creates bridges, a real and a virtual port, every kind of owner. Two of the three calls are under way at a time (`TwoCalls`), so that any two race for a name, beside closes and the clean up; three at once are in the theorems, which have any number of each. *ring*: 3 bytes of capacity, payloads of 0, 1, 2 and 4 bytes (4 is larger than the ring), 2 appenders, a reader, resets; no append begins once `Total()` is 4, so up to 8 bytes pass. Every kind of eviction (whole chunk, part of a chunk, own payload cut) and chunk boundary occurs. *files*: 2 saves at once, 2 workspaces, the configuration and the state file, 2 contents. *lifecycle*: 3 modules with every order and all dependencies between them, 2 requests. *order*: every dependency graph on 3 modules, missing ones and cycles too. *bus*: 2 publishers, 3 subscriptions, a bridge, 2 events | `NothingIsLost`, `OneOwner`; as long as no base was stale `RetainsNewest`, `SnapshotExact`, `RefusedOnlyEvicted`, and always `MemoryIsSound` (bounded memory, no slice out of bounds); `SaveIsAtomic` (refines `AtomicRegister`); `OrderIsExact`, `LifecycleIsClean`; `DeliveredExactly` |

`TypeOK` states the shape of the state in the modules that have one. It is proved for `RemoteNode`, `RingBuffer`, `CycleCheck`, `RegisterScan` and `ModbusSlave`; every other proof
has a type invariant of its own, stated in the form the prover needs. Deadlock is not checked: every part may
rest (after the last start of the bounded set, when the scan is over, when nobody calls).

Some properties carry a guard that names the one circumstance in which they do not hold: `~stale` (ring),
`~overlapped` (slaves, application), `s \notin overlapped`, `s \notin kept` and `s \notin ended` (monitor), `~late` (Modbus master), `fecGivenUp`
(FECbus master), `stuck` and `early` (graph), `raced`, `spanned` and `stuck` (owners), `~renumbered` (frames), `Blank` (validators), and the constants
`Overlap` (graph) and `StopDuringStart` (remote node). All but the constants and `Blank` are history variables that the actions set, not
restrictions of the actions: all the behaviour is explored, and the property speaks of everything but the session, pair, handle or port
to which it happened. The two constants do restrict when a call may begin, in `graph_ports` and `remote_node_live`; `graph_failed`,
`graph_overlap` and `remote_node` let calls overlap. What happens behind the guards is described [below](#what-the-models-show-about-the-code).

## Fairness

- *A goroutine that is not blocked runs* (weak fairness of each goroutine's steps). The Go scheduler is preemptive; the locks are held
  for short sections and Go's mutexes do not starve.
- *A call of a closed port or a dead connection returns*, and so does a read with a deadline (`ReadFails` in `ModbusMaster`, the
  reads of the slave loop, which have a read timeout). A read of an open port or connection need not: nothing makes a peer send.
- *Nobody has to call*: no fairness for `StartSerialGraph`, `StopSerialGraph`, `OpenPort`, `Get`, `CloseSession`, writers that are idle. The FECbus session,
  graph start and stop (where no step waits but for the shutdown) and the modules of `MCHost` are checked for safety only.
- Strong fairness, twice, in `RemoteNode`: a dial that is made again and again succeeds at some time (the endpoint comes
  back, which is what a reconnect loop is for), and a `select` between the timer and `ctx.Done()` does not take the timer for ever
  (Go chooses at random among ready cases).

## Proofs

Proved by TLAPS for every value of the constants that satisfies the named assumptions:

**Remote node** (`RemoteNodeProofs`; `ConnsAssumption`, `RolesAssumption`, `StopAssumption`; any sets of connections
and writers). `Inductive`: `Spec => []IInv`; from it `TypeCorrect`, `LookedAfter`, `GuardExact`, `NotLost`, `StopReaches`.
None of these is inductive by itself. `IInv` (in `RemoteNodeInv`) adds: a goroutine has a connection in its hands exactly at
the steps that need one (`LocalsMatch`); one goroutine installs a connection, and nobody else knows it before (`OneHolder`,
`InHandPrivate`); a connection is closed before its loss is dealt with, by exactly one goroutine (`LostClosed`, `OneRecoverer`); a client
recovers one loss at a time and only without a connection (`ClientRecovery`); nothing is stopped or cancelled unless `stop()` was called
(`StopCauses`). `ReconnectNotLost` is then the following argument: the guard is set only while a loop runs, the loop clears it before
it installs the new connection, and only an installed connection can be lost; so whoever notices the loss finds the guard free.

**Ring buffer** (`AlgorithmProofs`; `NobodyAssumption`, `SizeAssumption`, `QueryAssumption`; any capacity, zero included, any
payload lengths, appenders, offsets and counts). `Inductive`, `TypeCorrect`, `Counted`, `KeepsNewest`, `Exact`, `Reachable`, `MemorySound`.
`IInv == TypeOK /\ Locking /\ (~stale => RingInv)`. `RetainsNewest` fails in the middle of the eviction loop, so `RingInv` says what
holds there: the chunks are ordered pieces of the stream (`Ordered`); they join, but for one gap before the newest chunk that can be there
only when that chunk alone fills the ring (`Joined`); nothing is dropped before the ring is full (`Filled`). When the loop ends, `retained` is at most
`Capacity`, which leaves no room for a chunk before the gap (lemma `NoGap`). `Copying` says where the loop of `Query` stands.
`Reachable` needs the first chunk that ends behind an offset, which exists because the order of the naturals is well founded.
`MemorySound` is about stale bases too, so nothing of `RingInv` is there to use: `Held` says that `retained` is the number of bytes in the chunks and that no chunk
is empty, `Standing` that the loop of `Query` is within its chunk. The number of bytes is the cardinality of the set `BytesIn`, not a sum, so
that a step of the eviction loop is a statement about finite sets (`BytesAppended`, `BytesTrimmed`, `BytesEvicted`) and no induction is needed.

**Cycle search** (`AlgorithmProofs`; `TerminalAssumption`; every graph, finite or not). `SearchInductive`, `SearchExact`, `SearchTyped`. Reachability is defined by closed sets, not by paths,
so that no induction over data is needed: what is on the stack or visited is reachable; when the stack is empty, the visited set is closed and
does not contain the source.

**Register scan** (`ModbusProofs`; `SpaceAssumption`; every address space and chunk size). `ScanInductive`, `ScanTiles`, `ScanFinds`. The invariant says
where the loop variable stands relative to the chunks read so far, and that the next address is zero exactly when the chunk
ended at the last address of all.

`Scans` puts the two together into the property of the run.

**Saving** (`HostProofs`; `SaveAssumption`; any number of calls, paths and contents). `Inductive`, `Implements` (every step of a save, a failure
or a crash is one step of `AtomicRegister`, or none), `Loads` (what was saved can be loaded, and the last workspace is none, found or gone, never an error;
a workspace that is remembered need not be there, `src/internal/core/workspace/service_test.go:39`).
Atomicity is not inductive by itself: `SaveInv` adds that the temporary file holds all of the content from the moment it is
closed until it is renamed, and that what is written to the state file is the path of a workspace.

**Monitor** (`MonitorSessionProofs`; `IdAssumption`, `LimitAssumption`; any sessions, ids and callers). `FramesNewestAlways`, for any limit; `NothingStaysOpenAlways` and
`StatusIsTrueAlways`. All calls overlap in all three; the last two speak of the sessions none of whose own calls overlapped with a start of their id (`Lone`), beside any others that
did and that may lose their place in the map, their ports or their virtual port. Their invariant, `MonitorInv`, says for each session how its fields, goroutines and ports go together (`FieldsInv`: `wg` counts the goroutines that
still run; `PortsInv`: a port of a session that does not run is open only where somebody is about to close *that* port; `QuietInv`), and who knows of it (`ListedInv`,
`VirtualInv`), and for each caller that it works on a session which was started and whose virtual port is the one it will find
(`UserInv`). `TurnsInv` is what it means to be `Lone`: no other call of the id is under way with its start, and no start of the id with a call that stops it. None of the two properties is inductive: that a failing goroutine and a caller that stops can both
find the session "running" only once is the agreement of `status`, `ports` and `stopped` in `FieldsInv`.

**Graph start and stop** (`GraphPortsProofs`; `NodesAssumption`, `CallersAssumption`; any nodes, any number of starts and terminals, any bound on the handles).
`FailedStartIsUndoneAlways` has no condition: starts, stops, terminals and the shutdown overlap freely, and any deletion may fail. `FailedInv` says that every handle and virtual port is known
to who opened it and, a handle, to no other runtime (`HandlesInv`, `PairsInv`; numbers of handles are not given twice, `NumbersInv`), that a subscription or sender is in the runtime or in the hands
of a stop (`BusInv`), and what a stop still holds at each of its steps (`StopsInv`). A start that failed has set the status "error" before it calls `stop()`, so that this stop
does take what is left, whoever took a part of it before. `RunningHasPortsAlways`, `NothingOrphanedAlways` and `StoppedIsCleanAlways` are for `Overlap = FALSE`, as the run: with overlap the last one is false (`graph_overlap`).
`TurnsInv` is what the condition buys: a stop begins when the start is over, and empties the lists for good. `ListsInv` says that a
virtual port is in the lists of one runtime, once, so that `DeletePair` of a stop deletes no port of the next start with the same ids; `RunsInv` says how far a start is. A pair that is `stuck`
stays one (`StuckStep`) and keeps its id, so that no later start has a pair of that id.

**Owners of ports** (`HostProofs`; no assumption; any callers, bridge calls, names and virtual ports). `NothingIsLostAlways`: what is open is owned by a table, a bridge, a call (that of a bridge between its two ports included) or a session on
its way out, in every state; `Swept` adds how far the clean up is, and that no call was under way when it began unless `spanned`. `OwnedOnce` and
`OneOwnerAlways`: `OwnersInv` says that two owners never know one device (`Exclusive`), that what is recorded for a name is a device of that name
(`Named`), and what the answers of the guards are still worth (`Told`): two calls for a name that nobody raced for do not meet, and what a guard has denied to such a call stays denied
until it ends.

**FECbus session** (`FecbusProofs`; `FecbusAssumption`: no loop or caller is the null value, the limit is a number; any callers, loops and limit). `SlaveIsServedAlways`: `StopInv` says who owns a
stop channel. It is open as long as the session has it, and then belongs to the one caller that took it out, so that it is closed once. `HistoryInOrderAlways`: a frame draws its number and is
stored in two steps; `InOrderInv` says that whoever has drawn a number has the latest (`Latest`), because a request holds the transaction lock (`MuInv`) and
does not run beside a loop, nor two loops beside each other, before `overlapped` (`AloneInv`).

**Modbus slave** (`ModbusProofs`; `ModelAssumption`; any callers, units and contents, any number of loops). `SlaveInductive`, `SlaveIsSoundAlways`,
`MasterAloneAlways`. As for FECbus, `StopInv` says who owns a stop channel; `KnownInv` that before an overlap one loop runs at most and somebody knows of it
(the session, or the caller that is about to tell it to stop), and that no transaction is under way while a slave runs; `UnitInv` that the chosen unit is there and that the
clone a loop is about to store is the content of one. `firstUnitID` is the least unit, which exists because the order of the naturals is well founded (`LeastOf`).

**Masters** (`ModbusProofs`, `LineAssumption`; `FecbusProofs`, `RequestAssumption`; any requests, numbers of retries and length of the line).
`AnswerIsForRequestAlways` (Modbus): `LineIsMine` says that, unless an attempt gave up before its answer was read, whatever is in the buffer and on the line is what is left of the
answer to the request of the transaction, in order, and that between transactions the line is empty. `FecAnswerIsForRequest` (FECbus): whatever a device still has to
answer, and every token on the line and in the buffer, belongs to the transaction that runs, or its address and number are in `fecGivenUp` (`Known`).

**Event bus** (`HostProofs`; no assumption; any handlers and publishers, any number of events). `DeliveredExactlyAlways`: a publisher has one event at a time and no event has two publishers; what was called for an
event and what its publisher still has to call are together what was subscribed when it was published.

**Order and life cycle of the modules** (`HostProofs`; `ModuleAssumption`: a registry has finitely many modules; `ServerAssumption`; any manifests, any requests).
`OrderExact`: `SortInv` says that the number counted for a module is the cardinality of what it waits for (`Awaited`), and that it is queued, once, as soon as this is
zero; so the modules that have no place when the queue is empty wait for one another. `LifeInductive` and `LifecycleIsCleanAlways`, for every sorted order: `LifeInv` says that
what runs is always a first part of a sorted order, of the starter's before the shutdown and of the stopper's after it (`StarterInv`, `StopperInv`), and such a part has the
dependencies of its modules (`SortedUpto`). `ServedInv` says that requests which were not given up are served by a server that runs, or that is waiting for them while the serial module
still runs, because the server depends on it; so no port is opened in a serial module that has stopped.

**Routing** (`GraphProofs`; no assumption; any nodes, types and edges). `RouteInductive`, `DeliveredOnceAlways`, `ErrorIsToldAlways`. What
validation lets through is `Good` (`ValidIsGood`): an input takes one edge, and no edge but those into masters closes a cycle, with reachability by closed sets as above.
`RouteInv` adds to this: the node of every emit on the stack is strictly below those under it (`Path`), because masters emit nothing that they receive; what is left to serve has received nothing (`Owed`);
who emitted has served its targets, or they are still on the stack (`Served`); who emitted was asked to or has received, and who received was emitted to (`Origin`). The last one is why no output
emits twice: an input that had made it emit before would have received before (`OnwardFresh`). `Told` says who knows of an error, as long as nothing on the way drops it.

**Script nodes** (`GraphProofs`; `ScriptAssumption`: finitely many keys, sizes are numbers, a node keeps at least one frame; any runs at once, any limits). `ScriptInductive`, `NodeIsBoundedAlways`.
`ScriptInv` has a part for each thing the runs share. `RunSound`: a run that is over and was not interrupted has nothing left of its script, so what it gave cannot change behind its output (`Left`),
and a run whose result is still to be taken has no output yet (`OutputAdded`), which is why there is only one. `HoldsLock`: who has the lock has a copy that differs from the state in the key it changes only, so no
change of another run is lost; `ChangesOnce`: a timeout lets a run finish the one change it is in. A deletion is not checked against the limit in the code and need not be: it makes no state larger
(`StateChanges`). `FramesSound`: the frames are the end of the history, and one more would not fit; this stays true when a frame is added, because what does not fit does not fit with one more
(`OneMoreFits`), and the loop that drops the oldest stops at the first rest that fits (`FirstFits`). That sizes can be counted is itself part of the invariant (`BoundedState`, `BoundedFrames`).

**Validation** (`GraphProofs`; no assumption; any graph, of any number of nodes and edges). `ValidatorsAgreeAlways`, `StartsExactlyAlways`. A graph is any two sequences of nodes and edges, with any
texts and numbers; the proofs do not look into what a scheme of a host is or how letters are lowered. That a client adds edges keeps this (`DrawnGraph`), so both properties follow from what the
operators say of one graph. `ValidGraph` and `StartedGraph` say what it means to have no errors: every node and edge is right by itself, is named once, and nothing is claimed twice. The tables of the two
copies are the same (`SameProviders`), and a remote node that the tools take has the same endpoint in the runtime (`RemoteAgree`); the other way round needs that nothing is blank. For `StartsExactly`, what is
said of one node or edge after the other becomes what is said of all of them: the node with an id is the only one (`TheNode`), so are the edges (`OtherEdges`), and of two claims it does not matter which comes first
(`KeysUnordered`). The search for a cycle asks of one edge whether its target leads back to its source. `CycleIsFed` and `FedIsCycle` turn this into the absence of any set of nodes that feed each
other: in one direction the nodes on the way back are such a set, in the other a smallest such set, which exists because the nodes are finitely many (`KnownFinite`), is all reached from each of its nodes.
`CycleCheck` has the recursion that answers the question, and `AlgorithmProofs` what it answers. With `StartsExactly`, what routing needs of a graph holds of every graph that starts.

Only model-checked: the filter properties of `graphs`, and that the demos of the tools are valid (an assumption that TLC evaluates); `CodecIsExact` of `fecbus`; the refinement of `ModbusTables`;
and all liveness, which is out of this prover's reach. `GraphFilter`, `FecbusProtocol` and `ModbusData` use recursive operators or arithmetic on bytes and stay with TLC.

## What the models show about the code

Three disagreements between the code and what it says of itself are kept as runs:

- **`graph_overlap`.** "StopSerialGraph stops one graph and releases every graph-owned resource" (`graph_runtime.go:221`). A
  stop in the middle of a start takes the lists of owned handles and virtual ports as they are; what `startResourceNodes`,
  `subscribeSerialData` and `startAutoSenders` add afterwards belongs to a runtime that is in no map any more. Ports stay open, and the
  subscription stays, until the program ends.
- **`monitor_delete`.** "Delete stops and removes a session" (`monitor/manager.go:98`). A `Delete` while `Start` is still opening the ports takes the session from the map, and its
  `stop()` finds nothing that runs; `start()` then sets the session running (`monitor/manager.go:231`). It holds both ports, and no id finds it.
- **`fecbus_extract`.** "ExtractFrame returns the first complete frame from buf" (`fecbus/protocol.go:174`). It returns what lies between the first two
  `0x7E`, and nothing escapes a `0x7E` within a frame: not in the function code 126, which is allowed, nor in data, length or check sum. Such a frame is cut.

The following are behaviours of the models behind the guards named above, found while writing the properties. They have no run:
either nothing in the repository promises otherwise, or the promise is small.

- Ring: `appendBuffer` reads `Total()` and appends in two critical sections. Two goroutines of a graph node, or a `Reset` in between, make chunks that overlap or
  leave a gap; `Total()` is then less than, or more than, the bytes that arrived (`stale`). Memory stays bounded and `Query` never panics.
- Terminals: "ClosePort closes a serial port and removes its buffer" (`service.go:207`). `OpenPort` stores the ring after the manager has opened
  the handle (`service.go:178`, `187`), and a second caller is given the handle meanwhile. If it closes the port before the ring is stored, the ring is stored
  for a handle that is gone, and stays (`early`).
- Virtual ports: when the backend cannot stop a pair, `DeletePair` returns the error and keeps it (`virtualserial/manager.go:93`). The undo of a failed
  start (`graph_runtime.go:489`), `stop()` of a graph (`graph_runtime.go:937`) and the undo of an auto monitor (`service.go:428`) drop that error: the port exists, nobody has it
  recorded but the virtual port manager, and only the clean up of the whole service tries again (`stuck`, `kept`). A graph of the same id then fails to start, because the id of the port is taken.
  `cleanupAutoMonitorVirtual` returns the error and keeps the port recorded, and the next stop of that id tries again.
- Monitor: when calls for one id overlap with a start of it (`overlapped`), `cleanupAutoMonitorVirtual`, which looks virtual ports up by id, may miss one that is recorded
  later or delete the one of a newer session; and a start that fails deletes whatever session its id names by then (`monitor/manager.go:51`). A read that fails after the
  context of the starting call has ended is told to nobody: the session stays "running" with one direction (`ended`).
- Modbus slave: `stopSlave` gives up after a second. If a slave is started while the old loop is on its way out, the old loop's
  `setError` makes the session forget the new one (`overlapped`), and a master transaction may begin while the loop still reads. The
  loop's clone, apply, store undoes an edit made in between, and revives a unit removed in between.
- Modbus master: an answer that comes after its deadline is on the line for the next transaction, and is returned by it if it is of the
  same unit (`late`).
- FECbus: the slave's life cycle is the Modbus one, with the same behaviour. A late answer of an attempt that was given up matches the next request to that
  device with the same number, and the number defaults to 1 (`fecGivenUp`). A boundary out of place makes the reader take the start boundary of the next
  frame for an end. `setSlaveUnit` takes addresses above 63, which `removeSlaveUnit` refuses; the answer of such a unit to a broadcast cannot be
  encoded, and ends the slave.
- Modbus data: a slave serves reads of 126 and 127 registers, though Modbus allows 125; what its byte count cannot count is refused by the master's
  check of the length. Addresses wrap at 65535. A write of several coils may carry more bytes than its quantity needs. The slave node of a graph confirms
  every write and keeps nothing. Units that are not simulated answer with a server failure.
- Owners: the guards ask one owner after the other before anything is opened, so two calls that meet may both get a virtual name, one its port
  and one its peer (`raced`); a bridge among them, which asks the sessions with no lock in common with the opening that follows (`service.go:887`, `894`); the port of a real name goes to one of them, because the operating system opens it once. An open that spans the clean up
  leaves a port (`spanned`). `CleanupVirtual` (`service.go:931`) calls the whole `cleanup()`, though its comment speaks of virtual pairs and bridges.
- Graph tools: a blank protocol or role of a remote node is refused by the tool and defaulted by the runtime. A filter `hex contains` may match
  across the boundary of two bytes.
- Scripts: a run that has timed out may finish the one call it is in, and so change the state after its timeout. `state.get` and then `state.set`
  (`docs/protocol-script-templates.md:137`) are two critical sections: concurrent runs lose updates. A reset of the counters numbers frames anew beside
  those that are kept.
- Application: a start that fails leaves the module that failed, and those behind it, initialised until the shutdown. A shutdown may overlap the start,
  because the registry takes its lock for reading (`overlapped`). `AppLifecycle` has the requests of the MCP server as the only callers that open ports; the frontend's calls that are
  under way when the clean up begins are in `PortOwners` (`spanned`). `shutdownHTTPServer` gives up after 2 s, and a request that lives on can open a port after the clean up.
- Files: a workspace can be remembered that is not there (`RememberLastWorkspace` asks for no file, `LoadLastWorkspace` says that it is gone). No file is synced, so that a loss of power promises nothing; the model's `Crash` is the end of the program.
- Event bus: a handler may be called after its cancel function has returned, for an event that was published before.
- Remote node: a write that fails while `stop()` is under way starts a reconnect loop under a fresh context nobody cancels; a
  writer that sets "reconnecting" late overwrites the "running" of a reconnect that has completed; and the error path of a write
  starts a reconnect loop in the server role too. `docs/remote-serial-node.md` describes all three otherwise.

## Not modelled

- Backends of ports and virtual ports, enumeration, socat, Windows calls, fonts, file dialogs: calls of the operating system.
- Parsers of the protocol package, templates, checksums, typed values (`modbus/conversion.go`), annotation of frames (`fecbus/annotation.go`), what a
  regular expression finds: functions of their input, best tested as such.
- The ring index (`buffer/index.go`), the recorder and `protocol/script/engine.go`: used by no other part of the program.
- Byte counters, statistics, logging, metrics: no other state depends on them.
- Views, packaging, and the MCP tools that pass a call on.
- The frontend stores, in TypeScript: an action such as `stopRuntimeForGraph` (`src/frontend/src/serial/stores/graphStore.ts:540`) spreads a copy of the state it
  took before its `await`, so that what a refresh wrote meanwhile is undone. Its services are modelled, its views of them are not.
- Parts of modelled components: `Query` with its paging and `StopAll` of the monitor, `QueryFrames` of graph nodes, `Write` and the read loop of the port
  manager, the copying goroutines of a bridge, `scanUnitIDs`.

## Plan

Done, in this order: remote node (model, liveness, proof), ring buffer (model, proof), graph start and stop, monitor, cycle search
(proof), routing (proof), register scan (proof), Modbus slave and master; then FECbus (session, master, bytes), graph validation (proof), filter nodes, script nodes (proof), owners of ports,
saving (refinement and proof), application, event bus, and the data of Modbus (refinement).

Next:

1. The read loop of the port manager together with `RingBuffer` and `EventBus`; the goroutines of a bridge.
2. `MonitorSession`: paging `Query` and `StopAll`. `QueryFrames` of graph nodes.
3. Frontend stores: the actions with an `await` between read and write.
