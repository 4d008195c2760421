----------------------------- MODULE RemoteNode -----------------------------
(***************************************************************************)
(* The raw-TCP node ("serial.remote") of one serial graph runtime:         *)
(* src/internal/modules/serial/graph_runtime.go.  Its goroutines share the *)
(* runtime's status and remoteCtx (guarded by r.mu), the node's remoteConn,*)
(* remoteListener and status (guarded by n.mu) and the atomic flag         *)
(* remoteReconnectActive.  One action is one critical section, one atomic  *)
(* operation or one blocking call of one goroutine:                        *)
(*                                                                         *)
(*   starter     StartSerialGraph -> start -> startRemoteNode              *)
(*   stopper[p]  stop(), run by StopSerialGraph ("api") or by a            *)
(*               StartSerialGraph that failed ("start")                    *)
(*   accept      runRemoteAcceptLoop (server role)                         *)
(*   reader[c]   runRemoteReader of connection c                           *)
(*   rec[k]      runRemoteReconnect entered after connection k was         *)
(*               detached, or by startRemoteNode when k = NoConn           *)
(*   writer[w]   a caller of writeRemoteNode                               *)
(*                                                                         *)
(* Payload bytes and counters are left out: nothing here depends on them.  *)
(***************************************************************************)
EXTENDS Naturals, FiniteSets

CONSTANTS
    Conns,            \* identities for TCP connections; one is used again
                      \* once it is closed and no goroutine refers to it
    NoConn,           \* a nil net.Conn
    Writers,          \* concurrent callers of writeRemoteNode
    Roles,            \* the roles the node may be configured with
    StopDuringStart   \* may StopSerialGraph be called before
                      \* StartSerialGraph has returned?

ASSUME ConnsAssumption == NoConn \notin Conns
ASSUME RolesAssumption == Roles \subseteq {"client", "server"}
ASSUME StopAssumption == StopDuringStart \in BOOLEAN

VARIABLES
    config,           \* role and reconnect in the node's configuration
    mapped,           \* is the runtime in Service.graphs?
    status,           \* serialGraphRuntime.status
    remoteCtx,        \* serialGraphRuntime.remoteCtx, 0 when nil
    ctxs,             \* how many contexts ensureRemoteContext has made
    cancelled,        \* the contexts that are done
    remoteConn,       \* node.remoteConn
    listener,         \* the TCP listener: "none", "open" or "closed"
    remoteListener,   \* is the listener in node.remoteListener?
    reconnectActive,  \* node.remoteReconnectActive
    nodeStatus,       \* node.status
    tcp,              \* the connections: "open", "broken" (by the peer or
                      \* the network) or "closed" (by this program)
    starter, stopper, accept, reader, rec, writer  \* goroutine locals

graphVars == <<mapped, status, remoteCtx, ctxs, cancelled>>
listenVars == <<listener, remoteListener>>
connVars == <<remoteConn, tcp>>
sharedVars == <<graphVars, listenVars, connVars, reconnectActive, nodeStatus>>
goroutines == <<starter, stopper, accept, reader, rec, writer>>
vars == <<config, sharedVars, goroutines>>

\* What a step of one goroutine leaves alone of the others.
othersOfStarter == <<config, stopper, accept, reader, rec, writer>>
othersOfStopper == <<config, starter, accept, reader, rec, writer>>
othersOfAccept == <<config, starter, stopper, reader, rec, writer>>
othersOfReader == <<config, starter, stopper, accept, rec, writer>>
othersOfRec == <<config, starter, stopper, accept, reader, writer>>
othersOfWriter == <<config, starter, stopper, accept, reader, rec>>

Keys == Conns \cup {NoConn}
Statuses == {"idle", "running", "reconnecting", "error", "stopped"}
Stoppers == {"api", "start"}

StarterStates ==
    [pc : {"begin", "resource", "dial", "install", "status", "setListener",
           "serve", "rest", "fail", "unmap", "done"},
     conn : Keys, ctx : Nat]
StopperStates ==
    [pc : {"idle", "enter", "cancel", "listener", "conn", "done"}, ctx : Nat]
AcceptStates ==
    [pc : {"none", "accept", "install", "status"}, conn : Keys, ctx : Nat]
ReaderStates ==
    [pc : {"none", "check", "read", "failed", "detach", "detached"}, ctx : Nat]
RecStates ==
    [pc : {"none", "begin", "wait", "dial", "end", "install", "status"},
     conn : Keys, ctx : Nat]
WriterStates ==
    [pc : {"idle", "send", "nil", "write", "failed", "detached", "reconnect"},
     conn : Keys]

\* The shape of the state.
TypeOK ==
    /\ config \in [role : Roles, reconnect : BOOLEAN]
    /\ mapped \in BOOLEAN
    /\ status \in Statuses
    /\ ctxs \in Nat /\ remoteCtx \in Nat /\ cancelled \subseteq Nat
    /\ remoteConn \in Keys
    /\ listener \in {"none", "open", "closed"}
    /\ remoteListener \in BOOLEAN
    /\ reconnectActive \in BOOLEAN
    /\ nodeStatus \in Statuses
    /\ tcp \in [Conns -> {"open", "broken", "closed"}]
    /\ starter \in StarterStates
    /\ stopper \in [Stoppers -> StopperStates]
    /\ accept \in AcceptStates
    /\ reader \in [Conns -> ReaderStates]
    /\ rec \in [Keys -> RecStates]
    /\ writer \in [Writers -> WriterStates]

\* Goroutines with no connection or context in their hands.
StarterAt(pc) == [pc |-> pc, conn |-> NoConn, ctx |-> 0]
StopperAt(pc) == [pc |-> pc, ctx |-> 0]
NoAccept == [pc |-> "none", conn |-> NoConn, ctx |-> 0]
NoReader == [pc |-> "none", ctx |-> 0]
NoRec == [pc |-> "none", conn |-> NoConn, ctx |-> 0]
WriterAt(pc) == [pc |-> pc, conn |-> NoConn]

Init ==
    /\ config \in [role : Roles, reconnect : BOOLEAN]
    /\ mapped = TRUE /\ status = "idle"
    /\ remoteCtx = 0 /\ ctxs = 0 /\ cancelled = {}
    /\ remoteConn = NoConn
    /\ listener = "none" /\ remoteListener = FALSE
    /\ reconnectActive = FALSE /\ nodeStatus = "idle"
    /\ tcp = [c \in Conns |-> "closed"]
    /\ starter = StarterAt("begin")
    /\ stopper = [p \in Stoppers |-> StopperAt("idle")]
    /\ accept = NoAccept
    /\ reader = [c \in Conns |-> NoReader]
    /\ rec = [k \in Keys |-> NoRec]
    /\ writer = [w \in Writers |-> WriterAt("idle")]

-----------------------------------------------------------------------------
(* Helpers shared by the goroutines.                                       *)

\* c can stand for a connection that did not exist before: no goroutine
\* still refers to the one it stood for.
Fresh(c) ==
    /\ tcp[c] = "closed"
    /\ reader[c].pc = "none"
    /\ rec[c].pc = "none"
    /\ starter.conn # c /\ accept.conn # c
    /\ \A k \in Keys : rec[k].conn # c
    /\ \A w \in Writers : writer[w].conn # c

\* ensureRemoteContext: the context it returns and its effect on the runtime.
EnsuredCtx == IF remoteCtx = 0 THEN ctxs + 1 ELSE remoteCtx

EnsureRemoteContext ==
    /\ remoteCtx' = EnsuredCtx
    /\ ctxs' = IF remoteCtx = 0 THEN ctxs + 1 ELSE ctxs
    /\ UNCHANGED <<mapped, status, cancelled>>

\* setRemoteConn that forgets to close the connection it replaces.
SetRemoteConnKeepsPrevious(c) == remoteConn' = c /\ UNCHANGED tcp

\* setRemoteConn(c): the connection it replaces is closed.
SetRemoteConn(c) ==
    /\ remoteConn' = c
    /\ tcp' = [x \in Conns |-> IF x = remoteConn /\ x # c THEN "closed" ELSE tcp[x]]

\* closeRemoteConnIfCurrent(c): c is closed, and detached if still current.
CloseRemoteConnIfCurrent(c) ==
    /\ remoteConn' = IF remoteConn = c THEN NoConn ELSE remoteConn
    /\ tcp' = [tcp EXCEPT ![c] = "closed"]

SetStatus(s) == nodeStatus' = s

\* go runRemoteReader(ctx, node, c)
GoReader(c, ctx) == reader' = [reader EXCEPT ![c] = [pc |-> "check", ctx |-> ctx]]

\* go runRemoteReconnect(ctx, node), or the call by a reader, because of k
GoReconnect(k, ctx) ==
    rec' = [rec EXCEPT ![k] = [pc |-> "begin", conn |-> NoConn, ctx |-> ctx]]

-----------------------------------------------------------------------------
(* The network.                                                            *)

\* The peer goes away or the network fails; this end sees it on its next call.
Break(c) ==
    /\ tcp[c] = "open"
    /\ tcp' = [tcp EXCEPT ![c] = "broken"]
    /\ UNCHANGED <<config, graphVars, listenVars, remoteConn, reconnectActive,
                   nodeStatus, goroutines>>

-----------------------------------------------------------------------------
(* StartSerialGraph, from the insertion into Service.graphs.               *)

\* start(): the runtime and its nodes are marked running, whatever a
\* concurrent stop has done before.
StartBegin ==
    /\ starter.pc = "begin"
    /\ status' = "running"
    /\ SetStatus("running")
    /\ starter' = StarterAt("resource")
    /\ UNCHANGED <<mapped, remoteCtx, ctxs, cancelled, listenVars, connVars,
                   reconnectActive, othersOfStarter>>

\* startRemoteNode, client role: the context is taken before the dial.
StartClient ==
    /\ starter.pc = "resource" /\ config.role = "client"
    /\ EnsureRemoteContext
    /\ starter' = [starter EXCEPT !.pc = "dial", !.ctx = EnsuredCtx]
    /\ UNCHANGED <<listenVars, connVars, reconnectActive, nodeStatus,
                   othersOfStarter>>

StartDialOk(c) ==
    /\ starter.pc = "dial" /\ Fresh(c)
    /\ tcp' = [tcp EXCEPT ![c] = "open"]
    /\ starter' = [starter EXCEPT !.pc = "install", !.conn = c]
    /\ UNCHANGED <<graphVars, listenVars, remoteConn, reconnectActive,
                   nodeStatus, othersOfStarter>>

\* With allowStartDisconnected the start goes on, without it the start fails.
StartDialFails ==
    /\ starter.pc = "dial"
    /\ \/ /\ SetStatus("reconnecting")
          /\ GoReconnect(NoConn, starter.ctx)
          /\ starter' = StarterAt("rest")
       \/ /\ SetStatus("error")
          /\ starter' = StarterAt("fail")
          /\ UNCHANGED rec
    /\ UNCHANGED <<config, graphVars, listenVars, connVars, reconnectActive,
                   stopper, accept, reader, writer>>

StartInstall ==
    /\ starter.pc = "install"
    /\ SetRemoteConn(starter.conn)
    /\ starter' = [starter EXCEPT !.pc = "status"]
    /\ UNCHANGED <<graphVars, listenVars, reconnectActive, nodeStatus,
                   othersOfStarter>>

StartStatus ==
    /\ starter.pc = "status"
    /\ SetStatus("running")
    /\ GoReader(starter.conn, starter.ctx)
    /\ starter' = StarterAt("rest")
    /\ UNCHANGED <<config, graphVars, listenVars, connVars, reconnectActive,
                   stopper, accept, rec, writer>>

\* startRemoteServerNode: net.Listen succeeds or fails.
StartListen ==
    /\ starter.pc = "resource" /\ config.role = "server"
    /\ \/ /\ listener' = "open"
          /\ starter' = StarterAt("setListener")
          /\ UNCHANGED nodeStatus
       \/ /\ SetStatus("error")
          /\ starter' = StarterAt("fail")
          /\ UNCHANGED listener
    /\ UNCHANGED <<graphVars, remoteListener, connVars, reconnectActive,
                   othersOfStarter>>

StartSetListener ==
    /\ starter.pc = "setListener"
    /\ remoteListener' = TRUE
    /\ starter' = StarterAt("serve")
    /\ UNCHANGED <<graphVars, listener, connVars, reconnectActive, nodeStatus,
                   othersOfStarter>>

StartServe ==
    /\ starter.pc = "serve"
    /\ SetStatus("running")
    /\ EnsureRemoteContext
    /\ accept' = [pc |-> "accept", conn |-> NoConn, ctx |-> EnsuredCtx]
    /\ starter' = StarterAt("rest")
    /\ UNCHANGED <<config, listenVars, connVars, reconnectActive, stopper,
                   reader, rec, writer>>

\* The graph's other nodes and auto senders start, or one of them fails.
StartRest ==
    /\ starter.pc = "rest"
    /\ starter' \in {StarterAt("done"), StarterAt("fail")}
    /\ UNCHANGED <<sharedVars, othersOfStarter>>

\* setError, also over "stopped"
StartSetError ==
    /\ starter.pc = "fail"
    /\ status' = "error"
    /\ starter' = StarterAt("unmap")
    /\ UNCHANGED <<mapped, remoteCtx, ctxs, cancelled, listenVars, connVars,
                   reconnectActive, nodeStatus, othersOfStarter>>

\* The failed graph leaves Service.graphs and its starter runs stop().
StartUnmap ==
    /\ starter.pc = "unmap"
    /\ mapped' = FALSE
    /\ stopper' = [stopper EXCEPT !["start"] = StopperAt("enter")]
    /\ starter' = StarterAt("done")
    /\ UNCHANGED <<config, status, remoteCtx, ctxs, cancelled, listenVars,
                   connVars, reconnectActive, nodeStatus, accept, reader, rec,
                   writer>>

-----------------------------------------------------------------------------
(* StopSerialGraph and stop().                                             *)

StopSerialGraph ==
    /\ mapped
    /\ StopDuringStart \/ starter.pc = "done"
    /\ mapped' = FALSE
    /\ stopper' = [stopper EXCEPT !["api"] = StopperAt("enter")]
    /\ UNCHANGED <<status, remoteCtx, ctxs, cancelled, listenVars, connVars,
                   reconnectActive, nodeStatus, othersOfStopper>>

\* The section under r.mu: cancelRemote is taken, remoteCtx is cleared.
StopEnter(p) ==
    /\ stopper[p].pc = "enter" /\ status # "stopped"
    /\ stopper' = [stopper EXCEPT ![p] = [pc |-> "cancel", ctx |-> remoteCtx]]
    /\ status' = "stopped"
    /\ remoteCtx' = 0
    /\ SetStatus("stopped")
    /\ UNCHANGED <<mapped, ctxs, cancelled, listenVars, connVars,
                   reconnectActive, othersOfStopper>>

\* stop() of a runtime that is stopped already.
StopAgain(p) ==
    /\ stopper[p].pc = "enter" /\ status = "stopped"
    /\ stopper' = [stopper EXCEPT ![p] = StopperAt("done")]
    /\ UNCHANGED <<sharedVars, othersOfStopper>>

StopCancel(p) ==
    /\ stopper[p].pc = "cancel"
    /\ cancelled' = cancelled \cup ({stopper[p].ctx} \ {0})
    /\ stopper' = [stopper EXCEPT ![p] = StopperAt("listener")]
    /\ UNCHANGED <<mapped, status, remoteCtx, ctxs, listenVars, connVars,
                   reconnectActive, nodeStatus, othersOfStopper>>

\* closeRemoteListener
StopListener(p) ==
    /\ stopper[p].pc = "listener"
    /\ listener' = IF remoteListener THEN "closed" ELSE listener
    /\ remoteListener' = FALSE
    /\ stopper' = [stopper EXCEPT ![p] = StopperAt("conn")]
    /\ UNCHANGED <<graphVars, connVars, reconnectActive, nodeStatus,
                   othersOfStopper>>

\* A stop() that leaves the current connection to its reader.
StopConnForgets(p) ==
    /\ stopper[p].pc = "conn"
    /\ stopper' = [stopper EXCEPT ![p] = StopperAt("done")]
    /\ UNCHANGED <<sharedVars, othersOfStopper>>

\* closeRemoteConn
StopConn(p) ==
    /\ stopper[p].pc = "conn"
    /\ SetRemoteConn(NoConn)
    /\ stopper' = [stopper EXCEPT ![p] = StopperAt("done")]
    /\ UNCHANGED <<graphVars, listenVars, reconnectActive, nodeStatus,
                   othersOfStopper>>

-----------------------------------------------------------------------------
(* runRemoteAcceptLoop.                                                    *)

AcceptOk(c) ==
    /\ accept.pc = "accept" /\ listener = "open" /\ Fresh(c)
    /\ tcp' = [tcp EXCEPT ![c] = "open"]
    /\ accept' = [accept EXCEPT !.pc = "install", !.conn = c]
    /\ UNCHANGED <<graphVars, listenVars, remoteConn, reconnectActive,
                   nodeStatus, othersOfAccept>>

\* Accept fails: because the listener was closed, or on its own.
AcceptFails ==
    /\ accept.pc = "accept"
    /\ accept' = NoAccept
    /\ IF status = "stopped" \/ accept.ctx \in cancelled
         THEN UNCHANGED nodeStatus
         ELSE SetStatus("error")
    /\ UNCHANGED <<graphVars, listenVars, connVars, reconnectActive,
                   othersOfAccept>>

AcceptInstall ==
    /\ accept.pc = "install"
    /\ SetRemoteConn(accept.conn)
    /\ accept' = [accept EXCEPT !.pc = "status"]
    /\ UNCHANGED <<graphVars, listenVars, reconnectActive, nodeStatus,
                   othersOfAccept>>

AcceptStatus ==
    /\ accept.pc = "status"
    /\ SetStatus("running")
    /\ GoReader(accept.conn, accept.ctx)
    /\ accept' = [accept EXCEPT !.pc = "accept", !.conn = NoConn]
    /\ UNCHANGED <<config, graphVars, listenVars, connVars, reconnectActive,
                   starter, stopper, rec, writer>>

-----------------------------------------------------------------------------
(* runRemoteReader.                                                        *)

\* The poll of ctx.Done.
ReaderCheck(c) ==
    /\ reader[c].pc = "check" /\ reader[c].ctx \notin cancelled
    /\ reader' = [reader EXCEPT ![c].pc = "read"]
    /\ UNCHANGED <<sharedVars, othersOfReader>>

\* The poll finds ctx done: the deferred closeRemoteConnIfCurrent runs.
ReaderCancelled(c) ==
    /\ reader[c].pc = "check" /\ reader[c].ctx \in cancelled
    /\ CloseRemoteConnIfCurrent(c)
    /\ reader' = [reader EXCEPT ![c] = NoReader]
    /\ UNCHANGED <<graphVars, listenVars, reconnectActive, nodeStatus,
                   othersOfReader>>

\* conn.Read delivers bytes, which are buffered and emitted downstream.
ReaderData(c) ==
    /\ reader[c].pc = "read" /\ tcp[c] = "open"
    /\ reader' = [reader EXCEPT ![c].pc = "check"]
    /\ UNCHANGED <<sharedVars, othersOfReader>>

\* conn.Read fails
ReaderFails(c) ==
    /\ reader[c].pc = "read" /\ tcp[c] # "open"
    /\ reader' = [reader EXCEPT ![c].pc = "failed"]
    /\ UNCHANGED <<sharedVars, othersOfReader>>

\* isStopped() || ctx.Err() != nil: return, with the deferred close.
ReaderStopped(c) ==
    /\ reader[c].pc = "failed"
    /\ status = "stopped" \/ reader[c].ctx \in cancelled
    /\ CloseRemoteConnIfCurrent(c)
    /\ reader' = [reader EXCEPT ![c] = NoReader]
    /\ UNCHANGED <<graphVars, listenVars, reconnectActive, nodeStatus,
                   othersOfReader>>

ReaderFailed(c) ==
    /\ reader[c].pc = "failed"
    /\ status # "stopped" /\ reader[c].ctx \notin cancelled
    /\ reader' = [reader EXCEPT ![c].pc = "detach"]
    /\ UNCHANGED <<sharedVars, othersOfReader>>

\* Only the goroutine that detaches the connection goes on ...
ReaderDetach(c) ==
    /\ reader[c].pc = "detach" /\ remoteConn = c
    /\ CloseRemoteConnIfCurrent(c)
    /\ reader' = [reader EXCEPT ![c].pc = "detached"]
    /\ UNCHANGED <<graphVars, listenVars, reconnectActive, nodeStatus,
                   othersOfReader>>

\* ... a reader whose connection was replaced or detached returns.
ReaderReplaced(c) ==
    /\ reader[c].pc = "detach" /\ remoteConn # c
    /\ CloseRemoteConnIfCurrent(c)
    /\ reader' = [reader EXCEPT ![c] = NoReader]
    /\ UNCHANGED <<graphVars, listenVars, reconnectActive, nodeStatus,
                   othersOfReader>>

\* A client that reconnects enters runRemoteReconnect.
ReaderReconnect(c) ==
    /\ reader[c].pc = "detached"
    /\ config.role = "client" /\ config.reconnect
    /\ SetStatus("reconnecting")
    /\ GoReconnect(c, reader[c].ctx)
    /\ reader' = [reader EXCEPT ![c] = NoReader]
    /\ UNCHANGED <<config, graphVars, listenVars, connVars, reconnectActive,
                   starter, stopper, accept, writer>>

\* A server goes on listening, a client without reconnect is in error.
ReaderDropped(c) ==
    /\ reader[c].pc = "detached"
    /\ config.role = "server" \/ ~config.reconnect
    /\ SetStatus(IF config.role = "server" THEN "running" ELSE "error")
    /\ reader' = [reader EXCEPT ![c] = NoReader]
    /\ UNCHANGED <<graphVars, listenVars, connVars, reconnectActive,
                   othersOfReader>>

-----------------------------------------------------------------------------
(* runRemoteReconnect and completeRemoteReconnect.                         *)

\* A guard that is taken without a look at who holds it.
RecBeginAlways(k) ==
    /\ rec[k].pc = "begin" /\ config.reconnect
    /\ reconnectActive' = TRUE
    /\ rec' = [rec EXCEPT ![k].pc = "wait"]
    /\ UNCHANGED <<graphVars, listenVars, connVars, nodeStatus, othersOfRec>>

\* tryBeginRemoteReconnect
RecBegin(k) ==
    /\ rec[k].pc = "begin" /\ config.reconnect /\ ~reconnectActive
    /\ reconnectActive' = TRUE
    /\ rec' = [rec EXCEPT ![k].pc = "wait"]
    /\ UNCHANGED <<graphVars, listenVars, connVars, nodeStatus, othersOfRec>>

\* Another loop has the guard, or the node does not reconnect.
RecRefused(k) ==
    /\ rec[k].pc = "begin"
    /\ ~config.reconnect \/ reconnectActive
    /\ rec' = [rec EXCEPT ![k] = NoRec]
    /\ UNCHANGED <<sharedVars, othersOfRec>>

\* ctx.Done wins the select: the deferred endRemoteReconnect runs.
RecCancelled(k) ==
    /\ rec[k].pc = "wait" /\ rec[k].ctx \in cancelled
    /\ reconnectActive' = FALSE
    /\ rec' = [rec EXCEPT ![k] = NoRec]
    /\ UNCHANGED <<graphVars, listenVars, connVars, nodeStatus, othersOfRec>>

\* The timer wins the select (it may, even when ctx is done).
RecTimer(k) ==
    /\ rec[k].pc = "wait"
    /\ rec' = [rec EXCEPT ![k].pc = "dial"]
    /\ UNCHANGED <<sharedVars, othersOfRec>>

RecDialOk(k, c) ==
    /\ rec[k].pc = "dial" /\ rec[k].ctx \notin cancelled /\ Fresh(c)
    /\ tcp' = [tcp EXCEPT ![c] = "open"]
    /\ rec' = [rec EXCEPT ![k].pc = "end", ![k].conn = c]
    /\ UNCHANGED <<graphVars, listenVars, remoteConn, reconnectActive,
                   nodeStatus, othersOfRec>>

RecDialFails(k) ==
    /\ rec[k].pc = "dial"
    /\ SetStatus("reconnecting")
    /\ rec' = [rec EXCEPT ![k].pc = "wait"]
    /\ UNCHANGED <<graphVars, listenVars, connVars, reconnectActive, othersOfRec>>

\* endRemoteReconnect comes before the connection is visible ...
RecEnd(k) ==
    /\ rec[k].pc = "end"
    /\ reconnectActive' = FALSE
    /\ rec' = [rec EXCEPT ![k].pc = "install"]
    /\ UNCHANGED <<graphVars, listenVars, connVars, nodeStatus, othersOfRec>>

\* ... so that its failure can claim the guard.
RecInstall(k) ==
    /\ rec[k].pc = "install"
    /\ SetRemoteConn(rec[k].conn)
    /\ rec' = [rec EXCEPT ![k].pc = "status"]
    /\ UNCHANGED <<graphVars, listenVars, reconnectActive, nodeStatus, othersOfRec>>

\* A completed reconnect whose connection nobody reads.
RecStatusNoReader(k) ==
    /\ rec[k].pc = "status"
    /\ SetStatus("running")
    /\ rec' = [rec EXCEPT ![k] = NoRec]
    /\ UNCHANGED <<graphVars, listenVars, connVars, reconnectActive, othersOfRec>>

RecStatus(k) ==
    /\ rec[k].pc = "status"
    /\ SetStatus("running")
    /\ GoReader(rec[k].conn, rec[k].ctx)
    /\ rec' = [rec EXCEPT ![k] = NoRec]
    /\ UNCHANGED <<config, graphVars, listenVars, connVars, reconnectActive,
                   starter, stopper, accept, writer>>

-----------------------------------------------------------------------------
(* writeRemoteNode.                                                        *)

\* A call through Service.graphs, or an emission inside the running graph.
WriteBegin(w) ==
    /\ writer[w].pc = "idle"
    /\ mapped \/ status = "running"
    /\ writer' = [writer EXCEPT ![w].pc = "send"]
    /\ UNCHANGED <<sharedVars, othersOfWriter>>

\* remoteConnection(): the connection the write will use, or nil
WriteConn(w) ==
    /\ writer[w].pc = "send" /\ remoteConn # NoConn
    /\ writer' = [writer EXCEPT ![w] = [pc |-> "write", conn |-> remoteConn]]
    /\ UNCHANGED <<sharedVars, othersOfWriter>>

WriteNoConn(w) ==
    /\ writer[w].pc = "send" /\ remoteConn = NoConn
    /\ writer' = [writer EXCEPT ![w] = WriterAt("nil")]
    /\ UNCHANGED <<sharedVars, othersOfWriter>>

WriteNil(w) ==
    /\ writer[w].pc = "nil"
    /\ SetStatus(IF config.reconnect THEN "reconnecting" ELSE "error")
    /\ writer' = [writer EXCEPT ![w] = WriterAt("idle")]
    /\ UNCHANGED <<graphVars, listenVars, connVars, reconnectActive,
                   othersOfWriter>>

WriteOk(w) ==
    /\ writer[w].pc = "write" /\ tcp[writer[w].conn] # "closed"
    /\ writer' = [writer EXCEPT ![w] = WriterAt("idle")]
    /\ UNCHANGED <<sharedVars, othersOfWriter>>

\* The write fails, or its deadline passes on a connection that is still up.
WriteFails(w) ==
    /\ writer[w].pc = "write"
    /\ writer' = [writer EXCEPT ![w].pc = "failed"]
    /\ UNCHANGED <<sharedVars, othersOfWriter>>

\* closeRemoteConnIfCurrent: this writer detaches the connection ...
WriteDetach(w) ==
    /\ writer[w].pc = "failed" /\ remoteConn = writer[w].conn
    /\ CloseRemoteConnIfCurrent(writer[w].conn)
    /\ writer' = [writer EXCEPT ![w].pc = "detached"]
    /\ UNCHANGED <<graphVars, listenVars, reconnectActive, nodeStatus,
                   othersOfWriter>>

\* ... or finds that it was replaced or detached.
WriteReplaced(w) ==
    /\ writer[w].pc = "failed" /\ remoteConn # writer[w].conn
    /\ CloseRemoteConnIfCurrent(writer[w].conn)
    /\ writer' = [writer EXCEPT ![w] = WriterAt("idle")]
    /\ UNCHANGED <<graphVars, listenVars, reconnectActive, nodeStatus,
                   othersOfWriter>>

\* A server's failed write takes this path too.
WriteDetached(w) ==
    /\ writer[w].pc = "detached" /\ config.reconnect
    /\ SetStatus("reconnecting")
    /\ writer' = [writer EXCEPT ![w].pc = "reconnect"]
    /\ UNCHANGED <<graphVars, listenVars, connVars, reconnectActive,
                   othersOfWriter>>

WriteDropped(w) ==
    /\ writer[w].pc = "detached" /\ ~config.reconnect
    /\ SetStatus("error")
    /\ writer' = [writer EXCEPT ![w] = WriterAt("idle")]
    /\ UNCHANGED <<graphVars, listenVars, connVars, reconnectActive,
                   othersOfWriter>>

\* A write failure that never starts the loop.
WriteReconnectForgets(w) ==
    /\ writer[w].pc = "reconnect"
    /\ EnsureRemoteContext
    /\ writer' = [writer EXCEPT ![w] = WriterAt("idle")]
    /\ UNCHANGED <<listenVars, connVars, reconnectActive, nodeStatus,
                   othersOfWriter>>

\* go runRemoteReconnect(ensureRemoteContext(), node)
WriteReconnect(w) ==
    /\ writer[w].pc = "reconnect"
    /\ EnsureRemoteContext
    /\ GoReconnect(writer[w].conn, EnsuredCtx)
    /\ writer' = [writer EXCEPT ![w] = WriterAt("idle")]
    /\ UNCHANGED <<config, listenVars, connVars, reconnectActive, nodeStatus,
                   starter, stopper, accept, reader>>

-----------------------------------------------------------------------------
StarterNext ==
    \/ StartBegin \/ StartClient \/ (\E c \in Conns : StartDialOk(c))
    \/ StartDialFails \/ StartInstall \/ StartStatus
    \/ StartListen \/ StartSetListener \/ StartServe
    \/ StartRest \/ StartSetError \/ StartUnmap

StopNext(p) ==
    StopEnter(p) \/ StopAgain(p) \/ StopCancel(p) \/ StopListener(p) \/ StopConn(p)

AcceptNext ==
    \/ \E c \in Conns : AcceptOk(c)
    \/ AcceptFails \/ AcceptInstall \/ AcceptStatus

ReaderNext(c) ==
    \/ ReaderCheck(c) \/ ReaderCancelled(c) \/ ReaderData(c) \/ ReaderFails(c)
    \/ ReaderStopped(c) \/ ReaderFailed(c) \/ ReaderDetach(c) \/ ReaderReplaced(c)
    \/ ReaderReconnect(c) \/ ReaderDropped(c)

RecNext(k) ==
    \/ RecBegin(k) \/ RecRefused(k) \/ RecCancelled(k) \/ RecTimer(k)
    \/ (\E c \in Conns : RecDialOk(k, c))
    \/ RecDialFails(k) \/ RecEnd(k) \/ RecInstall(k) \/ RecStatus(k)

WriterNext(w) ==
    \/ WriteBegin(w) \/ WriteConn(w) \/ WriteNoConn(w) \/ WriteNil(w) \/ WriteOk(w)
    \/ WriteFails(w) \/ WriteDetach(w) \/ WriteReplaced(w) \/ WriteDetached(w)
    \/ WriteDropped(w) \/ WriteReconnect(w)

Next ==
    \/ StarterNext
    \/ StopSerialGraph
    \/ \E p \in Stoppers : StopNext(p)
    \/ AcceptNext
    \/ \E c \in Conns : ReaderNext(c) \/ Break(c)
    \/ \E k \in Keys : RecNext(k)
    \/ \E w \in Writers : WriterNext(w)

Spec == Init /\ [][Next]_vars

(***************************************************************************)
(* Fairness: the Go scheduler runs every goroutine that is not blocked; a  *)
(* dial, a read or write on a dead connection and a write under a deadline *)
(* return.  Nothing makes the peer send, a caller write or a user stop.    *)
(* SF on RecDialOk: the peer can be reached again and again, and a free    *)
(* connection identity is found.  SF on RecCancelled: select does not      *)
(* prefer the timer to ctx.Done for ever.                                  *)
(***************************************************************************)
ReaderSteps(c) == ReaderNext(c) /\ (reader[c].pc = "read" => tcp[c] # "open")
WriterSteps(w) == WriterNext(w) /\ writer[w].pc # "idle"
AcceptSteps ==
    AcceptInstall \/ AcceptStatus \/ (listener # "open" /\ AcceptFails)

Fairness ==
    /\ WF_vars(StarterNext)
    /\ \A p \in Stoppers : WF_vars(StopNext(p))
    /\ WF_vars(AcceptSteps)
    /\ \A c \in Conns : WF_vars(ReaderSteps(c))
    /\ \A k \in Keys : /\ WF_vars(RecNext(k))
                       /\ SF_vars(\E c \in Conns : RecDialOk(k, c))
                       /\ SF_vars(RecCancelled(k))
    /\ \A w \in Writers : WF_vars(WriterSteps(w))

FairSpec == Spec /\ Fairness

-----------------------------------------------------------------------------
(* Properties.                                                             *)

Unclosed(c) == tcp[c] # "closed"

\* A goroutine has dialled or accepted c and not installed it yet.
InHand(c) ==
    \/ starter.pc = "install" /\ starter.conn = c
    \/ accept.pc = "install" /\ accept.conn = c
    \/ \E k \in Keys : rec[k].pc \in {"end", "install"} /\ rec[k].conn = c

\* A goroutine has installed c and is about to start its reader.
ReaderDue(c) ==
    \/ starter.pc = "status" /\ starter.conn = c
    \/ accept.pc = "status" /\ accept.conn = c
    \/ \E k \in Keys : rec[k].pc = "status" /\ rec[k].conn = c

\* The loss of connection k (or the failed first dial, k = NoConn) is being
\* dealt with: by its reader, by a writer, or by a reconnect loop.
Recovering(k) ==
    \/ rec[k].pc \in {"begin", "wait", "dial", "end", "install"}
    \/ k \in Conns /\ reader[k].pc = "detached"
    \/ \E w \in Writers : writer[w].pc \in {"detached", "reconnect"} /\ writer[w].conn = k

\* stop() has been called, by StopSerialGraph or by a failed start.
Stopping == \E p \in Stoppers : stopper[p].pc # "idle"

\* Started by startRemoteNode as a client that is to stay connected.
Supervised ==
    /\ config.role = "client" /\ config.reconnect
    /\ starter.pc \in {"rest", "done"}
    /\ ~Stopping

\* No connection leaks: one that is not closed is the node's current
\* connection, or is in the hand of the goroutine that will install it.
NoOrphanConn == \A c \in Conns : Unclosed(c) => remoteConn = c \/ InHand(c)

\* The connection writers use is watched: it has a reader that will notice its
\* loss, or the goroutine that installed it is about to start one.
CurrentConnIsRead ==
    \A c \in Conns : remoteConn = c =>
        reader[c].pc \in {"check", "read", "failed", "detach"} \/ ReaderDue(c)

\* Both: no connection is left alone, neither one that setRemoteConn replaced
\* nor the one it installed.
ConnsAreLookedAfter == NoOrphanConn /\ CurrentConnIsRead

\* remoteReconnectActive is exact: it is set while one reconnect loop runs, and
\* two loops never run at once, whoever of readers, writers and accepted
\* connections loses a connection meanwhile.
OneReconnectLoop ==
    /\ \A j, k \in Keys :
          rec[j].pc \in {"wait", "dial", "end"} /\ rec[k].pc \in {"wait", "dial", "end"}
            => j = k
    /\ reconnectActive <=> \E k \in Keys : rec[k].pc \in {"wait", "dial", "end"}

\* A client that lost its connection is never forgotten: until stop() is called
\* somebody is reconnecting it, or is about to and will get the guard.
ReconnectNotLost ==
    Supervised /\ remoteConn = NoConn =>
        \E k \in Keys : /\ Recovering(k)
                        /\ rec[k].pc = "begin" => ~reconnectActive

\* stop() reaches every connection made under the context it cancelled: a reader
\* that may be blocked in conn.Read on a connection of a cancelled context has a
\* stop() still on its way to closeRemoteConn.
StopReachesReaders ==
    \A c \in Conns :
        Unclosed(c) /\ reader[c].pc = "read" /\ reader[c].ctx \in cancelled =>
            \E p \in Stoppers : stopper[p].pc \in {"listener", "conn"}

\* The comment on completeRemoteReconnect seen as liveness: a supervised client
\* without a connection gets one, or is stopped.
Reconnects ==
    (Supervised /\ remoteConn = NoConn) ~> (remoteConn # NoConn \/ Stopping)

\* Cancelling a context ends what runs under it: its connections are closed and
\* its reconnect loops return.
CancelEndsLoops ==
    /\ \A c \in Conns :
          (Unclosed(c) /\ reader[c].pc # "none" /\ reader[c].ctx \in cancelled)
             ~> ~Unclosed(c)
    /\ \A k \in Keys :
          (rec[k].pc # "none" /\ rec[k].ctx \in cancelled) ~> rec[k].pc = "none"

\* A loss ends in a connection or in silence: until stop() a client comes back,
\* and nothing goes on after the context is cancelled.
ReconnectsOrEnds == Reconnects /\ CancelEndsLoops
=============================================================================
