---------------------------- MODULE RemoteNodeInv ----------------------------
(* The inductive invariant behind the safety properties of RemoteNode.      *)
EXTENDS RemoteNode

\* A goroutine has a connection in its hands exactly at the steps that need one.
LocalsMatch ==
    /\ starter.conn # NoConn <=> starter.pc \in {"install", "status"}
    /\ accept.conn # NoConn <=> accept.pc \in {"install", "status"}
    /\ \A k \in Keys : rec[k].conn # NoConn <=> rec[k].pc \in {"end", "install", "status"}
    /\ \A w \in Writers : writer[w].conn # NoConn <=>
                            writer[w].pc \in {"write", "failed", "detached", "reconnect"}

Holds(c) ==
    starter.conn = c \/ accept.conn = c \/ \E k \in Keys : rec[k].conn = c

\* A connection is installed, and its reader started, by one goroutine only.
OneHolder ==
    \A c \in Conns :
        /\ starter.conn = c => accept.conn # c /\ \A k \in Keys : rec[k].conn # c
        /\ accept.conn = c => \A k \in Keys : rec[k].conn # c
        /\ \A j, k \in Keys : rec[j].conn = c /\ rec[k].conn = c => j = k
        /\ Holds(c) => reader[c].pc = "none"

\* Before it is installed nobody else knows the connection.
InHandPrivate ==
    \A c \in Conns : InHand(c) =>
        /\ Unclosed(c) /\ remoteConn # c /\ rec[c].pc = "none"
        /\ \A w \in Writers : writer[w].conn # c

CurrentOpen == \A c \in Conns : remoteConn = c => Unclosed(c)

\* Writer w detached connection c and has not yet started a loop for it.
Detacher(w, c) == writer[w].pc \in {"detached", "reconnect"} /\ writer[w].conn = c

\* A connection is closed before its loss is dealt with, ...
LostClosed ==
    \A c \in Conns :
        rec[c].pc # "none" \/ reader[c].pc = "detached" \/ (\E w \in Writers : Detacher(w, c))
            => tcp[c] = "closed"

\* ... and one goroutine deals with it.
OneRecoverer ==
    /\ \A c \in Conns :
        /\ reader[c].pc = "detached" =>
              rec[c].pc = "none" /\ \A w \in Writers : ~Detacher(w, c)
        /\ \A w \in Writers : Detacher(w, c) => rec[c].pc = "none"
        /\ \A v, w \in Writers : Detacher(v, c) /\ Detacher(w, c) => v = w
    /\ starter.pc \notin {"rest", "fail", "unmap", "done"} =>
          rec[NoConn].pc = "none" /\ accept.pc = "none"

\* Every connection has one owner at every moment of its life.
Hands ==
    /\ LocalsMatch /\ OneHolder /\ InHandPrivate
    /\ CurrentOpen /\ LostClosed /\ OneRecoverer

\* A client recovers one loss at a time, and only while it has no connection.
ClientRecovery ==
    config.role = "client" =>
        /\ accept.pc = "none" /\ starter.pc \notin {"setListener", "serve"}
        /\ \A k \in Keys : Recovering(k) => remoteConn = NoConn
        /\ \A j, k \in Keys : Recovering(j) /\ Recovering(k) => j = k
        /\ starter.pc \in {"begin", "resource", "dial", "install"} =>
              remoteConn = NoConn /\ \A k \in Keys : ~Recovering(k)

\* stop() runs once for either caller, and nothing is stopped or cancelled before.
StopCauses ==
    /\ status = "stopped" \/ cancelled # {} => Stopping
    /\ mapped => stopper["api"].pc = "idle"
    /\ starter.pc # "done" => stopper["start"].pc = "idle"

NotForgotten ==
    /\ config.role = "client" /\ config.reconnect /\ ~Stopping
    /\ starter.pc \in {"status", "rest", "done"}
    /\ remoteConn = NoConn
    => \E k \in Keys : Recovering(k)

IInv ==
    /\ TypeOK /\ Hands /\ NoOrphanConn /\ CurrentConnIsRead /\ OneReconnectLoop
    /\ ClientRecovery /\ StopCauses /\ NotForgotten /\ StopReachesReaders
=============================================================================
