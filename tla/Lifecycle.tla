------------------------------ MODULE Lifecycle ---------------------------
(* Server.ServeListener, its connections and Server.Shutdown (server.go).   *)
(* A connection is here what the accept loop and Shutdown see of it;        *)
(* Dispatch has its requests.                                               *)
EXTENDS Integers, FiniteSets

CONSTANTS Conn,
          Hosts,    \* the surroundings a run considers
          NoConn

(* acceptSingleConn as the server was configured; which clients connect,    *)
(* which may leave and which may set up a session anew; whether Shutdown    *)
(* may be called, once.                                                     *)
ASSUME LifecycleAssumption ==
    /\ Hosts \subseteq [acceptSingleConn : BOOLEAN, come : SUBSET Conn, leave : SUBSET Conn,
                       renew : SUBSET Conn, shutdown : BOOLEAN]
    /\ NoConn \notin Conn

VARIABLES
    host,         \* one of Hosts
    active,       \* Server.active
    listening,    \* the listener accepts
    loop,         \* where ServeListener is
    arriving,     \* the connection it has accepted and not yet registered
    conns,        \* what became of each connection
    activeConns,  \* Server.activeConns
    inSession,    \* the connections in STATE_SESSION_ACTIVE
    cancelled,    \* the connections whose context was cancelled
    shut,         \* where Shutdown is
    toCancel      \* the connections it has still to shut down

lifecycleVars == <<host, active, listening, loop, arriving, conns, activeConns, inSession, cancelled, shut, toCancel>>
serving == <<host, active, listening, loop, arriving>>
shutting == <<host, cancelled, shut, toCancel>>

LifecycleInit ==
    /\ host \in Hosts
    /\ active = FALSE /\ listening = TRUE /\ loop = "start" /\ arriving = NoConn
    /\ conns = [c \in Conn |-> "new"] /\ activeConns = {} /\ inSession = {}
    /\ cancelled = {} /\ shut = "no" /\ toCancel = {}

-----------------------------------------------------------------------------
(* ServeListener: d.listener is set, then active; the loop looks at active  *)
(* only between connections.                                                *)
SetListener ==
    /\ loop = "start" /\ loop' = "store"
    /\ UNCHANGED <<active, listening, arriving, conns, activeConns, inSession, shutting>>

Activate ==
    /\ loop = "store" /\ loop' = "check" /\ active' = TRUE
    /\ UNCHANGED <<listening, arriving, conns, activeConns, inSession, shutting>>

CheckActive ==
    /\ loop = "check"
    /\ IF active THEN loop' = "accept" /\ UNCHANGED listening
                 ELSE loop' = "returned" /\ listening' = FALSE
    /\ UNCHANGED <<active, arriving, conns, activeConns, inSession, shutting>>

Accept(c) ==
    /\ loop = "accept" /\ listening /\ c \in host.come /\ conns[c] = "new"
    /\ loop' = "register" /\ arriving' = c
    /\ conns' = [conns EXCEPT ![c] = "accepted"]
    /\ UNCHANGED <<active, listening, activeConns, inSession, shutting>>

AcceptFails ==
    /\ loop = "accept" /\ ~listening
    /\ loop' = "check"
    /\ UNCHANGED <<active, listening, arriving, conns, activeConns, inSession, shutting>>

Register ==
    /\ loop = "register" /\ loop' = "check" /\ arriving' = NoConn
    /\ IF host.acceptSingleConn /\ activeConns \cap inSession # {}
       THEN /\ conns' = [conns EXCEPT ![arriving] = "refused"]
            /\ cancelled' = cancelled \cup {arriving}
            /\ UNCHANGED activeConns
       ELSE /\ conns' = [conns EXCEPT ![arriving] = "running"]
            /\ activeConns' = activeConns \cup {arriving}
            /\ UNCHANGED cancelled
    /\ UNCHANGED <<host, active, listening, inSession, shut, toCancel>>

(* sessionServerSetupChallenge, and negotiate and sessionSetup when there   *)
(* is a session.                                                            *)
SessionActive(c) ==
    /\ conns[c] = "running" /\ c \notin inSession
    /\ inSession' = inSession \cup {c}
    /\ UNCHANGED <<serving, conns, activeConns, shutting>>

SessionReset(c) ==
    /\ conns[c] = "running" /\ c \in inSession \cap host.renew
    /\ inSession' = inSession \ {c}
    /\ UNCHANGED <<serving, conns, activeConns, shutting>>

(* Run returns, always with an error: the client is gone, a request cannot  *)
(* be handled, or the context was cancelled.                                *)
RunReturns(c) ==
    /\ conns[c] = "running"
    /\ conns' = [conns EXCEPT ![c] = "returned"]
    /\ IF host.acceptSingleConn /\ c \in inSession
       THEN active' = FALSE /\ listening' = FALSE
       ELSE UNCHANGED <<active, listening>>
    /\ UNCHANGED <<loop, arriving, activeConns, inSession, shutting>>

(* Bug variant: the connection stays in activeConns. *)
RemoveConnKeeps(c) ==
    /\ conns[c] = "returned"
    /\ conns' = [conns EXCEPT ![c] = "ended"]
    /\ UNCHANGED <<serving, activeConns, inSession, shutting>>

RemoveConn(c) ==
    /\ conns[c] = "returned"
    /\ conns' = [conns EXCEPT ![c] = "ended"]
    /\ activeConns' = activeConns \ {c}
    /\ UNCHANGED <<serving, inSession, shutting>>

-----------------------------------------------------------------------------
ShutdownStore ==
    /\ host.shutdown /\ shut = "no" /\ shut' = "stored"
    /\ active' = FALSE
    /\ UNCHANGED <<host, listening, loop, arriving, conns, activeConns, inSession, cancelled, toCancel>>

(* Bug variant: only connections with a session are shut down. *)
ShutdownCloseSessions ==
    /\ shut = "stored" /\ shut' = "closed"
    /\ listening' = (listening /\ loop = "start")
    /\ toCancel' = activeConns \cap inSession
    /\ UNCHANGED <<host, active, loop, arriving, conns, activeConns, inSession, cancelled>>

(* Bug variant: the listener stays open. *)
ShutdownCloseConns ==
    /\ shut = "stored" /\ shut' = "closed"
    /\ toCancel' = activeConns
    /\ UNCHANGED <<host, active, listening, loop, arriving, conns, activeConns, inSession, cancelled>>

ShutdownClose ==
    /\ shut = "stored" /\ shut' = "closed"
    /\ listening' = (listening /\ loop = "start")
    /\ toCancel' = activeConns
    /\ UNCHANGED <<host, active, loop, arriving, conns, activeConns, inSession, cancelled>>

ShutdownCancel ==
    /\ shut = "closed"
    /\ IF toCancel = {} THEN shut' = "done" /\ UNCHANGED <<cancelled, toCancel>>
       ELSE /\ \E c \in toCancel : cancelled' = cancelled \cup {c} /\ toCancel' = toCancel \ {c}
            /\ UNCHANGED shut
    /\ UNCHANGED <<serving, conns, activeConns, inSession>>

-----------------------------------------------------------------------------
ServeStep == SetListener \/ Activate \/ CheckActive \/ AcceptFails \/ Register
ShutdownStep == ShutdownClose \/ ShutdownCancel
Arrive == \E c \in Conn : Accept(c)
CancelledReturns(c) == c \in cancelled /\ RunReturns(c)
ClientLeaves(c) == c \in host.leave /\ RunReturns(c)

LifecycleStep ==
    \/ ServeStep \/ Arrive
    \/ \E c \in Conn : SessionActive(c) \/ SessionReset(c) \/ CancelledReturns(c) \/ ClientLeaves(c) \/ RemoveConn(c)
    \/ ShutdownStore \/ ShutdownStep

LifecycleTypeOK ==
    /\ active \in BOOLEAN /\ listening \in BOOLEAN
    /\ loop \in {"start", "store", "check", "accept", "register", "returned"}
    /\ arriving \in Conn \cup {NoConn}
    /\ conns \in [Conn -> {"new", "accepted", "refused", "running", "returned", "ended"}]
    /\ activeConns \subseteq Conn /\ inSession \subseteq Conn
    /\ cancelled \subseteq Conn /\ toCancel \subseteq Conn
    /\ shut \in {"no", "stored", "closed", "done"}
============================================================================
