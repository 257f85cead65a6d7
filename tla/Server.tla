------------------------------- MODULE Server -----------------------------
(* The server: the accept loop and Shutdown (Lifecycle) and the requests of *)
(* one of its connections, Served (Dispatch).  They meet in conn.Run: it    *)
(* handles requests while it runs, and a request for a tree that is not     *)
(* connected makes it return.                                               *)
EXTENDS Dispatch, Lifecycle

CONSTANTS Served,
          Cases    \* what is sent to Served in which surroundings

ASSUME ServedAssumption == Served \in Conn /\ Cases \subseteq Scripts \X Hosts

VARIABLE alive    \* no goroutine has panicked: a panic ends the whole process

vars == <<dispatchVars, lifecycleVars, alive>>

Init == DispatchInit /\ LifecycleInit /\ <<script, host>> \in Cases /\ alive = TRUE

(* Run has a session for the requests: what precedes it is not in a script. *)
Serves == conns[Served] = "running" /\ Served \in inSession

(* A step of the receiver, of Run or of a waiting CHANGE_NOTIFY. *)
DispatchStep ==
    /\ Serves
    /\ Receive \/ Run \/ Complete
    /\ UNCHANGED lifecycleVars

(* Run returns the error of the request. *)
RequestEnds == Serves /\ RunFails /\ RunReturns(Served)

Manage == LifecycleStep /\ UNCHANGED dispatchVars

(* Nothing recovers the panic of a goroutine. *)
Panic == Serves /\ ReceiverPanics /\ UNCHANGED <<dispatchVars, lifecycleVars>> /\ alive' = FALSE

(* A step of a process that lives on. *)
Lives(A) == alive /\ A /\ UNCHANGED alive

Next == Lives(DispatchStep \/ RequestEnds \/ Manage) \/ (alive /\ Panic)

Spec == Init /\ [][Next]_vars

(* The goroutines run: the accept loop, Shutdown once called, the end of a  *)
(* connection whose context was cancelled, and the ones of Served.  Nothing *)
(* makes a client connect or leave, or the host call Shutdown.              *)
Fairness ==
    /\ WF_vars(Lives(ServeStep /\ UNCHANGED dispatchVars))
    /\ WF_vars(Lives(ShutdownStep /\ UNCHANGED dispatchVars))
    /\ \A c \in Conn : WF_vars(Lives(CancelledReturns(c) /\ UNCHANGED dispatchVars))
    /\ \A c \in Conn : WF_vars(Lives(RemoveConn(c) /\ UNCHANGED dispatchVars))
    /\ WF_vars(Lives(Serves /\ Receive /\ UNCHANGED lifecycleVars) \/ (alive /\ Panic))
    /\ WF_vars(Lives(Serves /\ Run /\ UNCHANGED lifecycleVars))
    /\ WF_vars(Lives(Serves /\ Complete /\ UNCHANGED lifecycleVars))
    /\ WF_vars(Lives(RequestEnds))

FairSpec == Spec /\ Fairness

-----------------------------------------------------------------------------
(* The packets of the script, by their place in it. *)
Packets == 1 .. Len(script)
Ids(i) == {script[i][j].id : j \in DOMAIN script[i]}
IsChain(i) == Len(script[i]) > 1
LastOf(i) == script[i][Len(script[i])]
Requests == UNION {{script[i][j] : j \in DOMAIN script[i]} : i \in Packets}
RequestOf(id) == CHOOSE r \in Requests : r.id = id

(* No request of the packet can begin a chain. *)
Unled(i) == \A j \in 1 .. Len(script[i]) : script[i][j].related

(* The client asks for a chain as the protocol defines it. *)
WellRelated(i) == \A j \in 1 .. Len(script[i]) : script[i][j].related <=> j > 1

Answers(id) == {k \in DOMAIN sent : \E a \in DOMAIN sent[k] : sent[k][a].id = id}
Answered(i) == \A j \in 1 .. Len(script[i]) :
    script[i][j].op \notin {"cancel", "silent"} => Answers(script[i][j].id) # {}

(* Every variable has its type; a request that waits for the dispatcher is  *)
(* of a context that exists, a registered connection is one Run of which    *)
(* has begun and whose removal is to come, and only the loop's connection   *)
(* is between Accept and its registration.                                  *)
TypeOK ==
    /\ LifecycleTypeOK /\ alive \in BOOLEAN
    /\ activeConns = {c \in Conn : conns[c] \in {"running", "returned"}}
    /\ {c \in Conn : conns[c] = "accepted"} = {arriving} \ {NoConn}
    /\ at \in (1 .. Len(script) + 1) \X Nat /\ current \in DOMAIN ctx \cup {None}
    /\ \A c \in DOMAIN ctx : ctx[c].lastStatus \in Status /\ ctx[c].file \in Nat /\ ctx[c].lastMsg \in Nat
    /\ \A k \in DOMAIN handed : handed[k].r \in Request /\ handed[k].ctx \in DOMAIN ctx \cup {None}
    /\ \A t \in timers : t.ctx \in DOMAIN ctx \cup {None}

(* sendPacket (conn.go:535): what is sent for a chain holds an answer of    *)
(* its last request and is in the order of the requests, a completion       *)
(* apart.  So a chain is only answered when its last request is one of a    *)
(* tree, and related: the responses of any other stay in the context.  A    *)
(* packet that begins with a related request is no chain: it has no context *)
(* and its requests are answered one by one.                                *)
ChainsSentWhole ==
    \A k \in DOMAIN sent : \A i \in Packets :
        (\E a \in DOMAIN sent[k] : sent[k][a].id \in Ids(i)) =>
            /\ \A a \in DOMAIN sent[k] : sent[k][a].id \in Ids(i)
            /\ (IsChain(i) /\ ~script[i][1].related /\ RequestOf(sent[k][1].id).op \in TreeOps) =>
                  /\ LastOf(i).op \in TreeOps /\ LastOf(i).related
                  /\ sent[k][Len(sent[k])].id = LastOf(i).id
                  /\ \A id \in Ids(i) : RequestOf(id).op \in TreeOps \ {"silent"} => k \in Answers(id)

(* sendPacket and changeNotify (conn.go:535, file_tree.go:1568): a request  *)
(* is answered in one packet.  The exception is the CHANGE_NOTIFY that ends *)
(* its packet: its completion is sent through the chain's context, and the  *)
(* client gets every response of the chain a second time.                   *)
AnsweredOnce ==
    \A i \in Packets : \A id \in Ids(i) :
        Cardinality(Answers(id)) <= IF LastOf(i).op = "notify" THEN 2 ELSE 1

CreatesUsesCloses(i) ==
    /\ IsChain(i) /\ WellRelated(i)
    /\ script[i][1].op = "create" /\ script[i][1].ok /\ LastOf(i).op = "close"
    /\ script[i][1].tree \in DOMAIN byId /\ byId[script[i][1].tree].path \notin Pipes
    /\ \A j \in 2 .. Len(script[i]) - 1 : script[i][j].op \notin {"create", "close"}

(* conn.Run (server.go:397): a chain that creates a file, uses it and       *)
(* closes it leaves the handle open exactly when a request between failed   *)
(* or was a CHANGE_NOTIFY: the CLOSE is then answered and not forwarded.    *)
HandleLeftOpen ==
    \A i \in Packets : (CreatesUsesCloses(i) /\ handled = LastOf(i).id) =>
        (script[i][1].id \in handles
            <=> \E j \in 2 .. Len(script[i]) - 1 :
                    \/ script[i][j].op = "use" /\ ~script[i][j].ok
                    \/ script[i][j].op = "notify")

Grants(i) == {n \in DOMAIN granted : granted[n] = i}
Handled(op, t) == {n \in 1 .. handled : \E r \in Requests : r.id = n /\ r.op = op /\ r.tree = t}
Disconnects(i) == {n \in Handled("disconnect", i) : \E g \in Grants(i) : g < n}

(* treeConnect and treeDisconnect (server.go:505, 624): the two tables name *)
(* the same trees.  The tree of an id is there as long as the id was        *)
(* granted more often than it was disconnected, whatever was disconnected   *)
(* in between, and refCount is the difference.                              *)
TreesAgree ==
    /\ \A i \in 1 .. nextTree - 1 :
        LET refs == Cardinality(Grants(i)) - Cardinality(Disconnects(i)) IN
        /\ i \in DOMAIN byId <=> refs > 0
        /\ i \in DOMAIN byId => byId[i].refCount = refs
    /\ \A s \in DOMAIN byName : byName[s] \in DOMAIN byId /\ byId[byName[s]].path = s
    /\ \A i \in DOMAIN byId : byId[i].path \in DOMAIN byName /\ byName[byId[i].path] = i

Writes(t) == Handled("pipeWrite", t)
Alone(w) == \E i \in Packets : ~IsChain(i) /\ w \in Ids(i)

(* ipcTree.write and ipcTree.read (ipc_tree.go:86, 99): the requests that   *)
(* are written to a pipe are answered in their order and none twice, though *)
(* all opens of the pipe share dceReq.  One that was written by itself is   *)
(* answered, or waits, or was replaced by a later WRITE.                    *)
RepliesInOrder ==
    /\ \A n, k \in DOMAIN replies :
        /\ replies[n] \in Writes(RequestOf(n).tree) /\ replies[n] < n
        /\ n < k /\ RequestOf(n).tree = RequestOf(k).tree => replies[n] < replies[k]
    /\ \A t \in DOMAIN byId : \A w \in Writes(t) :
        (Alone(w) /\ ~ \E v \in Writes(t) : v > w) =>
            \/ \E n \in DOMAIN replies : replies[n] = w
            \/ \E q \in DOMAIN byId[t].dceReq : byId[t].dceReq[q].id = w

Missed(c) == conns[c] \in {"accepted", "running"} /\ c \notin cancelled \cup toCancel

(* Shutdown (server.go:337): the loop may have accepted one connection that *)
(* the snapshot misses, never two.  That connection is served after         *)
(* Shutdown has returned.                                                   *)
ShutdownMissesOne ==
    (shut \in {"closed", "done"} /\ ~active /\ ~host.acceptSingleConn) =>
        \A c, d \in Conn : Missed(c) /\ Missed(d) => c = d

(* ServeListener and Shutdown (server.go:244, 337): once it has stored      *)
(* active, ServeListener returns whenever active is cleared, be it by       *)
(* Shutdown or at the end of the one session of acceptSingleConn, and the   *)
(* connections that Shutdown found leave activeConns, if the process lives. *)
ServingEnds ==
    /\ (~active /\ loop \notin {"start", "store"}) ~> (loop = "returned" \/ ~alive)
    /\ \A c \in Conn : (c \in toCancel) ~> (c \notin activeConns \/ ~alive)

Answerable(i) ==
    IF IsChain(i) THEN WellRelated(i) /\ LastOf(i).op \in TreeOps \ {"silent"}
    ELSE ~LastOf(i).related /\ LastOf(i).op \notin {"cancel", "silent"}

(* The process has panicked at the packet the receiver had come to, all of  *)
(* whose requests are related.                                              *)
PanickedUnled == ~alive /\ at[1] \in Packets /\ Unled(at[1])

(* runReciever, conn.Run and sendPacket: every request of a packet with one *)
(* unrelated request, and of a related chain that ends in a request of a    *)
(* tree, is answered, unless Run returns or the session ends first, or      *)
(* an earlier packet has no request to begin a chain: the receiver panics   *)
(* at its end (conn.go:326), which no other packet makes it do.             *)
PacketsAnswered ==
    Serves ~> (~Serves \/ PanickedUnled \/ \A i \in Packets : Answerable(i) => Answered(i))
============================================================================
