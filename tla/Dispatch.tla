------------------------------ MODULE Dispatch ----------------------------
(* The requests of one connection: runReciever divides a packet into its    *)
(* requests (conn.go), conn.Run hands each to its handler (server.go), and  *)
(* sendPacket collects the responses of a chain in its compoundContext.     *)
(*                                                                          *)
(* A request has its message id, an operation, the flag                     *)
(* SMB2_FLAGS_RELATED_OPERATIONS, a tree and whether the file system lets   *)
(* it succeed.  All but the last of a packet have NextCommand set.  Clients *)
(* number their requests in the order they send them.                       *)
EXTENDS Integers, Sequences, FiniteSets

CONSTANTS Scripts,   \* the packets a client may send, a set of sequences of packets
          Share,     \* the names of shares
          Pipes      \* those of them that are IPC$: named pipes instead of files

None == 0
SrvsvcGuid == 99   \* SRVSVC_GUID, the file id of every open of the one pipe

(* How an operation is answered: on a tree through the chain's context,     *)
(* directly, or not at all.  The operations of pipes, a WRITE, a READ and a *)
(* FSCTL_PIPE_TRANSCEIVE, are only sent to pipes.                           *)
PipeOps == {"pipeWrite", "pipeRead", "pipeCall"}
TreeOps == {"create", "use", "close", "notify", "silent"} \cup PipeOps
DirectOps == {"echo", "connect", "disconnect"}
Ops == TreeOps \cup DirectOps \cup {"cancel"}

Request == [id : Nat \ {0}, op : Ops, related : BOOLEAN, ok : BOOLEAN, tree : Nat, file : Nat,
            share : Share]
Status == {"ok", "failed", "pending"}

Numbered(s) ==
    \A i, k \in DOMAIN s : \A j \in DOMAIN s[i], l \in DOMAIN s[k] :
        i < k \/ (i = k /\ j < l) => s[i][j].id < s[k][l].id

ASSUME ScriptsAssumption ==
    \A s \in Scripts :
        /\ s \in Seq(Seq(Request)) /\ \A i \in DOMAIN s : s[i] # <<>>
        /\ Numbered(s)

VARIABLES
    script,    \* the packets that were or will be sent
    at,        \* the packet and the request in it that the receiver comes to
    ctx,       \* compoundContext by the message id of the first request
    current,   \* the context of the packet the receiver is in
    handed,    \* the request the receiver offers to the dispatcher
    byId,      \* treeMapById: path, refCount and for a pipe dceReq of each tree
    byName,    \* treeMapByName: the id of the tree of each name
    granted,   \* the tree id in the answer to each TREE_CONNECT
    nextTree,  \* the next tree id: ids are random and never repeat here
    replies,   \* the WRITE to a pipe whose reply each READ was answered with
    handles,   \* the open handles, named by the message that created them
    timers,    \* the CHANGE_NOTIFYs that are to be completed
    sent,      \* the packets of responses that were sent
    handled    \* the message id of the last request that was handled

dispatchVars == <<script, at, ctx, current, handed, byId, byName, granted, nextTree, replies, handles, timers, sent, handled>>
tables == <<byId, byName, granted, nextTree, replies>>

Context == [file |-> None, lastStatus |-> "ok", lastMsg |-> None, rsp |-> <<>>]

DispatchInit ==
    /\ script \in Scripts /\ at = <<1, 1>>
    /\ ctx = << >> /\ current = None /\ handed = <<>>
    /\ byId = << >> /\ byName = << >> /\ granted = << >> /\ nextTree = 1
    /\ replies = << >> /\ handles = {} /\ timers = {}
    /\ sent = <<>> /\ handled = 0

(* Entries of a map. *)
Put(f, x, v) == [y \in DOMAIN f \cup {x} |-> IF y = x THEN v ELSE f[y]]
Without(f, x) == [y \in DOMAIN f \ {x} |-> f[y]]

-----------------------------------------------------------------------------
(* runReciever: a request that begins a chain makes a context, which those  *)
(* after it in the packet use; the one that ends it tells the context its   *)
(* message id.  Then the receiver waits for the dispatcher.  Where no       *)
(* context was made there is none to tell: the receiver panics.             *)
(* Bug variant: every related request ends its chain. *)
IsCompoundLastAny(r, last) == r.related

IsCompoundFirst(r, last) == ~r.related /\ ~last

IsCompoundLast(r, last) == r.related /\ last

Receives == handed = <<>> /\ at[1] <= Len(script)

(* A packet of related requests only comes to its end. *)
ReceiverPanics ==
    /\ Receives
    /\ IsCompoundLast(script[at[1]][at[2]], at[2] = Len(script[at[1]]))
    /\ current = None

Receive ==
    /\ Receives
    /\ ~ReceiverPanics
    /\ LET packet == script[at[1]]
           r == packet[at[2]]
           last == at[2] = Len(packet)
           in == IF IsCompoundFirst(r, last) THEN r.id ELSE current
           made == IF IsCompoundFirst(r, last) THEN Put(ctx, r.id, Context) ELSE ctx
       IN  /\ ctx' = IF IsCompoundLast(r, last) THEN [made EXCEPT ![in].lastMsg = r.id] ELSE made
           /\ current' = IF last THEN None ELSE in
           /\ handed' = <<[r |-> r, id |-> r.id, ctx |-> in]>>
           /\ at' = IF last THEN <<at[1] + 1, 1>> ELSE <<at[1], at[2] + 1>>
    /\ UNCHANGED <<script, tables, handles, timers, sent, handled>>

(* sendPacket: what is sent, and the context afterwards. *)
Sends(c, id, status) ==
    IF c = None
    THEN sent' = Append(sent, <<[id |-> id, status |-> status]>>) /\ UNCHANGED ctx
    ELSE LET rsp == Append(ctx[c].rsp, [id |-> id, status |-> status])
         IN  /\ ctx' = [ctx EXCEPT ![c].rsp = rsp, ![c].lastStatus = status]
             /\ sent' = IF id = ctx[c].lastMsg THEN Append(sent, rsp) ELSE sent

Takes(m) == handed = <<m>> /\ handed' = <<>> /\ handled' = m.id

OnTree(m) == m.r.op \in TreeOps /\ m.r.tree \in DOMAIN byId

(* Bug variant: STATUS_PENDING is no failure. *)
FailedNotPending(m) == m.ctx # None /\ ctx[m.ctx].lastStatus = "failed"

Failed(m) == m.ctx # None /\ ctx[m.ctx].lastStatus # "ok"

IsPipe(m) == byId[m.r.tree].path \in Pipes
OnFiles(m) == OnTree(m) /\ ~Failed(m) /\ ~IsPipe(m)
OnPipe(m) == OnTree(m) /\ ~Failed(m) /\ IsPipe(m)

-----------------------------------------------------------------------------
(* conn.Run.  A request for a tree that is not connected ends the           *)
(* connection.                                                              *)
NoTree(m) ==
    /\ Takes(m) /\ m.r.op \in TreeOps /\ m.r.tree \notin DOMAIN byId
    /\ UNCHANGED <<script, at, ctx, current, tables, handles, timers, sent>>

Cancel(m) ==
    /\ Takes(m) /\ m.r.op = "cancel"
    /\ UNCHANGED <<script, at, ctx, current, tables, handles, timers, sent>>

Echo(m) ==
    /\ Takes(m) /\ m.r.op = "echo"
    /\ Sends(None, m.id, "ok")
    /\ UNCHANGED <<script, at, current, tables, handles, timers>>

(* After a request that failed the rest of the chain gets its status. *)
FollowFailure(m) ==
    /\ Takes(m) /\ OnTree(m) /\ Failed(m)
    /\ Sends(m.ctx, m.id, ctx[m.ctx].lastStatus)
    /\ UNCHANGED <<script, at, current, tables, handles, timers>>

(* A context forgets nothing: a later create replaces its file. *)
Create(m) ==
    /\ Takes(m) /\ OnFiles(m) /\ m.r.op = "create"
    /\ handles' = IF m.r.ok THEN handles \cup {m.id} ELSE handles
    /\ LET status == IF m.r.ok THEN "ok" ELSE "failed" IN
       IF m.ctx = None THEN Sends(None, m.id, status)
       ELSE LET rsp == Append(ctx[m.ctx].rsp, [id |-> m.id, status |-> status])
            IN  /\ ctx' = [ctx EXCEPT ![m.ctx].rsp = rsp, ![m.ctx].lastStatus = status,
                                      ![m.ctx].file = IF m.r.ok THEN m.id ELSE @]
                /\ sent' = IF m.id = ctx[m.ctx].lastMsg THEN Append(sent, rsp) ELSE sent
    /\ UNCHANGED <<script, at, current, tables, timers>>

(* The handle is that of the chain, if it has one, or the request's own. *)
FileOf(m) == IF m.ctx # None /\ ctx[m.ctx].file # None THEN ctx[m.ctx].file ELSE m.r.file

Use(m) ==
    /\ Takes(m) /\ OnFiles(m) /\ m.r.op = "use"
    /\ Sends(m.ctx, m.id, IF m.r.ok /\ FileOf(m) \in handles THEN "ok" ELSE "failed")
    /\ UNCHANGED <<script, at, current, tables, handles, timers>>

CloseFile(m) ==
    /\ Takes(m) /\ OnFiles(m) /\ m.r.op = "close"
    /\ handles' = handles \ {FileOf(m)}
    /\ Sends(m.ctx, m.id, IF FileOf(m) \in handles THEN "ok" ELSE "failed")
    /\ UNCHANGED <<script, at, current, tables, timers>>

(* queryInfo with an information type it does not know. *)
Silent(m) ==
    /\ Takes(m) /\ OnFiles(m) /\ m.r.op = "silent"
    /\ UNCHANGED <<script, at, ctx, current, tables, handles, timers, sent>>

(* changeNotify, and its completion some time later through the same        *)
(* context, unless the handle is closed by then.                            *)
ChangeNotify(m) ==
    /\ Takes(m) /\ OnFiles(m) /\ m.r.op = "notify"
    /\ IF FileOf(m) \in handles
       THEN Sends(m.ctx, m.id, "pending") /\ timers' = timers \cup {[id |-> m.id, ctx |-> m.ctx, file |-> FileOf(m)]}
       ELSE Sends(m.ctx, m.id, "failed") /\ UNCHANGED timers
    /\ UNCHANGED <<script, at, current, tables, handles>>

(* Bug variant: the timer fires again. *)
NotifyCompletesAgain(t) ==
    /\ t \in timers
    /\ IF t.file \in handles THEN Sends(t.ctx, t.id, "failed") ELSE UNCHANGED <<ctx, sent>>
    /\ UNCHANGED <<script, at, current, handed, tables, handles, timers, handled>>

NotifyCompletes(t) ==
    /\ t \in timers /\ timers' = timers \ {t}
    /\ IF t.file \in handles THEN Sends(t.ctx, t.id, "failed") ELSE UNCHANGED <<ctx, sent>>
    /\ UNCHANGED <<script, at, current, handed, tables, handles, handled>>

-----------------------------------------------------------------------------
(* treeConnect: a share that is connected already is counted, and one that  *)
(* does not exist is refused.                                               *)
TreeConnect(m) ==
    /\ Takes(m) /\ m.r.op = "connect"
    /\ IF ~m.r.ok THEN UNCHANGED tables
       ELSE IF m.r.share \in DOMAIN byName
       THEN /\ byId' = [byId EXCEPT ![byName[m.r.share]].refCount = @ + 1]
            /\ granted' = Put(granted, m.id, byName[m.r.share])
            /\ UNCHANGED <<byName, nextTree, replies>>
       ELSE /\ byId' = Put(byId, nextTree, [path |-> m.r.share, refCount |-> 1, dceReq |-> <<>>])
            /\ byName' = Put(byName, m.r.share, nextTree)
            /\ granted' = Put(granted, m.id, nextTree)
            /\ nextTree' = nextTree + 1
            /\ UNCHANGED replies
    /\ Sends(None, m.id, IF m.r.ok THEN "ok" ELSE "failed")
    /\ UNCHANGED <<script, at, current, handles, timers>>

(* treeDisconnect: one that is not connected is answered all the same. *)
(* Bug variant: the tree keeps its name. *)
TreeDisconnectKeepsName(m) ==
    /\ Takes(m) /\ m.r.op = "disconnect"
    /\ IF m.r.tree \notin DOMAIN byId THEN UNCHANGED byId
       ELSE IF byId[m.r.tree].refCount = 1 THEN byId' = Without(byId, m.r.tree)
       ELSE byId' = [byId EXCEPT ![m.r.tree].refCount = @ - 1]
    /\ Sends(None, m.id, "ok")
    /\ UNCHANGED <<script, at, current, byName, granted, nextTree, replies, handles, timers>>

(* Bug variant: no response for a tree that is not connected. *)
TreeDisconnectSilent(m) ==
    /\ Takes(m) /\ m.r.op = "disconnect"
    /\ IF m.r.tree \notin DOMAIN byId THEN UNCHANGED <<byId, byName, ctx, sent>>
       ELSE /\ IF byId[m.r.tree].refCount = 1
               THEN byId' = Without(byId, m.r.tree) /\ byName' = Without(byName, byId[m.r.tree].path)
               ELSE byId' = [byId EXCEPT ![m.r.tree].refCount = @ - 1] /\ UNCHANGED byName
            /\ Sends(None, m.id, "ok")
    /\ UNCHANGED <<script, at, current, granted, nextTree, replies, handles, timers>>

TreeDisconnect(m) ==
    /\ Takes(m) /\ m.r.op = "disconnect"
    /\ IF m.r.tree \notin DOMAIN byId THEN UNCHANGED <<byId, byName>>
       ELSE IF byId[m.r.tree].refCount = 1
       THEN byId' = Without(byId, m.r.tree) /\ byName' = Without(byName, byId[m.r.tree].path)
       ELSE byId' = [byId EXCEPT ![m.r.tree].refCount = @ - 1] /\ UNCHANGED byName
    /\ Sends(None, m.id, "ok")
    /\ UNCHANGED <<script, at, current, granted, nextTree, replies, handles, timers>>

-----------------------------------------------------------------------------
(* ipcTree.  A create or close of the pipe leaves nothing behind: in a      *)
(* chain too, the file id is the request's own.  What a WRITE brings waits  *)
(* in the tree for a READ, through whichever open.  ok tells whether the    *)
(* server can answer it; what it cannot answer is no RPC request at all     *)
(* ("malformed") or one it does not know ("unknown").                       *)
DceKinds(r) == IF r.ok THEN {"known"} ELSE {"malformed", "unknown"}

PipeAnswers(m, status) ==
    /\ Takes(m) /\ OnPipe(m)
    /\ Sends(m.ctx, m.id, status)
    /\ UNCHANGED <<script, at, current, tables, handles, timers>>

PipeCreate(m) == m.r.op = "create" /\ PipeAnswers(m, IF m.r.ok THEN "ok" ELSE "failed")
PipeClose(m) == m.r.op = "close" /\ m.r.file = SrvsvcGuid /\ PipeAnswers(m, "ok")

(* An RPC the server does not have, or a DFS referral through whichever     *)
(* open, is refused.                                                        *)
PipeIoctl(m) ==
    /\ m.r.op = "pipeCall"
    /\ m.r.ok => m.r.file = SrvsvcGuid
    /\ PipeAnswers(m, IF m.r.ok THEN "ok" ELSE "failed")

PipeQueryInfo(m) == m.r.op = "silent" /\ PipeAnswers(m, "failed")

PipeWrite(m) ==
    /\ Takes(m) /\ OnPipe(m) /\ m.r.op = "pipeWrite"
    /\ \E kind \in DceKinds(m.r) : byId' = [byId EXCEPT ![m.r.tree].dceReq = <<[id |-> m.id, kind |-> kind]>>]
    /\ Sends(m.ctx, m.id, "ok")
    /\ UNCHANGED <<script, at, current, byName, granted, nextTree, replies, handles, timers>>

(* The status of a READ without a reply: that there is nothing to answer,   *)
(* or nothing the server understands, counts as success.                    *)
UnansweredStatus(waiting) == IF waiting # <<>> /\ waiting[1].kind = "unknown" THEN "failed" ELSE "ok"

(* Bug variant: the request stays after its reply. *)
PipeReadKeeps(m) ==
    /\ Takes(m) /\ OnPipe(m) /\ m.r.op = "pipeRead"
    /\ LET waiting == byId[m.r.tree].dceReq IN
       IF waiting # <<>> /\ waiting[1].kind = "known"
       THEN replies' = Put(replies, m.id, waiting[1].id) /\ Sends(m.ctx, m.id, "ok")
       ELSE UNCHANGED replies /\ Sends(m.ctx, m.id, UnansweredStatus(waiting))
    /\ UNCHANGED <<script, at, current, byId, byName, granted, nextTree, handles, timers>>

PipeRead(m) ==
    /\ Takes(m) /\ OnPipe(m) /\ m.r.op = "pipeRead"
    /\ LET waiting == byId[m.r.tree].dceReq IN
       IF waiting # <<>> /\ waiting[1].kind = "known"
       THEN /\ byId' = [byId EXCEPT ![m.r.tree].dceReq = <<>>]
            /\ replies' = Put(replies, m.id, waiting[1].id)
            /\ Sends(m.ctx, m.id, "ok")
       ELSE /\ UNCHANGED <<byId, replies>>
            /\ Sends(m.ctx, m.id, UnansweredStatus(waiting))
    /\ UNCHANGED <<script, at, current, byName, granted, nextTree, handles, timers>>

(* What ends the connection: an operation that pipes do not have, a file id *)
(* that is not the pipe's, an unknown control code, or an                   *)
(* FSCTL_PIPE_TRANSCEIVE of no known packet type.                           *)
PipeFails(m) ==
    /\ Takes(m) /\ OnPipe(m)
    /\ \/ m.r.op \in {"use", "notify"}
       \/ m.r.op \in {"close", "pipeCall"} /\ m.r.file # SrvsvcGuid
       \/ m.r.op = "pipeCall" /\ ~m.r.ok
    /\ UNCHANGED <<script, at, ctx, current, tables, handles, timers, sent>>

Handle(m) ==
    \/ PipeCreate(m) \/ PipeClose(m) \/ PipeIoctl(m) \/ PipeQueryInfo(m) \/ PipeWrite(m) \/ PipeRead(m)
    \/ Cancel(m) \/ Echo(m) \/ FollowFailure(m) \/ Create(m) \/ Use(m) \/ CloseFile(m)
    \/ Silent(m) \/ ChangeNotify(m) \/ TreeConnect(m) \/ TreeDisconnect(m)

Run == \E k \in DOMAIN handed : Handle(handed[k])
RunFails == \E k \in DOMAIN handed : NoTree(handed[k]) \/ PipeFails(handed[k])
Complete == \E t \in timers : NotifyCompletes(t)
============================================================================
