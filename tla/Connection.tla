---------------------------- MODULE Connection ----------------------------
(***************************************************************************)
(* server/conn.go and conn.Run: the goroutines of one connection.          *)
(*                                                                         *)
(* The receiver (runReciever) reads requests and hands each to the         *)
(* dispatcher (Run) through outstandingRequests: an entry of a map and a   *)
(* rendezvous on an unbuffered channel.  A handler answers by sendPacket,  *)
(* or starts a goroutine that answers twice, STATUS_PENDING and then the   *)
(* result.  Every sendPacket puts its packet in the queue of the sender    *)
(* (runSender) and takes one result from the channel all callers share.    *)
(***************************************************************************)
EXTENDS Integers, FiniteSets, Sequences

CONSTANTS
    Scripts,      \* what the client may send: sequences of [id, kind]
    WriteCap,     \* capacity of conn.write
    IoSem,        \* capacity of the semaphores of asynchronous reads and writes
    Ending        \* those during which the client may disconnect, and Server.Shutdown be called

Kind == {"sync", "async", "cancel", "fail", "skipped", "broken"}

ASSUME ConnectionAssumption ==
    /\ Scripts \subseteq Seq([id : Nat, kind : Kind])
    /\ WriteCap \in Nat \ {0}
    /\ IoSem \in Nat \ {0}
    /\ Ending \subseteq Scripts

(* The places of asynchronous requests in the scripts. *)
Slots == {i \in UNION {DOMAIN s : s \in Scripts} :
             \E s \in Scripts : i \in DOMAIN s /\ s[i].kind = "async"}

VARIABLES
    script,      \* what the client sends
    read,        \* how many messages the receiver has read
    rpc,         \* the receiver: "read", "set", "offer", "exit" or "done"
    requests,    \* outstandingRequests.requests: [Id -> Message or 0]
    dpc,         \* the dispatcher: "pop", "take", "send", "wait" or "done"
    dmsg,        \* what the dispatcher got: an id in "take", a message later
    locked,      \* the dispatcher keeps outstandingRequests.m
    apc,         \* the goroutine of each asynchronous request
    write,       \* conn.write
    spc,         \* the sender: "select", "result" or "done"
    result,      \* what the sender has to report
    werr,        \* conn.werr
    cancelled,   \* conn.ctx
    wdone,       \* conn.wdone holds a token
    open,        \* the transport is open on this side
    peer,        \* the client is there
    dispatched,  \* history: the messages given to a handler
    sent         \* history: the packets written to the transport

Message == 1 .. Len(script)
Id == {script[i].id : i \in Message}
Async == {i \in Message : script[i].kind = "async"}
Part == {"pending", "final"}
Packet == [msg : Message, part : Part]

receiver == <<script, read, rpc>>
dispatcher == <<dpc, dmsg, locked, dispatched>>
sender == <<spc, result, sent>>
channels == <<write, werr>>
life == <<cancelled, wdone, open, peer>>
vars == <<receiver, requests, dispatcher, apc, sender, channels, life>>

Apc == {"none", "spawned", "sendPending", "waitPending", "sendFinal", "waitFinal", "done"}
Result == {"ok", "error"}

(* Every variable has its type; write and werr stay within the capacities   *)
(* of their channels.                                                       *)
TypeOK ==
    /\ read \in 0 .. Len(script)
    /\ rpc \in {"read", "set", "offer", "exit", "done"}
    /\ requests \in [Id -> Message \cup {0}]
    /\ dpc \in {"pop", "take", "send", "wait", "done"}
    /\ dmsg \in Id \cup Message \cup {0}
    /\ apc \in [Slots -> Apc]
    /\ write \in Seq(Packet) /\ Len(write) <= WriteCap
    /\ spc \in {"select", "result", "done"}
    /\ result \in Result
    /\ werr \in Seq(Result) /\ Len(werr) <= 1
    /\ {locked, cancelled, wdone, open, peer} \subseteq BOOLEAN
    /\ dispatched \in Seq(Message)
    /\ sent \in SUBSET Packet

Init ==
    /\ script \in Scripts
    /\ read = 0 /\ rpc = "read"
    /\ requests = [i \in Id |-> 0]
    /\ dpc = "pop" /\ dmsg = 0 /\ locked = FALSE
    /\ apc = [i \in Slots |-> "none"]
    /\ write = << >> /\ werr = << >>
    /\ spc = "select" /\ result = "ok"
    /\ cancelled = FALSE /\ wdone = FALSE /\ open = TRUE /\ peer = TRUE
    /\ dispatched = << >> /\ sent = {}

(* conn.shutdown: the sends to wdone and rdone do not block.                *)
Shutdown == cancelled' = TRUE /\ wdone' = TRUE /\ open' = FALSE

----------------------------------------------------------------------------
(* The receiver.                                                            *)

(* One message: a packet that cannot be decrypted or has no session is      *)
(* skipped, a malformed one ends the connection.                            *)
ReadMessage ==
    LET kind == script[read + 1].kind
    IN  /\ rpc = "read" /\ open
        /\ read < Len(script)
        /\ read' = read + 1
        /\ rpc' = CASE kind = "skipped" -> "read"
                    [] kind = "broken" -> "exit"
                    [] OTHER -> "set"
        /\ UNCHANGED <<script, requests, dispatcher, apc, sender, channels, life>>

ReadFails ==
    /\ rpc = "read" /\ ~(open /\ peer)
    /\ rpc' = "exit"
    /\ UNCHANGED <<script, read, requests, dispatcher, apc, sender, channels, life>>

(* outstandingRequests.set, the section under the lock.                     *)
SetRequest ==
    /\ rpc = "set" /\ ~locked
    /\ requests' = [requests EXCEPT ![script[read].id] = read]
    /\ rpc' = "offer"
    /\ UNCHANGED <<script, read, dispatcher, apc, sender, channels, life>>

(* Bug variant: an id nobody is waiting for is dropped.                     *)
OfferOrDrop ==
    /\ rpc = "offer"
    /\ IF dpc = "pop" THEN dpc' = "take" /\ dmsg' = script[read].id
                      ELSE UNCHANGED <<dpc, dmsg>>
    /\ rpc' = "read"
    /\ UNCHANGED <<script, read, requests, locked, dispatched, apc, sender, channels, life>>

(* The rendezvous of set and pop on outstandingRequests.s.                  *)
Offer ==
    /\ rpc = "offer" /\ dpc = "pop"
    /\ dpc' = "take" /\ dmsg' = script[read].id
    /\ rpc' = "read"
    /\ UNCHANGED <<script, read, requests, locked, dispatched, apc, sender, channels, life>>

(* The exit of runReciever: outstandingRequests.shutdown takes the lock.    *)
ReceiverExit ==
    /\ rpc = "exit" /\ ~locked
    /\ rpc' = "done"
    /\ Shutdown
    /\ UNCHANGED <<script, read, requests, dispatcher, apc, sender, channels, peer>>

----------------------------------------------------------------------------
(* The dispatcher.                                                          *)

(* Run returns an error: ServeListener closes the transport, and the        *)
(* deferred unlock of pop has run.                                          *)
RunReturns ==
    /\ dpc' = "done" /\ dmsg' = 0
    /\ locked' = FALSE
    /\ open' = FALSE
    /\ UNCHANGED <<cancelled, wdone, peer>>

PopCancelled ==
    /\ dpc = "pop" /\ cancelled
    /\ RunReturns
    /\ UNCHANGED <<receiver, requests, apc, sender, channels, dispatched>>

Continue == UNCHANGED <<locked, life>>

(* The handler of a request up to its sendPacket.                           *)
Handle(m) ==
    /\ dispatched' = Append(dispatched, m)
    /\ \/ /\ script[m].kind = "sync"
          /\ dpc' = "send" /\ dmsg' = m /\ Continue /\ UNCHANGED apc
       \/ /\ script[m].kind = "async"
          /\ dpc' = "pop" /\ dmsg' = 0 /\ Continue
          /\ apc' = [apc EXCEPT ![m] = "spawned"]
       \/ /\ script[m].kind = "cancel"
          /\ dpc' = "pop" /\ dmsg' = 0 /\ Continue /\ UNCHANGED apc
       \/ script[m].kind = "fail" /\ RunReturns /\ UNCHANGED apc

(* pop after it got an id.  Without a request under the id it goes back to  *)
(* wait, and keeps the lock.                                                *)
Take ==
    /\ dpc = "take" /\ ~locked
    /\ requests' = [requests EXCEPT ![dmsg] = 0]
    /\ \/ /\ requests[dmsg] = 0
          /\ dpc' = "pop" /\ dmsg' = 0 /\ locked' = TRUE
          /\ UNCHANGED <<apc, dispatched, life>>
       \/ requests[dmsg] # 0 /\ Handle(requests[dmsg])
    /\ UNCHANGED <<receiver, sender, channels>>

----------------------------------------------------------------------------
(* sendPacket, for the dispatcher and for the goroutines.                   *)

(* Bug variant: the queue grows past its capacity.                          *)
EnqueueAnyway(m, part) == write' = Append(write, [msg |-> m, part |-> part])

Enqueue(m, part) ==
    /\ Len(write) < WriteCap
    /\ write' = Append(write, [msg |-> m, part |-> part])

DispatcherSend ==
    /\ dpc = "send"
    /\ \/ Enqueue(dmsg, "final") /\ dpc' = "wait" /\ UNCHANGED <<dmsg, locked, life>>
       \/ cancelled /\ RunReturns /\ UNCHANGED write
    /\ UNCHANGED <<receiver, requests, apc, sender, werr, dispatched>>

(* Bug variant: the wait for the result does not watch the context.         *)
DispatcherWaitOnly ==
    /\ dpc = "wait" /\ werr # << >>
    /\ werr' = Tail(werr)
    /\ IF Head(werr) = "ok" THEN dpc' = "pop" /\ dmsg' = 0 /\ UNCHANGED <<locked, life>>
                            ELSE RunReturns
    /\ UNCHANGED <<receiver, requests, apc, sender, write, dispatched>>

DispatcherWait ==
    /\ dpc = "wait"
    /\ \/ /\ werr # << >>
          /\ werr' = Tail(werr)
          /\ IF Head(werr) = "ok" THEN dpc' = "pop" /\ dmsg' = 0 /\ UNCHANGED <<locked, life>>
                                  ELSE RunReturns
       \/ cancelled /\ RunReturns /\ UNCHANGED werr
    /\ UNCHANGED <<receiver, requests, apc, sender, write, dispatched>>

(* The goroutine of an asynchronous read or write: it waits for the         *)
(* semaphore, and goes on whatever its first sendPacket returns.            *)
AsyncMove(i, l) == apc' = [apc EXCEPT ![i] = l]

(* Bug variant: the result is sent before STATUS_PENDING.                   *)
AsyncStartLate(i) ==
    /\ apc[i] = "spawned"
    /\ AsyncMove(i, "sendFinal")
    /\ UNCHANGED <<receiver, requests, dispatcher, sender, channels, life>>

(* Bug variant: the semaphore is not released.                              *)
AsyncStartKeeps(i) ==
    /\ apc[i] = "spawned"
    /\ Cardinality({j \in Slots : apc[j] \notin {"none", "spawned"}}) < IoSem
    /\ AsyncMove(i, "sendPending")
    /\ UNCHANGED <<receiver, requests, dispatcher, sender, channels, life>>

AsyncStart(i) ==
    /\ apc[i] = "spawned"
    /\ Cardinality({j \in Slots : apc[j] \notin {"none", "spawned", "done"}}) < IoSem
    /\ AsyncMove(i, "sendPending")
    /\ UNCHANGED <<receiver, requests, dispatcher, sender, channels, life>>

AsyncSend(i, part, at, wait, next) ==
    /\ apc[i] = at
    /\ \/ Enqueue(i, part) /\ AsyncMove(i, wait)
       \/ cancelled /\ AsyncMove(i, next) /\ UNCHANGED write
    /\ UNCHANGED <<receiver, requests, dispatcher, sender, werr, life>>

AsyncWait(i, at, next) ==
    /\ apc[i] = at
    /\ \/ werr # << >> /\ werr' = Tail(werr)
       \/ cancelled /\ UNCHANGED werr
    /\ AsyncMove(i, next)
    /\ UNCHANGED <<receiver, requests, dispatcher, sender, write, life>>

AsyncStep(i) ==
    \/ AsyncStart(i)
    \/ AsyncSend(i, "pending", "sendPending", "waitPending", "sendFinal")
    \/ AsyncWait(i, "waitPending", "sendFinal")
    \/ AsyncSend(i, "final", "sendFinal", "waitFinal", "done")
    \/ AsyncWait(i, "waitFinal", "done")

----------------------------------------------------------------------------
(* The sender.                                                              *)

SenderStops ==
    /\ spc = "select" /\ wdone
    /\ spc' = "done" /\ wdone' = FALSE
    /\ UNCHANGED <<receiver, requests, dispatcher, apc, channels, result, sent, cancelled, open, peer>>

(* A write may fail as soon as one side has closed, and fails on a          *)
(* transport closed here.                                                   *)
SenderWrites ==
    /\ spc = "select" /\ write # << >>
    /\ write' = Tail(write)
    /\ \/ open /\ result' = "ok" /\ sent' = sent \cup {Head(write)}
       \/ ~(open /\ peer) /\ result' = "error" /\ UNCHANGED sent
    /\ spc' = "result"
    /\ UNCHANGED <<receiver, requests, dispatcher, apc, werr, life>>

(* Bug variant: a result the channel has no room for is dropped.            *)
SenderReportsOrDrops ==
    /\ spc = "result"
    /\ werr' = IF werr = << >> THEN <<result>> ELSE werr
    /\ spc' = "select"
    /\ UNCHANGED <<receiver, requests, dispatcher, apc, write, result, sent, life>>

SenderReports ==
    /\ spc = "result" /\ werr = << >>
    /\ werr' = <<result>>
    /\ spc' = "select"
    /\ UNCHANGED <<receiver, requests, dispatcher, apc, write, result, sent, life>>

----------------------------------------------------------------------------
(* The client goes away; Server.Shutdown while the connection is active.    *)

PeerLeaves ==
    /\ script \in Ending /\ peer
    /\ peer' = FALSE
    /\ UNCHANGED <<receiver, requests, dispatcher, apc, sender, channels, cancelled, wdone, open>>

ServerShutdown ==
    /\ script \in Ending /\ dpc # "done" /\ ~cancelled
    /\ Shutdown
    /\ UNCHANGED <<receiver, requests, dispatcher, apc, sender, channels, peer>>

ReceiverStep == ReadMessage \/ ReadFails \/ SetRequest \/ ReceiverExit
DispatcherStep == PopCancelled \/ Take \/ DispatcherSend \/ DispatcherWait
SenderStep == SenderStops \/ SenderWrites \/ SenderReports

Next == \/ ReceiverStep \/ Offer \/ DispatcherStep \/ SenderStep
        \/ \E i \in Slots : AsyncStep(i)
        \/ PeerLeaves \/ ServerShutdown

Spec == Init /\ [][Next]_vars

(* Every goroutine that can go on does.  The client need not leave and the  *)
(* server need not be shut down.                                            *)
FairSpec ==
    /\ Spec
    /\ WF_vars(ReceiverStep) /\ WF_vars(Offer) /\ WF_vars(DispatcherStep)
    /\ WF_vars(SenderStep)
    /\ \A i \in Slots : WF_vars(AsyncStep(i))

----------------------------------------------------------------------------
(* Properties.                                                              *)

Taken(i) == script[i].kind \notin {"skipped", "broken"}

(* m is the next message after the p-th that the receiver hands over.       *)
NextTaken(p, m) == p < m /\ Taken(m) /\ \A i \in (p + 1) .. (m - 1) : ~Taken(i)

(* The handlers see the client's requests in the order they were sent, each *)
(* once and none left out, although the map and the channel between the     *)
(* goroutines are two steps.                                                *)
DispatchedInOrder ==
    \A k \in DOMAIN dispatched : NextTaken(IF k = 1 THEN 0 ELSE dispatched[k - 1], dispatched[k])

(* The client never gets the result of an asynchronous request before, or   *)
(* without, its STATUS_PENDING while the connection lives.                  *)
PendingFirst ==
    ~cancelled /\ open /\ peer =>
        \A i \in Async : [msg |-> i, part |-> "final"] \in sent
                           => [msg |-> i, part |-> "pending"] \in sent

(* While the connection lives, for every caller that waits in sendPacket    *)
(* there is exactly one packet in the queue, in the sender's hands, or one  *)
(* result in the shared channel: no caller waits in vain, no result is left *)
(* for a later one.                                                         *)
ResultPerWaiter ==
    ~cancelled =>
        Cardinality({i \in Slots : apc[i] \in {"waitPending", "waitFinal"}})
            + (IF dpc = "wait" THEN 1 ELSE 0)
        = Len(write) + Len(werr) + (IF spc = "result" THEN 1 ELSE 0)

(* Once the context is cancelled the dispatcher returns, with which the     *)
(* connection leaves activeConns, and so does every goroutine of a handler, *)
(* wherever in sendPacket (conn.go:573) they wait.                          *)
ReturnsWhenCancelled ==
    cancelled ~> (dpc = "done" /\ \A i \in Slots : apc[i] \in {"none", "done"})

(* Every request gets its answer unless the connection ends, by the client, *)
(* the server or a request that fails.                                      *)
EveryRequestAnswered ==
    <>(\/ \A i \in Message : script[i].kind \in {"sync", "async"} => [msg |-> i, part |-> "final"] \in sent
       \/ ~peer \/ cancelled \/ dpc = "done")

(* The receiver gets to its next message after every one it hands over.     *)
KeepsReceiving == (rpc = "set") ~> (rpc # "set")

============================================================================
