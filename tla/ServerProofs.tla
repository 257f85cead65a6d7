--------------------------- MODULE ServerProofs ---------------------------
(* Whatever the connections, the requests and the surroundings: Shutdown    *)
(* misses at most one connection, the state of the requests has its type,   *)
(* requests are handled in their order, the two tables of trees agree, the  *)
(* context of a chain collects its responses, and pipes reply in order.     *)
EXTENDS Server, TLAPS

USE ZenonT(30)

(* The connection between Accept and its registration is the loop's, and    *)
(* what is registered runs or has just returned.                            *)
Registered ==
    /\ IF loop = "register" THEN arriving \in Conn /\ conns[arriving] = "accepted" ELSE arriving = NoConn
    /\ \A c \in Conn : conns[c] = "accepted" => c = arriving
    /\ \A c \in Conn : conns[c] \in {"running", "returned"} <=> c \in activeConns

(* Nothing is accepted before active is stored. *)
NotYetServing == loop \in {"start", "store"} => \A c \in Conn : conns[c] = "new"

(* After Shutdown has closed the listener nothing more is accepted: only an *)
(* active server could have been closed too early, and it stays active.     *)
Closed ==
    (shut \in {"closed", "done"} /\ ~active /\ ~host.acceptSingleConn /\ loop \notin {"start", "store"}) => ~listening

ShutdownInv ==
    /\ LifecycleTypeOK /\ host \in Hosts
    /\ Registered /\ NotYetServing /\ Closed /\ ShutdownMissesOne

(* The initial state satisfies the invariant: no connection is known. *)
LEMMA InitShutdownInv == Init => ShutdownInv
BY DEF Init, LifecycleInit, ShutdownInv, LifecycleTypeOK, Registered, NotYetServing, Closed, ShutdownMissesOne, Missed

(* The steps of the requests leave the accept loop and Shutdown alone. *)
LEMMA DispatchShutdownInv == ShutdownInv /\ UNCHANGED lifecycleVars => ShutdownInv'
BY SMTT(20) DEF ShutdownInv, LifecycleTypeOK, Registered, NotYetServing, Closed, ShutdownMissesOne, Missed, lifecycleVars

(* The accept loop: with the listener closed no connection becomes missed,  *)
(* and the one the loop holds stays the only one when it is registered.     *)
LEMMA ServeShutdownInv == ShutdownInv /\ (ServeStep \/ Arrive) => ShutdownInv'
<1> SUFFICES ASSUME ShutdownInv, ServeStep \/ Arrive PROVE ShutdownInv'
  OBVIOUS
<1> USE LifecycleAssumption, ServedAssumption
    DEF ShutdownInv, LifecycleTypeOK, Registered, NotYetServing, Closed, ShutdownMissesOne, Missed,
        serving, shutting
<1>1. CASE SetListener
  BY <1>1 DEF SetListener
<1>2. CASE Activate
  BY <1>2 DEF Activate
<1>3. CASE CheckActive
  BY <1>3 DEF CheckActive
<1>4. CASE AcceptFails
  BY <1>4 DEF AcceptFails
<1>5. CASE Register
  <2>1. arriving \in Conn /\ conns[arriving] = "accepted" /\ arriving # NoConn
    BY <1>5 DEF Register
  <2>2. \A d \in Conn \ {arriving} : conns'[d] = conns[d] /\ conns[d] # "accepted"
    BY <1>5 DEF Register
  <2>3. conns'[arriving] \in {"refused", "running"}
    BY <1>5, <2>1 DEF Register
  <2>4. (LifecycleTypeOK /\ host \in Hosts)'
    BY <1>5, <2>1, SMTT(20) DEF Register
  <2>5. (Registered /\ NotYetServing /\ Closed)'
    BY <1>5, <2>1, <2>2, <2>3, SMTT(20) DEF Register
  <2>6. \A d \in Conn : Missed(d)' => Missed(d)
    BY <1>5, <2>1, <2>2, <2>3, SMTT(20) DEF Register
  <2>7. ShutdownMissesOne'
    BY <1>5, <2>6 DEF Register
  <2> QED
    BY <2>4, <2>5, <2>7
<1>6. ASSUME NEW c \in Conn, Accept(c) PROVE ShutdownInv'
  <2>1. \A d \in Conn : conns'[d] = IF d = c THEN "accepted" ELSE conns[d]
    BY <1>6, SMTT(20) DEF Accept
  <2>2. (LifecycleTypeOK /\ host \in Hosts)'
    BY <1>6 DEF Accept
  <2>3. (Registered /\ NotYetServing /\ Closed)'
    BY <1>6, <2>1, SMTT(20) DEF Accept
  <2>4. ~(shut \in {"closed", "done"} /\ ~active /\ ~host.acceptSingleConn)'
    BY <1>6 DEF Accept
  <2> QED
    BY <2>2, <2>3, <2>4
<1> QED
  BY <1>1, <1>2, <1>3, <1>4, <1>5, <1>6 DEF ServeStep, Arrive

(* The connections: none becomes missed. *)
LEMMA ConnShutdownInv ==
    ASSUME NEW c \in Conn, ShutdownInv,
           SessionActive(c) \/ SessionReset(c) \/ RunReturns(c) \/ RemoveConn(c)
    PROVE  ShutdownInv'
<1> USE LifecycleAssumption, ServedAssumption
    DEF ShutdownInv, LifecycleTypeOK, Registered, NotYetServing, Closed, ShutdownMissesOne, Missed,
        serving, shutting
<1>1. CASE SessionActive(c) \/ SessionReset(c)
  BY <1>1, SMTT(20) DEF SessionActive, SessionReset
<1>2. CASE RunReturns(c)
  BY <1>2 DEF RunReturns
<1>3. CASE RemoveConn(c)
  BY <1>3, SMTT(20) DEF RemoveConn
<1> QED
  BY <1>1, <1>2, <1>3

(* Shutdown: its snapshot has every running connection, so that what it     *)
(* misses is the one the loop holds.                                        *)
LEMMA ShutdownShutdownInv == ShutdownInv /\ (ShutdownStore \/ ShutdownStep) => ShutdownInv'
<1> SUFFICES ASSUME ShutdownInv, ShutdownStore \/ ShutdownStep PROVE ShutdownInv'
  OBVIOUS
<1> USE LifecycleAssumption, ServedAssumption
    DEF ShutdownInv, LifecycleTypeOK, Registered, NotYetServing, Closed, ShutdownMissesOne, Missed,
        serving, shutting
<1>1. CASE ShutdownStore
  BY <1>1 DEF ShutdownStore
<1>2. CASE ShutdownClose
  BY <1>2 DEF ShutdownClose
<1>3. CASE ShutdownCancel
  BY <1>3, SMTT(20) DEF ShutdownCancel
<1> QED
  BY <1>1, <1>2, <1>3 DEF ShutdownStep

(* Every step keeps the invariant. *)
LEMMA ShutdownInvNext == ShutdownInv /\ [Next]_vars => ShutdownInv'
<1> SUFFICES ASSUME ShutdownInv, [Next]_vars PROVE ShutdownInv'
  OBVIOUS
<1>1. CASE DispatchStep \/ Panic \/ UNCHANGED vars
  BY <1>1, DispatchShutdownInv DEF DispatchStep, Panic, vars
<1>2. CASE RequestEnds
  BY <1>2, ConnShutdownInv, ServedAssumption DEF RequestEnds
<1>3. CASE Manage
  BY <1>3, ServeShutdownInv, ConnShutdownInv, ShutdownShutdownInv
     DEF Manage, LifecycleStep, CancelledReturns, ClientLeaves
<1> QED
  BY <1>1, <1>2, <1>3 DEF Next, Lives

(* Shutdown (server.go:337) leaves at most one accepted connection running  *)
(* that it did not shut down, for any number of connections and with the    *)
(* requests of one of them in between.                                      *)
THEOREM ShutdownCorrect == Spec => []ShutdownMissesOne
<1>1. ShutdownInv => ShutdownMissesOne
  BY DEF ShutdownInv
<1> QED
  BY <1>1, ShutdownInvNext, InitShutdownInv, PTL DEF Spec

-----------------------------------------------------------------------------
(* The state of the requests of Served. *)

Response == [id : Nat, status : Status]
ContextType == [file : Nat, lastStatus : Status, lastMsg : Nat, rsp : Seq(Response)]
Offered == [r : Request, id : Nat \ {0}, ctx : Nat]
Timer == [id : Nat \ {0}, ctx : Nat, file : Nat]

PlaceOK ==
    /\ script \in Scripts
    /\ at \in (1 .. Len(script) + 1) \X (Nat \ {0})
    /\ at[1] <= Len(script) => at[2] \in DOMAIN script[at[1]]

ContextsOK ==
    /\ DOMAIN ctx \subseteq Nat \ {0} /\ ctx \in [DOMAIN ctx -> ContextType]
    /\ current \in DOMAIN ctx \cup {None}

WaitingOK ==
    /\ handed # <<>> => handed = <<handed[1]>>
    /\ handed # <<>> => handed[1] \in Offered /\ handed[1].ctx \in DOMAIN ctx \cup {None}
    /\ timers \subseteq Timer /\ \A t \in timers : t.ctx \in DOMAIN ctx \cup {None}

Typed == PlaceOK /\ ContextsOK /\ WaitingOK

(* A script is a sequence of packets, and a packet one of requests. *)
LEMMA ScriptFacts ==
  ASSUME script \in Scripts
  PROVE  /\ Len(script) \in Nat /\ Packets = 1 .. Len(script) /\ DOMAIN script = Packets
         /\ \A i \in Packets :
              /\ Len(script[i]) \in Nat \ {0} /\ DOMAIN script[i] = 1 .. Len(script[i])
              /\ \A j \in 1 .. Len(script[i]) : script[i][j] \in Request
         /\ Numbered(script)
<1>1. script \in Seq(Seq(Request)) /\ \A i \in DOMAIN script : script[i] # <<>>
  BY ScriptsAssumption
<1>2. Len(script) \in Nat /\ DOMAIN script = 1 .. Len(script)
  BY <1>1, SMTT(20)
<1>3. ASSUME NEW i \in 1 .. Len(script)
      PROVE  /\ Len(script[i]) \in Nat \ {0} /\ DOMAIN script[i] = 1 .. Len(script[i])
             /\ \A j \in 1 .. Len(script[i]) : script[i][j] \in Request
  <2>1. script[i] \in Seq(Request) /\ script[i] # <<>>
    BY <1>1, <1>2, SMTT(20)
  <2> QED BY <2>1, SMTT(20)
<1> QED BY <1>2, <1>3, ScriptsAssumption DEF Packets

(* What the receiver does with the request it comes to: that request opens  *)
(* a chain, ends one, or neither.                                           *)
Come == script[at[1]][at[2]]
AtEnd == at[2] = Len(script[at[1]])

Opens == ~Come.related /\ ~AtEnd /\ ctx' = Put(ctx, Come.id, Context)
Ends == Come.related /\ AtEnd /\ ctx' = [ctx EXCEPT ![current].lastMsg = Come.id]
Continues == ~(~Come.related /\ ~AtEnd) /\ ~(Come.related /\ AtEnd) /\ ctx' = ctx

In == IF ~Come.related /\ ~AtEnd THEN Come.id ELSE current

(* What runReciever does with the request it comes to. *)
LEMMA ReceiveEffect ==
  ASSUME Receive
  PROVE  /\ handed = <<>> /\ at[1] <= Len(script)
         /\ Opens \/ Ends \/ Continues
         /\ current' = IF AtEnd THEN None ELSE In
         /\ handed' = <<[r |-> Come, id |-> Come.id, ctx |-> In]>>
         /\ at' = IF AtEnd THEN <<at[1] + 1, 1>> ELSE <<at[1], at[2] + 1>>
         /\ UNCHANGED <<script, tables, handles, timers, sent, handled>>
<1>1. /\ handed = <<>> /\ at[1] <= Len(script)
      /\ current' = IF AtEnd THEN None ELSE In
      /\ handed' = <<[r |-> Come, id |-> Come.id, ctx |-> In]>>
      /\ at' = IF AtEnd THEN <<at[1] + 1, 1>> ELSE <<at[1], at[2] + 1>>
      /\ UNCHANGED <<script, tables, handles, timers, sent, handled>>
  BY DEF Receive, Receives, IsCompoundFirst, IsCompoundLast, Come, AtEnd, In
<1> DEFINE first == ~Come.related /\ ~AtEnd
           ends == Come.related /\ AtEnd
           made == IF first THEN Put(ctx, Come.id, Context) ELSE ctx
<1>2. ctx' = IF ends THEN [made EXCEPT ![In].lastMsg = Come.id] ELSE made
  BY DEF Receive, Receives, IsCompoundFirst, IsCompoundLast, Come, AtEnd, In
<1>3. CASE first
  <2>1. made = Put(ctx, Come.id, Context) /\ ~ends
    BY <1>3
  <2> HIDE DEF made, ends
  <2>2. ctx' = Put(ctx, Come.id, Context)
    BY <1>2, <2>1
  <2> QED BY <1>1, <1>3, <2>2 DEF Opens
<1>4. CASE ends
  <2>1. made = ctx /\ In = current
    BY <1>4 DEF In
  <2> HIDE DEF made
  <2>2. ctx' = [ctx EXCEPT ![current].lastMsg = Come.id]
    BY <1>2, <1>4, <2>1
  <2> QED BY <1>1, <1>4, <2>2 DEF Ends
<1>5. CASE ~first /\ ~ends
  <2>1. ctx' = ctx
    BY <1>2, <1>5
  <2> QED BY <1>1, <1>5, <2>1 DEF Continues
<1> QED BY <1>3, <1>4, <1>5

(* The request the receiver comes to is one of the script. *)
LEMMA ComeFacts ==
  ASSUME PlaceOK, at[1] <= Len(script)
  PROVE  /\ at[1] \in Packets /\ at[2] \in DOMAIN script[at[1]] /\ at[2] \in Nat \ {0}
         /\ Len(script[at[1]]) \in Nat \ {0} /\ at[2] <= Len(script[at[1]])
         /\ Come \in Request /\ Come.id \in Nat \ {0}
<1>1. at[1] \in 1 .. Len(script) /\ at[2] \in Nat \ {0} /\ at[2] \in DOMAIN script[at[1]]
  BY ScriptFacts, SMTT(20) DEF PlaceOK
<1>2. /\ Len(script[at[1]]) \in Nat \ {0} /\ at[2] \in 1 .. Len(script[at[1]])
      /\ script[at[1]][at[2]] \in Request /\ at[1] \in Packets
  BY <1>1, ScriptFacts DEF PlaceOK
<1> QED BY <1>1, <1>2, SMTT(20) DEF Come, Request

(* The receiver moves to a place in the script, and keeps the contexts.     *)
LEMMA ReceiveTyped ==
  ASSUME Typed, Receive
  PROVE  Typed'
<1>1. /\ handed = <<>> /\ at[1] <= Len(script)
      /\ Opens \/ Ends \/ Continues
      /\ current' = IF AtEnd THEN None ELSE In
      /\ handed' = <<[r |-> Come, id |-> Come.id, ctx |-> In]>>
      /\ at' = IF AtEnd THEN <<at[1] + 1, 1>> ELSE <<at[1], at[2] + 1>>
      /\ script' = script /\ timers' = timers
  BY ReceiveEffect
<1>2. /\ at[1] \in Packets /\ at[2] \in DOMAIN script[at[1]] /\ at[2] \in Nat \ {0}
      /\ Len(script[at[1]]) \in Nat \ {0} /\ at[2] <= Len(script[at[1]])
      /\ Come \in Request /\ Come.id \in Nat \ {0}
  BY <1>1, ComeFacts DEF Typed
<1>3. script \in Scripts /\ Len(script) \in Nat /\ Packets = 1 .. Len(script)
  BY ScriptFacts DEF Typed, PlaceOK
<1>4. PlaceOK'
  <2>1. CASE AtEnd
    <3>1. at' = <<at[1] + 1, 1>> /\ at'[1] = at[1] + 1 /\ at'[2] = 1
      BY <2>1, <1>1
    <3>2. at'[1] <= Len(script) => 1 \in DOMAIN script[at'[1]]
      BY <3>1, <1>2, <1>3, ScriptFacts, SMTT(20)
    <3>3. at' \in (1 .. Len(script) + 1) \X (Nat \ {0})
      BY <1>2, <1>3, <3>1, SMTT(20)
    <3> QED BY <1>1, <1>3, <3>1, <3>2, <3>3 DEF PlaceOK
  <2>2. CASE ~AtEnd
    <3>1. at' = <<at[1], at[2] + 1>> /\ at'[1] = at[1] /\ at'[2] = at[2] + 1
      BY <2>2, <1>1
    <3>2. at[2] + 1 \in DOMAIN script[at[1]]
      BY <2>2, <1>2, <1>3, ScriptFacts, SMTT(20) DEF AtEnd
    <3>3. at' \in (1 .. Len(script) + 1) \X (Nat \ {0})
      BY <1>2, <1>3, <3>1, SMTT(20)
    <3> QED BY <1>1, <1>3, <3>1, <3>2, <3>3 DEF PlaceOK
  <2> QED BY <2>1, <2>2
<1>5. ContextsOK
  BY DEF Typed
<1>6. /\ DOMAIN ctx' \subseteq Nat \ {0} /\ ctx' \in [DOMAIN ctx' -> ContextType]
      /\ DOMAIN ctx \subseteq DOMAIN ctx' /\ In \in DOMAIN ctx' \cup {None}
  <2>1. CASE Opens
    <3>1. Context \in ContextType
      BY SMTT(20) DEF Context, ContextType, Status, None
    <3> QED BY <2>1, <3>1, <1>2, <1>5 DEF Opens, Put, ContextsOK, In
  <2>2. CASE Ends
    <3>1. CASE current \in DOMAIN ctx
      <4>1. ctx[current] \in ContextType
        BY <3>1, <1>5 DEF ContextsOK
      <4>2. [ctx[current] EXCEPT !.lastMsg = Come.id] \in ContextType
        BY <4>1, <1>2, SMTT(20) DEF ContextType
      <4> QED BY <2>2, <3>1, <4>2, <1>5 DEF Ends, ContextsOK, In
    <3>2. CASE current \notin DOMAIN ctx
      BY <2>2, <3>2, <1>5 DEF Ends, ContextsOK, In
    <3> QED BY <3>1, <3>2
  <2>3. CASE Continues
    BY <2>3, <1>5 DEF Continues, ContextsOK, In
  <2> QED BY <1>1, <2>1, <2>2, <2>3
<1>7. ContextsOK'
  BY <1>1, <1>6 DEF ContextsOK, None
<1>8. WaitingOK'
  <2>1. In \in Nat
    BY <1>2, <1>5, SMTT(20) DEF In, ContextsOK, None
  <2>2. handed'[1] = [r |-> Come, id |-> Come.id, ctx |-> In] /\ handed' = <<handed'[1]>>
    BY <1>1
  <2>3. handed'[1] \in Offered /\ handed'[1].ctx \in DOMAIN ctx' \cup {None}
    BY <2>1, <2>2, <1>2, <1>6, SMTT(20) DEF Offered
  <2>4. timers' \subseteq Timer /\ \A t \in timers' : t.ctx \in DOMAIN ctx' \cup {None}
    BY <1>1, <1>6 DEF Typed, WaitingOK
  <2> QED BY <2>2, <2>3, <2>4 DEF WaitingOK
<1> QED BY <1>4, <1>7, <1>8 DEF Typed

-----------------------------------------------------------------------------
(* A response through the context c, as sendPacket gives it. *)
Responds(c, id, status) ==
    /\ DOMAIN ctx' = DOMAIN ctx /\ ctx' \in [DOMAIN ctx -> ContextType]
    /\ IF c = None
       THEN ctx' = ctx /\ sent' = Append(sent, <<[id |-> id, status |-> status]>>)
       ELSE /\ ctx'[c].rsp = Append(ctx[c].rsp, [id |-> id, status |-> status])
            /\ ctx'[c].lastMsg = ctx[c].lastMsg /\ ctx'[c].lastStatus = status
            /\ \A d \in DOMAIN ctx \ {c} : ctx'[d] = ctx[d]
            /\ sent' = IF id = ctx[c].lastMsg THEN Append(sent, ctx'[c].rsp) ELSE sent

(* sendPacket appends a response to the context and sends it with the last. *)
LEMMA SendsResponds ==
  ASSUME ContextsOK, NEW c \in DOMAIN ctx \cup {None}, NEW id \in Nat, NEW status \in Status,
         Sends(c, id, status)
  PROVE  Responds(c, id, status) /\ (c # None => ctx'[c].file = ctx[c].file)
<1>1. CASE c = None
  BY <1>1 DEF Sends, Responds, ContextsOK
<1>2. CASE c # None
  <2> DEFINE rsp == Append(ctx[c].rsp, [id |-> id, status |-> status])
             new == [ctx[c] EXCEPT !.rsp = rsp, !.lastStatus = status]
  <2>1. c \in DOMAIN ctx /\ ctx[c] \in ContextType
    BY <1>2 DEF ContextsOK
  <2>2. ctx[c].rsp \in Seq(Response) /\ [id |-> id, status |-> status] \in Response
    BY <2>1 DEF ContextType, Response
  <2>3. rsp \in Seq(Response)
    BY <2>2, SMTT(20)
  <2>4. /\ ctx' = [ctx EXCEPT ![c] = new]
        /\ sent' = IF id = ctx[c].lastMsg THEN Append(sent, rsp) ELSE sent
    BY <1>2 DEF Sends
  <2> HIDE DEF rsp
  <2>5. /\ new \in ContextType /\ new.rsp = rsp /\ new.lastMsg = ctx[c].lastMsg
        /\ new.lastStatus = status /\ new.file = ctx[c].file
    BY <2>1, <2>3 DEF ContextType
  <2> HIDE DEF new
  <2>6. /\ ctx' \in [DOMAIN ctx -> ContextType] /\ DOMAIN ctx' = DOMAIN ctx /\ ctx'[c] = new
        /\ \A d \in DOMAIN ctx \ {c} : ctx'[d] = ctx[d]
    BY <2>1, <2>4, <2>5 DEF ContextsOK
  <2> QED BY <1>2, <2>4, <2>5, <2>6 DEF Responds, rsp
<1> QED BY <1>1, <1>2

(* create does the same and notes its file in the context. *)
LEMMA CreateResponds ==
  ASSUME ContextsOK, NEW m \in Offered, m.ctx \in DOMAIN ctx \cup {None}, Create(m)
  PROVE  /\ Responds(m.ctx, m.id, IF m.r.ok THEN "ok" ELSE "failed")
         /\ (m.ctx # None /\ m.r.ok => ctx'[m.ctx].file = m.id)
<1> DEFINE status == IF m.r.ok THEN "ok" ELSE "failed"
<1>0. status \in Status /\ m.id \in Nat
  BY DEF Status, Offered
<1>1. CASE m.ctx = None
  <2>1. Sends(None, m.id, status)
    BY <1>1 DEF Create
  <2> QED BY <1>0, <1>1, <2>1, SendsResponds
<1>2. CASE m.ctx # None
  <2> DEFINE c == m.ctx
             rsp == Append(ctx[c].rsp, [id |-> m.id, status |-> status])
             file == IF m.r.ok THEN m.id ELSE ctx[c].file
             new == [ctx[c] EXCEPT !.rsp = rsp, !.lastStatus = status, !.file = file]
  <2>1. c \in DOMAIN ctx /\ ctx[c] \in ContextType
    BY <1>2 DEF ContextsOK
  <2>2. /\ ctx[c].rsp \in Seq(Response) /\ [id |-> m.id, status |-> status] \in Response
        /\ file \in Nat
    BY <1>0, <2>1 DEF ContextType, Response
  <2>3. rsp \in Seq(Response)
    BY <2>2, SMTT(20)
  <2>4. /\ ctx' = [ctx EXCEPT ![c] = new]
        /\ sent' = IF m.id = ctx[c].lastMsg THEN Append(sent, rsp) ELSE sent
    BY <1>2 DEF Create
  <2> HIDE DEF rsp, file, status
  <2>5. /\ new \in ContextType /\ new.rsp = rsp /\ new.lastMsg = ctx[c].lastMsg
        /\ new.lastStatus = status /\ new.file = file
    BY <1>0, <2>1, <2>2, <2>3 DEF ContextType
  <2> HIDE DEF new
  <2>6. /\ ctx' \in [DOMAIN ctx -> ContextType] /\ DOMAIN ctx' = DOMAIN ctx /\ ctx'[c] = new
        /\ \A d \in DOMAIN ctx \ {c} : ctx'[d] = ctx[d]
    BY <2>1, <2>4, <2>5 DEF ContextsOK
  <2>7. Responds(c, m.id, status)
    BY <1>2, <2>4, <2>5, <2>6 DEF Responds, rsp
  <2> QED BY <2>5, <2>6, <2>7 DEF file, status
<1> QED BY <1>1, <1>2

(* Every handler leaves the receiver alone and answers at most once: the    *)
(* requests without a tree directly, the others through their context.      *)
Answered1(m) ==
    \/ m.r.op \in {"cancel", "silent"} /\ UNCHANGED <<ctx, sent>>
    \/ m.r.op \in DirectOps /\ \E status \in Status : Responds(None, m.id, status)
    \/ m.r.op \in TreeOps /\ \E status \in Status : Responds(m.ctx, m.id, status)

Noted(m) ==
    \/ timers' = timers
    \/ m.r.op = "notify" /\ timers' = timers \cup {[id |-> m.id, ctx |-> m.ctx, file |-> FileOf(m)]}

(* What every handler does: it takes the request, answers it and may note   *)
(* that it completes later.                                                 *)
LEMMA HandleEffect ==
  ASSUME Typed, NEW m, Handle(m), m = handed[1], handed # <<>>
  PROVE  /\ m \in Offered /\ m.ctx \in DOMAIN ctx \cup {None}
         /\ Takes(m) /\ UNCHANGED <<script, at, current>>
         /\ Answered1(m) /\ Noted(m)
<1>0. m \in Offered /\ m.ctx \in DOMAIN ctx \cup {None} /\ ContextsOK /\ m.id \in Nat
  BY DEF Typed, WaitingOK, Offered
<1>1. {"ok", "failed", "pending"} \subseteq Status
  BY DEF Status
<1>2. ASSUME Cancel(m) \/ Silent(m)
      PROVE  /\ Takes(m) /\ UNCHANGED <<script, at, current>>
             /\ Answered1(m) /\ Noted(m)
  BY <1>2 DEF Cancel, Silent, Answered1, Noted
<1>3. ASSUME Echo(m) \/ TreeConnect(m) \/ TreeDisconnect(m)
      PROVE  /\ Takes(m) /\ UNCHANGED <<script, at, current>>
             /\ Answered1(m) /\ Noted(m)
  <2>1. /\ Takes(m) /\ UNCHANGED <<script, at, current, timers>> /\ m.r.op \in DirectOps
        /\ Sends(None, m.id, "ok") \/ Sends(None, m.id, "failed")
    BY <1>3 DEF Echo, TreeConnect, TreeDisconnect, DirectOps
  <2>2. \E status \in Status : Responds(None, m.id, status)
    BY <2>1, <1>0, <1>1, SendsResponds
  <2> QED BY <2>1, <2>2 DEF Answered1, Noted
<1>4. ASSUME \/ FollowFailure(m) \/ Use(m) \/ CloseFile(m) \/ PipeCreate(m) \/ PipeClose(m)
             \/ PipeIoctl(m) \/ PipeQueryInfo(m) \/ PipeWrite(m) \/ PipeRead(m)
      PROVE  /\ Takes(m) /\ UNCHANGED <<script, at, current>>
             /\ Answered1(m) /\ Noted(m)
  <2>1. Takes(m) /\ UNCHANGED <<script, at, current, timers>> /\ m.r.op \in TreeOps
    BY <1>4 DEF FollowFailure, Use, CloseFile, PipeCreate, PipeClose, PipeIoctl, PipeQueryInfo,
       PipeWrite, PipeRead, PipeAnswers, OnTree, OnFiles, OnPipe
  <2>2. \E status \in Status : Sends(m.ctx, m.id, status)
    <3>1. CASE FollowFailure(m)
      <4>1. m.ctx \in DOMAIN ctx /\ Sends(m.ctx, m.id, ctx[m.ctx].lastStatus)
        BY <3>1, <1>0 DEF FollowFailure, Failed
      <4>2. ctx[m.ctx].lastStatus \in Status
        BY <4>1, <1>0 DEF ContextsOK, ContextType
      <4> QED BY <4>1, <4>2
    <3>2. CASE ~FollowFailure(m)
      <4>1. \/ Sends(m.ctx, m.id, "ok") \/ Sends(m.ctx, m.id, "failed")
        BY <3>2, <1>4 DEF Use, CloseFile, PipeCreate, PipeClose, PipeIoctl, PipeQueryInfo,
           PipeWrite, PipeRead, PipeAnswers, UnansweredStatus
      <4> QED BY <4>1, <1>1, SMTT(20)
    <3> QED BY <3>1, <3>2
  <2>3. \E status \in Status : Responds(m.ctx, m.id, status)
    BY <2>2, <1>0, SendsResponds
  <2> QED BY <2>1, <2>3, SMTT(20) DEF Answered1, Noted
<1>5. ASSUME Create(m)
      PROVE  /\ Takes(m) /\ UNCHANGED <<script, at, current>>
             /\ Answered1(m) /\ Noted(m)
  <2>1. Takes(m) /\ UNCHANGED <<script, at, current, timers>> /\ m.r.op \in TreeOps
    BY <1>5 DEF Create, TreeOps
  <2>2. Responds(m.ctx, m.id, IF m.r.ok THEN "ok" ELSE "failed")
    BY <1>0, <1>5, CreateResponds
  <2>3. \E status \in Status : Responds(m.ctx, m.id, status)
    BY <2>2, <1>1
  <2> QED BY <2>1, <2>3 DEF Answered1, Noted
<1>6. ASSUME ChangeNotify(m)
      PROVE  /\ Takes(m) /\ UNCHANGED <<script, at, current>>
             /\ Answered1(m) /\ Noted(m)
  <2>1. Takes(m) /\ UNCHANGED <<script, at, current>> /\ m.r.op \in TreeOps /\ Noted(m)
    BY <1>6 DEF ChangeNotify, TreeOps, Noted
  <2>2. Sends(m.ctx, m.id, "pending") \/ Sends(m.ctx, m.id, "failed")
    BY <1>6 DEF ChangeNotify
  <2>3. \E status \in Status : Responds(m.ctx, m.id, status)
    BY <2>2, <1>0, <1>1, SendsResponds
  <2> QED BY <2>1, <2>3 DEF Answered1
<1>7. \/ Cancel(m) \/ Silent(m) \/ Echo(m) \/ TreeConnect(m) \/ TreeDisconnect(m)
      \/ FollowFailure(m) \/ Use(m) \/ CloseFile(m) \/ PipeCreate(m) \/ PipeClose(m)
      \/ PipeIoctl(m) \/ PipeQueryInfo(m) \/ PipeWrite(m) \/ PipeRead(m)
      \/ Create(m) \/ ChangeNotify(m)
  BY DEF Handle
<1>8. /\ Takes(m) /\ UNCHANGED <<script, at, current>>
      /\ Answered1(m) /\ Noted(m)
  BY <1>7, <1>2, <1>3, <1>4, <1>5, <1>6
<1> QED BY <1>0, <1>8

(* The completion of a CHANGE_NOTIFY goes through the context of its chain. *)
LEMMA CompleteEffect ==
  ASSUME Typed, NEW t \in timers, NotifyCompletes(t)
  PROVE  /\ t \in Timer /\ t.ctx \in DOMAIN ctx \cup {None} /\ timers' = timers \ {t}
         /\ Responds(t.ctx, t.id, "failed") \/ UNCHANGED <<ctx, sent>>
         /\ UNCHANGED <<script, at, current, handed, tables, handles, handled>>
<1>1. t \in Timer /\ t.ctx \in DOMAIN ctx \cup {None} /\ ContextsOK /\ t.id \in Nat
  BY DEF Typed, WaitingOK, Timer
<1>2. /\ timers' = timers \ {t}
      /\ Sends(t.ctx, t.id, "failed") \/ UNCHANGED <<ctx, sent>>
      /\ UNCHANGED <<script, at, current, handed, tables, handles, handled>>
  BY DEF NotifyCompletes
<1>3. "failed" \in Status
  BY DEF Status
<1>4. Responds(t.ctx, t.id, "failed") \/ UNCHANGED <<ctx, sent>>
  BY <1>1, <1>2, <1>3, SendsResponds
<1> QED BY <1>1, <1>2, <1>4

(* What a step of the server is for the requests of Served. *)
HandlesStep == handed # <<>> /\ Handle(handed[1])
CompletesStep == \E t \in timers : NotifyCompletes(t)
EndsStep ==
    /\ handed # <<>> /\ Takes(handed[1]) /\ RunReturns(Served)
    /\ NoTree(handed[1]) \/ PipeFails(handed[1])
    /\ UNCHANGED <<script, at, ctx, current, tables, handles, timers, sent>>

(* The kinds of steps of the server. *)
LEMMA StepKinds ==
  ASSUME [Next]_vars
  PROVE  \/ LifecycleStep /\ UNCHANGED dispatchVars
         \/ UNCHANGED <<dispatchVars, lifecycleVars>>
         \/ Serves /\ Receive /\ UNCHANGED lifecycleVars
         \/ Serves /\ HandlesStep /\ UNCHANGED lifecycleVars
         \/ Serves /\ CompletesStep /\ UNCHANGED lifecycleVars
         \/ Serves /\ EndsStep
<1>1. CASE UNCHANGED vars \/ Panic
  BY <1>1 DEF vars, Panic
<1>2. CASE Manage
  BY <1>2 DEF Manage
<1>3. CASE DispatchStep
  <2>1. CASE Receive \/ Complete
    BY <1>3, <2>1 DEF DispatchStep, Complete, CompletesStep
  <2>2. ASSUME NEW k \in DOMAIN handed, Handle(handed[k])
        PROVE  HandlesStep
    <3>1. handed = <<handed[k]>>
      BY <2>2 DEF Handle, Cancel, Echo, FollowFailure, Create, Use, CloseFile, Silent, ChangeNotify,
         TreeConnect, TreeDisconnect, PipeCreate, PipeClose, PipeIoctl, PipeQueryInfo, PipeWrite,
         PipeRead, PipeAnswers, Takes
    <3>2. handed # <<>> /\ k = 1
      BY <3>1, SMTT(20)
    <3> QED BY <2>2, <3>2 DEF HandlesStep
  <2> QED BY <1>3, <2>1, <2>2 DEF DispatchStep, Run
<1>4. CASE RequestEnds
  <2>1. PICK k \in DOMAIN handed : NoTree(handed[k]) \/ PipeFails(handed[k])
    BY <1>4 DEF RequestEnds, RunFails
  <2>2. /\ Takes(handed[k])
        /\ UNCHANGED <<script, at, ctx, current, tables, handles, timers, sent>>
    BY <2>1 DEF NoTree, PipeFails
  <2>3. handed = <<handed[k]>>
    BY <2>2 DEF Takes
  <2>4. handed # <<>> /\ handed[1] = handed[k]
    BY <2>3, SMTT(20)
  <2> QED BY <1>4, <2>1, <2>2, <2>4 DEF RequestEnds, EndsStep
<1> QED BY <1>1, <1>2, <1>3, <1>4 DEF Next, Lives

(* Answers keep the contexts. *)
LEMMA RespondsTyped ==
  ASSUME ContextsOK, NEW c, NEW id, NEW status, Responds(c, id, status), current' = current
  PROVE  ContextsOK' /\ DOMAIN ctx' = DOMAIN ctx
  BY DEF Responds, ContextsOK

(* The handlers keep the types. *)
LEMMA HandleTyped ==
  ASSUME Typed, HandlesStep
  PROVE  Typed'
<1>1. PICK m : m = handed[1] /\ handed # <<>> /\ Handle(m)
  BY DEF HandlesStep
<1>2. /\ m \in Offered /\ m.ctx \in DOMAIN ctx \cup {None}
      /\ Takes(m) /\ UNCHANGED <<script, at, current>>
      /\ Answered1(m) /\ Noted(m)
  BY <1>1, HandleEffect
<1>3. ContextsOK' /\ DOMAIN ctx' = DOMAIN ctx
  <2>1. CASE UNCHANGED <<ctx, sent>>
    BY <2>1, <1>2 DEF Typed, ContextsOK
  <2>2. CASE ~UNCHANGED <<ctx, sent>>
    BY <2>2, <1>2, RespondsTyped DEF Answered1, Typed
  <2> QED BY <2>1, <2>2
<1>4. PlaceOK'
  BY <1>2 DEF Typed, PlaceOK
<1>5. [id |-> m.id, ctx |-> m.ctx, file |-> FileOf(m)] \in Timer
  <2>1. m.r \in Request /\ m.id \in Nat \ {0} /\ m.ctx \in Nat
    BY <1>2 DEF Offered
  <2>2. m.ctx \in DOMAIN ctx => ctx[m.ctx].file \in Nat
    BY DEF Typed, ContextsOK, ContextType
  <2>3. FileOf(m) \in Nat
    BY <1>2, <2>1, <2>2 DEF FileOf, Request
  <2> QED BY <2>1, <2>3 DEF Timer
<1>6. WaitingOK'
  <2>1. timers' \subseteq Timer /\ \A t \in timers' : t.ctx \in DOMAIN ctx \cup {None}
    BY <1>2, <1>5, SMTT(20) DEF Typed, WaitingOK, Noted
  <2> QED BY <2>1, <1>2, <1>3 DEF Takes, WaitingOK
<1> QED BY <1>3, <1>4, <1>6 DEF Typed

(* The completion of a CHANGE_NOTIFY keeps the types. *)
LEMMA CompleteTyped ==
  ASSUME Typed, CompletesStep
  PROVE  Typed'
<1>1. PICK t \in timers : NotifyCompletes(t)
  BY DEF CompletesStep
<1>2. /\ timers' = timers \ {t}
      /\ Responds(t.ctx, t.id, "failed") \/ UNCHANGED <<ctx, sent>>
      /\ UNCHANGED <<script, at, current, handed>>
  BY <1>1, CompleteEffect, SMTT(20)
<1>3. ContextsOK' /\ DOMAIN ctx' = DOMAIN ctx
  <2>1. CASE UNCHANGED <<ctx, sent>>
    BY <2>1, <1>2 DEF Typed, ContextsOK
  <2>2. CASE Responds(t.ctx, t.id, "failed")
    BY <2>2, <1>2, RespondsTyped DEF Typed
  <2> QED BY <1>2, <2>1, <2>2
<1>4. PlaceOK' /\ WaitingOK'
  BY <1>2, <1>3 DEF Typed, PlaceOK, WaitingOK
<1> QED BY <1>3, <1>4 DEF Typed

(* Every step keeps the types. *)
LEMMA TypedNext ==
  ASSUME Typed, [Next]_vars
  PROVE  Typed'
<1>1. CASE UNCHANGED dispatchVars
  BY <1>1 DEF dispatchVars, Typed, PlaceOK, ContextsOK, WaitingOK
<1>2. CASE EndsStep
  BY <1>2 DEF EndsStep, Takes, Typed, PlaceOK, ContextsOK, WaitingOK
<1> QED BY <1>1, <1>2, StepKinds, ReceiveTyped, HandleTyped, CompleteTyped, SMTT(20)

(* The initial state is typed. *)
LEMMA TypedInit ==
  ASSUME Init
  PROVE  Typed
<1>1. script \in Scripts /\ at = <<1, 1>>
  BY DEF Init, DispatchInit
<1>2. PlaceOK
  <2>1. Len(script) \in Nat /\ (1 <= Len(script) => 1 \in DOMAIN script[1])
    BY <1>1, ScriptFacts, SMTT(20)
  <2>2. at \in (1 .. Len(script) + 1) \X (Nat \ {0}) /\ at[1] = 1 /\ at[2] = 1
    BY <1>1, <2>1, SMTT(20)
  <2> QED BY <1>1, <2>1, <2>2 DEF PlaceOK
<1>3. DOMAIN ctx = {} /\ current = None /\ handed = <<>> /\ timers = {}
  BY SMTT(20) DEF Init, DispatchInit
<1>4. ContextsOK /\ WaitingOK
  BY <1>3, SMTT(20) DEF Init, DispatchInit, ContextsOK, WaitingOK
<1> QED BY <1>2, <1>4 DEF Typed

(* The types and the shape of the tables of the server (TypeOK), for any    *)
(* number of connections and whatever a client sends.                       *)
THEOREM ServerTyped == Spec => []TypeOK
<1>1. Init => ShutdownInv /\ Typed /\ alive \in BOOLEAN
  BY InitShutdownInv, TypedInit DEF Init
<1>2. ShutdownInv /\ Typed /\ alive \in BOOLEAN /\ [Next]_vars => (ShutdownInv /\ Typed /\ alive \in BOOLEAN)'
  BY ShutdownInvNext, TypedNext DEF Next, Lives, Panic, vars
<1>3. ShutdownInv /\ Typed /\ alive \in BOOLEAN => TypeOK
  <2> SUFFICES ASSUME ShutdownInv, Typed, alive \in BOOLEAN PROVE TypeOK
    OBVIOUS
  <2>1. /\ LifecycleTypeOK
        /\ activeConns = {c \in Conn : conns[c] \in {"running", "returned"}}
        /\ {c \in Conn : conns[c] = "accepted"} = {arriving} \ {NoConn}
    BY LifecycleAssumption, SMTT(20) DEF ShutdownInv, Registered, LifecycleTypeOK
  <2>2. at \in (1 .. Len(script) + 1) \X Nat /\ current \in DOMAIN ctx \cup {None}
    BY DEF Typed, PlaceOK, ContextsOK
  <2>3. \A c \in DOMAIN ctx :
          ctx[c].lastStatus \in Status /\ ctx[c].file \in Nat /\ ctx[c].lastMsg \in Nat
    BY DEF Typed, ContextsOK, ContextType
  <2>4. \A k \in DOMAIN handed : handed[k].r \in Request /\ handed[k].ctx \in DOMAIN ctx \cup {None}
    <3> SUFFICES ASSUME NEW k \in DOMAIN handed
                 PROVE  handed[k].r \in Request /\ handed[k].ctx \in DOMAIN ctx \cup {None}
      OBVIOUS
    <3>1. handed # <<>>
      BY SMTT(20)
    <3>2. handed = <<handed[1]>>
      BY <3>1 DEF Typed, WaitingOK
    <3>3. k = 1
      BY <3>2, SMTT(20)
    <3> QED BY <3>1, <3>3 DEF Typed, WaitingOK, Offered
  <2>5. \A t \in timers : t.ctx \in DOMAIN ctx \cup {None}
    BY DEF Typed, WaitingOK
  <2> QED BY <2>1, <2>2, <2>3, <2>4, <2>5, SMTT(20) DEF TypeOK
<1> QED BY <1>1, <1>2, <1>3, PTL DEF Spec

-----------------------------------------------------------------------------
(* Where the receiver panics. *)

(* The receiver has a context exactly when it has passed an unrelated       *)
(* request of the packet it is in.                                          *)
Led == at[1] \in Packets =>
    (current = None <=> \A j \in 1 .. at[2] - 1 : script[at[1]][j].related)

NonePassed == \A i \in 1 .. at[1] - 1 : ~Unled(i)

(* The receiver goes on in a packet, or leaves one that is led. *)
LEMMA ReceiveLed ==
  ASSUME Typed, Led, NonePassed, Receive
  PROVE  Led' /\ NonePassed'
<1>1. /\ handed = <<>> /\ at[1] <= Len(script) /\ script' = script
      /\ current' = IF AtEnd THEN None ELSE In
      /\ at' = IF AtEnd THEN <<at[1] + 1, 1>> ELSE <<at[1], at[2] + 1>>
  BY ReceiveEffect
<1>2. PICK p \in Nat, q \in Nat \ {0}, len \in Nat \ {0} :
        /\ p = at[1] /\ q = at[2] /\ len = Len(script[p]) /\ q <= len /\ p \in Packets
        /\ Come = script[p][q] /\ Come.id # None
  BY <1>1, ComeFacts, ScriptFacts, SMTT(20) DEF Typed, PlaceOK, Come, None
<1>3. AtEnd <=> q = len
  BY <1>2 DEF AtEnd
<1>4. Packets' = Packets /\ \A i : Unled(i)' <=> Unled(i)
  BY <1>1 DEF Packets, Unled
<1>5. CASE q # len
  <2>1. at'[1] = p /\ at'[2] = q + 1 /\ current' = IF ~Come.related THEN Come.id ELSE current
    BY <1>1, <1>2, <1>3, <1>5 DEF In
  <2>2. (q + 1) - 1 = q /\ \A j : j \in 1 .. q <=> j \in 1 .. q - 1 \/ j = q
    BY SMTT(20)
  <2>3. current = None <=> \A j \in 1 .. q - 1 : script[p][j].related
    BY <1>2 DEF Led
  <2>4. current' = None <=> \A j \in 1 .. q : script[p][j].related
    BY <1>2, <2>1, <2>2, <2>3
  <2>5. Led'
    BY <1>1, <1>4, <2>1, <2>2, <2>4 DEF Led
  <2> QED BY <1>2, <1>4, <2>1, <2>5 DEF NonePassed
<1>6. CASE q = len
  <2>1. at'[1] = p + 1 /\ at'[2] = 1 /\ current' = None
    BY <1>1, <1>2, <1>3, <1>6
  <2>2. Led'
    <3>1. 1 .. 1 - 1 = {}
      BY SMTT(20)
    <3> QED BY <2>1, <3>1 DEF Led
  <2>3. ~(Come.related /\ current = None)
    BY <1>1, <1>2, <1>6 DEF Receive, Receives, ReceiverPanics, IsCompoundLast, Come
  <2>4. ~Unled(p)
    <3>1. q \in 1 .. len /\ 1 .. q - 1 \subseteq 1 .. len
      BY <1>2, SMTT(20)
    <3> QED BY <1>2, <2>3, <3>1 DEF Led, Unled
  <2>5. \A i \in 1 .. (p + 1) - 1 : i \in 1 .. p - 1 \/ i = p
    BY SMTT(20)
  <2> QED BY <1>2, <1>4, <2>1, <2>2, <2>4, <2>5 DEF NonePassed
<1> QED BY <1>5, <1>6

(* The receiver panics at the end of a packet of related requests. *)
LEMMA PanicUnled ==
  ASSUME Typed, Led, ReceiverPanics
  PROVE  at[1] \in Packets /\ Unled(at[1])
<1>1. at[1] <= Len(script) /\ Come.related /\ AtEnd /\ current = None
  BY DEF ReceiverPanics, Receives, IsCompoundLast, Come, AtEnd
<1>2. PICK p \in Nat, q \in Nat \ {0} :
        p = at[1] /\ q = at[2] /\ q = Len(script[p]) /\ p \in Packets /\ script[p][q].related
  BY <1>1, ComeFacts, ScriptFacts, SMTT(20) DEF Typed, PlaceOK, Come, AtEnd
<1>3. \A j \in 1 .. q : j \in 1 .. q - 1 \/ j = q
  BY SMTT(20)
<1>4. \A j \in 1 .. q - 1 : script[p][j].related
  BY <1>1, <1>2 DEF Led
<1> QED BY <1>2, <1>3, <1>4 DEF Unled

(* runReciever (conn.go:325): the process lives until the receiver comes to *)
(* a packet whose requests are all related, and it never gets past such a   *)
(* packet, whatever a client sends.                                         *)
THEOREM PanicsAtUnled == Spec => [](alive \/ PanickedUnled) /\ []NonePassed
<1> DEFINE Inv == Typed /\ Led /\ NonePassed /\ (alive \/ PanickedUnled)
<1>1. Init => Inv
  <2> SUFFICES ASSUME Init PROVE Inv
    OBVIOUS
  <2>1. at[1] = 1 /\ at[2] = 1 /\ current = None /\ alive
    BY SMTT(20) DEF Init, DispatchInit
  <2>2. 1 .. 1 - 1 = {}
    BY SMTT(20)
  <2> QED BY <2>1, <2>2, TypedInit DEF Led, NonePassed
<1>2. Inv /\ [Next]_vars => Inv'
  <2> SUFFICES ASSUME Inv, [Next]_vars PROVE Inv'
    OBVIOUS
  <2>1. Typed'
    BY TypedNext
  <2>2. ASSUME UNCHANGED <<script, at, current>> PROVE Led' /\ NonePassed'
    BY <2>2 DEF Led, NonePassed, Packets, Unled
  <2>3. Led' /\ NonePassed'
    <3>1. CASE UNCHANGED dispatchVars
      BY <2>2, <3>1 DEF dispatchVars
    <3>2. CASE HandlesStep
      BY <2>2, <3>2, HandleEffect DEF HandlesStep
    <3>3. CASE CompletesStep \/ EndsStep
      BY <2>2, <3>3, CompleteEffect DEF CompletesStep, EndsStep
    <3> QED BY <3>1, <3>2, <3>3, ReceiveLed, StepKinds
  <2>4. (alive \/ PanickedUnled)'
    <3>1. CASE Panic
      <4>1. at[1] \in Packets /\ Unled(at[1]) /\ ~alive' /\ UNCHANGED <<script, at>>
        BY <3>1, PanicUnled DEF Panic, dispatchVars
      <4> QED BY <4>1 DEF PanickedUnled, Packets, Unled
    <3>2. CASE UNCHANGED vars
      BY <3>2 DEF vars, dispatchVars, PanickedUnled, Packets, Unled
    <3>3. CASE alive /\ alive' = alive
      BY <3>3
    <3> QED BY <3>1, <3>2, <3>3 DEF Next, Lives
  <2> QED BY <2>1, <2>3, <2>4
<1> QED BY <1>1, <1>2, PTL DEF Spec

-----------------------------------------------------------------------------
(* The requests are handled one after the other, in the order of their ids. *)

(* The receiver has passed the j-th request of the i-th packet. *)
Before(i, j) == i < at[1] \/ (i = at[1] /\ j < at[2])

Taken == IF handed = <<>> THEN handled ELSE handed[1].id

(* What the receiver has passed was handled or waits for the dispatcher,    *)
(* and nothing lies between the last request that was handled and the one   *)
(* that waits.                                                              *)
InOrder ==
    /\ handled \in Nat
    /\ \A i \in Packets : \A j \in DOMAIN script[i] : Before(i, j) <=> script[i][j].id <= Taken
    /\ handed # <<>> =>
        /\ handed[1].r \in Requests /\ handed[1].id = handed[1].r.id /\ handled < handed[1].id
        /\ \A r \in Requests : r.id <= handed[1].id => r.id <= handled \/ r = handed[1].r

(* The ids are in the order of the places, so that an id has one place. *)
LEMMA IdsInOrder ==
  ASSUME script \in Scripts, NEW i \in Packets, NEW k \in Packets,
         NEW j \in DOMAIN script[i], NEW l \in DOMAIN script[k]
  PROVE  /\ script[i][j].id \in Nat \ {0} /\ script[k][l].id \in Nat \ {0}
         /\ script[i][j].id <= script[k][l].id <=> i < k \/ (i = k /\ j <= l)
         /\ script[i][j].id = script[k][l].id => i = k /\ j = l
<1>1. /\ i \in Nat /\ k \in Nat /\ j \in Nat /\ l \in Nat
      /\ script[i][j] \in Request /\ script[k][l] \in Request
      /\ i \in DOMAIN script /\ k \in DOMAIN script
  BY ScriptFacts, SMTT(20)
<1>2. PICK x \in Nat \ {0}, y \in Nat \ {0} : x = script[i][j].id /\ y = script[k][l].id
  BY <1>1 DEF Request
<1>3. /\ i < k \/ (i = k /\ j < l) => x < y
      /\ k < i \/ (k = i /\ l < j) => y < x
  BY <1>1, <1>2, ScriptFacts DEF Numbered
<1>4. i = k /\ j = l => x = y
  BY <1>2
<1>5. (x <= y <=> i < k \/ (i = k /\ j <= l)) /\ (x = y => i = k /\ j = l)
  BY <1>1, <1>3, <1>4, SMTT(20)
<1> QED BY <1>2, <1>5

(* Requests by their places. *)
LEMMA RequestPlace ==
  ASSUME script \in Scripts, NEW r \in Requests
  PROVE  /\ r \in Request /\ r.id \in Nat \ {0}
         /\ \E i \in Packets : \E j \in DOMAIN script[i] : r = script[i][j]
<1>1. PICK i \in Packets : r \in {script[i][j] : j \in DOMAIN script[i]}
  BY DEF Requests
<1>2. PICK j \in DOMAIN script[i] : r = script[i][j]
  BY <1>1
<1> QED BY <1>2, ScriptFacts DEF Request

(* What is in a packet is a request. *)
LEMMA PlaceRequest ==
  ASSUME NEW i \in Packets, NEW j \in DOMAIN script[i]
  PROVE  script[i][j] \in Requests
  BY SMTT(20) DEF Requests

(* An id names one request. *)
LEMMA OneRequest ==
  ASSUME script \in Scripts, NEW q \in Requests, NEW r \in Requests, q.id = r.id
  PROVE  q = r
<1>1. PICK i \in Packets : \E j \in DOMAIN script[i] : q = script[i][j]
  BY RequestPlace
<1>2. PICK j \in DOMAIN script[i] : q = script[i][j]
  BY <1>1
<1>3. PICK k \in Packets : \E l \in DOMAIN script[k] : r = script[k][l]
  BY RequestPlace
<1>4. PICK l \in DOMAIN script[k] : r = script[k][l]
  BY <1>3
<1>5. i = k /\ j = l
  BY <1>2, <1>4, IdsInOrder, SMTT(20)
<1> QED BY <1>2, <1>4, <1>5

(* RequestOf finds the request of an id. *)
LEMMA RequestOfFacts ==
  ASSUME script \in Scripts, NEW r \in Requests
  PROVE  RequestOf(r.id) = r
<1>1. RequestOf(r.id) \in Requests /\ RequestOf(r.id).id = r.id
  BY SMTT(20) DEF RequestOf
<1> QED BY <1>1, OneRequest

(* The receiver passes one request more. *)
LEMMA ReceiveInOrder ==
  ASSUME Typed, InOrder, Receive
  PROVE  InOrder'
<1>0. script \in Scripts
  BY DEF Typed, PlaceOK
<1>1. /\ handed = <<>> /\ at[1] <= Len(script)
      /\ handed' = <<[r |-> Come, id |-> Come.id, ctx |-> In]>>
      /\ at' = IF AtEnd THEN <<at[1] + 1, 1>> ELSE <<at[1], at[2] + 1>>
      /\ script' = script /\ handled' = handled
  BY ReceiveEffect
<1>2. /\ at[1] \in Packets /\ at[2] \in DOMAIN script[at[1]] /\ at[2] \in Nat \ {0}
      /\ Len(script[at[1]]) \in Nat \ {0} /\ at[2] <= Len(script[at[1]])
      /\ Come \in Request /\ Come.id \in Nat \ {0}
  BY <1>1, ComeFacts DEF Typed
<1>3. handed'[1].r = Come /\ handed'[1].id = Come.id /\ handed' # <<>>
  BY <1>1
<1>4. PICK p, q : p \in Packets /\ q \in DOMAIN script[p] /\ p = at[1] /\ q = at[2]
  BY <1>2
<1>5. Come = script[p][q] /\ Taken = handled /\ Taken' = Come.id /\ Come \in Requests
  BY <1>1, <1>3, <1>4, PlaceRequest, SMTT(20) DEF Come, Taken
<1>6. ASSUME NEW i \in Packets, NEW j \in DOMAIN script[i]
      PROVE  /\ Before(i, j)' <=> script[i][j].id <= Come.id
             /\ script[i][j].id <= Come.id => script[i][j].id <= handled \/ script[i][j] = Come
  <2>1. /\ i \in Nat /\ j \in Nat /\ p \in Nat /\ q \in Nat /\ j >= 1
        /\ i = p => j <= Len(script[p])
    BY <1>0, <1>4, ScriptFacts, SMTT(20)
  <2>2. script[i][j].id <= Come.id <=> i < p \/ (i = p /\ j <= q)
    BY <1>0, <1>4, <1>5, IdsInOrder, SMTT(20)
  <2>3. Before(i, j)' <=> i < p \/ (i = p /\ j <= q)
    <3>1. CASE AtEnd
      <4>1. at'[1] = p + 1 /\ at'[2] = 1 /\ q = Len(script[p])
        BY <3>1, <1>1, <1>4 DEF AtEnd
      <4> QED BY <2>1, <4>1, SMTT(20) DEF Before
    <3>2. CASE ~AtEnd
      <4>1. at'[1] = p /\ at'[2] = q + 1
        BY <3>2, <1>1, <1>4
      <4> QED BY <2>1, <4>1, SMTT(20) DEF Before
    <3> QED BY <3>1, <3>2
  <2>4. Before(i, j) <=> i < p \/ (i = p /\ j < q)
    BY <1>4 DEF Before
  <2>5. Before(i, j) <=> script[i][j].id <= handled
    BY <1>5 DEF InOrder
  <2>6. i < p \/ (i = p /\ j <= q) => Before(i, j) \/ (i = p /\ j = q)
    BY <2>1, <2>4, SMTT(20)
  <2> QED BY <2>2, <2>3, <2>5, <2>6, <1>5
<1>7. handled < Come.id
  <2>1. ~Before(p, q)
    BY <1>0, <1>4, ScriptFacts, SMTT(20) DEF Before
  <2>2. ~(Come.id <= handled)
    BY <2>1, <1>4, <1>5 DEF InOrder
  <2> QED BY <2>2, <1>2, SMTT(20) DEF InOrder
<1>8. \A r \in Requests : r.id <= Come.id => r.id <= handled \/ r = Come
  <2> SUFFICES ASSUME NEW r \in Requests, r.id <= Come.id PROVE r.id <= handled \/ r = Come
    OBVIOUS
  <2>1. PICK i \in Packets : \E j \in DOMAIN script[i] : r = script[i][j]
    BY <1>0, RequestPlace
  <2> QED BY <2>1, <1>6
<1>9. Packets' = Packets /\ Requests' = Requests
  BY <1>1, SMTT(20) DEF Packets, Requests
<1> QED BY <1>1, <1>3, <1>5, <1>6, <1>7, <1>8, <1>9, SMTT(20) DEF InOrder

(* The dispatcher takes what waits. *)
LEMMA TakesInOrder ==
  ASSUME Typed, InOrder, handed # <<>>, Takes(handed[1]), UNCHANGED <<script, at>>
  PROVE  InOrder'
<1>1. handed' = <<>> /\ handled' = handed[1].id /\ handed[1].id \in Nat
  BY DEF Takes, Typed, WaitingOK, Offered
<1>2. Taken' = Taken
  BY <1>1 DEF Taken
<1> QED BY <1>1, <1>2 DEF InOrder, Before, Packets

(* Every step keeps the order. *)
LEMMA InOrderNext ==
  ASSUME Typed, InOrder, [Next]_vars
  PROVE  InOrder'
<1>1. ASSUME UNCHANGED <<script, at, handed, handled>> PROVE InOrder'
  BY <1>1, SMTT(20) DEF InOrder, Before, Taken, Packets, Requests
<1>2. CASE UNCHANGED dispatchVars \/ CompletesStep
  <2>1. UNCHANGED <<script, at, handed, handled>>
    BY <1>2, CompleteEffect, SMTT(20) DEF dispatchVars, CompletesStep
  <2> QED BY <1>1, <2>1
<1>3. CASE HandlesStep \/ EndsStep
  <2>1. handed # <<>> /\ Takes(handed[1]) /\ UNCHANGED <<script, at>>
    BY <1>3, HandleEffect DEF HandlesStep, EndsStep
  <2> QED BY <2>1, TakesInOrder
<1> QED BY <1>2, <1>3, StepKinds, ReceiveInOrder

(* At first nothing was handled. *)
LEMMA InOrderInit ==
  ASSUME Init
  PROVE  InOrder
<1>1. script \in Scripts /\ at[1] = 1 /\ at[2] = 1 /\ handed = <<>> /\ handled = 0
  BY DEF Init, DispatchInit
<1>2. ASSUME NEW i \in Packets, NEW j \in DOMAIN script[i]
      PROVE  ~Before(i, j) /\ ~(script[i][j].id <= 0)
  <2>1. script[i][j] \in Request /\ i \in Nat \ {0} /\ j \in Nat \ {0}
    BY <1>1, ScriptFacts, SMTT(20)
  <2>2. script[i][j].id \in Nat \ {0}
    BY <2>1 DEF Request
  <2> QED BY <1>1, <2>1, <2>2, SMTT(20) DEF Before
<1> QED BY <1>1, <1>2 DEF InOrder, Taken

(* What counts as handled grows by the request that is taken. *)
LEMMA HandledGrows ==
  ASSUME Typed, InOrder, handed # <<>>, Takes(handed[1]), script' = script, NEW op, NEW t
  PROVE  /\ Handled(op, t)' = Handled(op, t) \cup
                {n \in {handed[1].id} : handed[1].r.op = op /\ handed[1].r.tree = t}
         /\ handled' = handed[1].id /\ handled < handled' /\ handled \in Nat /\ handled' \in Nat
         /\ Handled(op, t) \subseteq 1 .. handled
<1>1. PICK m : m = handed[1] /\ m.r \in Requests /\ m.id = m.r.id /\ handled < m.id /\ m.id \in Nat
  BY DEF InOrder, Typed, WaitingOK, Offered
<1>2. handled' = m.id /\ handled \in Nat /\ Requests' = Requests
  BY <1>1, SMTT(20) DEF Takes, InOrder, Requests, Packets
<1>3. \A r \in Requests : r.id <= m.id => r.id <= handled \/ r = m.r
  BY <1>1 DEF InOrder
<1>4. Handled(op, t) \subseteq 1 .. handled
  BY DEF Handled
<1>5. Handled(op, t) \subseteq Handled(op, t)'
  BY <1>1, <1>2, SMTT(20) DEF Handled
<1>6. m.r.op = op /\ m.r.tree = t => m.id \in Handled(op, t)'
  BY <1>1, <1>2, SMTT(20) DEF Handled
<1>7. ASSUME NEW n \in Handled(op, t)'
      PROVE  n \in Handled(op, t) \/ (n = m.id /\ m.r.op = op /\ m.r.tree = t)
  <2>1. PICK r \in Requests : n \in 1 .. m.id /\ r.id = n /\ r.op = op /\ r.tree = t
    BY <1>7, <1>2 DEF Handled
  <2>2. CASE r.id <= handled
    BY <2>1, <2>2, <1>1, <1>2, SMTT(20) DEF Handled
  <2>3. CASE r = m.r
    BY <2>1, <2>3, <1>1
  <2> QED BY <2>1, <2>2, <2>3, <1>1, <1>3, SMTT(20)
<1> QED BY <1>1, <1>2, <1>4, <1>5, <1>6, <1>7, SMTT(20)

(* Run has returned: no request is handled any more. *)
Ended == conns[Served] \in {"returned", "ended"}

(* A connection that has ended does not run again. *)
LEMMA EndedStays ==
  ASSUME ShutdownInv, [Next]_vars, Ended
  PROVE  Ended'
<1>0. Served \in Conn /\ conns \in [Conn -> {"new", "accepted", "refused", "running", "returned", "ended"}]
  BY ServedAssumption DEF ShutdownInv, LifecycleTypeOK
<1>1. CASE UNCHANGED conns
  BY <1>1 DEF Ended
<1>2. ASSUME NEW c \in Conn, NEW s, conns' = [conns EXCEPT ![c] = s], conns[c] \notin {"returned", "ended"}
      PROVE  Ended'
  BY <1>0, <1>2 DEF Ended
<1>3. CASE Register
  <2>1. conns[arriving] = "accepted" /\ arriving \in Conn
    BY <1>3 DEF Register, ShutdownInv, Registered
  <2>2. conns' = [conns EXCEPT ![arriving] = "refused"] \/ conns' = [conns EXCEPT ![arriving] = "running"]
    BY <1>3 DEF Register
  <2> QED BY <1>2, <2>1, <2>2
<1>4. ASSUME NEW c \in Conn, Accept(c) \/ RunReturns(c) PROVE Ended'
  BY <1>2, <1>4 DEF Accept, RunReturns
<1>5. ASSUME NEW c \in Conn, RemoveConn(c) PROVE Ended'
  BY <1>0, <1>5 DEF RemoveConn, Ended
<1>6. CASE LifecycleStep
  <2>1. CASE SetListener \/ Activate \/ CheckActive \/ AcceptFails \/ ShutdownStore \/ ShutdownStep
    BY <1>1, <2>1 DEF SetListener, Activate, CheckActive, AcceptFails, ShutdownStore, ShutdownStep,
       ShutdownClose, ShutdownCancel
  <2>2. ASSUME NEW c \in Conn, SessionActive(c) \/ SessionReset(c) PROVE Ended'
    BY <1>1, <2>2 DEF SessionActive, SessionReset
  <2>3. ASSUME NEW c \in Conn, CancelledReturns(c) \/ ClientLeaves(c) PROVE Ended'
    BY <1>4, <2>3 DEF CancelledReturns, ClientLeaves
  <2> QED BY <1>3, <1>4, <1>5, <1>6, <2>1, <2>2, <2>3, SMTT(20) DEF LifecycleStep, ServeStep, Arrive
<1>7. CASE UNCHANGED lifecycleVars
  BY <1>1, <1>7 DEF lifecycleVars
<1>8. CASE EndsStep
  BY <1>4, <1>8, ServedAssumption DEF EndsStep
<1> QED BY <1>6, <1>7, <1>8, StepKinds

(* The request that ends the connection is the last that is handled. *)
LEMMA EndsEnded ==
  ASSUME ShutdownInv, EndsStep
  PROVE  Ended'
<1>1. conns \in [Conn -> {"new", "accepted", "refused", "running", "returned", "ended"}] /\ Served \in Conn
  BY ServedAssumption DEF ShutdownInv, LifecycleTypeOK
<1>2. conns' = [conns EXCEPT ![Served] = "returned"]
  BY DEF EndsStep, RunReturns
<1>3. conns'[Served] = "returned"
  BY <1>1, <1>2
<1> QED BY <1>3 DEF Ended

-----------------------------------------------------------------------------
(* The tables of trees. *)

Waiting == [id : Nat, kind : {"known", "malformed", "unknown"}]
Tree == [path : Share, refCount : Nat \ {0}, dceReq : Seq(Waiting)]

(* The maps have their types, and ids are given out in order. *)
TablesOK ==
    /\ nextTree \in Nat \ {0}
    /\ DOMAIN byId \subseteq 1 .. nextTree - 1 /\ byId \in [DOMAIN byId -> Tree]
    /\ byName \in [DOMAIN byName -> DOMAIN byId]
    /\ DOMAIN granted \subseteq 1 .. handled /\ granted \in [DOMAIN granted -> 1 .. nextTree - 1]

NamesAgree ==
    /\ \A s \in DOMAIN byName : byName[s] \in DOMAIN byId /\ byId[byName[s]].path = s
    /\ \A i \in DOMAIN byId : byId[i].path \in DOMAIN byName /\ byName[byId[i].path] = i

TablesInv == TablesOK /\ NamesAgree

(* What a step can do to the trees: nothing that changes which there are or *)
(* their counts, connect a tree once more, connect a new one, disconnect.   *)
SameTrees ==
    /\ DOMAIN byId' = DOMAIN byId /\ byId' \in [DOMAIN byId -> Tree]
    /\ \A i \in DOMAIN byId : byId'[i].path = byId[i].path /\ byId'[i].refCount = byId[i].refCount
    /\ UNCHANGED <<byName, granted, nextTree>>

ConnectsAgain(id, t) ==
    /\ t \in DOMAIN byId
    /\ byId' = [byId EXCEPT ![t].refCount = @ + 1] /\ granted' = Put(granted, id, t)
    /\ UNCHANGED <<byName, nextTree>>

ConnectsNew(id, s) ==
    /\ s \in Share \ DOMAIN byName
    /\ byId' = Put(byId, nextTree, [path |-> s, refCount |-> 1, dceReq |-> <<>>])
    /\ byName' = Put(byName, s, nextTree)
    /\ granted' = Put(granted, id, nextTree) /\ nextTree' = nextTree + 1

Disconnected(t) ==
    /\ UNCHANGED <<granted, nextTree>>
    /\ IF t \notin DOMAIN byId THEN UNCHANGED <<byId, byName>>
       ELSE IF byId[t].refCount = 1
       THEN byId' = Without(byId, t) /\ byName' = Without(byName, byId[t].path)
       ELSE byId' = [byId EXCEPT ![t].refCount = @ - 1] /\ UNCHANGED byName

(* The request id is taken; it disconnects the trees of the set T. *)
TakesDisconnects(id, T) ==
    /\ id \in Nat /\ handled < id /\ handled' = id
    /\ \A i : /\ Handled("disconnect", i) \subseteq 1 .. handled
              /\ Handled("disconnect", i)' = Handled("disconnect", i) \cup {n \in {id} : i \in T}

KeepsTrees ==
    /\ SameTrees /\ handled' \in Nat /\ handled <= handled'
    /\ \A i : Handled("disconnect", i)' = Handled("disconnect", i)

TreesChange ==
    \/ KeepsTrees
    \/ \E id, t : TakesDisconnects(id, {}) /\ ConnectsAgain(id, t)
    \/ \E id, s : TakesDisconnects(id, {}) /\ ConnectsNew(id, s)
    \/ \E id, t : TakesDisconnects(id, {t}) /\ Disconnected(t)

(* The tables change in the handlers of trees and in the pipe. *)
LEMMA HandleTables ==
  ASSUME NEW m, Handle(m)
  PROVE  \/ TreeConnect(m) \/ TreeDisconnect(m) \/ PipeWrite(m) \/ PipeRead(m)
         \/ UNCHANGED tables /\ m.r.op \notin {"connect", "disconnect"}
<1>1. CASE Cancel(m) \/ Silent(m) \/ Echo(m) \/ Create(m) \/ ChangeNotify(m) \/ Use(m) \/ CloseFile(m)
  BY <1>1 DEF Cancel, Silent, Echo, Create, ChangeNotify, Use, CloseFile
<1>2. CASE PipeCreate(m) \/ PipeClose(m) \/ PipeIoctl(m) \/ PipeQueryInfo(m)
  BY <1>2, SMTT(20) DEF PipeCreate, PipeClose, PipeIoctl, PipeQueryInfo, PipeAnswers
<1>3. CASE FollowFailure(m)
  BY <1>3, SMTT(20) DEF FollowFailure, OnTree, TreeOps, PipeOps
<1> QED BY <1>1, <1>2, <1>3 DEF Handle

(* The pipe of a tree changes nothing else of it. *)
LEMMA PipeKeepsTrees ==
  ASSUME TablesOK, NEW t \in DOMAIN byId, NEW q \in Seq(Waiting),
         byId' = [byId EXCEPT ![t].dceReq = q], UNCHANGED <<byName, granted, nextTree>>
  PROVE  SameTrees /\ byId'[t].dceReq = q /\ \A i \in DOMAIN byId \ {t} : byId'[i] = byId[i]
<1> DEFINE new == [byId[t] EXCEPT !.dceReq = q]
<1>1. byId \in [DOMAIN byId -> Tree] /\ byId[t] \in Tree
  BY DEF TablesOK
<1>2. /\ new \in Tree /\ new.refCount = byId[t].refCount /\ new.path = byId[t].path
      /\ new.dceReq = q /\ byId' = [byId EXCEPT ![t] = new]
  BY <1>1 DEF Tree
<1> HIDE DEF new
<1>3. /\ DOMAIN byId' = DOMAIN byId /\ byId' \in [DOMAIN byId -> Tree] /\ byId'[t] = new
      /\ \A i \in DOMAIN byId \ {t} : byId'[i] = byId[i]
  BY <1>1, <1>2
<1> QED BY <1>2, <1>3, SMTT(20) DEF SameTrees

(* What the pipe's handlers do to the tree of the request. *)
LEMMA PipeEffect ==
  ASSUME Typed, TablesOK, NEW m \in Offered, PipeWrite(m) \/ PipeRead(m)
  PROVE  SameTrees
<1>1. UNCHANGED <<byName, granted, nextTree>> /\ m.r.tree \in DOMAIN byId
  BY DEF PipeWrite, PipeRead, OnPipe, OnTree
<1>2. CASE byId' = byId
  BY <1>1, <1>2 DEF SameTrees, TablesOK
<1>3. CASE byId' # byId
  <2>1. PICK kind \in DceKinds(m.r) :
          \/ byId' = [byId EXCEPT ![m.r.tree].dceReq = <<[id |-> m.id, kind |-> kind]>>]
          \/ byId' = [byId EXCEPT ![m.r.tree].dceReq = <<>>]
    BY <1>3 DEF PipeWrite, PipeRead, DceKinds
  <2>2. <<[id |-> m.id, kind |-> kind]>> \in Seq(Waiting) /\ <<>> \in Seq(Waiting)
    <3>1. [id |-> m.id, kind |-> kind] \in Waiting
      BY DEF Waiting, Offered, DceKinds
    <3> QED BY <3>1, SMTT(20)
  <2> QED BY <1>1, <2>1, <2>2, PipeKeepsTrees
<1> QED BY <1>2, <1>3

(* Every step does one of these things to the trees. *)
LEMMA TreeSteps ==
  ASSUME Typed, InOrder, TablesOK, [Next]_vars
  PROVE  TreesChange
<1>0. handled \in Nat
  BY DEF InOrder
<1>1. ASSUME UNCHANGED tables PROVE SameTrees
  BY <1>1 DEF SameTrees, TablesOK, tables
<1>2. CASE UNCHANGED dispatchVars \/ Receive \/ CompletesStep
  <2>1. UNCHANGED tables /\ UNCHANGED <<script, handled>>
    BY <1>2, ReceiveEffect, CompleteEffect, SMTT(20) DEF dispatchVars, tables, CompletesStep
  <2>2. \A i : Handled("disconnect", i)' = Handled("disconnect", i)
    BY <2>1, SMTT(20) DEF Handled, Requests, Packets
  <2>3. handled' \in Nat /\ handled <= handled'
    BY <1>0, <2>1, SMTT(20)
  <2> QED BY <1>1, <2>1, <2>2, <2>3 DEF TreesChange, KeepsTrees
<1>3. CASE HandlesStep \/ EndsStep
  <2>1. PICK m : m = handed[1]
    OBVIOUS
  <2>2. handed # <<>> /\ Takes(m) /\ script' = script /\ m \in Offered
    BY <1>3, <2>1, HandleEffect, SMTT(20) DEF HandlesStep, EndsStep, Typed, WaitingOK
  <2>3. /\ \A i : Handled("disconnect", i)' = Handled("disconnect", i) \cup
                    {n \in {m.id} : m.r.op = "disconnect" /\ m.r.tree = i}
        /\ \A i : Handled("disconnect", i) \subseteq 1 .. handled
        /\ handled' = m.id /\ handled < m.id /\ m.id \in Nat
    BY <2>1, <2>2, HandledGrows, SMTT(20)
  <2>4. m.r.op # "disconnect" => TakesDisconnects(m.id, {})
    BY <2>3 DEF TakesDisconnects
  <2>5. ASSUME SameTrees, m.r.op # "disconnect" PROVE TreesChange
    <3>1. handled' \in Nat /\ handled <= handled'
      BY <1>0, <2>3, SMTT(20)
    <3>2. \A i : Handled("disconnect", i)' = Handled("disconnect", i)
      BY <2>3, <2>5
    <3> QED BY <2>5, <3>1, <3>2 DEF TreesChange, KeepsTrees
  <2>6. CASE EndsStep
    <3>1. UNCHANGED tables /\ m.r.op # "disconnect"
      BY <2>1, <2>6, SMTT(20) DEF EndsStep, NoTree, PipeFails, OnPipe, OnTree, TreeOps, PipeOps
    <3> QED BY <2>5, <3>1, <1>1
  <2>7. CASE UNCHANGED tables /\ m.r.op # "disconnect"
    BY <2>5, <2>7, <1>1
  <2>8. CASE PipeWrite(m) \/ PipeRead(m)
    <3>1. m.r.op # "disconnect"
      BY <2>8 DEF PipeWrite, PipeRead
    <3> QED BY <2>2, <2>5, <2>8, <3>1, PipeEffect
  <2>9. CASE TreeConnect(m)
    <3>1. m.r.op # "disconnect" /\ m.r.share \in Share
      BY <2>9, <2>2 DEF TreeConnect, Offered, Request
    <3>2. CASE UNCHANGED tables
      BY <2>7, <3>1, <3>2
    <3>3. CASE m.r.share \in DOMAIN byName /\ ~UNCHANGED tables
      <4>1. PICK t : t = byName[m.r.share]
        OBVIOUS
      <4>2. t \in DOMAIN byId
        BY <3>3, <4>1 DEF TablesOK
      <4>3. ConnectsAgain(m.id, t)
        BY <2>9, <3>3, <4>1, <4>2 DEF TreeConnect, ConnectsAgain
      <4> QED BY <2>4, <3>1, <4>3 DEF TreesChange
    <3>4. CASE m.r.share \notin DOMAIN byName /\ ~UNCHANGED tables
      <4>1. ConnectsNew(m.id, m.r.share)
        BY <2>9, <3>1, <3>4 DEF TreeConnect, ConnectsNew
      <4> QED BY <2>4, <3>1, <4>1 DEF TreesChange
    <3> QED BY <3>2, <3>3, <3>4
  <2>10. CASE TreeDisconnect(m)
    <3>1. m.r.op = "disconnect" /\ Disconnected(m.r.tree)
      BY <2>10 DEF TreeDisconnect, Disconnected
    <3>2. TakesDisconnects(m.id, {m.r.tree})
      BY <2>3, <3>1 DEF TakesDisconnects
    <3> QED BY <3>1, <3>2 DEF TreesChange
  <2> QED BY <1>3, <2>1, <2>6, <2>7, <2>8, <2>9, <2>10, HandleTables DEF HandlesStep
<1> QED BY <1>2, <1>3, StepKinds

(* A tree that is connected once more. *)
LEMMA AgainTables ==
  ASSUME TablesInv, NEW id \in Nat, handled \in Nat, handled < id, handled' = id, NEW t, ConnectsAgain(id, t)
  PROVE  /\ TablesInv' /\ DOMAIN byId' = DOMAIN byId
         /\ byId'[t].refCount = byId[t].refCount + 1
         /\ \A i \in DOMAIN byId \ {t} : byId'[i] = byId[i]
<1>0. TablesOK /\ NamesAgree /\ t \in DOMAIN byId /\ granted' = Put(granted, id, t)
  BY DEF TablesInv, ConnectsAgain
<1>1. byId[t] \in Tree /\ byId[t].refCount \in Nat
  BY <1>0, SMTT(20) DEF TablesOK, Tree
<1>2. /\ DOMAIN byId' = DOMAIN byId /\ byId' \in [DOMAIN byId -> Tree]
      /\ byId'[t].refCount = byId[t].refCount + 1
      /\ \A i \in DOMAIN byId : byId'[i].path = byId[i].path
      /\ \A i \in DOMAIN byId \ {t} : byId'[i] = byId[i]
  <2> DEFINE new == [byId[t] EXCEPT !.refCount = @ + 1]
  <2>1. /\ new \in Tree /\ new.refCount = byId[t].refCount + 1 /\ new.path = byId[t].path
        /\ byId' = [byId EXCEPT ![t] = new]
    BY <1>1, SMTT(20) DEF Tree, ConnectsAgain
  <2> HIDE DEF new
  <2> QED BY <2>1, <1>0, SMTT(20) DEF TablesOK
<1>3. DOMAIN granted' \subseteq 1 .. handled' /\ granted' \in [DOMAIN granted' -> 1 .. nextTree - 1]
  BY <1>0, SMTT(20) DEF TablesOK, Put
<1>4. UNCHANGED <<byName, nextTree>>
  BY DEF ConnectsAgain
<1>5. TablesOK'
  BY <1>0, <1>2, <1>3, <1>4, SMTT(20) DEF TablesOK
<1>6. NamesAgree'
  BY <1>0, <1>2, <1>4, SMTT(20) DEF NamesAgree, TablesOK
<1> QED BY <1>2, <1>5, <1>6 DEF TablesInv

(* A share that has no tree gets one. *)
LEMMA NewTables ==
  ASSUME TablesInv, NEW id \in Nat, handled \in Nat, handled < id, handled' = id, NEW s, ConnectsNew(id, s)
  PROVE  /\ TablesInv' /\ DOMAIN byId' = DOMAIN byId \cup {nextTree}
         /\ byId'[nextTree].refCount = 1 /\ \A i \in DOMAIN byId : byId'[i] = byId[i]
<1>0. TablesOK /\ NamesAgree /\ nextTree \in Nat \ {0} /\ nextTree \notin DOMAIN byId
  BY SMTT(20) DEF TablesInv, TablesOK
<1>1. PICK new : new = [path |-> s, refCount |-> 1, dceReq |-> <<>>]
  OBVIOUS
<1>2. new \in Tree /\ new.path = s /\ new.refCount = 1
  BY <1>1, SMTT(20) DEF Tree, ConnectsNew
<1>3. /\ byId' = Put(byId, nextTree, new) /\ byName' = Put(byName, s, nextTree) /\ s \notin DOMAIN byName
      /\ granted' = Put(granted, id, nextTree) /\ nextTree' = nextTree + 1
  BY <1>1 DEF ConnectsNew
<1>4. /\ DOMAIN byId' = DOMAIN byId \cup {nextTree} /\ byId' \in [DOMAIN byId' -> Tree]
      /\ byId'[nextTree] = new /\ \A i \in DOMAIN byId : byId'[i] = byId[i]
  BY <1>0, <1>2, <1>3, SMTT(20) DEF TablesOK, Put
<1>5. TablesOK'
  <2>1. nextTree' \in Nat \ {0} /\ DOMAIN byId' \subseteq 1 .. nextTree' - 1
    BY <1>0, <1>3, <1>4, SMTT(20) DEF TablesOK
  <2>2. byName' \in [DOMAIN byName' -> DOMAIN byId']
    BY <1>0, <1>3, <1>4, SMTT(20) DEF TablesOK, Put
  <2>3. DOMAIN granted' \subseteq 1 .. handled' /\ granted' \in [DOMAIN granted' -> 1 .. nextTree' - 1]
    BY <1>0, <1>3, SMTT(20) DEF TablesOK, Put
  <2> QED BY <1>4, <2>1, <2>2, <2>3 DEF TablesOK
<1>6. NamesAgree'
  BY <1>0, <1>2, <1>3, <1>4, SMTT(20) DEF NamesAgree, Put, TablesOK
<1> QED BY <1>2, <1>4, <1>5, <1>6 DEF TablesInv

(* treeDisconnect: the last reference takes the tree out of both maps. *)
LEMMA DisconnectTables ==
  ASSUME TablesInv, NEW id \in Nat, handled \in Nat, handled < id, handled' = id, NEW t, Disconnected(t)
  PROVE  /\ TablesInv'
         /\ \A i \in DOMAIN byId \ {t} : i \in DOMAIN byId' /\ byId'[i] = byId[i]
         /\ DOMAIN byId' \subseteq DOMAIN byId
         /\ t \in DOMAIN byId => /\ byId[t].refCount \in Nat \ {0}
                                 /\ t \in DOMAIN byId' <=> byId[t].refCount # 1
                                 /\ t \in DOMAIN byId' => byId'[t].refCount = byId[t].refCount - 1
<1>0. TablesOK /\ NamesAgree /\ UNCHANGED <<granted, nextTree>>
  BY DEF TablesInv, Disconnected
<1>1. DOMAIN granted' \subseteq 1 .. handled' /\ granted' \in [DOMAIN granted' -> 1 .. nextTree' - 1]
  BY <1>0, SMTT(20) DEF TablesOK
<1>2. CASE t \notin DOMAIN byId
  <2>1. UNCHANGED <<byId, byName>>
    BY <1>2 DEF Disconnected
  <2>2. TablesOK' /\ NamesAgree'
    BY <1>0, <1>1, <2>1, SMTT(20) DEF TablesOK, NamesAgree
  <2> QED BY <2>1, <2>2, <1>2 DEF TablesInv
<1>3. t \in DOMAIN byId => byId[t] \in Tree /\ byId[t].refCount \in Nat \ {0}
  BY <1>0, SMTT(20) DEF TablesOK, Tree
<1>4. CASE t \in DOMAIN byId /\ byId[t].refCount = 1
  <2>1. byId' = Without(byId, t) /\ byName' = Without(byName, byId[t].path)
    BY <1>4 DEF Disconnected
  <2>2. DOMAIN byId' = DOMAIN byId \ {t} /\ \A i \in DOMAIN byId' : byId'[i] = byId[i]
    BY <2>1, SMTT(20) DEF Without
  <2>3. /\ DOMAIN byName' = DOMAIN byName \ {byId[t].path}
        /\ \A s \in DOMAIN byName' : byName'[s] = byName[s] /\ byName[s] # t
    BY <2>1, <1>0, <1>4, SMTT(20) DEF Without, NamesAgree
  <2>4. TablesOK'
    <3>1. byId' \in [DOMAIN byId' -> Tree]
      BY <1>0, <2>1, SMTT(20) DEF TablesOK, Without
    <3>2. \A s \in DOMAIN byName' : byName'[s] \in DOMAIN byId'
      BY <1>0, <2>2, <2>3 DEF TablesOK
    <3>3. byName' = [s \in DOMAIN byName' |-> byName'[s]]
      BY <2>1, SMTT(20) DEF Without
    <3>4. byName' \in [DOMAIN byName' -> DOMAIN byId']
      BY <3>2, <3>3, SMTT(20)
    <3> QED BY <1>0, <1>1, <2>2, <3>1, <3>4 DEF TablesOK
  <2>5. \A s \in DOMAIN byName' : byName'[s] \in DOMAIN byId' /\ byId'[byName'[s]].path = s
    <3> SUFFICES ASSUME NEW s \in DOMAIN byName'
                 PROVE  byName'[s] \in DOMAIN byId' /\ byId'[byName'[s]].path = s
      OBVIOUS
    <3>1. s \in DOMAIN byName /\ byName'[s] = byName[s] /\ byName[s] # t
      BY <2>3
    <3>2. byName[s] \in DOMAIN byId /\ byId[byName[s]].path = s
      BY <1>0, <3>1 DEF NamesAgree
    <3> QED BY <2>2, <3>1, <3>2
  <2>6. \A i \in DOMAIN byId' : byId'[i].path \in DOMAIN byName' /\ byName'[byId'[i].path] = i
    <3> SUFFICES ASSUME NEW i \in DOMAIN byId'
                 PROVE  byId'[i].path \in DOMAIN byName' /\ byName'[byId'[i].path] = i
      OBVIOUS
    <3>1. i \in DOMAIN byId /\ i # t /\ byId'[i] = byId[i]
      BY <2>2
    <3>2. byId[i].path \in DOMAIN byName /\ byName[byId[i].path] = i /\ byName[byId[t].path] = t
      BY <1>0, <1>4, <3>1 DEF NamesAgree
    <3>3. byId[i].path # byId[t].path
      BY <3>1, <3>2
    <3> QED BY <2>3, <3>1, <3>2, <3>3
  <2> QED BY <1>3, <1>4, <2>2, <2>4, <2>5, <2>6 DEF TablesInv, NamesAgree
<1>5. CASE t \in DOMAIN byId /\ byId[t].refCount # 1
  <2>1. byId' = [byId EXCEPT ![t].refCount = @ - 1] /\ byName' = byName
    BY <1>5 DEF Disconnected
  <2> DEFINE new == [byId[t] EXCEPT !.refCount = @ - 1]
  <2>2. /\ new \in Tree /\ new.refCount = byId[t].refCount - 1 /\ new.path = byId[t].path
        /\ byId' = [byId EXCEPT ![t] = new]
    <3>1. PICK x : x = byId[t]
      OBVIOUS
    <3>2. x \in Tree /\ x.refCount \in Nat \ {0} /\ x.refCount # 1
      BY <1>3, <1>5, <3>1
    <3>3. PICK y : y = [x EXCEPT !.refCount = @ - 1]
      OBVIOUS
    <3>4. y \in Tree /\ y.refCount = x.refCount - 1 /\ y.path = x.path
      BY ONLY <3>2, <3>3, SMTT(20) DEF Tree
    <3> QED BY <2>1, <3>1, <3>3, <3>4
  <2> HIDE DEF new
  <2>3. /\ DOMAIN byId' = DOMAIN byId /\ byId' \in [DOMAIN byId -> Tree] /\ byId'[t] = new
        /\ \A i \in DOMAIN byId \ {t} : byId'[i] = byId[i]
    BY <2>2, <1>0, <1>5, SMTT(20) DEF TablesOK
  <2>4. TablesOK' /\ NamesAgree'
    BY <1>0, <1>1, <2>1, <2>2, <2>3, SMTT(20) DEF TablesOK, NamesAgree
  <2> QED BY <1>3, <1>5, <2>2, <2>3, <2>4 DEF TablesInv
<1> QED BY <1>2, <1>4, <1>5

(* Every step keeps the tables. *)
LEMMA TablesNext ==
  ASSUME Typed, InOrder, TablesInv, [Next]_vars
  PROVE  TablesInv'
<1>0. TablesOK /\ NamesAgree /\ handled \in Nat
  BY DEF TablesInv, InOrder
<1>1. CASE KeepsTrees
  <2>1. SameTrees /\ handled' \in Nat /\ handled <= handled'
    BY <1>1 DEF KeepsTrees
  <2>2. TablesOK'
    BY <1>0, <2>1, SMTT(20) DEF TablesOK, SameTrees
  <2>3. NamesAgree'
    BY <1>0, <2>1, SMTT(20) DEF NamesAgree, SameTrees, TablesOK
  <2> QED BY <2>2, <2>3 DEF TablesInv
<1>2. ASSUME NEW id, NEW t, TakesDisconnects(id, {}), ConnectsAgain(id, t) \/ ConnectsNew(id, t)
      PROVE  TablesInv'
  BY <1>0, <1>2, AgainTables, NewTables DEF TakesDisconnects
<1>3. ASSUME NEW id, NEW t, TakesDisconnects(id, {t}), Disconnected(t)
      PROVE  TablesInv'
  BY <1>0, <1>3, DisconnectTables DEF TakesDisconnects
<1> QED BY <1>0, <1>1, <1>2, <1>3, TreeSteps DEF TreesChange

(* There are no trees at first. *)
LEMMA TablesInit ==
  ASSUME Init
  PROVE  TablesInv
<1>1. DOMAIN byId = {} /\ DOMAIN byName = {} /\ DOMAIN granted = {} /\ nextTree = 1 /\ handled = 0
  BY SMTT(20) DEF Init, DispatchInit
<1> QED BY <1>1, SMTT(20) DEF Init, DispatchInit, TablesInv, TablesOK, NamesAgree

-----------------------------------------------------------------------------
(* Chains and their contexts. *)
(* The client begins every chain with an unrelated request and relates      *)
(* those after it, but perhaps the last.                                    *)
ChainsRelated ==
    \A s \in Scripts : \A i \in DOMAIN s : Len(s[i]) > 1 =>
        ~s[i][1].related /\ \A j \in 2 .. Len(s[i]) - 1 : s[i][j].related

FirstOf(i) == script[i][1]
ContextOf(i) == IF IsChain(i) THEN FirstOf(i).id ELSE None
IdsOf(i, ops) == {n \in Ids(i) : \E r \in Requests : r.id = n /\ r.op \in ops}

(* A request is offered with the context of its packet, and a CHANGE_NOTIFY *)
(* is completed through it, once.                                           *)
InContext ==
    /\ at[1] \in Packets => current = IF at[2] = 1 THEN None ELSE ContextOf(at[1])
    /\ handed # <<>> => \A i \in Packets : handed[1].id \in Ids(i) => handed[1].ctx = ContextOf(i)
    /\ \A t \in timers :
        /\ t.id <= handled /\ \E r \in Requests : r.id = t.id /\ r.op = "notify"
        /\ \A i \in Packets : t.id \in Ids(i) => t.ctx = ContextOf(i)
        /\ \A u \in timers : t.id = u.id => t = u

(* The context of a chain knows the last request once it was received, and  *)
(* has the responses of the requests of trees that were handled.            *)
Collects(i, c) ==
    /\ c.lastMsg = IF LastOf(i).related /\ LastOf(i).id <= Taken THEN LastOf(i).id ELSE None
    /\ \A a \in DOMAIN c.rsp : c.rsp[a].id \in IdsOf(i, TreeOps)
    /\ ~Ended => \A n \in IdsOf(i, TreeOps \ {"silent"}) : n <= handled => \E a \in DOMAIN c.rsp : c.rsp[a].id = n

Collected ==
    \A i \in Packets : IsChain(i) /\ FirstOf(i).id <= Taken =>
        FirstOf(i).id \in DOMAIN ctx /\ Collects(i, ctx[FirstOf(i).id])

(* The first and the last request of a packet. *)
LEMMA PacketEnds ==
  ASSUME script \in Scripts, NEW i \in Packets
  PROVE  /\ 1 \in DOMAIN script[i] /\ Len(script[i]) \in DOMAIN script[i] /\ Len(script[i]) \in Nat \ {0}
         /\ FirstOf(i) \in Requests /\ LastOf(i) \in Requests
         /\ FirstOf(i).id \in Ids(i) /\ LastOf(i).id \in Ids(i)
         /\ FirstOf(i).id \in Nat \ {0} /\ LastOf(i).id \in Nat \ {0}
         /\ \A n \in Ids(i) : n \in Nat \ {0} /\ FirstOf(i).id <= n /\ n <= LastOf(i).id
         /\ IsChain(i) => FirstOf(i).id < LastOf(i).id
<1>1. PICK len \in Nat \ {0} : len = Len(script[i])
  BY ScriptFacts
<1>2. DOMAIN script[i] = 1 .. len
  BY <1>1, ScriptFacts
<1>3. 1 \in DOMAIN script[i] /\ len \in DOMAIN script[i]
  BY <1>1, <1>2, SMTT(20)
<1>4. /\ FirstOf(i) \in Requests /\ LastOf(i) \in Requests
      /\ FirstOf(i).id \in Ids(i) /\ LastOf(i).id \in Ids(i)
  BY <1>1, <1>3, PlaceRequest DEF FirstOf, LastOf, Ids
<1>5. ASSUME NEW n \in Ids(i)
      PROVE  n \in Nat \ {0} /\ FirstOf(i).id <= n /\ n <= LastOf(i).id
  <2>1. PICK j \in DOMAIN script[i] : n = script[i][j].id
    BY DEF Ids
  <2>2. 1 <= j /\ j <= len
    BY <1>2, <2>1, SMTT(20)
  <2>3. n \in Nat \ {0} /\ script[i][1].id <= n /\ n <= script[i][len].id
    BY <1>3, <2>1, <2>2, IdsInOrder
  <2> QED BY <1>1, <2>3 DEF FirstOf, LastOf
<1>6. IsChain(i) => FirstOf(i).id # LastOf(i).id
  <2>1. ASSUME IsChain(i), script[i][1].id = script[i][len].id PROVE FALSE
    <3>1. 1 = len
      BY <1>3, <2>1, IdsInOrder, SMTT(20)
    <3> QED BY <1>1, <2>1, <3>1, SMTT(20) DEF IsChain
  <2> QED BY <1>1, <2>1 DEF FirstOf, LastOf
<1> QED BY <1>1, <1>3, <1>4, <1>5, <1>6, SMTT(20)

(* A request is in one packet. *)
LEMMA OnePacket ==
  ASSUME script \in Scripts, NEW i \in Packets, NEW k \in Packets, NEW n, n \in Ids(i), n \in Ids(k)
  PROVE  i = k
<1>1. PICK j \in DOMAIN script[i] : n = script[i][j].id
  BY DEF Ids
<1>2. PICK l \in DOMAIN script[k] : n = script[k][l].id
  BY DEF Ids
<1>3. PICK c \in Packets, d \in Packets : c = i /\ d = k
  OBVIOUS
<1>4. script[c][j].id = script[d][l].id /\ j \in DOMAIN script[c] /\ l \in DOMAIN script[d]
  BY <1>1, <1>2, <1>3
<1>5. c = d
  BY <1>4, IdsInOrder, SMTT(20)
<1> QED BY <1>3, <1>5

(* Every request is in a packet, and what is in a packet is a request. *)
LEMMA PacketOf ==
  ASSUME script \in Scripts
  PROVE  /\ \A r \in Requests : \E i \in Packets : r.id \in Ids(i)
         /\ \A i \in Packets : \A n \in Ids(i) : \E r \in Requests : r.id = n
<1>1. ASSUME NEW r \in Requests PROVE \E i \in Packets : r.id \in Ids(i)
  <2>1. PICK i \in Packets : \E j \in DOMAIN script[i] : r = script[i][j]
    BY RequestPlace
  <2> QED BY <2>1 DEF Ids
<1>2. ASSUME NEW i \in Packets, NEW n \in Ids(i) PROVE \E r \in Requests : r.id = n
  <2>1. PICK j \in DOMAIN script[i] : n = script[i][j].id
    BY DEF Ids
  <2> QED BY <2>1, PlaceRequest
<1> QED BY <1>1, <1>2

(* What depends on the script alone. *)
LEMMA ScriptStays ==
  ASSUME script' = script
  PROVE  /\ Packets' = Packets /\ Requests' = Requests
         /\ \A i : /\ Ids(i)' = Ids(i) /\ FirstOf(i)' = FirstOf(i) /\ LastOf(i)' = LastOf(i)
                   /\ IsChain(i)' <=> IsChain(i)
                   /\ ContextOf(i)' = ContextOf(i)
                   /\ \A ops : IdsOf(i, ops)' = IdsOf(i, ops)
  BY SMTT(20) DEF Packets, Requests, Ids, FirstOf, LastOf, IsChain, ContextOf, IdsOf

(* The receiver opens the context of a chain with its first request and     *)
(* offers every request in that of its packet.                              *)
LEMMA ReceiveContext ==
  ASSUME ChainsRelated, Typed, InContext, Receive
  PROVE  /\ In = ContextOf(at[1])
         /\ (~Come.related /\ ~AtEnd) => IsChain(at[1]) /\ Come = FirstOf(at[1])
         /\ at[2] = 1 /\ IsChain(at[1]) => ~Come.related /\ ~AtEnd
         /\ AtEnd => Come = LastOf(at[1])
         /\ ~AtEnd => IsChain(at[1])
<1>0. script \in Scripts /\ at[1] \in Packets /\ at[2] \in Nat \ {0}
  BY ReceiveEffect, ComeFacts DEF Typed, PlaceOK
<1>1. PICK p, q, len : /\ p = at[1] /\ q = at[2] /\ len = Len(script[p]) /\ p \in Packets
                       /\ q \in Nat \ {0} /\ len \in Nat \ {0} /\ q <= len
  BY <1>0, ReceiveEffect, ComeFacts DEF Typed
<1>2. Come = script[p][q] /\ (AtEnd <=> q = len) /\ (IsChain(p) <=> len > 1)
  BY <1>1 DEF Come, AtEnd, IsChain
<1>3. len > 1 => ~script[p][1].related /\ \A j \in 2 .. len - 1 : script[p][j].related
  BY <1>0, <1>1, ScriptFacts DEF ChainsRelated
<1>4. current = IF q = 1 THEN None ELSE ContextOf(p)
  BY <1>1 DEF InContext
<1>5. CASE q = 1
  <2>1. CASE len > 1
    <3>1. ~Come.related /\ ~AtEnd /\ IsChain(p) /\ Come = FirstOf(p)
      <4>1. q # len
        BY ONLY <1>5, <2>1, SMTT(20)
      <4> QED BY <1>2, <1>3, <1>5, <2>1, <4>1 DEF FirstOf
    <3>2. In = ContextOf(p)
      BY <3>1 DEF In, ContextOf
    <3> QED BY <1>1, <3>1, <3>2
  <2>2. CASE len = 1
    <3>1. AtEnd /\ ~IsChain(p) /\ Come = LastOf(p) /\ current = None
      <4>1. q = len /\ ~(len > 1)
        BY ONLY <1>5, <2>2, SMTT(20)
      <4> QED BY <1>1, <1>2, <1>4, <1>5, <4>1 DEF LastOf
    <3>2. In = ContextOf(p)
      BY <3>1 DEF In, ContextOf
    <3> QED BY <1>1, <3>1, <3>2
  <2>3. len > 1 \/ len = 1
    <3>1. len \in Nat \ {0}
      BY <1>1
    <3> QED BY ONLY <3>1, SMTT(20)
  <2> QED BY <2>1, <2>2, <2>3
<1>6. CASE q # 1 /\ q # len
  <2>1. Come.related /\ len > 1
    <3>1. q \in Nat \ {0} /\ len \in Nat \ {0} /\ q <= len
      BY <1>1
    <3>2. len > 1 /\ q \in 2 .. len - 1
      BY ONLY <1>6, <3>1, SMTT(20)
    <3> QED BY <1>2, <1>3, <3>2
  <2> QED BY <1>1, <1>2, <1>4, <1>6, <2>1 DEF In
<1>7. CASE q # 1 /\ q = len
  BY <1>1, <1>2, <1>4, <1>7 DEF In, LastOf
<1> QED BY <1>5, <1>6, <1>7

(* The contexts of what is offered, step by step. *)
LEMMA ReceiveInContext ==
  ASSUME ChainsRelated, Typed, InContext, Receive
  PROVE  InContext'
<1>0. script \in Scripts
  BY DEF Typed, PlaceOK
<1>1. /\ at[1] <= Len(script) /\ script' = script /\ timers' = timers /\ handled' = handled
      /\ current' = IF AtEnd THEN None ELSE In
      /\ handed' = <<[r |-> Come, id |-> Come.id, ctx |-> In]>>
      /\ at' = IF AtEnd THEN <<at[1] + 1, 1>> ELSE <<at[1], at[2] + 1>>
  BY ReceiveEffect
<1>2. at[1] \in Packets /\ at[2] \in DOMAIN script[at[1]] /\ at[2] \in Nat \ {0}
  BY <1>1, ComeFacts DEF Typed
<1>3. In = ContextOf(at[1])
  BY ReceiveContext
<1>4. /\ Packets' = Packets /\ Requests' = Requests
      /\ \A i : Ids(i)' = Ids(i) /\ ContextOf(i)' = ContextOf(i)
  BY <1>1, ScriptStays
<1>5. PICK p, q : p = at[1] /\ q = at[2] /\ q \in Nat \ {0} /\ p \in Packets /\ q \in DOMAIN script[p]
  BY <1>2
<1>6. at'[1] \in Packets => current' = IF at'[2] = 1 THEN None ELSE ContextOf(at[1])'
  <2>1. CASE AtEnd
    BY <1>1, <2>1
  <2>2. CASE ~AtEnd
    <3>1. at'[1] = p /\ at'[2] = q + 1 /\ current' = ContextOf(p)
      BY <1>1, <1>3, <1>5, <2>2
    <3>2. ContextOf(at[1])' = ContextOf(p)
      BY <1>4, <3>1
    <3> QED BY <1>5, <3>1, <3>2, SMTT(20)
  <2> QED BY <2>1, <2>2
<1>7. handed'[1].id = Come.id /\ handed'[1].ctx = ContextOf(p) /\ Come.id \in Ids(p)
  BY <1>1, <1>3, <1>5 DEF Come, Ids
<1>8. ASSUME NEW i \in Packets, handed'[1].id \in Ids(i) PROVE handed'[1].ctx = ContextOf(i)
  <2>1. i = p
    BY <1>0, <1>5, <1>7, <1>8, OnePacket
  <2> QED BY <1>7, <2>1
<1>9. \A t \in timers' :
        /\ t.id <= handled' /\ \E r \in Requests' : r.id = t.id /\ r.op = "notify"
        /\ \A i \in Packets' : t.id \in Ids(i)' => t.ctx = ContextOf(i)'
        /\ \A u \in timers' : t.id = u.id => t = u
  BY <1>1, <1>4, SMTT(20) DEF InContext
<1> QED BY <1>4, <1>6, <1>8, <1>9 DEF InContext

(* A step that leaves the requests alone and adds no completion keeps them  *)
(* in their contexts.                                                       *)
LEMMA InContextSame ==
  ASSUME InContext, script' = script, at' = at, current' = current, handed' = handed, handled' = handled,
         timers' \subseteq timers
  PROVE  InContext'
<1>1. (at[1] \in Packets => current = IF at[2] = 1 THEN None ELSE ContextOf(at[1]))'
  <2>1. at[1] \in Packets => current = IF at[2] = 1 THEN None ELSE ContextOf(at[1])
    BY DEF InContext
  <2> QED BY <2>1, ScriptStays
<1>2. (handed # <<>> => \A i \in Packets : handed[1].id \in Ids(i) => handed[1].ctx = ContextOf(i))'
  <2>1. Packets' = Packets /\ handed' = handed /\ \A i : Ids(i)' = Ids(i) /\ ContextOf(i)' = ContextOf(i)
    BY ScriptStays
  <2>2. handed # <<>> => \A i \in Packets : handed[1].id \in Ids(i) => handed[1].ctx = ContextOf(i)
    BY DEF InContext
  <2> QED BY ONLY <2>1, <2>2, SMTT(20)
<1>3. ASSUME NEW t \in timers'
      PROVE  /\ t.id <= handled' /\ \E r \in Requests' : r.id = t.id /\ r.op = "notify"
             /\ \A i \in Packets' : t.id \in Ids(i)' => t.ctx = ContextOf(i)'
             /\ \A u \in timers' : t.id = u.id => t = u
  <2>1. /\ t.id <= handled /\ \E r \in Requests : r.id = t.id /\ r.op = "notify"
        /\ \A i \in Packets : t.id \in Ids(i) => t.ctx = ContextOf(i)
        /\ \A u \in timers : t.id = u.id => t = u
    BY <1>3 DEF InContext
  <2> QED BY <2>1, ScriptStays
<1> QED BY <1>1, <1>2, <1>3 DEF InContext

(* Every step keeps the requests in their contexts. *)
LEMMA InContextNext ==
  ASSUME ChainsRelated, Typed, InOrder, InContext, [Next]_vars
  PROVE  InContext'
<1>1. CASE UNCHANGED dispatchVars
  BY <1>1, InContextSame DEF dispatchVars
<1>2. CASE CompletesStep
  <2>1. timers' \subseteq timers /\ UNCHANGED <<script, at, current, handed, handled>>
    BY <1>2, CompleteEffect DEF CompletesStep
  <2> QED BY <2>1, InContextSame
<1>3. CASE EndsStep \/ HandlesStep
  <2>1. PICK m : m = handed[1] /\ handed # <<>>
    BY <1>3 DEF EndsStep, HandlesStep
  <2>2. Takes(m) /\ Noted(m) /\ UNCHANGED <<script, at, current>>
    BY <1>3, <2>1, HandleEffect DEF EndsStep, HandlesStep, Noted
  <2>3. /\ m.r \in Requests /\ m.id = m.r.id /\ handled < m.id /\ m.id \in Nat /\ handled \in Nat
        /\ handed' = <<>> /\ handled' = m.id
    BY <2>1, <2>2 DEF InOrder, Typed, WaitingOK, Offered, Takes
  <2>4. \A i \in Packets : m.id \in Ids(i) => m.ctx = ContextOf(i)
    BY <2>1 DEF InContext
  <2>5. \A t \in timers : /\ t.id <= handled /\ t.id < m.id /\ t.id \in Nat
                          /\ \E r \in Requests : r.id = t.id /\ r.op = "notify"
                          /\ \A i \in Packets : t.id \in Ids(i) => t.ctx = ContextOf(i)
                          /\ \A u \in timers : t.id = u.id => t = u
    BY <2>3, SMTT(20) DEF InContext, Typed, WaitingOK, Timer
  <2>6. PICK new : new = [id |-> m.id, ctx |-> m.ctx, file |-> FileOf(m)]
    OBVIOUS
  <2>7. new.id = m.id /\ new.ctx = m.ctx
    BY <2>6
  <2>8. timers' = timers \/ (m.r.op = "notify" /\ timers' = timers \cup {new})
    BY <2>2, <2>6 DEF Noted
  <2>9. ASSUME NEW t \in timers'
        PROVE  /\ t.id <= m.id /\ \E r \in Requests : r.id = t.id /\ r.op = "notify"
               /\ \A i \in Packets : t.id \in Ids(i) => t.ctx = ContextOf(i)
               /\ \A u \in timers' : t.id = u.id => t = u
    BY ONLY <2>3, <2>4, <2>5, <2>7, <2>8, <2>9, SMTT(20)
  <2>10. (at[1] \in Packets => current = IF at[2] = 1 THEN None ELSE ContextOf(at[1]))'
    <3>1. at[1] \in Packets => current = IF at[2] = 1 THEN None ELSE ContextOf(at[1])
      BY DEF InContext
    <3> QED BY <2>2, <3>1, ScriptStays
  <2>11. Packets' = Packets /\ Requests' = Requests /\ \A i : Ids(i)' = Ids(i) /\ ContextOf(i)' = ContextOf(i)
    BY <2>2, ScriptStays
  <2> QED BY <2>3, <2>9, <2>10, <2>11 DEF InContext
<1> QED BY <1>1, <1>2, <1>3, StepKinds, ReceiveInContext

(* A step that answers nothing in a chain keeps what its context has. *)
LEMMA QuietCollected ==
  ASSUME Collected, ctx' = ctx, script' = script, Taken' = Taken, Ended => Ended',
         ~Ended' => \A i \in Packets : \A n \in IdsOf(i, TreeOps \ {"silent"}) :
                        IsChain(i) /\ n <= handled' => n <= handled
  PROVE  Collected'
<1>1. /\ Packets' = Packets
      /\ \A i : FirstOf(i)' = FirstOf(i) /\ LastOf(i)' = LastOf(i) /\ (IsChain(i)' <=> IsChain(i))
      /\ \A i, ops : IdsOf(i, ops)' = IdsOf(i, ops)
  BY ScriptStays
<1>2. ASSUME NEW i \in Packets, NEW c, IsChain(i), Collects(i, c) PROVE Collects(i, c)'
  BY <1>1, <1>2 DEF Collects
<1>3. ASSUME NEW i \in Packets, IsChain(i), FirstOf(i).id <= Taken
      PROVE  FirstOf(i).id \in DOMAIN ctx' /\ Collects(i, ctx[FirstOf(i).id])'
  <2>1. PICK c : c = ctx[FirstOf(i).id]
    OBVIOUS
  <2>2. FirstOf(i).id \in DOMAIN ctx /\ Collects(i, c)
    BY <1>3, <2>1 DEF Collected
  <2>3. Collects(i, c)' /\ ctx'[FirstOf(i)'.id] = c
    BY <1>1, <1>2, <1>3, <2>1, <2>2
  <2> QED BY <2>2, <2>3
<1> QED BY <1>1, <1>3 DEF Collected

(* A sequence and what is appended to it. *)
LEMMA AppendFacts ==
  ASSUME NEW S, NEW q \in Seq(S), NEW e
  PROVE  /\ DOMAIN Append(q, e) = DOMAIN q \cup {Len(q) + 1} /\ Append(q, e)[Len(q) + 1] = e
         /\ \A a \in DOMAIN q : Append(q, e)[a] = q[a]
  BY SMTT(20)

(* A response names the request it answers. *)
LEMMA ResponseId ==
  ASSUME NEW n, NEW status
  PROVE  [id |-> n, status |-> status].id = n
  BY SMTT(20)

(* A response goes to the end of what the context of its chain has. *)
LEMMA RespondsCollected ==
  ASSUME script \in Scripts, ContextsOK, Collected, NEW p \in Packets, NEW n \in IdsOf(p, TreeOps), NEW status,
         IsChain(p), Responds(FirstOf(p).id, n, status), script' = script, Taken' = Taken, Ended => Ended',
         FirstOf(p).id <= Taken,
         \A i \in Packets : \A k \in Ids(i) : k <= handled' => k <= handled \/ k = n
  PROVE  Collected'
<1>1. /\ Packets' = Packets
      /\ \A i : FirstOf(i)' = FirstOf(i) /\ LastOf(i)' = LastOf(i) /\ (IsChain(i)' <=> IsChain(i))
      /\ \A i, ops : IdsOf(i, ops)' = IdsOf(i, ops)
  BY ScriptStays
<1>2. PICK c : c = FirstOf(p).id
  OBVIOUS
<1>3. c \in Nat \ {0} /\ c \in Ids(p) /\ n \in Ids(p)
  BY <1>2, PacketEnds DEF IdsOf
<1>4. c \in DOMAIN ctx /\ Collects(p, ctx[c]) /\ ctx[c] \in ContextType
  BY <1>2 DEF Collected, ContextsOK
<1>5. /\ ctx'[c].rsp = Append(ctx[c].rsp, [id |-> n, status |-> status]) /\ ctx'[c].lastMsg = ctx[c].lastMsg
      /\ DOMAIN ctx' = DOMAIN ctx /\ \A d \in DOMAIN ctx \ {c} : ctx'[d] = ctx[d]
  BY <1>2, <1>3 DEF Responds, None
<1>6. PICK old, new : old = ctx[c] /\ new = ctx'[c]
  OBVIOUS
<1>7. Collects(p, new)'
  <2>1. old.rsp \in Seq(Response)
    BY <1>4, <1>6 DEF ContextType
  <2>2. PICK rsp : rsp = old.rsp /\ rsp \in Seq(Response)
    BY <2>1
  <2>3. new.rsp = Append(rsp, [id |-> n, status |-> status]) /\ new.lastMsg = old.lastMsg
    BY <1>5, <1>6, <2>2
  <2>4. /\ DOMAIN new.rsp = DOMAIN rsp \cup {Len(rsp) + 1}
        /\ new.rsp[Len(rsp) + 1].id = n
        /\ \A a \in DOMAIN rsp : new.rsp[a] = rsp[a]
    <3>1. PICK e : e = [id |-> n, status |-> status] /\ e.id = n
      BY ResponseId
    <3>2. new.rsp = Append(rsp, e)
      BY <2>3, <3>1
    <3>3. /\ DOMAIN Append(rsp, e) = DOMAIN rsp \cup {Len(rsp) + 1} /\ Append(rsp, e)[Len(rsp) + 1] = e
          /\ \A a \in DOMAIN rsp : Append(rsp, e)[a] = rsp[a]
      BY ONLY <2>2, AppendFacts, SMTT(20)
    <3> QED BY ONLY <3>1, <3>2, <3>3, SMTT(20)
  <2>5. \A a \in DOMAIN new.rsp : new.rsp[a].id \in IdsOf(p, TreeOps)
    BY <1>4, <1>6, <2>2, <2>4 DEF Collects
  <2>6. ASSUME ~Ended', NEW k \in IdsOf(p, TreeOps \ {"silent"}), k <= handled'
        PROVE  \E a \in DOMAIN new.rsp : new.rsp[a].id = k
    <3>1. k \in Ids(p) /\ (k <= handled \/ k = n)
      BY <2>6 DEF IdsOf
    <3>2. k <= handled => \E a \in DOMAIN rsp : rsp[a].id = k
      BY <1>4, <1>6, <2>2, <2>6 DEF Collects
    <3> QED BY <2>4, <3>1, <3>2
  <2>7. new.lastMsg = IF LastOf(p).related /\ LastOf(p).id <= Taken THEN LastOf(p).id ELSE None
    BY <1>4, <1>6, <2>3 DEF Collects
  <2> QED BY <1>1, <2>5, <2>6, <2>7 DEF Collects
<1>8. ASSUME NEW i \in Packets, i # p, NEW d, Collects(i, d) PROVE Collects(i, d)'
  <2>1. \A k \in IdsOf(i, TreeOps \ {"silent"}) : k <= handled' => k <= handled
    <3> TAKE k \in IdsOf(i, TreeOps \ {"silent"})
    <3>1. k \in Ids(i) /\ k # n
      BY <1>3, <1>8, OnePacket DEF IdsOf
    <3> QED BY <3>1
  <2> QED BY <1>1, <1>8, <2>1 DEF Collects
<1>9. ASSUME NEW i \in Packets, IsChain(i), FirstOf(i).id <= Taken
      PROVE  FirstOf(i).id \in DOMAIN ctx' /\ Collects(i, ctx[FirstOf(i).id])'
  <2>1. CASE i = p
    BY <1>1, <1>2, <1>4, <1>5, <1>6, <1>7, <2>1
  <2>2. CASE i # p
    <3>1. PICK e, d : e = FirstOf(i).id /\ d = ctx[e]
      OBVIOUS
    <3>2. e \in DOMAIN ctx /\ Collects(i, d)
      BY <1>9, <3>1 DEF Collected
    <3>3. e # c
      <4>1. e \in Ids(i)
        BY <3>1, PacketEnds
      <4> QED BY <1>3, <2>2, <4>1, OnePacket
    <3>4. Collects(i, d)' /\ ctx'[FirstOf(i)'.id] = d
      BY <1>1, <1>5, <1>8, <2>2, <3>1, <3>2, <3>3
    <3> QED BY <1>5, <3>1, <3>2, <3>4
  <2> QED BY <2>1, <2>2
<1> QED BY <1>1, <1>9 DEF Collected

(* The place of the request the receiver comes to. *)
LEMMA ComePlace ==
  ASSUME PlaceOK, at[1] <= Len(script)
  PROVE  /\ Come \in Requests /\ Come.id \in Ids(at[1])
         /\ Come = FirstOf(at[1]) <=> at[2] = 1
         /\ Come = LastOf(at[1]) <=> AtEnd
<1>0. script \in Scripts
  BY DEF PlaceOK
<1>1. PICK p, q : p = at[1] /\ q = at[2] /\ p \in Packets /\ q \in DOMAIN script[p]
  BY ComeFacts
<1>2. /\ Come = script[p][q] /\ FirstOf(at[1]) = script[p][1]
      /\ LastOf(at[1]) = script[p][Len(script[p])] /\ (AtEnd <=> q = Len(script[p]))
  BY <1>1 DEF Come, FirstOf, LastOf, AtEnd
<1>3. 1 \in DOMAIN script[p] /\ Len(script[p]) \in DOMAIN script[p]
  BY <1>0, <1>1, PacketEnds
<1>4. script[p][q] \in Requests /\ script[p][q].id \in Ids(p)
  BY <1>1, PlaceRequest DEF Ids
<1>5. script[p][q] = script[p][1] <=> q = 1
  BY <1>0, <1>1, <1>3, IdsInOrder, SMTT(20)
<1>6. script[p][q] = script[p][Len(script[p])] <=> q = Len(script[p])
  BY <1>0, <1>1, <1>3, IdsInOrder, SMTT(20)
<1> QED BY <1>1, <1>2, <1>4, <1>5, <1>6

(* The receiver makes the context of a chain, and tells it its last request. *)
LEMMA ReceiveCollected ==
  ASSUME ChainsRelated, Typed, InOrder, InContext, Collected, Receive, Ended => Ended'
  PROVE  Collected'
<1>0. script \in Scripts /\ ContextsOK /\ handled \in Nat
  BY DEF Typed, PlaceOK, InOrder
<1>1. /\ handed = <<>> /\ at[1] <= Len(script)
      /\ Opens \/ Ends \/ Continues
      /\ handed' = <<[r |-> Come, id |-> Come.id, ctx |-> In]>>
      /\ script' = script /\ handled' = handled
  BY ReceiveEffect
<1>a. /\ at[1] \in Packets /\ Come.id \in Nat \ {0} /\ Come.id \in Ids(at[1])
      /\ Come = FirstOf(at[1]) <=> at[2] = 1
      /\ Come = LastOf(at[1]) <=> AtEnd
  BY <1>1, ComeFacts, ComePlace DEF Typed
<1>b. PICK p, come : p = at[1] /\ come = Come
  OBVIOUS
<1>2. p = at[1] /\ come = Come /\ p \in Packets /\ come.id \in Nat \ {0} /\ come.id \in Ids(p)
  BY <1>a, <1>b
<1>3. /\ Packets' = Packets /\ Requests' = Requests
      /\ \A i : FirstOf(i)' = FirstOf(i) /\ LastOf(i)' = LastOf(i) /\ (IsChain(i)' <=> IsChain(i))
      /\ \A i, ops : IdsOf(i, ops)' = IdsOf(i, ops)
  BY <1>1, ScriptStays
<1>4. Taken = handled /\ Taken' = come.id
  <2>1. handed' # <<>> /\ handed'[1].id = Come.id
    BY <1>1
  <2>2. Taken' = handed'[1].id
    BY <2>1 DEF Taken
  <2>3. Taken = handled
    BY <1>1 DEF Taken
  <2> QED BY <1>2, <2>1, <2>2, <2>3
<1>5. /\ handled < come.id /\ come \in Requests
      /\ \A r \in Requests : r.id <= come.id => r.id <= handled \/ r = come
  <2>1. InOrder' /\ handed' # <<>> /\ handed'[1].r = come /\ handed'[1].id = come.id
    BY <1>1, <1>2, ReceiveInOrder
  <2> QED BY <1>1, <1>3, <2>1 DEF InOrder
<1>6. /\ (~come.related /\ ~AtEnd) => IsChain(p) /\ come = FirstOf(p)
      /\ at[2] = 1 /\ IsChain(p) => ~come.related /\ ~AtEnd
      /\ AtEnd => come = LastOf(p)
      /\ In = ContextOf(p)
  BY <1>2, ReceiveContext
<1>7. ASSUME NEW i \in Packets, NEW c, Collects(i, c), LastOf(i).id <= come.id => LastOf(i).id <= handled
      PROVE  Collects(i, c)'
  <2>1. LastOf(i).id \in Nat
    BY <1>0, PacketEnds
  <2>2. LastOf(i).id <= Taken <=> LastOf(i).id <= come.id
    BY <1>0, <1>2, <1>4, <1>5, <1>7, <2>1, SMTT(20)
  <2> QED BY <1>1, <1>3, <1>4, <1>7, <2>2 DEF Collects
<1>8. ASSUME NEW i \in Packets, i # p, IsChain(i), FirstOf(i).id <= come.id
      PROVE  FirstOf(i).id \in DOMAIN ctx' /\ Collects(i, ctx[FirstOf(i).id])'
  <2>1. PICK e, d : e = FirstOf(i).id /\ d = ctx[e]
    OBVIOUS
  <2>2. /\ FirstOf(i) \in Requests /\ LastOf(i) \in Requests /\ e \in Ids(i) /\ LastOf(i).id \in Ids(i)
    BY <1>0, <2>1, PacketEnds
  <2>3. e # come.id /\ LastOf(i).id # come.id
    BY <1>0, <1>2, <1>8, <2>2, OnePacket
  <2>4. e <= handled /\ (LastOf(i).id <= come.id => LastOf(i).id <= handled)
    BY <1>5, <1>8, <2>1, <2>2, <2>3
  <2>5. e \in DOMAIN ctx /\ Collects(i, d)
    BY <1>4, <1>8, <2>1, <2>4 DEF Collected
  <2>6. e # ContextOf(p)
    <3>1. ContextOf(p) \in Ids(p) \cup {None} /\ e \in Nat \ {0}
      BY <1>0, <1>2, <2>1, PacketEnds DEF ContextOf
    <3> QED BY <1>0, <1>2, <1>8, <2>2, <3>1, OnePacket DEF None
  <2>7. e \in DOMAIN ctx' /\ ctx'[e] = d
    <3>1. CASE Opens
      BY <1>2, <2>1, <2>3, <2>5, <3>1 DEF Opens, Put
    <3>2. CASE Ends
      <4>1. current = ContextOf(p)
        BY <1>2, <1>6, <3>2 DEF Ends, In
      <4> QED BY <2>1, <2>5, <2>6, <3>2, <4>1 DEF Ends
    <3>3. CASE Continues
      BY <2>1, <2>5, <3>3 DEF Continues
    <3> QED BY <1>1, <3>1, <3>2, <3>3
  <2>8. Collects(i, d)' /\ ctx'[FirstOf(i)'.id] = d
    BY <1>3, <1>7, <2>1, <2>4, <2>5, <2>7
  <2> QED BY <2>1, <2>7, <2>8
<1>9. ASSUME IsChain(p), come = FirstOf(p)
      PROVE  FirstOf(p).id \in DOMAIN ctx' /\ Collects(p, ctx[FirstOf(p).id])'
  <2>1. ~come.related /\ ~AtEnd
    <3>1. at[2] = 1
      BY <1>a, <1>2, <1>9
    <3> QED BY <1>6, <1>9, <3>1
  <2>2. ctx' = Put(ctx, come.id, Context)
    BY <1>1, <1>2, <2>1 DEF Opens, Ends, Continues
  <2>3. come.id \in DOMAIN ctx' /\ ctx'[come.id] = Context
    BY <2>2 DEF Put
  <2>4. come.id < LastOf(p).id /\ \A n \in Ids(p) : n \in Nat /\ come.id <= n
    BY <1>0, <1>2, <1>9, PacketEnds
  <2>5. PICK c : c = Context
    OBVIOUS
  <2>6. c.lastMsg = None /\ c.rsp = <<>>
    BY <2>5 DEF Context
  <2>7. Collects(p, c)'
    <3>1. \A n \in IdsOf(p, TreeOps \ {"silent"}) : ~(n <= handled)
      BY <1>0, <1>2, <1>5, <2>4, SMTT(20) DEF IdsOf
    <3>2. ~(LastOf(p).id <= come.id)
      BY <1>0, <1>2, <2>4, PacketEnds, SMTT(20)
    <3>3. \A a \in DOMAIN c.rsp : c.rsp[a].id \in IdsOf(p, TreeOps)
      BY <2>6, SMTT(20)
    <3> QED BY <1>1, <1>3, <1>4, <2>6, <3>1, <3>2, <3>3 DEF Collects
  <2>8. ctx'[FirstOf(p)'.id] = c
    BY <1>3, <1>9, <2>3, <2>5
  <2> QED BY <1>9, <2>3, <2>7, <2>8
<1>10. ASSUME IsChain(p), come # FirstOf(p)
      PROVE  FirstOf(p).id \in DOMAIN ctx' /\ Collects(p, ctx[FirstOf(p).id])'
  <2>1. PICK e, d : e = FirstOf(p).id /\ d = ctx[e]
    OBVIOUS
  <2>2. FirstOf(p) \in Requests /\ e <= come.id /\ e \in Nat \ {0}
    BY <1>0, <1>2, <2>1, PacketEnds
  <2>3. e <= handled
    BY <1>5, <1>10, <2>1, <2>2
  <2>4. e \in DOMAIN ctx /\ Collects(p, d) /\ d \in ContextType
    <3>1. e \in DOMAIN ctx /\ Collects(p, d)
      BY <1>2, <1>4, <1>10, <2>1, <2>3 DEF Collected
    <3>2. d \in ContextType
      BY <1>0, <2>1, <3>1 DEF ContextsOK
    <3> QED BY <3>1, <3>2
  <2>5. current = e /\ ~Opens
    BY <1>2, <1>6, <1>10, <2>1 DEF In, ContextOf, Opens
  <2>6. CASE Ends
    <3>1. come = LastOf(p) /\ come.related /\ ctx' = [ctx EXCEPT ![e].lastMsg = come.id]
      BY <1>2, <1>6, <2>5, <2>6 DEF Ends
    <3>2. PICK new : new = [d EXCEPT !.lastMsg = come.id]
      OBVIOUS
    <3>3. e \in DOMAIN ctx' /\ ctx'[e] = new
      BY <2>1, <2>4, <3>1, <3>2 DEF Ends
    <3>4. new.rsp = d.rsp /\ new.lastMsg = come.id
      BY <2>4, <3>2 DEF ContextType
    <3>5. Collects(p, new)'
      <4>1. come.id <= come.id
        BY <1>2, SMTT(20)
      <4> QED BY <1>1, <1>3, <1>4, <2>4, <3>1, <3>4, <4>1 DEF Collects
    <3>6. ctx'[FirstOf(p)'.id] = new
      BY <1>3, <2>1, <3>3
    <3> QED BY <2>1, <3>3, <3>5, <3>6
  <2>7. CASE Continues
    <3>1. ctx' = ctx /\ ~(come.related /\ AtEnd) /\ ~(~come.related /\ ~AtEnd)
      BY <1>2, <2>7 DEF Continues
    <3>2. Collects(p, d)'
      <4>1. CASE ~AtEnd
        <5>1. come # LastOf(p)
          BY <1>a, <1>2, <4>1
        <5>2. LastOf(p) \in Requests
          BY <1>0, <1>2, PacketEnds
        <5> QED BY <1>2, <1>5, <1>7, <2>4, <5>1, <5>2
      <4>2. CASE AtEnd
        <5>1. come = LastOf(p) /\ ~LastOf(p).related
          BY <1>6, <3>1, <4>2
        <5> QED BY <1>1, <1>3, <2>4, <5>1 DEF Collects
      <4> QED BY <4>1, <4>2
    <3>3. ctx'[FirstOf(p)'.id] = d
      BY <1>3, <2>1, <3>1
    <3> QED BY <2>1, <2>4, <3>1, <3>2, <3>3
  <2> QED BY <1>1, <2>5, <2>6, <2>7
<1>11. ASSUME NEW i \in Packets, IsChain(i), FirstOf(i).id <= come.id
       PROVE  FirstOf(i).id \in DOMAIN ctx' /\ Collects(i, ctx[FirstOf(i).id])'
  <2>1. CASE i = p
    BY <1>9, <1>10, <1>11, <2>1
  <2> QED BY <1>8, <1>11, <2>1
<1> QED BY <1>3, <1>4, <1>11 DEF Collected

(* The request n of the packet p is answered, through the context of its    *)
(* chain or by itself.                                                      *)
AnswerTo(p, n) ==
    \E status \in Status :
        \/ IsChain(p) /\ n \in IdsOf(p, TreeOps) /\ Responds(FirstOf(p).id, n, status)
        \/ (IsChain(p) => n \notin IdsOf(p, TreeOps)) /\ Responds(None, n, status)

(* At most the request n is handled in a step. *)
AtMost(n) == \A i \in Packets : \A k \in Ids(i) : k <= handled' => k <= handled \/ k = n

(* The operations of a request, by its id. *)
LEMMA IdsOfFacts ==
  ASSUME script \in Scripts, NEW p \in Packets, NEW r \in Requests, r.id \in Ids(p), NEW ops
  PROVE  r.id \in IdsOf(p, ops) <=> r.op \in ops
  BY OneRequest DEF IdsOf

(* What is taken is a request of a packet, in its context. *)
LEMMA TakenFacts ==
  ASSUME Typed, InOrder, InContext, handed # <<>>, Takes(handed[1]), script' = script
  PROVE  \E p \in Packets :
            /\ handed[1].id \in Ids(p) /\ handed[1].ctx = ContextOf(p) /\ FirstOf(p).id <= Taken
            /\ \A ops : handed[1].id \in IdsOf(p, ops) <=> handed[1].r.op \in ops
            /\ handed[1].id \in Nat \ {0} /\ handled \in Nat /\ handled < handed[1].id /\ handled' = handed[1].id
            /\ Taken' = Taken /\ AtMost(handed[1].id)
<1>0. script \in Scripts
  BY DEF Typed, PlaceOK
<1>1. PICK m : m = handed[1]
  OBVIOUS
<1>2. /\ m.r \in Requests /\ m.id = m.r.id /\ handled \in Nat /\ handled < m.id /\ handled' = m.id
      /\ handed' = <<>> /\ \A r \in Requests : r.id <= m.id => r.id <= handled \/ r = m.r
  BY <1>1 DEF InOrder, Takes
<1>3. PICK p \in Packets : m.r.id \in Ids(p)
  BY <1>0, <1>2, PacketOf
<1>4. m.id \in Nat \ {0} /\ FirstOf(p).id <= m.id
  BY <1>0, <1>2, <1>3, PacketEnds
<1>5. Taken = m.id /\ Taken' = m.id
  BY <1>1, <1>2 DEF Taken
<1>6. m.ctx = ContextOf(p)
  BY <1>1, <1>2, <1>3 DEF InContext
<1>7. \A ops : m.id \in IdsOf(p, ops) <=> m.r.op \in ops
  BY <1>0, <1>2, <1>3, IdsOfFacts
<1>8. AtMost(m.id)
  <2> SUFFICES ASSUME NEW i \in Packets, NEW k \in Ids(i), k <= handled' PROVE k <= handled \/ k = m.id
    BY DEF AtMost
  <2>1. PICK r \in Requests : r.id = k
    BY <1>0, PacketOf
  <2> QED BY <1>2, <2>1
<1> QED BY <1>1, <1>2, <1>3, <1>4, <1>5, <1>6, <1>7, <1>8

(* A handler answers the request it takes, unless it is one without answer. *)
LEMMA HandleAnswers ==
  ASSUME Typed, InOrder, InContext, HandlesStep
  PROVE  \E p \in Packets :
            /\ handed[1].id \in Ids(p) /\ FirstOf(p).id <= Taken
            /\ handed[1].id \in Nat \ {0} /\ handled \in Nat /\ handled < handed[1].id /\ handled' = handed[1].id
            /\ Taken' = Taken /\ AtMost(handed[1].id) /\ script' = script /\ Noted(handed[1])
            /\ handed[1].r.op = "notify" => handed[1].id \in IdsOf(p, {"notify"})
            /\ \/ AnswerTo(p, handed[1].id)
               \/ UNCHANGED <<ctx, sent>> /\ handed[1].id \notin IdsOf(p, TreeOps \ {"silent"})
<1>1. PICK m : m = handed[1] /\ handed # <<>> /\ Handle(m)
  BY DEF HandlesStep
<1>2. Takes(m) /\ script' = script /\ Answered1(m) /\ Noted(m)
  BY <1>1, HandleEffect
<1>3. PICK p \in Packets :
            /\ m.id \in Ids(p) /\ m.ctx = ContextOf(p) /\ FirstOf(p).id <= Taken
            /\ \A ops : m.id \in IdsOf(p, ops) <=> m.r.op \in ops
            /\ m.id \in Nat \ {0} /\ handled \in Nat /\ handled < m.id /\ handled' = m.id
            /\ Taken' = Taken /\ AtMost(m.id)
  BY <1>1, <1>2, TakenFacts
<1>4. AnswerTo(p, m.id) \/ (UNCHANGED <<ctx, sent>> /\ m.id \notin IdsOf(p, TreeOps \ {"silent"}))
  <2>1. CASE m.r.op \in {"cancel", "silent"} /\ UNCHANGED <<ctx, sent>>
    <3>1. m.r.op \notin TreeOps \ {"silent"}
      BY <2>1 DEF TreeOps, PipeOps
    <3> QED BY <1>3, <2>1, <3>1
  <2>2. CASE m.r.op \in DirectOps /\ \E status \in Status : Responds(None, m.id, status)
    <3>1. m.r.op \notin TreeOps
      BY <2>2 DEF TreeOps, PipeOps, DirectOps
    <3> QED BY <1>3, <2>2, <3>1 DEF AnswerTo
  <2>3. CASE m.r.op \in TreeOps /\ \E status \in Status : Responds(m.ctx, m.id, status)
    BY <1>3, <2>3 DEF AnswerTo, ContextOf
  <2> QED BY <1>2, <2>1, <2>2, <2>3 DEF Answered1
<1> QED BY <1>1, <1>2, <1>3, <1>4

(* So does the completion of a CHANGE_NOTIFY. *)
LEMMA CompleteAnswers ==
  ASSUME Typed, InOrder, InContext, NEW t \in timers, NotifyCompletes(t)
  PROVE  \E p \in Packets :
            /\ t.id \in Ids(p) /\ FirstOf(p).id <= Taken /\ t.id \in IdsOf(p, {"notify"})
            /\ t.id \in Nat \ {0} /\ t.id <= handled /\ handled' = handled /\ handled \in Nat
            /\ Taken' = Taken /\ AtMost(t.id) /\ script' = script
            /\ AnswerTo(p, t.id) \/ UNCHANGED <<ctx, sent>>
<1>0. script \in Scripts
  BY DEF Typed, PlaceOK
<1>1. /\ t \in Timer
      /\ Responds(t.ctx, t.id, "failed") \/ UNCHANGED <<ctx, sent>>
      /\ UNCHANGED <<script, handed, handled>>
  BY CompleteEffect
<1>2. PICK r \in Requests : r.id = t.id /\ r.op = "notify" /\ t.id <= handled
  BY DEF InContext
<1>3. PICK p \in Packets : t.id \in Ids(p)
  BY <1>0, <1>2, PacketOf
<1>4. \A ops : t.id \in IdsOf(p, ops) <=> "notify" \in ops
  BY <1>0, <1>2, <1>3, IdsOfFacts
<1>5. t.id \in Nat \ {0} /\ handled \in Nat /\ FirstOf(p).id \in Nat /\ FirstOf(p).id <= t.id
  BY <1>0, <1>1, <1>3, PacketEnds DEF Timer, InOrder
<1>6. Taken \in Nat /\ handled <= Taken /\ Taken' = Taken
  BY <1>1, <1>5, SMTT(20) DEF Taken, InOrder, Typed, WaitingOK, Offered
<1>7. AtMost(t.id)
  BY <1>1 DEF AtMost
<1>8. ASSUME Responds(t.ctx, t.id, "failed") PROVE AnswerTo(p, t.id)
  <2>1. t.ctx = ContextOf(p) /\ t.id \in IdsOf(p, TreeOps)
    BY <1>3, <1>4 DEF InContext, TreeOps
  <2> QED BY <1>8, <2>1 DEF AnswerTo, ContextOf, Status
<1>9. FirstOf(p).id <= Taken
  BY <1>2, <1>5, <1>6, SMTT(20)
<1> QED BY <1>1, <1>2, <1>3, <1>4, <1>5, <1>6, <1>7, <1>8, <1>9, SMTT(20)

(* An answer keeps what the contexts have. *)
LEMMA AnswerCollected ==
  ASSUME Typed, Collected, NEW p \in Packets, NEW n \in Ids(p), AnswerTo(p, n), AtMost(n),
         FirstOf(p).id <= Taken, script' = script, Taken' = Taken, Ended => Ended'
  PROVE  Collected'
<1>0. script \in Scripts /\ ContextsOK
  BY DEF Typed, PlaceOK
<1>1. CASE \E status : IsChain(p) /\ n \in IdsOf(p, TreeOps) /\ Responds(FirstOf(p).id, n, status)
  BY <1>0, <1>1, RespondsCollected DEF AtMost
<1>2. CASE (IsChain(p) => n \notin IdsOf(p, TreeOps)) /\ \E status : Responds(None, n, status)
  <2>1. ctx' = ctx
    BY <1>2 DEF Responds
  <2>2. ASSUME NEW i \in Packets, NEW k \in IdsOf(i, TreeOps \ {"silent"}), IsChain(i), k <= handled'
        PROVE  k <= handled
    <3>1. k \in Ids(i) /\ k \in IdsOf(i, TreeOps)
      BY DEF IdsOf
    <3>2. k # n
      BY <1>0, <1>2, <2>2, <3>1, OnePacket
    <3> QED BY <2>2, <3>1, <3>2 DEF AtMost
  <2> QED BY <2>1, <2>2, QuietCollected
<1> QED BY <1>1, <1>2 DEF AnswerTo

(* Every step keeps what the contexts have. *)
LEMMA CollectedNext ==
  ASSUME ChainsRelated, ShutdownInv, Typed, InOrder, InContext, Collected, [Next]_vars
  PROVE  Collected'
<1>0. Ended => Ended'
  BY EndedStays
<1>1. script \in Scripts
  BY DEF Typed, PlaceOK
<1>2. CASE UNCHANGED dispatchVars
  <2>1. ctx' = ctx /\ script' = script /\ Taken' = Taken /\ handled' = handled
    BY <1>2 DEF dispatchVars, Taken
  <2> QED BY <1>0, <2>1, QuietCollected
<1>3. CASE Receive
  BY <1>0, <1>3, ReceiveCollected
<1>4. CASE EndsStep
  <2>1. handed # <<>> /\ Takes(handed[1]) /\ script' = script /\ ctx' = ctx
    BY <1>4 DEF EndsStep
  <2>2. Taken' = Taken
    BY <2>1 DEF Takes, Taken
  <2>3. Ended'
    <3>1. conns \in [Conn -> {"new", "accepted", "refused", "running", "returned", "ended"}] /\ Served \in Conn
      BY ServedAssumption DEF ShutdownInv, LifecycleTypeOK
    <3>2. conns' = [conns EXCEPT ![Served] = "returned"]
      BY <1>4 DEF EndsStep, RunReturns
    <3>3. conns'[Served] = "returned"
      BY <3>1, <3>2
    <3> QED BY <3>3 DEF Ended
  <2> QED BY <2>1, <2>2, <2>3, QuietCollected
<1>5. CASE CompletesStep
  <2>1. PICK t \in timers : NotifyCompletes(t)
    BY <1>5 DEF CompletesStep
  <2>2. PICK p \in Packets :
            /\ t.id \in Ids(p) /\ FirstOf(p).id <= Taken /\ handled' = handled
            /\ Taken' = Taken /\ AtMost(t.id) /\ script' = script
            /\ AnswerTo(p, t.id) \/ UNCHANGED <<ctx, sent>>
    BY <2>1, CompleteAnswers
  <2>3. CASE AnswerTo(p, t.id)
    BY <1>0, <2>2, <2>3, AnswerCollected
  <2>4. CASE UNCHANGED <<ctx, sent>>
    BY <1>0, <2>2, <2>4, QuietCollected
  <2> QED BY <2>2, <2>3, <2>4
<1>6. CASE HandlesStep
  <2>1. PICK m : m = handed[1]
    OBVIOUS
  <2>2. PICK p \in Packets :
            /\ m.id \in Ids(p) /\ FirstOf(p).id <= Taken
            /\ Taken' = Taken /\ AtMost(m.id) /\ script' = script
            /\ AnswerTo(p, m.id) \/ (UNCHANGED <<ctx, sent>> /\ m.id \notin IdsOf(p, TreeOps \ {"silent"}))
    BY <1>6, <2>1, HandleAnswers
  <2>3. CASE AnswerTo(p, m.id)
    BY <1>0, <2>2, <2>3, AnswerCollected
  <2>4. CASE UNCHANGED <<ctx, sent>> /\ m.id \notin IdsOf(p, TreeOps \ {"silent"})
    <3>1. ASSUME NEW i \in Packets, NEW k \in IdsOf(i, TreeOps \ {"silent"}), k <= handled'
          PROVE  k <= handled
      <4>1. k \in Ids(i)
        BY DEF IdsOf
      <4>2. k # m.id
        BY <1>1, <2>2, <2>4, <3>1, <4>1, OnePacket
      <4> QED BY <2>2, <3>1, <4>1, <4>2 DEF AtMost
    <3> QED BY <1>0, <2>2, <2>4, <3>1, QuietCollected
  <2> QED BY <2>2, <2>3, <2>4
<1> QED BY <1>2, <1>3, <1>4, <1>5, <1>6, StepKinds

(* Before the first packet nothing is in a chain. *)
LEMMA ContextsInit ==
  ASSUME Init
  PROVE  InContext /\ Collected
<1>1. /\ at = <<1, 1>> /\ current = None /\ handed = <<>> /\ timers = {} /\ handled = 0
      /\ script \in Scripts
  BY DEF Init, DispatchInit
<1>2. InContext
  BY <1>1 DEF InContext
<1>3. Taken = 0
  BY <1>1 DEF Taken
<1>4. Collected
  BY <1>1, <1>3, PacketEnds, SMTT(20) DEF Collected
<1> QED BY <1>2, <1>4

-----------------------------------------------------------------------------
(* What is written to pipes and read from them. *)
WaitingIds(t) == {byId[t].dceReq[q].id : q \in DOMAIN byId[t].dceReq}

(* Replies were read after what they reply to, in the order of the writes.  *)
(* What waits in a tree was written to it after all that was answered, and  *)
(* the last that was written to a tree by itself waits or was answered.     *)
(* What was written to a tree that was never connected was the last.        *)
PipesInv ==
    /\ DOMAIN replies \subseteq 1 .. handled
    /\ \A n \in DOMAIN replies : replies[n] \in Writes(RequestOf(n).tree) /\ replies[n] < n
    /\ \A n, k \in DOMAIN replies : n < k /\ RequestOf(n).tree = RequestOf(k).tree => replies[n] < replies[k]
    /\ \A t \in DOMAIN byId : \A w \in WaitingIds(t) :
        /\ w \in Writes(t) /\ \A n \in DOMAIN replies : RequestOf(n).tree = t => replies[n] < w
        /\ \A v \in WaitingIds(t) : v = w
    /\ \A t \in DOMAIN byId : \A w \in Writes(t) :
        (Alone(w) /\ ~ \E v \in Writes(t) : v > w) =>
            (\E n \in DOMAIN replies : replies[n] = w) \/ w \in WaitingIds(t)
    /\ ~Ended => \A t : Writes(t) # {} => t \in 1 .. nextTree - 1

(* A request that is alone in its packet has no context. *)
AloneInv ==
    /\ at[2] = 1 => current = None
    /\ handed # <<>> => (Alone(handed[1].id) => handed[1].ctx = None)

(* The receiver gives a request that is alone no context. *)
LEMMA AloneNext ==
  ASSUME Typed, InOrder, AloneInv, [Next]_vars
  PROVE  AloneInv'
<1>1. CASE UNCHANGED <<script, at, current, handed>>
  BY <1>1 DEF AloneInv, Alone, Packets, IsChain, Ids
<1>2. CASE UNCHANGED dispatchVars \/ CompletesStep
  <2>1. UNCHANGED <<script, at, current, handed>>
    BY <1>2, CompleteEffect DEF dispatchVars, CompletesStep
  <2> QED BY <1>1, <2>1
<1>3. CASE HandlesStep \/ EndsStep
  <2>1. handed' = <<>> /\ UNCHANGED <<script, at, current>>
    BY <1>3, HandleEffect DEF HandlesStep, EndsStep, Takes
  <2> QED BY <2>1 DEF AloneInv
<1>4. CASE Receive
  <2>0. script \in Scripts
    BY DEF Typed, PlaceOK
  <2>1. /\ at[1] <= Len(script) /\ script' = script
        /\ current' = IF AtEnd THEN None ELSE In
        /\ handed' = <<[r |-> Come, id |-> Come.id, ctx |-> In]>>
        /\ at' = IF AtEnd THEN <<at[1] + 1, 1>> ELSE <<at[1], at[2] + 1>>
    BY <1>4, ReceiveEffect
  <2>2. PICK p, q : /\ p \in Packets /\ q \in DOMAIN script[p] /\ p = at[1] /\ q = at[2]
                    /\ q \in Nat \ {0} /\ Come = script[p][q]
    BY <2>1, ComeFacts DEF Typed, Come
  <2>3. at'[2] = 1 => current' = None
    BY <2>1, <2>2, SMTT(20)
  <2>4. ASSUME Alone(Come.id) PROVE In = None
    <3>1. PICK i \in Packets : ~IsChain(i) /\ Come.id \in Ids(i)
      BY <2>4 DEF Alone
    <3>2. PICK j \in DOMAIN script[i] : Come.id = script[i][j].id
      BY <3>1 DEF Ids
    <3>3. i = p
      BY <2>0, <2>2, <3>2, IdsInOrder, SMTT(20)
    <3>4. Len(script[p]) = 1 /\ q = 1
      <4>1. Len(script[p]) \in Nat \ {0} /\ DOMAIN script[p] = 1 .. Len(script[p])
        BY <2>0, <2>2, ScriptFacts
      <4>2. ~(Len(script[p]) > 1) /\ q \in DOMAIN script[p]
        BY <2>2, <3>1, <3>3 DEF IsChain
      <4>3. PICK n \in Nat \ {0} : n = Len(script[p])
        BY <4>1
      <4>4. q \in 1 .. n /\ ~(n > 1)
        BY <4>1, <4>2, <4>3
      <4>5. n = 1 /\ q = 1
        BY <4>4, SMTT(20)
      <4> QED BY <4>3, <4>5
    <3>5. AtEnd /\ current = None
      BY <2>2, <3>4 DEF AtEnd, AloneInv
    <3> QED BY <3>5 DEF In
  <2>5. PICK n : n = Come.id
    OBVIOUS
  <2>6. handed'[1].id = n /\ handed'[1].ctx = In
    BY <2>1, <2>5
  <2>7. Alone(n)' <=> Alone(n)
    BY <2>1 DEF Alone, Packets, IsChain, Ids
  <2>8. Alone(handed[1].id)' => Alone(n)
    BY <2>6, <2>7
  <2> QED BY <2>3, <2>4, <2>5, <2>6, <2>8 DEF AloneInv
<1> QED BY <1>2, <1>3, <1>4, StepKinds

(* What was handled is before what is handled next. *)
LEMMA BeforeNext ==
  ASSUME NEW h \in Nat, NEW id \in Nat, h < id
  PROVE  /\ 1 .. h \subseteq 1 .. id /\ \A n \in 1 .. h : n \in Nat /\ n < id
         /\ id \in 1 .. id /\ id \notin 1 .. h
  BY SMTT(20)

(* The bounds of what was written. *)
LEMMA WritesFacts ==
  ASSUME Typed, InOrder, handed # <<>>, Takes(handed[1]), script' = script
  PROVE  /\ \A t : Writes(t) \subseteq 1 .. handed[1].id - 1
         /\ \A t : Writes(t)' = Writes(t) \cup
                {n \in {handed[1].id} : handed[1].r.op = "pipeWrite" /\ handed[1].r.tree = t}
         /\ handled \in Nat /\ handed[1].id \in Nat /\ handled < handed[1].id /\ handled' = handed[1].id
         /\ \A n : RequestOf(n)' = RequestOf(n) /\ (Alone(n)' <=> Alone(n))
         /\ RequestOf(handed[1].id) = handed[1].r
<1>1. \A t : /\ Handled("pipeWrite", t)' = Handled("pipeWrite", t) \cup
                  {n \in {handed[1].id} : handed[1].r.op = "pipeWrite" /\ handed[1].r.tree = t}
             /\ Handled("pipeWrite", t) \subseteq 1 .. handled
  BY HandledGrows
<1>2. handled \in Nat /\ handed[1].id \in Nat /\ handled < handed[1].id /\ handled' = handed[1].id
  BY HandledGrows
<1>3. 1 .. handled \subseteq 1 .. handed[1].id - 1
  BY <1>2, SMTT(20)
<1>4. \A n : RequestOf(n)' = RequestOf(n) /\ (Alone(n)' <=> Alone(n))
  BY SMTT(20) DEF RequestOf, Requests, Packets, Alone, IsChain, Ids
<1>5. RequestOf(handed[1].id) = handed[1].r
  BY RequestOfFacts DEF InOrder, Typed, PlaceOK
<1> QED BY <1>1, <1>2, <1>3, <1>4, <1>5 DEF Writes

(* In an empty sequence nothing waits. *)
LEMMA NoneWait == DOMAIN <<>> = {}
  BY SMTT(20)

(* A request that neither reads a reply nor leaves anything in a pipe.      *)
LEMMA PipesQuiet ==
  ASSUME PipesInv, NEW id \in Nat, handled \in Nat, handled < id, handled' = id, NEW P,
         \A t : Writes(t) \subseteq 1 .. id - 1,
         \A t : Writes(t)' = Writes(t) \cup {n \in {id} : t \in P},
         \A n : RequestOf(n)' = RequestOf(n) /\ (Alone(n)' <=> Alone(n)),
         replies' = replies, nextTree \in Nat, nextTree' \in Nat, nextTree <= nextTree',
         Ended => Ended', ~Ended' => P \subseteq 1 .. nextTree' - 1,
         \A t \in DOMAIN byId' :
            \/ t \in DOMAIN byId /\ byId'[t].dceReq = byId[t].dceReq /\ (t \in P => ~Alone(id))
            \/ t \notin P /\ Writes(t) = {} /\ byId'[t].dceReq = <<>>
  PROVE  PipesInv'
<1>1. \A t : Writes(t) \subseteq Writes(t)'
  OBVIOUS
<1>2. DOMAIN replies' \subseteq 1 .. handled'
  BY BeforeNext DEF PipesInv
<1>3. \A n \in DOMAIN replies' : replies'[n] \in Writes(RequestOf(n).tree)' /\ replies'[n] < n
  <2> TAKE n \in DOMAIN replies'
  <2>1. PICK t : t = RequestOf(n).tree
    OBVIOUS
  <2>2. replies[n] \in Writes(t) /\ replies[n] < n /\ RequestOf(n)'.tree = t
    BY <2>1 DEF PipesInv
  <2> QED BY <2>2, <1>1
<1>4. \A n, k \in DOMAIN replies' :
        n < k /\ RequestOf(n)'.tree = RequestOf(k)'.tree => replies'[n] < replies'[k]
  BY DEF PipesInv
<1>5. \A t \in DOMAIN byId' : WaitingIds(t)' = {} \/ (t \in DOMAIN byId /\ WaitingIds(t)' = WaitingIds(t))
  <2> TAKE t \in DOMAIN byId'
  <2>1. CASE t \in DOMAIN byId /\ byId'[t].dceReq = byId[t].dceReq
    BY <2>1 DEF WaitingIds
  <2>2. CASE byId'[t].dceReq = <<>>
    BY <2>2, NoneWait DEF WaitingIds
  <2> QED BY <2>1, <2>2
<1>6. \A t \in DOMAIN byId' : \A w \in WaitingIds(t)' :
        /\ w \in Writes(t)' /\ \A n \in DOMAIN replies' : RequestOf(n)'.tree = t => replies'[n] < w
        /\ \A v \in WaitingIds(t)' : v = w
  BY <1>1, <1>5, SMTT(20) DEF PipesInv
<1>7. ASSUME NEW t \in DOMAIN byId', NEW w \in Writes(t)', Alone(w), ~ \E v \in Writes(t)' : v > w
      PROVE  (\E n \in DOMAIN replies : replies[n] = w) \/ w \in WaitingIds(t)'
  <2>1. CASE t \in P
    <3>1. id \in Writes(t)' /\ ~Alone(id) /\ t \in DOMAIN byId
      BY <2>1
    <3>2. w = id \/ w < id
      BY <1>7, SMTT(20)
    <3> QED BY <1>7, <3>1, <3>2
  <2>2. CASE t \notin P
    <3>1. Writes(t)' = Writes(t)
      BY <2>2
    <3>2. t \in DOMAIN byId /\ WaitingIds(t)' = WaitingIds(t)
      BY <1>7, <3>1 DEF WaitingIds
    <3>3. w \in Writes(t) /\ Alone(w) /\ ~ \E v \in Writes(t) : v > w
      BY <1>7, <3>1
    <3>4. \A i \in DOMAIN byId : \A u \in Writes(i) : (Alone(u) /\ ~ \E v \in Writes(i) : v > u) =>
            (\E n \in DOMAIN replies : replies[n] = u) \/ u \in WaitingIds(i)
      BY DEF PipesInv
    <3> QED BY ONLY <3>2, <3>3, <3>4, ZenonT(30)
  <2> QED BY <2>1, <2>2
<1>8. ASSUME ~Ended', NEW t, Writes(t)' # {} PROVE t \in 1 .. nextTree' - 1
  <2>1. t \in P \/ Writes(t) # {}
    BY <1>8
  <2>2. Writes(t) # {} => t \in 1 .. nextTree - 1
    BY <1>8 DEF PipesInv
  <2> QED BY <1>8, <2>1, <2>2, SMTT(20)
<1>9. \A t \in DOMAIN byId' : \A w \in Writes(t)' :
        (Alone(w)' /\ ~ \E v \in Writes(t)' : v > w) =>
            (\E n \in DOMAIN replies' : replies'[n] = w) \/ w \in WaitingIds(t)'
  BY <1>7
<1>10. ~Ended' => \A t : Writes(t)' # {} => t \in 1 .. nextTree' - 1
  BY <1>8
<1> QED BY <1>2, <1>3, <1>4, <1>6, <1>9, <1>10 DEF PipesInv

(* A write replaces what waits in the tree. *)
LEMMA PipesWrite ==
  ASSUME PipesInv, TablesOK, NEW id \in Nat, handled \in Nat, handled < id, handled' = id,
         NEW s \in DOMAIN byId, NEW kind,
         \A t : Writes(t) \subseteq 1 .. id - 1,
         \A t : Writes(t)' = Writes(t) \cup {n \in {id} : s = t},
         \A n : RequestOf(n)' = RequestOf(n) /\ (Alone(n)' <=> Alone(n)),
         replies' = replies, nextTree' = nextTree, Ended => Ended',
         DOMAIN byId' = DOMAIN byId, byId'[s].dceReq = <<[id |-> id, kind |-> kind]>>,
         \A t \in DOMAIN byId \ {s} : byId'[t] = byId[t]
  PROVE  PipesInv'
<1>1. \A t : Writes(t) \subseteq Writes(t)'
  OBVIOUS
<1>2. DOMAIN replies' \subseteq 1 .. handled' /\ \A n \in DOMAIN replies : n \in Nat /\ n < id
  BY BeforeNext DEF PipesInv
<1>3. \A n \in DOMAIN replies' : replies'[n] \in Writes(RequestOf(n).tree)' /\ replies'[n] < n
  <2> TAKE n \in DOMAIN replies'
  <2>1. PICK t : t = RequestOf(n).tree
    OBVIOUS
  <2>2. replies[n] \in Writes(t) /\ replies[n] < n /\ RequestOf(n)'.tree = t
    BY <2>1 DEF PipesInv
  <2> QED BY <2>2, <1>1
<1>4. \A n, k \in DOMAIN replies' :
        n < k /\ RequestOf(n)'.tree = RequestOf(k)'.tree => replies'[n] < replies'[k]
  BY DEF PipesInv
<1>5. WaitingIds(s)' = {id} /\ \A t \in DOMAIN byId' \ {s} : WaitingIds(t)' = WaitingIds(t)
  BY SMTT(20) DEF WaitingIds
<1>6. ASSUME NEW t \in DOMAIN byId', NEW w \in WaitingIds(t)'
      PROVE  /\ w \in Writes(t)' /\ \A n \in DOMAIN replies' : RequestOf(n)'.tree = t => replies'[n] < w
             /\ \A v \in WaitingIds(t)' : v = w
  <2>1. CASE t = s
    <3>1. w = id /\ w \in Writes(t)' /\ \A v \in WaitingIds(t)' : v = w
      BY <1>5, <1>6, <2>1
    <3>2. ASSUME NEW n \in DOMAIN replies PROVE replies[n] < id
      <4>1. PICK t1 : t1 = RequestOf(n).tree
        OBVIOUS
      <4>2. replies[n] \in Writes(t1) /\ Writes(t1) \subseteq 1 .. id - 1
        BY <4>1 DEF PipesInv
      <4>3. replies[n] \in 1 .. id - 1
        BY ONLY <4>2, SMTT(20)
      <4> QED BY <4>3, SMTT(20)
    <3> QED BY <3>1, <3>2
  <2>2. CASE t # s
    <3>1. t \in DOMAIN byId /\ WaitingIds(t)' = WaitingIds(t) /\ w \in WaitingIds(t)
      BY <1>5, <1>6, <2>2
    <3> QED BY <1>1, <3>1 DEF PipesInv
  <2> QED BY <2>1, <2>2
<1>7. ASSUME NEW t \in DOMAIN byId', NEW w \in Writes(t)', Alone(w), ~ \E v \in Writes(t)' : v > w
      PROVE  (\E n \in DOMAIN replies : replies[n] = w) \/ w \in WaitingIds(t)'
  <2>1. CASE t = s
    <3>1. Writes(t) \subseteq 1 .. id - 1 /\ Writes(t)' = Writes(t) \cup {id}
      BY <2>1
    <3>2. id \in Writes(t)' /\ (w = id \/ w \in 1 .. id - 1)
      BY ONLY <1>7, <3>1, SMTT(20)
    <3>3. w \in 1 .. id - 1 => id > w
      BY SMTT(20)
    <3> QED BY <1>5, <1>7, <2>1, <3>2, <3>3
  <2>2. CASE t # s
    <3>1. Writes(t)' = Writes(t) /\ WaitingIds(t)' = WaitingIds(t) /\ t \in DOMAIN byId
      BY <1>5, <1>7, <2>2
    <3>2. w \in Writes(t) /\ Alone(w) /\ ~ \E v \in Writes(t) : v > w
      BY <1>7, <3>1
    <3>3. \A i \in DOMAIN byId : \A u \in Writes(i) : (Alone(u) /\ ~ \E v \in Writes(i) : v > u) =>
            (\E n \in DOMAIN replies : replies[n] = u) \/ u \in WaitingIds(i)
      BY DEF PipesInv
    <3> QED BY ONLY <3>1, <3>2, <3>3, ZenonT(30)
  <2> QED BY <2>1, <2>2
<1>8. ASSUME ~Ended', NEW t, Writes(t)' # {} PROVE t \in 1 .. nextTree' - 1
  <2>1. t = s \/ Writes(t) # {}
    BY <1>8
  <2>2. Writes(t) # {} => t \in 1 .. nextTree - 1
    BY <1>8 DEF PipesInv
  <2>3. s \in 1 .. nextTree - 1
    BY DEF TablesOK
  <2> QED BY <2>1, <2>2, <2>3
<1>9. \A t \in DOMAIN byId' : \A w \in Writes(t)' :
        (Alone(w)' /\ ~ \E v \in Writes(t)' : v > w) =>
            (\E n \in DOMAIN replies' : replies'[n] = w) \/ w \in WaitingIds(t)'
  BY <1>7
<1>10. ~Ended' => \A t : Writes(t)' # {} => t \in 1 .. nextTree' - 1
  BY <1>8
<1> QED BY <1>2, <1>3, <1>4, <1>6, <1>9, <1>10 DEF PipesInv

(* A read is answered with what waits in the tree. *)
LEMMA PipesRead ==
  ASSUME PipesInv, NEW id \in Nat, handled \in Nat, handled < id, handled' = id,
         NEW s \in DOMAIN byId, NEW w0 \in WaitingIds(s),
         \A t : Writes(t) \subseteq 1 .. id - 1, \A t : Writes(t)' = Writes(t),
         \A n : RequestOf(n)' = RequestOf(n) /\ (Alone(n)' <=> Alone(n)),
         RequestOf(id).tree = s,
         replies' = Put(replies, id, w0), nextTree' = nextTree, Ended => Ended',
         DOMAIN byId' = DOMAIN byId, byId'[s].dceReq = <<>>,
         \A t \in DOMAIN byId \ {s} : byId'[t] = byId[t]
  PROVE  PipesInv'
<1>0. /\ w0 \in Writes(s) /\ w0 \in 1 .. id - 1 /\ \A v \in WaitingIds(s) : v = w0
      /\ \A n \in DOMAIN replies : RequestOf(n).tree = s => replies[n] < w0
  BY DEF PipesInv
<1>1. /\ DOMAIN replies \subseteq 1 .. handled /\ id \notin DOMAIN replies
      /\ \A n \in DOMAIN replies : n \in Nat /\ n < id
  <2>1. DOMAIN replies \subseteq 1 .. handled
    BY DEF PipesInv
  <2> QED BY <2>1, BeforeNext
<1>2. /\ DOMAIN replies' = DOMAIN replies \cup {id} /\ replies'[id] = w0
      /\ \A n \in DOMAIN replies : replies'[n] = replies[n]
  BY <1>1 DEF Put
<1>3. DOMAIN replies' \subseteq 1 .. handled'
  <2>1. 1 .. handled \subseteq 1 .. id /\ id \in 1 .. id
    BY BeforeNext
  <2>2. DOMAIN replies' \subseteq 1 .. id
    BY ONLY <1>1, <1>2, <2>1, ZenonT(30)
  <2> QED BY <2>2
<1>4. ASSUME NEW n \in DOMAIN replies'
      PROVE  replies'[n] \in Writes(RequestOf(n).tree)' /\ replies'[n] < n
  <2>1. PICK t : t = RequestOf(n).tree
    OBVIOUS
  <2>2. RequestOf(n)'.tree = t /\ Writes(t)' = Writes(t)
    BY <2>1
  <2>3. replies'[n] \in Writes(t) /\ replies'[n] < n
    <3>1. CASE n = id
      BY <1>0, <1>2, <2>1, <3>1, SMTT(20)
    <3>2. CASE n \in DOMAIN replies
      BY <1>2, <2>1, <3>2 DEF PipesInv
    <3>3. n \in DOMAIN replies \cup {id}
      BY <1>2, <1>4
    <3> QED BY <3>1, <3>2, <3>3
  <2> QED BY <2>2, <2>3
<1>5. ASSUME NEW n \in DOMAIN replies', NEW k \in DOMAIN replies', n < k,
             RequestOf(n)'.tree = RequestOf(k)'.tree
      PROVE  replies'[n] < replies'[k]
  <2>0. RequestOf(n).tree = RequestOf(k).tree /\ k \in DOMAIN replies \cup {id}
    <3>1. RequestOf(n)' = RequestOf(n) /\ RequestOf(k)' = RequestOf(k)
      OBVIOUS
    <3> QED BY <1>2, <1>5, <3>1
  <2>1. n \in DOMAIN replies /\ RequestOf(n).tree = RequestOf(k).tree
    <3>1. n # id
      BY <1>1, <1>5, <2>0, SMTT(20)
    <3> QED BY <1>2, <1>5, <2>0, <3>1
  <2>2. CASE k = id
    BY <1>0, <1>2, <2>1, <2>2, SMTT(20)
  <2>3. CASE k \in DOMAIN replies
    <3>1. \A a, b \in DOMAIN replies : a < b /\ RequestOf(a).tree = RequestOf(b).tree => replies[a] < replies[b]
      BY DEF PipesInv
    <3> QED BY <1>2, <1>5, <2>1, <2>3, <3>1
  <2> QED BY <2>0, <2>2, <2>3
<1>6. WaitingIds(s)' = {} /\ \A t \in DOMAIN byId' \ {s} : WaitingIds(t)' = WaitingIds(t)
  BY SMTT(20) DEF WaitingIds
<1>7. ASSUME NEW t \in DOMAIN byId', NEW w \in WaitingIds(t)'
      PROVE  /\ w \in Writes(t)' /\ \A n \in DOMAIN replies' : RequestOf(n)'.tree = t => replies'[n] < w
             /\ \A v \in WaitingIds(t)' : v = w
  <2>1. t # s /\ t \in DOMAIN byId /\ WaitingIds(t)' = WaitingIds(t)
    BY <1>6, <1>7
  <2>2. /\ w \in Writes(t) /\ \A v \in WaitingIds(t) : v = w
        /\ \A n \in DOMAIN replies : RequestOf(n).tree = t => replies[n] < w
    <3>1. \A i \in DOMAIN byId : \A u \in WaitingIds(i) :
            /\ u \in Writes(i) /\ \A n \in DOMAIN replies : RequestOf(n).tree = i => replies[n] < u
            /\ \A v \in WaitingIds(i) : v = u
      BY DEF PipesInv
    <3>2. w \in WaitingIds(t)
      BY <1>7, <2>1
    <3> QED BY ONLY <2>1, <3>1, <3>2, SMTT(20)
  <2>3. ASSUME NEW n \in DOMAIN replies', RequestOf(n)'.tree = t PROVE replies'[n] < w
    BY <1>2, <2>1, <2>2, <2>3
  <2> QED BY <2>1, <2>2, <2>3
<1>8. ASSUME NEW t \in DOMAIN byId', NEW w \in Writes(t)', Alone(w), ~ \E v \in Writes(t)' : v > w
      PROVE  (\E n \in DOMAIN replies' : replies'[n] = w) \/ w \in WaitingIds(t)'
  <2>1. (\E n \in DOMAIN replies : replies[n] = w) \/ w \in WaitingIds(t)
    BY <1>8 DEF PipesInv
  <2>2. CASE \E n \in DOMAIN replies : replies[n] = w
    BY <1>2, <2>2
  <2>3. CASE w \in WaitingIds(t)
    BY <1>0, <1>2, <1>6, <2>3
  <2> QED BY <2>1, <2>2, <2>3
<1>9. ~Ended' => \A t : Writes(t)' # {} => t \in 1 .. nextTree' - 1
  BY DEF PipesInv
<1>10. \A t \in DOMAIN byId' : \A w \in Writes(t)' :
        (Alone(w)' /\ ~ \E v \in Writes(t)' : v > w) =>
            (\E n \in DOMAIN replies' : replies'[n] = w) \/ w \in WaitingIds(t)'
  BY <1>8
<1> QED BY <1>3, <1>4, <1>5, <1>7, <1>9, <1>10 DEF PipesInv

(* What takes a write to a pipe. *)
LEMMA WriteHandlers ==
  ASSUME NEW m, Handle(m), m.r.op = "pipeWrite"
  PROVE  PipeWrite(m) \/ (m.ctx # None /\ m.r.tree \in DOMAIN byId /\ UNCHANGED tables)
<1>1. ~(Cancel(m) \/ Silent(m) \/ Echo(m) \/ Create(m) \/ ChangeNotify(m) \/ Use(m) \/ CloseFile(m))
  BY DEF Cancel, Silent, Echo, Create, ChangeNotify, Use, CloseFile
<1>2. ~(PipeCreate(m) \/ PipeClose(m) \/ PipeIoctl(m) \/ PipeQueryInfo(m) \/ PipeRead(m)
        \/ TreeConnect(m) \/ TreeDisconnect(m))
  BY DEF PipeCreate, PipeClose, PipeIoctl, PipeQueryInfo, PipeRead, TreeConnect, TreeDisconnect
<1>3. CASE FollowFailure(m)
  BY <1>3 DEF FollowFailure, OnTree, Failed
<1> QED BY <1>1, <1>2, <1>3 DEF Handle

(* A tree keeps what waits in it while it is connected and disconnected,    *)
(* and a new one has nothing.                                               *)
LEMMA TreesKeepWaiting ==
  ASSUME TablesOK, NEW m, TreeConnect(m) \/ TreeDisconnect(m)
  PROVE  /\ replies' = replies /\ nextTree' \in Nat /\ nextTree <= nextTree'
         /\ \A t \in DOMAIN byId' :
              \/ t \in DOMAIN byId /\ byId'[t].dceReq = byId[t].dceReq
              \/ t = nextTree /\ byId'[t].dceReq = <<>>
<1>0. nextTree \in Nat /\ byId \in [DOMAIN byId -> Tree]
  BY DEF TablesOK
<1>1. replies' = replies /\ nextTree' \in Nat /\ nextTree <= nextTree'
  BY <1>0, SMTT(20) DEF TreeConnect, TreeDisconnect, tables
<1>2. ASSUME NEW s \in DOMAIN byId, NEW n, byId' = [byId EXCEPT ![s].refCount = n]
      PROVE  \A t \in DOMAIN byId' : t \in DOMAIN byId /\ byId'[t].dceReq = byId[t].dceReq
  BY <1>0, <1>2 DEF Tree
<1>3. CASE TreeConnect(m)
  <2>1. CASE UNCHANGED tables
    BY <1>1, <2>1 DEF tables
  <2>2. CASE m.r.share \in DOMAIN byName /\ ~UNCHANGED tables
    <3>1. byName[m.r.share] \in DOMAIN byId
      BY <2>2 DEF TablesOK
    <3>2. byId' = [byId EXCEPT ![byName[m.r.share]].refCount = byId[byName[m.r.share]].refCount + 1]
      BY <1>3, <2>2 DEF TreeConnect
    <3> QED BY <1>1, <1>2, <3>1, <3>2
  <2>3. CASE m.r.share \notin DOMAIN byName /\ ~UNCHANGED tables
    <3>1. byId' = Put(byId, nextTree, [path |-> m.r.share, refCount |-> 1, dceReq |-> <<>>])
      BY <1>3, <2>3 DEF TreeConnect
    <3> QED BY <1>1, <3>1 DEF Put
  <2> QED BY <2>1, <2>2, <2>3
<1>4. CASE TreeDisconnect(m)
  <2>1. \/ byId' = byId
        \/ m.r.tree \in DOMAIN byId /\ byId' = Without(byId, m.r.tree)
        \/ m.r.tree \in DOMAIN byId /\ byId' = [byId EXCEPT ![m.r.tree].refCount = byId[m.r.tree].refCount - 1]
    BY <1>4 DEF TreeDisconnect
  <2>2. CASE byId' = byId
    BY <1>1, <2>2
  <2>3. CASE m.r.tree \in DOMAIN byId /\ byId' = Without(byId, m.r.tree)
    BY <1>1, <2>3 DEF Without
  <2>4. CASE /\ m.r.tree \in DOMAIN byId
             /\ byId' = [byId EXCEPT ![m.r.tree].refCount = byId[m.r.tree].refCount - 1]
    BY <1>1, <1>2, <2>4
  <2> QED BY <2>1, <2>2, <2>3, <2>4
<1> QED BY <1>3, <1>4

(* Every step keeps the order of the replies. *)
LEMMA PipesNext ==
  ASSUME ShutdownInv, Typed, InOrder, TablesInv, AloneInv, PipesInv, [Next]_vars
  PROVE  PipesInv'
<1>0. Ended => Ended'
  BY EndedStays
<1>1. TablesOK
  BY DEF TablesInv
<1>2. ASSUME UNCHANGED <<script, tables, handled>> PROVE PipesInv'
  <2>1. \A t : Writes(t)' = Writes(t) /\ (t \in DOMAIN byId => WaitingIds(t)' = WaitingIds(t))
    BY <1>2, SMTT(20) DEF Writes, Handled, Requests, Packets, WaitingIds, tables
  <2>2. \A n : RequestOf(n)' = RequestOf(n) /\ (Alone(n)' <=> Alone(n))
    BY <1>2, SMTT(20) DEF RequestOf, Requests, Packets, Alone, IsChain, Ids
  <2>3. UNCHANGED <<byId, replies, nextTree, handled>>
    BY <1>2 DEF tables
  <2>4. \A n \in DOMAIN replies : Writes(RequestOf(n).tree)' = Writes(RequestOf(n).tree)
    <3> TAKE n \in DOMAIN replies
    <3>1. PICK t : t = RequestOf(n).tree
      OBVIOUS
    <3> QED BY <2>1, <2>2, <3>1
  <2>5. /\ DOMAIN replies' \subseteq 1 .. handled'
        /\ \A n \in DOMAIN replies' : replies'[n] \in Writes(RequestOf(n).tree)' /\ replies'[n] < n
    <3>1. DOMAIN replies' \subseteq 1 .. handled'
      BY <2>3 DEF PipesInv
    <3>2. \A n \in DOMAIN replies : replies[n] \in Writes(RequestOf(n).tree) /\ replies[n] < n
      BY DEF PipesInv
    <3> QED BY ONLY <2>3, <2>4, <3>1, <3>2, SMTT(20)
  <2>6. \A n, k \in DOMAIN replies' : n < k /\ RequestOf(n)'.tree = RequestOf(k)'.tree => replies'[n] < replies'[k]
    BY <2>2, <2>3 DEF PipesInv
  <2>7. \A t \in DOMAIN byId' : \A w \in WaitingIds(t)' :
          /\ w \in Writes(t)' /\ \A n \in DOMAIN replies' : RequestOf(n)'.tree = t => replies'[n] < w
          /\ \A v \in WaitingIds(t)' : v = w
    BY <2>1, <2>2, <2>3, SMTT(20) DEF PipesInv
  <2>8. \A t \in DOMAIN byId' : \A w \in Writes(t)' :
          (Alone(w)' /\ ~ \E v \in Writes(t)' : v > w) =>
              (\E n \in DOMAIN replies' : replies'[n] = w) \/ w \in WaitingIds(t)'
    BY <2>1, <2>2, <2>3, SMTT(20) DEF PipesInv
  <2>9. ~Ended' => \A t : Writes(t)' # {} => t \in 1 .. nextTree' - 1
    BY <1>0, <2>1, <2>3 DEF PipesInv
  <2> QED BY <2>5, <2>6, <2>7, <2>8, <2>9 DEF PipesInv
<1>3. CASE UNCHANGED dispatchVars \/ Receive \/ CompletesStep
  <2>1. UNCHANGED <<script, tables, handled>>
    BY <1>3, ReceiveEffect, CompleteEffect DEF dispatchVars, tables, CompletesStep
  <2> QED BY <1>2, <2>1
<1>4. CASE (Serves /\ HandlesStep /\ UNCHANGED lifecycleVars) \/ (Serves /\ EndsStep)
  <2>1. PICK m : m = handed[1]
    OBVIOUS
  <2>2. handed # <<>> /\ Takes(m) /\ script' = script /\ m \in Offered
    BY <1>4, <2>1, HandleEffect DEF HandlesStep, EndsStep, Typed, WaitingOK
  <2>3. PICK id : id = m.id
    OBVIOUS
  <2>4. /\ \A t : Writes(t) \subseteq 1 .. id - 1
        /\ \A t : Writes(t)' = Writes(t) \cup {n \in {id} : m.r.op = "pipeWrite" /\ m.r.tree = t}
        /\ handled \in Nat /\ id \in Nat /\ handled < id /\ handled' = id
        /\ \A n : RequestOf(n)' = RequestOf(n) /\ (Alone(n)' <=> Alone(n))
        /\ RequestOf(id) = m.r
    BY <2>1, <2>2, <2>3, WritesFacts, SMTT(20)
  <2>5. ~Ended
    BY <1>4 DEF Serves, Ended
  <2>6. nextTree \in Nat /\ DOMAIN byId \subseteq 1 .. nextTree - 1
    BY <1>1 DEF TablesOK
  <2>7. ASSUME m.r.op # "pipeWrite", replies' = replies, nextTree' \in Nat, nextTree <= nextTree',
               \A t \in DOMAIN byId' :
                  \/ t \in DOMAIN byId /\ byId'[t].dceReq = byId[t].dceReq
                  \/ t = nextTree /\ byId'[t].dceReq = <<>>
        PROVE  PipesInv'
    <3>1. Writes(nextTree) = {}
      BY <2>5, <2>6, SMTT(20) DEF PipesInv
    <3>2. PICK P : P = {}
      OBVIOUS
    <3>3. \A t : Writes(t)' = Writes(t) \cup {n \in {id} : t \in P}
      BY <2>4, <2>7, <3>2
    <3>4. \A t \in DOMAIN byId' :
            \/ t \in DOMAIN byId /\ byId'[t].dceReq = byId[t].dceReq /\ (t \in P => ~Alone(id))
            \/ t \notin P /\ Writes(t) = {} /\ byId'[t].dceReq = <<>>
      BY <2>7, <3>1, <3>2
    <3>5. ~Ended' => P \subseteq 1 .. nextTree' - 1
      BY <3>2
    <3> QED BY <1>0, <2>4, <2>6, <2>7, <3>3, <3>4, <3>5, PipesQuiet
  <2>8. CASE UNCHANGED tables /\ m.r.op # "pipeWrite"
    BY <2>6, <2>7, <2>8, SMTT(20) DEF tables
  <2>9. ASSUME UNCHANGED tables, m.r.op = "pipeWrite", m.r.tree \in DOMAIN byId => ~Alone(id),
               ~Ended' => m.r.tree \in DOMAIN byId
        PROVE  PipesInv'
    <3>1. \A t : Writes(t)' = Writes(t) \cup {n \in {id} : t \in {m.r.tree}}
      BY <2>4, <2>9
    <3>2. UNCHANGED <<byId, replies, nextTree>>
      BY <2>9 DEF tables
    <3>3. \A t \in DOMAIN byId' :
            t \in DOMAIN byId /\ byId'[t].dceReq = byId[t].dceReq /\ (t \in {m.r.tree} => ~Alone(id))
      BY <2>9, <3>2
    <3>4. ~Ended' => {m.r.tree} \subseteq 1 .. nextTree' - 1
      BY <2>6, <2>9, <3>2
    <3>5. nextTree' \in Nat /\ nextTree <= nextTree'
      BY <2>6, <3>2, SMTT(20)
    <3> QED BY <1>0, <2>4, <2>6, <3>1, <3>2, <3>3, <3>4, <3>5, PipesQuiet
  <2>10. CASE EndsStep
    <3>1. UNCHANGED tables /\ (m.r.op = "pipeWrite" => m.r.tree \notin DOMAIN byId)
      BY <2>1, <2>10 DEF EndsStep, NoTree, PipeFails
    <3>2. Ended'
      BY <2>10, EndsEnded
    <3> QED BY <2>8, <2>9, <3>1, <3>2
  <2>11. CASE Handle(m)
    <3>1. CASE TreeConnect(m) \/ TreeDisconnect(m)
      <4>1. m.r.op # "pipeWrite"
        BY <3>1 DEF TreeConnect, TreeDisconnect
      <4> QED BY <1>1, <2>7, <3>1, <4>1, TreesKeepWaiting
    <3>2. CASE PipeWrite(m)
      <4>1. PICK s : s = m.r.tree
        OBVIOUS
      <4>2. PICK kind \in DceKinds(m.r) :
              /\ s \in DOMAIN byId /\ m.r.op = "pipeWrite" /\ UNCHANGED <<byName, granted, nextTree, replies>>
              /\ byId' = [byId EXCEPT ![s].dceReq = <<[id |-> id, kind |-> kind]>>]
        BY <2>3, <3>2, <4>1 DEF PipeWrite, OnPipe, OnTree
      <4>3. <<[id |-> id, kind |-> kind]>> \in Seq(Waiting)
        <5>1. [id |-> id, kind |-> kind] \in Waiting
          BY <2>4 DEF Waiting, DceKinds
        <5> QED BY <5>1, SMTT(20)
      <4>4. /\ SameTrees /\ byId'[s].dceReq = <<[id |-> id, kind |-> kind]>>
            /\ \A t \in DOMAIN byId \ {s} : byId'[t] = byId[t]
        BY <1>1, <4>2, <4>3, PipeKeepsTrees
      <4>5. DOMAIN byId' = DOMAIN byId
        BY <4>4 DEF SameTrees
      <4>6. \A t : Writes(t)' = Writes(t) \cup {n \in {id} : s = t}
        BY <2>4, <4>1, <4>2
      <4> QED BY <1>0, <1>1, <2>4, <4>2, <4>4, <4>5, <4>6, PipesWrite, SMTT(20)
    <3>3. CASE PipeRead(m)
      <4>1. PICK s : s = m.r.tree
        OBVIOUS
      <4>2. s \in DOMAIN byId /\ m.r.op # "pipeWrite" /\ UNCHANGED <<byName, granted, nextTree>>
        BY <3>3, <4>1 DEF PipeRead, OnPipe, OnTree
      <4>3. CASE UNCHANGED <<byId, replies>>
        BY <2>6, <2>7, <4>2, <4>3, SMTT(20)
      <4>4. CASE ~UNCHANGED <<byId, replies>>
        <5>1. /\ byId' = [byId EXCEPT ![s].dceReq = <<>>] /\ byId[s].dceReq # <<>>
              /\ replies' = Put(replies, id, byId[s].dceReq[1].id)
          BY <2>3, <3>3, <4>1, <4>4 DEF PipeRead
        <5>2. <<>> \in Seq(Waiting) /\ byId[s].dceReq \in Seq(Waiting)
          BY <1>1, <4>2, SMTT(20) DEF TablesOK, Tree
        <5>3. /\ SameTrees /\ byId'[s].dceReq = <<>>
              /\ \A t \in DOMAIN byId \ {s} : byId'[t] = byId[t]
          BY <1>1, <4>2, <5>1, <5>2, PipeKeepsTrees
        <5>4. DOMAIN byId' = DOMAIN byId
          BY <5>3 DEF SameTrees
        <5>5. byId[s].dceReq[1].id \in WaitingIds(s)
          <6>1. 1 \in DOMAIN byId[s].dceReq
            BY <5>1, <5>2, SMTT(20)
          <6> QED BY <6>1 DEF WaitingIds
        <5>6. \A t : Writes(t)' = Writes(t)
          BY <2>4, <4>2
        <5>7. RequestOf(id).tree = s
          BY <2>4, <4>1
        <5> QED BY <1>0, <2>4, <4>2, <5>1, <5>3, <5>4, <5>5, <5>6, <5>7, PipesRead
      <4> QED BY <4>3, <4>4
    <3>4. CASE UNCHANGED tables /\ m.r.op = "pipeWrite" /\ ~PipeWrite(m)
      <4>1. m.ctx # None /\ m.r.tree \in DOMAIN byId
        BY <2>11, <3>4, WriteHandlers
      <4>2. ~Alone(id)
        BY <2>1, <2>2, <2>3, <4>1 DEF AloneInv
      <4> QED BY <2>9, <3>4, <4>1, <4>2
    <3> QED BY <2>8, <2>11, <3>1, <3>2, <3>3, <3>4, HandleTables
  <2> QED BY <1>4, <2>1, <2>10, <2>11 DEF HandlesStep
<1> QED BY <1>3, <1>4, StepKinds

(* At first nothing was written to a pipe. *)
LEMMA PipesInit ==
  ASSUME Init
  PROVE  AloneInv /\ PipesInv
<1>1. /\ DOMAIN replies = {} /\ DOMAIN byId = {} /\ handled = 0 /\ nextTree = 1 /\ handed = <<>>
      /\ current = None
  BY SMTT(20) DEF Init, DispatchInit
<1>2. \A t : Writes(t) = {}
  BY <1>1, SMTT(20) DEF Writes, Handled
<1> QED BY <1>1, <1>2 DEF AloneInv, PipesInv

(* ipcTree.write and ipcTree.read: the requests written to a pipe are       *)
(* answered in their order, none twice, and none that was written by itself *)
(* is lost without a later write (RepliesInOrder), for every sequence of    *)
(* packets, whichever opens of the pipe they come through.                  *)
THEOREM PipesReplyInOrder == Spec => []RepliesInOrder
<1> DEFINE Inv == ShutdownInv /\ Typed /\ InOrder /\ TablesInv /\ AloneInv /\ PipesInv
<1>1. Init => Inv
  BY InitShutdownInv, TypedInit, InOrderInit, TablesInit, PipesInit
<1>2. Inv /\ [Next]_vars => Inv'
  BY ShutdownInvNext, TypedNext, InOrderNext, TablesNext, AloneNext, PipesNext
<1>3. Inv => RepliesInOrder
  <2> SUFFICES ASSUME PipesInv PROVE RepliesInOrder
    OBVIOUS
  <2>1. \A t : \A w \in WaitingIds(t) : \E q \in DOMAIN byId[t].dceReq : byId[t].dceReq[q].id = w
    BY DEF WaitingIds
  <2> QED BY <2>1 DEF PipesInv, RepliesInOrder
<1> QED BY <1>1, <1>2, <1>3, PTL DEF Spec

============================================================================
