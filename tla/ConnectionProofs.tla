------------------------- MODULE ConnectionProofs -------------------------
(* Every caller of sendPacket waits for exactly one packet or result, and   *)
(* STATUS_PENDING comes first, whatever the client sends and the capacities *)
(* of the channels.                                                         *)
EXTENDS Connection, FiniteSetTheorems, TLAPS

(* Types, and what the receiver and the dispatcher are about. *)
Typed ==
    /\ script \in Scripts
    /\ read \in 0 .. Len(script) /\ rpc \in {"read", "set", "offer", "exit", "done"}
    /\ rpc \in {"set", "offer"} => read \in Message
    /\ requests \in [Id -> Message \cup {0}]
    /\ dpc \in {"pop", "take", "send", "wait", "done"}
    /\ dpc = "take" => dmsg \in Id
    /\ dpc \in {"send", "wait"} => dmsg \in Message \ Async
    /\ apc \in [Slots -> Apc]
    /\ write \in Seq(Packet) /\ werr \in Seq(Result)
    /\ spc \in {"select", "result", "done"} /\ result \in Result

(* A request in the map was not dispatched, nor is the one just read: the   *)
(* goroutine of an asynchronous request is started once.                    *)
Behind(i) == i <= read /\ (rpc = "set" => i # read)
StartedOnce ==
    /\ \A d \in Id : requests[d] # 0 =>
           /\ Behind(requests[d]) /\ script[requests[d]].id = d
           /\ requests[d] \in Slots => apc[requests[d]] = "none"
    /\ \A i \in Slots : apc[i] # "none" => Behind(i)

Waiters == {i \in Slots : apc[i] \in {"waitPending", "waitFinal"}}
Counted == IsFiniteSet(Waiters) /\ ResultPerWaiter

(* STATUS_PENDING is sent, or ahead in the queue of whatever comes after.   *)
PendingOf(i) == [msg |-> i, part |-> "pending"]
FinalOf(i) == [msg |-> i, part |-> "final"]
Ahead(i, j) == PendingOf(i) \in sent \/ \E k \in 1 .. (j - 1) : write[k] = PendingOf(i)
Alive == ~cancelled /\ open /\ peer
Ordered ==
    Alive => \A i \in Async :
        /\ apc[i] \in {"waitPending", "sendFinal", "waitFinal", "done"} => Ahead(i, Len(write) + 1)
        /\ \A j \in 1 .. Len(write) : write[j] = FinalOf(i) => Ahead(i, j)

(* What TypeOK says of the rest: capacities, flags and histories.           *)
Bounded ==
    /\ dmsg \in Id \cup Message \cup {0}
    /\ Len(write) <= WriteCap /\ Len(werr) <= 1
    /\ {locked, cancelled, wdone, open, peer} \subseteq BOOLEAN
    /\ dispatched \in Seq(Message)
    /\ sent \in SUBSET Packet

(* No two messages of a script have the same id.                            *)
DistinctIds == \A s \in Scripts : \A i, j \in DOMAIN s : s[i].id = s[j].id => i = j

(* What was read and is for a handler was given to one, or is in the hands  *)
(* of the dispatcher or, behind that, of the receiver.                      *)
Last == IF dispatched = << >> THEN 0 ELSE dispatched[Len(dispatched)]
InHand(m) == requests[dmsg] = m /\ NextTaken(Last, m) /\ m <= read /\ (rpc \in {"set", "offer"} => m < read)
Pipeline ==
    /\ Last \in 0 .. read
    /\ rpc \in {"set", "offer"} => Taken(read) /\ Last < read
    /\ rpc = "offer" => requests[script[read].id] = read
    /\ dpc = "take" => \E m \in Message : InHand(m)
    /\ \A i \in (Last + 1) .. read :
           Taken(i) => (rpc \in {"set", "offer"} /\ i = read) \/ (dpc = "take" /\ requests[dmsg] = i)

ConnInv == Typed /\ Bounded /\ StartedOnce /\ Counted /\ Ordered /\ PendingFirst

(* The script is a sequence of requests, and its asynchronous ones have a   *)
(* goroutine.                                                               *)
LEMMA ScriptFacts ==
    ASSUME script \in Scripts
    PROVE  /\ Len(script) \in Nat /\ Message \subseteq Nat \ {0} /\ Async \subseteq Message
           /\ Async \subseteq Slots /\ Slots \subseteq Nat \ {0}
           /\ \A m \in Message : script[m].id \in Id
<1>1. script \in Seq([id : Nat, kind : Kind])
  BY ConnectionAssumption, Zenon
<1>2. DOMAIN script = Message /\ Len(script) \in Nat
  BY <1>1 DEF Message
<1>3. Async \subseteq Slots
  BY <1>2 DEF Async, Slots
<1>4. Slots \subseteq Nat \ {0}
  <2>1. \A s \in Scripts : DOMAIN s = 1 .. Len(s) /\ Len(s) \in Nat
    BY ConnectionAssumption
  <2>2. \A i \in Slots : \E s \in Scripts : i \in DOMAIN s
    BY DEF Slots
  <2> QED
    BY <2>1, <2>2
<1> QED
  BY <1>2, <1>3, <1>4 DEF Message, Async, Id

(* The empty connection. *)
LEMMA InitConnInv == Init => ConnInv
<1> SUFFICES ASSUME Init PROVE ConnInv
  OBVIOUS
<1>1. Typed
  BY ScriptFacts DEF Init, Typed, Apc, Result
<1>2. StartedOnce
  BY DEF Init, StartedOnce
<1>3. Waiters = {}
  BY DEF Init, Waiters
<1>4. Counted
  <2>1. IsFiniteSet(Waiters) /\ Cardinality(Waiters) = 0
    BY <1>3, FS_EmptySet
  <2>2. Len(write) = 0 /\ Len(werr) = 0 /\ dpc # "wait" /\ spc # "result"
    BY DEF Init
  <2> QED
    BY <2>1, <2>2 DEF Counted, ResultPerWaiter, Waiters
<1>5. Ordered /\ PendingFirst
  <2>1. \A k \in Async : apc[k] = "none"
    BY ScriptFacts DEF Init
  <2> QED
    BY <2>1 DEF Init, Ordered, PendingFirst
<1>6. Bounded
  <2>1. {locked, cancelled, wdone, open, peer} \subseteq BOOLEAN
    BY Zenon DEF Init
  <2>2. dmsg = 0 /\ Len(write) = 0 /\ Len(werr) = 0 /\ dispatched = << >> /\ sent = {}
    BY DEF Init
  <2> QED
    BY <2>1, <2>2, ConnectionAssumption DEF Bounded
<1> QED
  BY <1>1, <1>2, <1>4, <1>5, <1>6 DEF ConnInv

(* The packets that the dispatcher and the goroutines put in the queue.     *)
LEMMA EnqueueTyped ==
    ASSUME write \in Seq(Packet), NEW m \in Message, NEW part \in Part, Enqueue(m, part)
    PROVE  write' \in Seq(Packet) /\ Len(write') = Len(write) + 1 /\ write' = Append(write, [msg |-> m, part |-> part])
BY DEF Enqueue, Packet

(* Taking the first of a sequence. *)
LEMMA TailTyped ==
    ASSUME NEW S, NEW s \in Seq(S), s # << >>
    PROVE  /\ Head(s) \in S /\ Tail(s) \in Seq(S) /\ Len(s) \in Nat \ {0} /\ Len(Tail(s)) = Len(s) - 1
           /\ \A k \in 1 .. Len(Tail(s)) : Tail(s)[k] = s[k + 1]
OBVIOUS

(* Types are kept by every step. *)
LEMMA TypedNext == Typed /\ StartedOnce /\ Next => Typed'
<1> SUFFICES ASSUME Typed, StartedOnce, Next PROVE Typed'
  OBVIOUS
<1> USE DEF receiver, dispatcher, sender, channels, life
<1>0. /\ Len(script) \in Nat /\ Message \subseteq Nat \ {0} /\ Async \subseteq Message
      /\ Async \subseteq Slots /\ Slots \subseteq Nat \ {0}
      /\ \A m \in Message : script[m].id \in Id
  BY ScriptFacts DEF Typed
<1>1. ASSUME UNCHANGED script PROVE UNCHANGED <<Message, Id, Async, Packet>>
  BY <1>1 DEF Message, Id, Async, Packet
<1>2. CASE ReadMessage
  BY <1>2, <1>0, <1>1 DEF ReadMessage, Typed, Message
<1>3. CASE ReadFails \/ ReceiverExit \/ PeerLeaves \/ ServerShutdown \/ SenderStops
  BY <1>3, <1>1 DEF ReadFails, ReceiverExit, PeerLeaves, ServerShutdown, SenderStops, Shutdown, Typed
<1>4. CASE SetRequest
  BY <1>4, <1>0, <1>1, Zenon DEF SetRequest, Typed
<1>5. CASE Offer
  BY <1>5, <1>0, <1>1 DEF Offer, Typed
<1>6. CASE PopCancelled
  BY <1>6, <1>1 DEF PopCancelled, RunReturns, Typed
<1>7. CASE Take
  <2>1. dmsg \in Id /\ requests' = [requests EXCEPT ![dmsg] = 0]
    BY <1>7 DEF Take, Typed
  <2>2. UNCHANGED <<script, read, rpc, write, werr, spc, result>>
    BY <1>7 DEF Take
  <2>3. CASE requests[dmsg] = 0
    BY <1>7, <2>1, <2>2, <2>3, <1>1, Zenon DEF Take, Typed
  <2>4. CASE requests[dmsg] # 0
    <3> DEFINE m == requests[dmsg]
    <3>1. m \in Message /\ Handle(m)
      BY <1>7, <2>1, <2>4 DEF Take, Typed
    <3>2. CASE script[m].kind = "sync"
      BY <3>1, <3>2, <2>1, <2>2, <1>1, Zenon DEF Handle, Typed, Async
    <3>3. CASE script[m].kind = "async"
      <4>1. m \in Slots
        BY <3>1, <3>3, <1>0 DEF Async
      <4> QED
        BY <3>1, <3>3, <4>1, <2>1, <2>2, <1>1, Zenon DEF Handle, Typed, Apc
    <3>4. CASE script[m].kind \notin {"sync", "async"}
      BY <3>1, <3>4, <2>1, <2>2, <1>1, Zenon DEF Handle, RunReturns, Typed
    <3> QED
      BY <3>2, <3>3, <3>4
  <2> QED
    BY <2>3, <2>4
<1>8. CASE DispatcherSend
  <2>1. dmsg \in Message /\ "final" \in Part
    BY <1>8 DEF DispatcherSend, Typed, Part
  <2> QED
    BY <1>8, <2>1, <1>1, EnqueueTyped, Zenon DEF DispatcherSend, RunReturns, Typed
<1>9. CASE DispatcherWait
  <2>1. werr' \in Seq(Result)
    <3>1. werr' = werr \/ (werr # << >> /\ werr' = Tail(werr))
      BY <1>9 DEF DispatcherWait
    <3>2. werr \in Seq(Result)
      BY DEF Typed
    <3> QED
      BY <3>1, <3>2, TailTyped
  <2>2. dpc' \in {"pop", "done"} /\ UNCHANGED <<script, read, rpc, requests, apc, write, spc, result>>
    BY <1>9 DEF DispatcherWait, RunReturns
  <2> QED
    BY <2>1, <2>2, <1>1 DEF Typed
<1>10. CASE SenderWrites
  <2>1. write' \in Seq(Packet) /\ result' \in Result /\ spc' = "result"
    BY <1>10, TailTyped DEF SenderWrites, Typed, Result
  <2>2. UNCHANGED <<script, read, rpc, requests, dpc, dmsg, apc, werr>>
    BY <1>10 DEF SenderWrites
  <2> QED
    BY <2>1, <2>2, <1>1 DEF Typed
<1>12. CASE SenderReports
  <2>1. werr' \in Seq(Result) /\ spc' = "select"
    BY <1>12 DEF SenderReports, Typed
  <2>2. UNCHANGED <<script, read, rpc, requests, dpc, dmsg, apc, write, result>>
    BY <1>12 DEF SenderReports
  <2> QED
    BY <2>1, <2>2, <1>1 DEF Typed
<1>11. ASSUME NEW i \in Slots, AsyncStep(i) PROVE Typed'
  <2>1. apc[i] # "none" => i \in Message
    BY <1>0 DEF StartedOnce, Behind, Typed, Message
  <2>2. UNCHANGED <<script, read, rpc, requests, dpc, dmsg, spc, result>>
    BY <1>11 DEF AsyncStep, AsyncStart, AsyncSend, AsyncWait
  <2>3. \E l \in Apc : apc' = [apc EXCEPT ![i] = l]
    BY <1>11 DEF AsyncStep, AsyncStart, AsyncSend, AsyncWait, AsyncMove, Apc
  <2>4. apc' \in [Slots -> Apc]
    BY <2>3 DEF Typed
  <2>5. werr' \in Seq(Result)
    <3>1. werr' = werr \/ (werr # << >> /\ werr' = Tail(werr))
      BY <1>11 DEF AsyncStep, AsyncStart, AsyncSend, AsyncWait
    <3>2. werr \in Seq(Result)
      BY DEF Typed
    <3> QED
      BY <3>1, <3>2, TailTyped
  <2>6. write' \in Seq(Packet)
    BY <1>11, <2>1, EnqueueTyped, Zenon DEF AsyncStep, AsyncStart, AsyncSend, AsyncWait, Typed, Part
  <2> QED
    BY <2>2, <2>4, <2>5, <2>6, <1>1 DEF Typed
<1> QED
  BY <1>2, <1>3, <1>4, <1>5, <1>6, <1>7, <1>8, <1>9, <1>10, <1>11, <1>12
     DEF Next, ReceiverStep, DispatcherStep, SenderStep

(* A request enters the map only when it was read, and leaves it when it is *)
(* dispatched; what is read next is later.                                  *)
LEMMA StartedOnceNext == Typed /\ StartedOnce /\ Next => StartedOnce'
<1> SUFFICES ASSUME Typed, StartedOnce, Next PROVE StartedOnce'
  OBVIOUS
<1> USE DEF receiver, dispatcher, sender, channels, life
<1>0. /\ Len(script) \in Nat /\ Message \subseteq Nat \ {0} /\ Async \subseteq Message
      /\ Async \subseteq Slots /\ Slots \subseteq Nat \ {0}
      /\ \A m \in Message : script[m].id \in Id
  BY ScriptFacts DEF Typed
<1>1. ASSUME UNCHANGED script PROVE UNCHANGED <<Message, Id, Async>>
  BY <1>1 DEF Message, Id, Async
<1>2. CASE UNCHANGED <<script, requests, apc>> /\ (\A i : Behind(i) => Behind(i)')
  BY <1>1, <1>2 DEF StartedOnce
<1>3. CASE ReadMessage
  <2>1. /\ read \in Nat /\ read' = read + 1 /\ UNCHANGED <<script, requests, apc>>
    BY <1>3, <1>0 DEF ReadMessage, Typed
  <2>2. \A i \in Nat : Behind(i) => Behind(i)'
    BY <2>1 DEF Behind
  <2>3. \A d \in Id : requests[d] \in Nat
    <3>1. \A d \in Id : requests[d] \in Message \cup {0}
      BY DEF Typed
    <3>2. Message \subseteq Nat /\ 0 \in Nat
      BY <1>0
    <3> QED
      BY <3>1, <3>2, Zenon
  <2> QED
    BY <1>0, <1>1, <2>1, <2>2, <2>3, Zenon DEF StartedOnce
<1>4. CASE ReadFails \/ ReceiverExit \/ PeerLeaves \/ ServerShutdown \/ SenderStep \/ Offer
           \/ PopCancelled \/ DispatcherSend \/ DispatcherWait
  <2>1. UNCHANGED <<script, read, requests, apc>> /\ (rpc' = "set" => rpc = "set")
    BY <1>4 DEF ReadFails, ReceiverExit, PeerLeaves, ServerShutdown, SenderStep, SenderStops, SenderWrites,
                SenderReports, Offer, PopCancelled, DispatcherSend, DispatcherWait
  <2> QED
    BY <1>2, <2>1, SMTT(30) DEF Behind
<1>5. CASE SetRequest
  <2>1. /\ read \in Message /\ read \in Nat /\ requests' = [requests EXCEPT ![script[read].id] = read]
        /\ rpc = "set" /\ rpc' = "offer" /\ UNCHANGED <<script, read, apc>>
    BY <1>5, <1>0 DEF SetRequest, Typed
  <2>2. \A d \in Id : requests'[d] = IF d = script[read].id THEN read ELSE requests[d]
    BY <2>1 DEF Typed
  <2>3. \A i : Behind(i) => Behind(i)'
    BY <2>1 DEF Behind
  <2>4. Behind(read)' /\ (read \in Slots => apc[read] = "none")
    BY <2>1 DEF Behind, StartedOnce
  <2> QED
    BY <2>1, <2>2, <2>3, <2>4, <1>1 DEF StartedOnce
<1>6. CASE Take
  <2>1. dmsg \in Id /\ requests' = [requests EXCEPT ![dmsg] = 0] /\ UNCHANGED <<script, read, rpc>>
    BY <1>6 DEF Take, Typed
  <2>2. \A d \in Id : requests'[d] = IF d = dmsg THEN 0 ELSE requests[d]
    BY <2>1 DEF Typed
  <2>3. \A i : Behind(i)' <=> Behind(i)
    BY <2>1 DEF Behind
  <2>4. CASE UNCHANGED apc
    BY <2>1, <2>2, <2>3, <2>4, <1>1, SMTT(30) DEF StartedOnce
  <2>5. CASE requests[dmsg] # 0 /\ requests[dmsg] \in Slots /\ apc' = [apc EXCEPT ![requests[dmsg]] = "spawned"]
    <3> DEFINE m == requests[dmsg]
    <3>1. \A i \in Slots : apc'[i] = IF i = m THEN "spawned" ELSE apc[i]
      BY <2>5 DEF Typed
    <3>2. Behind(m) /\ script[m].id = dmsg
      BY <2>1, <2>5 DEF StartedOnce
    <3>3. \A d \in Id : requests'[d] # 0 => d # dmsg /\ requests'[d] = requests[d] /\ requests[d] # m
      BY <2>1, <2>2, <3>2 DEF StartedOnce
    <3> QED
      BY <2>1, <2>3, <3>1, <3>2, <3>3, <1>1 DEF StartedOnce
  <2>6. UNCHANGED apc \/ (requests[dmsg] # 0 /\ requests[dmsg] \in Slots
                          /\ apc' = [apc EXCEPT ![requests[dmsg]] = "spawned"])
    <3>1. requests[dmsg] # 0 => requests[dmsg] \in Message
      BY <2>1 DEF Typed
    <3>2. requests[dmsg] # 0 /\ script[requests[dmsg]].kind = "async" => requests[dmsg] \in Slots
      BY <3>1, <1>0 DEF Async
    <3> QED
      BY <1>6, <3>2 DEF Take, Handle
  <2> QED
    BY <2>4, <2>5, <2>6
<1>7. ASSUME NEW i \in Slots, AsyncStep(i) PROVE StartedOnce'
  <2>1. UNCHANGED <<script, read, rpc, requests>> /\ apc[i] # "none"
    BY <1>7 DEF AsyncStep, AsyncStart, AsyncSend, AsyncWait
  <2>2. \E l \in Apc : apc' = [apc EXCEPT ![i] = l]
    BY <1>7 DEF AsyncStep, AsyncStart, AsyncSend, AsyncWait, AsyncMove, Apc
  <2>3. \A j \in Slots \ {i} : apc'[j] = apc[j]
    BY <2>2 DEF Typed
  <2>4. \A j : Behind(j)' <=> Behind(j)
    BY <2>1 DEF Behind
  <2> QED
    BY <2>1, <2>3, <2>4, <1>1, SMTT(30) DEF StartedOnce
<1> QED
  BY <1>3, <1>4, <1>5, <1>6, <1>7 DEF Next, ReceiverStep, DispatcherStep

(* Whether a goroutine there waits for the result of a sendPacket.          *)
WaitOf(l) == IF l \in {"waitPending", "waitFinal"} THEN 1 ELSE 0

(* How the number of goroutines that wait changes when one of them moves.   *)
LEMMA WaitersMove ==
    ASSUME apc \in [Slots -> Apc], IsFiniteSet(Waiters), NEW i \in Slots, NEW l, apc' = [apc EXCEPT ![i] = l]
    PROVE  IsFiniteSet(Waiters') /\ Cardinality(Waiters') = Cardinality(Waiters) + WaitOf(l) - WaitOf(apc[i])
<1>0. Cardinality(Waiters) \in Nat
  BY FS_CardinalityType
<1>1. apc'[i] = l /\ \A j \in Slots \ {i} : apc'[j] = apc[j]
  OBVIOUS
<1>2. CASE WaitOf(l) = WaitOf(apc[i])
  <2>1. Waiters' = Waiters
    BY <1>1, <1>2 DEF Waiters, WaitOf
  <2>2. WaitOf(l) \in Int
    BY DEF WaitOf
  <2> QED
    BY <1>0, <1>2, <2>1, <2>2
<1>3. CASE WaitOf(l) = 1 /\ WaitOf(apc[i]) = 0
  <2>1. Waiters' = Waiters \cup {i} /\ i \notin Waiters
    BY <1>1, <1>3 DEF Waiters, WaitOf
  <2>2. IsFiniteSet(Waiters') /\ Cardinality(Waiters') = Cardinality(Waiters) + 1
    BY <2>1, FS_AddElement
  <2> QED
    BY <1>0, <1>3, <2>2
<1>4. CASE WaitOf(l) = 0 /\ WaitOf(apc[i]) = 1
  <2>1. Waiters' = Waiters \ {i} /\ i \in Waiters
    BY <1>1, <1>4 DEF Waiters, WaitOf
  <2>2. IsFiniteSet(Waiters') /\ Cardinality(Waiters') = Cardinality(Waiters) - 1
    BY <2>1, FS_RemoveElement
  <2> QED
    BY <1>0, <1>4, <2>2
<1> QED
  BY <1>2, <1>3, <1>4 DEF WaitOf

(* What is owed to the callers that wait: packets and results.              *)
DispatcherWaits == IF dpc = "wait" THEN 1 ELSE 0
Owed == Len(write) + Len(werr) + (IF spc = "result" THEN 1 ELSE 0)

(* Every step changes the callers that wait and what is owed to them by the *)
(* same number.                                                             *)
LEMMA CountedNext == Typed /\ StartedOnce /\ Counted /\ Next => Counted'
<1> SUFFICES ASSUME Typed, StartedOnce, Counted, Next PROVE Counted'
  OBVIOUS
<1> USE DEF receiver, dispatcher, sender, channels, life
<1>0. /\ IsFiniteSet(Waiters) /\ Cardinality(Waiters) \in Nat
      /\ ~cancelled => Cardinality(Waiters) + DispatcherWaits = Owed
      /\ Len(write) \in Nat /\ Len(werr) \in Nat
  BY FS_CardinalityType DEF Counted, ResultPerWaiter, Waiters, DispatcherWaits, Owed, Typed
<1>1. ASSUME IsFiniteSet(Waiters'), ~cancelled' => (Cardinality(Waiters) + DispatcherWaits = Owed)'
      PROVE  Counted'
  BY <1>1 DEF Counted, ResultPerWaiter, Waiters, DispatcherWaits, Owed
<1>2. CASE UNCHANGED <<apc, write, werr, spc, cancelled>> /\ (dpc' = "wait" <=> dpc = "wait")
  BY <1>0, <1>1, <1>2 DEF Waiters, DispatcherWaits, Owed
<1>3. CASE ReceiverStep \/ Offer \/ PopCancelled \/ PeerLeaves \/ ServerShutdown
  <2>1. /\ UNCHANGED <<apc, write, werr, spc>> /\ (dpc' = "wait" <=> dpc = "wait")
        /\ cancelled' \/ UNCHANGED cancelled
    BY <1>3 DEF ReceiverStep, ReadMessage, ReadFails, SetRequest, ReceiverExit, Offer, PopCancelled, PeerLeaves,
                ServerShutdown, RunReturns, Shutdown
  <2> QED
    BY <1>0, <1>1, <2>1 DEF Waiters, DispatcherWaits, Owed
<1>4. CASE Take
  <2>1. UNCHANGED <<write, werr, spc, cancelled>> /\ dpc # "wait" /\ dpc' # "wait"
    BY <1>4 DEF Take, Handle, RunReturns, Continue
  <2>2. CASE UNCHANGED apc
    BY <1>2, <2>1, <2>2, SMTT(30)
  <2>3. CASE ~UNCHANGED apc
    <3> DEFINE m == requests[dmsg]
    <3>1. m # 0 /\ script[m].kind = "async" /\ apc' = [apc EXCEPT ![m] = "spawned"]
      BY <1>4, <2>3 DEF Take, Handle
    <3>2. m \in Message /\ dmsg \in Id
      BY <1>4, <3>1 DEF Take, Typed
    <3>3. m \in Slots
      BY <3>1, <3>2, ScriptFacts DEF Async, Typed
    <3>4. apc[m] = "none"
      BY <3>1, <3>2, <3>3 DEF StartedOnce
    <3>5. IsFiniteSet(Waiters') /\ Cardinality(Waiters') = Cardinality(Waiters) + WaitOf("spawned") - WaitOf(apc[m])
      BY <3>1, <3>3, <1>0, WaitersMove, Zenon DEF Typed
    <3>6. WaitOf("spawned") = 0 /\ WaitOf(apc[m]) = 0
      BY <3>4 DEF WaitOf
    <3> QED
      BY <1>0, <1>1, <2>1, <3>5, <3>6, SMTT(30) DEF DispatcherWaits, Owed
  <2> QED
    BY <2>2, <2>3
<1>5. CASE DispatcherSend
  <2>1. CASE Enqueue(dmsg, "final") /\ dpc' = "wait"
    <3>1. Len(write') = Len(write) + 1
      BY <2>1 DEF Enqueue, Typed
    <3>2. UNCHANGED <<apc, werr, spc>> /\ dpc = "send" /\ (~cancelled' => ~cancelled)
      BY <1>5 DEF DispatcherSend, RunReturns
    <3> QED
      BY <1>0, <1>1, <2>1, <3>1, <3>2 DEF Waiters, DispatcherWaits, Owed
  <2>2. CASE cancelled /\ RunReturns
    <3>1. cancelled' /\ UNCHANGED apc
      BY <1>5, <2>2 DEF DispatcherSend, RunReturns
    <3> QED
      BY <1>0, <1>1, <3>1 DEF Waiters
  <2> QED
    BY <1>5, <2>1, <2>2 DEF DispatcherSend
<1>6. CASE DispatcherWait
  <2>1. UNCHANGED <<apc, write, spc, cancelled>> /\ dpc = "wait" /\ dpc' # "wait"
    BY <1>6 DEF DispatcherWait, RunReturns
  <2>2. CASE werr # << >> /\ werr' = Tail(werr)
    <3>1. Len(werr') = Len(werr) - 1
      BY <2>2, TailTyped DEF Typed
    <3> QED
      BY <1>0, <1>1, <2>1, <3>1 DEF Waiters, DispatcherWaits, Owed
  <2>3. CASE cancelled
    BY <1>0, <1>1, <2>1, <2>3 DEF Waiters
  <2> QED
    BY <1>6, <2>2, <2>3 DEF DispatcherWait
<1>7. CASE SenderStep
  <2>1. UNCHANGED <<apc, dpc, cancelled>>
    BY <1>7 DEF SenderStep, SenderStops, SenderWrites, SenderReports
  <2>2. CASE SenderStops
    BY <1>0, <1>1, <2>1, <2>2, SMTT(30) DEF SenderStops, Waiters, DispatcherWaits, Owed
  <2>3. CASE SenderWrites
    <3>1. Len(write') = Len(write) - 1
      BY <2>3, TailTyped DEF SenderWrites, Typed
    <3> QED
      BY <1>0, <1>1, <2>1, <2>3, <3>1, SMTT(30) DEF SenderWrites, Waiters, DispatcherWaits, Owed
  <2>4. CASE SenderReports
    <3>1. Len(werr) = 0 /\ Len(werr') = 1
      BY <2>4 DEF SenderReports
    <3> QED
      BY <1>0, <1>1, <2>1, <2>4, <3>1 DEF SenderReports, Waiters, DispatcherWaits, Owed
  <2> QED
    BY <1>7, <2>2, <2>3, <2>4, SMTT(30) DEF SenderStep
<1>8. ASSUME NEW i \in Slots, AsyncStep(i) PROVE Counted'
  <2>1. UNCHANGED <<dpc, spc, cancelled>>
    BY <1>8, SMTT(30) DEF AsyncStep, AsyncStart, AsyncSend, AsyncWait
  <2>2. ASSUME NEW l, apc' = [apc EXCEPT ![i] = l], ~cancelled => Owed' = Owed + WaitOf(l) - WaitOf(apc[i])
        PROVE  Counted'
    <3>1. IsFiniteSet(Waiters') /\ Cardinality(Waiters') = Cardinality(Waiters) + WaitOf(l) - WaitOf(apc[i])
      BY <1>0, <2>2, WaitersMove, Zenon DEF Typed
    <3>2. Owed \in Int /\ WaitOf(l) \in Int /\ WaitOf(apc[i]) \in Int /\ DispatcherWaits' = DispatcherWaits
          /\ DispatcherWaits \in Int
      BY <1>0, <2>1 DEF Owed, WaitOf, DispatcherWaits
    <3> QED
      BY <1>0, <1>1, <2>1, <2>2, <3>1, <3>2
  <2>3. CASE AsyncStart(i)
    <3>1. apc' = [apc EXCEPT ![i] = "sendPending"] /\ apc[i] = "spawned" /\ UNCHANGED <<write, werr>>
      BY <2>3 DEF AsyncStart, AsyncMove
    <3>2. Owed' = Owed + WaitOf("sendPending") - WaitOf(apc[i])
      BY <1>0, <2>1, <3>1 DEF Owed, WaitOf
    <3> QED
      BY <2>2, <3>1, <3>2, Zenon
  <2>4. ASSUME NEW part, NEW at, NEW wait \in {"waitPending", "waitFinal"}, NEW next, next \notin {"waitPending", "waitFinal"},
               at \notin {"waitPending", "waitFinal"}, AsyncSend(i, part, at, wait, next)
        PROVE  Counted'
    <3>1. apc[i] = at /\ UNCHANGED werr
      BY <2>4 DEF AsyncSend
    <3>2. CASE Enqueue(i, part) /\ AsyncMove(i, wait)
      <4>1. Len(write') = Len(write) + 1
        BY <3>2 DEF Enqueue, Typed
      <4>2. Owed' = Owed + WaitOf(wait) - WaitOf(apc[i])
        BY <1>0, <2>1, <2>4, <3>1, <4>1 DEF Owed, WaitOf
      <4> QED
        BY <2>2, <3>2, <4>2, Zenon DEF AsyncMove
    <3>3. CASE cancelled /\ AsyncMove(i, next)
      BY <2>2, <3>3, Zenon DEF AsyncMove
    <3> QED
      BY <2>4, <3>2, <3>3 DEF AsyncSend
  <2>5. ASSUME NEW at \in {"waitPending", "waitFinal"}, NEW next, next \notin {"waitPending", "waitFinal"}, AsyncWait(i, at, next)
        PROVE  Counted'
    <3>1. apc[i] = at /\ UNCHANGED write /\ AsyncMove(i, next)
      BY <2>5 DEF AsyncWait
    <3>2. CASE werr # << >> /\ werr' = Tail(werr)
      <4>1. Len(werr') = Len(werr) - 1
        BY <3>2, TailTyped DEF Typed
      <4>2. Owed' = Owed + WaitOf(next) - WaitOf(apc[i])
        BY <1>0, <2>1, <2>5, <3>1, <4>1 DEF Owed, WaitOf
      <4> QED
        BY <2>2, <3>1, <4>2, Zenon DEF AsyncMove
    <3>3. CASE cancelled
      BY <2>2, <3>1, <3>3, Zenon DEF AsyncMove
    <3> QED
      BY <2>5, <3>2, <3>3 DEF AsyncWait
  <2> QED
    BY <1>8, <2>3, <2>4, <2>5, SMTT(30) DEF AsyncStep
<1> QED
  BY <1>3, <1>4, <1>5, <1>6, <1>7, <1>8 DEF Next, DispatcherStep

(* What is ahead in the queue stays ahead when a packet is put behind it.   *)
LEMMA AheadAppend ==
    ASSUME write \in Seq(Packet), NEW p \in Packet, write' = Append(write, p), UNCHANGED sent
    PROVE  /\ Len(write) \in Nat /\ Len(write') = Len(write) + 1 /\ write'[Len(write) + 1] = p
           /\ \A k \in 1 .. Len(write) : write'[k] = write[k]
           /\ \A i : \A j \in 1 .. (Len(write) + 1), n \in Nat : j <= n /\ Ahead(i, j) => Ahead(i, n)'
<1>1. /\ Len(write) \in Nat /\ Len(write') = Len(write) + 1 /\ write'[Len(write) + 1] = p
      /\ \A k \in 1 .. Len(write) : write'[k] = write[k]
  OBVIOUS
<1>2. ASSUME NEW i, NEW j \in 1 .. (Len(write) + 1), NEW n \in Nat, j <= n, Ahead(i, j) PROVE Ahead(i, n)'
  <2>1. CASE PendingOf(i) \in sent
    BY <2>1 DEF Ahead, PendingOf
  <2>2. CASE PendingOf(i) \notin sent
    <3>1. PICK k \in 1 .. (j - 1) : write[k] = PendingOf(i)
      BY <1>2, <2>2 DEF Ahead
    <3>2. k \in 1 .. Len(write) /\ k \in 1 .. (n - 1)
      BY <1>1, <1>2
    <3> QED
      BY <1>1, <3>1, <3>2 DEF Ahead, PendingOf
  <2> QED
    BY <2>1, <2>2
<1> QED
  BY <1>1, <1>2

(* STATUS_PENDING stays ahead of the result, from the queue to the client.  *)
LEMMA OrderedNext == Typed /\ StartedOnce /\ Ordered /\ PendingFirst /\ Next => Ordered' /\ PendingFirst'
<1> SUFFICES ASSUME Typed, StartedOnce, Ordered, PendingFirst, Next, Alive' PROVE Ordered' /\ PendingFirst'
  BY DEF Ordered, PendingFirst, Alive
<1> USE DEF receiver, dispatcher, sender, channels, life
<1>0. /\ Message \subseteq Nat \ {0} /\ Async \subseteq Message /\ Async \subseteq Slots
      /\ write \in Seq(Packet) /\ Len(write) \in Nat
  BY ScriptFacts DEF Typed
<1>1. Alive /\ UNCHANGED script
  <2> DEFINE Same == UNCHANGED <<script, cancelled, open, peer>>
  <2>1. CASE ReceiverStep \/ Offer
    <3>1. UNCHANGED script /\ (Same \/ cancelled' = TRUE)
      BY <2>1 DEF ReceiverStep, ReadMessage, ReadFails, SetRequest, ReceiverExit, Shutdown, Offer
    <3>2. CASE Same
      BY <3>2 DEF Alive
    <3>3. CASE cancelled' = TRUE
      BY <3>3 DEF Alive
    <3> QED
      BY <3>1, <3>2, <3>3, Zenon
  <2>2. CASE PopCancelled \/ DispatcherSend \/ DispatcherWait
    <3>1. UNCHANGED script /\ (Same \/ open' = FALSE)
      BY <2>2 DEF PopCancelled, DispatcherSend, DispatcherWait, RunReturns
    <3>2. CASE Same
      BY <3>2 DEF Alive
    <3>3. CASE open' = FALSE
      BY <3>3, ZenonT(40) DEF Alive
    <3> QED
      BY <3>1, <3>2, <3>3, Zenon
  <2>3. CASE Take
    <3>1. UNCHANGED script /\ (Same \/ open' = FALSE)
      BY <2>3 DEF Take, Handle, Continue, RunReturns
    <3>2. CASE Same
      BY <3>2 DEF Alive
    <3>3. CASE open' = FALSE
      BY <3>3 DEF Alive
    <3> QED
      BY <3>1, <3>2, <3>3, Zenon
  <2>4. CASE SenderStep
    <3>1. Same
      BY <2>4, Zenon DEF SenderStep, SenderStops, SenderWrites, SenderReports
    <3> QED
      BY <3>1 DEF Alive
  <2>5. CASE \E i \in Slots : AsyncStep(i)
    <3>1. Same
      BY <2>5 DEF AsyncStep, AsyncStart, AsyncSend, AsyncWait
    <3> QED
      BY <3>1 DEF Alive
  <2>6. CASE PeerLeaves \/ ServerShutdown
    <3>1. UNCHANGED script /\ (cancelled' = TRUE \/ peer' = FALSE)
      BY <2>6 DEF PeerLeaves, ServerShutdown, Shutdown
    <3> QED
      BY <3>1 DEF Alive
  <2> QED
    BY <2>1, <2>2, <2>3, <2>4, <2>5, <2>6 DEF Next, DispatcherStep
<1>2. UNCHANGED Async
  BY <1>1, ZenonT(40) DEF Async, Message
<1>3. /\ \A i \in Async : /\ apc[i] \in {"waitPending", "sendFinal", "waitFinal", "done"} => Ahead(i, Len(write) + 1)
                          /\ \A j \in 1 .. Len(write) : write[j] = FinalOf(i) => Ahead(i, j)
      /\ \A i \in Async : FinalOf(i) \in sent => PendingOf(i) \in sent
  BY <1>1 DEF Ordered, PendingFirst, Alive, FinalOf, PendingOf
<1>4. CASE /\ UNCHANGED <<write, sent>>
           /\ \A i \in Async : apc'[i] \in {"waitPending", "sendFinal", "waitFinal", "done"} =>
                                   apc[i] \in {"waitPending", "sendFinal", "waitFinal", "done"}
  <2>1. \A i, j : Ahead(i, j)' <=> Ahead(i, j)
    BY <1>4 DEF Ahead, PendingOf
  <2>2. Ordered'
    BY <1>2, <1>3, <1>4, <2>1, ZenonT(40) DEF Ordered, FinalOf
  <2> QED
    BY <2>2, <1>2, <1>3, <1>4, Zenon DEF PendingFirst, FinalOf, PendingOf
(* A packet is put in the queue: the result only behind STATUS_PENDING.     *)
<1>5. ASSUME NEW p \in Packet, write' = Append(write, p), UNCHANGED sent,
             \A i \in Async : p = FinalOf(i) => Ahead(i, Len(write) + 1),
             \A i \in Async : /\ apc'[i] \in {"waitPending", "sendFinal", "waitFinal", "done"}
                              /\ apc[i] \notin {"waitPending", "sendFinal", "waitFinal", "done"}
                              => p = PendingOf(i)
      PROVE  Ordered' /\ PendingFirst'
  <2>1. /\ Len(write') = Len(write) + 1 /\ write'[Len(write) + 1] = p
        /\ \A k \in 1 .. Len(write) : write'[k] = write[k]
        /\ \A i : \A j \in 1 .. (Len(write) + 1), n \in Nat : j <= n /\ Ahead(i, j) => Ahead(i, n)'
    BY <1>0, <1>5, AheadAppend
  <2>2. ASSUME NEW i \in Async, NEW j \in 1 .. Len(write'), write'[j] = FinalOf(i) PROVE Ahead(i, j)'
    <3>1. j \in 1 .. (Len(write) + 1)
      BY <2>1
    <3>2. Ahead(i, j)
      BY <1>0, <1>3, <1>5, <2>1, <2>2, <3>1
    <3> QED
      BY <1>0, <2>1, <3>1, <3>2
  <2>3. ASSUME NEW i \in Async, apc'[i] \in {"waitPending", "sendFinal", "waitFinal", "done"},
               NEW n \in Nat, n = Len(write) + 2
        PROVE  Ahead(i, n)'
    <3>1. CASE p = PendingOf(i)
      <4>1. Len(write) + 1 \in 1 .. (n - 1) /\ write'[Len(write) + 1] = PendingOf(i)
        BY <1>0, <2>1, <2>3, <3>1
      <4> QED
        BY <4>1 DEF Ahead, PendingOf
    <3>2. CASE p # PendingOf(i)
      <4>1. Ahead(i, Len(write) + 1)
        BY <1>3, <1>5, <2>3, <3>2
      <4> QED
        BY <1>0, <2>1, <2>3, <4>1, SMTT(30)
    <3> QED
      BY <3>1, <3>2, SMTT(30)
  <2>4. Len(write') + 1 = Len(write) + 2 /\ Len(write) + 2 \in Nat
    BY <1>0, <2>1, SMTT(30)
  <2>5. Ordered'
    BY <1>2, <2>2, <2>3, <2>4 DEF Ordered, FinalOf
  <2> QED
    BY <2>5, <1>2, <1>3, <1>5, Zenon DEF PendingFirst, FinalOf, PendingOf
<1>6. CASE ReceiverStep \/ Offer \/ PopCancelled \/ DispatcherWait \/ SenderStops \/ SenderReports
           \/ PeerLeaves \/ ServerShutdown
  <2>1. UNCHANGED <<apc, write, sent>>
    BY <1>6 DEF ReceiverStep, ReadMessage, ReadFails, SetRequest, ReceiverExit, Offer, PopCancelled, DispatcherWait,
                SenderStops, SenderReports, PeerLeaves, ServerShutdown
  <2> QED
    BY <1>4, <2>1
<1>7. CASE Take
  <2>1. UNCHANGED <<write, sent>>
    BY <1>7, Zenon DEF Take
  <2>2. UNCHANGED apc \/ \E m : apc' = [apc EXCEPT ![m] = "spawned"]
    BY <1>7 DEF Take, Handle
  <2>3. \A i \in Async : apc'[i] = apc[i] \/ apc'[i] = "spawned"
    BY <1>0, <2>2 DEF Typed
  <2> QED
    BY <1>4, <2>1, <2>3
<1>8. CASE DispatcherSend
  <2>1. ~cancelled
    BY <1>1 DEF Alive
  <2>2. Enqueue(dmsg, "final") /\ dmsg \in Message \ Async /\ UNCHANGED <<apc, sent>>
    BY <1>8, <2>1 DEF DispatcherSend, Typed
  <2>3. FinalOf(dmsg) \in Packet /\ write' = Append(write, FinalOf(dmsg))
    BY <2>2 DEF Enqueue, FinalOf, Packet, Part
  <2>4. \A i \in Async : FinalOf(dmsg) # FinalOf(i)
    BY <2>2 DEF FinalOf
  <2> QED
    BY <1>5, <2>2, <2>3, <2>4
<1>9. CASE SenderWrites
  <2>1. open /\ peer
    BY <1>1 DEF Alive
  <2>2. write # << >> /\ write' = Tail(write) /\ sent' = sent \cup {Head(write)} /\ UNCHANGED apc
    BY <1>9, <2>1 DEF SenderWrites
  <2>3. /\ Len(write) \in Nat \ {0} /\ Len(write') = Len(write) - 1 /\ Head(write) = write[1]
        /\ \A k \in 1 .. Len(write') : write'[k] = write[k + 1]
    BY <1>0, <2>2, TailTyped
  <2>4. ASSUME NEW i, NEW j \in 1 .. Len(write), NEW n \in Nat, n = j + 1, Ahead(i, n) PROVE Ahead(i, j)'
    <3>1. CASE PendingOf(i) \in sent
      BY <2>2, <3>1 DEF Ahead, PendingOf
    <3>2. CASE PendingOf(i) \notin sent
      <4>1. PICK k \in 1 .. (n - 1) : write[k] = PendingOf(i)
        BY <2>4, <3>2 DEF Ahead
      <4>2. CASE k = 1
        BY <2>2, <2>3, <4>1, <4>2, SMTT(30) DEF Ahead, PendingOf
      <4>3. CASE k # 1
        <5>1. k - 1 \in 1 .. (j - 1) /\ k - 1 \in 1 .. Len(write') /\ (k - 1) + 1 = k
          BY <2>3, <2>4, <4>3
        <5>2. write'[k - 1] = PendingOf(i)
          BY <2>3, <4>1, <5>1, SMTT(30)
        <5> QED
          BY <5>1, <5>2 DEF Ahead, PendingOf
      <4> QED
        BY <4>2, <4>3
    <3> QED
      BY <3>1, <3>2
  <2>5. \A i \in Async : \A j \in 1 .. Len(write') : write'[j] = FinalOf(i) => Ahead(i, j)'
    <3> TAKE i \in Async
    <3> TAKE j \in 1 .. Len(write')
    <3>1. j \in 1 .. Len(write) /\ j + 1 \in 1 .. Len(write) /\ j + 1 \in Nat
      BY <2>3
    <3> QED
      BY <1>3, <2>3, <2>4, <3>1
  <2>6. ASSUME NEW i \in Async, apc'[i] \in {"waitPending", "sendFinal", "waitFinal", "done"},
               NEW n \in Nat, n = Len(write)
        PROVE  Ahead(i, n)'
    <3>1. Ahead(i, Len(write) + 1) /\ n \in 1 .. Len(write)
      BY <1>3, <2>2, <2>3, <2>6, SMTT(30)
    <3> QED
      BY <2>4, <2>6, <3>1, SMTT(30)
  <2>7. Len(write') + 1 = Len(write)
    BY <2>3, SMTT(30)
  <2>8. Ordered'
    BY <1>0, <1>2, <2>5, <2>6, <2>7, SMTT(30) DEF Ordered, FinalOf
  <2>9. ASSUME NEW i \in Async, FinalOf(i) \in sent' PROVE PendingOf(i) \in sent'
    <3>1. CASE FinalOf(i) \in sent
      BY <1>3, <2>2, <3>1
    <3>2. CASE FinalOf(i) = write[1]
      <4>1. Ahead(i, 1)
        BY <1>3, <2>3, <3>2
      <4> QED
        BY <2>2, <4>1, SMTT(30) DEF Ahead
    <3> QED
      BY <2>2, <2>3, <2>9, <3>1, <3>2, SMTT(30)
  <2> QED
    BY <1>2, <2>8, <2>9 DEF PendingFirst, FinalOf, PendingOf
<1>10. ASSUME NEW i \in Slots, AsyncStep(i) PROVE Ordered' /\ PendingFirst'
  <2>0. i \in Nat \ {0} /\ read \in 0 .. Len(script) /\ Len(script) \in Nat
    BY <1>10, ScriptFacts DEF Typed
  <2>1. ~cancelled /\ UNCHANGED sent /\ (apc[i] # "none" => i \in Message)
    <3>1. UNCHANGED sent
      BY <1>10, SMTT(30) DEF AsyncStep, AsyncStart, AsyncSend, AsyncWait
    <3>2. apc[i] # "none" => Behind(i)
      BY <1>10, Zenon DEF StartedOnce
    <3>3. Behind(i) => i \in Message
      BY <2>0 DEF Behind, Message
    <3> QED
      BY <1>1, <3>1, <3>2, <3>3, ZenonT(40) DEF Alive
  <2>2. ASSUME NEW l, apc' = [apc EXCEPT ![i] = l]
        PROVE  apc'[i] = l /\ \A j \in Async \ {i} : apc'[j] = apc[j]
    BY <1>0, <2>2, SMTT(30) DEF Typed
  <2>3. CASE AsyncStart(i)
    <3>1. apc' = [apc EXCEPT ![i] = "sendPending"] /\ UNCHANGED write
      BY <2>3 DEF AsyncStart, AsyncMove
    <3> QED
      BY <1>4, <2>1, <2>2, <3>1, SMTT(30)
  <2>4. CASE AsyncSend(i, "pending", "sendPending", "waitPending", "sendFinal")
    <3>1. Enqueue(i, "pending") /\ apc' = [apc EXCEPT ![i] = "waitPending"] /\ apc[i] = "sendPending"
      BY <2>1, <2>4, SMTT(30) DEF AsyncSend, AsyncMove
    <3>2. PendingOf(i) \in Packet /\ write' = Append(write, PendingOf(i))
      BY <2>1, <3>1, SMTT(30) DEF Enqueue, PendingOf, Packet, Part
    <3>3. \A j \in Async : PendingOf(i) # FinalOf(j)
      BY SMTT(30) DEF PendingOf, FinalOf
    <3> QED
      BY <1>5, <2>1, <2>2, <3>1, <3>2, <3>3, Zenon
  <2>5. CASE AsyncWait(i, "waitPending", "sendFinal") \/ AsyncWait(i, "waitFinal", "done")
    <3>1. /\ apc' = [apc EXCEPT ![i] = "sendFinal"] \/ apc' = [apc EXCEPT ![i] = "done"]
          /\ apc[i] \in {"waitPending", "waitFinal"} /\ UNCHANGED write
      BY <2>5, SMTT(30) DEF AsyncWait, AsyncMove
    <3> QED
      BY <1>4, <2>1, <2>2, <3>1, SMTT(30)
  <2>6. CASE AsyncSend(i, "final", "sendFinal", "waitFinal", "done")
    <3>1. Enqueue(i, "final") /\ apc' = [apc EXCEPT ![i] = "waitFinal"] /\ apc[i] = "sendFinal"
      BY <2>1, <2>6, SMTT(30) DEF AsyncSend, AsyncMove
    <3>2. FinalOf(i) \in Packet /\ write' = Append(write, FinalOf(i))
      BY <2>1, <3>1, SMTT(30) DEF Enqueue, FinalOf, Packet, Part
    <3>3. \A j \in Async : FinalOf(i) = FinalOf(j) => Ahead(j, Len(write) + 1)
      BY <1>3, <3>1, Zenon DEF FinalOf
    <3> QED
      BY <1>5, <2>1, <2>2, <3>1, <3>2, <3>3, Zenon
  <2> QED
    BY <1>10, <2>3, <2>4, <2>5, <2>6, Zenon DEF AsyncStep
<1> QED
  BY <1>6, <1>7, <1>8, <1>9, <1>10, ZenonT(40) DEF Next, DispatcherStep, SenderStep

(* The channels keep to their capacities, the flags are flags, and only     *)
(* messages of the script are dispatched and answered.                      *)
LEMMA BoundedNext == Typed /\ Bounded /\ Next => Bounded'
<1> SUFFICES ASSUME Typed, Bounded, Next PROVE Bounded'
  OBVIOUS
<1> USE DEF receiver, dispatcher, sender, channels, life
<1>0. /\ \A m \in Message : script[m].id \in Id
      /\ write \in Seq(Packet) /\ werr \in Seq(Result)
      /\ Len(write) \in Nat /\ Len(werr) \in Nat /\ WriteCap \in Nat \ {0}
  BY ScriptFacts, ConnectionAssumption, SMTT(30) DEF Typed
<1>1. UNCHANGED script
  BY Zenon DEF Next, ReceiverStep, ReadMessage, ReadFails, SetRequest, ReceiverExit, Offer, DispatcherStep, PopCancelled,
         Take, DispatcherSend, DispatcherWait, SenderStep, SenderStops, SenderWrites, SenderReports, AsyncStep,
         AsyncStart, AsyncSend, AsyncWait, PeerLeaves, ServerShutdown
<1>2. UNCHANGED <<Message, Id, Packet>>
  BY <1>1 DEF Message, Id, Packet
<1>3. CASE ReceiverStep \/ PeerLeaves \/ ServerShutdown \/ SenderStops
  <2>1. UNCHANGED <<dmsg, locked, dispatched, write, werr, sent>>
    BY <1>3 DEF ReceiverStep, ReadMessage, ReadFails, SetRequest, ReceiverExit, PeerLeaves, ServerShutdown, SenderStops
  <2>2. {cancelled', wdone', open', peer'} \subseteq {cancelled, wdone, open, peer, TRUE, FALSE}
    BY <1>3, Zenon DEF ReceiverStep, ReadMessage, ReadFails, SetRequest, ReceiverExit, Shutdown, PeerLeaves,
                       ServerShutdown, SenderStops
  <2> QED
    BY <1>2, <2>1, <2>2, Zenon DEF Bounded
<1>4. CASE Offer
  <2>1. dmsg' \in Id /\ UNCHANGED <<locked, dispatched, write, werr, sent, life>>
    BY <1>0, <1>4, Zenon DEF Offer, Typed
  <2> QED
    BY <1>2, <2>1, SMTT(30) DEF Bounded
<1>5. ASSUME RunReturns PROVE /\ dmsg' = 0
                              /\ {locked', cancelled', wdone', open', peer'} \subseteq BOOLEAN
  BY <1>5, Zenon DEF RunReturns, Bounded
<1>6. CASE PopCancelled
  <2>1. RunReturns /\ UNCHANGED <<dispatched, write, werr, sent>>
    BY <1>6 DEF PopCancelled
  <2> QED
    BY <1>2, <1>5, <2>1 DEF Bounded
<1>7. CASE Take
  <2>1. UNCHANGED <<write, werr, sent>>
    BY <1>7, SMTT(30) DEF Take
  <2>2. CASE requests[dmsg] = 0
    <3>1. dmsg' = 0 /\ locked' = TRUE /\ UNCHANGED <<dispatched, life>>
      BY <1>7, <2>2, Zenon DEF Take
    <3> QED
      BY <1>2, <2>1, <3>1 DEF Bounded
  <2>3. CASE requests[dmsg] # 0
    <3> DEFINE m == requests[dmsg]
    <3>1. m \in Message /\ Handle(m)
      BY <1>7, <2>3, Zenon DEF Take, Typed
    <3>2. dispatched' \in Seq(Message)
      BY <3>1 DEF Handle, Bounded
    <3>3. RunReturns \/ (dmsg' \in {m, 0} /\ Continue)
      BY <3>1, Zenon DEF Handle
    <3>4. dmsg' \in Message \cup {0} /\ {locked', cancelled', wdone', open', peer'} \subseteq BOOLEAN
      BY <1>5, <3>1, <3>3, Zenon DEF Continue, Bounded
    <3> QED
      BY <1>2, <2>1, <3>2, <3>4, Zenon DEF Bounded
  <2> QED
    BY <2>2, <2>3
<1>8. CASE DispatcherSend
  <2>1. UNCHANGED <<dispatched, werr, sent>>
    BY <1>8, Zenon DEF DispatcherSend
  <2>2. CASE Enqueue(dmsg, "final") /\ UNCHANGED <<dmsg, locked, life>>
    <3>1. Len(write') = Len(write) + 1 /\ Len(write) < WriteCap
      BY <1>0, <2>2, SMTT(30) DEF Enqueue
    <3> QED
      BY <1>0, <1>2, <2>1, <2>2, <3>1, SMTT(30) DEF Bounded
  <2>3. CASE RunReturns /\ UNCHANGED write
    BY <1>2, <1>5, <2>1, <2>3, SMTT(30) DEF Bounded
  <2> QED
    BY <1>8, <2>2, <2>3 DEF DispatcherSend
<1>9. CASE DispatcherWait
  <2>1. UNCHANGED <<dispatched, write, sent>>
    BY <1>9 DEF DispatcherWait
  <2>2. Len(werr') <= 1
    <3>1. werr' = werr \/ (werr # << >> /\ werr' = Tail(werr))
      BY <1>9 DEF DispatcherWait
    <3>2. werr # << >> => Len(Tail(werr)) = Len(werr) - 1
      BY <1>0, TailTyped
    <3> QED
      BY <1>0, <3>1, <3>2, SMTT(30) DEF Bounded
  <2>3. RunReturns \/ (dmsg' = 0 /\ UNCHANGED <<locked, life>>)
    BY <1>9 DEF DispatcherWait
  <2>4. dmsg' = 0 /\ {locked', cancelled', wdone', open', peer'} \subseteq BOOLEAN
    BY <1>5, <2>3, Zenon DEF Bounded
  <2> QED
    BY <1>2, <2>1, <2>2, <2>4, SMTT(30) DEF Bounded
<1>10. CASE SenderWrites
  <2>1. write # << >> /\ write' = Tail(write) /\ sent' \subseteq sent \cup {Head(write)}
    BY <1>10 DEF SenderWrites
  <2>2. Head(write) \in Packet /\ Len(write') = Len(write) - 1
    BY <1>0, <2>1, TailTyped, SMTT(30)
  <2>3. UNCHANGED <<dmsg, locked, dispatched, werr, life>>
    BY <1>10 DEF SenderWrites
  <2> QED
    BY <1>0, <1>2, <2>1, <2>2, <2>3, SMTT(30) DEF Bounded
<1>11. CASE SenderReports
  <2>1. Len(werr') = 1 /\ UNCHANGED <<dmsg, locked, dispatched, write, sent, life>>
    BY <1>11 DEF SenderReports
  <2> QED
    BY <1>2, <2>1 DEF Bounded
<1>12. ASSUME NEW i \in Slots, AsyncStep(i) PROVE Bounded'
  <2>1. UNCHANGED <<dmsg, locked, dispatched, sent, life>>
    BY <1>12 DEF AsyncStep, AsyncStart, AsyncSend, AsyncWait
  <2>2. Len(werr') <= 1
    <3>1. werr' = werr \/ (werr # << >> /\ werr' = Tail(werr))
      BY <1>12 DEF AsyncStep, AsyncStart, AsyncSend, AsyncWait
    <3>2. werr # << >> => Len(Tail(werr)) = Len(werr) - 1
      BY <1>0, TailTyped
    <3> QED
      BY <1>0, <3>1, <3>2 DEF Bounded
  <2>3. Len(write') <= WriteCap
    <3>1. write' = write \/ (\E part : Enqueue(i, part))
      BY <1>12 DEF AsyncStep, AsyncStart, AsyncSend, AsyncWait
    <3>2. ASSUME NEW part, Enqueue(i, part) PROVE Len(write') <= WriteCap
      <4>1. Len(write') = Len(write) + 1 /\ Len(write) < WriteCap
        BY <1>0, <3>2 DEF Enqueue
      <4> QED
        BY <1>0, <4>1
    <3> QED
      BY <3>1, <3>2, ZenonT(40) DEF Bounded
  <2> QED
    BY <1>2, <2>1, <2>2, <2>3, ZenonT(40) DEF Bounded
<1> QED
  BY <1>3, <1>4, <1>6, <1>7, <1>8, <1>9, <1>10, <1>11, <1>12, ZenonT(40) DEF Next, DispatcherStep, SenderStep

(* Nothing that was read is passed over, and nothing overtakes.             *)
LEMMA PipelineFrame ==
    ASSUME Pipeline, UNCHANGED <<script, read, requests, dispatched>>,
           rpc' \in {"set", "offer"} => rpc' = rpc,
           rpc \in {"set", "offer"} => rpc' = rpc,
           dpc' = "take" <=> dpc = "take", dpc = "take" => dmsg' = dmsg
    PROVE  Pipeline'
<1>1. UNCHANGED <<Message, Last>> /\ \A i : Taken(i)' <=> Taken(i)
  BY DEF Message, Last, Taken
<1>2. ASSUME NEW m, InHand(m), dpc = "take" PROVE InHand(m)'
  BY <1>1, <1>2 DEF InHand, NextTaken
<1> QED
  BY <1>1, <1>2, Zenon DEF Pipeline

(* The messages of one script have different ids.                           *)
LEMMA IdsDiffer ==
    ASSUME DistinctIds, script \in Scripts, NEW i \in Message, NEW j \in Message, script[i].id = script[j].id
    PROVE  i = j
<1>1. DOMAIN script = Message
  BY ConnectionAssumption DEF Message
<1> QED
  BY <1>1 DEF DistinctIds

(* A request goes from the receiver through the map and the rendezvous to a *)
(* handler, one at a time.                                                  *)
LEMMA PipelineNext ==
    ASSUME DistinctIds, Typed, StartedOnce, Bounded, Pipeline, DispatchedInOrder, Next
    PROVE  Pipeline' /\ DispatchedInOrder'
<1> USE DEF receiver, dispatcher, sender, channels, life
<1>0. /\ Message \subseteq Nat \ {0} /\ read \in Nat /\ Last \in Nat /\ Last <= read
      /\ Len(script) \in Nat /\ read <= Len(script)
  <2>1. /\ script \in Scripts /\ read \in 0 .. Len(script) /\ Last \in 0 .. read
    BY DEF Typed, Pipeline
  <2>2. Message \subseteq Nat \ {0} /\ Len(script) \in Nat
    BY <2>1, ScriptFacts, ZenonT(40)
  <2> QED
    BY <2>1, <2>2, SMTT(30)
<1>1. ASSUME UNCHANGED <<script, dispatched>> PROVE DispatchedInOrder'
  BY <1>1 DEF DispatchedInOrder, NextTaken, Taken
<1>2. CASE ReadFails \/ ReceiverExit \/ PopCancelled \/ DispatcherSend \/ DispatcherWait \/ SenderStep
           \/ PeerLeaves \/ ServerShutdown
  <2>1. UNCHANGED <<script, read, requests, dispatched>>
    BY <1>2, ZenonT(40) DEF ReadFails, ReceiverExit, PopCancelled, DispatcherSend, DispatcherWait, SenderStep, SenderStops,
                SenderWrites, SenderReports, PeerLeaves, ServerShutdown
  <2>2. rpc' = rpc \/ (rpc \notin {"set", "offer"} /\ rpc' \notin {"set", "offer"})
    BY <1>2, ZenonT(40) DEF ReadFails, ReceiverExit, PopCancelled, DispatcherSend, DispatcherWait, SenderStep, SenderStops,
                SenderWrites, SenderReports, PeerLeaves, ServerShutdown
  <2>3. UNCHANGED <<dpc, dmsg>> \/ (dpc # "take" /\ dpc' # "take")
    BY <1>2, Zenon DEF ReadFails, ReceiverExit, PopCancelled, DispatcherSend, DispatcherWait, RunReturns, SenderStep,
                SenderStops, SenderWrites, SenderReports, PeerLeaves, ServerShutdown
  <2> QED
    BY <1>1, <2>1, <2>2, <2>3, PipelineFrame
<1>3. ASSUME NEW i \in Slots, AsyncStep(i) PROVE Pipeline' /\ DispatchedInOrder'
  <2>1. UNCHANGED <<script, read, rpc, requests, dispatched, dpc, dmsg>>
    BY <1>3 DEF AsyncStep, AsyncStart, AsyncSend, AsyncWait
  <2> QED
    BY <1>1, <2>1, PipelineFrame, ZenonT(40)
<1>4. CASE ReadMessage
  <2>1. /\ rpc = "read" /\ read' = read + 1 /\ read + 1 \in Message
        /\ UNCHANGED <<script, requests, dispatched, dpc, dmsg>>
    BY <1>0, <1>4 DEF ReadMessage, Message
  <2>2. UNCHANGED <<Message, Last>> /\ \A i : Taken(i)' <=> Taken(i)
    BY <2>1 DEF Message, Last, Taken
  <2>3. IF Taken(read + 1) THEN rpc' = "set" ELSE rpc' \in {"read", "exit"}
    BY <1>4 DEF ReadMessage, Taken
  <2>4. ASSUME NEW m \in Message, InHand(m), dpc = "take" PROVE InHand(m)'
    BY <1>0, <2>1, <2>2, <2>4 DEF InHand, NextTaken
  <2>5. \A i \in (Last + 1) .. read' : i = read' \/ i \in (Last + 1) .. read
    BY <1>0, <2>1
  <2>6. Last \in 0 .. read' /\ Last < read'
    BY <1>0, <2>1, SMTT(30)
  <2>7. Pipeline'
    BY <2>1, <2>2, <2>3, <2>4, <2>5, <2>6, Zenon DEF Pipeline
  <2> QED
    BY <1>1, <2>1, <2>7
<1>5. CASE SetRequest
  <2>1. /\ rpc = "set" /\ rpc' = "offer" /\ requests' = [requests EXCEPT ![script[read].id] = read]
        /\ UNCHANGED <<script, read, dispatched, dpc, dmsg>>
    BY <1>5 DEF SetRequest
  <2>2. UNCHANGED <<Message, Last>> /\ \A i : Taken(i)' <=> Taken(i)
    BY <2>1, Zenon DEF Message, Last, Taken
  <2>3. read \in Message /\ script[read].id \in Id /\ requests'[script[read].id] = read
    BY <2>1, ScriptFacts, ZenonT(40) DEF Typed
  <2>4. dpc = "take" => requests'[dmsg] = requests[dmsg]
    <3> SUFFICES ASSUME dpc = "take" PROVE requests'[dmsg] = requests[dmsg]
      OBVIOUS
    <3>1. PICK m \in Message : InHand(m)
      BY DEF Pipeline
    <3>2. m < read
      BY <2>1, <3>1, SMTT(30) DEF InHand
    <3>3. requests[dmsg] = m /\ dmsg \in Id
      BY <3>1 DEF InHand, Typed
    <3>4. m # 0 /\ script[m].id = dmsg
      BY <1>0, <3>3, Zenon DEF StartedOnce
    <3>5. dmsg # script[read].id
      BY <1>0, <2>3, <3>2, <3>4, IdsDiffer, SMTT(30) DEF Typed
    <3> QED
      BY <2>1, <2>3, <3>3, <3>5 DEF Typed
  <2>5. ASSUME NEW m \in Message, InHand(m), dpc = "take" PROVE InHand(m)'
    BY <2>1, <2>2, <2>4, <2>5, ZenonT(40) DEF InHand, NextTaken
  <2>6. Pipeline'
    BY <2>1, <2>2, <2>3, <2>4, <2>5, SMTT(30) DEF Pipeline
  <2> QED
    BY <1>1, <2>1, <2>6, SMTT(30)
<1>6. CASE Offer
  <2>1. /\ rpc = "offer" /\ rpc' = "read" /\ dpc = "pop" /\ dpc' = "take" /\ dmsg' = script[read].id
        /\ UNCHANGED <<script, read, requests, dispatched>>
    BY <1>6, Zenon DEF Offer
  <2>2. UNCHANGED <<Message, Last>> /\ \A i : Taken(i)' <=> Taken(i)
    BY <2>1, Zenon DEF Message, Last, Taken
  <2>3. read \in Message /\ requests'[dmsg'] = read
    BY <2>1, ZenonT(40) DEF Typed, Pipeline
  <2>4. NextTaken(Last, read)
    <3>1. \A i \in (Last + 1) .. (read - 1) : i \in (Last + 1) .. read /\ i # read
      BY <1>0, SMTT(30)
    <3> QED
      BY <2>1, <3>1 DEF Pipeline, NextTaken
  <2>5. InHand(read)'
    BY <1>0, <2>1, <2>2, <2>3, <2>4, SMTT(30) DEF InHand, NextTaken
  <2>6. \A i \in (Last + 1) .. read : Taken(i) => i = read
    BY <2>1, SMTT(30) DEF Pipeline
  <2>7. Pipeline'
    BY <1>0, <2>1, <2>2, <2>3, <2>5, <2>6, SMTT(30) DEF Pipeline
  <2> QED
    BY <1>1, <2>1, <2>7
<1>7. CASE Take
  <2> DEFINE m == requests[dmsg]
  <2>1. dpc = "take" /\ requests' = [requests EXCEPT ![dmsg] = 0] /\ UNCHANGED <<script, read, rpc>>
    BY <1>7, SMTT(30) DEF Take
  <2>2. m \in Message /\ dmsg \in Id /\ InHand(m)
    BY <2>1, ZenonT(40) DEF Pipeline, InHand, Typed
  <2>3. dispatched' = Append(dispatched, m) /\ dpc' # "take"
    BY <1>0, <1>7, <2>2, SMTT(30) DEF Take, Handle, RunReturns
  <2>4. dispatched \in Seq(Message) /\ Len(dispatched) \in Nat
    BY DEF Bounded
  <2>5. /\ Len(dispatched') = Len(dispatched) + 1 /\ dispatched'[Len(dispatched) + 1] = m
        /\ \A k \in 1 .. Len(dispatched) : dispatched'[k] = dispatched[k]
        /\ dispatched' \in Seq(Message) /\ dispatched' # << >>
    BY <2>2, <2>3, <2>4, SMTT(30)
  <2>6. Last' = m /\ UNCHANGED Message /\ \A i : Taken(i)' <=> Taken(i)
    BY <2>1, <2>5 DEF Message, Last, Taken
  <2>7. NextTaken(Last, m) /\ m <= read /\ (rpc \in {"set", "offer"} => m < read)
    BY <2>2, Zenon DEF InHand
  <2>8. rpc = "offer" => requests'[script[read].id] = read
    <3> SUFFICES ASSUME rpc = "offer" PROVE requests'[script[read].id] = read
      BY SMTT(30)
    <3>1. read \in Message /\ script[read].id \in Id /\ requests[script[read].id] = read
      BY ScriptFacts, ZenonT(40) DEF Typed, Pipeline
    <3>2. script[m].id = dmsg
      BY <1>0, <2>2, SMTT(30) DEF StartedOnce
    <3>3. script[read].id # dmsg
      BY <1>0, <2>2, <2>7, <3>1, <3>2, IdsDiffer, SMTT(30) DEF Typed
    <3> QED
      BY <2>1, <3>1, <3>3, Zenon DEF Typed
  <2>9. ASSUME NEW i \in (m + 1) .. read, Taken(i) PROVE rpc \in {"set", "offer"} /\ i = read
    <3>1. m \in Nat /\ Last < m
      <4>1. m \in Nat
        BY <1>0, <2>2, Zenon
      <4>2. Last < m
        BY <2>7, Zenon DEF NextTaken
      <4> QED
        BY <4>1, <4>2
    <3> HIDE DEF m
    <3>2. i \in (Last + 1) .. read /\ i # m
      BY <1>0, <3>1
    <3>3. Taken(i) => (rpc \in {"set", "offer"} /\ i = read) \/ m = i
      BY <3>2, Zenon DEF Pipeline, m
    <3> QED
      BY <2>9, <3>2, <3>3
  <2>10. m \in 0 .. read
    <3>1. m \in Nat /\ m <= read
      BY <1>0, <2>2, <2>7, ZenonT(40)
    <3> HIDE DEF m
    <3> QED
      BY <1>0, <3>1
  <2>11. Pipeline'
    <3>1. (Last \in 0 .. read)' /\ (rpc = "offer" => requests[script[read].id] = read)'
      BY <2>1, <2>6, <2>8, <2>10, Zenon
    <3>2. (rpc \in {"set", "offer"} => Taken(read) /\ Last < read)'
      <4>1. rpc \in {"set", "offer"} => Taken(read)
        BY Zenon DEF Pipeline
      <4>2. Taken(read)' <=> Taken(read)
        BY <2>1, <2>6, Zenon
      <4> QED
        BY <2>1, <2>6, <2>7, <4>1, <4>2, Zenon
    <3>3. \A i \in (Last' + 1) .. read' : Taken(i)' => rpc' \in {"set", "offer"} /\ i = read'
      BY <2>1, <2>6, <2>9, Zenon
    <3> QED
      BY <2>3, <3>1, <3>2, <3>3, Zenon DEF Pipeline
  <2>12. ASSUME NEW k \in DOMAIN dispatched'
         PROVE  NextTaken(IF k = 1 THEN 0 ELSE dispatched'[k - 1], dispatched'[k])
    <3>1. DOMAIN dispatched' = 1 .. (Len(dispatched) + 1) /\ DOMAIN dispatched = 1 .. Len(dispatched)
      BY <2>4, <2>5
    <3>2. CASE k \in 1 .. Len(dispatched)
      <4>1. dispatched'[k] = dispatched[k] /\ (k # 1 => dispatched'[k - 1] = dispatched[k - 1])
        BY <2>4, <2>5, <3>2, SMTT(30)
      <4> QED
        BY <3>1, <3>2, <4>1, Zenon DEF DispatchedInOrder
    <3>3. CASE k = Len(dispatched) + 1
      <4>1. Last = IF k = 1 THEN 0 ELSE dispatched'[k - 1]
        BY <2>4, <2>5, <3>3, SMTT(30) DEF Last
      <4> QED
        BY <2>5, <2>7, <3>3, <4>1, SMTT(30)
    <3> QED
      BY <2>4, <3>1, <3>2, <3>3, SMTT(30)
  <2>13. DispatchedInOrder'
    BY <2>6, <2>12 DEF DispatchedInOrder, NextTaken
  <2> QED
    BY <2>11, <2>13, SMTT(30)
<1> QED
  BY <1>2, <1>3, <1>4, <1>5, <1>6, <1>7, SMTT(30) DEF Next, ReceiverStep, DispatcherStep

(* The invariant holds throughout. *)
LEMMA ConnectionInvariant == Spec => []ConnInv
<1>1. ConnInv /\ [Next]_vars => ConnInv'
  <2> SUFFICES ASSUME ConnInv, [Next]_vars PROVE ConnInv'
    OBVIOUS
  <2>1. CASE Next
    BY <2>1, TypedNext, BoundedNext, StartedOnceNext, CountedNext, OrderedNext, SMTT(30) DEF ConnInv
  <2>2. CASE UNCHANGED vars
    <3>1. /\ UNCHANGED <<script, read, rpc, requests, dpc, dmsg, locked, apc, write, werr, spc, result, sent>>
          /\ UNCHANGED <<cancelled, wdone, open, peer, dispatched>>
      BY <2>2, Zenon DEF vars, receiver, dispatcher, sender, channels, life
    <3>2. UNCHANGED <<Message, Id, Async, Packet, Waiters>> /\ (Alive' <=> Alive)
      BY <3>1 DEF Message, Id, Async, Packet, Waiters, Alive
    <3>3. Typed' /\ Bounded'
      BY <3>1, <3>2, ZenonT(40) DEF ConnInv, Typed, Bounded
    <3>4. StartedOnce'
      BY <3>1, <3>2, Zenon DEF ConnInv, StartedOnce, Behind
    <3>5. Counted'
      BY <3>1, <3>2 DEF ConnInv, Counted, ResultPerWaiter
    <3>6. Ordered' /\ PendingFirst'
      BY <3>1, <3>2, ZenonT(40) DEF ConnInv, Ordered, PendingFirst, Ahead, PendingOf, FinalOf
    <3> QED
      BY <3>3, <3>4, <3>5, <3>6, Zenon DEF ConnInv
  <2> QED
    BY <2>1, <2>2
<1> QED
  BY InitConnInv, <1>1, PTL DEF Spec

(* The state stays well formed and the channels within their capacities,    *)
(* whatever the client sends and however the goroutines are scheduled.      *)
THEOREM ConnectionTyped == Spec => []TypeOK
<1>1. ConnInv => TypeOK
  BY DEF ConnInv, Typed, Bounded, TypeOK
<1> QED
  BY <1>1, ConnectionInvariant, PTL

(* While the connection lives, sendPacket has one packet or result for each *)
(* caller that waits, for every script and capacity of the channels.        *)
THEOREM ResultsMatchWaiters == Spec => []ResultPerWaiter
<1>1. ConnInv => ResultPerWaiter
  BY DEF ConnInv, Counted
<1> QED
  BY <1>1, ConnectionInvariant, PTL

(* The client of a live connection gets STATUS_PENDING before the result of *)
(* an asynchronous request, although results are not matched to callers.    *)
THEOREM PendingComesFirst == Spec => []PendingFirst
<1>1. ConnInv => PendingFirst
  BY DEF ConnInv
<1> QED
  BY <1>1, ConnectionInvariant, PTL

(* If no two messages have the same id, the requests reach their handlers   *)
(* in the order they were sent, none twice and none left out.               *)
THEOREM HandlersSeeOrder == ASSUME DistinctIds PROVE Spec => []DispatchedInOrder
<1> DEFINE Inv == Pipeline /\ DispatchedInOrder
<1>1. Init => Inv
  <2> SUFFICES ASSUME Init PROVE Inv
    OBVIOUS
  <2>1. Last = 0 /\ read = 0 /\ rpc = "read" /\ dpc = "pop" /\ DOMAIN dispatched = {}
    BY DEF Init, Last
  <2> QED
    BY <2>1 DEF Pipeline, DispatchedInOrder
<1>2. ConnInv /\ Inv /\ [Next]_vars => Inv'
  <2> SUFFICES ASSUME ConnInv, Inv, [Next]_vars PROVE Inv'
    OBVIOUS
  <2>1. CASE Next
    BY <2>1, PipelineNext DEF ConnInv
  <2>2. CASE UNCHANGED vars
    <3>1. UNCHANGED <<script, read, rpc, requests, dpc, dmsg, dispatched>>
      BY <2>2 DEF vars, receiver, dispatcher
    <3>2. Pipeline'
      BY <3>1, PipelineFrame, ZenonT(40)
    <3>3. DispatchedInOrder'
      BY <3>1 DEF DispatchedInOrder, NextTaken, Taken
    <3> QED
      BY <3>2, <3>3, SMTT(30)
  <2> QED
    BY <2>1, <2>2
<1>3. Inv => DispatchedInOrder
  OBVIOUS
<1> QED
  BY <1>1, <1>2, <1>3, ConnectionInvariant, PTL DEF Spec
============================================================================
