--------------------------- MODULE BreaksProofs ---------------------------
(* No open is left breaking without a notification, and no completion of a  *)
(* CHANGE_NOTIFY names a request of another open, whatever the clients, the *)
(* opens and the runs of BreakNode.                                         *)
EXTENDS Breaks, TLAPS

(* The handles whose open was ever created; an object is never freed. *)
Created == {h \in Handle : obj[h] # None}

(* The opens that asked for a lease are broken as leases, the others as     *)
(* oplocks, and so are the notifications and acknowledgments about them.    *)
AskedLease(h) == plan.ask[h].level = "lease"
Breakable(h, lease) == h \in Created /\ (lease <=> AskedLease(h)) /\ (lease => obj[h].lease # None)

(* How an open that asked for a lease may be: breaking as a lease only.     *)
OpenOK(h, o) ==
    /\ o.level = "lease" => AskedLease(h)
    /\ AskedLease(h) => o.level \in {"lease", "none"}
    /\ AskedLease(h) /\ o.lease # None /\ o.state = "breaking" => o.lease.breaking

ObjectsOK ==
    /\ plan \in Plans
    /\ obj \in [Handle -> Open \cup {None}]
    /\ opens \subseteq Created
    /\ \A h \in Created : plan.ask[h] # None /\ OpenOK(h, obj[h])

BreakersOK ==
    /\ todo \in [Breaker -> (SUBSET Handle) \cup {None}]
    /\ \A b \in Breaker : todo[b] # None => todo[b] \subseteq Created
    /\ breaking \in [Breaker -> [at : {"pick", "oplock", "lease", "send", "sendAck", "sendLease"},
                                 handle : Handle \cup {None}]]
    /\ \A b \in Breaker : breaking[b].at # "pick" =>
           Breakable(breaking[b].handle, breaking[b].at \in {"lease", "sendLease"})

MessagesOK ==
    /\ notes \subseteq Message /\ acks \subseteq Message
    /\ \A m \in notes \cup acks : Breakable(m.handle, m.lease)

(* The asynchronous id an open records is that of a request about it.       *)
NotifiesOK ==
    /\ busy \in [Client -> [at : {"idle", "create", "notify"}, handle : Handle \cup {None},
                            notify : Notify \cup {None}]]
    /\ notify \in [Notify -> [at : {"unsent", "pending", "armed", "found", "done", "dropped"},
                              handle : Handle \cup {None}, id : Notify \cup {None}]]
    /\ \A c \in Client : busy[c].at = "notify" =>
           /\ busy[c].handle \in Created /\ busy[c].notify \in Notify
           /\ notify[busy[c].notify].handle = busy[c].handle
    /\ \A h \in Created : obj[h].async # None => notify[obj[h].async].handle = h
    /\ \A q \in Notify : /\ notify[q].at # "unsent" => notify[q].handle \in Created
                         /\ notify[q].at \in {"armed", "found"} => obj[notify[q].handle].async # None

BreaksInv == ObjectsOK /\ BreakersOK /\ MessagesOK /\ NotifiesOK /\ BreakingIsNotified /\ CompletionNamesPending

(* None is no handle, request, open or lease. *)
LEMMA NoneDistinct == None \notin Handle /\ None \notin Notify /\ None \notin Open /\ None \notin Lease
BY BreaksAssumption, Zenon

(* The table holds handles. *)
LEMMA OpensAreHandles ==
    ASSUME ObjectsOK
    PROVE  opens \subseteq Handle
<1>1. Created \subseteq Handle
  BY Zenon DEF Created
<1>2. opens \subseteq Created
  BY Zenon DEF ObjectsOK
<1> QED
  BY <1>1, <1>2, Zenon

(* Nothing is open at first. *)
LEMMA InitBreaksInv == Init => BreaksInv
BY BreaksAssumption
   DEF Init, BreaksInv, ObjectsOK, BreakersOK, MessagesOK, NotifiesOK, BreakingIsNotified, CompletionNamesPending,
       Created, Idle, Unsent

(* What a step on the open g may change of its object: not the lease key. *)
SameLease(o, p) == (o.lease = None <=> p.lease = None) /\ (p.lease # None => o.lease.key = p.lease.key)

(* Such a step changes nothing about which opens exist, which share a key   *)
(* and how they are broken.                                                 *)
LEMMA ObjectStep ==
    ASSUME ObjectsOK, UNCHANGED <<plan, opens>>,
           NEW g \in Created, NEW o \in Open, SameLease(o, obj[g]), OpenOK(g, o), obj' = [obj EXCEPT ![g] = o]
    PROVE  /\ ObjectsOK' /\ Created' = Created
           /\ obj'[g] = o /\ \A h \in Handle \ {g} : obj'[h] = obj[h]
           /\ \A h \in Created : SharesKey(h)' <=> SharesKey(h)
           /\ \A h, lease : Breakable(h, lease)' <=> Breakable(h, lease)
<1> USE DEF ObjectsOK
<1>1. g \in Handle /\ obj[g] \in Open /\ o # None
  BY NoneDistinct, Zenon DEF Created
<1>2. obj' \in [Handle -> Open \cup {None}] /\ obj'[g] = o /\ \A h \in Handle \ {g} : obj'[h] = obj[h]
  BY <1>1, Zenon
<1>3. Created' = Created
  BY <1>1, <1>2, Zenon DEF Created
<1>4. \A h \in Created : SameLease(obj'[h], obj[h])
  BY <1>1, <1>2, Zenon DEF SameLease, Created
<1>5. \A h \in Handle : obj'[h] # None <=> obj[h] # None
  BY <1>1, <1>2, Zenon DEF Created
<1>6. \A h \in Created : SharesKey(h)' <=> SharesKey(h)
  BY <1>4, <1>5 DEF SharesKey, SameLease, Created
<1>7. \A h, lease : Breakable(h, lease)' <=> Breakable(h, lease)
  BY <1>3, <1>4, Zenon DEF Breakable, AskedLease, SameLease
<1>8. \A h \in Created : OpenOK(h, obj'[h])
  BY <1>1, <1>2, Zenon DEF Created
<1>9. \A h \in Created : OpenOK(h, obj[h])'
  BY <1>8, Zenon DEF OpenOK, AskedLease
<1>10. ObjectsOK'
  BY <1>2, <1>3, <1>9, Zenon
<1> QED
  BY <1>2, <1>3, <1>6, <1>7, <1>10, Zenon

(* So does a step that changes no object.                                   *)
LEMMA SameObjects ==
    ASSUME ObjectsOK, UNCHANGED <<plan, obj>>, opens' \subseteq opens
    PROVE  /\ ObjectsOK' /\ Created' = Created
           /\ \A h : SharesKey(h)' <=> SharesKey(h)
           /\ \A h, lease : Breakable(h, lease)' <=> Breakable(h, lease)
<1>1. Created' = Created
  BY Zenon DEF Created
<1>2. \A h \in Created : OpenOK(h, obj[h])'
  BY Zenon DEF ObjectsOK, OpenOK, AskedLease
<1>3. ObjectsOK'
  BY <1>1, <1>2, Zenon DEF ObjectsOK
<1>4. \A h : SharesKey(h)' <=> SharesKey(h)
  BY Zenon DEF SharesKey
<1>5. \A h, lease : Breakable(h, lease)' <=> Breakable(h, lease)
  BY <1>1, Zenon DEF Breakable, AskedLease
<1> QED
  BY <1>1, <1>3, <1>4, <1>5, Zenon

(* A step that leaves the CHANGE_NOTIFY requests alone.                     *)
LEMMA SameRequests ==
    ASSUME NotifiesOK, CompletionNamesPending, UNCHANGED <<busy, notify>>, Created' = Created,
           \A h \in Created : obj'[h].async = obj[h].async
    PROVE  NotifiesOK' /\ CompletionNamesPending'
<1>1. \A h \in Created' : obj'[h].async # None => notify'[obj'[h].async].handle = h
  BY Zenon DEF NotifiesOK
<1>2. \A q \in Notify : /\ notify'[q].at # "unsent" => notify'[q].handle \in Created'
                        /\ notify'[q].at \in {"armed", "found"} => obj'[notify'[q].handle].async # None
  BY Zenon DEF NotifiesOK
<1>3. NotifiesOK'
  BY <1>1, <1>2, Zenon DEF NotifiesOK
<1>4. CompletionNamesPending'
  BY Zenon DEF CompletionNamesPending
<1> QED
  BY <1>3, <1>4, Zenon

(* A step that leaves the objects, the breakers and the messages alone.     *)
LEMMA FrameBreaksInv ==
    ASSUME BreaksInv, UNCHANGED <<plan, obj, opens, todo, breaking, early, notes, acks>>
    PROVE  ObjectsOK' /\ BreakersOK' /\ MessagesOK' /\ BreakingIsNotified' /\ Created' = Created
<1> USE DEF BreaksInv
<1>1. /\ ObjectsOK' /\ Created' = Created /\ \A g : SharesKey(g)' <=> SharesKey(g)
      /\ \A g, lease : Breakable(g, lease)' <=> Breakable(g, lease)
  BY SameObjects, Zenon
<1>2. BreakersOK' /\ MessagesOK'
  BY <1>1, Zenon DEF BreakersOK, MessagesOK
<1>3. BreakingIsNotified'
  BY <1>1, Zenon DEF BreakingIsNotified, Unheard
<1> QED
  BY <1>1, <1>2, <1>3, Zenon

(* An answer to a CREATE changes only what the dispatcher is at. *)
LEMMA CreateRespondInv ==
    ASSUME BreaksInv, NEW c \in Client, CreateRespond(c)
    PROVE  BreaksInv'
<1> USE DEF BreaksInv, tables, breaks
<1>1. /\ UNCHANGED <<plan, obj, opens, todo, breaking, early, notes, acks, notify>>
      /\ busy' = [busy EXCEPT ![c] = Idle]
  BY Zenon DEF CreateRespond
<1>2. ObjectsOK' /\ BreakersOK' /\ MessagesOK' /\ BreakingIsNotified' /\ Created' = Created
  BY <1>1, FrameBreaksInv, Zenon
<1>3. NotifiesOK'
  BY <1>1, <1>2, Zenon DEF NotifiesOK, Idle
<1>4. CompletionNamesPending'
  BY <1>1, Zenon DEF CompletionNamesPending
<1> QED
  BY <1>2, <1>3, <1>4, Zenon

(* A CLOSE takes an open out of the table, and keeps its object. *)
LEMMA CloseInv ==
    ASSUME BreaksInv, NEW c \in Client, NEW h \in Handle, Close(c, h)
    PROVE  BreaksInv'
<1> USE DEF BreaksInv, tables, breaks
<1>1. UNCHANGED <<plan, obj, busy, todo, breaking, early, notes, acks, notify>> /\ opens' \subseteq opens
  BY Zenon DEF Close
<1>2. /\ ObjectsOK' /\ Created' = Created /\ \A g : SharesKey(g)' <=> SharesKey(g)
      /\ \A g, lease : Breakable(g, lease)' <=> Breakable(g, lease)
  BY <1>1, SameObjects, Zenon
<1>3. BreakersOK' /\ MessagesOK'
  BY <1>1, <1>2, Zenon DEF BreakersOK, MessagesOK
<1>4. BreakingIsNotified'
  BY <1>1, <1>2, Zenon DEF BreakingIsNotified, Unheard
<1>5. NotifiesOK' /\ CompletionNamesPending'
  BY <1>1, <1>2, SameRequests, Zenon
<1> QED
  BY <1>2, <1>3, <1>4, <1>5, Zenon

(* BreakNode takes opens that exist. *)
LEMMA BreakNodeInv ==
    ASSUME BreaksInv, NEW b \in Breaker, BreakNode(b)
    PROVE  BreaksInv'
<1> USE DEF BreaksInv, tables, breaks
<1>1. UNCHANGED <<plan, obj, opens, busy, breaking, early, notes, acks, notify>> /\ todo' = [todo EXCEPT ![b] = opens]
  BY Zenon DEF BreakNode
<1>2. /\ ObjectsOK' /\ Created' = Created /\ \A g : SharesKey(g)' <=> SharesKey(g)
      /\ \A g, lease : Breakable(g, lease)' <=> Breakable(g, lease)
  BY <1>1, SameObjects, Zenon
<1>3. MessagesOK'
  BY <1>1, <1>2, Zenon DEF MessagesOK
<1>4. opens \in SUBSET Handle /\ opens \subseteq Created
  BY Zenon DEF ObjectsOK, Created
<1>5. BreakersOK'
  <2>1. /\ todo' \in [Breaker -> (SUBSET Handle) \cup {None}]
        /\ \A d \in Breaker : todo'[d] # None => todo'[d] \subseteq Created
    BY <1>1, <1>4, Zenon DEF BreakersOK
  <2> QED
    BY <1>1, <1>2, <2>1, Zenon DEF BreakersOK
<1>6. BreakingIsNotified'
  BY <1>1, <1>2, Zenon DEF BreakingIsNotified, Unheard
<1>7. NotifiesOK' /\ CompletionNamesPending'
  BY <1>1, <1>2, SameRequests, Zenon
<1> QED
  BY <1>2, <1>3, <1>5, <1>6, <1>7, Zenon

(* breakOpen chooses the kind of break by the level of the open. *)
LEMMA BreakOpenInv ==
    ASSUME BreaksInv, NEW b \in Breaker, NEW h \in Handle, BreakOpen(b, h)
    PROVE  BreaksInv'
<1> USE DEF BreaksInv, tables, breaks
<1>1. UNCHANGED <<plan, obj, opens, busy, early, notes, acks, notify>>
  BY Zenon DEF BreakOpen
<1>2. /\ ObjectsOK' /\ Created' = Created /\ \A g : SharesKey(g)' <=> SharesKey(g)
      /\ \A g, lease : Breakable(g, lease)' <=> Breakable(g, lease)
  BY <1>1, SameObjects, Zenon
<1>3. MessagesOK'
  BY <1>1, <1>2, Zenon DEF MessagesOK
<1>4. NotifiesOK' /\ CompletionNamesPending'
  BY <1>1, <1>2, SameRequests, Zenon
<1>5. h \in Created /\ obj[h] \in Open
  BY Zenon DEF BreakOpen, BreakersOK, ObjectsOK, Created
<1>6. MustBreak(obj[h]) => Breakable(h, obj[h].level = "lease")
  BY <1>5, Zenon DEF MustBreak, Breakable, ObjectsOK, OpenOK, Open
<1>7. BreakersOK'
  BY <1>5, <1>6, Zenon DEF BreakOpen, BreakersOK, Breakable, AskedLease, Created
<1>8. BreakingIsNotified'
  <2>1. \A d \in Breaker : breaking[d].at \in {"sendAck", "sendLease"} => breaking'[d] = breaking[d]
    BY Zenon DEF BreakOpen, BreakersOK
  <2> QED
    BY <1>1, <1>2, <2>1, Zenon DEF BreakingIsNotified, Unheard
<1> QED
  BY <1>2, <1>3, <1>4, <1>7, <1>8, Zenon

(* A sent notification takes the place of the step that sends it. *)
LEMMA BreakSendInv ==
    ASSUME BreaksInv, NEW b \in Breaker, BreakSend(b)
    PROVE  BreaksInv'
<1> USE DEF BreaksInv, tables, breaks
<1> DEFINE h == breaking[b].handle
           lease == breaking[b].at = "sendLease"
           m == [by |-> b, handle |-> h, lease |-> lease, ack |-> lease \/ (breaking[b].at = "sendAck" /\ h \in known)]
<1>0. /\ UNCHANGED <<plan, obj, opens, busy, todo, notify>>
      /\ breaking' = [breaking EXCEPT ![b] = [at |-> "pick", handle |-> None]]
  BY Zenon DEF BreakSend
<1>1. /\ ObjectsOK' /\ Created' = Created /\ \A g : SharesKey(g)' <=> SharesKey(g)
      /\ \A g, l : Breakable(g, l)' <=> Breakable(g, l)
  BY <1>0, SameObjects, Zenon
<1>2. Breakable(h, lease) /\ h \in Handle
  BY Zenon DEF BreakSend, BreakersOK, Breakable, Created
<1>3. m \in Message
  BY <1>2, Zenon DEF Message
<1>4. notes' = notes \cup {m} /\ acks' = acks
  BY Zenon DEF BreakSend
<1>5. MessagesOK'
  <2>1. m.handle = h /\ m.lease = lease
    BY Zenon
  <2> HIDE DEF m
  <2> QED
    BY <1>1, <1>2, <1>3, <1>4, <2>1, Zenon DEF MessagesOK
<1>6. BreakersOK'
  <2>1. \A d \in Breaker : breaking'[d] = IF d = b THEN [at |-> "pick", handle |-> None] ELSE breaking[d]
    BY <1>0, Zenon DEF BreakersOK
  <2>2. breaking' \in [Breaker -> [at : {"pick", "oplock", "lease", "send", "sendAck", "sendLease"},
                                   handle : Handle \cup {None}]]
    BY <1>0, Zenon DEF BreakersOK
  <2>3. \A d \in Breaker : breaking'[d].at # "pick" =>
            Breakable(breaking'[d].handle, breaking'[d].at \in {"lease", "sendLease"})
    BY <2>1 DEF BreakersOK
  <2> QED
    BY <1>0, <1>1, <2>2, <2>3, Zenon DEF BreakersOK
<1>7. NotifiesOK' /\ CompletionNamesPending'
  BY <1>0, <1>1, SameRequests, Zenon
<1>8. BreakingIsNotified'
  <2> SUFFICES ASSUME NEW g \in opens, obj[g].state = "breaking", ~Unheard(g)', ~\E a \in acks : a.handle = g
               PROVE  \/ \E d \in Breaker : (breaking[d].handle = g /\ breaking[d].at \in {"sendAck", "sendLease"})'
                      \/ \E n \in notes' : n.handle = g /\ n.ack
    BY Zenon DEF BreakSend, BreakingIsNotified
  <2>1. ~Unheard(g) /\ g \notin early'
    BY <1>1, Zenon DEF BreakSend, Unheard
  <2>2. CASE \E n \in notes : n.handle = g /\ n.ack
    BY <2>2, <1>4, Zenon
  <2>3. CASE \E d \in Breaker \ {b} : breaking[d].handle = g /\ breaking[d].at \in {"sendAck", "sendLease"}
    BY <2>3, Zenon DEF BreakSend, BreakersOK
  <2>4. CASE breaking[b].handle = g /\ breaking[b].at \in {"sendAck", "sendLease"}
    <3>1. m.handle = g /\ m.ack
      BY <2>4, <2>1, Zenon DEF BreakSend
    <3> QED
      BY <3>1, <1>4, Zenon
  <2> QED
    BY <2>1, <2>2, <2>3, <2>4, Zenon DEF BreakingIsNotified
<1> QED
  BY <1>1, <1>5, <1>6, <1>7, <1>8, Zenon

(* The acknowledgment takes the place of the notification. *)
LEMMA ClientAckInv ==
    ASSUME BreaksInv, NEW n \in notes, ClientAck(n)
    PROVE  BreaksInv'
<1> USE DEF BreaksInv, tables, breaks
<1>1. /\ UNCHANGED <<plan, obj, opens, busy, todo, breaking, early, notify>>
      /\ notes' = notes \ {n} /\ acks' = IF n.ack THEN acks \cup {n} ELSE acks
  BY Zenon DEF ClientAck
<1>2. /\ ObjectsOK' /\ Created' = Created /\ \A g : SharesKey(g)' <=> SharesKey(g)
      /\ \A g, lease : Breakable(g, lease)' <=> Breakable(g, lease)
  BY <1>1, SameObjects, Zenon
<1>3. BreakersOK'
  BY <1>1, <1>2, Zenon DEF BreakersOK
<1>4. MessagesOK'
  BY <1>1, <1>2, Zenon DEF MessagesOK
<1>5. NotifiesOK' /\ CompletionNamesPending'
  BY <1>1, <1>2, SameRequests, Zenon
<1>6. BreakingIsNotified'
  BY <1>1, <1>2, Zenon DEF BreakingIsNotified, Unheard
<1> QED
  BY <1>2, <1>3, <1>4, <1>5, <1>6, Zenon

(* An open records a request about itself. *)
LEMMA ChangeNotifyArmInv ==
    ASSUME BreaksInv, NEW c \in Client, ChangeNotifyArm(c)
    PROVE  BreaksInv'
<1> USE DEF BreaksInv, tables, breaks
<1> DEFINE h == busy[c].handle
           q == busy[c].notify
           o == [obj[h] EXCEPT !.async = q]
<1>1. h \in Created /\ h \in Handle /\ obj[h] \in Open /\ q \in Notify /\ notify[q].handle = h
  BY DEF ChangeNotifyArm, NotifiesOK, ObjectsOK, Created
<1>2. /\ o \in Open /\ SameLease(o, obj[h]) /\ o.async = q
      /\ o.level = obj[h].level /\ o.state = obj[h].state /\ o.lease = obj[h].lease
  BY <1>1, Zenon DEF Open, SameLease
<1>6. OpenOK(h, o)
  BY <1>1, <1>2, Zenon DEF ObjectsOK, OpenOK
<1>3. obj' = [obj EXCEPT ![h] = o] /\ UNCHANGED <<plan, opens>>
  BY <1>1, Zenon DEF ChangeNotifyArm, ObjectsOK
<1> HIDE DEF o
<1>4. /\ ObjectsOK' /\ Created' = Created
      /\ obj'[h] = o /\ \A g \in Handle \ {h} : obj'[g] = obj[g]
      /\ \A g \in Created : SharesKey(g)' <=> SharesKey(g)
      /\ \A g, lease : Breakable(g, lease)' <=> Breakable(g, lease)
  BY <1>1, <1>2, <1>6, <1>3, ObjectStep, Zenon
<1>5. UNCHANGED <<plan, opens, known, todo, breaking, early, notes, acks>>
  BY Zenon DEF ChangeNotifyArm
<1>7. BreakersOK' /\ MessagesOK'
  BY <1>4, <1>5, Zenon DEF BreakersOK, MessagesOK
<1>8. BreakingIsNotified'
  <2>1. \A g \in opens : g \in Created /\ g \in Handle
    BY Zenon DEF ObjectsOK, Created
  <2>2. \A g \in opens : obj'[g].state = obj[g].state
    BY <2>1, <1>2, <1>4, Zenon
  <2>3. \A g \in opens : Unheard(g)' <=> Unheard(g)
    BY <2>1, <1>4, <1>5, Zenon DEF Unheard
  <2> QED
    BY <2>2, <2>3, <1>5, Zenon DEF BreakingIsNotified
<1>9. \A p \in Notify : /\ notify'[p].handle = notify[p].handle /\ notify'[p].id = notify[p].id
                        /\ notify'[p].at = IF p = q THEN "armed" ELSE notify[p].at
  BY <1>1, SMTT(30) DEF ChangeNotifyArm, NotifiesOK
<1>10. NotifiesOK'
  <2>1. busy' = [busy EXCEPT ![c] = Idle] /\ notify' = [notify EXCEPT ![q].at = "armed"]
    BY Zenon DEF ChangeNotifyArm
  <2>2. ASSUME NEW g \in Created', obj'[g].async # None PROVE notify'[obj'[g].async].handle = g
    <3>1. CASE g = h
      BY <3>1, <1>1, <1>2, <1>4, <1>9, Zenon
    <3>2. CASE g # h
      <4>1. g \in Created /\ g \in Handle /\ obj[g] \in Open /\ obj'[g] = obj[g]
        BY <3>2, <1>4, Zenon DEF ObjectsOK, Created
      <4>2. obj[g].async \in Notify
        BY <2>2, <4>1, Zenon DEF Open
      <4> QED
        BY <2>2, <4>1, <4>2, <1>9 DEF NotifiesOK
    <3> QED
      BY <3>1, <3>2, Zenon
  <2>3. \A p \in Notify : /\ notify'[p].at # "unsent" => notify'[p].handle \in Created'
                          /\ notify'[p].at \in {"armed", "found"} => obj'[notify'[p].handle].async # None
    <3> TAKE p \in Notify
    <3>1. q # None /\ Created \subseteq Handle
      BY <1>1, NoneDistinct, Zenon DEF Created
    <3>2. notify'[p].at # "unsent" => notify'[p].handle \in Created'
      BY <1>1, <1>4, <1>9 DEF NotifiesOK
    <3>3. CASE notify[p].handle = h
      BY <3>1, <3>2, <3>3, <1>2, <1>4, <1>9, SMTT(30)
    <3>4. CASE notify[p].handle # h
      <4>1. p # q
        BY <3>4, <1>1, Zenon
      <4> QED
        BY <3>1, <3>2, <3>4, <4>1, <1>4, <1>9 DEF NotifiesOK
    <3> QED
      BY <3>3, <3>4, Zenon
  <2>4. \A d \in Client : busy'[d].at = "notify" =>
            /\ busy'[d].handle \in Created' /\ busy'[d].notify \in Notify
            /\ notify'[busy'[d].notify].handle = busy'[d].handle
    BY <2>1, <1>4, <1>9 DEF NotifiesOK, Idle
  <2>5. busy' \in [Client -> [at : {"idle", "create", "notify"}, handle : Handle \cup {None},
                              notify : Notify \cup {None}]]
    BY <2>1, Zenon DEF NotifiesOK, Idle
  <2>6. notify' \in [Notify -> [at : {"unsent", "pending", "armed", "found", "done", "dropped"},
                                handle : Handle \cup {None}, id : Notify \cup {None}]]
    BY <2>1, <1>1, SMTT(30) DEF NotifiesOK
  <2> QED
    BY <2>2, <2>3, <2>4, <2>5, <2>6, Zenon DEF NotifiesOK
<1>11. CompletionNamesPending'
  BY <1>9 DEF CompletionNamesPending, NotifiesOK
<1> QED
  BY <1>4, <1>7, <1>8, <1>10, <1>11, Zenon

(* A request that is only now sent was recorded by no open. *)
LEMMA ChangeNotifyInv ==
    ASSUME BreaksInv, NEW c \in Client, NEW h \in Handle, NEW q \in Notify, ChangeNotify(c, h, q)
    PROVE  BreaksInv'
<1> USE DEF BreaksInv, tables, breaks
<1>1. ObjectsOK' /\ BreakersOK' /\ MessagesOK' /\ BreakingIsNotified'
  BY FrameBreaksInv, ZenonT(40) DEF ChangeNotify
<1>2. h \in Created /\ Created' = Created /\ obj' = obj
  BY Zenon DEF ChangeNotify, Mine, ObjectsOK, Created
<1>3. /\ notify' = [notify EXCEPT ![q] = [at |-> "pending", handle |-> h, id |-> None]]
      /\ busy' = [busy EXCEPT ![c] = [at |-> "notify", handle |-> h, notify |-> q]]
  BY Zenon DEF ChangeNotify
<1>4. notify[q].at = "unsent" /\ notify[q].handle = None
  BY SMTT(30) DEF ChangeNotify, Unsent
<1>5. NotifiesOK'
  <2>1. \A p \in Notify \ {q} : notify'[p] = notify[p]
    BY <1>3, Zenon DEF NotifiesOK
  <2>2. notify'[q].handle = h /\ notify'[q].at = "pending"
    BY <1>3, Zenon DEF NotifiesOK
  <2>3. \A g \in Created : g # None /\ obj[g].async \in Notify \cup {None}
    BY NoneDistinct, Zenon DEF ObjectsOK, Created, Open
  <2>4. \A g \in Created : obj[g].async # None => notify'[obj[g].async].handle = g
    BY <2>1, <2>3, <1>4 DEF NotifiesOK
  <2>5. ASSUME NEW d \in Client, busy'[d].at = "notify"
        PROVE  /\ busy'[d].handle \in Created /\ busy'[d].notify \in Notify
               /\ notify'[busy'[d].notify].handle = busy'[d].handle
    <3>1. CASE d = c
      BY <3>1, <2>2, <1>2, <1>3, Zenon DEF NotifiesOK
    <3>2. CASE d # c
      BY <3>2, <2>1, <2>3, <2>5, <1>3, <1>4 DEF NotifiesOK
    <3> QED
      BY <3>1, <3>2, Zenon
  <2>6. \A p \in Notify : /\ notify'[p].at # "unsent" => notify'[p].handle \in Created
                          /\ notify'[p].at \in {"armed", "found"} => obj[notify'[p].handle].async # None
    BY <2>1, <2>2, <1>2, Zenon DEF NotifiesOK
  <2>7. /\ busy' \in [Client -> [at : {"idle", "create", "notify"}, handle : Handle \cup {None},
                                 notify : Notify \cup {None}]]
        /\ notify' \in [Notify -> [at : {"unsent", "pending", "armed", "found", "done", "dropped"},
                                   handle : Handle \cup {None}, id : Notify \cup {None}]]
    BY <1>3, Zenon DEF NotifiesOK
  <2> QED
    BY <2>4, <2>5, <2>6, <2>7, <1>2, Zenon DEF NotifiesOK
<1>6. CompletionNamesPending'
  <2> SUFFICES ASSUME NEW p \in Notify, notify'[p].at = "done"
               PROVE  /\ notify'[p].id \in Notify
                      /\ notify'[notify'[p].id].handle = notify'[p].handle
                      /\ (\A r \in Notify \ {p} : notify'[r].handle # notify'[p].handle) => notify'[p].id = p
    BY Zenon DEF CompletionNamesPending
  <2>1. p # q /\ notify'[p] = notify[p]
    BY <1>3, Zenon DEF NotifiesOK
  <2>2. notify[p].handle \in Handle /\ notify[p].handle # None
    BY <2>1, NoneDistinct, Zenon DEF NotifiesOK, Created
  <2>3. notify[p].id \in Notify /\ notify[notify[p].id].handle = notify[p].handle
    BY <2>1, Zenon DEF CompletionNamesPending
  <2>4. notify[p].id # q /\ notify'[notify[p].id] = notify[notify[p].id]
    BY <2>2, <2>3, <1>3, <1>4, Zenon DEF NotifiesOK
  <2> QED
    BY <2>1, <2>3, <2>4, Zenon
<1> QED
  BY <1>1, <1>5, <1>6, Zenon

(* The completion reads the id of a request about the same open. *)
LEMMA NotifyStepInv ==
    ASSUME BreaksInv, NEW q \in Notify, NotifyWakes(q) \/ NotifyCompletes(q)
    PROVE  BreaksInv'
<1> USE DEF BreaksInv, tables, breaks
<1>1. ObjectsOK' /\ BreakersOK' /\ MessagesOK' /\ BreakingIsNotified'
  BY FrameBreaksInv, Zenon DEF NotifyWakes, NotifyCompletes
<1>2. UNCHANGED <<obj, busy>> /\ Created' = Created
  BY Zenon DEF NotifyWakes, NotifyCompletes, Created
<1>3. \A h \in Created : obj[h].async \in Notify \cup {None}
  BY Zenon DEF ObjectsOK, Created, Open
<1>4. CASE NotifyWakes(q)
  BY <1>1, <1>2, <1>4 DEF NotifyWakes, NotifiesOK, CompletionNamesPending
<1>5. CASE NotifyCompletes(q)
  <2> DEFINE p == obj[notify[q].handle].async
  <2>1. notify[q].handle \in Created /\ p # None
    BY <1>5, Zenon DEF NotifyCompletes, NotifiesOK
  <2>2. p \in Notify /\ notify[p].handle = notify[q].handle
    BY <2>1, <1>3, Zenon DEF NotifiesOK
  <2>3. notify' = [notify EXCEPT ![q] = [@ EXCEPT !.at = "done", !.id = p]]
    BY <1>5, Zenon DEF NotifyCompletes
  <2>4. notify[q].at = "found"
    BY <1>5, Zenon DEF NotifyCompletes
  <2> HIDE DEF p
  <2>5. \A r \in Notify : /\ notify'[r].handle = notify[r].handle
                          /\ notify'[r].id = IF r = q THEN p ELSE notify[r].id
                          /\ notify'[r].at = IF r = q THEN "done" ELSE notify[r].at
    BY <2>3 DEF NotifiesOK
  <2>6. notify' \in [Notify -> [at : {"unsent", "pending", "armed", "found", "done", "dropped"},
                                handle : Handle \cup {None}, id : Notify \cup {None}]]
    <3>1. notify[q] \in [at : {"unsent", "pending", "armed", "found", "done", "dropped"},
                          handle : Handle \cup {None}, id : Notify \cup {None}]
      BY Zenon DEF NotifiesOK
    <3>2. [notify[q] EXCEPT !.at = "done", !.id = p]
              \in [at : {"unsent", "pending", "armed", "found", "done", "dropped"},
                   handle : Handle \cup {None}, id : Notify \cup {None}]
      BY <3>1, <2>2, Zenon
    <3> QED
      BY <3>2, <2>3, Zenon DEF NotifiesOK
  <2>7. NotifiesOK'
    BY <2>4, <2>5, <2>6, <1>2, <1>3, ZenonT(40) DEF NotifiesOK
  <2>8. CompletionNamesPending'
    <3> SUFFICES ASSUME NEW r \in Notify, notify'[r].at = "done"
                 PROVE  /\ notify'[r].id \in Notify
                        /\ notify'[notify'[r].id].handle = notify'[r].handle
                        /\ (\A t \in Notify \ {r} : notify'[t].handle # notify'[r].handle) => notify'[r].id = r
      BY Zenon DEF CompletionNamesPending
    <3>1. notify'[r].id \in Notify /\ notify[notify'[r].id].handle = notify[r].handle
      BY <2>2, <2>5, ZenonT(40) DEF CompletionNamesPending
    <3> QED
      BY <3>1, <2>5, Zenon
  <2> QED
    BY <1>1, <2>7, <2>8, Zenon
<1> QED
  BY <1>4, <1>5, Zenon

(* A step that changes the level, the state or the lease of one open.       *)
LEMMA OneOpenChanges ==
    ASSUME BreaksInv, UNCHANGED <<plan, opens, busy, notify>>,
           NEW g \in Created, NEW o \in Open, SameLease(o, obj[g]), o.async = obj[g].async,
           OpenOK(g, o), obj' = [obj EXCEPT ![g] = o]
    PROVE  /\ ObjectsOK' /\ NotifiesOK' /\ CompletionNamesPending' /\ Created' = Created
           /\ g \in Handle /\ obj'[g] = o /\ \A h \in Handle \ {g} : obj'[h] = obj[h]
           /\ \A h \in Created : SharesKey(h)' <=> SharesKey(h)
           /\ \A h, lease : Breakable(h, lease)' <=> Breakable(h, lease)
<1> USE DEF BreaksInv
<1>1. /\ ObjectsOK' /\ Created' = Created
      /\ obj'[g] = o /\ \A h \in Handle \ {g} : obj'[h] = obj[h]
      /\ \A h \in Created : SharesKey(h)' <=> SharesKey(h)
      /\ \A h, lease : Breakable(h, lease)' <=> Breakable(h, lease)
  BY ObjectStep, Zenon
<1>2. g \in Handle /\ \A h \in Created : obj'[h].async = obj[h].async
  BY <1>1, Zenon DEF Created
<1>3. NotifiesOK' /\ CompletionNamesPending'
  BY <1>1, <1>2, SameRequests, Zenon
<1> QED
  BY <1>1, <1>2, <1>3, Zenon

(* The marks: the open is breaking from then on, and the step that sends    *)
(* the notification is next.                                                *)
LEMMA MarkBreaksInv ==
    ASSUME BreaksInv, NEW b \in Breaker, MarkOplock(b) \/ MarkLease(b)
    PROVE  BreaksInv'
<1> USE DEF BreaksInv
<1> DEFINE h == breaking[b].handle
           at == IF breaking[b].at = "lease" THEN "sendLease"
                 ELSE IF obj[h].level = "II" THEN "send" ELSE "sendAck"
           o == IF breaking[b].at = "lease" THEN [obj[h] EXCEPT !.lease.breaking = TRUE, !.state = "breaking"]
                ELSE [obj[h] EXCEPT !.level = IF obj[h].level = "II" THEN "none" ELSE obj[h].level,
                                    !.state = IF obj[h].level = "II" THEN "none" ELSE "breaking"]
<1>1. /\ obj' = [obj EXCEPT ![h] = o] /\ breaking' = [breaking EXCEPT ![b].at = at]
      /\ UNCHANGED <<plan, opens, known, busy, todo, began, early, notes, acks, notify>>
  <2>1. CASE MarkOplock(b)
    <3>1. breaking[b].at # "lease"
      BY <2>1, Zenon DEF MarkOplock
    <3>2. at = (IF obj[h].level = "II" THEN "send" ELSE "sendAck")
          /\ o = [obj[h] EXCEPT !.level = IF obj[h].level = "II" THEN "none" ELSE obj[h].level,
                                !.state = IF obj[h].level = "II" THEN "none" ELSE "breaking"]
      BY <3>1, Zenon
    <3>3. obj' = [obj EXCEPT ![h] = o]
      BY <2>1, <3>2, Zenon DEF MarkOplock
    <3>4. breaking' = [breaking EXCEPT ![b].at = at]
      BY <2>1, <3>2, Zenon DEF MarkOplock
    <3> QED
      BY <2>1, <3>3, <3>4, Zenon DEF MarkOplock
  <2>2. CASE MarkLease(b)
    <3>1. at = "sendLease" /\ o = [obj[h] EXCEPT !.lease.breaking = TRUE, !.state = "breaking"]
      BY <2>2, Zenon DEF MarkLease
    <3> QED
      BY <2>2, <3>1, Zenon DEF MarkLease
  <2> QED
    BY <2>1, <2>2, Zenon
<1>2. breaking[b].at \in {"oplock", "lease"}
  BY Zenon DEF MarkOplock, MarkLease
<1>3. Breakable(h, breaking[b].at = "lease") /\ h \in Created /\ obj[h] \in Open
  BY <1>2, Zenon DEF BreakersOK, ObjectsOK, Breakable, Created
<1>4. /\ o \in Open /\ SameLease(o, obj[h]) /\ o.async = obj[h].async /\ OpenOK(h, o)
      /\ o.state = "breaking" => at # "send"
  <2>1. CASE breaking[b].at = "lease"
    <3>1. obj[h].lease \in Lease /\ AskedLease(h) /\ OpenOK(h, obj[h])
      BY <2>1, <1>3, Zenon DEF Breakable, Open, ObjectsOK
    <3>2. /\ [obj[h].lease EXCEPT !.breaking = TRUE] \in Lease
          /\ [obj[h].lease EXCEPT !.breaking = TRUE].key = obj[h].lease.key
          /\ [obj[h].lease EXCEPT !.breaking = TRUE].breaking
      BY <3>1, Zenon DEF Lease
    <3>3. o = [obj[h] EXCEPT !.lease = [obj[h].lease EXCEPT !.breaking = TRUE], !.state = "breaking"]
      BY <2>1, <1>3, Zenon DEF Open
    <3> QED
      BY <2>1, <3>1, <3>2, <3>3, <1>3, NoneDistinct, Zenon DEF Open, SameLease, OpenOK
  <2>2. CASE breaking[b].at = "oplock"
    <3>1. ~AskedLease(h) /\ OpenOK(h, obj[h])
      BY <2>2, <1>3, Zenon DEF Breakable, ObjectsOK
    <3> QED
      BY <2>2, <3>1, <1>3, ZenonT(40) DEF Open, SameLease, OpenOK
  <2> QED
    BY <1>2, <2>1, <2>2, Zenon
<1> HIDE DEF o
<1>5. /\ ObjectsOK' /\ NotifiesOK' /\ CompletionNamesPending' /\ Created' = Created
      /\ obj'[h] = o /\ \A g \in Handle \ {h} : obj'[g] = obj[g]
      /\ \A g \in Created : SharesKey(g)' <=> SharesKey(g)
      /\ \A g, lease : Breakable(g, lease)' <=> Breakable(g, lease)
  BY <1>1, <1>3, <1>4, OneOpenChanges, Zenon
<1>6. \A d \in Breaker : /\ breaking'[d].handle = breaking[d].handle
                         /\ breaking'[d].at = IF d = b THEN at ELSE breaking[d].at
  BY <1>1, Zenon DEF BreakersOK
<1>7. BreakersOK'
  <2>1. Breakable(h, at \in {"lease", "sendLease"})
    BY <1>2, <1>3
  <2>2. breaking' \in [Breaker -> [at : {"pick", "oplock", "lease", "send", "sendAck", "sendLease"},
                                   handle : Handle \cup {None}]]
    BY <1>1 DEF BreakersOK
  <2> QED
    BY <1>1, <1>5, <1>6, <2>1, <2>2 DEF BreakersOK
<1>8. MessagesOK'
  BY <1>1, <1>5, Zenon DEF MessagesOK
<1>9. BreakingIsNotified'
  <2> SUFFICES ASSUME NEW g \in opens, obj'[g].state = "breaking", ~Unheard(g)',
                      ~(\E n \in notes : n.handle = g /\ n.ack), ~\E a \in acks : a.handle = g
               PROVE  \E d \in Breaker : (breaking[d].handle = g /\ breaking[d].at \in {"sendAck", "sendLease"})'
    BY <1>1, Zenon DEF BreakingIsNotified
  <2>1. CASE g = h
    BY <2>1, <1>4, <1>5, <1>6, Zenon
  <2>2. CASE g # h
    <3>1. g \in Created /\ g \in Handle /\ obj'[g] = obj[g] /\ ~Unheard(g)
      BY <2>2, <1>1, <1>5, Zenon DEF ObjectsOK, Created, Unheard
    <3>2. PICK d \in Breaker : breaking[d].handle = g /\ breaking[d].at \in {"sendAck", "sendLease"}
      BY <3>1, Zenon DEF BreakingIsNotified
    <3> QED
      BY <3>2, <2>2, <1>6, Zenon
  <2> QED
    BY <2>1, <2>2, Zenon
<1> QED
  BY <1>5, <1>7, <1>8, <1>9, Zenon

(* CREATE: the open is new and not breaking; others may now share its key.  *)
LEMMA CreateBreaksInv ==
    ASSUME BreaksInv, NEW h \in Handle, Create(h)
    PROVE  BreaksInv'
<1> USE DEF BreaksInv
<1> DEFINE ask == plan.ask[h]
           o == [owner |-> ask.client, level |-> ask.level, state |-> IF ask.level = "none" THEN "none" ELSE "held",
                 lease |-> HandleRqLs(ask.key), async |-> None]
<1>1. ask \in Ask
  BY BreaksAssumption, Zenon DEF Create, ObjectsOK
<1>2. o \in Open /\ o.async = None /\ o.state # "breaking" /\ o.level = ask.level
  <2>1. HandleRqLs(ask.key) \in Lease \cup {None}
    BY <1>1, Zenon DEF HandleRqLs, Ask, Lease
  <2> QED
    BY <1>1, <2>1, Zenon DEF Ask, Open
<1>3. /\ obj[h] = None /\ ask # None /\ obj' = [obj EXCEPT ![h] = o] /\ opens' = opens \cup {h}
      /\ busy' = [busy EXCEPT ![ask.client] = [at |-> "create", handle |-> h, notify |-> None]]
      /\ UNCHANGED <<plan, todo, breaking, early, notes, acks, notify>>
  BY Zenon DEF Create, breaks
<1> HIDE DEF o
<1>4. /\ obj' \in [Handle -> Open \cup {None}] /\ obj'[h] = o /\ \A g \in Handle \ {h} : obj'[g] = obj[g]
  BY <1>2, <1>3, Zenon DEF ObjectsOK
<1>5. Created' = Created \cup {h} /\ h \notin Created /\ \A g \in Created : g \in Handle /\ obj'[g] = obj[g]
  BY <1>2, <1>3, <1>4, NoneDistinct, Zenon DEF Created
<1>6. ObjectsOK'
  <2>1. OpenOK(h, obj[h])'
    BY <1>2, <1>3, <1>4, Zenon DEF OpenOK, AskedLease
  <2>2. \A g \in Created : OpenOK(g, obj[g])'
    BY <1>3, <1>5, Zenon DEF ObjectsOK, OpenOK, AskedLease
  <2> QED
    BY <1>3, <1>4, <1>5, <2>1, <2>2, Zenon DEF ObjectsOK
<1>7. \A g, lease : Breakable(g, lease) => Breakable(g, lease)'
  BY <1>3, <1>5, Zenon DEF Breakable, AskedLease
<1>8. BreakersOK' /\ MessagesOK'
  BY <1>3, <1>5, <1>7, Zenon DEF BreakersOK, MessagesOK
<1>9. BreakingIsNotified'
  <2>1. \A g \in Created : SharesKey(g) => SharesKey(g)'
    BY <1>4, <1>5, Zenon DEF SharesKey, Created
  <2>2. \A g \in opens : g \in Created /\ obj'[g] = obj[g] /\ (Unheard(g) => Unheard(g)')
    BY <1>3, <1>5, <2>1, Zenon DEF ObjectsOK, Unheard
  <2> QED
    BY <1>2, <1>3, <1>4, <2>2, ZenonT(40) DEF BreakingIsNotified
<1>10. NotifiesOK'
  <2>1. ask.client \in Client
    BY <1>1, Zenon DEF Ask
  <2>2. \A g \in Created' : obj'[g].async # None => notify'[obj'[g].async].handle = g
    BY <1>2, <1>3, <1>4, <1>5, Zenon DEF NotifiesOK
  <2>3. \A q \in Notify : /\ notify'[q].at # "unsent" => notify'[q].handle \in Created'
                          /\ notify'[q].at \in {"armed", "found"} => obj'[notify'[q].handle].async # None
    BY <1>3, <1>5 DEF NotifiesOK
  <2> QED
    BY <1>3, <1>5, <2>1, <2>2, <2>3, Zenon DEF NotifiesOK
<1>11. CompletionNamesPending'
  BY <1>3, Zenon DEF CompletionNamesPending
<1> QED
  BY <1>6, <1>8, <1>9, <1>10, <1>11, Zenon

(* An acknowledgment is taken: it is enough that what is known of the       *)
(* objects is kept, that no open begins to break, and that the open it is   *)
(* about is not breaking any more.                                          *)
LEMMA AckTaken ==
    ASSUME BreaksInv, NEW a \in acks, acks' = acks \ {a},
           UNCHANGED <<plan, opens, busy, todo, breaking, early, notes, notify>>,
           ObjectsOK', NotifiesOK', CompletionNamesPending', Created' = Created,
           \A g \in opens : obj'[g].state = "breaking" => obj[g].state = "breaking",
           \A g \in Created : SharesKey(g)' <=> SharesKey(g),
           \A g, lease : Breakable(g, lease)' <=> Breakable(g, lease),
           a.handle \in opens /\ ~Unheard(a.handle) => obj'[a.handle].state # "breaking"
    PROVE  BreaksInv'
<1> USE DEF BreaksInv
<1>1. BreakersOK' /\ MessagesOK'
  BY Zenon DEF BreakersOK, MessagesOK
<1>2. \A g \in opens : Unheard(g)' <=> Unheard(g)
  BY Zenon DEF Unheard, ObjectsOK
<1>3. BreakingIsNotified'
  <2> SUFFICES ASSUME NEW g \in opens, obj'[g].state = "breaking", ~Unheard(g)
               PROVE  \/ \E b \in Breaker : breaking[b].handle = g /\ breaking[b].at \in {"sendAck", "sendLease"}
                      \/ \E n \in notes : n.handle = g /\ n.ack
                      \/ \E x \in acks' : x.handle = g
    BY <1>2, Zenon DEF BreakingIsNotified
  <2>1. obj[g].state = "breaking" /\ a.handle # g
    BY Zenon
  <2> QED
    BY <2>1, Zenon DEF BreakingIsNotified
<1> QED
  BY <1>1, <1>3, Zenon

(* The acknowledgment is refused, its open not being in a break.            *)
LEMMA AckRefused ==
    ASSUME BreaksInv, NEW a \in acks, acks' = acks \ {a},
           UNCHANGED <<plan, opens, busy, todo, breaking, early, notes, notify>>,
           UNCHANGED obj, a.handle \in opens /\ ~Unheard(a.handle) => obj[a.handle].state # "breaking"
    PROVE  BreaksInv'
<1> USE DEF BreaksInv
<1>1. /\ ObjectsOK' /\ Created' = Created /\ \A g : SharesKey(g)' <=> SharesKey(g)
      /\ \A g, lease : Breakable(g, lease)' <=> Breakable(g, lease)
  BY SameObjects, Zenon
<1>2. NotifiesOK' /\ CompletionNamesPending'
  BY <1>1, SameRequests, Zenon
<1> QED
  BY <1>1, <1>2, AckTaken, Zenon

(* The acknowledgment clears the mark of the open it is about, unless it is *)
(* credited to another open with the same key.                              *)
LEMMA AckClears ==
    ASSUME BreaksInv, NEW a \in acks, acks' = acks \ {a},
           UNCHANGED <<plan, opens, busy, todo, breaking, early, notes, notify>>,
           NEW g \in Created, NEW o \in Open, SameLease(o, obj[g]), o.async = obj[g].async, OpenOK(g, o),
           obj' = [obj EXCEPT ![g] = o], o.state # "breaking", g = a.handle \/ SharesKey(a.handle)
    PROVE  BreaksInv'
<1> USE DEF BreaksInv
<1>1. /\ ObjectsOK' /\ NotifiesOK' /\ CompletionNamesPending' /\ Created' = Created
      /\ g \in Handle /\ obj'[g] = o /\ \A f \in Handle \ {g} : obj'[f] = obj[f]
      /\ \A f \in Created : SharesKey(f)' <=> SharesKey(f)
      /\ \A f, lease : Breakable(f, lease)' <=> Breakable(f, lease)
  BY OneOpenChanges, Zenon
<1>2. opens \subseteq Handle
  BY ONLY BreaksInv, OpensAreHandles, Zenon DEF BreaksInv
<1>3. \A f \in opens : obj'[f].state = "breaking" => obj[f].state = "breaking"
  BY <1>1, <1>2, Zenon
<1>4. a.handle \in opens /\ ~Unheard(a.handle) => obj'[a.handle].state # "breaking"
  BY <1>1, Zenon DEF Unheard
<1> QED
  BY <1>1, <1>3, <1>4, AckTaken, Zenon

(* oplockBreak with an acknowledgment of an oplock break: any level clears. *)
LEMMA OplockAckInv ==
    ASSUME BreaksInv, NEW a \in acks, NEW level \in {"none", "II"}, OplockAck(a, level)
    PROVE  BreaksInv'
<1> USE DEF BreaksInv
<1> DEFINE h == a.handle
<1>a. h \in Created /\ Breakable(h, a.lease) /\ OpenOK(h, obj[h]) /\ obj[h] \in Open
  BY Zenon DEF MessagesOK, Breakable, ObjectsOK, Created
<1>b. acks' = acks \ {a} /\ UNCHANGED <<plan, opens, busy, todo, breaking, early, notes, notify>>
  BY Zenon DEF OplockAck, breaks
<1>1. ~AskedLease(h) /\ ~a.lease
  BY <1>a, Zenon DEF OplockAck, Breakable
<1>2. CASE UNCHANGED obj /\ (h \in opens => obj[h].state # "breaking")
  BY <1>2, <1>b, AckRefused, Zenon
<1>3. CASE obj' = [obj EXCEPT ![h] = [@ EXCEPT !.level = level,
                                               !.state = IF level = "none" THEN "none" ELSE "held"]]
  <2> DEFINE o == [obj[h] EXCEPT !.level = level, !.state = IF level = "none" THEN "none" ELSE "held"]
  <2>1. o \in Open /\ SameLease(o, obj[h]) /\ o.async = obj[h].async /\ OpenOK(h, o) /\ o.state # "breaking"
    BY <1>a, <1>1, Zenon DEF Open, SameLease, OpenOK
  <2>2. obj' = [obj EXCEPT ![h] = o]
    BY <1>3, Zenon
  <2> HIDE DEF o
  <2> QED
    BY <1>a, <1>b, AckClears, <2>1, <2>2, Zenon
<1> QED
  BY <1>2, <1>3, Zenon DEF OplockAck

(* oplockBreak with an acknowledgment of a lease break: an open in a break  *)
(* has its lease in a break, so that the acknowledgment is not refused.     *)
LEMMA LeaseAckInv ==
    ASSUME BreaksInv, NEW a \in acks, NEW state \in {"none", "read"}, LeaseAck(a, state)
    PROVE  BreaksInv'
<1> USE DEF BreaksInv
<1> DEFINE h == a.handle
<1>a. h \in Created /\ Breakable(h, a.lease) /\ OpenOK(h, obj[h]) /\ obj[h] \in Open
  BY Zenon DEF MessagesOK, Breakable, ObjectsOK, Created
<1>b. acks' = acks \ {a} /\ UNCHANGED <<plan, opens, busy, todo, breaking, early, notes, notify>>
  BY Zenon DEF LeaseAck, breaks
<1> DEFINE found == WithKey(obj[h].lease.key)
<1>1. AskedLease(h) /\ obj[h].lease # None /\ obj[h].lease \in Lease
  BY <1>a, Zenon DEF LeaseAck, Breakable, Open
<1>2. \A g \in found : g \in opens /\ g \in Created /\ obj[g].lease # None /\ (g = h \/ SharesKey(h))
  BY <1>1, <1>a, Zenon DEF WithKey, SharesKey, ObjectsOK, Created
<1>3. h \in opens => h \in found
  BY <1>1, Zenon DEF WithKey
<1>4. CASE UNCHANGED obj /\ (found = {} \/ \E g \in found : ~obj[g].lease.breaking)
  <2>1. h \in opens /\ ~Unheard(h) => obj[h].state # "breaking"
    BY <1>a, <1>1, <1>2, <1>3, <1>4, Zenon DEF Unheard, OpenOK
  <2> QED
    BY <2>1, <1>4, <1>b, AckRefused, Zenon
<1>5. ASSUME NEW g \in found,
             obj' = [obj EXCEPT ![g] = [@ EXCEPT !.lease = [obj[g].lease EXCEPT !.state = state, !.breaking = FALSE],
                                                 !.level = IF state = "none" THEN "none" ELSE obj[g].level,
                                                 !.state = IF state = "none" THEN "none" ELSE "held"]]
      PROVE  BreaksInv'
  <2> DEFINE l == [obj[g].lease EXCEPT !.state = state, !.breaking = FALSE]
             o == [obj[g] EXCEPT !.lease = l, !.level = IF state = "none" THEN "none" ELSE obj[g].level,
                                 !.state = IF state = "none" THEN "none" ELSE "held"]
  <2>1. obj[g] \in Open /\ obj[g].lease \in Lease /\ OpenOK(g, obj[g]) /\ g \in Created
    BY <1>2, Zenon DEF ObjectsOK, Created, Open
  <2>2. l \in Lease /\ l.key = obj[g].lease.key
    BY <2>1, Zenon DEF Lease
  <2>3. obj' = [obj EXCEPT ![g] = o]
    BY <1>5, Zenon
  <2> HIDE DEF l
  <2>4. o \in Open /\ SameLease(o, obj[g]) /\ o.async = obj[g].async /\ OpenOK(g, o) /\ o.state # "breaking"
    BY <2>1, <2>2, NoneDistinct, Zenon DEF Open, SameLease, OpenOK
  <2> HIDE DEF o
  <2> QED
    BY <1>b, AckClears, <1>2, <2>1, <2>3, <2>4, Zenon
<1> QED
  BY <1>4, <1>5, Zenon DEF LeaseAck

(* The invariant holds throughout. *)
LEMMA BreaksInvariant == Spec => []BreaksInv
<1>1. BreaksInv /\ [Next]_vars => BreaksInv'
  <2> SUFFICES ASSUME BreaksInv, [Next]_vars PROVE BreaksInv'
    BY Zenon
  <2>1. CASE UNCHANGED vars
    <3>1. UNCHANGED <<plan, obj, opens, todo, breaking, early, notes, acks, busy, notify>>
      BY <2>1, Zenon DEF vars
    <3>2. ObjectsOK' /\ BreakersOK' /\ MessagesOK' /\ BreakingIsNotified' /\ Created' = Created
      BY <3>1, FrameBreaksInv, Zenon
    <3> QED
      BY <3>1, <3>2, Zenon DEF BreaksInv, NotifiesOK, CompletionNamesPending
  <2>2. ASSUME NEW h \in Handle, Create(h) PROVE BreaksInv'
    BY <2>2, CreateBreaksInv, Zenon
  <2>3. ASSUME NEW c \in Client, Dispatch(c) \/ Receive(c) PROVE BreaksInv'
    BY <2>3, CreateRespondInv, ChangeNotifyArmInv, CloseInv, ChangeNotifyInv, Zenon DEF Dispatch, Receive
  <2>4. CASE Acknowledge
    BY <2>4, OplockAckInv, LeaseAckInv, Zenon DEF Acknowledge
  <2>5. CASE Acked
    BY <2>5, ClientAckInv, Zenon DEF Acked
  <2>6. ASSUME NEW b \in Breaker, BreakNode(b) \/ BreakStep(b) PROVE BreaksInv'
    BY <2>6, BreakNodeInv, BreakOpenInv, MarkBreaksInv, BreakSendInv, Zenon DEF BreakStep
  <2>7. ASSUME NEW q \in Notify, NotifyStep(q) PROVE BreaksInv'
    BY <2>7, NotifyStepInv, Zenon DEF NotifyStep
  <2> QED
    BY <2>1, <2>2, <2>3, <2>4, <2>5, <2>6, <2>7, Zenon DEF Next
<1> QED
  BY InitBreaksInv, <1>1, PTL DEF Spec

(* sendOplockBreak, sendLeaseBreak and oplockBreak leave no open breaking   *)
(* without a notification or an acknowledgment about it, for any number of  *)
(* opens, clients and concurrent runs of BreakNode.                         *)
THEOREM BreakingNotified == Spec => []BreakingIsNotified
<1>1. BreaksInv => BreakingIsNotified
  BY Zenon DEF BreaksInv
<1> QED
  BY <1>1, BreaksInvariant, PTL

(* changeNotify completes a request with the asynchronous id of a request   *)
(* about the same open, however many requests are made on it.               *)
THEOREM CompletionsNamePending == Spec => []CompletionNamesPending
<1>1. BreaksInv => CompletionNamesPending
  BY Zenon DEF BreaksInv
<1> QED
  BY <1>1, BreaksInvariant, PTL

-----------------------------------------------------------------------------
(* The handles that are told, found or broken early are handles.            *)
HandlesOK ==
    /\ known \subseteq Handle /\ early \subseteq Handle
    /\ began \in [Breaker -> SUBSET Handle]
    /\ \A c \in Client : busy[c].at = "create" => busy[c].handle \in Handle

(* A connection that is idle or in a CHANGE_NOTIFY creates nothing.         *)
LEMMA BusyHandles ==
    ASSUME BreaksInv, HandlesOK, NEW c, NEW v, busy' = [busy EXCEPT ![c] = v],
           v.at = "create" => v.handle \in Handle
    PROVE  \A d \in Client : busy'[d].at = "create" => busy'[d].handle \in Handle
<1>1. DOMAIN busy = Client
  BY Zenon DEF BreaksInv, NotifiesOK
<1> SUFFICES ASSUME NEW d \in Client PROVE busy'[d].at = "create" => busy'[d].handle \in Handle
  BY Zenon
<1>2. CASE d = c
  BY <1>1, <1>2, Zenon
<1>3. CASE d # c
  <2>1. busy'[d] = busy[d]
    BY <1>1, <1>3, Zenon
  <2> QED
    BY <2>1, Zenon DEF HandlesOK
<1> QED
  BY <1>2, <1>3, Zenon

(* Every step keeps them. *)
LEMMA HandlesNext ==
    ASSUME BreaksInv, HandlesOK, [Next]_vars
    PROVE  HandlesOK'
<1>1. CASE UNCHANGED vars
  BY <1>1, Zenon DEF vars, HandlesOK
<1>2. ASSUME NEW h \in Handle, Create(h) PROVE HandlesOK'
  <2>1. /\ busy' = [busy EXCEPT ![plan.ask[h].client] = [at |-> "create", handle |-> h, notify |-> None]]
        /\ UNCHANGED <<known, early, began>>
    BY <1>2, Zenon DEF Create, breaks
  <2> QED
    BY <2>1, BusyHandles DEF HandlesOK
<1>3. ASSUME NEW c \in Client, CreateRespond(c) PROVE HandlesOK'
  <2>1. /\ busy' = [busy EXCEPT ![c] = Idle] /\ known' = known \cup {busy[c].handle}
        /\ busy[c].at = "create" /\ UNCHANGED <<early, began>>
    BY <1>3, Zenon DEF CreateRespond, breaks
  <2>2. \A d \in Client : busy'[d].at = "create" => busy'[d].handle \in Handle
    BY <2>1, BusyHandles, Zenon DEF Idle
  <2> QED
    BY <2>1, <2>2, <1>3, Zenon DEF HandlesOK
<1>4. ASSUME NEW c \in Client, ChangeNotifyArm(c) PROVE HandlesOK'
  <2>1. busy' = [busy EXCEPT ![c] = Idle] /\ UNCHANGED <<known, early, began>>
    BY <1>4, Zenon DEF ChangeNotifyArm, breaks
  <2> QED
    BY <2>1, BusyHandles, Zenon DEF HandlesOK, Idle
<1>5. ASSUME NEW c \in Client, NEW h \in Handle, NEW q \in Notify, ChangeNotify(c, h, q)
      PROVE  HandlesOK'
  <2>1. /\ busy' = [busy EXCEPT ![c] = [at |-> "notify", handle |-> h, notify |-> q]]
        /\ UNCHANGED <<known, early, began>>
    BY <1>5, Zenon DEF ChangeNotify, breaks
  <2> QED
    BY <2>1, BusyHandles, Zenon DEF HandlesOK
<1>6. ASSUME NEW b \in Breaker, BreakNode(b) PROVE HandlesOK'
  <2>1. began' = [began EXCEPT ![b] = opens] /\ UNCHANGED <<known, busy, early>>
    BY <1>6, Zenon DEF BreakNode, tables
  <2>2. opens \subseteq Handle
    BY OpensAreHandles, Zenon DEF BreaksInv
  <2> QED
    BY <2>1, <2>2, Zenon DEF HandlesOK
<1>7. ASSUME NEW b \in Breaker, BreakSend(b) PROVE HandlesOK'
  <2>1. /\ early' = early \/ early' = early \cup {breaking[b].handle}
        /\ breaking[b].at # "pick" /\ UNCHANGED <<known, busy, began>>
    BY <1>7, Zenon DEF BreakSend, tables
  <2>2. breaking[b].handle \in Handle
    BY <2>1, Zenon DEF BreaksInv, BreakersOK, Breakable, Created
  <2> QED
    BY <2>1, <2>2, Zenon DEF HandlesOK
<1>8. CASE UNCHANGED <<known, busy, began, early>>
  BY <1>8, Zenon DEF HandlesOK
<1>9. ASSUME NEW c \in Client, NEW h \in Handle, Close(c, h)
      PROVE  UNCHANGED <<known, busy, began, early>>
  BY ONLY <1>9, Zenon DEF Close, breaks
<1>10. ASSUME Acknowledge \/ Acked
       PROVE  UNCHANGED <<known, busy, began, early>>
  BY ONLY <1>10, Zenon DEF Acknowledge, Acked, OplockAck, LeaseAck, ClientAck, breaks, tables
<1>11. ASSUME NEW b \in Breaker, MarkOplock(b) \/ MarkLease(b) \/ \E h \in Handle : BreakOpen(b, h)
       PROVE  UNCHANGED <<known, busy, began, early>>
  BY <1>11, Zenon DEF MarkOplock, MarkLease, BreakOpen, tables
<1>12. ASSUME NEW q \in Notify, NotifyStep(q)
       PROVE  UNCHANGED <<known, busy, began, early>>
  BY <1>12, Zenon DEF NotifyStep, NotifyWakes, NotifyCompletes, breaks, tables
<1> QED
  BY <1>1, <1>2, <1>3, <1>4, <1>5, <1>6, <1>7, <1>8, <1>9, <1>10, <1>11, <1>12, Zenon
     DEF Next, Dispatch, Receive, BreakStep

(* Every variable of the breaks and notifications has its type (TypeOK):    *)
(* what BreakNode, oplockBreak and changeNotify record about an open that   *)
(* was closed meanwhile stays about a handle that was created.              *)
THEOREM BreaksTyped == Spec => []TypeOK
<1>1. Init => HandlesOK
  BY DEF Init, HandlesOK, Idle
<1>2. BreaksInv /\ HandlesOK /\ [Next]_vars => HandlesOK'
  BY HandlesNext, Zenon
<1>3. BreaksInv /\ HandlesOK => TypeOK
  <2> SUFFICES ASSUME BreaksInv, HandlesOK PROVE TypeOK
    BY Zenon
  <2>1. /\ obj \in [Handle -> Open \cup {None}] /\ opens \subseteq {h \in Handle : obj[h] # None}
        /\ notes \subseteq Message /\ acks \subseteq Message
    BY Zenon DEF BreaksInv, ObjectsOK, MessagesOK, Created
  <2>2. /\ \A b \in Breaker :
             breaking[b].at \in {"pick", "oplock", "lease", "send", "sendAck", "sendLease"}
        /\ \A c \in Client : busy[c].at \in {"idle", "create", "notify"}
        /\ \A q \in Notify :
             notify[q].at \in {"unsent", "pending", "armed", "found", "done", "dropped"}
    BY Zenon DEF BreaksInv, BreakersOK, NotifiesOK
  <2> QED
    BY <2>1, <2>2, Zenon DEF HandlesOK, TypeOK
<1> QED
  BY <1>1, <1>2, <1>3, BreaksInvariant, PTL DEF Spec
============================================================================
