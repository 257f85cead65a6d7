------------------------------- MODULE Breaks -----------------------------
(* What the server sends unasked about the opens of one file: the oplock    *)
(* and lease breaks of Server.BreakNode, which runs in a goroutine of the   *)
(* program that embeds the server, and the completions of CHANGE_NOTIFY,    *)
(* which run in goroutines of their own.  Both read and write the Open      *)
(* objects without a lock, beside the dispatchers of the connections, which *)
(* create and close opens and handle acknowledgments.                       *)
(*                                                                          *)
(* A client is modelled by what it must do: it acknowledges the breaks that *)
(* ask for it, of oplocks only when it knows the handle.                    *)
EXTENDS Integers, FiniteSets

CONSTANTS Client, Handle, Breaker, Notify,
          Key,        \* lease keys
          Plans,      \* what happens: the CREATEs that may come, the runs of BreakNode
                      \* and the CHANGE_NOTIFYs, each at most once
          None

Lease == [key : Key, state : {"full", "read", "none"}, breaking : BOOLEAN]
Open == [owner : Client, level : {"none", "II", "excl", "lease"},
         state : {"none", "held", "breaking"}, lease : Lease \cup {None}, async : Notify \cup {None}]
Ask == [client : Client, level : {"none", "II", "excl", "lease"}, key : Key \cup {None}]
Message == [by : Breaker, handle : Handle, lease : BOOLEAN, ack : BOOLEAN]

ASSUME BreaksAssumption ==
    /\ Plans \subseteq [ask : [Handle -> Ask \cup {None}], breakers : SUBSET Breaker, notifies : SUBSET Notify]
    /\ None \notin Client \cup Handle \cup Breaker \cup Notify \cup Key
    /\ None \notin Lease /\ None \notin Open

VARIABLES
    plan,
    obj,       \* the Open object of each handle, kept by those that hold a pointer to it
    opens,     \* Server.opens: the handles in the table
    known,     \* the handles whose CREATE was answered
    busy,      \* what the dispatcher of each connection is in the middle of
    todo,      \* the opens that each run of BreakNode has still to break
    breaking,  \* the open it is at, and in which step
    began,     \* the opens it found in the table
    early,     \* the opens whose oplock break was sent before their CREATE was answered
    notes,     \* break notifications on their way to the client
    acks,      \* acknowledgments on their way to the server
    notify     \* the CHANGE_NOTIFY requests

vars == <<plan, obj, opens, known, busy, todo, breaking, began, early, notes, acks, notify>>
tables == <<plan, obj, opens, known, busy>>
breaks == <<todo, breaking, began, early, notes>>

Idle == [at |-> "idle", handle |-> None, notify |-> None]
Unsent == [at |-> "unsent", handle |-> None, id |-> None]

Init ==
    /\ plan \in Plans
    /\ obj = [h \in Handle |-> None] /\ opens = {} /\ known = {}
    /\ busy = [c \in Client |-> Idle]
    /\ todo = [b \in Breaker |-> None] /\ began = [b \in Breaker |-> {}]
    /\ breaking = [b \in Breaker |-> [at |-> "pick", handle |-> None]]
    /\ early = {} /\ notes = {} /\ acks = {}
    /\ notify = [q \in Notify |-> Unsent]

-----------------------------------------------------------------------------
HandleRqLs(key) == IF key = None THEN None ELSE [key |-> key, state |-> "full", breaking |-> FALSE]

(* create: the level that was asked for is granted, and a RqLs context      *)
(* makes a lease whatever the level.  The open is in the table before the   *)
(* response is sent.                                                        *)
Create(h) ==
    /\ obj[h] = None /\ plan.ask[h] # None
    /\ LET ask == plan.ask[h] IN
       /\ busy[ask.client] = Idle
       /\ obj' = [obj EXCEPT ![h] =
             [owner |-> ask.client, level |-> ask.level,
              state |-> IF ask.level = "none" THEN "none" ELSE "held",
              lease |-> HandleRqLs(ask.key),
              async |-> None]]
       /\ busy' = [busy EXCEPT ![ask.client] = [at |-> "create", handle |-> h, notify |-> None]]
    /\ opens' = opens \cup {h}
    /\ UNCHANGED <<plan, known, breaks, acks, notify>>

CreateRespond(c) ==
    /\ busy[c].at = "create"
    /\ known' = known \cup {busy[c].handle}
    /\ busy' = [busy EXCEPT ![c] = Idle]
    /\ UNCHANGED <<plan, obj, opens, breaks, acks, notify>>

Mine(c, h) == h \in known \cap opens /\ obj[h].owner = c

Close(c, h) ==
    /\ busy[c] = Idle /\ Mine(c, h)
    /\ opens' = opens \ {h}
    /\ UNCHANGED <<plan, obj, known, busy, breaks, acks, notify>>

-----------------------------------------------------------------------------
(* BreakNode takes the opens of the node under the lock, and breaks them in *)
(* the order of a map.                                                      *)
BreakNode(b) ==
    /\ b \in plan.breakers /\ todo[b] = None
    /\ todo' = [todo EXCEPT ![b] = opens]
    /\ began' = [began EXCEPT ![b] = opens]
    /\ UNCHANGED <<tables, breaking, early, notes, acks, notify>>

(* breakOpen, and the early returns of sendOplockBreak and sendLeaseBreak. *)
MustBreak(o) ==
    CASE o.level = "none" -> FALSE
      [] o.level = "lease" -> IF o.lease = None THEN FALSE ELSE ~o.lease.breaking
      [] OTHER -> o.state # "breaking"

BreakOpen(b, h) ==
    /\ todo[b] # None /\ breaking[b].at = "pick"
    /\ h \in todo[b]
    /\ todo' = [todo EXCEPT ![b] = @ \ {h}]
    /\ breaking' = [breaking EXCEPT ![b] =
          IF MustBreak(obj[h]) THEN [at |-> IF obj[h].level = "lease" THEN "lease" ELSE "oplock", handle |-> h]
                               ELSE @]
    /\ UNCHANGED <<tables, began, early, notes, acks, notify>>

MarkOplock(b) ==
    /\ breaking[b].at = "oplock"
    /\ LET h == breaking[b].handle IN
       /\ obj' = [obj EXCEPT ![h] = [@ EXCEPT !.level = IF obj[h].level = "II" THEN "none" ELSE obj[h].level,
                                              !.state = IF obj[h].level = "II" THEN "none" ELSE "breaking"]]
       /\ breaking' = [breaking EXCEPT ![b].at = IF obj[h].level = "II" THEN "send" ELSE "sendAck"]
    /\ UNCHANGED <<plan, opens, known, busy, todo, began, early, notes, acks, notify>>

MarkLease(b) ==
    /\ breaking[b].at = "lease"
    /\ LET h == breaking[b].handle IN
       obj' = [obj EXCEPT ![h] = [@ EXCEPT !.lease.breaking = TRUE, !.state = "breaking"]]
    /\ breaking' = [breaking EXCEPT ![b].at = "sendLease"]
    /\ UNCHANGED <<plan, opens, known, busy, todo, began, early, notes, acks, notify>>

(* A client can only acknowledge the break of an oplock whose handle it was *)
(* told; it knows its lease keys before it asks for the lease.              *)
BreakSend(b) ==
    /\ breaking[b].at \in {"send", "sendAck", "sendLease"}
    /\ LET h == breaking[b].handle
           lease == breaking[b].at = "sendLease"
           needed == breaking[b].at = "sendAck"
       IN  /\ notes' = notes \cup {[by |-> b, handle |-> h, lease |-> lease,
                                    ack |-> lease \/ (needed /\ h \in known)]}
           /\ early' = IF needed /\ h \notin known THEN early \cup {h} ELSE early
    /\ breaking' = [breaking EXCEPT ![b] = [at |-> "pick", handle |-> None]]
    /\ UNCHANGED <<tables, todo, began, acks, notify>>

-----------------------------------------------------------------------------
ClientAck(n) ==
    /\ n \in notes
    /\ notes' = notes \ {n}
    /\ acks' = IF n.ack THEN acks \cup {n} ELSE acks
    /\ UNCHANGED <<tables, todo, breaking, began, early, notify>>

(* Bug variant: the acknowledgment leaves the level as it was. *)
OplockAckKeepsLevel(a, level) ==
    /\ a \in acks /\ ~a.lease /\ busy[obj[a.handle].owner] = Idle
    /\ acks' = acks \ {a}
    /\ obj' = [obj EXCEPT ![a.handle].state = IF level = "none" THEN "none" ELSE "held"]
    /\ UNCHANGED <<plan, opens, known, busy, breaks, notify>>

(* Bug variant: the state becomes the level, both numbers in the code. *)
OplockAckLevelAsState(a, level) ==
    /\ a \in acks /\ ~a.lease /\ busy[obj[a.handle].owner] = Idle
    /\ acks' = acks \ {a}
    /\ \/ (a.handle \notin opens \/ obj[a.handle].state # "breaking") /\ UNCHANGED obj
       \/ /\ a.handle \in opens /\ obj[a.handle].state = "breaking"
          /\ obj' = [obj EXCEPT ![a.handle] = [@ EXCEPT !.level = level, !.state = level]]
    /\ UNCHANGED <<plan, opens, known, busy, breaks, notify>>

(* oplockBreak with an acknowledgment of an oplock break; the first two     *)
(* cases answer STATUS_FILE_CLOSED and STATUS_INVALID_DEVICE_STATE.         *)
OplockAck(a, level) ==
    /\ a \in acks /\ ~a.lease /\ busy[obj[a.handle].owner] = Idle
    /\ acks' = acks \ {a}
    /\ \/ a.handle \notin opens /\ UNCHANGED obj
       \/ a.handle \in opens /\ obj[a.handle].state # "breaking" /\ UNCHANGED obj
       \/ /\ a.handle \in opens /\ obj[a.handle].state = "breaking"
          /\ obj' = [obj EXCEPT ![a.handle] = [@ EXCEPT !.level = level,
                                                        !.state = IF level = "none" THEN "none" ELSE "held"]]
    /\ UNCHANGED <<plan, opens, known, busy, breaks, notify>>

(* With an acknowledgment of a lease break: the first open with the key, in *)
(* the order of a map.  The first two cases answer                          *)
(* STATUS_OBJECT_NAME_NOT_FOUND and STATUS_UNSUCCESSFUL.                    *)
WithKey(key) == {h \in opens : obj[h].lease # None /\ obj[h].lease.key = key}

(* Bug variant: the open stays in the state of breaking. *)
LeaseAckKeepsState(a, state) ==
    /\ a \in acks /\ a.lease /\ busy[obj[a.handle].owner] = Idle
    /\ acks' = acks \ {a}
    /\ LET found == WithKey(obj[a.handle].lease.key) IN
       \/ found = {} /\ UNCHANGED obj
       \/ \E h \in found :
             obj' = [obj EXCEPT ![h] = [@ EXCEPT !.lease = [obj[h].lease EXCEPT !.state = state, !.breaking = FALSE],
                                                 !.level = IF state = "none" THEN "none" ELSE @]]
    /\ UNCHANGED <<plan, opens, known, busy, breaks, notify>>

LeaseAck(a, state) ==
    /\ a \in acks /\ a.lease /\ busy[obj[a.handle].owner] = Idle
    /\ acks' = acks \ {a}
    /\ LET found == WithKey(obj[a.handle].lease.key) IN
       \/ found = {} /\ UNCHANGED obj
       \/ \E h \in found : ~obj[h].lease.breaking /\ UNCHANGED obj
       \/ \E h \in found :
             /\ obj[h].lease.breaking
             /\ obj' = [obj EXCEPT ![h] = [@ EXCEPT !.lease = [obj[h].lease EXCEPT !.state = state, !.breaking = FALSE],
                                                    !.level = IF state = "none" THEN "none" ELSE obj[h].level,
                                                    !.state = IF state = "none" THEN "none" ELSE "held"]]
    /\ UNCHANGED <<plan, opens, known, busy, breaks, notify>>

-----------------------------------------------------------------------------
(* changeNotify: the interim response is sent before the open records its   *)
(* asynchronous id, here the request itself, and the timer starts.          *)
ChangeNotify(c, h, q) ==
    /\ busy[c] = Idle /\ Mine(c, h) /\ notify[q] = Unsent /\ q \in plan.notifies
    /\ notify' = [notify EXCEPT ![q] = [at |-> "pending", handle |-> h, id |-> None]]
    /\ busy' = [busy EXCEPT ![c] = [at |-> "notify", handle |-> h, notify |-> q]]
    /\ UNCHANGED <<plan, obj, opens, known, breaks, acks>>

(* Bug variant: the open does not record the asynchronous id. *)
ChangeNotifyArmNoId(c) ==
    /\ busy[c].at = "notify"
    /\ notify' = [notify EXCEPT ![busy[c].notify].at = "armed"]
    /\ busy' = [busy EXCEPT ![c] = Idle]
    /\ UNCHANGED <<plan, obj, opens, known, breaks, acks>>

ChangeNotifyArm(c) ==
    /\ busy[c].at = "notify"
    /\ obj' = [obj EXCEPT ![busy[c].handle].async = busy[c].notify]
    /\ notify' = [notify EXCEPT ![busy[c].notify].at = "armed"]
    /\ busy' = [busy EXCEPT ![c] = Idle]
    /\ UNCHANGED <<plan, opens, known, breaks, acks>>

(* Bug variant: the completion is sent when the open is gone. *)
NotifyWakesInverted(q) ==
    /\ notify[q].at = "armed"
    /\ notify' = [notify EXCEPT ![q].at = IF notify[q].handle \in opens THEN "dropped" ELSE "found"]
    /\ UNCHANGED <<tables, breaks, acks>>

NotifyWakes(q) ==
    /\ notify[q].at = "armed"
    /\ notify' = [notify EXCEPT ![q].at = IF notify[q].handle \in opens THEN "found" ELSE "dropped"]
    /\ UNCHANGED <<tables, breaks, acks>>

NotifyCompletes(q) ==
    /\ notify[q].at = "found"
    /\ notify' = [notify EXCEPT ![q] = [@ EXCEPT !.at = "done", !.id = obj[notify[q].handle].async]]
    /\ UNCHANGED <<tables, breaks, acks>>

-----------------------------------------------------------------------------
Acknowledge == \E a \in acks : \/ \E level \in {"none", "II"} : OplockAck(a, level)
                               \/ \E state \in {"none", "read"} : LeaseAck(a, state)

Dispatch(c) == CreateRespond(c) \/ ChangeNotifyArm(c)
Receive(c) == \E h \in Handle :
    \/ Close(c, h)
    \/ \E q \in Notify : ChangeNotify(c, h, q)

BreakStep(b) == (\E h \in Handle : BreakOpen(b, h)) \/ MarkOplock(b) \/ MarkLease(b) \/ BreakSend(b)
NotifyStep(q) == NotifyWakes(q) \/ NotifyCompletes(q)
Acked == \E n \in notes : ClientAck(n)

Next ==
    \/ \E h \in Handle : Create(h)
    \/ \E c \in Client : Dispatch(c) \/ Receive(c)
    \/ Acknowledge \/ Acked
    \/ \E b \in Breaker : BreakNode(b) \/ BreakStep(b)
    \/ \E q \in Notify : NotifyStep(q)

Spec == Init /\ [][Next]_vars

(* Goroutines run, and the clients acknowledge. *)
FairSpec ==
    /\ Spec
    /\ \A c \in Client : WF_vars(Dispatch(c))
    /\ WF_vars(Acknowledge) /\ WF_vars(Acked)
    /\ \A b \in Breaker : WF_vars(BreakStep(b))
    /\ \A q \in Notify : WF_vars(NotifyStep(q))

-----------------------------------------------------------------------------
(* Every variable has its type. *)
TypeOK ==
    /\ obj \in [Handle -> Open \cup {None}]
    /\ opens \subseteq {h \in Handle : obj[h] # None} /\ known \subseteq Handle
    /\ \A c \in Client : busy[c].at \in {"idle", "create", "notify"}
    /\ \A b \in Breaker : /\ breaking[b].at \in {"pick", "oplock", "lease", "send", "sendAck", "sendLease"}
                          /\ began[b] \in SUBSET Handle
    /\ early \subseteq Handle
    /\ notes \subseteq Message /\ acks \subseteq Message
    /\ \A q \in Notify : notify[q].at \in {"unsent", "pending", "armed", "found", "done", "dropped"}

(* The lease key of h was also given with another open. *)
SharesKey(h) ==
    \E g \in Handle \ {h} : /\ obj[g] # None /\ obj[g].lease # None /\ obj[h].lease # None
                            /\ obj[g].lease.key = obj[h].lease.key

(* An open whose break cannot be acknowledged to the server's satisfaction: *)
(* the client does not know the handle, or the acknowledgment may be        *)
(* credited to another open with the same key.                              *)
Unheard(h) == h \in early \/ SharesKey(h)

(* An open is breaking only while the notification, its acknowledgment or   *)
(* the step that will send it is on its way, however many BreakNode run at  *)
(* once and whenever acknowledgments come: sendOplockBreak and              *)
(* sendLeaseBreak mark the open before they send, and oplockBreak clears    *)
(* the mark whichever notification it acknowledges.                         *)
BreakingIsNotified ==
    \A h \in opens :
        obj[h].state = "breaking" /\ ~Unheard(h) =>
            \/ \E b \in Breaker : breaking[b].handle = h /\ breaking[b].at \in {"sendAck", "sendLease"}
            \/ \E n \in notes : n.handle = h /\ n.ack
            \/ \E a \in acks : a.handle = h

Cached(o) == o.level = "excl" \/ (o.level = "lease" /\ o.lease # None /\ o.lease.state = "full")

(* BreakNode takes effect on every open it found: in the end the open is    *)
(* closed, or its exclusive oplock or full lease is gone.  The exceptions   *)
(* are the opens of Unheard, and those with the level of a lease and no     *)
(* lease, which sendLeaseBreak leaves alone.                                *)
BreaksTakeEffect ==
    \A h \in Handle :
        (\E b \in Breaker : h \in began[b]) ~> (h \notin opens \/ Unheard(h) \/ ~Cached(obj[h]))

(* The completion of a CHANGE_NOTIFY carries the asynchronous id of an      *)
(* interim response that was sent for the same open, and its own when no    *)
(* other request was made on that open: changeNotify reads the id from the  *)
(* open, where the next request overwrites it.                              *)
CompletionNamesPending ==
    \A q \in Notify : notify[q].at = "done" =>
        /\ notify[q].id \in Notify
        /\ notify[notify[q].id].handle = notify[q].handle
        /\ (\A p \in Notify \ {q} : notify[p].handle # notify[q].handle) => notify[q].id = q

(* A CHANGE_NOTIFY whose interim response was sent is completed, unless the *)
(* open is closed first.                                                    *)
NotifyAnswered ==
    \A q \in Notify : notify[q].at = "pending" ~> (notify[q].at = "done" \/ notify[q].handle \notin opens)
============================================================================
