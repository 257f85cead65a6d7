-------------------------- MODULE OpenTableProofs --------------------------
(***************************************************************************)
(* A delete mark always has an open that will take it away, for every set  *)
(* of connections, paths, inodes and handles, with and without the POSIX   *)
(* extensions, and whatever clients rename.  For a single client without   *)
(* them, a delete removes the file that was marked, no open file loses its *)
(* name, and no handle is given out on a marked file.                      *)
(***************************************************************************)
EXTENDS OpenTable, TLAPS

OnOpen == {"posixUnlink", "posixClear", "closeOpen", "dispUnlink", "dispClear", "rename"}
OffTable == {"addOpen", "unlink", "fsClose"}

(* A handler that works on an open has that open in the table, under its    *)
(* own connection and with the inode it remembers: nobody else removes it.  *)
HoldsOpenAt(c) ==
    pc[c] \in OnOpen => /\ req[c] \in Request
                        /\ req[c].handle \in Handle
                        /\ opens[req[c].handle] \in Open
                        /\ opens[req[c].handle].conn = c
                        /\ opens[req[c].handle].node = req[c].node

(* A handle that is not yet, or no longer, in the table belongs to a        *)
(* handler, and to one only.                                                *)
HoldsHandleAt(c) ==
    pc[c] \in OffTable => /\ req[c] \in Request
                          /\ req[c].handle \in Handle
                          /\ req[c].node \in Inode
                          /\ fds[req[c].handle] \in Fd
                          /\ opens[req[c].handle] = None

Apart(c, d) ==
    pc[c] \in OffTable /\ pc[d] \in OffTable => req[c].handle # req[d].handle

HoldsOpen == \A c \in Conn : HoldsOpenAt(c)
HoldsHandle == /\ \A c \in Conn : HoldsHandleAt(c)
               /\ \A c, d \in Conn : c # d => Apart(c, d)
HoldsRequest == \A c \in Conn : pc[c] \in {"check", "open"} => req[c] \in Request
OpensHaveFds == \A h \in Handle : opens[h] \in Open => fds[h] \in Fd

IInv == /\ TypeOK /\ HoldsOpen /\ HoldsHandle /\ HoldsRequest
        /\ OpensHaveFds /\ PendingHasOpen

(* The other connections stay where they are.                               *)
Others(c) == \A d \in Conn \ {c} : pc'[d] = pc[d] /\ req'[d] = req[d]

(* None is no record and no member of the sets the model is made of.        *)
LEMMA NoneFacts ==
  /\ None \notin Conn /\ None \notin Handle /\ None \notin Inode
  /\ None \notin Fd /\ None \notin Open /\ None \notin Request
  BY OpenTableAssumption, Zenon

(* Initially no handler runs and no file is marked.                         *)
LEMMA IInvInit == Init => IInv
<1> SUFFICES ASSUME Init PROVE IInv BY Zenon
<1>1. TypeOK
  BY Zenon DEF Init, TypeOK, Pc
<1>2. HoldsOpen /\ HoldsHandle /\ HoldsRequest
  BY Zenon DEF Init, HoldsOpen, HoldsOpenAt, HoldsHandle, HoldsHandleAt, Apart, HoldsRequest,
     OnOpen, OffTable
<1>3. OpensHaveFds /\ PendingHasOpen
  BY NoneFacts, Zenon DEF Init, OpensHaveFds, PendingHasOpen
<1> QED BY <1>1, <1>2, <1>3, Zenon DEF IInv

(* What a connection does to opens other than its own keeps the handlers of *)
(* the others on theirs.                                                    *)
LEMMA KeepHoldsOpen ==
  ASSUME HoldsOpen, NEW c \in Conn, Others(c), HoldsOpenAt(c)',
         \A h \in Handle : opens[h] \in Open /\ opens[h].conn \in Conn \ {c}
                             => opens'[h] = opens[h]
  PROVE  HoldsOpen'
<1> SUFFICES ASSUME NEW d \in Conn, d # c, pc'[d] \in OnOpen
             PROVE  HoldsOpenAt(d)'
  BY Zenon DEF HoldsOpen, HoldsOpenAt
<1>1. pc[d] \in OnOpen /\ req'[d] = req[d] /\ pc'[d] = pc[d]
  BY Zenon DEF Others
<1>2. HoldsOpenAt(d)
  BY Zenon DEF HoldsOpen
<1>3. opens'[req[d].handle] = opens[req[d].handle]
  BY <1>1, <1>2, Zenon DEF HoldsOpenAt
<1> QED BY <1>1, <1>2, <1>3, Zenon DEF HoldsOpenAt

(* A handle outside the table stays its handler's while the others neither  *)
(* take it nor close it.                                                    *)
LEMMA KeepHoldsHandle ==
  ASSUME HoldsHandle, NEW c \in Conn, Others(c), HoldsHandleAt(c)',
         pc'[c] \in OffTable =>
            \/ pc[c] \in OffTable /\ req'[c].handle = req[c].handle
            \/ fds[req'[c].handle] \notin Fd
            \/ opens[req'[c].handle] # None,
         \A h \in Handle :
            fds[h] \in Fd /\ opens[h] = None /\ (pc[c] \in OffTable => h # req[c].handle)
                => fds'[h] \in Fd /\ opens'[h] = None
  PROVE  HoldsHandle'
<1>1. ASSUME NEW d \in Conn, d # c, pc'[d] \in OffTable
      PROVE  HoldsHandleAt(d)' /\ Apart(c, d)' /\ Apart(d, c)'
  <2>1. pc[d] \in OffTable /\ req'[d] = req[d] /\ pc'[d] = pc[d]
    BY <1>1, Zenon DEF Others
  <2>2. HoldsHandleAt(d) /\ Apart(c, d)
    BY <1>1, Zenon DEF HoldsHandle
  <2>3. HoldsHandleAt(d)'
    BY <2>1, <2>2, Zenon DEF HoldsHandleAt, Apart
  <2>4. Apart(c, d)' /\ Apart(d, c)'
    BY <2>1, <2>2, Zenon DEF HoldsHandleAt, Apart
  <2> QED BY <2>3, <2>4, Zenon
<1>2. \A d \in Conn : HoldsHandleAt(d)'
  BY <1>1, Zenon DEF HoldsHandleAt
<1>3. ASSUME NEW d \in Conn, NEW e \in Conn, d # e
      PROVE  Apart(d, e)'
  <2>1. CASE d = c \/ e = c
    BY <2>1, <1>1, <1>3, Zenon DEF Apart
  <2>2. CASE d # c /\ e # c
    <3>1. Apart(d, e)
      BY <1>3, Zenon DEF HoldsHandle
    <3> QED BY <2>2, <3>1, Zenon DEF Apart, Others
  <2> QED BY <2>1, <2>2, Zenon
<1> QED BY <1>2, <1>3, Zenon DEF HoldsHandle

(* The marks need nothing but the inodes of the opens.                      *)
LEMMA KeepPending ==
  ASSUME PendingHasOpen, pending' \subseteq pending,
         \A h \in Handle : opens[h] # None => opens'[h] # None /\ opens'[h].node = opens[h].node
  PROVE  PendingHasOpen'
  BY Zenon DEF PendingHasOpen

(* A step that only moves one connection along, on the same request.        *)
LEMMA KeepRequests ==
  ASSUME HoldsRequest, NEW c \in Conn, Others(c),
         pc'[c] \in {"check", "open"} => req'[c] \in Request
  PROVE  HoldsRequest'
  BY Zenon DEF HoldsRequest, Others

----------------------------------------------------------------------------
(* Goto moves one connection and leaves the others where they are.          *)
LEMMA GotoFacts ==
  ASSUME TypeOK, NEW c \in Conn, NEW l \in Pc, Goto(c, l)
  PROVE  /\ pc' \in [Conn -> Pc]
         /\ pc'[c] = l
         /\ \A d \in Conn \ {c} : pc'[d] = pc[d]
  BY Zenon DEF TypeOK, Goto

(* The end of a handler.                                                    *)
LEMMA DoneFacts ==
  ASSUME TypeOK, NEW c \in Conn, Done(c)
  PROVE  /\ pc' \in [Conn -> Pc] /\ req' \in [Conn -> Request \cup {None}]
         /\ pc'[c] = "idle"
         /\ Others(c)
<1>1. Goto(c, "idle") /\ "idle" \in Pc
  BY Zenon DEF Done, Pc
<1>2. pc' \in [Conn -> Pc] /\ pc'[c] = "idle" /\ \A d \in Conn \ {c} : pc'[d] = pc[d]
  BY <1>1, GotoFacts, Zenon
<1>3. req' = [req EXCEPT ![c] = None] /\ req \in [Conn -> Request \cup {None}]
  BY Zenon DEF Done, TypeOK
<1>4. req' \in [Conn -> Request \cup {None}] /\ \A d \in Conn \ {c} : req'[d] = req[d]
  BY <1>3, Zenon
<1> QED BY <1>2, <1>4, Zenon DEF Others

(* A handler that ends without touching the tables.                         *)
LEMMA QuietDone ==
  ASSUME IInv, NEW c \in Conn, Done(c), opens' = opens, fds' = fds,
         dir' \in [Path -> Inode \cup {None}], pending' \subseteq pending
  PROVE  IInv'
<1>1. /\ pc' \in [Conn -> Pc] /\ req' \in [Conn -> Request \cup {None}]
      /\ pc'[c] = "idle" /\ Others(c)
  BY DoneFacts, Zenon DEF IInv
<1>2. TypeOK'
  BY <1>1, Zenon DEF IInv, TypeOK
<1>3. HoldsOpenAt(c)' /\ HoldsHandleAt(c)' /\ pc'[c] \notin OffTable
  BY <1>1, Zenon DEF HoldsOpenAt, HoldsHandleAt, OnOpen, OffTable
<1>4. HoldsOpen'
  BY <1>1, <1>3, KeepHoldsOpen, Zenon DEF IInv
<1>5. HoldsHandle'
  BY <1>1, <1>3, KeepHoldsHandle, Zenon DEF IInv
<1>6. HoldsRequest'
  BY <1>1, KeepRequests, Zenon DEF IInv
<1>7. OpensHaveFds' /\ PendingHasOpen'
  BY KeepPending, Zenon DEF IInv, OpensHaveFds
<1> QED BY <1>2, <1>4, <1>5, <1>6, <1>7, Zenon DEF IInv

(* A handler that goes on with its request without touching the tables.     *)
LEMMA QuietGoto ==
  ASSUME IInv, NEW c \in Conn, NEW l \in Pc, Goto(c, l), req' = req, opens' = opens,
         fds' = fds, dir' \in [Path -> Inode \cup {None}], pending' \subseteq pending,
         l \in OnOpen => pc[c] \in OnOpen,
         l \in OffTable => pc[c] \in OffTable,
         l \in {"check", "open"} => pc[c] \in {"check", "open"}
  PROVE  IInv'
<1>1. pc' \in [Conn -> Pc] /\ pc'[c] = l /\ Others(c)
  BY GotoFacts, Zenon DEF IInv, Others
<1>2. TypeOK'
  BY <1>1, Zenon DEF IInv, TypeOK
<1>3. HoldsOpenAt(c)'
  BY <1>1, Zenon DEF IInv, HoldsOpen, HoldsOpenAt
<1>4. HoldsHandleAt(c)'
  BY <1>1, Zenon DEF IInv, HoldsHandle, HoldsHandleAt
<1>5. HoldsOpen'
  BY <1>1, <1>3, KeepHoldsOpen, Zenon DEF IInv
<1>6. HoldsHandle'
  BY <1>1, <1>4, KeepHoldsHandle, Zenon DEF IInv
<1>7. HoldsRequest'
  BY <1>1, KeepRequests, Zenon DEF IInv, HoldsRequest
<1>8. OpensHaveFds' /\ PendingHasOpen'
  BY KeepPending, Zenon DEF IInv, OpensHaveFds
<1> QED BY <1>2, <1>5, <1>6, <1>7, <1>8, Zenon DEF IInv

(* A handler that starts on an open of its own connection.                  *)
LEMMA QuietStart ==
  ASSUME IInv, NEW c \in Conn, NEW h \in Handle, Owned(c, h), NEW r \in Request,
         r.handle = h, r.node = opens[h].node, NEW l \in OnOpen, Goto(c, l),
         req' = [req EXCEPT ![c] = r], UNCHANGED <<dir, fds, opens, pending>>
  PROVE  IInv'
<1>0. l \in Pc /\ l \notin OffTable /\ l \notin {"check", "open"}
  BY Zenon DEF Pc, OnOpen, OffTable
<1>1. pc' \in [Conn -> Pc] /\ pc'[c] = l /\ \A d \in Conn \ {c} : pc'[d] = pc[d]
  BY <1>0, GotoFacts, Zenon DEF IInv
<1>2. req' \in [Conn -> Request \cup {None}] /\ req'[c] = r /\ Others(c)
  BY <1>1, Zenon DEF IInv, TypeOK, Others
<1>3. TypeOK'
  BY <1>1, <1>2, Zenon DEF IInv, TypeOK
<1>4. opens[h] \in Open /\ opens[h].conn = c
  BY Zenon DEF IInv, TypeOK, Owned
<1>5. HoldsOpenAt(c)' /\ HoldsHandleAt(c)'
  BY <1>0, <1>1, <1>2, <1>4, Zenon DEF HoldsOpenAt, HoldsHandleAt
<1>6. HoldsOpen'
  BY <1>2, <1>5, KeepHoldsOpen, Zenon DEF IInv
<1>7. HoldsHandle'
  BY <1>0, <1>1, <1>2, <1>5, KeepHoldsHandle, Zenon DEF IInv
<1>8. HoldsRequest'
  BY <1>0, <1>1, <1>2, KeepRequests, Zenon DEF IInv
<1>9. OpensHaveFds' /\ PendingHasOpen'
  BY KeepPending, Zenon DEF IInv, OpensHaveFds
<1> QED BY <1>3, <1>6, <1>7, <1>8, <1>9, Zenon DEF IInv

----------------------------------------------------------------------------
(* create reads a name and goes on without touching a table.                *)
LEMMA CreateLookupStep ==
  ASSUME IInv, NEW c \in Conn, NEW p \in Path, NEW d \in Disposition, NEW doc \in BOOLEAN,
         CreateLookup(c, p, d, doc)
  PROVE  IInv'
<1> DEFINE r == [disposition |-> d, path |-> p, node |-> dir[p],
                 handle |-> None, deleteOnClose |-> doc]
<1>0. "check" \in Pc /\ "check" \notin OnOpen /\ "check" \notin OffTable
  BY Zenon DEF Pc, OnOpen, OffTable
<1>1. pc' \in [Conn -> Pc] /\ pc'[c] = "check" /\ \A e \in Conn \ {c} : pc'[e] = pc[e]
  BY <1>0, GotoFacts, Zenon DEF IInv, CreateLookup
<1>2. r \in Request
  BY Zenon DEF IInv, TypeOK, Request
<1>3. req' \in [Conn -> Request \cup {None}] /\ req'[c] \in Request /\ Others(c)
  BY <1>1, <1>2, Zenon DEF IInv, TypeOK, CreateLookup, Others
<1>4. UNCHANGED <<dir, fds, opens, pending>>
  BY Zenon DEF CreateLookup
<1>5. TypeOK'
  BY <1>1, <1>3, <1>4, Zenon DEF IInv, TypeOK
<1>6. HoldsOpenAt(c)' /\ HoldsHandleAt(c)'
  BY <1>0, <1>1, Zenon DEF HoldsOpenAt, HoldsHandleAt
<1>7. HoldsOpen'
  BY <1>3, <1>4, <1>6, KeepHoldsOpen, Zenon DEF IInv
<1>8. HoldsHandle'
  BY <1>0, <1>1, <1>3, <1>4, <1>6, KeepHoldsHandle, Zenon DEF IInv
<1>9. HoldsRequest'
  BY <1>3, KeepRequests, Zenon DEF IInv
<1>10. OpensHaveFds' /\ PendingHasOpen'
  BY <1>4, KeepPending, Zenon DEF IInv, OpensHaveFds
<1> QED BY <1>5, <1>7, <1>8, <1>9, <1>10, Zenon DEF IInv

(* create refuses or goes on, and touches no table.                         *)
LEMMA CreateCheckStep ==
  ASSUME IInv, NEW c \in Conn, CreateCheck(c)
  PROVE  IInv'
<1>1. UNCHANGED <<dir, fds, opens, pending>> /\ pc[c] = "check"
  BY Zenon DEF CreateCheck, CreateCheckWith
<1>2. dir' \in [Path -> Inode \cup {None}]
  BY <1>1, Zenon DEF IInv, TypeOK
<1>3. Done(c) \/ (Goto(c, "open") /\ UNCHANGED req)
  BY Zenon DEF CreateCheck, CreateCheckWith
<1>4. CASE Done(c)
  BY <1>1, <1>2, <1>4, QuietDone, Zenon
<1>5. CASE Goto(c, "open") /\ UNCHANGED req
  <2>1. "open" \in Pc /\ "open" \notin OnOpen /\ "open" \notin OffTable
    BY Zenon DEF Pc, OnOpen, OffTable
  <2> QED BY <1>1, <1>2, <1>5, <2>1, QuietGoto, Zenon
<1> QED BY <1>3, <1>4, <1>5, Zenon

(* The handle a create gets is in no table and is nobody else's.            *)
LEMMA CreateOpenStep ==
  ASSUME IInv, NEW c \in Conn, CreateOpen(c)
  PROVE  IInv'
<1>1. CASE Done(c) /\ UNCHANGED <<dir, fds>>
  <2>1. opens' = opens /\ pending' = pending
    BY Zenon DEF CreateOpen
  <2> QED BY <1>1, <2>1, QuietDone, Zenon DEF IInv, TypeOK
<1>2. CASE ~(Done(c) /\ UNCHANGED <<dir, fds>>)
  <2> DEFINE I == IF dir[req[c].path] = None THEN FreeInode ELSE {dir[req[c].path]}
  <2>0. I \subseteq Inode
    BY Zenon DEF CreateOpen, IInv, TypeOK, HoldsRequest, Request, FreeInode
  <2>1. PICK h \in FreeHandle, i \in Inode :
           /\ dir' = [dir EXCEPT ![req[c].path] = i]
           /\ fds' = [fds EXCEPT ![h] = [path |-> req[c].path, node |-> i]]
           /\ req' = [req EXCEPT ![c].node = i, ![c].handle = h]
           /\ Goto(c, "addOpen")
    <3>1. \E h \in FreeHandle : \E i \in I :
           /\ dir' = [dir EXCEPT ![req[c].path] = i]
           /\ fds' = [fds EXCEPT ![h] = [path |-> req[c].path, node |-> i]]
           /\ req' = [req EXCEPT ![c].node = i, ![c].handle = h]
      BY <1>2, Zenon DEF CreateOpen
    <3>2. Goto(c, "addOpen")
      BY <1>2, Zenon DEF CreateOpen
    <3> HIDE DEF I
    <3> QED BY <2>0, <3>1, <3>2, Zenon
  <2>2. /\ h \in Handle /\ fds[h] = None /\ opens[h] = None /\ fds[h] \notin Fd
        /\ opens' = opens /\ pending' = pending
    BY NoneFacts, Zenon DEF FreeHandle, CreateOpen
  <2>3. req[c] \in Request /\ pc[c] = "open"
    BY Zenon DEF CreateOpen, IInv, HoldsRequest
  <2>4. /\ "addOpen" \in Pc /\ "addOpen" \notin OnOpen /\ "addOpen" \in OffTable
        /\ "open" \notin OffTable
    BY Zenon DEF Pc, OnOpen, OffTable
  <2>5. pc' \in [Conn -> Pc] /\ pc'[c] = "addOpen" /\ \A e \in Conn \ {c} : pc'[e] = pc[e]
    BY <2>1, <2>4, GotoFacts, Zenon DEF IInv
  <2>6. /\ req' \in [Conn -> Request \cup {None}]
        /\ req'[c] \in Request /\ req'[c].handle = h /\ req'[c].node = i
        /\ Others(c)
    BY <2>1, <2>2, <2>3, <2>5, Zenon DEF IInv, TypeOK, Request, Others
  <2>7. dir' \in [Path -> Inode \cup {None}] /\ fds' \in [Handle -> Fd \cup {None}]
    BY <2>1, <2>2, <2>3, Zenon DEF IInv, TypeOK, Request, Fd
  <2>8. fds'[h] \in Fd /\ \A g \in Handle : fds[g] \in Fd => fds'[g] \in Fd
    BY <2>1, <2>2, <2>3, Zenon DEF IInv, TypeOK, Request, Fd
  <2>9. TypeOK'
    BY <2>2, <2>5, <2>6, <2>7, Zenon DEF IInv, TypeOK
  <2>10. HoldsOpenAt(c)' /\ HoldsHandleAt(c)'
    BY <2>2, <2>4, <2>5, <2>6, <2>8, Zenon DEF HoldsOpenAt, HoldsHandleAt
  <2>11. HoldsOpen'
    BY <2>2, <2>6, <2>10, KeepHoldsOpen, Zenon DEF IInv
  <2>12. HoldsHandle'
    BY <2>2, <2>6, <2>8, <2>10, KeepHoldsHandle, Zenon DEF IInv
  <2>13. HoldsRequest'
    BY <2>6, KeepRequests, Zenon DEF IInv
  <2>14. OpensHaveFds' /\ PendingHasOpen'
    BY <2>2, <2>8, KeepPending, Zenon DEF IInv, OpensHaveFds
  <2> QED BY <2>9, <2>11, <2>12, <2>13, <2>14, Zenon DEF IInv
<1> QED BY <1>1, <1>2, Zenon

(* addOpen adds an open under a handle that only this create has.           *)
LEMMA CreateAddOpenStep ==
  ASSUME IInv, NEW c \in Conn, CreateAddOpen(c)
  PROVE  IInv'
<1> DEFINE o == [node |-> req[c].node, conn |-> c, deleteOnClose |-> req[c].deleteOnClose,
                 posix |-> c \in Posix]
<1>1. /\ pc' \in [Conn -> Pc] /\ req' \in [Conn -> Request \cup {None}]
      /\ pc'[c] = "idle" /\ Others(c)
  BY DoneFacts, Zenon DEF IInv, CreateAddOpen
<1>2. /\ pc[c] \in OffTable /\ req[c] \in Request /\ req[c].handle \in Handle
      /\ req[c].node \in Inode /\ fds[req[c].handle] \in Fd /\ opens[req[c].handle] = None
  BY Zenon DEF IInv, HoldsHandle, HoldsHandleAt, CreateAddOpen, OffTable
<1>3. o \in Open
  BY <1>2 DEF Open, Request
<1>4. opens' = [opens EXCEPT ![req[c].handle] = o] /\ UNCHANGED <<dir, fds, pending>>
  BY Zenon DEF CreateAddOpen
<1> HIDE DEF o
<1>5. TypeOK'
  BY <1>1, <1>2, <1>3, <1>4, Zenon DEF IInv, TypeOK
<1>6. \A h \in Handle \ {req[c].handle} : opens'[h] = opens[h]
  BY <1>4, Zenon DEF IInv, TypeOK
<1>7. HoldsOpenAt(c)' /\ HoldsHandleAt(c)' /\ pc'[c] \notin OffTable
  BY <1>1, Zenon DEF HoldsOpenAt, HoldsHandleAt, OnOpen, OffTable
<1>8. HoldsOpen'
  BY <1>1, <1>2, <1>6, <1>7, NoneFacts, KeepHoldsOpen, Zenon DEF IInv
<1>9. HoldsHandle'
  BY <1>1, <1>2, <1>4, <1>6, <1>7, KeepHoldsHandle, Zenon DEF IInv
<1>10. HoldsRequest'
  BY <1>1, KeepRequests, Zenon DEF IInv
<1>11. OpensHaveFds'
  BY <1>2, <1>4, <1>6, Zenon DEF IInv, OpensHaveFds
<1>12. PendingHasOpen'
  BY <1>2, <1>4, <1>6, KeepPending, Zenon DEF IInv
<1> QED BY <1>5, <1>8, <1>9, <1>10, <1>11, <1>12, Zenon DEF IInv

(* The handle of a failed fstat is leaked, and no table changes.            *)
LEMMA CreateGetAttrFailsStep ==
  ASSUME IInv, NEW c \in Conn, CreateGetAttrFails(c)
  PROVE  IInv'
  BY QuietDone, Zenon DEF CreateGetAttrFails, IInv, TypeOK

(* close starts on an open of its own connection.                           *)
LEMMA CloseStep ==
  ASSUME IInv, NEW c \in Conn, NEW h \in Handle, Close(c, h)
  PROVE  IInv'
<1>1. Owned(c, h) /\ UNCHANGED <<dir, fds, opens, pending>>
  BY Zenon DEF Close
<1>2. PICK l \in {"posixUnlink", "closeOpen"} : Start(c, h, l)
  BY Zenon DEF Close
<1> DEFINE r == [disposition |-> "open", path |-> fds[h].path, node |-> opens[h].node,
                 handle |-> h, deleteOnClose |-> FALSE]
<1>3. r \in Request /\ r.handle = h /\ r.node = opens[h].node
  BY <1>1, Zenon DEF Owned, IInv, TypeOK, OpensHaveFds, Open, Fd, Request
<1>4. l \in OnOpen /\ Goto(c, l) /\ req' = [req EXCEPT ![c] = r]
  BY <1>2, Zenon DEF Start, OnOpen
<1> HIDE DEF r
<1> QED BY <1>1, <1>3, <1>4, QuietStart, Zenon

(* setDispositionInfo marks an inode this connection has an open on, or     *)
(* starts the POSIX delete on that open.                                    *)
LEMMA SetDeleteStep ==
  ASSUME IInv, NEW c \in Conn, NEW h \in Handle, SetDelete(c, h)
  PROVE  IInv'
<1>1. Owned(c, h) /\ UNCHANGED <<dir, fds, opens>>
  BY Zenon DEF SetDelete
<1>2. opens[h] \in Open /\ opens[h] # None /\ opens[h].node \in Inode
  BY <1>1, Zenon DEF Owned, IInv, TypeOK, Open
<1>3. CASE opens[h].posix
  <2> DEFINE r == [disposition |-> "open", path |-> fds[h].path, node |-> opens[h].node,
                   handle |-> h, deleteOnClose |-> FALSE]
  <2>1. Start(c, h, "dispUnlink") /\ pending' = pending
    BY <1>3, Zenon DEF SetDelete
  <2>2. r \in Request /\ r.handle = h /\ r.node = opens[h].node
    BY <1>2, Zenon DEF IInv, TypeOK, OpensHaveFds, Fd, Request
  <2>3. "dispUnlink" \in OnOpen /\ Goto(c, "dispUnlink") /\ req' = [req EXCEPT ![c] = r]
    BY <2>1, Zenon DEF Start, OnOpen
  <2> HIDE DEF r
  <2> QED BY <1>1, <2>1, <2>2, <2>3, QuietStart, Zenon
<1>4. CASE ~opens[h].posix
  <2>1. pending' = pending \cup {opens[h].node} /\ UNCHANGED <<pc, req>>
    BY <1>4, Zenon DEF SetDelete
  <2>2. TypeOK'
    BY <1>1, <1>2, <2>1, Zenon DEF IInv, TypeOK
  <2>3. HoldsOpen' /\ HoldsHandle' /\ HoldsRequest' /\ OpensHaveFds'
    BY <1>1, <2>1, Zenon DEF IInv, HoldsOpen, HoldsOpenAt, HoldsHandle, HoldsHandleAt, Apart,
       HoldsRequest, OpensHaveFds
  <2>4. PendingHasOpen'
    BY <1>1, <1>2, <2>1, Zenon DEF IInv, PendingHasOpen
  <2> QED BY <2>2, <2>3, <2>4, Zenon DEF IInv
<1> QED BY <1>3, <1>4, Zenon

(* A mark that is taken back needs no open.                                 *)
LEMMA UnsetDeleteStep ==
  ASSUME IInv, NEW c \in Conn, NEW h \in Handle, UnsetDelete(c, h)
  PROVE  IInv'
<1>1. UNCHANGED <<dir, fds, opens, pc, req>> /\ pending' \subseteq pending
  BY Zenon DEF UnsetDelete
<1>2. TypeOK' /\ PendingHasOpen'
  BY <1>1, KeepPending, Zenon DEF IInv, TypeOK
<1>3. HoldsOpen' /\ HoldsHandle' /\ HoldsRequest' /\ OpensHaveFds'
  BY <1>1, Zenon DEF IInv, HoldsOpen, HoldsOpenAt, HoldsHandle, HoldsHandleAt, Apart,
     HoldsRequest, OpensHaveFds
<1> QED BY <1>2, <1>3, Zenon DEF IInv

(* The unlinks only change the names.                                       *)
LEMMA UnlinkStep ==
  ASSUME IInv, NEW c \in Conn, ClosePosixUnlink(c) \/ CloseUnlink(c) \/ DispUnlink(c)
  PROVE  IInv'
<1>1. /\ UNCHANGED <<fds, opens, pending>>
      /\ dir' = [dir EXCEPT ![fds[req[c].handle].path] = None] \/ dir' = dir
  BY Zenon DEF ClosePosixUnlink, CloseUnlink, DispUnlink, UnlinkPath
<1>2. dir' \in [Path -> Inode \cup {None}]
  BY <1>1, Zenon DEF IInv, TypeOK
<1>3. \/ pc[c] = "posixUnlink" /\ Goto(c, "posixClear") /\ req' = req
      \/ pc[c] = "posixUnlink" /\ Goto(c, "closeOpen") /\ req' = req
      \/ pc[c] = "unlink" /\ Goto(c, "fsClose") /\ req' = req
      \/ pc[c] = "dispUnlink" /\ Goto(c, "dispClear") /\ req' = req
      \/ Done(c)
  BY Zenon DEF ClosePosixUnlink, CloseUnlink, DispUnlink
<1>4. CASE Done(c)
  BY <1>1, <1>2, <1>4, QuietDone, Zenon
<1>5. CASE ~Done(c)
  <2>1. PICK l \in {"posixClear", "closeOpen", "fsClose", "dispClear"} :
           Goto(c, l) /\ req' = req
                      /\ pc[c] \in (IF l = "fsClose" THEN {"unlink"}
                                    ELSE {"posixUnlink", "dispUnlink"})
    BY <1>3, <1>5, Zenon
  <2>2. /\ l \in Pc /\ l \notin {"check", "open"}
        /\ l \in OnOpen => pc[c] \in OnOpen
        /\ l \in OffTable => pc[c] \in OffTable
    BY <2>1, Zenon DEF Pc, OnOpen, OffTable
  <2> QED BY <1>1, <1>2, <2>1, <2>2, QuietGoto, Zenon
<1> QED BY <1>4, <1>5, Zenon

(* After the POSIX unlink the mark goes away and the open stays.            *)
LEMMA ClosePosixClearStep ==
  ASSUME IInv, NEW c \in Conn, ClosePosixClear(c)
  PROVE  IInv'
<1> DEFINE k == req[c].handle
<1>0. "closeOpen" \in Pc /\ "closeOpen" \in OnOpen /\ "closeOpen" \notin OffTable
  BY Zenon DEF Pc, OnOpen, OffTable
<1>1. pc' \in [Conn -> Pc] /\ pc'[c] = "closeOpen" /\ req' = req /\ Others(c)
  BY <1>0, GotoFacts, Zenon DEF IInv, ClosePosixClear, Others
<1>2. /\ req[c] \in Request /\ k \in Handle /\ opens[k] \in Open
      /\ opens[k].conn = c /\ opens[k].node = req[c].node
  BY Zenon DEF IInv, HoldsOpen, HoldsOpenAt, ClosePosixClear, OnOpen
<1>3. /\ opens' = [opens EXCEPT ![k].deleteOnClose = FALSE]
      /\ UNCHANGED <<dir, fds>> /\ pending' \subseteq pending
  BY Zenon DEF ClosePosixClear
<1>4. /\ opens'[k] \in Open /\ opens'[k].conn = c /\ opens'[k].node = req[c].node
      /\ \A h \in Handle \ {k} : opens'[h] = opens[h]
      /\ opens' \in [Handle -> Open \cup {None}]
  BY <1>2, <1>3, Zenon DEF IInv, TypeOK, Open
<1> HIDE DEF k
<1>5. TypeOK'
  BY <1>1, <1>3, <1>4, Zenon DEF IInv, TypeOK
<1>6. HoldsOpenAt(c)' /\ HoldsHandleAt(c)' /\ pc'[c] \notin OffTable
  BY <1>0, <1>1, <1>2, <1>4, Zenon DEF HoldsOpenAt, HoldsHandleAt, k
<1>7. HoldsOpen'
  BY <1>1, <1>2, <1>4, <1>6, KeepHoldsOpen, Zenon DEF IInv
<1>8. HoldsHandle'
  BY <1>1, <1>2, <1>3, <1>4, <1>6, NoneFacts, KeepHoldsHandle DEF IInv
<1>9. HoldsRequest'
  BY <1>1, KeepRequests, Zenon DEF IInv
<1>10. OpensHaveFds'
  BY <1>2, <1>3, <1>4, Zenon DEF IInv, OpensHaveFds
<1>11. PendingHasOpen'
  BY <1>2, <1>3, <1>4, NoneFacts, KeepPending, Zenon DEF IInv
<1> QED BY <1>5, <1>7, <1>8, <1>9, <1>10, <1>11, Zenon DEF IInv

(* closeOpen leaves a mark only if another open has the inode.              *)
LEMMA CloseOpenStep ==
  ASSUME IInv, NEW c \in Conn, CloseOpen(c)
  PROVE  IInv'
<1>1. /\ req[c] \in Request /\ req[c].handle \in Handle /\ opens[req[c].handle] \in Open
      /\ opens[req[c].handle].conn = c /\ opens[req[c].handle].node = req[c].node
      /\ req[c].node \in Inode
  BY Zenon DEF IInv, HoldsOpen, HoldsOpenAt, CloseOpen, CloseOpenWith, OnOpen, Open
<1>2. PICK k \in Handle, n \in Inode : k = req[c].handle /\ n = req[c].node
  BY <1>1, Zenon
<1>3. opens' = [opens EXCEPT ![k] = None] /\ UNCHANGED <<dir, fds, req>>
  BY <1>2, Zenon DEF CloseOpen, CloseOpenWith
<1>4. PICK l \in {"unlink", "fsClose"} : Goto(c, l)
  BY Zenon DEF CloseOpen, CloseOpenWith
<1>5. /\ pending' \subseteq pending \cup {n}
      /\ n \in pending' => OtherOpen(k, n)
  BY <1>2, Zenon DEF CloseOpen, CloseOpenWith
<1>6. l \in Pc /\ l \notin OnOpen /\ l \in OffTable /\ l \notin {"check", "open"}
  BY Zenon DEF Pc, OnOpen, OffTable
<1>7. pc' \in [Conn -> Pc] /\ pc'[c] = l /\ Others(c)
  BY <1>3, <1>4, <1>6, GotoFacts, Zenon DEF IInv, Others
<1>8. /\ opens' \in [Handle -> Open \cup {None}] /\ opens'[k] = None
      /\ \A h \in Handle \ {k} : opens'[h] = opens[h]
  BY <1>3, Zenon DEF IInv, TypeOK
<1>9. TypeOK'
  BY <1>3, <1>5, <1>7, <1>8, Zenon DEF IInv, TypeOK
<1>10. HoldsOpenAt(c)' /\ HoldsHandleAt(c)'
  BY <1>1, <1>2, <1>3, <1>6, <1>7, <1>8, Zenon DEF IInv, OpensHaveFds, HoldsOpenAt, HoldsHandleAt
<1>11. HoldsOpen'
  BY <1>1, <1>2, <1>7, <1>8, <1>10, KeepHoldsOpen, Zenon DEF IInv
<1>12. HoldsHandle'
  BY <1>1, <1>2, <1>3, <1>7, <1>8, <1>10, NoneFacts, KeepHoldsHandle, Zenon DEF IInv
<1>13. HoldsRequest'
  BY <1>6, <1>7, KeepRequests, Zenon DEF IInv
<1>14. OpensHaveFds'
  BY <1>3, <1>8, NoneFacts, Zenon DEF IInv, OpensHaveFds
<1>15. PendingHasOpen'
  <2> SUFFICES ASSUME NEW m \in pending'
               PROVE  \E h \in Handle : opens'[h] # None /\ opens'[h].node = m
    BY Zenon DEF PendingHasOpen
  <2>1. CASE m = n
    BY <2>1, <1>5, <1>8, Zenon DEF OtherOpen
  <2>2. CASE m # n
    <3>1. PICK h \in Handle : opens[h] # None /\ opens[h].node = m
      BY <2>2, <1>5, Zenon DEF IInv, PendingHasOpen
    <3> QED BY <2>2, <3>1, <1>1, <1>2, <1>8, Zenon
  <2> QED BY <2>1, <2>2, Zenon
<1> QED BY <1>9, <1>11, <1>12, <1>13, <1>14, <1>15, Zenon DEF IInv

(* The handle that fs.Close forgets has left the table before.              *)
LEMMA CloseFsStep ==
  ASSUME IInv, NEW c \in Conn, CloseFs(c)
  PROVE  IInv'
<1>1. /\ pc' \in [Conn -> Pc] /\ req' \in [Conn -> Request \cup {None}]
      /\ pc'[c] = "idle" /\ Others(c)
  BY DoneFacts, Zenon DEF IInv, CloseFs
<1>2. pc[c] \in OffTable /\ req[c].handle \in Handle /\ opens[req[c].handle] = None
  BY Zenon DEF IInv, HoldsHandle, HoldsHandleAt, CloseFs, OffTable
<1>3. fds' = [fds EXCEPT ![req[c].handle] = None] /\ UNCHANGED <<dir, opens, pending>>
  BY Zenon DEF CloseFs
<1>4. TypeOK' /\ \A h \in Handle \ {req[c].handle} : fds'[h] = fds[h]
  BY <1>1, <1>2, <1>3, Zenon DEF IInv, TypeOK
<1>5. HoldsOpenAt(c)' /\ HoldsHandleAt(c)' /\ pc'[c] \notin OffTable
  BY <1>1, Zenon DEF HoldsOpenAt, HoldsHandleAt, OnOpen, OffTable
<1>6. HoldsOpen'
  BY <1>1, <1>3, <1>5, KeepHoldsOpen, Zenon DEF IInv
<1>7. HoldsHandle'
  BY <1>1, <1>2, <1>3, <1>4, <1>5, KeepHoldsHandle, Zenon DEF IInv
<1>8. HoldsRequest'
  BY <1>1, KeepRequests, Zenon DEF IInv
<1>9. OpensHaveFds' /\ PendingHasOpen'
  BY <1>2, <1>3, <1>4, NoneFacts, KeepPending, Zenon DEF IInv, OpensHaveFds
<1> QED BY <1>4, <1>6, <1>7, <1>8, <1>9, Zenon DEF IInv

(* After the POSIX unlink the mark goes away and the opens stay.            *)
LEMMA DispClearStep ==
  ASSUME IInv, NEW c \in Conn, DispClear(c)
  PROVE  IInv'
  BY QuietDone, Zenon DEF DispClear, IInv, TypeOK

(* setRename starts on an open of its own connection.                       *)
LEMMA RenameStep ==
  ASSUME IInv, NEW c \in Conn, NEW h \in Handle, NEW to \in Path, NEW replace \in BOOLEAN,
         Rename(c, h, to, replace)
  PROVE  IInv'
<1> DEFINE r == [disposition |-> "open", path |-> to, node |-> opens[h].node,
                 handle |-> h, deleteOnClose |-> FALSE]
<1>1. Owned(c, h) /\ UNCHANGED <<dir, fds, opens, pending>> /\ Goto(c, "rename")
  BY Zenon DEF Rename
<1>2. r \in Request /\ r.handle = h /\ r.node = opens[h].node
  BY <1>1, Zenon DEF Owned, IInv, TypeOK, Open, Request
<1>3. "rename" \in OnOpen /\ req' = [req EXCEPT ![c] = r]
  BY Zenon DEF Rename, OnOpen
<1> HIDE DEF r
<1> QED BY <1>1, <1>2, <1>3, QuietStart, Zenon

(* The move changes names and the path of one handle.                       *)
LEMMA RenameMoveStep ==
  ASSUME IInv, NEW c \in Conn, RenameMove(c)
  PROVE  IInv'
<1>1. /\ pc' \in [Conn -> Pc] /\ req' \in [Conn -> Request \cup {None}]
      /\ pc'[c] = "idle" /\ Others(c)
  BY DoneFacts, Zenon DEF IInv, RenameMove, RenameMoveWith
<1>2. /\ pc[c] \in OnOpen /\ pc[c] \notin OffTable
      /\ req[c] \in Request /\ req[c].handle \in Handle /\ opens[req[c].handle] \in Open
  BY Zenon DEF IInv, HoldsOpen, HoldsOpenAt, RenameMove, RenameMoveWith, OnOpen, OffTable
<1>3. fds[req[c].handle] \in Fd /\ req[c].path \in Path
  BY <1>2, Zenon DEF IInv, OpensHaveFds, Request
<1>4. opens' = opens /\ pending' = pending
  BY Zenon DEF RenameMove, RenameMoveWith
<1>5. /\ dir' \in [Path -> Inode \cup {None}] /\ fds' \in [Handle -> Fd \cup {None}]
      /\ \A h \in Handle : fds[h] \in Fd => fds'[h] \in Fd
  <2>1. CASE dir[fds[req[c].handle].path] = None
    BY <2>1, Zenon DEF RenameMove, RenameMoveWith, IInv, TypeOK
  <2>2. CASE dir[fds[req[c].handle].path] # None
    <3>1. /\ dir' = [p \in Path |-> IF p = req[c].path THEN dir[fds[req[c].handle].path]
                                    ELSE IF p = fds[req[c].handle].path THEN None ELSE dir[p]]
          /\ fds' = [fds EXCEPT ![req[c].handle].path = req[c].path]
      BY <2>2, Zenon DEF RenameMove, RenameMoveWith
    <3>2. dir[fds[req[c].handle].path] \in Inode \cup {None}
      BY <1>3, Zenon DEF IInv, TypeOK, Fd
    <3>3. dir' \in [Path -> Inode \cup {None}]
      BY <3>1, <3>2, Zenon DEF IInv, TypeOK
    <3> QED BY <1>2, <1>3, <3>1, <3>3, Zenon DEF IInv, TypeOK, Fd
  <2> QED BY <2>1, <2>2, Zenon
<1>6. TypeOK'
  BY <1>1, <1>4, <1>5, Zenon DEF IInv, TypeOK
<1>7. HoldsOpenAt(c)' /\ HoldsHandleAt(c)' /\ pc'[c] \notin OffTable
  BY <1>1, Zenon DEF HoldsOpenAt, HoldsHandleAt, OnOpen, OffTable
<1>8. HoldsOpen'
  BY <1>1, <1>4, <1>7, KeepHoldsOpen, Zenon DEF IInv
<1>9. HoldsHandle'
  BY <1>1, <1>4, <1>5, <1>7, KeepHoldsHandle, Zenon DEF IInv
<1>10. HoldsRequest'
  BY <1>1, KeepRequests, Zenon DEF IInv
<1>11. OpensHaveFds' /\ PendingHasOpen'
  BY <1>4, <1>5, KeepPending, Zenon DEF IInv, OpensHaveFds
<1> QED BY <1>6, <1>8, <1>9, <1>10, <1>11, Zenon DEF IInv

(* The opens of a lost connection keep their inodes and handles.            *)
LEMMA DisconnectStep ==
  ASSUME IInv, NEW c \in Conn, Disconnect(c)
  PROVE  IInv'
<1>1. UNCHANGED <<dir, fds, pending, pc, req>> /\ pc[c] = "idle"
  BY Zenon DEF Disconnect
<1>2. \A h \in Handle :
        /\ Owned(c, h) => opens'[h] = [opens[h] EXCEPT !.conn = None]
        /\ ~Owned(c, h) => opens'[h] = opens[h]
  BY Zenon DEF Disconnect
<1>3. opens' \in [Handle -> Open \cup {None}]
  BY DEF Disconnect, IInv, TypeOK, Owned, Open
<1>4. \A h \in Handle : /\ opens[h] \in Open => opens'[h] \in Open
                        /\ opens[h] \in Open => opens'[h].node = opens[h].node
                        /\ opens[h] = None => opens'[h] = None
  BY <1>2, Zenon DEF Owned, Open
<1>5. \A h \in Handle : opens'[h] \in Open => opens[h] \in Open
  BY <1>4, NoneFacts, Zenon DEF IInv, TypeOK
<1>6. TypeOK' /\ Others(c)
  BY <1>1, <1>3, Zenon DEF IInv, TypeOK, Others
<1>7. HoldsOpenAt(c)' /\ HoldsHandleAt(c)' /\ pc'[c] \notin OffTable
  BY <1>1, Zenon DEF HoldsOpenAt, HoldsHandleAt, OnOpen, OffTable
<1>8. HoldsOpen'
  <2>1. \A h \in Handle : opens[h] \in Open /\ opens[h].conn \in Conn \ {c}
                             => opens'[h] = opens[h]
    BY <1>2, Zenon DEF Owned
  <2> QED BY <1>6, <1>7, <2>1, KeepHoldsOpen, Zenon DEF IInv
<1>9. HoldsHandle'
  BY <1>1, <1>4, <1>6, <1>7, KeepHoldsHandle, Zenon DEF IInv
<1>10. HoldsRequest' /\ OpensHaveFds'
  BY <1>1, <1>5, Zenon DEF IInv, HoldsRequest, OpensHaveFds
<1>11. PendingHasOpen'
  <2>1. \A h \in Handle : opens[h] # None
                             => opens'[h] # None /\ opens'[h].node = opens[h].node
    BY <1>4, NoneFacts DEF IInv, TypeOK
  <2> QED BY <1>1, <2>1, KeepPending, Zenon DEF IInv
<1> QED BY <1>6, <1>8, <1>9, <1>10, <1>11, Zenon DEF IInv

(* Every step keeps the invariant.                                          *)
LEMMA IInvNext == IInv /\ [Next]_vars => IInv'
<1> SUFFICES ASSUME IInv, [Next]_vars PROVE IInv' BY Zenon
<1>1. CASE UNCHANGED vars
  BY <1>1, Zenon DEF vars, IInv, TypeOK, HoldsOpen, HoldsOpenAt, HoldsHandle, HoldsHandleAt, Apart,
     HoldsRequest, OpensHaveFds, PendingHasOpen
<1>2. ASSUME NEW c \in Conn, Step(c) PROVE IInv'
  BY <1>2, CreateCheckStep, CreateOpenStep, CreateAddOpenStep, CreateGetAttrFailsStep,
     UnlinkStep, ClosePosixClearStep, CloseOpenStep, CloseFsStep, DispClearStep,
     RenameMoveStep, Zenon DEF Step
<1>3. ASSUME NEW c \in Conn, Receive(c) PROVE IInv'
  BY <1>3, CreateLookupStep, CloseStep, UnsetDeleteStep, SetDeleteStep, RenameStep, Zenon
     DEF Receive
<1>4. ASSUME NEW c \in Conn, Disconnect(c) PROVE IInv'
  BY <1>4, DisconnectStep, Zenon
<1> QED BY <1>1, <1>2, <1>3, <1>4, Zenon DEF Next

(* The tables stay well formed (Server.opens, Server.deletePending,         *)
(* PassthroughFS.openFiles), for any number of connections and files.       *)
THEOREM TablesTyped == Spec => []TypeOK
<1>1. IInv => TypeOK
  BY Zenon DEF IInv
<1> QED BY <1>1, IInvInit, IInvNext, PTL DEF Spec

(* No delete mark outlives the opens on its inode (closeOpen,               *)
(* setDeletePending), whatever the connections interleave.                  *)
THEOREM MarksAreTemporary == Spec => []PendingHasOpen
<1>1. IInv => PendingHasOpen
  BY Zenon DEF IInv
<1> QED BY <1>1, IInvInit, IInvNext, PTL DEF Spec

----------------------------------------------------------------------------
(* One client: a single connection, which did not negotiate the POSIX       *)
(* extensions and does not rename a file while another handle is open on it *)
(* or on the file it replaces.                                              *)
OneClient == (\A c, d \in Conn : c = d) /\ Posix = {} /\ ~SharedRename

(* The path of a handle is the name of the file it is open on.              *)
Named(h) == dir[fds[h].path] = fds[h].node

(* An open in the table has the inode of its descriptor, and that file has  *)
(* the name the descriptor remembers.                                       *)
OpensAreNamed ==
    \A h \in Handle : opens[h] \in Open =>
        opens[h].node = fds[h].node /\ Named(h) /\ ~opens[h].posix

(* What a handler has found out still holds at its next step.               *)
HandlerKnows(c) ==
    /\ pc[c] \notin {"posixUnlink", "posixClear", "dispUnlink", "dispClear"}
    /\ pc[c] \in {"check", "open"} => req[c].node = dir[req[c].path]
    /\ pc[c] \in {"addOpen", "unlink"} =>
          req[c].node = fds[req[c].handle].node /\ Named(req[c].handle)
    /\ pc[c] = "unlink" => \A h \in Handle : opens[h] \in Open => opens[h].node # req[c].node
    /\ pc[c] = "rename" => RenameIsAlone(req[c].handle, req[c].path)

OneInv == OpensAreNamed /\ \A c \in Conn : HandlerKnows(c)

(* With one client it is enough to look at the connection that moves.       *)
LEMMA OneHandler ==
  ASSUME OneClient, NEW c \in Conn, HandlerKnows(c)', OpensAreNamed'
  PROVE  OneInv'
  BY Zenon DEF OneClient, OneInv

(* Between two handlers nothing is claimed about the handler.               *)
LEMMA IdleKnows ==
  ASSUME NEW c \in Conn, pc'[c] = "idle"
  PROVE  HandlerKnows(c)'
  BY Zenon DEF HandlerKnows

(* A step that leaves names, handles and opens alone.                       *)
LEMMA SameNames ==
  ASSUME OpensAreNamed, UNCHANGED <<dir, fds, opens>>
  PROVE  OpensAreNamed'
  BY Zenon DEF OpensAreNamed, Named

(* Initially there is no handle.                                            *)
LEMMA OneInit == Init => OneInv
  BY NoneFacts, Zenon DEF Init, OneInv, OpensAreNamed, HandlerKnows

(* create looks up the file it is going to open.                            *)
LEMMA OneCreateLookup ==
  ASSUME IInv, OneInv, OneClient, NEW c \in Conn,
         NEW p \in Path, NEW d \in Disposition, NEW doc \in BOOLEAN,
         CreateLookup(c, p, d, doc)
  PROVE  OneInv'
<1>a. OpensAreNamed /\ HandlerKnows(c) /\ TypeOK /\ req \in [Conn -> Request \cup {None}]
  BY Zenon DEF OneInv, IInv, TypeOK
<1>1. /\ pc'[c] = "check" /\ req'[c].node = dir[p] /\ req'[c].path = p
      /\ UNCHANGED <<dir, fds, opens, pending>>
  BY <1>a, Zenon DEF CreateLookup, Goto, TypeOK
<1>2. HandlerKnows(c)'
  BY <1>1, Zenon DEF HandlerKnows
<1> QED BY <1>a, <1>1, <1>2, SameNames, OneHandler, Zenon

(* create goes on with the file it looked up.                               *)
LEMMA OneCreateCheck ==
  ASSUME IInv, OneInv, OneClient, NEW c \in Conn,
         CreateCheck(c)
  PROVE  OneInv'
<1>a. OpensAreNamed /\ HandlerKnows(c) /\ TypeOK /\ req \in [Conn -> Request \cup {None}]
  BY Zenon DEF OneInv, IInv, TypeOK
<1>1. /\ pc[c] = "check" /\ UNCHANGED <<dir, fds, opens, pending>>
      /\ Done(c) \/ (Goto(c, "open") /\ req' = req)
  BY Zenon DEF CreateCheck, CreateCheckWith
<1>2. \/ pc'[c] = "idle"
      \/ pc'[c] = "open" /\ req' = req
  BY <1>a, <1>1, Zenon DEF Done, Goto, TypeOK
<1>3. CASE pc'[c] = "idle"
  BY <1>a, <1>1, <1>3, IdleKnows, SameNames, OneHandler, Zenon
<1>4. CASE pc'[c] = "open" /\ req' = req
  <2>1. HandlerKnows(c)'
    BY <1>a, <1>1, <1>4 DEF HandlerKnows
  <2> QED BY <1>a, <1>1, <2>1, SameNames, OneHandler, Zenon
<1> QED BY <1>2, <1>3, <1>4, Zenon

(* The file create opens, old or new, has the name.                         *)
LEMMA OneCreateOpen ==
  ASSUME IInv, OneInv, OneClient, NEW c \in Conn,
         CreateOpen(c)
  PROVE  OneInv'
<1>a. OpensAreNamed /\ HandlerKnows(c) /\ TypeOK /\ req \in [Conn -> Request \cup {None}]
  BY Zenon DEF OneInv, IInv, TypeOK
<1>0. pc[c] = "open" /\ req[c] \in Request /\ opens' = opens /\ pending' = pending
  BY Zenon DEF CreateOpen, IInv, HoldsRequest
<1>1. CASE Done(c) /\ UNCHANGED <<dir, fds>>
  <2>1. pc'[c] = "idle"
    BY <1>a, <1>1, Zenon DEF Done, Goto, TypeOK
  <2> QED BY <1>a, <1>0, <1>1, <2>1, IdleKnows, SameNames, OneHandler, Zenon
<1>2. CASE ~(Done(c) /\ UNCHANGED <<dir, fds>>)
  <2> DEFINE I == IF dir[req[c].path] = None THEN FreeInode ELSE {dir[req[c].path]}
  <2>1. /\ Goto(c, "addOpen")
        /\ \E h \in FreeHandle : \E i \in I :
            /\ dir' = [dir EXCEPT ![req[c].path] = i]
            /\ fds' = [fds EXCEPT ![h] = [path |-> req[c].path, node |-> i]]
            /\ req' = [req EXCEPT ![c].node = i, ![c].handle = h]
    BY <1>2, Zenon DEF CreateOpen
  <2>2. PICK h \in FreeHandle, i \in I :
            /\ dir' = [dir EXCEPT ![req[c].path] = i]
            /\ fds' = [fds EXCEPT ![h] = [path |-> req[c].path, node |-> i]]
            /\ req' = [req EXCEPT ![c].node = i, ![c].handle = h]
    <3> HIDE DEF I
    <3> QED BY <2>1, Zenon
  <2>3. h \in Handle /\ opens[h] = None /\ req[c].path \in Path
    BY <1>0, Zenon DEF FreeHandle, Request
  <2>4. pc'[c] = "addOpen" /\ req'[c].node = i /\ req'[c].handle = h
    BY <1>a, <1>0, <2>1, <2>2, Zenon DEF Goto, TypeOK, Request
  <2>5. /\ fds'[h] = [path |-> req[c].path, node |-> i] /\ dir'[req[c].path] = i
        /\ \A g \in Handle \ {h} : fds'[g] = fds[g]
        /\ \A p \in Path \ {req[c].path} : dir'[p] = dir[p]
    BY <1>a, <2>2, <2>3, Zenon DEF TypeOK
  <2>6. HandlerKnows(c)'
    BY <1>0, <2>4, <2>5 DEF HandlerKnows, Named
  <2>7. OpensAreNamed'
    <3> SUFFICES ASSUME NEW g \in Handle, opens'[g] \in Open
                 PROVE  opens'[g].node = fds'[g].node /\ Named(g)' /\ ~opens'[g].posix
      BY Zenon DEF OpensAreNamed
    <3>1. g # h /\ fds'[g] = fds[g] /\ opens'[g] = opens[g] /\ opens[g] \in Open
      BY <1>0, <2>3, <2>5, NoneFacts, Zenon
    <3>2. opens[g].node = fds[g].node /\ Named(g) /\ ~opens[g].posix /\ fds[g] \in Fd
      BY <1>a, <3>1 DEF OpensAreNamed, IInv, OpensHaveFds
    <3>3. fds[g].path \in Path /\ fds[g].node \in Inode
      BY <3>2, Zenon DEF Fd
    <3>4. dir'[fds[g].path] = dir[fds[g].path]
      <4>1. CASE fds[g].path = req[c].path
        <5>1. dir[req[c].path] # None
          BY <4>1, <3>2, <3>3, NoneFacts, Zenon DEF Named
        <5> QED BY <5>1, <4>1, <2>5, Zenon
      <4>2. CASE fds[g].path # req[c].path
        BY <4>2, <2>5, <3>3, Zenon
      <4> QED BY <4>1, <4>2, Zenon
    <3> QED BY <3>1, <3>2, <3>4, Zenon DEF Named
  <2> QED BY <2>6, <2>7, OneHandler, Zenon
<1> QED BY <1>1, <1>2, Zenon

(* addOpen enters the file that create opened.                              *)
LEMMA OneCreateAddOpen ==
  ASSUME IInv, OneInv, OneClient, NEW c \in Conn,
         CreateAddOpen(c)
  PROVE  OneInv'
<1>a. OpensAreNamed /\ HandlerKnows(c) /\ TypeOK /\ req \in [Conn -> Request \cup {None}]
  BY Zenon DEF OneInv, IInv, TypeOK
<1>0. /\ req[c] \in Request /\ req[c].handle \in Handle /\ opens[req[c].handle] = None
      /\ pc[c] = "addOpen"
  BY SMTT(30) DEF IInv, HoldsHandle, HoldsHandleAt, CreateAddOpen, OffTable
<1>1. pc'[c] = "idle" /\ UNCHANGED <<dir, fds, pending>>
  <2>1. pc' = [pc EXCEPT ![c] = "idle"] /\ UNCHANGED <<dir, fds, pending>>
    BY ONLY CreateAddOpen(c), Zenon DEF CreateAddOpen, Done, Goto
  <2>2. DOMAIN pc = Conn
    BY ONLY <1>a, Zenon DEF TypeOK
  <2> QED BY ONLY <2>1, <2>2, c \in Conn, Zenon
<1>2. /\ opens'[req[c].handle].node = req[c].node /\ ~opens'[req[c].handle].posix
      /\ \A h \in Handle \ {req[c].handle} : opens'[h] = opens[h]
  BY <1>a, <1>0, Zenon DEF CreateAddOpen, TypeOK, OneClient
<1>3. OpensAreNamed'
  BY <1>a, <1>0, <1>1, <1>2, Zenon DEF OpensAreNamed, HandlerKnows, Named
<1> QED BY <1>1, <1>3, IdleKnows, OneHandler, Zenon

(* The leaked handle of a failed fstat is in no open.                       *)
LEMMA OneCreateGetAttrFails ==
  ASSUME IInv, OneInv, OneClient, NEW c \in Conn,
         CreateGetAttrFails(c)
  PROVE  OneInv'
<1>a. OpensAreNamed /\ HandlerKnows(c) /\ TypeOK /\ req \in [Conn -> Request \cup {None}]
  BY Zenon DEF OneInv, IInv, TypeOK
<1>1. pc'[c] = "idle" /\ UNCHANGED <<dir, fds, opens>>
  BY <1>a, Zenon DEF CreateGetAttrFails, Done, Goto, TypeOK
<1> QED BY <1>a, <1>1, IdleKnows, SameNames, OneHandler, Zenon


(* close starts with closeOpen, since no open is a POSIX one.               *)
LEMMA OneClose ==
  ASSUME IInv, OneInv, OneClient, NEW c \in Conn,
         NEW h \in Handle, Close(c, h)
  PROVE  OneInv'
<1>a. OpensAreNamed /\ HandlerKnows(c) /\ TypeOK
  BY Zenon DEF OneInv, IInv
<1>1. opens[h] \in Open /\ UNCHANGED <<dir, fds, opens, pending>>
  BY <1>a, Zenon DEF Close, Owned, TypeOK
<1>2. ~opens[h].posix
  BY <1>a, <1>1, Zenon DEF OpensAreNamed
<1>3. pc'[c] = "closeOpen"
  BY <1>a, <1>2, Zenon DEF Close, Start, Goto, TypeOK
<1>4. HandlerKnows(c)'
  BY <1>3, Zenon DEF HandlerKnows
<1> QED BY <1>a, <1>1, <1>4, SameNames, OneHandler, Zenon

(* closeOpen lets the last open on a marked file remove it.                 *)
LEMMA OneCloseOpen ==
  ASSUME IInv, OneInv, OneClient, NEW c \in Conn,
         CloseOpen(c)
  PROVE  OneInv'
<1>a. OpensAreNamed /\ HandlerKnows(c) /\ TypeOK
  BY Zenon DEF OneInv, IInv
<1>1. /\ req[c] \in Request /\ req[c].handle \in Handle /\ opens[req[c].handle] \in Open
      /\ opens[req[c].handle].node = req[c].node
  BY Zenon DEF IInv, HoldsOpen, HoldsOpenAt, CloseOpen, CloseOpenWith, OnOpen
<1>2. opens' = [opens EXCEPT ![req[c].handle] = None] /\ UNCHANGED <<dir, fds, req>>
  BY Zenon DEF CloseOpen, CloseOpenWith
<1>3. \/ Goto(c, "fsClose")
      \/ Goto(c, "unlink") /\ ~OtherOpen(req[c].handle, req[c].node)
  BY Zenon DEF CloseOpen, CloseOpenWith
<1>4. \/ pc'[c] = "fsClose"
      \/ pc'[c] = "unlink" /\ ~OtherOpen(req[c].handle, req[c].node)
  BY <1>a, <1>3, Zenon DEF Goto, TypeOK
<1>5. /\ opens'[req[c].handle] = None
      /\ \A h \in Handle \ {req[c].handle} : opens'[h] = opens[h]
  BY <1>a, <1>1, <1>2, Zenon DEF TypeOK
<1>6. OpensAreNamed'
  BY <1>a, <1>2, <1>5, NoneFacts, Zenon DEF OpensAreNamed, Named
<1>7. HandlerKnows(c)'
  <2>1. CASE pc'[c] = "fsClose"
    BY <2>1, Zenon DEF HandlerKnows
  <2>2. CASE pc'[c] = "unlink" /\ ~OtherOpen(req[c].handle, req[c].node)
    <3>1. req[c].node = fds[req[c].handle].node /\ Named(req[c].handle)
      BY <1>a, <1>1, Zenon DEF OpensAreNamed
    <3>2. \A h \in Handle : opens'[h] \in Open => opens'[h].node # req[c].node
      BY <1>5, <2>2, NoneFacts, Zenon DEF OtherOpen
    <3> QED BY <1>2, <2>2, <3>1, <3>2, Zenon DEF HandlerKnows, Named
  <2> QED BY <1>4, <2>1, <2>2, Zenon
<1> QED BY <1>6, <1>7, OneHandler, Zenon

(* No other open has the name that goes.                                    *)
LEMMA OneCloseUnlink ==
  ASSUME IInv, OneInv, OneClient, NEW c \in Conn,
         CloseUnlink(c)
  PROVE  OneInv'
<1>a. OpensAreNamed /\ HandlerKnows(c) /\ TypeOK
  BY Zenon DEF OneInv, IInv
<1>1. /\ pc'[c] = "fsClose" /\ pc[c] = "unlink"
      /\ dir' = [dir EXCEPT ![fds[req[c].handle].path] = None]
      /\ UNCHANGED <<fds, opens, pending, req>>
  BY <1>a, Zenon DEF CloseUnlink, Goto, UnlinkPath, TypeOK
<1>2. HandlerKnows(c)'
  BY <1>1, Zenon DEF HandlerKnows
<1>3. OpensAreNamed'
  <2> SUFFICES ASSUME NEW g \in Handle, opens[g] \in Open
               PROVE  opens[g].node = fds[g].node /\ Named(g)' /\ ~opens[g].posix
    BY <1>1, Zenon DEF OpensAreNamed
  <2>1. opens[g].node = fds[g].node /\ Named(g) /\ ~opens[g].posix /\ fds[g] \in Fd
    BY <1>a, Zenon DEF OpensAreNamed, IInv, OpensHaveFds
  <2>2. fds[g].path # fds[req[c].handle].path
    BY <1>a, <1>1, <2>1, SMTT(30) DEF HandlerKnows, Named
  <2>3. dir'[fds[g].path] = dir[fds[g].path]
    BY <1>a, <1>1, <2>1, <2>2, Zenon DEF TypeOK, Fd
  <2> QED BY <1>1, <2>1, <2>3, Zenon DEF Named
<1> QED BY <1>2, <1>3, OneHandler, Zenon

(* fs.Close forgets a handle that is in no open.                            *)
LEMMA OneCloseFs ==
  ASSUME IInv, OneInv, OneClient, NEW c \in Conn,
         CloseFs(c)
  PROVE  OneInv'
<1>a. OpensAreNamed /\ HandlerKnows(c) /\ TypeOK
  BY Zenon DEF OneInv, IInv
<1>1. pc[c] \in OffTable /\ req[c].handle \in Handle /\ opens[req[c].handle] = None
  BY Zenon DEF IInv, HoldsHandle, HoldsHandleAt, CloseFs, OffTable
<1>2. /\ pc'[c] = "idle" /\ UNCHANGED <<dir, opens>>
      /\ \A h \in Handle \ {req[c].handle} : fds'[h] = fds[h]
  BY <1>a, <1>1, Zenon DEF CloseFs, Done, Goto, TypeOK
<1>3. OpensAreNamed'
  BY <1>a, <1>1, <1>2, NoneFacts, Zenon DEF OpensAreNamed, Named
<1> QED BY <1>2, <1>3, IdleKnows, OneHandler, Zenon


(* Without the POSIX extensions a disposition only marks or unmarks.        *)
LEMMA OneSetDelete ==
  ASSUME IInv, OneInv, OneClient, NEW c \in Conn,
         NEW h \in Handle, UnsetDelete(c, h) \/ SetDelete(c, h)
  PROVE  OneInv'
<1>a. OpensAreNamed /\ HandlerKnows(c) /\ TypeOK
  BY Zenon DEF OneInv, IInv
<1>1. opens[h] \in Open /\ UNCHANGED <<dir, fds, opens>> /\ pc[c] = "idle"
  BY <1>a, Zenon DEF UnsetDelete, SetDelete, Owned, TypeOK
<1>2. ~opens[h].posix
  BY <1>a, <1>1, Zenon DEF OpensAreNamed
<1>3. pc'[c] = "idle"
  BY <1>1, <1>2, Zenon DEF UnsetDelete, SetDelete
<1> QED BY <1>a, <1>1, <1>3, IdleKnows, SameNames, OneHandler, Zenon

(* The POSIX steps do not happen.                                           *)
LEMMA OneNoPosix ==
  ASSUME OneInv, NEW c \in Conn
  PROVE  ~(ClosePosixUnlink(c) \/ ClosePosixClear(c) \/ DispUnlink(c) \/ DispClear(c))
  BY Zenon DEF OneInv, HandlerKnows, ClosePosixUnlink, ClosePosixClear, DispUnlink, DispClear

(* A lost connection leaves its opens as they are.                          *)
LEMMA OneDisconnect ==
  ASSUME IInv, OneInv, OneClient, NEW c \in Conn,
         Disconnect(c)
  PROVE  OneInv'
<1>a. OpensAreNamed /\ HandlerKnows(c) /\ TypeOK
  BY Zenon DEF OneInv, IInv
<1>1. UNCHANGED <<dir, fds>> /\ pc'[c] = "idle"
  BY Zenon DEF Disconnect
<1>2. \A h \in Handle : opens'[h] = opens[h] \/ opens'[h] = [opens[h] EXCEPT !.conn = None]
  BY Zenon DEF Disconnect
<1>3. \A h \in Handle : opens'[h] \in Open => opens[h] \in Open
  BY <1>a, <1>2, NoneFacts, Zenon DEF Disconnect, Owned, TypeOK
<1>4. \A h \in Handle : opens[h] \in Open =>
         opens'[h].node = opens[h].node /\ opens'[h].posix = opens[h].posix
  BY <1>2, Zenon DEF Open
<1>5. OpensAreNamed'
  BY <1>a, <1>1, <1>3, <1>4, Zenon DEF OpensAreNamed, Named
<1> QED BY <1>1, <1>5, IdleKnows, OneHandler, Zenon


(* setRename starts on a file that only its own handle is open on.          *)
LEMMA OneRename ==
  ASSUME IInv, OneInv, OneClient, NEW c \in Conn,
         NEW h \in Handle, NEW to \in Path, NEW replace \in BOOLEAN,
         Rename(c, h, to, replace)
  PROVE  OneInv'
<1>a. OpensAreNamed /\ HandlerKnows(c) /\ TypeOK
  BY Zenon DEF OneInv, IInv
<1>1. /\ pc'[c] = "rename" /\ req'[c].handle = h /\ req'[c].path = to
      /\ UNCHANGED <<dir, fds, opens, pending>>
  BY <1>a, Zenon DEF Rename, Goto, TypeOK
<1>2. RenameIsAlone(h, to)
  BY Zenon DEF Rename, OneClient
<1>3. HandlerKnows(c)'
  BY <1>1, <1>2, Zenon DEF HandlerKnows, RenameIsAlone
<1> QED BY <1>a, <1>1, <1>3, SameNames, OneHandler, Zenon

(* The name moves with the handle, and no other open had it.                *)
LEMMA OneRenameMove ==
  ASSUME IInv, OneInv, OneClient, NEW c \in Conn,
         RenameMove(c)
  PROVE  OneInv'
<1>a. OpensAreNamed /\ HandlerKnows(c) /\ TypeOK
  BY Zenon DEF OneInv, IInv
<1>1. /\ req[c] \in Request /\ req[c].handle \in Handle
      /\ opens[req[c].handle] \in Open /\ pc[c] = "rename"
  BY Zenon DEF IInv, HoldsOpen, HoldsOpenAt, RenameMove, RenameMoveWith, OnOpen
<1>2. PICK h \in Handle, to \in Path : h = req[c].handle /\ to = req[c].path
  BY <1>1, Zenon DEF Request
<1>3. /\ fds[h] \in Fd /\ fds[h].path \in Path /\ fds[h].node \in Inode
      /\ opens[h].node = fds[h].node /\ Named(h) /\ ~opens[h].posix
  BY <1>a, <1>1, <1>2 DEF IInv, OpensHaveFds, OpensAreNamed, Fd
<1>4. pc'[c] = "idle" /\ opens' = opens
  BY <1>a, Zenon DEF RenameMove, RenameMoveWith, Done, Goto, TypeOK
<1>5. dir[fds[h].path] # None
  BY <1>3, NoneFacts, Zenon DEF Named
<1>6. /\ dir' = [p \in Path |-> IF p = to THEN dir[fds[h].path]
                                ELSE IF p = fds[h].path THEN None ELSE dir[p]]
      /\ fds' = [fds EXCEPT ![h].path = to]
  BY <1>2, <1>5, Zenon DEF RenameMove, RenameMoveWith
<1>7. /\ fds'[h].path = to /\ fds'[h].node = fds[h].node /\ dir'[to] = fds[h].node
      /\ \A g \in Handle \ {h} : fds'[g] = fds[g]
      /\ \A p \in Path \ {to, fds[h].path} : dir'[p] = dir[p]
  BY <1>a, <1>3, <1>6, Zenon DEF TypeOK, Fd, Named
<1>8. RenameIsAlone(h, to)
  BY <1>a, <1>1, <1>2, Zenon DEF HandlerKnows
<1>9. OpensAreNamed'
  <2> SUFFICES ASSUME NEW g \in Handle, opens[g] \in Open
               PROVE  opens[g].node = fds'[g].node /\ Named(g)' /\ ~opens[g].posix
    BY <1>4, Zenon DEF OpensAreNamed
  <2>1. CASE g = h
    BY <2>1, <1>3, <1>7, Zenon DEF Named
  <2>2. CASE g # h
    <3>1. /\ opens[g].node = fds[g].node /\ Named(g) /\ ~opens[g].posix
          /\ fds[g] \in Fd /\ fds[g] # None /\ fds[g].path \in Path
      BY <1>a, NoneFacts, Zenon DEF OpensAreNamed, IInv, OpensHaveFds, Fd
    <3>2. fds[g].node \notin {fds[h].node, dir[to]}
      BY <2>2, <3>1, <1>8, Zenon DEF RenameIsAlone
    <3>3. fds[g].path # to /\ fds[g].path # fds[h].path
      BY <3>1, <3>2, <1>3, Zenon DEF Named
    <3>4. dir'[fds[g].path] = dir[fds[g].path] /\ fds'[g] = fds[g]
      BY <2>2, <3>1, <3>3, <1>7, Zenon
    <3> QED BY <3>1, <3>4, Zenon DEF Named
  <2> QED BY <2>1, <2>2, Zenon
<1> QED BY <1>4, <1>9, IdleKnows, OneHandler, Zenon


(* Every step of a single client keeps the invariant.                       *)
LEMMA OneNext ==
  ASSUME OneClient
  PROVE  IInv /\ OneInv /\ [Next]_vars => OneInv'
<1> SUFFICES ASSUME IInv, OneInv, [Next]_vars PROVE OneInv' BY Zenon
<1>1. CASE UNCHANGED vars
  BY <1>1, ZenonT(40) DEF vars, OneInv, OpensAreNamed, HandlerKnows, Named, RenameIsAlone
<1>2. ASSUME NEW c \in Conn, Step(c) \/ Receive(c) \/ Disconnect(c) PROVE OneInv'
  BY <1>2, OneCreateLookup, OneCreateCheck, OneCreateOpen, OneCreateAddOpen, OneCreateGetAttrFails,
     OneClose, OneCloseOpen, OneCloseUnlink, OneCloseFs, OneSetDelete, OneNoPosix, OneDisconnect,
     OneRename, OneRenameMove, Zenon DEF Step, Receive
<1> QED BY <1>1, <1>2, Zenon DEF Next

(* Both invariants together hold in every state a single client reaches.    *)
LEMMA OneClientInvariant ==
  ASSUME OneClient
  PROVE  Spec => [](IInv /\ OneInv)
<1>1. Init => IInv /\ OneInv
  BY IInvInit, OneInit, Zenon
<1>2. IInv /\ OneInv /\ [Next]_vars => (IInv /\ OneInv)'
  BY IInvNext, OneNext, Zenon
<1> QED BY <1>1, <1>2, PTL DEF Spec

(* With one client, close removes the file its handle was opened on and no  *)
(* other, although PassthroughFS.Unlink goes by the path.                   *)
THEOREM UnlinksTheRightFile ==
  ASSUME OneClient
  PROVE  Spec => []RightFileUnlinked
<1>1. IInv /\ OneInv => RightFileUnlinked
  BY Zenon DEF OneInv, HandlerKnows, Named, RightFileUnlinked
<1> QED BY <1>1, OneClientInvariant, PTL

(* With one client, a file has a name as long as a handle in Server.opens   *)
(* is open on it: closeOpen lets only the last one remove it.               *)
THEOREM OpenFilesKeepNames ==
  ASSUME OneClient
  PROVE  Spec => []OpenFileIsNamed
<1>1. IInv /\ OneInv => OpenFileIsNamed
  <2> SUFFICES ASSUME IInv, OneInv, NEW h \in Handle, opens[h] # None
               PROVE  \E p \in Path : dir[p] = opens[h].node
    BY Zenon DEF OpenFileIsNamed
  <2>1. opens[h] \in Open
    BY Zenon DEF IInv, TypeOK
  <2>2. fds[h] \in Fd /\ fds[h].path \in Path
    BY <2>1, Zenon DEF IInv, OpensHaveFds, Fd
  <2> QED BY <2>1, <2>2, Zenon DEF OneInv, OpensAreNamed, Named
<1> QED BY <1>1, OneClientInvariant, PTL

============================================================================
