----------------------------- MODULE OpenTable -----------------------------
(***************************************************************************)
(* server.go (opens, deletePending) and the handlers of file_tree.go that  *)
(* open, delete, rename and close regular files over PassthroughFS.        *)
(*                                                                         *)
(* A connection runs one request at a time (conn.Run), so a handler is a   *)
(* sequence of steps of its connection: every file system call and every   *)
(* section under Server.lock is one step, and the steps of connections     *)
(* interleave.                                                             *)
(***************************************************************************)
EXTENDS Integers, FiniteSets

CONSTANTS
    Conn, Path, Inode, Handle,
    Posix,          \* connections that negotiated the POSIX extensions
    Disposition,    \* the create dispositions clients use
    SharedRename,   \* clients rename files other handles are open on
    None

Fd == [path : Path, node : Inode]
Open == [node : Inode, conn : Conn \cup {None}, deleteOnClose : BOOLEAN,
         posix : BOOLEAN]
Request == [disposition : Disposition \cup {"open"}, path : Path, node : Inode \cup {None},
            handle : Handle \cup {None}, deleteOnClose : BOOLEAN]

ASSUME OpenTableAssumption ==
    /\ Posix \subseteq Conn
    /\ Disposition \subseteq {"open", "openIf", "create", "overwrite"}
    /\ SharedRename \in BOOLEAN
    /\ None \notin Conn \cup Path \cup Inode \cup Handle
    /\ None \notin Fd /\ None \notin Open /\ None \notin Request

VARIABLES
    dir,      \* [Path -> Inode or None], the names of the share
    fds,      \* PassthroughFS.openFiles: [Handle -> path and inode, or None]
    opens,    \* Server.opens: [Handle -> Open, or None]
    pending,  \* Server.deletePending
    pc,       \* where each connection is in its handler
    req       \* the locals of that handler

vars == <<dir, fds, opens, pending, pc, req>>

Pc == {"idle", "check", "open", "addOpen", "posixUnlink", "posixClear", "closeOpen",
       "unlink", "fsClose", "dispUnlink", "dispClear", "rename"}

(* Every variable of the open table, of the file system and of the          *)
(* handlers has its type.                                                   *)
TypeOK ==
    /\ dir \in [Path -> Inode \cup {None}]
    /\ fds \in [Handle -> Fd \cup {None}]
    /\ opens \in [Handle -> Open \cup {None}]
    /\ pending \in SUBSET Inode
    /\ pc \in [Conn -> Pc]
    /\ req \in [Conn -> Request \cup {None}]

Init ==
    /\ dir = [p \in Path |-> None]
    /\ fds = [h \in Handle |-> None]
    /\ opens = [h \in Handle |-> None]
    /\ pending = {}
    /\ pc = [c \in Conn |-> "idle"]
    /\ req = [c \in Conn |-> None]

Goto(c, l) == pc' = [pc EXCEPT ![c] = l]
Done(c) == Goto(c, "idle") /\ req' = [req EXCEPT ![c] = None]

(* An inode number is free for reuse without a name and without a handle.   *)
FreeInode ==
    {i \in Inode : /\ \A p \in Path : dir[p] # i
                   /\ \A h \in Handle : fds[h] = None \/ fds[h].node # i}

(* The 64-bit handles are random: none is used twice at a time.             *)
FreeHandle == {h \in Handle : fds[h] = None /\ opens[h] = None}

----------------------------------------------------------------------------
(* create: Lookup, isDeletePending and the disposition, the system's open   *)
(* and the fstat of the new handle, addOpen.  The dispositions differ here  *)
(* in whether the file must, must not or may exist and in the open flags:   *)
(* FILE_OVERWRITE_IF and FILE_SUPERSEDE act like FILE_OPEN_IF.              *)

CreateLookup(c, p, d, doc) ==
    /\ pc[c] = "idle"
    /\ req' = [req EXCEPT ![c] = [disposition |-> d, path |-> p, node |-> dir[p],
                                  handle |-> None, deleteOnClose |-> doc]]
    /\ Goto(c, "check")
    /\ UNCHANGED <<dir, fds, opens, pending>>

CreateCheckWith(c, refused) ==
    LET r == req[c]
    IN  /\ pc[c] = "check"
        /\ IF \/ r.node \in refused
              \/ r.node = None /\ r.disposition \in {"open", "overwrite"}
              \/ r.node # None /\ r.disposition = "create"
           THEN Done(c)
           ELSE Goto(c, "open") /\ UNCHANGED req
        /\ UNCHANGED <<dir, fds, opens, pending>>

(* Bug variant: a file that is going to be deleted can be opened again.     *)
CreateCheckNoPending(c) == CreateCheckWith(c, {})

CreateCheck(c) == CreateCheckWith(c, pending)

(* FILE_OPEN has no O_CREATE, FILE_CREATE has O_EXCL, the others create the *)
(* file when it is gone by now.  The open may also fail for a reason of the *)
(* system (permissions, descriptors).                                       *)
CreateOpen(c) ==
    LET r == req[c]
    IN  /\ pc[c] = "open"
        /\ \/ Done(c) /\ UNCHANGED <<dir, fds>>
           \/ /\ IF dir[r.path] = None THEN r.disposition # "open" ELSE r.disposition # "create"
              /\ \E h \in FreeHandle :
                 \E i \in IF dir[r.path] = None THEN FreeInode ELSE {dir[r.path]} :
                    /\ dir' = [dir EXCEPT ![r.path] = i]
                    /\ fds' = [fds EXCEPT ![h] = [path |-> r.path, node |-> i]]
                    /\ req' = [req EXCEPT ![c].node = i, ![c].handle = h]
              /\ Goto(c, "addOpen")
        /\ UNCHANGED <<opens, pending>>

CreateAddOpen(c) ==
    LET r == req[c]
    IN  /\ pc[c] = "addOpen"
        /\ opens' = [opens EXCEPT ![r.handle] =
                        [node |-> r.node, conn |-> c, deleteOnClose |-> r.deleteOnClose,
                         posix |-> c \in Posix]]
        /\ Done(c)
        /\ UNCHANGED <<dir, fds, pending>>

(* GetAttr fails: the error is answered and the new handle is not closed.   *)
CreateGetAttrFails(c) ==
    /\ pc[c] = "addOpen"
    /\ Done(c)
    /\ UNCHANGED <<dir, fds, opens, pending>>

----------------------------------------------------------------------------
(* Handlers on an open handle.                                              *)

Owned(c, h) == opens[h] # None /\ opens[h].conn = c

Start(c, h, l) ==
    /\ req' = [req EXCEPT ![c] = [disposition |-> "open", path |-> fds[h].path,
                                  node |-> opens[h].node, handle |-> h,
                                  deleteOnClose |-> FALSE]]
    /\ Goto(c, l)

(* fs.Unlink: os.Remove of the path the handle was opened with or renamed   *)
(* to, whatever file has that name now.                                     *)
UnlinkPath(h) == dir' = [dir EXCEPT ![fds[h].path] = None]
UnlinkWorks(h) == dir[fds[h].path] # None

----------------------------------------------------------------------------
(* close: applyPosixDeleteOnClose, closeOpen, Unlink when it was the last   *)
(* handle on a file to be deleted, fs.Close.                                *)

Close(c, h) ==
    /\ pc[c] = "idle"
    /\ Owned(c, h)
    /\ Start(c, h, IF opens[h].deleteOnClose /\ opens[h].posix THEN "posixUnlink"
                   ELSE "closeOpen")
    /\ UNCHANGED <<dir, fds, opens, pending>>

ClosePosixUnlink(c) ==
    LET h == req[c].handle
    IN  /\ pc[c] = "posixUnlink"
        /\ IF UnlinkWorks(h)
           THEN UnlinkPath(h) /\ Goto(c, "posixClear")
           ELSE Goto(c, "closeOpen") /\ UNCHANGED dir
        /\ UNCHANGED <<fds, opens, pending, req>>

ClosePosixClear(c) ==
    /\ pc[c] = "posixClear"
    /\ pending' = pending \ {req[c].node}
    /\ opens' = [opens EXCEPT ![req[c].handle].deleteOnClose = FALSE]
    /\ Goto(c, "closeOpen")
    /\ UNCHANGED <<dir, fds, req>>

(* Server.closeOpen, one section under the lock.                            *)
CloseOpenWith(c, key, keep) ==
    LET h == req[c].handle
        n == req[c].node
        marked == pending \cup {k \in {key} : opens[h].deleteOnClose}
    IN  /\ pc[c] = "closeOpen"
        /\ opens' = [opens EXCEPT ![h] = None]
        /\ IF n \notin marked \/ keep
           THEN pending' = marked /\ Goto(c, "fsClose")
           ELSE pending' = marked \ {n} /\ Goto(c, "unlink")
        /\ UNCHANGED <<dir, fds, req>>

OtherOpen(h, n) == \E o \in Handle \ {h} : opens[o] # None /\ opens[o].node = n

(* Bug variants: the last handle does not delete; the first one does; the   *)
(* mark is kept under the handle instead of the inode.                      *)
CloseOpenLeavesMark(c) == CloseOpenWith(c, req[c].node, TRUE)
CloseOpenIgnoresOthers(c) == CloseOpenWith(c, req[c].node, FALSE)
CloseOpenWrongKey(c) == CloseOpenWith(c, req[c].handle, OtherOpen(req[c].handle, req[c].node))

CloseOpen(c) == CloseOpenWith(c, req[c].node, OtherOpen(req[c].handle, req[c].node))

CloseUnlink(c) ==
    LET h == req[c].handle
    IN  /\ pc[c] = "unlink"
        /\ UnlinkPath(h)
        /\ Goto(c, "fsClose")
        /\ UNCHANGED <<fds, opens, pending, req>>

CloseFs(c) ==
    /\ pc[c] = "fsClose"
    /\ fds' = [fds EXCEPT ![req[c].handle] = None]
    /\ Done(c)
    /\ UNCHANGED <<dir, opens, pending>>

----------------------------------------------------------------------------
(* setDispositionInfo and applyDeleteDisposition.  A handle without DELETE  *)
(* access is refused and changes nothing; which handles have it is left to  *)
(* the choice of the action.                                                *)

UnsetDelete(c, h) ==
    /\ pc[c] = "idle"
    /\ Owned(c, h)
    /\ pending' = pending \ {opens[h].node}
    /\ UNCHANGED <<dir, fds, opens, pc, req>>

SetDelete(c, h) ==
    /\ pc[c] = "idle"
    /\ Owned(c, h)
    /\ IF opens[h].posix
       THEN Start(c, h, "dispUnlink") /\ UNCHANGED pending
       ELSE pending' = pending \cup {opens[h].node} /\ UNCHANGED <<pc, req>>
    /\ UNCHANGED <<dir, fds, opens>>

DispUnlink(c) ==
    LET h == req[c].handle
    IN  /\ pc[c] = "dispUnlink"
        /\ IF UnlinkWorks(h)
           THEN UnlinkPath(h) /\ Goto(c, "dispClear") /\ UNCHANGED req
           ELSE Done(c) /\ UNCHANGED dir
        /\ UNCHANGED <<fds, opens, pending>>

DispClear(c) ==
    /\ pc[c] = "dispClear"
    /\ pending' = pending \ {req[c].node}
    /\ Done(c)
    /\ UNCHANGED <<dir, fds, opens>>

----------------------------------------------------------------------------
(* setRename and PassthroughFS.Rename: the check for the target when the    *)
(* client does not want it replaced, then os.Rename of the handle's path.   *)

RenameIsAlone(h, to) ==
    \A o \in {g \in Handle \ {h} : fds[g] # None} : fds[o].node \notin {fds[h].node, dir[to]}

Rename(c, h, to, replace) ==
    /\ pc[c] = "idle"
    /\ Owned(c, h)
    /\ SharedRename \/ RenameIsAlone(h, to)
    /\ replace \/ dir[to] = None
    /\ req' = [req EXCEPT ![c] = [disposition |-> "open", path |-> to,
                                  node |-> opens[h].node, handle |-> h,
                                  deleteOnClose |-> FALSE]]
    /\ Goto(c, "rename")
    /\ UNCHANGED <<dir, fds, opens, pending>>

RenameMoveWith(c, path) ==
    LET h == req[c].handle
        from == fds[h].path
        to == req[c].path
    IN  /\ pc[c] = "rename"
        /\ IF dir[from] = None
           THEN UNCHANGED <<dir, fds>>
           ELSE /\ dir' = [p \in Path |-> IF p = to THEN dir[from]
                                          ELSE IF p = from THEN None ELSE dir[p]]
                /\ fds' = [fds EXCEPT ![h].path = path]
        /\ Done(c)
        /\ UNCHANGED <<opens, pending>>

(* Bug variant: the handle keeps its old path.                              *)
RenameMoveOldPath(c) == RenameMoveWith(c, fds[req[c].handle].path)

RenameMove(c) == RenameMoveWith(c, req[c].path)

----------------------------------------------------------------------------
(* A connection that ends leaves its opens in the table.                    *)
Disconnect(c) ==
    /\ pc[c] = "idle"
    /\ \E h \in Handle : Owned(c, h)
    /\ opens' = [h \in Handle |-> IF Owned(c, h) THEN [opens[h] EXCEPT !.conn = None]
                                  ELSE opens[h]]
    /\ UNCHANGED <<dir, fds, pending, pc, req>>

Step(c) ==
    \/ CreateCheck(c) \/ CreateOpen(c) \/ CreateAddOpen(c) \/ CreateGetAttrFails(c)
    \/ ClosePosixUnlink(c) \/ ClosePosixClear(c) \/ CloseOpen(c) \/ CloseUnlink(c)
    \/ CloseFs(c)
    \/ DispUnlink(c) \/ DispClear(c)
    \/ RenameMove(c)

Receive(c) ==
    \/ \E p \in Path, d \in Disposition, doc \in BOOLEAN : CreateLookup(c, p, d, doc)
    \/ \E h \in Handle : Close(c, h) \/ UnsetDelete(c, h) \/ SetDelete(c, h)
    \/ \E h \in Handle, to \in Path, replace \in BOOLEAN : Rename(c, h, to, replace)

Next == \E c \in Conn : Step(c) \/ Receive(c) \/ Disconnect(c)

Spec == Init /\ [][Next]_vars

(* A handler that has begun is carried on, and a client closes each of its  *)
(* handles in the end, between its other requests.                          *)
Fairness ==
    /\ \A c \in Conn : WF_vars(Step(c))
    /\ \A h \in Handle : SF_vars(\E c \in Conn : Close(c, h))

FairSpec == Spec /\ Fairness

----------------------------------------------------------------------------
(* Properties.                                                              *)

(* A delete mark never outlives the opens it waits for: otherwise nothing   *)
(* would ever remove it, and a new file that gets the inode number could    *)
(* never be opened (closeOpen and setDeletePending).                        *)
PendingHasOpen ==
    \A n \in pending : \E h \in Handle : opens[h] # None /\ opens[h].node = n

(* When the last handle goes, the file it removes is there and is the one   *)
(* that was marked, although Unlink goes by the path.                       *)
RightFileUnlinked ==
    \A c \in Conn : pc[c] = "unlink" =>
        dir[fds[req[c].handle].path] = fds[req[c].handle].node

(* A file keeps its name as long as a handle is open on it, whoever asked   *)
(* for its deletion.                                                        *)
OpenFileIsNamed ==
    \A h \in Handle : opens[h] # None => \E p \in Path : dir[p] = opens[h].node

(* An open that nobody can close: its connection has ended.                 *)
LeftBehind(n) ==
    \E h \in Handle : opens[h] # None /\ opens[h].node = n /\ opens[h].conn = None

(* The mark of a file goes in the end, by the deletion or because a client  *)
(* takes it back, although connections go on opening files: only a CREATE   *)
(* that was past isDeletePending when the file was marked still gets a      *)
(* handle on it (a gap create leaves), so the handles run out.  Two         *)
(* exceptions: an open whose connection ended is never closed, and clients  *)
(* that rename for ever can move the file each time to a name another       *)
(* CREATE has just looked up.                                               *)
MarkedFilesGo ==
    <>[](\A c \in Conn : pc[c] # "rename") =>
        \A n \in Inode : n \in pending ~> (n \notin pending \/ LeftBehind(n))

============================================================================
