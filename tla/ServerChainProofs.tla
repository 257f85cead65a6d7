------------------------- MODULE ServerChainProofs ------------------------
(* Which chains of compound requests leave their handle open.               *)
EXTENDS ServerProofs

USE ZenonT(30)

-----------------------------------------------------------------------------
(* The handle of a chain that creates a file, uses it and closes it. *)
(* The requests of a chain that have a tree have the same. *)
ChainsOnOneTree ==
    \A s \in Scripts : \A i \in DOMAIN s : \A j, l \in DOMAIN s[i] :
        s[i][j].op \in TreeOps /\ s[i][l].op \in TreeOps => s[i][j].tree = s[i][l].tree

(* A request was handled on a tree that had been connected. *)
KnownTrees == ~Ended => \A r \in Requests : r.id <= handled /\ r.op \in TreeOps => r.tree \in 1 .. nextTree - 1

Middle(i) == {script[i][j] : j \in 2 .. Len(script[i]) - 1}
Spoils(r) == (r.op = "use" /\ ~r.ok) \/ r.op = "notify"
SpoiltSoFar(i) == \E r \in Middle(i) : r.id <= handled /\ Spoils(r)

(* A chain starts without a failure.  Then its context has the handle,      *)
(* which is open, and its status is good until a request spoils it.         *)
Fresh ==
    handed # <<>> => \A i \in Packets : IsChain(i) /\ handed[1].id = FirstOf(i).id =>
        ctx[FirstOf(i).id].lastStatus = "ok"

Between(i) == FirstOf(i).id <= handled /\ handled < LastOf(i).id

KeepsHandle ==
    \A i \in Packets : CreatesUsesCloses(i) /\ Between(i) =>
        /\ ctx[FirstOf(i).id].file = FirstOf(i).id /\ FirstOf(i).id \in handles
        /\ ctx[FirstOf(i).id].lastStatus = "ok" <=> ~SpoiltSoFar(i)

(* The ids from the first to the last of a packet are its own. *)
LEMMA IdsBetween ==
  ASSUME script \in Scripts, NEW i \in Packets, NEW k \in Packets, NEW n \in Ids(k),
         FirstOf(i).id <= n, n <= LastOf(i).id
  PROVE  k = i
<1>1. PICK j \in DOMAIN script[k] : n = script[k][j].id
  BY SMTT(20) DEF Ids
<1>2. PICK len : len = Len(script[i]) /\ 1 \in DOMAIN script[i] /\ len \in DOMAIN script[i]
  BY PacketEnds, SMTT(20)
<1>3. i <= k
  <2>1. i < k \/ (i = k /\ 1 <= j)
    BY <1>1, <1>2, IdsInOrder, SMTT(20) DEF FirstOf
  <2> QED BY <2>1, ScriptFacts, SMTT(20)
<1>4. k <= i
  <2>1. k < i \/ (k = i /\ j <= len)
    BY <1>1, <1>2, IdsInOrder, SMTT(20) DEF LastOf
  <2> QED BY <2>1, ScriptFacts, SMTT(20)
<1> QED BY <1>3, <1>4, ScriptFacts, SMTT(20)

(* The requests of a packet are its first, its last and those between. *)
LEMMA InMiddle ==
  ASSUME script \in Scripts, NEW i \in Packets, NEW r \in Requests, r.id \in Ids(i)
  PROVE  /\ r.id = FirstOf(i).id => r = FirstOf(i)
         /\ r.id = LastOf(i).id => r = LastOf(i)
         /\ FirstOf(i).id < r.id /\ r.id < LastOf(i).id <=> r \in Middle(i)
         /\ \E j \in DOMAIN script[i] : r = script[i][j]
<1>1. PICK j \in DOMAIN script[i] : r.id = script[i][j].id
  BY SMTT(20) DEF Ids
<1>2. r = script[i][j]
  BY <1>1, PlaceRequest, OneRequest, SMTT(20)
<1>3. PICK len \in Nat \ {0} : /\ len = Len(script[i]) /\ DOMAIN script[i] = 1 .. len
                               /\ 1 \in DOMAIN script[i] /\ len \in DOMAIN script[i]
  BY PacketEnds, ScriptFacts, SMTT(20)
<1>4. FirstOf(i) = script[i][1] /\ LastOf(i) = script[i][len]
  BY <1>3, SMTT(20) DEF FirstOf, LastOf
<1>5. r.id = FirstOf(i).id => r = FirstOf(i)
  BY PacketEnds, OneRequest, SMTT(20)
<1>6. r.id = LastOf(i).id => r = LastOf(i)
  BY PacketEnds, OneRequest, SMTT(20)
<1>7. /\ r.id \in Nat /\ FirstOf(i).id \in Nat /\ LastOf(i).id \in Nat
      /\ r.id <= FirstOf(i).id <=> j <= 1
      /\ LastOf(i).id <= r.id <=> len <= j
  BY <1>2, <1>3, <1>4, IdsInOrder, SMTT(20)
<1>8. j \in 1 .. len
  BY <1>1, <1>3, SMTT(20)
<1>9. FirstOf(i).id < r.id /\ r.id < LastOf(i).id <=> j \in 2 .. len - 1
  BY <1>7, <1>8, SMTT(20)
<1>10. j \in 2 .. len - 1 => r \in Middle(i)
  BY <1>2, <1>3, SMTT(20) DEF Middle
<1>11. ASSUME r \in Middle(i) PROVE j \in 2 .. len - 1
  <2>1. PICK q \in 2 .. len - 1 : r = script[i][q]
    BY <1>3, <1>11, SMTT(20) DEF Middle
  <2>2. q \in DOMAIN script[i]
    BY <1>3, <2>1, SMTT(20)
  <2>3. q = j
    BY <1>1, <2>1, <2>2, IdsInOrder, SMTT(20)
  <2> QED BY <2>1, <2>3, SMTT(20)
<1> QED BY <1>2, <1>5, <1>6, <1>9, <1>10, <1>11, SMTT(20)

(* What a chain that creates, uses and closes is made of. *)
LEMMA ChainShape ==
  ASSUME ChainsOnOneTree, script \in Scripts, NEW i \in Packets, CreatesUsesCloses(i),
         NEW r \in Requests, r.id \in Ids(i)
  PROVE  /\ r.op \in TreeOps => r.tree \in DOMAIN byId /\ byId[r.tree].path \notin Pipes
         /\ r = FirstOf(i) => r.op = "create" /\ r.ok
         /\ r = LastOf(i) => r.op = "close"
         /\ r \in Middle(i) => r.op \notin {"create", "close"}
         /\ r.op = "notify" => r \in Middle(i)
<1>1. PICK j \in DOMAIN script[i] : r = script[i][j]
  BY InMiddle, SMTT(20)
<1>2. /\ FirstOf(i).op = "create" /\ FirstOf(i).ok /\ LastOf(i).op = "close"
      /\ FirstOf(i).tree \in DOMAIN byId /\ byId[FirstOf(i).tree].path \notin Pipes
      /\ \A k \in 2 .. Len(script[i]) - 1 : script[i][k].op \notin {"create", "close"}
  BY SMTT(20) DEF CreatesUsesCloses, FirstOf
<1>3. ASSUME r.op \in TreeOps PROVE r.tree = FirstOf(i).tree
  <2>1. i \in DOMAIN script /\ 1 \in DOMAIN script[i]
    BY PacketEnds, ScriptFacts, SMTT(20)
  <2> QED BY <1>1, <1>2, <1>3, <2>1, SMTT(20) DEF ChainsOnOneTree, FirstOf, TreeOps
<1>4. r \in Middle(i) => r.op \notin {"create", "close"}
  BY <1>2, SMTT(20) DEF Middle
<1>5. ASSUME r.op = "notify" PROVE r \in Middle(i)
  <2>1. r # FirstOf(i) /\ r # LastOf(i)
    BY <1>2, <1>5, SMTT(20)
  <2>2. /\ FirstOf(i).id <= r.id /\ r.id <= LastOf(i).id
        /\ r.id \in Nat /\ FirstOf(i).id \in Nat /\ LastOf(i).id \in Nat
    BY PacketEnds, SMTT(20)
  <2>3. r.id # FirstOf(i).id /\ r.id # LastOf(i).id
    BY <2>1, InMiddle, SMTT(20)
  <2>4. FirstOf(i).id < r.id /\ r.id < LastOf(i).id
    BY <2>2, <2>3, SMTT(20)
  <2> QED BY <2>4, InMiddle, SMTT(20)
<1> QED BY <1>2, <1>3, <1>4, <1>5, SMTT(20)

(* A step keeps the paths of the trees there are, and ids grow. *)
LEMMA PathsStay ==
  ASSUME Typed, InOrder, TablesInv, [Next]_vars
  PROVE  /\ nextTree' \in Nat /\ nextTree \in Nat /\ nextTree <= nextTree'
         /\ \A t \in DOMAIN byId' : t \in 1 .. nextTree - 1 => t \in DOMAIN byId /\ byId'[t].path = byId[t].path
<1>0. nextTree \in Nat \ {0} /\ handled \in Nat /\ TablesOK /\ byId \in [DOMAIN byId -> Tree]
  BY DEF TablesInv, TablesOK, InOrder
<1>2. ASSUME NEW id, NEW t, TakesDisconnects(id, {}), ConnectsAgain(id, t)
      PROVE  /\ nextTree' = nextTree /\ DOMAIN byId' = DOMAIN byId
             /\ \A i \in DOMAIN byId : byId'[i].path = byId[i].path
  <2>1. t \in DOMAIN byId /\ byId' = [byId EXCEPT ![t].refCount = @ + 1] /\ nextTree' = nextTree
    BY <1>2 DEF ConnectsAgain
  <2> QED BY <1>0, <2>1, SMTT(20) DEF Tree
<1>3. ASSUME NEW id, NEW s, TakesDisconnects(id, {}), ConnectsNew(id, s)
      PROVE  /\ nextTree' = nextTree + 1 /\ DOMAIN byId' = DOMAIN byId \cup {nextTree}
             /\ \A i \in DOMAIN byId : byId'[i] = byId[i]
  <2>1. id \in Nat /\ handled < id /\ handled' = id /\ nextTree' = nextTree + 1
    BY <1>3 DEF TakesDisconnects, ConnectsNew
  <2> QED BY <1>0, <1>3, <2>1, NewTables
<1>4. ASSUME NEW id, NEW t, TakesDisconnects(id, {t}), Disconnected(t)
      PROVE  /\ nextTree' = nextTree /\ DOMAIN byId' \subseteq DOMAIN byId
             /\ \A i \in DOMAIN byId' : byId'[i].path = byId[i].path
  <2>1. nextTree' = nextTree
    BY <1>4 DEF Disconnected
  <2>2. CASE t \notin DOMAIN byId
    BY <1>4, <2>1, <2>2 DEF Disconnected
  <2>3. CASE t \in DOMAIN byId /\ byId[t].refCount = 1
    <3>1. byId' = Without(byId, t)
      BY <1>4, <2>3 DEF Disconnected
    <3> QED BY <2>1, <3>1 DEF Without
  <2>4. CASE t \in DOMAIN byId /\ byId[t].refCount # 1
    <3>1. byId' = [byId EXCEPT ![t].refCount = @ - 1]
      BY <1>4, <2>4 DEF Disconnected
    <3> QED BY <1>0, <2>1, <2>4, <3>1, SMTT(20) DEF Tree
  <2> QED BY <2>2, <2>3, <2>4
<1>5. \/ nextTree' = nextTree /\ DOMAIN byId' \subseteq DOMAIN byId /\ \A i \in DOMAIN byId' : byId'[i].path = byId[i].path
      \/ nextTree' = nextTree + 1 /\ DOMAIN byId' = DOMAIN byId \cup {nextTree} /\ \A i \in DOMAIN byId : byId'[i] = byId[i]
  <2>1. TreesChange
    BY <1>0, TreeSteps
  <2>2. CASE KeepsTrees
    BY <2>2 DEF KeepsTrees, SameTrees
  <2> QED BY <1>2, <1>3, <1>4, <2>1, <2>2 DEF TreesChange
<1>6. nextTree \notin 1 .. nextTree - 1
  BY ONLY <1>0, SMTT(20)
<1>7. nextTree' \in Nat /\ nextTree <= nextTree'
  <2>1. nextTree' = nextTree \/ nextTree' = nextTree + 1
    BY <1>5
  <2> QED BY ONLY <1>0, <2>1, SMTT(20)
<1>8. ASSUME NEW t \in DOMAIN byId', t \in 1 .. nextTree - 1
      PROVE  t \in DOMAIN byId /\ byId'[t].path = byId[t].path
  <2>1. t # nextTree
    BY <1>6, <1>8
  <2> QED BY <1>5, <1>8, <2>1
<1> QED BY <1>0, <1>7, <1>8

(* A request of a tree is only handled when the tree is there. *)
LEMMA HandledOnTree ==
  ASSUME NEW m, Handle(m), m.r.op \in TreeOps
  PROVE  m.r.tree \in DOMAIN byId
<1>1. CASE Cancel(m) \/ Echo(m) \/ TreeConnect(m) \/ TreeDisconnect(m)
  BY <1>1, SMTT(20) DEF Cancel, Echo, TreeConnect, TreeDisconnect, TreeOps, PipeOps
<1>2. CASE FollowFailure(m) \/ Create(m) \/ Use(m) \/ CloseFile(m) \/ Silent(m) \/ ChangeNotify(m)
  BY <1>2 DEF FollowFailure, Create, Use, CloseFile, Silent, ChangeNotify, OnFiles, OnTree
<1>3. CASE PipeCreate(m) \/ PipeClose(m) \/ PipeIoctl(m) \/ PipeQueryInfo(m) \/ PipeWrite(m) \/ PipeRead(m)
  BY <1>3 DEF PipeCreate, PipeClose, PipeIoctl, PipeQueryInfo, PipeWrite, PipeRead, PipeAnswers, OnPipe, OnTree
<1> QED BY <1>1, <1>2, <1>3 DEF Handle

(* The ids given so far are among those given later. *)
LEMMA IdsGrow ==
  ASSUME NEW a \in Nat, NEW b \in Nat, a <= b, NEW n \in 1 .. a - 1
  PROVE  n \in 1 .. b - 1
  BY SMTT(20)

(* Every request was handled on a tree that had been connected. *)
LEMMA KnownNext ==
  ASSUME ShutdownInv, Typed, InOrder, TablesInv, KnownTrees, [Next]_vars
  PROVE  KnownTrees'
<1>0. Ended => Ended'
  BY EndedStays
<1>1. CASE UNCHANGED dispatchVars \/ Receive \/ CompletesStep
  <2>1. UNCHANGED <<script, tables, handled>>
    BY <1>1, ReceiveEffect, CompleteEffect DEF dispatchVars, tables, CompletesStep
  <2>2. Requests' = Requests /\ nextTree' = nextTree /\ handled' = handled
    BY <2>1, ScriptStays DEF tables
  <2> QED BY <1>0, <2>2 DEF KnownTrees
<1>2. CASE EndsStep
  BY <1>2, EndsEnded DEF KnownTrees
<1>3. CASE HandlesStep
  <2>1. PICK m : m = handed[1] /\ handed # <<>> /\ Handle(m)
    BY <1>3 DEF HandlesStep
  <2>2. Takes(m) /\ script' = script
    BY <2>1, HandleEffect
  <2>3. Requests' = Requests /\ handled' = m.id
    BY <2>2, ScriptStays DEF Takes
  <2>4. \A r \in Requests : r.id <= m.id => r.id <= handled \/ r = m.r
    BY <2>1 DEF InOrder
  <2>5. DOMAIN byId \subseteq 1 .. nextTree - 1
    BY DEF TablesInv, TablesOK
  <2>6. ASSUME NEW n \in 1 .. nextTree - 1 PROVE n \in 1 .. nextTree' - 1
    <3>1. nextTree' \in Nat /\ nextTree \in Nat /\ nextTree <= nextTree'
      BY PathsStay
    <3> QED BY <3>1, IdsGrow
  <2>7. ASSUME ~Ended', NEW r \in Requests, r.id <= m.id, r.op \in TreeOps
        PROVE  r.tree \in 1 .. nextTree - 1
    <3>1. CASE r = m.r
      BY <2>1, <2>5, <2>7, <3>1, HandledOnTree
    <3>2. CASE r.id <= handled
      BY <1>0, <2>7, <3>2 DEF KnownTrees
    <3> QED BY <2>4, <2>7, <3>1, <3>2
  <2> QED BY <2>3, <2>6, <2>7 DEF KnownTrees
<1> QED BY <1>1, <1>2, <1>3, StepKinds

(* A request between leaves the handle, and may spoil the chain. *)
LEMMA MiddleHandled ==
  ASSUME ContextsOK, NEW m, Handle(m), m.id \in Nat, NEW f \in DOMAIN ctx, m.ctx = f,
         ctx[f].file = f, f \in handles, m.r.op \notin {"create", "close"},
         m.r.op \in TreeOps => byId[m.r.tree].path \notin Pipes
  PROVE  /\ handles' = handles /\ f \in DOMAIN ctx' /\ ctx'[f].file = f
         /\ ctx'[f].lastStatus = "ok" <=> ctx[f].lastStatus = "ok" /\ ~Spoils(m.r)
<1>0. f # None /\ FileOf(m) = f /\ (Failed(m) <=> ctx[f].lastStatus # "ok") /\ ctx[f].lastStatus \in Status
  BY SMTT(20) DEF ContextsOK, None, FileOf, Failed, ContextType
<1>1. CASE UNCHANGED <<ctx, handles>> /\ m.r.op \notin {"use", "notify"}
  BY <1>1, SMTT(20) DEF Spoils
<1>2. ASSUME NEW status \in Status, Sends(f, m.id, status), handles' = handles,
             status = "ok" <=> ctx[f].lastStatus = "ok" /\ ~Spoils(m.r)
      PROVE  /\ handles' = handles /\ f \in DOMAIN ctx' /\ ctx'[f].file = f
             /\ ctx'[f].lastStatus = "ok" <=> ctx[f].lastStatus = "ok" /\ ~Spoils(m.r)
  <2>1. Responds(f, m.id, status) /\ ctx'[f].file = ctx[f].file
    BY <1>0, <1>2, SendsResponds, SMTT(20)
  <2> QED BY <1>0, <1>2, <2>1, SMTT(20) DEF Responds
<1>3. CASE Cancel(m) \/ Silent(m) \/ Echo(m) \/ TreeConnect(m) \/ TreeDisconnect(m)
  BY <1>1, <1>3, SMTT(20) DEF Cancel, Silent, Echo, TreeConnect, TreeDisconnect, Sends, None
<1>4. CASE FollowFailure(m)
  BY <1>0, <1>2, <1>4, SMTT(20) DEF FollowFailure
<1>5. CASE Use(m)
  <2>1. PICK status : status = (IF m.r.ok /\ FileOf(m) \in handles THEN "ok" ELSE "failed")
    BY SMTT(20)
  <2>2. Sends(f, m.id, status) /\ m.r.op = "use" /\ ~Failed(m) /\ handles' = handles
    BY <1>5, <2>1, SMTT(20) DEF Use, OnFiles
  <2>3. status \in Status /\ (status = "ok" <=> m.r.ok)
    BY <1>0, <2>1, SMTT(20) DEF Status
  <2> QED BY <1>0, <1>2, <2>2, <2>3, SMTT(20) DEF Spoils
<1>6. CASE ChangeNotify(m)
  <2>1. Sends(f, m.id, "pending") /\ m.r.op = "notify" /\ handles' = handles /\ "pending" \in Status
    BY <1>0, <1>6, SMTT(20) DEF ChangeNotify, Status
  <2> QED BY <1>2, <2>1, SMTT(20) DEF Spoils
<1>7. CASE PipeCreate(m) \/ PipeClose(m) \/ PipeIoctl(m) \/ PipeQueryInfo(m) \/ PipeWrite(m) \/ PipeRead(m)
  BY <1>7 DEF PipeCreate, PipeClose, PipeIoctl, PipeQueryInfo, PipeWrite, PipeRead, PipeAnswers, OnPipe, OnTree, IsPipe
<1>8. CASE Create(m) \/ CloseFile(m)
  BY <1>8, SMTT(20) DEF Create, CloseFile
<1> QED BY <1>3, <1>4, <1>5, <1>6, <1>7, <1>8 DEF Handle

(* The first request of such a chain opens the file. *)
LEMMA FirstHandled ==
  ASSUME ContextsOK, NEW m \in Offered, Handle(m), NEW f \in DOMAIN ctx, m.ctx = f, m.id = f,
         ctx[f].lastStatus = "ok", m.r.op = "create", m.r.ok, byId[m.r.tree].path \notin Pipes
  PROVE  f \in handles' /\ ctx'[f].file = f /\ ctx'[f].lastStatus = "ok"
<1>1. f # None /\ ~Failed(m) /\ ~OnPipe(m)
  BY DEF ContextsOK, None, Failed, OnPipe, IsPipe
<1>2. ~FollowFailure(m)
  BY <1>1 DEF FollowFailure
<1>3. ~(PipeCreate(m) \/ PipeClose(m) \/ PipeIoctl(m) \/ PipeQueryInfo(m) \/ PipeWrite(m) \/ PipeRead(m))
  BY <1>1 DEF PipeCreate, PipeClose, PipeIoctl, PipeQueryInfo, PipeWrite, PipeRead, PipeAnswers
<1>4. ~(Cancel(m) \/ Echo(m) \/ Use(m) \/ CloseFile(m) \/ Silent(m) \/ ChangeNotify(m))
  BY DEF Cancel, Echo, Use, CloseFile, Silent, ChangeNotify
<1>5. ~(TreeConnect(m) \/ TreeDisconnect(m))
  BY DEF TreeConnect, TreeDisconnect
<1>6. Create(m)
  BY <1>2, <1>3, <1>4, <1>5 DEF Handle
<1>7. Responds(f, f, "ok") /\ ctx'[f].file = f
  BY <1>1, <1>6, CreateResponds
<1>8. f \in handles'
  BY <1>6 DEF Create
<1> QED BY <1>1, <1>7, <1>8 DEF Responds

(* The last closes it, unless the chain was spoilt. *)
LEMMA LastHandled ==
  ASSUME ContextsOK, NEW m, Handle(m), NEW f \in DOMAIN ctx, m.ctx = f, ctx[f].file = f, f \in handles,
         m.r.op = "close", byId[m.r.tree].path \notin Pipes
  PROVE  f \in handles' <=> ctx[f].lastStatus # "ok"
<1>1. f # None /\ FileOf(m) = f /\ (Failed(m) <=> ctx[f].lastStatus # "ok") /\ ~OnPipe(m)
  BY DEF ContextsOK, None, FileOf, Failed, OnPipe, IsPipe
<1>2. ~(PipeCreate(m) \/ PipeClose(m) \/ PipeIoctl(m) \/ PipeQueryInfo(m) \/ PipeWrite(m) \/ PipeRead(m))
  BY <1>1 DEF PipeCreate, PipeClose, PipeIoctl, PipeQueryInfo, PipeWrite, PipeRead, PipeAnswers
<1>3. ~(Cancel(m) \/ Echo(m) \/ Create(m) \/ Use(m) \/ Silent(m) \/ ChangeNotify(m))
  BY DEF Cancel, Echo, Create, Use, Silent, ChangeNotify
<1>4. ~(TreeConnect(m) \/ TreeDisconnect(m))
  BY DEF TreeConnect, TreeDisconnect
<1>5. CASE FollowFailure(m)
  BY <1>1, <1>5 DEF FollowFailure
<1>6. CASE CloseFile(m)
  <2>1. handles' = handles \ {f} /\ ~Failed(m)
    BY <1>1, <1>6 DEF CloseFile, OnFiles
  <2> QED BY <1>1, <2>1
<1> QED BY <1>2, <1>3, <1>4, <1>5, <1>6 DEF Handle

(* Whether a packet is such a chain depends on the tree only. *)
LEMMA ChainStays ==
  ASSUME script' = script, NEW i, CreatesUsesCloses(i)',
         FirstOf(i).tree \in DOMAIN byId' =>
            FirstOf(i).tree \in DOMAIN byId /\ byId'[FirstOf(i).tree].path = byId[FirstOf(i).tree].path
  PROVE  CreatesUsesCloses(i)
BY DEF CreatesUsesCloses, FirstOf, LastOf, IsChain, WellRelated

(* A step that handles nothing and leaves the handles keeps what is known   *)
(* of the chains, if the contexts keep their file and whether they failed.  *)
LEMMA QuietKeeps ==
  ASSUME KeepsHandle, HandleLeftOpen, UNCHANGED <<script, tables, handles, handled>>,
         \A i \in Packets : CreatesUsesCloses(i) /\ Between(i) =>
            /\ ctx'[FirstOf(i).id].file = ctx[FirstOf(i).id].file
            /\ ctx'[FirstOf(i).id].lastStatus = "ok" <=> ctx[FirstOf(i).id].lastStatus = "ok"
  PROVE  KeepsHandle' /\ HandleLeftOpen'
<1>1. script' = script /\ byId' = byId /\ handles' = handles /\ handled' = handled
  BY DEF tables
<1>2. /\ Packets' = Packets
      /\ \A i : FirstOf(i)' = FirstOf(i) /\ LastOf(i)' = LastOf(i)
      /\ \A i : CreatesUsesCloses(i)' => CreatesUsesCloses(i)
  BY <1>1, ScriptStays, ChainStays
<1>3. \A i : (SpoiltSoFar(i)' <=> SpoiltSoFar(i)) /\ (Between(i)' <=> Between(i))
  BY <1>1, <1>2 DEF SpoiltSoFar, Middle, Between
<1>4. KeepsHandle'
  BY <1>1, <1>2, <1>3 DEF KeepsHandle
<1>5. HandleLeftOpen'
  BY <1>1, <1>2 DEF HandleLeftOpen
<1> QED BY <1>4, <1>5

(* The receiver leaves the contexts of what was handled alone. *)
LEMMA ReceiveKeeps ==
  ASSUME ChainsRelated, Typed, InOrder, InContext, Collected, Fresh, KeepsHandle, HandleLeftOpen, Receive
  PROVE  Fresh' /\ KeepsHandle' /\ HandleLeftOpen'
<1>0. /\ script \in Scripts /\ PlaceOK /\ ContextsOK /\ handled \in Nat
      /\ handed = <<>> /\ at[1] <= Len(script) /\ Taken = handled
      /\ Opens \/ Ends \/ Continues
      /\ handed' = <<[r |-> Come, id |-> Come.id, ctx |-> In]>>
      /\ UNCHANGED <<script, tables, handles, handled>>
  BY ReceiveEffect DEF Typed, PlaceOK, InOrder, Taken
<1>1. /\ Packets' = Packets /\ \A i : /\ Ids(i)' = Ids(i) /\ FirstOf(i)' = FirstOf(i)
                                      /\ LastOf(i)' = LastOf(i) /\ (IsChain(i)' <=> IsChain(i))
  BY <1>0, ScriptStays
<1>2. at[1] \in Packets /\ Come \in Requests /\ Come.id \in Ids(at[1]) /\ Come.id \in Nat
  BY <1>0, ComeFacts, ComePlace
<1>3. ~(Come.id <= handled)
  <2>1. at[2] \in DOMAIN script[at[1]] /\ at[1] \in Packets /\ ~Before(at[1], at[2])
    <3>1. at[2] \in DOMAIN script[at[1]] /\ at[1] \in Nat /\ at[2] \in Nat
      BY <1>0, ComeFacts, SMTT(20) DEF PlaceOK
    <3> QED BY <1>2, <3>1, SMTT(20) DEF Before
  <2> QED BY <1>0, <2>1 DEF InOrder, Come
<1>4. ASSUME NEW i \in Packets, IsChain(i), FirstOf(i).id <= handled
      PROVE  /\ ctx'[FirstOf(i).id].file = ctx[FirstOf(i).id].file
             /\ ctx'[FirstOf(i).id].lastStatus = ctx[FirstOf(i).id].lastStatus
  <2>1. PICK f \in DOMAIN ctx : f = FirstOf(i).id
    BY <1>0, <1>4 DEF Collected
  <2>2. f # Come.id /\ ctx[f] \in ContextType
    BY <1>0, <1>3, <1>4, <2>1 DEF ContextsOK
  <2>3. CASE Opens
    BY <2>1, <2>2, <2>3 DEF Opens, Put
  <2>4. CASE Ends
    <3>1. ctx' = [ctx EXCEPT ![current].lastMsg = Come.id]
      BY <2>4 DEF Ends
    <3>2. CASE f = current
      <4>1. ctx'[f] = [ctx[f] EXCEPT !.lastMsg = Come.id]
        BY <3>1, <3>2
      <4> QED BY <2>1, <2>2, <4>1, SMTT(20) DEF ContextType
    <3>3. CASE f # current
      BY <2>1, <3>1, <3>3
    <3> QED BY <3>2, <3>3
  <2>5. CASE Continues
    BY <2>1, <2>5 DEF Continues
  <2> QED BY <1>0, <2>3, <2>4, <2>5
<1>5. KeepsHandle' /\ HandleLeftOpen'
  BY <1>0, <1>4, QuietKeeps DEF CreatesUsesCloses, Between
<1>6. Fresh'
  <2> SUFFICES ASSUME NEW i \in Packets, IsChain(i), Come.id = FirstOf(i).id
               PROVE  ctx'[FirstOf(i).id].lastStatus = "ok"
    <3>1. handed'[1].id = Come.id
      BY <1>0, SMTT(20)
    <3> QED BY <1>1, <3>1 DEF Fresh
  <2>1. i = at[1]
    BY <1>0, <1>2, PacketEnds, OnePacket
  <2>2. Come = FirstOf(i)
    BY <1>0, <1>2, PacketEnds, OneRequest
  <2>3. ~Come.related /\ ~AtEnd
    BY <1>0, <2>1, <2>2, ComePlace, ReceiveContext
  <2>4. ctx' = Put(ctx, Come.id, Context)
    BY <1>0, <2>3 DEF Opens, Ends, Continues
  <2>5. ctx'[Come.id] = Context
    BY <2>4 DEF Put
  <2> QED BY <2>5, SMTT(20) DEF Context
<1> QED BY <1>5, <1>6

(* A completion only reaches the context of a chain that is spoilt.         *)
LEMMA CompleteKeeps ==
  ASSUME ChainsOnOneTree, Typed, InOrder, InContext, Collected, Fresh, KeepsHandle, HandleLeftOpen,
         NEW t \in timers, NotifyCompletes(t)
  PROVE  Fresh' /\ KeepsHandle' /\ HandleLeftOpen'
<1>0. /\ script \in Scripts /\ ContextsOK /\ handled \in Nat
      /\ t \in Timer /\ t.ctx \in DOMAIN ctx \cup {None}
      /\ UNCHANGED <<script, handed, tables, handles, handled>>
  BY CompleteEffect DEF Typed, PlaceOK, InOrder
<1>1. PICK r \in Requests : r.id = t.id /\ r.op = "notify" /\ t.id <= handled
  BY DEF InContext
<1>2. PICK p \in Packets : t.id \in Ids(p) /\ t.ctx = ContextOf(p)
  BY <1>0, <1>1, PacketOf DEF InContext
<1>3. \/ UNCHANGED ctx
      \/ /\ t.ctx # None /\ ctx'[t.ctx].lastStatus = "failed" /\ ctx'[t.ctx].file = ctx[t.ctx].file
         /\ \A d \in DOMAIN ctx \ {t.ctx} : ctx'[d] = ctx[d]
  <2>1. UNCHANGED ctx \/ Sends(t.ctx, t.id, "failed")
    BY DEF NotifyCompletes
  <2>2. ASSUME Sends(t.ctx, t.id, "failed")
        PROVE  Responds(t.ctx, t.id, "failed") /\ (t.ctx # None => ctx'[t.ctx].file = ctx[t.ctx].file)
    <3>1. t.id \in Nat /\ "failed" \in Status
      BY <1>0, SMTT(20) DEF Timer, Status
    <3> QED BY <1>0, <2>2, <3>1, SendsResponds
  <2> QED BY <2>1, <2>2 DEF Responds
<1>4. ASSUME NEW i \in Packets, IsChain(i), t.ctx = FirstOf(i).id, t.ctx # None
      PROVE  p = i /\ FirstOf(i).id <= t.id
  <2>1. FirstOf(i).id \in Ids(i) /\ FirstOf(p).id \in Ids(p)
    BY <1>0, PacketEnds
  <2>2. FirstOf(p).id = FirstOf(i).id
    BY <1>2, <1>4 DEF ContextOf
  <2>3. p = i
    BY <1>0, <2>1, <2>2, OnePacket
  <2> QED BY <1>0, <1>2, <2>3, PacketEnds
<1>5. Fresh'
  <2> SUFFICES ASSUME handed # <<>>, NEW i \in Packets, IsChain(i), handed[1].id = FirstOf(i).id
               PROVE  ctx'[FirstOf(i).id].lastStatus = "ok"
    BY <1>0, ScriptStays DEF Fresh
  <2>1. ctx[FirstOf(i).id].lastStatus = "ok"
    BY DEF Fresh
  <2>2. handled < handed[1].id /\ handed[1].id \in Nat /\ t.id \in Nat
    BY <1>0 DEF InOrder, Typed, WaitingOK, Offered, Timer
  <2>3. ~(FirstOf(i).id <= t.id)
    BY <1>0, <1>1, <2>2, SMTT(20)
  <2>4. FirstOf(i).id \in DOMAIN ctx
    <3>1. FirstOf(i).id <= Taken
      BY <2>2, SMTT(20) DEF Taken
    <3> QED BY <3>1 DEF Collected
  <2> QED BY <1>3, <1>4, <2>1, <2>3, <2>4
<1>6. ASSUME NEW i \in Packets, CreatesUsesCloses(i), Between(i)
      PROVE  /\ ctx'[FirstOf(i).id].file = ctx[FirstOf(i).id].file
             /\ ctx'[FirstOf(i).id].lastStatus = "ok" <=> ctx[FirstOf(i).id].lastStatus = "ok"
  <2>1. IsChain(i) /\ FirstOf(i).id <= handled
    BY <1>6 DEF CreatesUsesCloses, Between
  <2>2. FirstOf(i).id \in DOMAIN ctx
    <3>1. FirstOf(i).id \in Nat
      BY <1>0, PacketEnds
    <3>2. FirstOf(i).id <= Taken
      BY <1>0, <2>1, <3>1, SMTT(20) DEF Taken, InOrder, Typed, WaitingOK, Offered
    <3> QED BY <2>1, <3>2 DEF Collected
  <2>3. CASE t.ctx = FirstOf(i).id /\ t.ctx # None
    <3>1. r.id \in Ids(i)
      BY <1>1, <1>2, <1>4, <2>1, <2>3
    <3>2. r \in Middle(i)
      BY <1>0, <1>1, <1>6, <3>1, ChainShape
    <3>3. SpoiltSoFar(i)
      BY <1>1, <3>2 DEF SpoiltSoFar, Spoils
    <3>4. ctx[FirstOf(i).id].lastStatus # "ok"
      BY <1>6, <3>3 DEF KeepsHandle
    <3>5. "failed" # "ok"
      BY SMTT(20)
    <3> QED BY <1>3, <2>3, <3>4, <3>5
  <2>4. CASE t.ctx # FirstOf(i).id \/ t.ctx = None
    BY <1>3, <2>2, <2>4
  <2> QED BY <2>3, <2>4
<1>7. KeepsHandle' /\ HandleLeftOpen'
  BY <1>0, <1>6, QuietKeeps
<1> QED BY <1>5, <1>7

(* The request that is handled, when its id is of the range of a chain. *)
LEMMA InRange ==
  ASSUME Typed, InOrder, InContext, Collected, handed # <<>>, NEW i \in Packets, IsChain(i),
         FirstOf(i).id <= handed[1].id, handed[1].id <= LastOf(i).id
  PROVE  /\ handed[1].r \in Requests /\ handed[1].r.id = handed[1].id /\ handed[1].id \in Ids(i)
         /\ handed[1].ctx = FirstOf(i).id /\ FirstOf(i).id \in DOMAIN ctx
         /\ \/ handed[1].r = FirstOf(i) /\ handed[1].id = FirstOf(i).id
            \/ /\ FirstOf(i).id <= handled /\ handled < LastOf(i).id
               /\ handed[1].r = LastOf(i) /\ handed[1].id = LastOf(i).id
            \/ /\ FirstOf(i).id <= handled /\ handled < LastOf(i).id
               /\ handed[1].r \in Middle(i) /\ handed[1].id < LastOf(i).id
<1>0. script \in Scripts
  BY DEF Typed, PlaceOK
<1>1. PICK m : m = handed[1]
  OBVIOUS
<1>2. /\ m.r \in Requests /\ m.r.id = m.id /\ handled \in Nat /\ handled < m.id
      /\ \A r \in Requests : r.id <= m.id => r.id <= handled \/ r = m.r
  BY <1>1 DEF InOrder
<1>3. PICK k \in Packets : m.r.id \in Ids(k)
  BY <1>0, <1>2, PacketOf
<1>4. k = i
  BY <1>0, <1>1, <1>2, <1>3, IdsBetween
<1>5. m.id \in Ids(i) /\ m.ctx = FirstOf(i).id
  BY <1>1, <1>2, <1>3, <1>4 DEF InContext, ContextOf
<1>6. FirstOf(i).id \in DOMAIN ctx
  BY <1>1 DEF Collected, Taken
<1>7. /\ FirstOf(i) \in Requests /\ FirstOf(i).id \in Nat /\ LastOf(i).id \in Nat /\ m.id \in Nat
  BY <1>0, <1>5, PacketEnds
<1>8. /\ m.id = FirstOf(i).id => m.r = FirstOf(i)
      /\ m.id = LastOf(i).id => m.r = LastOf(i)
      /\ FirstOf(i).id < m.id /\ m.id < LastOf(i).id => m.r \in Middle(i)
  BY <1>0, <1>2, <1>5, InMiddle
<1>9. ASSUME m.id # FirstOf(i).id PROVE FirstOf(i).id <= handled /\ handled < LastOf(i).id
  <2>1. FirstOf(i).id <= handled
    BY <1>1, <1>2, <1>7, <1>9
  <2>2. m.id <= LastOf(i).id
    BY <1>1
  <2>3. handled \in Nat /\ handled < m.id
    BY <1>2
  <2> QED BY ONLY <1>7, <2>1, <2>2, <2>3, SMTT(20)
<1>10. m.id = FirstOf(i).id \/ m.id = LastOf(i).id \/ (FirstOf(i).id < m.id /\ m.id < LastOf(i).id)
  <2>1. FirstOf(i).id <= m.id /\ m.id <= LastOf(i).id
    BY <1>1
  <2> QED BY ONLY <1>7, <2>1, SMTT(20)
<1> QED BY <1>1, <1>2, <1>5, <1>6, <1>8, <1>9, <1>10

(* No request of such a chain ends the connection. *)
LEMMA EndsKeeps ==
  ASSUME ChainsOnOneTree, Typed, InOrder, InContext, Collected, EndsStep
  PROVE  Fresh' /\ KeepsHandle' /\ HandleLeftOpen'
<1>0. script \in Scripts
  BY DEF Typed, PlaceOK
<1>1. PICK m : m = handed[1] /\ handed # <<>> /\ handed' = <<>> /\ handled' = m.id
  BY DEF EndsStep, Takes
<1>2. script' = script /\ byId' = byId
  BY DEF EndsStep, tables
<1>3. m.r.op \in TreeOps /\ (m.r.tree \notin DOMAIN byId \/ byId[m.r.tree].path \in Pipes)
  BY <1>1 DEF EndsStep, NoTree, PipeFails, OnPipe, OnTree, IsPipe
<1>4. ASSUME NEW i \in Packets, CreatesUsesCloses(i), FirstOf(i).id <= m.id, m.id <= LastOf(i).id PROVE FALSE
  <2>1. IsChain(i)
    BY <1>4 DEF CreatesUsesCloses
  <2>2. m.r \in Requests /\ m.r.id \in Ids(i)
    BY <1>1, <1>4, <2>1, InRange
  <2> QED BY <1>0, <1>3, <1>4, <2>2, ChainShape
<1>5. \A i \in Packets : CreatesUsesCloses(i)' => CreatesUsesCloses(i)
  BY <1>2, ChainStays
<1>6. Packets' = Packets /\ \A i : FirstOf(i)' = FirstOf(i) /\ LastOf(i)' = LastOf(i)
  BY <1>2, ScriptStays
<1>7. \A i \in Packets : FirstOf(i).id <= LastOf(i).id /\ FirstOf(i).id \in Nat /\ LastOf(i).id \in Nat
  BY <1>0, PacketEnds
<1>8. m.id \in Nat
  BY <1>1 DEF Typed, WaitingOK, Offered
<1>9. \A i \in Packets : (m.id < LastOf(i).id => m.id <= LastOf(i).id) /\ LastOf(i).id <= LastOf(i).id
  BY <1>7, <1>8, SMTT(20)
<1>10. KeepsHandle'
  BY <1>1, <1>4, <1>5, <1>6, <1>9 DEF KeepsHandle, Between
<1>11. HandleLeftOpen'
  BY <1>1, <1>4, <1>5, <1>6, <1>7, <1>9 DEF HandleLeftOpen
<1>12. Fresh'
  BY <1>1 DEF Fresh
<1> QED BY <1>10, <1>11, <1>12

(* A chain whose first request is or was handled has its tree since then. *)
LEMMA TreeSinceFirst ==
  ASSUME Typed, InOrder, TablesInv, KnownTrees, ~Ended, HandlesStep, [Next]_vars, NEW i \in Packets,
         CreatesUsesCloses(i)', handed[1].r = FirstOf(i) \/ FirstOf(i).id <= handled
  PROVE  CreatesUsesCloses(i)
<1>0. script \in Scripts
  BY DEF Typed, PlaceOK
<1>1. PICK m : m = handed[1] /\ handed # <<>> /\ Handle(m)
  BY DEF HandlesStep
<1>2. script' = script
  BY <1>1, HandleEffect
<1>3. FirstOf(i).op = "create" /\ FirstOf(i).op \in TreeOps /\ FirstOf(i) \in Requests
  <2>1. FirstOf(i).op = "create"
    BY <1>2 DEF CreatesUsesCloses, FirstOf
  <2> QED BY <1>0, <2>1, PacketEnds DEF TreeOps
<1>4. CASE m.r = FirstOf(i)
  <2>1. byId' = byId
    BY <1>1, <1>3, <1>4, HandleTables DEF TreeConnect, TreeDisconnect, PipeWrite, PipeRead, tables
  <2> QED BY <1>2, <2>1, ChainStays
<1>5. CASE FirstOf(i).id <= handled
  <2>1. FirstOf(i).tree \in 1 .. nextTree - 1
    BY <1>3, <1>5 DEF KnownTrees
  <2> QED BY <1>2, <2>1, PathsStay, ChainStays
<1> QED BY <1>1, <1>4, <1>5

(* What is spoilt once one more request was handled. *)
LEMMA SpoiltNext ==
  ASSUME script \in Scripts, InOrder, handed # <<>>, handled' = handed[1].id, script' = script, NEW i \in Packets
  PROVE  /\ handed[1].id = FirstOf(i).id => ~SpoiltSoFar(i)'
         /\ handed[1].r \in Middle(i) => (SpoiltSoFar(i)' <=> SpoiltSoFar(i) \/ Spoils(handed[1].r))
         /\ handed[1].id = LastOf(i).id => (SpoiltSoFar(i) <=> \E r \in Middle(i) : Spoils(r))
<1>1. PICK m : m = handed[1]
  OBVIOUS
<1>2. /\ m.r \in Requests /\ m.r.id = m.id /\ handled \in Nat /\ handled < m.id
      /\ \A r \in Requests : r.id <= m.id => r.id <= handled \/ r = m.r
  BY <1>1 DEF InOrder
<1>3. ASSUME NEW r \in Middle(i)
      PROVE  /\ r \in Requests /\ r.id \in Ids(i) /\ r.id \in Nat
             /\ FirstOf(i).id < r.id /\ r.id < LastOf(i).id
  <2>1. PICK j \in 2 .. Len(script[i]) - 1 : r = script[i][j]
    BY DEF Middle
  <2>2. j \in DOMAIN script[i]
    BY <2>1, ScriptFacts, SMTT(20)
  <2>3. r \in Requests /\ r.id \in Ids(i)
    BY <2>1, <2>2, PlaceRequest DEF Ids
  <2> QED BY <2>3, InMiddle, PacketEnds
<1>4. m.id \in Nat /\ FirstOf(i).id \in Nat /\ LastOf(i).id \in Nat
  BY <1>2, PacketEnds, RequestPlace
<1>5. SpoiltSoFar(i)' <=> \E r \in Middle(i) : r.id <= m.id /\ Spoils(r)
  BY <1>1 DEF SpoiltSoFar, Middle, Spoils
<1>6. \A r \in Middle(i) : r.id <= handled => r.id <= m.id
  BY <1>2, <1>3, <1>4, SMTT(20)
<1>7. ASSUME m.id = FirstOf(i).id PROVE \A r \in Middle(i) : ~(r.id <= m.id)
  BY <1>3, <1>4, <1>7, SMTT(20)
<1>8. m.id <= m.id
  BY <1>4, SMTT(20)
<1>9. ASSUME m.id = LastOf(i).id PROVE \A r \in Middle(i) : r.id <= handled
  <2> SUFFICES ASSUME NEW r \in Middle(i) PROVE r.id <= handled
    OBVIOUS
  <2>1. r.id <= m.id /\ r.id # m.id
    BY <1>3, <1>4, <1>9, SMTT(20)
  <2> QED BY <1>2, <1>3, <2>1
<1>10. m.r \in Middle(i) => (SpoiltSoFar(i)' <=> SpoiltSoFar(i) \/ Spoils(m.r))
  BY <1>2, <1>3, <1>5, <1>6, <1>8 DEF SpoiltSoFar
<1> QED BY <1>1, <1>5, <1>7, <1>9, <1>10 DEF SpoiltSoFar

(* HandleLeftOpen' in terms of the requests between. *)
LEMMA LeftOpenForm ==
  ASSUME script' = script,
         \A i \in Packets : CreatesUsesCloses(i)' /\ handled' = LastOf(i).id =>
             (FirstOf(i).id \in handles' <=> \E r \in Middle(i) : Spoils(r))
  PROVE  HandleLeftOpen'
<1>1. Packets' = Packets /\ \A i : LastOf(i)' = LastOf(i)
  BY ScriptStays
<1>2. ASSUME NEW i
      PROVE  (\E r \in Middle(i) : Spoils(r)) <=>
                 \E j \in 2 .. Len(script[i]) - 1 :
                    \/ script[i][j].op = "use" /\ ~script[i][j].ok
                    \/ script[i][j].op = "notify"
  BY DEF Middle, Spoils
<1> QED BY <1>1, <1>2 DEF HandleLeftOpen, FirstOf

(* The handlers keep the handle until the chain ends. *)
LEMMA HandleKeeps ==
  ASSUME ChainsOnOneTree, Typed, InOrder, InContext, Collected, TablesInv, KnownTrees, Fresh, KeepsHandle,
         ~Ended, HandlesStep, [Next]_vars
  PROVE  Fresh' /\ KeepsHandle' /\ HandleLeftOpen'
<1>0. script \in Scripts /\ ContextsOK
  BY DEF Typed, PlaceOK
<1>1. PICK m : m = handed[1] /\ handed # <<>> /\ Handle(m)
  BY DEF HandlesStep
<1>2. /\ m \in Offered /\ script' = script /\ handed' = <<>> /\ handled' = m.id /\ m.id \in Nat
  BY <1>1, HandleEffect DEF Takes, Offered
<1>3. Packets' = Packets /\ \A i : FirstOf(i)' = FirstOf(i) /\ LastOf(i)' = LastOf(i)
  BY <1>2, ScriptStays
<1>4. ASSUME NEW i \in Packets, CreatesUsesCloses(i)', FirstOf(i).id <= m.id, m.id <= LastOf(i).id
      PROVE  \/ /\ m.id < LastOf(i).id /\ ctx'[FirstOf(i).id].file = FirstOf(i).id /\ FirstOf(i).id \in handles'
                /\ ctx'[FirstOf(i).id].lastStatus = "ok" <=> ~SpoiltSoFar(i)'
             \/ /\ m.id = LastOf(i).id
                /\ FirstOf(i).id \in handles' <=> \E r \in Middle(i) : Spoils(r)
  <2>1. IsChain(i)
    BY <1>2, <1>4 DEF CreatesUsesCloses, IsChain
  <2>2. PICK f \in DOMAIN ctx : f = FirstOf(i).id
    BY <1>1, <1>4, <2>1, InRange
  <2>3. m.r \in Requests /\ m.r.id \in Ids(i) /\ m.ctx = f
    BY <1>1, <1>4, <2>1, <2>2, InRange
  <2>4. CASE m.r = FirstOf(i) /\ m.id = f
    <3>1. CreatesUsesCloses(i)
      BY <1>1, <1>4, <2>4, TreeSinceFirst
    <3>2. m.r.op = "create" /\ m.r.ok /\ byId[m.r.tree].path \notin Pipes
      BY <1>0, <2>3, <2>4, <3>1, ChainShape DEF TreeOps
    <3>3. ctx[f].lastStatus = "ok"
      BY <1>1, <2>1, <2>2, <2>4 DEF Fresh
    <3>4. f \in handles' /\ ctx'[f].file = f /\ ctx'[f].lastStatus = "ok"
      BY <1>0, <1>1, <1>2, <2>3, <2>4, <3>2, <3>3, FirstHandled
    <3>5. ~SpoiltSoFar(i)' /\ m.id < LastOf(i).id
      BY <1>0, <1>1, <1>2, <2>1, <2>2, <2>4, SpoiltNext, PacketEnds
    <3> QED BY <2>2, <3>4, <3>5
  <2>5. CASE /\ FirstOf(i).id <= handled /\ handled < LastOf(i).id
             /\ m.r \in Middle(i) \/ (m.r = LastOf(i) /\ m.id = LastOf(i).id)
    <3>1. CreatesUsesCloses(i)
      BY <1>1, <1>4, <2>5, TreeSinceFirst
    <3>2. /\ ctx[f].file = f /\ f \in handles
          /\ ctx[f].lastStatus = "ok" <=> ~SpoiltSoFar(i)
      BY <2>2, <2>5, <3>1 DEF KeepsHandle, Between
    <3>3. /\ m.r.op \in TreeOps => byId[m.r.tree].path \notin Pipes
          /\ m.r = LastOf(i) => m.r.op = "close"
          /\ m.r \in Middle(i) => m.r.op \notin {"create", "close"}
      BY <1>0, <2>3, <3>1, ChainShape
    <3>4. CASE m.r \in Middle(i)
      <4>1. /\ handles' = handles /\ ctx'[f].file = f
            /\ ctx'[f].lastStatus = "ok" <=> ctx[f].lastStatus = "ok" /\ ~Spoils(m.r)
        BY <1>0, <1>1, <1>2, <2>3, <3>2, <3>3, <3>4, MiddleHandled
      <4>2. SpoiltSoFar(i)' <=> SpoiltSoFar(i) \/ Spoils(m.r)
        BY <1>0, <1>1, <1>2, <3>4, SpoiltNext
      <4>3. m.id < LastOf(i).id
        <5>1. m.r.id = m.id
          BY <1>1 DEF InOrder
        <5> QED BY <1>0, <2>3, <3>4, <5>1, InMiddle
      <4> QED BY <2>2, <3>2, <4>1, <4>2, <4>3
    <3>5. CASE m.r = LastOf(i) /\ m.id = LastOf(i).id
      <4>1. m.r.op = "close" /\ byId[m.r.tree].path \notin Pipes
        BY <3>3, <3>5 DEF TreeOps
      <4>2. f \in handles' <=> ctx[f].lastStatus # "ok"
        BY <1>0, <1>1, <2>3, <3>2, <4>1, LastHandled
      <4>3. SpoiltSoFar(i) <=> \E r \in Middle(i) : Spoils(r)
        BY <1>0, <1>1, <1>2, <3>5, SpoiltNext
      <4> QED BY <2>2, <3>2, <3>5, <4>2, <4>3
    <3> QED BY <2>5, <3>4, <3>5
  <2> QED BY <1>1, <1>4, <2>1, <2>2, <2>4, <2>5, InRange
<1>5. \A i \in Packets : FirstOf(i).id \in Nat /\ LastOf(i).id \in Nat /\ FirstOf(i).id <= LastOf(i).id
  BY <1>0, PacketEnds
<1>6. \A i \in Packets : /\ m.id < LastOf(i).id => m.id <= LastOf(i).id /\ m.id # LastOf(i).id
                         /\ m.id = LastOf(i).id => m.id <= LastOf(i).id /\ ~(m.id < LastOf(i).id)
  BY <1>2, <1>5, SMTT(20)
<1>7. KeepsHandle'
  BY <1>2, <1>3, <1>4, <1>6 DEF KeepsHandle, Between
<1>8. HandleLeftOpen'
  <2> SUFFICES ASSUME NEW i \in Packets, CreatesUsesCloses(i)', m.id = LastOf(i).id
               PROVE  FirstOf(i).id \in handles' <=> \E r \in Middle(i) : Spoils(r)
    BY <1>2, <1>3, LeftOpenForm
  <2> QED BY <1>4, <1>5, <1>6
<1>9. Fresh'
  BY <1>2 DEF Fresh
<1> QED BY <1>7, <1>8, <1>9

HandleInv == KnownTrees /\ Fresh /\ KeepsHandle /\ HandleLeftOpen

(* Nothing is handled yet. *)
LEMMA HandleInit ==
  ASSUME Init, Typed
  PROVE  HandleInv
<1>1. script \in Scripts /\ handled = 0 /\ handed = <<>>
  BY DEF Init, DispatchInit, Typed, PlaceOK
<1>2. \A r \in Requests : ~(r.id <= handled)
  BY <1>1, RequestPlace, SMTT(20)
<1>3. \A i \in Packets : ~(FirstOf(i).id <= handled) /\ LastOf(i).id # handled
  BY <1>1, PacketEnds, SMTT(20)
<1> QED BY <1>1, <1>2, <1>3 DEF HandleInv, KnownTrees, Fresh, KeepsHandle, Between, HandleLeftOpen

(* Every step keeps what is known of the handles of chains. *)
LEMMA HandleInvNext ==
  ASSUME ChainsRelated, ChainsOnOneTree, ShutdownInv, Typed, InOrder, TablesInv, InContext, Collected,
         HandleInv, [Next]_vars
  PROVE  HandleInv'
<1>0. KnownTrees /\ Fresh /\ KeepsHandle /\ HandleLeftOpen /\ KnownTrees'
  BY KnownNext DEF HandleInv
<1>1. CASE UNCHANGED dispatchVars
  <2>1. UNCHANGED <<script, tables, handles, handled>> /\ UNCHANGED <<ctx, handed>>
    BY <1>1 DEF dispatchVars, tables
  <2>2. KeepsHandle' /\ HandleLeftOpen'
    BY <1>0, <2>1, QuietKeeps
  <2>3. Fresh'
    BY <1>0, <2>1, ScriptStays DEF Fresh
  <2> QED BY <1>0, <2>2, <2>3 DEF HandleInv
<1>2. CASE Receive
  BY <1>0, <1>2, ReceiveKeeps DEF HandleInv
<1>3. CASE CompletesStep
  BY <1>0, <1>3, CompleteKeeps DEF HandleInv, CompletesStep
<1>4. CASE EndsStep
  BY <1>0, <1>4, EndsKeeps DEF HandleInv
<1>5. CASE Serves /\ HandlesStep
  <2>1. ~Ended
    BY <1>5 DEF Serves, Ended
  <2> QED BY <1>0, <1>5, <2>1, HandleKeeps DEF HandleInv
<1> QED BY <1>1, <1>2, <1>3, <1>4, <1>5, StepKinds

(* conn.Run (server.go:397): in every sequence of packets with related      *)
(* chains, each on one tree, a chain that creates, uses and closes a file   *)
(* leaves its handle open exactly when a request between failed or was a    *)
(* CHANGE_NOTIFY.                                                           *)
THEOREM SpoiltChainsLeakHandles ==
  ASSUME ChainsRelated, ChainsOnOneTree
  PROVE  Spec => []HandleLeftOpen
<1> DEFINE Inv == ShutdownInv /\ Typed /\ InOrder /\ TablesInv /\ InContext /\ Collected /\ HandleInv
<1>1. Init => Inv
  BY InitShutdownInv, TypedInit, InOrderInit, TablesInit, ContextsInit, HandleInit
<1>2. Inv /\ [Next]_vars => Inv'
  <2> SUFFICES ASSUME Inv, [Next]_vars PROVE Inv'
    OBVIOUS
  <2>1. ShutdownInv' /\ Typed' /\ InOrder' /\ TablesInv' /\ InContext'
    BY ShutdownInvNext, TypedNext, InOrderNext, TablesNext, InContextNext
  <2>2. Collected'
    BY CollectedNext
  <2>3. HandleInv'
    BY HandleInvNext
  <2> QED BY <2>1, <2>2, <2>3
<1>3. Inv => HandleLeftOpen
  BY DEF HandleInv
<1> QED BY <1>1, <1>2, <1>3, PTL DEF Spec

============================================================================
