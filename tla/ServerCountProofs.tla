-------------------------- MODULE ServerCountProofs -------------------------
(* The proofs that count: the references of trees and the answers of        *)
(* requests.                                                                *)
EXTENDS ServerProofs, FiniteSetTheorems

USE ZenonT(30)

-----------------------------------------------------------------------------
(* The counts of trees. *)

(* The count of the tree i: what was granted and not disconnected. *)
Refs(i) == Cardinality(Grants(i)) - Cardinality(Disconnects(i))
CountAgrees(i) ==
    /\ i \in DOMAIN byId => byId[i].refCount = Refs(i) /\ Refs(i) > 0
    /\ i \notin DOMAIN byId => Refs(i) <= 0

CountsInv == TablesInv /\ \A i \in 1 .. nextTree - 1 : CountAgrees(i)

(* The grants and disconnects of a tree, and their numbers. *)
LEMMA FiniteCounts ==
  ASSUME TablesOK, handled \in Nat, NEW i
  PROVE  /\ IsFiniteSet(Grants(i)) /\ Grants(i) \subseteq 1 .. handled
         /\ IsFiniteSet(Disconnects(i)) /\ Disconnects(i) \subseteq 1 .. handled
         /\ Cardinality(Grants(i)) \in Nat /\ Cardinality(Disconnects(i)) \in Nat
         /\ Grants(i) = {} => Cardinality(Grants(i)) = 0
         /\ Refs(i) \in Int
<1>1. IsFiniteSet(1 .. handled)
  BY FS_Interval, SMTT(20)
<1>2. Grants(i) \subseteq 1 .. handled /\ Disconnects(i) \subseteq 1 .. handled
  BY DEF Grants, Disconnects, Handled, TablesOK
<1>3. IsFiniteSet(Grants(i)) /\ IsFiniteSet(Disconnects(i))
  BY <1>1, <1>2, FS_Subset, SMTT(20)
<1>4. Cardinality(Grants(i)) \in Nat /\ Cardinality(Disconnects(i)) \in Nat
  BY <1>3, FS_CardinalityType, SMTT(20)
<1>5. Refs(i) \in Int
  BY <1>4, SMTT(20) DEF Refs
<1> QED BY <1>2, <1>3, <1>4, <1>5, FS_EmptySet, SMTT(20)

(* A grant is counted: it is later than all that was disconnected. *)
LEMMA OneGrant ==
  ASSUME TablesOK, handled \in Nat, NEW id, TakesDisconnects(id, {}), NEW t, granted' = Put(granted, id, t), NEW i
  PROVE  /\ i # t => Refs(i)' = Refs(i)
         /\ i = t => Refs(i)' = Refs(i) + 1
         /\ Grants(i) = {} => Refs(i) = 0
         /\ Refs(i) \in Int
<1>1. /\ IsFiniteSet(Grants(i)) /\ Grants(i) \subseteq 1 .. handled
      /\ Cardinality(Grants(i)) \in Nat /\ Cardinality(Disconnects(i)) \in Nat
      /\ Grants(i) = {} => Cardinality(Grants(i)) = 0
      /\ Refs(i) \in Int
  BY FiniteCounts, SMTT(20)
<1>2. /\ id \in Nat /\ handled < id /\ Handled("disconnect", i) \subseteq 1 .. handled
      /\ Handled("disconnect", i)' = Handled("disconnect", i)
  BY DEF TakesDisconnects
<1>3. id \notin 1 .. handled
  BY <1>2, SMTT(20)
<1>4. Grants(i)' = IF i = t THEN Grants(i) \cup {id} ELSE Grants(i)
  <2>1. id \notin DOMAIN granted
    BY <1>3 DEF TablesOK
  <2> QED BY <2>1, SMTT(20) DEF Grants, Put
<1>5. Disconnects(i)' = Disconnects(i)
  <2>1. \A n \in Handled("disconnect", i) : ~(id < n)
    BY <1>2, SMTT(20)
  <2> QED BY <1>2, <1>4, <2>1, SMTT(20) DEF Disconnects
<1>6. ASSUME i = t PROVE Refs(i)' = Refs(i) + 1
  <2>1. id \notin Grants(i) /\ Grants(i)' = Grants(i) \cup {id}
    BY <1>1, <1>3, <1>4, <1>6
  <2>2. Cardinality(Grants(i)') = Cardinality(Grants(i)) + 1
    BY <1>1, <2>1, FS_AddElement, SMTT(20)
  <2> QED BY <1>1, <1>5, <2>2, SMTT(20) DEF Refs
<1>7. ASSUME i # t PROVE Refs(i)' = Refs(i)
  BY <1>4, <1>5, <1>7 DEF Refs
<1>8. ASSUME Grants(i) = {} PROVE Refs(i) = 0
  <2>1. Disconnects(i) = {}
    BY <1>8, SMTT(20) DEF Disconnects
  <2> QED BY <1>8, <2>1, FS_EmptySet, SMTT(20) DEF Refs
<1> QED BY <1>1, <1>6, <1>7, <1>8

(* A disconnect is counted when the tree was granted. *)
LEMMA OneDisconnect ==
  ASSUME TablesOK, handled \in Nat, NEW id, NEW t, TakesDisconnects(id, {t}), granted' = granted, NEW i
  PROVE  /\ i # t => Refs(i)' = Refs(i)
         /\ Grants(i) = {} => Refs(i)' <= 0
         /\ i = t /\ Grants(i) # {} => Refs(i)' = Refs(i) - 1
         /\ Refs(i) \in Int /\ (Refs(i) > 0 => Grants(i) # {})
<1>1. /\ Grants(i) \subseteq 1 .. handled
      /\ IsFiniteSet(Disconnects(i)) /\ Disconnects(i) \subseteq 1 .. handled
      /\ Cardinality(Grants(i)) \in Nat /\ Cardinality(Disconnects(i)) \in Nat
      /\ Grants(i) = {} => Cardinality(Grants(i)) = 0
      /\ Refs(i) \in Int
  BY FiniteCounts, SMTT(20)
<1>2. Grants(i)' = Grants(i)
  BY DEF Grants
<1>3. /\ id \in Nat /\ handled < id
      /\ Handled("disconnect", i)' = Handled("disconnect", i) \cup {n \in {id} : i \in {t}}
  BY DEF TakesDisconnects
<1>4. Refs(i) > 0 => Grants(i) # {}
  BY <1>1, SMTT(20) DEF Refs
<1>5. ASSUME Grants(i) = {} PROVE Refs(i)' <= 0
  <2>1. Grants(i)' = {} /\ Disconnects(i)' = {}
    BY <1>2, <1>5, SMTT(20) DEF Disconnects
  <2>2. Refs(i)' = 0
    BY <2>1, FS_EmptySet, SMTT(20) DEF Refs
  <2> QED BY <2>2, SMTT(20)
<1>6. ASSUME i # t PROVE Refs(i)' = Refs(i)
  <2>1. Disconnects(i)' = Disconnects(i)
    BY <1>2, <1>3, <1>6, SMTT(20) DEF Disconnects
  <2> QED BY <1>2, <2>1 DEF Refs
<1>7. ASSUME i = t, Grants(i) # {} PROVE Refs(i)' = Refs(i) - 1
  <2>1. (\E g \in Grants(i) : g < id) /\ id \notin 1 .. handled
    BY <1>1, <1>3, <1>7, SMTT(20)
  <2>2. Disconnects(i)' = Disconnects(i) \cup {id} /\ id \notin Disconnects(i)
    BY <1>1, <1>2, <1>3, <1>7, <2>1, SMTT(20) DEF Disconnects
  <2>3. Cardinality(Disconnects(i)') = Cardinality(Disconnects(i)) + 1
    BY <1>1, <2>2, FS_AddElement, SMTT(20)
  <2> QED BY <1>1, <1>2, <2>3, SMTT(20) DEF Refs
<1> QED BY <1>1, <1>4, <1>5, <1>6, <1>7

(* Every step keeps the tables and the counts. *)
LEMMA CountsNext ==
  ASSUME Typed, InOrder, CountsInv, [Next]_vars
  PROVE  CountsInv'
<1>0. /\ TablesInv /\ TablesOK /\ handled \in Nat /\ nextTree \in Nat \ {0}
      /\ DOMAIN byId \subseteq 1 .. nextTree - 1
      /\ \A i \in 1 .. nextTree - 1 : CountAgrees(i)
  BY DEF CountsInv, TablesInv, TablesOK, InOrder
<1>1. TablesInv'
  BY <1>0, TablesNext, SMTT(20)
<1> SUFFICES \A i \in 1 .. nextTree' - 1 : CountAgrees(i)'
  BY <1>1 DEF CountsInv
<1>2. CASE KeepsTrees
  <2> SUFFICES ASSUME NEW i \in 1 .. nextTree' - 1 PROVE CountAgrees(i)'
    OBVIOUS
  <2>1. nextTree' = nextTree /\ Grants(i)' = Grants(i) /\ Disconnects(i)' = Disconnects(i)
    BY <1>2 DEF KeepsTrees, SameTrees, Grants, Disconnects
  <2>2. Refs(i)' = Refs(i) /\ CountAgrees(i)
    BY <1>0, <2>1 DEF Refs
  <2> QED BY <1>2, <2>2 DEF KeepsTrees, SameTrees, CountAgrees
<1>3. ASSUME NEW id, NEW t, TakesDisconnects(id, {}), ConnectsAgain(id, t), NEW i \in 1 .. nextTree' - 1
      PROVE  CountAgrees(i)'
  <2>1. nextTree' = nextTree /\ granted' = Put(granted, id, t) /\ t \in DOMAIN byId
    BY <1>3 DEF ConnectsAgain
  <2>2. id \in Nat /\ handled < id /\ handled' = id
    BY <1>3 DEF TakesDisconnects
  <2>3. /\ DOMAIN byId' = DOMAIN byId /\ byId'[t].refCount = byId[t].refCount + 1
        /\ \A k \in DOMAIN byId \ {t} : byId'[k] = byId[k]
    BY <1>0, <1>3, <2>2, AgainTables, SMTT(20)
  <2>4. CountAgrees(i)
    BY <1>0, <1>3, <2>1
  <2>5. CASE i = t
    <3>1. Refs(i)' = Refs(i) + 1 /\ Refs(i) \in Int
      BY <1>0, <1>3, <2>1, <2>5, OneGrant
    <3>2. PICK r \in Int : r = Refs(i)
      BY <3>1
    <3>3. i \in DOMAIN byId' /\ byId[i].refCount = r /\ r > 0 /\ byId'[i].refCount = r + 1 /\ Refs(i)' = r + 1
      BY <2>1, <2>3, <2>4, <2>5, <3>1, <3>2 DEF CountAgrees
    <3>4. r + 1 > 0
      BY <3>2, <3>3, SMTT(20)
    <3> QED BY <3>3, <3>4 DEF CountAgrees
  <2>6. CASE i # t
    <3>1. Refs(i)' = Refs(i)
      BY <1>0, <1>3, <2>1, <2>6, OneGrant
    <3> QED BY <2>3, <2>4, <2>6, <3>1 DEF CountAgrees
  <2> QED BY <2>5, <2>6
<1>4. ASSUME NEW id, NEW s, TakesDisconnects(id, {}), ConnectsNew(id, s), NEW i \in 1 .. nextTree' - 1
      PROVE  CountAgrees(i)'
  <2>1. nextTree' = nextTree + 1 /\ granted' = Put(granted, id, nextTree)
    BY <1>4 DEF ConnectsNew
  <2>2. id \in Nat /\ handled < id /\ handled' = id
    BY <1>4 DEF TakesDisconnects
  <2>3. /\ DOMAIN byId' = DOMAIN byId \cup {nextTree} /\ byId'[nextTree].refCount = 1
        /\ \A k \in DOMAIN byId : byId'[k] = byId[k]
    BY <1>0, <1>4, <2>2, NewTables, SMTT(20)
  <2>4. i = nextTree \/ i \in 1 .. nextTree - 1
    BY <1>0, <1>4, <2>1, SMTT(20)
  <2>5. nextTree \notin 1 .. nextTree - 1
    BY <1>0, SMTT(20)
  <2>6. CASE i = nextTree
    <3>1. Grants(i) = {}
      BY <1>0, <2>5, <2>6 DEF Grants, TablesOK
    <3>2. Refs(i) = 0 /\ Refs(i)' = Refs(i) + 1
      BY <1>0, <1>4, <2>1, <2>6, <3>1, OneGrant
    <3>3. Refs(i)' = 1
      BY <3>2, SMTT(20)
    <3>4. i \in DOMAIN byId' /\ byId'[i].refCount = 1
      BY <2>3, <2>6
    <3> QED BY <3>3, <3>4, SMTT(20) DEF CountAgrees
  <2>7. CASE i # nextTree
    <3>1. Refs(i)' = Refs(i) /\ CountAgrees(i)
      BY <1>0, <1>4, <2>1, <2>4, <2>7, OneGrant
    <3> QED BY <2>3, <2>7, <3>1 DEF CountAgrees
  <2> QED BY <2>6, <2>7
<1>5. ASSUME NEW id, NEW t, TakesDisconnects(id, {t}), Disconnected(t), NEW i \in 1 .. nextTree' - 1
      PROVE  CountAgrees(i)'
  <2>1. UNCHANGED <<granted, nextTree>>
    BY <1>5 DEF Disconnected
  <2>2. id \in Nat /\ handled < id /\ handled' = id
    BY <1>5 DEF TakesDisconnects
  <2>3. /\ \A k \in DOMAIN byId \ {t} : k \in DOMAIN byId' /\ byId'[k] = byId[k]
        /\ DOMAIN byId' \subseteq DOMAIN byId
        /\ t \in DOMAIN byId => /\ byId[t].refCount \in Nat \ {0}
                                /\ t \in DOMAIN byId' <=> byId[t].refCount # 1
                                /\ t \in DOMAIN byId' => byId'[t].refCount = byId[t].refCount - 1
    BY <1>0, <1>5, <2>2, DisconnectTables, SMTT(20)
  <2>4. CountAgrees(i)
    BY <1>0, <1>5, <2>1
  <2>5. /\ i # t => Refs(i)' = Refs(i)
        /\ Grants(i) = {} => Refs(i)' <= 0
        /\ i = t /\ Grants(i) # {} => Refs(i)' = Refs(i) - 1
        /\ Refs(i) \in Int /\ (Refs(i) > 0 => Grants(i) # {})
    BY <1>0, <1>5, <2>1, OneDisconnect
  <2>6. PICK r \in Int : r = Refs(i)
    BY <2>5
  <2>7. CASE i # t
    BY <2>3, <2>4, <2>5, <2>7 DEF CountAgrees
  <2>8. CASE i = t /\ t \notin DOMAIN byId
    <3>1. r <= 0 /\ i \notin DOMAIN byId'
      BY <2>3, <2>4, <2>6, <2>8 DEF CountAgrees
    <3>2. Refs(i)' <= 0
      <4>1. CASE Grants(i) = {}
        BY <2>5, <4>1
      <4>2. CASE Grants(i) # {}
        <5>1. Refs(i)' = r - 1
          BY <2>5, <2>6, <2>8, <4>2
        <5> QED BY <2>6, <3>1, <5>1, SMTT(20)
      <4> QED BY <4>1, <4>2
    <3> QED BY <3>1, <3>2 DEF CountAgrees
  <2>9. CASE i = t /\ t \in DOMAIN byId
    <3>1. /\ byId[i].refCount = r /\ r > 0 /\ Refs(i)' = r - 1 /\ r \in Nat \ {0}
          /\ i \in DOMAIN byId' <=> r # 1
          /\ i \in DOMAIN byId' => byId'[i].refCount = r - 1
      BY <2>3, <2>4, <2>5, <2>6, <2>9 DEF CountAgrees
    <3>2. (r # 1 => r - 1 > 0) /\ (r = 1 => r - 1 <= 0)
      BY <3>1, SMTT(20)
    <3> QED BY <3>1, <3>2 DEF CountAgrees
  <2> QED BY <2>7, <2>8, <2>9
<1> QED BY <1>0, <1>2, <1>3, <1>4, <1>5, TreeSteps DEF TreesChange

(* treeConnect and treeDisconnect: the tables name the same trees, and the  *)
(* count of a tree is the number of grants that were not disconnected       *)
(* (TreesAgree), whatever the client connects and disconnects.              *)
THEOREM TreesStayCounted == Spec => []TreesAgree
<1>1. Init => Typed /\ InOrder /\ CountsInv
  <2> SUFFICES ASSUME Init PROVE CountsInv
    BY TypedInit, InOrderInit
  <2>1. nextTree = 1 /\ TablesInv
    BY TablesInit DEF Init, DispatchInit
  <2>2. 1 .. nextTree - 1 = {}
    BY <2>1, SMTT(20)
  <2> QED BY <2>1, <2>2 DEF CountsInv
<1>2. Typed /\ InOrder /\ CountsInv /\ [Next]_vars => (Typed /\ InOrder /\ CountsInv)'
  BY TypedNext, InOrderNext, CountsNext
<1>3. Typed /\ InOrder /\ CountsInv => TreesAgree
  <2> SUFFICES ASSUME InOrder, CountsInv PROVE TreesAgree
    OBVIOUS
  <2>1. ASSUME NEW i \in 1 .. nextTree - 1
        PROVE  /\ i \in DOMAIN byId <=> Refs(i) > 0
               /\ i \in DOMAIN byId => byId[i].refCount = Refs(i)
    <3>1. CountAgrees(i) /\ TablesOK /\ handled \in Nat
      BY DEF CountsInv, TablesInv, InOrder
    <3>2. Refs(i) \in Int
      BY <3>1, FiniteCounts
    <3> QED BY <3>1, <3>2, SMTT(20) DEF CountAgrees
  <2> QED BY <2>1, SMTT(20) DEF CountsInv, TablesInv, NamesAgree, TreesAgree, Refs
<1> QED BY <1>1, <1>2, <1>3, PTL DEF Spec

-----------------------------------------------------------------------------
(* What is sent, and how often a request is answered. *)

(* What is sent is the response of one request, or all those of a chain. *)
LastId(s) == s[Len(s)].id
Lone(i, s) == Len(s) = 1 /\ LastId(s) \in Ids(i) /\ (IsChain(i) => LastId(s) \notin IdsOf(i, TreeOps))
Whole(i, s) ==
    /\ IsChain(i) /\ LastOf(i).op \in TreeOps /\ LastOf(i).related /\ LastId(s) = LastOf(i).id
    /\ \A a \in DOMAIN s : s[a].id \in IdsOf(i, TreeOps)
    /\ \A n \in IdsOf(i, TreeOps \ {"silent"}) : \E a \in DOMAIN s : s[a].id = n
Sound(s) == s \in Seq(Response) /\ s # <<>> /\ \E i \in Packets : Lone(i, s) \/ Whole(i, s)

SentSound == sent \in Seq(Seq(Response)) /\ \A k \in DOMAIN sent : Sound(sent[k])

(* The packets that a request made the server send: one when it is handled  *)
(* and, for a CHANGE_NOTIFY, one when it completes.                         *)
SentFor(n) == {k \in DOMAIN sent : LastId(sent[k]) = n}
Allowed(n) ==
    IF n > handled THEN 0
    ELSE IF \A r \in Requests : r.id = n => r.op # "notify" THEN 1
    ELSE IF \E t \in timers : t.id = n THEN 1 ELSE 2
SentOnce == \A n \in Nat : IsFiniteSet(SentFor(n)) /\ Cardinality(SentFor(n)) <= Allowed(n)

(* An answer is sent by itself, or with all those of its chain. *)
LEMMA AnswerSound ==
  ASSUME Typed, Collected, Collected', SentSound, NEW p \in Packets, NEW n \in Ids(p), AnswerTo(p, n),
         n <= handled', handled' \in Nat, FirstOf(p).id <= Taken, script' = script, Taken' = Taken, ~Ended'
  PROVE  sent' = sent \/ \E s : sent' = Append(sent, s) /\ Sound(s) /\ LastId(s) = n
<1>0. script \in Scripts /\ ContextsOK /\ n \in Nat \ {0}
  BY PacketEnds DEF Typed, PlaceOK
<1>1. ASSUME NEW status \in Status, IsChain(p) => n \notin IdsOf(p, TreeOps), Responds(None, n, status)
      PROVE  \E s : sent' = Append(sent, s) /\ Sound(s) /\ LastId(s) = n
  <2>1. PICK s : s = <<[id |-> n, status |-> status]>>
    OBVIOUS
  <2>2. sent' = Append(sent, s)
    BY <1>1, <2>1 DEF Responds
  <2>3. s \in Seq(Response) /\ Len(s) = 1 /\ s # <<>> /\ s[1].id = n
    <3>1. [id |-> n, status |-> status] \in Response
      BY <1>0, <1>1 DEF Response
    <3> QED BY <2>1, <3>1, SMTT(20)
  <2>4. LastId(s) = n
    BY <2>3 DEF LastId
  <2>5. Lone(p, s)
    BY <1>1, <2>3, <2>4 DEF Lone
  <2> QED BY <2>2, <2>3, <2>4, <2>5 DEF Sound
<1>2. ASSUME NEW status \in Status, IsChain(p), n \in IdsOf(p, TreeOps), Responds(FirstOf(p).id, n, status)
      PROVE  sent' = sent \/ \E s : sent' = Append(sent, s) /\ Sound(s) /\ LastId(s) = n
  <2>1. PICK c : c = FirstOf(p).id
    OBVIOUS
  <2>2. c \in Nat \ {0} /\ c \in DOMAIN ctx /\ Collects(p, ctx[c])
    BY <1>0, <1>2, <2>1, PacketEnds DEF Collected
  <2>3. /\ ctx'[c].rsp = Append(ctx[c].rsp, [id |-> n, status |-> status])
        /\ sent' = IF n = ctx[c].lastMsg THEN Append(sent, ctx'[c].rsp) ELSE sent
    BY <1>2, <2>1, <2>2 DEF Responds, None
  <2>4. CASE n = ctx[c].lastMsg
    <3>1. n = LastOf(p).id /\ LastOf(p).related
      BY <1>0, <2>2, <2>4 DEF Collects, None
    <3>2. PICK s : s = ctx'[c].rsp
      OBVIOUS
    <3>3. s \in Seq(Response) /\ s # <<>> /\ s[Len(s)].id = n
      <4>1. ctx[c].rsp \in Seq(Response)
        BY <1>0, <2>2 DEF ContextsOK, ContextType
      <4>2. [id |-> n, status |-> status] \in Response
        BY <1>0, <1>2 DEF Response
      <4>3. PICK rsp, x : rsp = ctx[c].rsp /\ x = [id |-> n, status |-> status]
        OBVIOUS
      <4>4. rsp \in Seq(Response) /\ x \in Response /\ s = Append(rsp, x) /\ x.id = n
        BY <2>3, <3>2, <4>1, <4>2, <4>3
      <4>5. s \in Seq(Response) /\ s # <<>> /\ s[Len(s)] = x
        BY ONLY <4>4, SMTT(20)
      <4> QED BY <4>4, <4>5
    <3>4. /\ FirstOf(p)' = FirstOf(p) /\ (IsChain(p)' <=> IsChain(p)) /\ Packets' = Packets
          /\ \A ops : IdsOf(p, ops)' = IdsOf(p, ops)
      BY ScriptStays
    <3>5. Collects(p, ctx[FirstOf(p).id])' /\ ctx'[FirstOf(p)'.id] = ctx'[c]
      BY <1>2, <2>1, <3>4 DEF Collected
    <3>6. /\ \A a \in DOMAIN s : s[a].id \in IdsOf(p, TreeOps)
          /\ \A k \in IdsOf(p, TreeOps \ {"silent"}) : k <= handled' => \E a \in DOMAIN s : s[a].id = k
      BY <3>2, <3>4, <3>5 DEF Collects
    <3>7. \A k \in IdsOf(p, TreeOps \ {"silent"}) : k <= handled'
      <4> TAKE k \in IdsOf(p, TreeOps \ {"silent"})
      <4>1. k \in Nat /\ k <= n
        BY <1>0, <3>1, PacketEnds DEF IdsOf
      <4> QED BY <1>0, <4>1, SMTT(20)
    <3>8. LastOf(p).op \in TreeOps
      BY <1>0, <1>2, <3>1, PacketEnds, IdsOfFacts
    <3>9. Whole(p, s) /\ LastId(s) = n
      BY <1>2, <3>1, <3>3, <3>6, <3>7, <3>8 DEF Whole, LastId
    <3>10. sent' = Append(sent, s)
      BY <2>3, <2>4, <3>2
    <3> QED BY <3>3, <3>9, <3>10 DEF Sound
  <2> QED BY <2>3, <2>4
<1> QED BY <1>1, <1>2 DEF AnswerTo

(* What is sent stays sound, and is added for n at most. *)
OneFor(n) == sent' = sent \/ \E s : sent' = Append(sent, s) /\ Sound(s) /\ LastId(s) = n

(* What OneFor(n) says keeps SentSound, and counts for n alone. *)
LEMMA AddedSound ==
  ASSUME SentSound, script' = script, NEW n, OneFor(n)
  PROVE  /\ SentSound'
         /\ \A k : k # n => SentFor(k)' = SentFor(k)
         /\ SentFor(n)' = SentFor(n) \/ (SentFor(n)' = SentFor(n) \cup {Len(sent) + 1} /\ Len(sent) + 1 \notin SentFor(n))
<1>1. \A s : Sound(s)' <=> Sound(s)
  <2>1. \A i, s : (Lone(i, s)' <=> Lone(i, s)) /\ (Whole(i, s)' <=> Whole(i, s))
    <3> TAKE i, s
    <3>1. /\ Ids(i)' = Ids(i) /\ LastOf(i)' = LastOf(i) /\ (IsChain(i)' <=> IsChain(i))
          /\ IdsOf(i, TreeOps)' = IdsOf(i, TreeOps) /\ IdsOf(i, TreeOps \ {"silent"})' = IdsOf(i, TreeOps \ {"silent"})
      BY ScriptStays
    <3>2. Lone(i, s)' <=> Lone(i, s)
      BY <3>1 DEF Lone, LastId
    <3>3. Whole(i, s)' <=> Whole(i, s)
      BY <3>1 DEF Whole, LastId
    <3> QED BY <3>2, <3>3
  <2> QED BY <2>1, ScriptStays DEF Sound
<1>2. CASE sent' = sent
  BY <1>1, <1>2 DEF SentSound, SentFor
<1>3. ASSUME NEW s, sent' = Append(sent, s), Sound(s), LastId(s) = n
      PROVE  /\ SentSound'
             /\ \A k : k # n => SentFor(k)' = SentFor(k)
             /\ SentFor(n)' = SentFor(n) \cup {Len(sent) + 1} /\ Len(sent) + 1 \notin SentFor(n)
  <2>1. PICK len \in Nat : len = Len(sent) /\ DOMAIN sent = 1 .. len
    BY SMTT(20) DEF SentSound
  <2>2. /\ sent' \in Seq(Seq(Response)) /\ DOMAIN sent' = 1 .. len + 1 /\ sent'[len + 1] = s
        /\ \A k \in 1 .. len : sent'[k] = sent[k]
    BY <1>3, <2>1, SMTT(20) DEF SentSound, Sound
  <2>3. ASSUME NEW k \in DOMAIN sent' PROVE Sound(sent'[k])
    <3>1. k \in 1 .. len \/ k = len + 1
      BY <2>1, <2>2, SMTT(20)
    <3> QED BY <1>3, <2>1, <2>2, <3>1 DEF SentSound
  <2>4. SentSound'
    <3>1. \A k \in DOMAIN sent' : Sound(sent[k])'
      <4> TAKE k \in DOMAIN sent'
      <4>1. PICK x : x = sent'[k]
        OBVIOUS
      <4>2. Sound(x)'
        BY <1>1, <2>3, <4>1
      <4> QED BY <4>1, <4>2
    <3> QED BY <2>2, <3>1 DEF SentSound
  <2>5. ASSUME NEW k PROVE SentFor(k)' = {j \in 1 .. len + 1 : LastId(sent'[j]) = k}
    BY <2>2 DEF SentFor, LastId
  <2>6. ASSUME NEW k PROVE SentFor(k) = {j \in 1 .. len : LastId(sent[j]) = k}
    BY <2>1 DEF SentFor
  <2>7. 1 .. len + 1 = (1 .. len) \cup {len + 1} /\ len + 1 \notin 1 .. len
    BY <2>1, SMTT(20)
  <2>8. LastId(sent'[len + 1]) = n /\ \A k \in 1 .. len : LastId(sent'[k]) = LastId(sent[k])
    BY <1>3, <2>2
  <2>9. \A k : k # n => SentFor(k)' = SentFor(k)
    BY <2>5, <2>6, <2>7, <2>8
  <2>10. SentFor(n)' = SentFor(n) \cup {len + 1} /\ len + 1 \notin SentFor(n)
    BY <2>5, <2>6, <2>7, <2>8
  <2> QED BY <2>1, <2>4, <2>9, <2>10
<1> QED BY <1>2, <1>3 DEF OneFor

(* A request that was handled may be answered, then and later. *)
LEMMA AllowedGrows ==
  ASSUME handled \in Nat, handled' \in Nat, handled <= handled', script' = script, NEW n \in Nat,
         \A t \in timers' : t.id = n => \E u \in timers : u.id = n
  PROVE  Allowed(n) \in Nat /\ Allowed(n)' \in Nat /\ Allowed(n) <= Allowed(n)'
<1>1. Requests' = Requests
  BY ScriptStays
<1> QED BY <1>1, SMTT(20) DEF Allowed

(* Where one more may be sent for n, and for no other fewer, a step that    *)
(* sends for n sends what is sound and no more than that.                   *)
LEMMA SentAdds ==
  ASSUME SentSound, SentOnce, script' = script, NEW n \in Nat, OneFor(n),
         Allowed(n) \in Nat, Allowed(n)' \in Nat, sent' # sent => Allowed(n) + 1 <= Allowed(n)',
         \A k \in Nat : Allowed(k) \in Nat /\ Allowed(k)' \in Nat /\ Allowed(k) <= Allowed(k)'
  PROVE  SentSound' /\ SentOnce'
<1>1. /\ SentSound'
      /\ \A k : k # n => SentFor(k)' = SentFor(k)
      /\ SentFor(n)' = SentFor(n) \/ (SentFor(n)' = SentFor(n) \cup {Len(sent) + 1} /\ Len(sent) + 1 \notin SentFor(n))
  BY AddedSound
<1>2. ASSUME NEW k \in Nat, SentFor(k)' = SentFor(k)
      PROVE  IsFiniteSet(SentFor(k))' /\ (Cardinality(SentFor(k)) <= Allowed(k))'
  <2>1. IsFiniteSet(SentFor(k)) /\ Cardinality(SentFor(k)) \in Nat /\ Cardinality(SentFor(k)) <= Allowed(k)
    BY FS_CardinalityType DEF SentOnce
  <2>2. PICK c \in Nat : c = Cardinality(SentFor(k))
    BY <2>1
  <2>3. c <= Allowed(k)'
    BY <2>1, <2>2, SMTT(20)
  <2> QED BY <1>2, <2>1, <2>2, <2>3, SMTT(20)
<1>3. ASSUME SentFor(n)' # SentFor(n)
      PROVE  IsFiniteSet(SentFor(n))' /\ (Cardinality(SentFor(n)) <= Allowed(n))'
  <2>1. IsFiniteSet(SentFor(n)) /\ Cardinality(SentFor(n)) \in Nat /\ Cardinality(SentFor(n)) <= Allowed(n)
    BY FS_CardinalityType DEF SentOnce
  <2>2. IsFiniteSet(SentFor(n)') /\ Cardinality(SentFor(n)') = Cardinality(SentFor(n)) + 1
    <3>1. PICK x : SentFor(n)' = SentFor(n) \cup {x} /\ x \notin SentFor(n)
      BY <1>1, <1>3
    <3> QED BY <2>1, <3>1, FS_AddElement, SMTT(20)
  <2>3. Allowed(n) + 1 <= Allowed(n)'
    BY <1>3 DEF SentFor
  <2>4. PICK c \in Nat : c = Cardinality(SentFor(n))
    BY <2>1
  <2>5. c + 1 <= Allowed(n)'
    BY <2>1, <2>3, <2>4, SMTT(20)
  <2> QED BY <2>2, <2>4, <2>5
<1>4. \A k \in Nat : IsFiniteSet(SentFor(k))' /\ (Cardinality(SentFor(k)) <= Allowed(k))'
  BY <1>1, <1>2, <1>3
<1> QED BY <1>1, <1>4 DEF SentOnce

(* A step that neither sends nor starts or ends a timer. *)
LEMMA SentStays ==
  ASSUME SentSound, SentOnce, sent' = sent, timers' = timers, script' = script,
         handled \in Nat, handled' \in Nat, handled <= handled'
  PROVE  SentSound' /\ SentOnce'
<1>1. \A k \in Nat : Allowed(k) \in Nat /\ Allowed(k)' \in Nat /\ Allowed(k) <= Allowed(k)'
  BY AllowedGrows
<1>2. PICK n \in Nat : n = 0
  OBVIOUS
<1>3. OneFor(n)
  BY DEF OneFor
<1> QED BY <1>1, <1>3, SentAdds

(* A handler sends for its request, and had not before. *)
LEMMA HandleSent ==
  ASSUME Typed, InOrder, InContext, Collected, Collected', SentSound, SentOnce, ~Ended', HandlesStep
  PROVE  SentSound' /\ SentOnce'
<1>1. PICK m : m = handed[1]
  OBVIOUS
<1>2. PICK p \in Packets :
            /\ m.id \in Ids(p) /\ FirstOf(p).id <= Taken
            /\ m.id \in Nat \ {0} /\ handled \in Nat /\ handled < m.id /\ handled' = m.id
            /\ Taken' = Taken /\ script' = script /\ Noted(m)
            /\ AnswerTo(p, m.id) \/ UNCHANGED <<ctx, sent>>
  BY <1>1, HandleAnswers
<1>3. OneFor(m.id)
  <2>1. CASE AnswerTo(p, m.id)
    <3>1. m.id <= handled' /\ handled' \in Nat
      BY <1>2, SMTT(20)
    <3> QED BY <1>2, <2>1, <3>1, AnswerSound DEF OneFor
  <2>2. CASE UNCHANGED <<ctx, sent>>
    BY <2>2 DEF OneFor
  <2> QED BY <1>2, <2>1, <2>2
<1>4. Allowed(m.id) = 0 /\ Allowed(m.id)' \in Nat \ {0}
  BY <1>2, SMTT(20) DEF Allowed
<1>5. ASSUME NEW k \in Nat PROVE Allowed(k) \in Nat /\ Allowed(k)' \in Nat /\ Allowed(k) <= Allowed(k)'
  <2>1. CASE k = m.id
    BY <1>4, <2>1, SMTT(20)
  <2>2. CASE k # m.id
    <3>1. \A t \in timers' : t.id = k => \E u \in timers : u.id = k
      BY <1>2, <2>2, SMTT(20) DEF Noted
    <3>2. handled' \in Nat /\ handled <= handled'
      BY <1>2, SMTT(20)
    <3> QED BY <1>2, <3>1, <3>2, AllowedGrows
  <2> QED BY <2>1, <2>2
<1>6. Allowed(m.id) \in Nat /\ Allowed(m.id)' \in Nat /\ Allowed(m.id) + 1 <= Allowed(m.id)' /\ m.id \in Nat
  BY <1>2, <1>4, SMTT(20)
<1> QED BY <1>2, <1>3, <1>5, <1>6, SentAdds, SMTT(20)

(* A CHANGE_NOTIFY that completes sends its second answer. *)
LEMMA CompleteSent ==
  ASSUME Typed, InOrder, InContext, Collected, Collected', SentSound, SentOnce, ~Ended', CompletesStep
  PROVE  SentSound' /\ SentOnce'
<1>1. PICK t \in timers : NotifyCompletes(t)
  BY DEF CompletesStep
<1>2. PICK p \in Packets :
            /\ t.id \in Ids(p) /\ FirstOf(p).id <= Taken
            /\ t.id \in Nat \ {0} /\ t.id <= handled /\ handled' = handled /\ handled \in Nat
            /\ Taken' = Taken /\ script' = script
            /\ AnswerTo(p, t.id) \/ UNCHANGED <<ctx, sent>>
  BY <1>1, CompleteAnswers
<1>3. OneFor(t.id)
  <2>1. CASE AnswerTo(p, t.id)
    <3>1. t.id <= handled' /\ handled' \in Nat
      BY <1>2
    <3> QED BY <1>2, <2>1, <3>1, AnswerSound DEF OneFor
  <2>2. CASE UNCHANGED <<ctx, sent>>
    BY <2>2 DEF OneFor
  <2> QED BY <1>2, <2>1, <2>2
<1>4. timers' = timers \ {t} /\ \A u \in timers' : u.id # t.id
  BY <1>1 DEF NotifyCompletes, InContext
<1>5. Requests' = Requests /\ \E r \in Requests : r.id = t.id /\ r.op = "notify"
  BY <1>2, ScriptStays DEF InContext
<1>6. Allowed(t.id) = 1
  BY <1>2, <1>5, SMTT(20) DEF Allowed
<1>7. Allowed(t.id)' = 2
  BY <1>2, <1>4, <1>5, SMTT(20) DEF Allowed
<1>8. ASSUME NEW k \in Nat PROVE Allowed(k) \in Nat /\ Allowed(k)' \in Nat /\ Allowed(k) <= Allowed(k)'
  BY <1>2, <1>4, AllowedGrows, SMTT(20)
<1>9. t.id \in Nat
  BY <1>2
<1> QED BY <1>2, <1>3, <1>6, <1>7, <1>8, <1>9, SentAdds, SMTT(20)

(* Sending stays sound, and every request is answered as often as allowed. *)
LEMMA SentNext ==
  ASSUME Typed, InOrder, InContext, Collected, Collected', SentSound, SentOnce, [Next]_vars
  PROVE  SentSound' /\ SentOnce'
<1>0. handled \in Nat
  BY DEF InOrder
<1>1. CASE UNCHANGED dispatchVars \/ Receive
  <2>1. UNCHANGED <<script, timers, sent, handled>>
    BY <1>1, ReceiveEffect DEF dispatchVars
  <2> QED BY <1>0, <2>1, SentStays, SMTT(20)
<1>2. CASE EndsStep
  <2>1. UNCHANGED <<script, timers, sent>> /\ handed # <<>> /\ Takes(handed[1])
    BY <1>2 DEF EndsStep
  <2>2. handled' \in Nat /\ handled <= handled'
    BY <2>1, HandledGrows, SMTT(20)
  <2> QED BY <1>0, <2>1, <2>2, SentStays, SMTT(20)
<1>3. CASE Serves /\ HandlesStep /\ UNCHANGED lifecycleVars
  <2>1. ~Ended'
    BY <1>3, SMTT(20) DEF Serves, lifecycleVars, Ended
  <2> QED BY <1>3, <2>1, HandleSent
<1>4. CASE Serves /\ CompletesStep /\ UNCHANGED lifecycleVars
  <2>1. ~Ended'
    BY <1>4 DEF Serves, lifecycleVars, Ended
  <2> QED BY <1>4, <2>1, CompleteSent
<1> QED BY <1>1, <1>2, <1>3, <1>4, StepKinds, SMTT(20)

(* Before the first packet nothing is in a chain and nothing was sent. *)
LEMMA ChainsInit ==
  ASSUME Init
  PROVE  InContext /\ Collected /\ SentSound /\ SentOnce
<1>1. sent = <<>>
  BY DEF Init, DispatchInit
<1>2. InContext /\ Collected
  BY ContextsInit
<1>3. SentSound
  BY <1>1, SMTT(20) DEF SentSound
<1>4. SentOnce
  <2> SUFFICES ASSUME NEW n \in Nat PROVE IsFiniteSet(SentFor(n)) /\ Cardinality(SentFor(n)) <= Allowed(n)
    BY DEF SentOnce
  <2>1. SentFor(n) = {}
    BY <1>1, SMTT(20) DEF SentFor
  <2>2. Allowed(n) \in Nat
    BY DEF Allowed
  <2> QED BY <2>1, <2>2, FS_EmptySet, SMTT(20)
<1> QED BY <1>2, <1>3, <1>4

(* A packet that answers a request of i is of i. *)
LEMMA SoundFor ==
  ASSUME script \in Scripts, NEW s, Sound(s), NEW i \in Packets, NEW a \in DOMAIN s, s[a].id \in Ids(i)
  PROVE  /\ Len(s) \in Nat \ {0} /\ DOMAIN s = 1 .. Len(s)
         /\ (Lone(i, s) /\ a = 1 /\ Len(s) = 1) \/ Whole(i, s)
<1>1. PICK p \in Packets : Lone(p, s) \/ Whole(p, s)
  BY DEF Sound
<1>2. Len(s) \in Nat \ {0} /\ DOMAIN s = 1 .. Len(s)
  BY SMTT(20) DEF Sound
<1>3. CASE Lone(p, s)
  <2>1. a = 1 /\ Len(s) = 1 /\ s[a].id \in Ids(p)
    BY <1>2, <1>3, SMTT(20) DEF Lone, LastId
  <2>2. p = i
    BY <2>1, OnePacket
  <2> QED BY <1>2, <1>3, <2>1, <2>2
<1>4. CASE Whole(p, s)
  <2>1. s[a].id \in Ids(p)
    BY <1>4 DEF Whole, IdsOf
  <2>2. p = i
    BY <2>1, OnePacket
  <2> QED BY <1>2, <1>4, <2>2, SMTT(20)
<1> QED BY <1>1, <1>3, <1>4

(* The request of an id, and the operations it is one of. *)
LEMMA RequestOfId ==
  ASSUME script \in Scripts, NEW i \in Packets, NEW id \in Ids(i)
  PROVE  /\ RequestOf(id) \in Requests /\ RequestOf(id).id = id
         /\ \A ops : id \in IdsOf(i, ops) <=> RequestOf(id).op \in ops
<1>1. PICK r \in Requests : r.id = id
  BY PacketOf
<1>2. RequestOf(id) = r
  BY <1>1, RequestOfFacts
<1> QED BY <1>1, <1>2, IdsOfFacts

(* Packets that are sound are whole. *)
LEMMA SoundWhole ==
  ASSUME script \in Scripts, SentSound
  PROVE  ChainsSentWhole
<1> SUFFICES ASSUME NEW k \in DOMAIN sent, NEW i \in Packets, NEW b \in DOMAIN sent[k], sent[k][b].id \in Ids(i)
             PROVE  /\ \A a \in DOMAIN sent[k] : sent[k][a].id \in Ids(i)
                    /\ (IsChain(i) /\ RequestOf(sent[k][1].id).op \in TreeOps) =>
                          /\ LastOf(i).op \in TreeOps /\ LastOf(i).related
                          /\ sent[k][Len(sent[k])].id = LastOf(i).id
                          /\ \A id \in Ids(i) : RequestOf(id).op \in TreeOps \ {"silent"} => k \in Answers(id)
  BY DEF ChainsSentWhole
<1>1. PICK s : s = sent[k]
  OBVIOUS
<1>2. Sound(s) /\ b \in DOMAIN s /\ s[b].id \in Ids(i)
  BY <1>1 DEF SentSound
<1>3. /\ Len(s) \in Nat \ {0} /\ DOMAIN s = 1 .. Len(s)
      /\ (Lone(i, s) /\ b = 1 /\ Len(s) = 1) \/ Whole(i, s)
  BY <1>2, SoundFor
<1>4. CASE Lone(i, s) /\ b = 1 /\ Len(s) = 1
  <2>1. \A a \in DOMAIN s : a = b
    BY <1>3, <1>4, SMTT(20)
  <2>2. IsChain(i) => RequestOf(s[1].id).op \notin TreeOps
    BY <1>2, <1>4, RequestOfId, SMTT(20) DEF Lone, LastId
  <2> QED BY <1>1, <1>2, <2>1, <2>2, SMTT(20)
<1>5. CASE Whole(i, s)
  <2>1. \A a \in DOMAIN s : s[a].id \in Ids(i)
    BY <1>5 DEF Whole, IdsOf
  <2>2. LastOf(i).op \in TreeOps /\ LastOf(i).related /\ s[Len(s)].id = LastOf(i).id
    BY <1>5 DEF Whole, LastId
  <2>3. ASSUME NEW id \in Ids(i), RequestOf(id).op \in TreeOps \ {"silent"} PROVE k \in Answers(id)
    <3>1. id \in IdsOf(i, TreeOps \ {"silent"})
      BY <2>3, RequestOfId, SMTT(20)
    <3>2. \E a \in DOMAIN s : s[a].id = id
      BY <1>5, <3>1 DEF Whole
    <3> QED BY <1>1, <3>2, SMTT(20) DEF Answers
  <2> QED BY <1>1, <2>1, <2>2, <2>3, SMTT(20)
<1> QED BY <1>3, <1>4, <1>5

(* What is sent once or twice answers a request once or twice. *)
LEMMA SoundOnce ==
  ASSUME script \in Scripts, SentSound, SentOnce
  PROVE  AnsweredOnce
<1> SUFFICES ASSUME NEW i \in Packets, NEW id \in Ids(i)
             PROVE  Cardinality(Answers(id)) <= IF LastOf(i).op = "notify" THEN 2 ELSE 1
  BY DEF AnsweredOnce
<1>0. LastOf(i) \in Requests /\ LastOf(i).id \in Ids(i) /\ LastOf(i).id \in Nat /\ id \in Nat
  BY PacketEnds
<1>1. ASSUME NEW k \in Answers(id) PROVE \/ Lone(i, sent[k]) /\ LastId(sent[k]) = id
                                         \/ Whole(i, sent[k]) /\ id \in IdsOf(i, TreeOps)
  <2>1. PICK s : s = sent[k]
    OBVIOUS
  <2>2. PICK a \in DOMAIN s : s[a].id = id
    BY <2>1 DEF Answers
  <2>3. Sound(s)
    BY <2>1 DEF SentSound, Answers
  <2>4. (Lone(i, s) /\ a = 1 /\ Len(s) = 1) \/ Whole(i, s)
    BY <2>2, <2>3, SoundFor, SMTT(20)
  <2>5. CASE Lone(i, s) /\ a = 1 /\ Len(s) = 1
    BY <2>1, <2>2, <2>5, SMTT(20) DEF LastId
  <2>6. CASE Whole(i, s)
    BY <2>1, <2>2, <2>6 DEF Whole
  <2> QED BY <2>4, <2>5, <2>6, SMTT(20)
<1>2. ASSUME NEW n \in Nat, Answers(id) \subseteq SentFor(n), NEW b \in Nat, Allowed(n) \in Nat, Allowed(n) <= b
      PROVE  Cardinality(Answers(id)) <= b
  <2>1. IsFiniteSet(SentFor(n)) /\ Cardinality(SentFor(n)) <= Allowed(n)
    BY DEF SentOnce
  <2>2. IsFiniteSet(Answers(id)) /\ Cardinality(Answers(id)) <= Cardinality(SentFor(n))
    BY <1>2, <2>1, FS_Subset, SMTT(20)
  <2>3. PICK c \in Nat, d \in Nat : c = Cardinality(Answers(id)) /\ d = Cardinality(SentFor(n))
    BY <2>1, <2>2, FS_CardinalityType, SMTT(20)
  <2>4. c <= b
    BY <1>2, <2>1, <2>2, <2>3, SMTT(20)
  <2> QED BY <2>3, <2>4, SMTT(20)
<1>3. ASSUME NEW n \in Nat PROVE Allowed(n) \in Nat /\ Allowed(n) <= 2
  BY SMTT(20) DEF Allowed
<1>4. ASSUME NEW r \in Requests, r.op # "notify", r.id \in Nat PROVE Allowed(r.id) <= 1
  <2>1. \A q \in Requests : q.id = r.id => q = r
    BY OneRequest
  <2> QED BY <1>4, <2>1, SMTT(20) DEF Allowed
<1>5. CASE IsChain(i) /\ id \in IdsOf(i, TreeOps)
  <2>1. Answers(id) \subseteq SentFor(LastOf(i).id)
    BY <1>1, <1>5 DEF Lone, Whole, SentFor, Answers
  <2>2. LastOf(i).op # "notify" => Allowed(LastOf(i).id) <= 1
    BY <1>0, <1>4
  <2> QED BY <1>0, <1>2, <1>3, <2>1, <2>2, SMTT(20)
<1>6. CASE ~(IsChain(i) /\ id \in IdsOf(i, TreeOps))
  <2>1. Answers(id) \subseteq SentFor(id)
    BY <1>1, <1>6 DEF Whole, SentFor, Answers
  <2>2. PICK r \in Requests : r.id = id
    BY PacketOf
  <2>3. r.op # "notify" => Allowed(id) <= 1
    BY <1>0, <1>4, <2>2, SMTT(20)
  <2>4. r.op = "notify" => LastOf(i).op = "notify"
    <3>1. CASE IsChain(i)
      BY <1>6, <2>2, <3>1, IdsOfFacts, SMTT(20) DEF TreeOps
    <3>2. CASE ~IsChain(i)
      <4>1. PICK j \in DOMAIN script[i] : script[i][j].id = id
        BY DEF Ids
      <4>2. PICK len \in Nat \ {0} : len = Len(script[i]) /\ j \in 1 .. len
        BY <4>1, PacketEnds, ScriptFacts
      <4>3. len = 1
        <5>1. ~(len > 1)
          BY <3>2, <4>2 DEF IsChain
        <5> QED BY ONLY <5>1, len \in Nat \ {0}, SMTT(20)
      <4>4. LastOf(i).id = id
        BY <4>1, <4>2, <4>3, SMTT(20) DEF LastOf
      <4> QED BY <1>0, <2>2, <4>4, OneRequest, SMTT(20)
    <3> QED BY <3>1, <3>2
  <2> QED BY <1>0, <1>2, <1>3, <2>1, <2>3, <2>4, SMTT(20)
<1> QED BY <1>5, <1>6

(* Both promises about chains, from the invariants of the contexts and of    *)
(* what was sent.                                                            *)
LEMMA ChainsInvariant ==
  ASSUME ChainsRelated
  PROVE  Spec => [](ChainsSentWhole /\ AnsweredOnce)
<1> DEFINE Inv == ShutdownInv /\ Typed /\ InOrder /\ InContext /\ Collected /\ SentSound /\ SentOnce
<1>1. Init => Inv
  BY InitShutdownInv, TypedInit, InOrderInit, ChainsInit, SMTT(20)
<1>2. Inv /\ [Next]_vars => Inv'
  <2> SUFFICES ASSUME Inv, [Next]_vars PROVE Inv'
    OBVIOUS
  <2>1. ShutdownInv' /\ Typed' /\ InOrder' /\ InContext'
    BY ShutdownInvNext, TypedNext, InOrderNext, InContextNext
  <2>2. Collected'
    BY CollectedNext
  <2>3. SentSound' /\ SentOnce'
    BY <2>2, SentNext
  <2> QED BY <2>1, <2>2, <2>3
<1>3. Inv => ChainsSentWhole /\ AnsweredOnce
  BY SoundWhole, SoundOnce DEF Typed, PlaceOK
<1> QED BY <1>1, <1>2, <1>3, PTL DEF Spec

(* conn.Run and sendPacket: what is sent answers requests of one packet,    *)
(* and all of a chain at once and in order, for every sequence of packets   *)
(* with chains that begin unrelated and continue related.                   *)
THEOREM ChainsAnswered ==
  ASSUME ChainsRelated
  PROVE  Spec => []ChainsSentWhole
BY ChainsInvariant, PTL

(* sendPacket and changeNotify: for the same packets no request is answered *)
(* in two packets, unless its packet ends in a CHANGE_NOTIFY.               *)
THEOREM RequestsAnsweredOnce ==
  ASSUME ChainsRelated
  PROVE  Spec => []AnsweredOnce
BY ChainsInvariant, PTL
=============================================================================
