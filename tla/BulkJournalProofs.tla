------------------------- MODULE BulkJournalProofs -------------------------
(* Theorems about BulkJournal: for every journal, every cut into packages   *)
(* and any number of workers, crashes and failed calls.                     *)
EXTENDS BulkJournal, TLAPS

(* The setting of the theorems: one commit at a time, packages that do not  *)
(* overlap, and a disk on which a rename that succeeded is synced and a     *)
(* receipt that exists is read.  Outside it the theorems fail: the run      *)
(* BulkTwoCommits shows it for two commits at once.                         *)
Setting ==
    /\ Serial
    /\ DisjointPackages
    /\ ~PublishSyncMayFail
    /\ ~ReceiptReadMayFail

----------------------------------------------------------------------------
(* The inductive invariant.                                                 *)

Applying == {"progress", "apply", "syncProgress"}
Finishing == {"rmReady", "rmProgress", "syncInbox", "return"}

OneActive == \A v, w \in Worker : pc[v] # "idle" /\ pc[w] # "idle" => v = w

(* A receipt is the end of a package, and only a worker between the two     *)
(* steps of its publication has one that is not on disk.                    *)
ReceiptShape ==
    /\ receiptDisk <= receipt
    /\ ackSeq <= receiptDisk
    /\ receiptDisk = 0 \/ \E b \in Good : receiptDisk = Last[b]
    /\ receipt # receiptDisk =>
           \E w \in Worker : pc[w] = "syncReceipt" /\ receipt = Last[pkg[w]]

(* What CheckReceipt established still holds while the package is applied.  *)
Position ==
    \A w \in Worker :
        /\ pc[w] \in {"receipt", "syncReceipt"} \cup Applying \cup Finishing
               => pkg[w] \in Good
        /\ pc[w] = "read" => pkg[w] \notin Oversize
        /\ pc[w] # "idle" /\ pkg[w] \in Good /\ receiptDisk = 0 => First[pkg[w]] = 1
        /\ pc[w] \in Applying \cup {"syncReceipt"} => First[pkg[w]] = receiptDisk + 1
        /\ pc[w] = "syncReceipt" => receipt = Last[pkg[w]]
        /\ pc[w] \in Finishing => receiptDisk >= Last[pkg[w]]

(* A package not yet covered by the receipt keeps its ready name, once that *)
(* is on disk.                                                              *)
ReadyKept ==
    /\ \A b \in Good : receiptDisk < Last[b] /\ readyDisk[b] # "absent" => ready[b] # "absent"
    /\ \A w \in Worker : pc[w] \in {"read", "receipt", "syncReceipt"} \cup Applying
           => readyDisk[pkg[w]] # "absent"

(* Progress is on disk, except between the two steps of a checkpoint, when  *)
(* it is exactly one run ahead.                                             *)
ProgressShape ==
    /\ \A b \in Good :
           progress[b] # 0 \/ progressDisk[b] # 0 => First[b] <= receiptDisk + 1
    /\ \A b \in Good : receiptDisk < Last[b] /\ progress[b] # progressDisk[b] =>
           /\ \E w \in Worker : pc[w] = "syncProgress" /\ pkg[w] = b
           /\ progress[b] > progressDisk[b]
           /\ \A k \in Run(b, progressDisk[b]) : k <= progress[b]
    /\ \A w \in Worker : pc[w] \in {"apply", "syncProgress"} => next[w] = progress[pkg[w]]

(* The run in hand: each file is written in journal order, and what is      *)
(* fsynced is durable.                                                      *)
RunShape ==
    \A w \in Worker :
        /\ pc[w] = "syncProgress" => written[w] = {}
        /\ pc[w] \in {"apply", "syncProgress"} =>
            /\ flushed[w] \subseteq written[w]
            /\ written[w] \subseteq Run(pkg[w], next[w])
            /\ \A j \in written[w] : \A i \in Run(pkg[w], next[w]) :
                   i < j /\ OpOf(pkg[w], i).paths \cap OpOf(pkg[w], j).paths # {}
                       => i \in written[w]
            /\ \A k \in written[w] : \A p \in OpOf(pkg[w], k).paths :
                   file[p] >= SeqOf(pkg[w], k)
            /\ \A k \in flushed[w] : Durable(SeqOf(pkg[w], k))

(* What can be seen belongs to a package the receipt covers, or to the next *)
(* package and there at most to the run after the durable progress.         *)
VisibleShape ==
    \A t \in 1..N : Visible(t) =>
        \E b \in Good :
            /\ t \in First[b]..Last[b]
            /\ \/ receiptDisk >= Last[b]
               \/ /\ First[b] = receiptDisk + 1
                  /\ readyDisk[b] # "absent"
                  /\ \/ t - First[b] + 1 <= progressDisk[b]
                     \/ t - First[b] + 1 \in Run(b, progressDisk[b])

IInv ==
    /\ TypeOK
    /\ OneActive
    /\ ReceiptShape
    /\ Position
    /\ ReadyKept
    /\ ProgressShape
    /\ RunShape
    /\ VisibleShape
    /\ ReceiptCovers
    /\ ProgressCovers

----------------------------------------------------------------------------
(* Packages, operations and runs.                                           *)

(* The facts about constants every proof below uses.                        *)
LEMMA PackageFacts ==
    ASSUME NEW b \in Good
    PROVE  /\ b \in Package
           /\ First[b] \in Nat /\ Last[b] \in Nat /\ N \in Nat
           /\ 1 <= First[b] /\ First[b] <= Last[b] /\ Last[b] <= N
           /\ Size(b) \in Nat /\ Size(b) >= 1
BY PackageAssumption, JournalAssumption DEF Good, Size, N

(* Packages that do not overlap: the same start means the same package, and *)
(* one that ends before another's end ends before its start.                *)
LEMMA SameFirst ==
    ASSUME DisjointPackages, NEW a \in Good, NEW b \in Good
    PROVE  /\ First[a] = First[b] => Last[a] = Last[b] /\ a = b
           /\ Last[a] < Last[b] => Last[a] < First[b]
           /\ First[a] <= First[b] => a = b \/ Last[a] < First[b]
<1>1. /\ First[a] \in Nat /\ Last[a] \in Nat /\ First[a] <= Last[a]
      /\ First[b] \in Nat /\ Last[b] \in Nat /\ First[b] <= Last[b]
  BY PackageFacts, Zenon
<1>2. a # b => Last[a] < First[b] \/ Last[b] < First[a]
  BY Zenon DEF DisjointPackages
<1> QED
  BY <1>1, <1>2

(* The journal is a finite sequence, and what its entries are.              *)
LEMMA JournalFacts ==
    ASSUME NEW s \in 1..N
    PROVE  /\ Journal[s].paths \subseteq Path
           /\ Journal[s].type = "write" => \E p \in Path : Journal[s].paths = {p}
<1> DEFINE S == [type : {"write", "other"}, paths : SUBSET Path]
<1>1. Journal \in Seq(S) /\ s \in 1..Len(Journal)
  BY JournalAssumption, Zenon DEF N
<1>2. Journal[s] \in S
  <2> HIDE DEF S
  <2> QED
    BY <1>1
<1> QED
  BY <1>2, JournalAssumption, Zenon

(* An operation of a good package is an entry of the journal.               *)
LEMMA OpFacts ==
    ASSUME NEW b \in Good, NEW k \in 1..Size(b)
    PROVE  /\ SeqOf(b, k) \in 1..N
           /\ First[b] <= SeqOf(b, k) /\ SeqOf(b, k) <= Last[b]
           /\ OpOf(b, k) = Journal[SeqOf(b, k)]
           /\ OpOf(b, k).paths \subseteq Path
           /\ OpOf(b, k).type = "write" => \E p \in Path : OpOf(b, k).paths = {p}
<1>1. /\ SeqOf(b, k) \in 1..N
      /\ First[b] <= SeqOf(b, k) /\ SeqOf(b, k) <= Last[b]
  BY PackageFacts DEF SeqOf, Size
<1> QED
  BY <1>1, JournalFacts, Zenon DEF OpOf

(* A run starts right after the n operations done and stays in the package; *)
(* with two operations in it, it is a run of writes.                        *)
LEMMA RunFacts ==
    ASSUME NEW b \in Good, NEW n \in Nat
    PROVE  /\ \A k \in Run(b, n) : k \in Nat /\ n < k /\ k <= Size(b)
           /\ n < Size(b) => n + 1 \in Run(b, n)
           /\ \A k \in Run(b, n) : (n + 1)..k \subseteq Run(b, n)
           /\ \A j, k \in Run(b, n) : j # k =>
                  OpOf(b, j).type = "write" /\ OpOf(b, k).type = "write"
<1>1. Size(b) \in Nat
  BY PackageFacts, Zenon
<1>2. \A k \in Run(b, n) : k \in Nat /\ n < k /\ k <= Size(b)
  BY <1>1 DEF Run
<1>3. n < Size(b) => n + 1 \in Run(b, n)
  BY <1>1 DEF Run
<1>4. \A k \in Run(b, n) : (n + 1)..k \subseteq Run(b, n)
  BY <1>1 DEF Run
<1>5. ASSUME NEW j \in Run(b, n), NEW k \in Run(b, n), j # k
      PROVE  OpOf(b, j).type = "write" /\ OpOf(b, k).type = "write"
  BY <1>1, <1>5 DEF Run
<1> QED
  BY <1>2, <1>3, <1>4, <1>5, Zenon

----------------------------------------------------------------------------
(* The steps of CommitReady, one lemma each: the step keeps what IInv says  *)
(* beside the types.                                                        *)

(* Syncing the inbox moves the durable progress by at most the run that was *)
(* being checkpointed, so what can be seen stays within reach.              *)
LEMMA SyncInboxVisible ==
    ASSUME IInv, TypeOK', SyncInboxDirectory, UNCHANGED <<file, fileDisk, receiptDisk>>
    PROVE  VisibleShape'
<1> SUFFICES ASSUME NEW t \in 1..N, Visible(t)'
             PROVE  \E b \in Good :
                        /\ t \in First[b]..Last[b]
                        /\ \/ receiptDisk' >= Last[b]
                           \/ /\ First[b] = receiptDisk' + 1
                              /\ readyDisk'[b] # "absent"
                              /\ \/ t - First[b] + 1 <= progressDisk'[b]
                                 \/ t - First[b] + 1 \in Run(b, progressDisk'[b])
  BY Zenon DEF VisibleShape
<1>1. Visible(t)
  BY Zenon DEF Visible
<1>2. PICK b \in Good :
            /\ t \in First[b]..Last[b]
            /\ \/ receiptDisk >= Last[b]
               \/ /\ First[b] = receiptDisk + 1
                  /\ readyDisk[b] # "absent"
                  /\ \/ t - First[b] + 1 <= progressDisk[b]
                     \/ t - First[b] + 1 \in Run(b, progressDisk[b])
  BY <1>1, Zenon DEF IInv, VisibleShape
<1>3. CASE receiptDisk >= Last[b]
  BY <1>2, <1>3, Zenon
<1>4. CASE ~(receiptDisk >= Last[b])
  <2>1. receiptDisk < Last[b] /\ readyDisk[b] # "absent" /\ First[b] = receiptDisk + 1
    BY <1>2, <1>4, PackageFacts DEF IInv, TypeOK
  <2>2. readyDisk'[b] # "absent"
    BY <2>1, PackageFacts, Zenon DEF IInv, ReadyKept, SyncInboxDirectory
  <2>3. progressDisk'[b] = progress[b]
    BY Zenon DEF SyncInboxDirectory
  <2>4. CASE progress[b] = progressDisk[b]
    BY <1>2, <2>1, <2>2, <2>3, <2>4, Zenon
  <2>5. CASE progress[b] # progressDisk[b]
    <3>1. progress[b] > progressDisk[b] /\ \A k \in Run(b, progressDisk[b]) : k <= progress[b]
      BY <2>1, <2>5, Zenon DEF IInv, ProgressShape
    <3>2. t - First[b] + 1 <= progress[b]
      BY <1>2, <1>4, <3>1, PackageFacts DEF IInv, TypeOK
    <3> QED
      BY <1>2, <2>1, <2>2, <2>3, <3>2, Zenon
  <2> QED
    BY <2>4, <2>5, Zenon
<1> QED
  BY <1>3, <1>4, Zenon

(* The worker that moves is the only one that is not idle.                  *)
LEMMA Alone ==
    ASSUME IInv, NEW w \in Worker, pc[w] # "idle", NEW l, pc' = [pc EXCEPT ![w] = l]
    PROVE  /\ pc'[w] = l
           /\ \A v \in Worker : v # w => pc[v] = "idle" /\ pc'[v] = "idle"
           /\ OneActive'
<1>1. pc \in [Worker -> Pc]
  BY Zenon DEF IInv, TypeOK
<1>2. \A v \in Worker : v # w => pc[v] = "idle"
  BY Zenon DEF IInv, OneActive
<1>3. pc'[w] = l /\ \A v \in Worker : v # w => pc'[v] = pc[v]
  BY <1>1, Zenon
<1> QED
  BY <1>2, <1>3, Zenon DEF OneActive

(* The receipt and the progress of a package in hand are on disk, except    *)
(* for the worker between the two steps of their publication.               *)
LEMMA Settled ==
    ASSUME IInv, NEW w \in Worker, pc[w] # "idle"
    PROVE  /\ pc[w] # "syncReceipt" => receipt = receiptDisk
           /\ pc[w] # "syncProgress" =>
                  \A b \in Good : receiptDisk < Last[b] => progress[b] = progressDisk[b]
<1>1. \A v \in Worker : pc[v] # "idle" => v = w
  BY Zenon DEF IInv, OneActive
<1>2. pc[w] # "syncReceipt" => receipt = receiptDisk
  BY <1>1, Zenon DEF IInv, ReceiptShape
<1>3. pc[w] # "syncProgress" =>
          \A b \in Good : receiptDisk < Last[b] => progress[b] = progressDisk[b]
  BY <1>1, Zenon DEF IInv, ProgressShape
<1> QED
  BY <1>2, <1>3, Zenon

(* What a step must leave alone to keep each part of the invariant.         *)
LEMMA DataFrame ==
    ASSUME IInv, UNCHANGED <<readyDisk, progress, progressDisk, receipt, receiptDisk,
                             file, fileDisk>>
    PROVE  VisibleShape' /\ ReceiptCovers' /\ ProgressCovers'
<1>1. VisibleShape'
  BY Zenon DEF IInv, VisibleShape, Visible
<1>2. ReceiptCovers'
  BY Zenon DEF IInv, ReceiptCovers, Durable
<1>3. ProgressCovers'
  BY Zenon DEF IInv, ProgressCovers, Durable
<1> QED
  BY <1>1, <1>2, <1>3, Zenon

(* The receipt stays, and no publication of it is under way.                *)
LEMMA ReceiptFrame ==
    ASSUME IInv, UNCHANGED <<receipt, receiptDisk>>, receipt = receiptDisk,
           ackSeq' <= receiptDisk
    PROVE  ReceiptShape'
BY Zenon DEF IInv, ReceiptShape

(* The names in the inbox stay.                                             *)
LEMMA ReadyFrame ==
    ASSUME IInv, UNCHANGED <<ready, readyDisk, receiptDisk>>, NEW w \in Worker,
           \A v \in Worker : v # w => pc'[v] = "idle",
           pc'[w] \in {"read", "receipt", "syncReceipt"} \cup Applying
               => readyDisk[pkg'[w]] # "absent"
    PROVE  ReadyKept'
BY Zenon DEF IInv, ReadyKept, Applying

(* The progress records stay, and none is being published.                  *)
LEMMA ProgressFrame ==
    ASSUME IInv, UNCHANGED <<progress, progressDisk, receiptDisk>>, NEW w \in Worker,
           \A v \in Worker : v # w => pc'[v] = "idle",
           \A b \in Good : receiptDisk < Last[b] => progress[b] = progressDisk[b],
           pc'[w] \in {"apply", "syncProgress"} => next'[w] = progress[pkg'[w]]
    PROVE  ProgressShape'
BY Zenon DEF IInv, ProgressShape

(* Nobody is in the middle of a run.                                        *)
LEMMA RunFrame ==
    ASSUME NEW w \in Worker, \A v \in Worker : v # w => pc'[v] = "idle",
           pc'[w] \notin {"apply", "syncProgress"}
    PROVE  RunShape'
BY Zenon DEF RunShape

(* A step of a worker that changes no data and lands outside apply.         *)
LEMMA ControlStep ==
    ASSUME IInv, TypeOK', NEW w \in Worker, pc[w] \notin {"idle", "syncProgress", "syncReceipt"},
           NEW l, l \notin {"apply", "syncProgress", "syncReceipt"},
           pc' = [pc EXCEPT ![w] = l],
           UNCHANGED <<ready, readyDisk, progress, progressDisk, receipt, receiptDisk,
                       file, fileDisk, pkg>>,
           ackSeq' <= receiptDisk,
           l \in {"read", "receipt", "progress"} => readyDisk[pkg[w]] # "absent",
           l \in {"receipt", "progress"} \cup Finishing => pkg[w] \in Good,
           l = "read" => pkg[w] \notin Oversize,
           l = "progress" => First[pkg[w]] = receiptDisk + 1,
           l \in Finishing => receiptDisk >= Last[pkg[w]]
    PROVE  IInv'
<1>1. pc'[w] = l /\ (\A v \in Worker : v # w => pc'[v] = "idle") /\ OneActive'
  BY Alone, Zenon
<1>2. /\ receipt = receiptDisk
      /\ \A b \in Good : receiptDisk < Last[b] => progress[b] = progressDisk[b]
  BY Settled, Zenon
<1>3. ReceiptShape'
  BY <1>2, ReceiptFrame, Zenon
<1>4. ReadyKept'
  BY <1>1, ReadyFrame, Zenon DEF Applying
<1>5. ProgressShape'
  BY <1>1, <1>2, ProgressFrame, Zenon
<1>6. RunShape'
  BY <1>1, RunFrame, Zenon
<1>7. Position'
  BY <1>1 DEF IInv, Position, Applying, Finishing
<1> QED
  BY <1>1, <1>3, <1>4, <1>5, <1>6, <1>7, DataFrame, Zenon DEF IInv

(* A step of a worker that syncs the inbox: what is published becomes       *)
(* durable, and nothing else changes.                                       *)
LEMMA InboxStep ==
    ASSUME IInv, TypeOK', NEW w \in Worker, pc[w] \notin {"idle", "syncReceipt"},
           NEW l, l \in {"read", "apply", "return"},
           pc' = [pc EXCEPT ![w] = l],
           SyncInboxDirectory,
           UNCHANGED <<receipt, receiptDisk, file, fileDisk, pkg, ackSeq>>,
           l \in {"read", "apply"} => ready[pkg[w]] # "absent",
           l = "read" => pkg[w] \notin Oversize,
           l = "apply" => pc[w] = "syncProgress" /\ UNCHANGED <<next, written, flushed>>,
           l = "return" => pc[w] = "syncInbox"
    PROVE  IInv'
<1>1. pc'[w] = l /\ (\A v \in Worker : v # w => pc'[v] = "idle") /\ OneActive'
  BY Alone, Zenon
<1>2. receipt = receiptDisk
  BY Settled, Zenon
<1>3. ackSeq' <= receiptDisk
  BY Zenon DEF IInv, ReceiptShape
<1>4. ReceiptShape'
  BY <1>2, <1>3, ReceiptFrame, Zenon
<1>5. ready \in [Package -> ReadyState] /\ pkg[w] \in Package
  BY Zenon DEF IInv, TypeOK
<1>6. \A b \in Package : (readyDisk'[b] = "absent") <=> (ready[b] = "absent")
  BY <1>5, Zenon DEF SyncInboxDirectory
<1>7. ReadyKept'
  BY <1>1, <1>5, <1>6, Zenon DEF SyncInboxDirectory, ReadyKept, Applying, Good
<1>8. ProgressShape'
  BY <1>1 DEF IInv, ProgressShape, SyncInboxDirectory
<1>9. RunShape'
  <2>1. CASE l = "apply"
    BY <1>1, <2>1, Zenon DEF IInv, RunShape, Durable
  <2>2. CASE l # "apply"
    BY <1>1, <2>2, RunFrame, Zenon
  <2> QED
    BY <2>1, <2>2, Zenon
<1>10. Position'
  BY <1>1, Zenon DEF IInv, Position, Applying, Finishing
<1>11. ReceiptCovers' /\ ProgressCovers'
  BY Zenon DEF IInv, ReceiptCovers, ProgressCovers, Durable, SyncInboxDirectory
<1>12. VisibleShape'
  BY SyncInboxVisible, Zenon
<1> QED
  BY <1>1, <1>4, <1>7, <1>8, <1>9, <1>10, <1>11, <1>12, Zenon DEF IInv

(* The directory sync at the start only makes entries durable.              *)
LEMMA StatAndSyncStep ==
    ASSUME Setting, IInv, TypeOK', NEW w \in Worker, StatAndSync(w)
    PROVE  IInv'
<1>1. /\ pc[w] = "stat" /\ UNCHANGED <<receipt, receiptDisk, file, fileDisk, pkg, ackSeq>>
      /\ \/ pc' = [pc EXCEPT ![w] = "idle"] /\ UNCHANGED inbox
         \/ /\ pc' = [pc EXCEPT ![w] = "read"] /\ SyncInboxDirectory
            /\ ready[pkg[w]] # "absent" /\ pkg[w] \notin Oversize
  BY Zenon DEF StatAndSync, Goto, share
<1>2. ackSeq' <= receiptDisk
  BY <1>1, Zenon DEF IInv, ReceiptShape
<1>3. CASE pc' = [pc EXCEPT ![w] = "idle"] /\ UNCHANGED inbox
  BY <1>1, <1>2, <1>3, ControlStep, Zenon DEF inbox, Finishing
<1>4. CASE /\ pc' = [pc EXCEPT ![w] = "read"] /\ SyncInboxDirectory
           /\ ready[pkg[w]] # "absent" /\ pkg[w] \notin Oversize
  BY <1>1, <1>4, InboxStep, Zenon
<1> QED
  BY <1>1, <1>3, <1>4, Zenon

(* Reading the package changes no data.                                     *)
LEMMA ReadPackageStep ==
    ASSUME Setting, IInv, TypeOK', NEW w \in Worker, ReadPackage(w)
    PROVE  IInv'
<1>1. PICK l \in {"receipt", "idle"} :
          /\ pc[w] = "read" /\ pc' = [pc EXCEPT ![w] = l]
          /\ l = "receipt" => pkg[w] \notin Malformed
          /\ UNCHANGED <<ready, readyDisk, progress, progressDisk, receipt, receiptDisk,
                         file, fileDisk, pkg, ackSeq>>
  BY Zenon DEF ReadPackage, Goto, inbox, share
<1>2. ackSeq' <= receiptDisk
  BY <1>1, Zenon DEF IInv, ReceiptShape
<1>3. readyDisk[pkg[w]] # "absent"
  BY <1>1, Zenon DEF IInv, ReadyKept
<1>4. pkg[w] \in Package /\ pkg[w] \notin Oversize
  BY <1>1, Zenon DEF IInv, TypeOK, Position
<1>5. l = "receipt" => pkg[w] \in Good
  BY <1>1, <1>4, Zenon DEF Good
<1> QED
  BY <1>1, <1>2, <1>3, <1>5, ControlStep, Zenon DEF Finishing

(* The receipt check sends a duplicate to the clean-up and refuses a gap;   *)
(* what passes starts right behind the receipt.                             *)
LEMMA CheckReceiptStep ==
    ASSUME Setting, IInv, TypeOK', NEW w \in Worker, CheckReceipt(w)
    PROVE  IInv'
<1>1. /\ pc[w] = "receipt"
      /\ UNCHANGED <<ready, readyDisk, progress, progressDisk, receipt, receiptDisk,
                     file, fileDisk, pkg, ackSeq>>
      /\ \/ pc' = [pc EXCEPT ![w] = "rmReady"] /\ receipt >= Last[pkg[w]]
         \/ pc' = [pc EXCEPT ![w] = "idle"]
         \/ /\ pc' = [pc EXCEPT ![w] = "progress"]
            /\ \/ receipt = 0
               \/ ~(receipt >= Last[pkg[w]]) /\ ~(First[pkg[w]] > receipt + 1)
  <2>1. ReadableReceipts = {receipt}
    BY Zenon DEF ReadableReceipts, Setting
  <2> QED
    BY <2>1, Zenon DEF CheckReceipt, CheckReceiptWith, Goto, inbox, share
<1>2. pkg[w] \in Good /\ readyDisk[pkg[w]] # "absent" /\ ackSeq <= receiptDisk
  BY <1>1, Zenon DEF IInv, Position, ReadyKept, ReceiptShape
<1>3. receipt = receiptDisk
  BY <1>1, Settled, Zenon
<1>4. receiptDisk \in Nat
  BY Zenon DEF IInv, TypeOK
<1>5. First[pkg[w]] \in Nat /\ Last[pkg[w]] \in Nat
  BY <1>2, PackageFacts, Zenon
<1>6. CASE pc' = [pc EXCEPT ![w] = "rmReady"] /\ receipt >= Last[pkg[w]]
  BY <1>1, <1>2, <1>3, <1>6, ControlStep, Zenon DEF Finishing
<1>7. CASE pc' = [pc EXCEPT ![w] = "idle"]
  BY <1>1, <1>2, <1>7, ControlStep, Zenon DEF Finishing
<1>8. CASE /\ pc' = [pc EXCEPT ![w] = "progress"]
           /\ \/ receipt = 0
              \/ ~(receipt >= Last[pkg[w]]) /\ ~(First[pkg[w]] > receipt + 1)
  <2>1. First[pkg[w]] = receiptDisk + 1
    <3>1. CASE receiptDisk = 0
      BY <1>1, <1>2, <3>1 DEF IInv, Position
    <3>2. CASE receiptDisk # 0
      <4>1. PICK a \in Good : receiptDisk = Last[a]
        BY <3>2, Zenon DEF IInv, ReceiptShape
      <4>2. Last[a] < Last[pkg[w]] => Last[a] < First[pkg[w]]
        BY <1>2, SameFirst, Zenon DEF Setting
      <4> QED
        BY <1>3, <1>4, <1>5, <1>8, <3>2, <4>1, <4>2
    <3> QED
      BY <3>1, <3>2, Zenon
  <2> QED
    BY <1>1, <1>2, <1>8, <2>1, ControlStep, Zenon DEF Finishing
<1> QED
  BY <1>1, <1>6, <1>7, <1>8, Zenon

(* The relay learns of a receipt that is on disk.                           *)
LEMMA ReturnStep ==
    ASSUME Setting, IInv, TypeOK', NEW w \in Worker, Return(w)
    PROVE  IInv'
<1>1. /\ pc[w] = "return" /\ pc' = [pc EXCEPT ![w] = "idle"]
      /\ ackSeq' \in {ackSeq, Last[pkg[w]]}
      /\ UNCHANGED <<ready, readyDisk, progress, progressDisk, receipt, receiptDisk,
                     file, fileDisk, pkg>>
  BY Zenon DEF Return, Goto, inbox, share
<1>2. receiptDisk >= Last[pkg[w]] /\ ackSeq <= receiptDisk /\ pkg[w] \in Good
  BY <1>1, Zenon DEF IInv, Position, ReceiptShape, Finishing
<1>3. Last[pkg[w]] \in Nat /\ receiptDisk \in Nat
  BY <1>2, PackageFacts, Zenon DEF IInv, TypeOK
<1>4. ackSeq' <= receiptDisk
  BY <1>1, <1>2, <1>3, Zenon
<1> QED
  BY <1>1, <1>4, ControlStep, Zenon DEF Finishing

(* A failed call leaves the data as it is.                                  *)
LEMMA FailCommitStep ==
    ASSUME Setting, IInv, TypeOK', NEW w \in Worker, FailCommit(w)
    PROVE  IInv'
<1>1. /\ pc[w] \in {"stat", "read", "progress", "apply", "return"}
      /\ pc' = [pc EXCEPT ![w] = "idle"]
      /\ UNCHANGED <<ready, readyDisk, progress, progressDisk, receipt, receiptDisk,
                     file, fileDisk, pkg, ackSeq>>
  BY Zenon DEF FailCommit, Setting, Goto, inbox, share
<1>2. ackSeq' <= receiptDisk
  BY <1>1, Zenon DEF IInv, ReceiptShape
<1> QED
  BY <1>1, <1>2, ControlStep, Zenon DEF Finishing

(* Resuming starts after operations that are all durable.                   *)
LEMMA ReadProgressStep ==
    ASSUME Setting, IInv, TypeOK', NEW w \in Worker, ReadProgress(w)
    PROVE  IInv'
<1>1. /\ pc[w] = "progress" /\ pc' = [pc EXCEPT ![w] = "apply"]
      /\ next' = [next EXCEPT ![w] = progress[pkg[w]]]
      /\ written' = [written EXCEPT ![w] = {}]
      /\ flushed' = [flushed EXCEPT ![w] = {}]
      /\ UNCHANGED <<ready, readyDisk, progress, progressDisk, receipt, receiptDisk,
                     file, fileDisk, pkg, ackSeq>>
  BY Zenon DEF ReadProgress, Goto, inbox, share
<1>2. pc'[w] = "apply" /\ (\A v \in Worker : v # w => pc'[v] = "idle") /\ OneActive'
  BY <1>1, Alone, Zenon
<1>3. /\ receipt = receiptDisk
      /\ \A b \in Good : receiptDisk < Last[b] => progress[b] = progressDisk[b]
  BY <1>1, Settled, Zenon
<1>4. next'[w] = progress[pkg[w]] /\ written'[w] = {} /\ flushed'[w] = {}
  BY <1>1, Zenon DEF IInv, TypeOK
<1>5. ackSeq' <= receiptDisk /\ readyDisk[pkg[w]] # "absent"
  BY <1>1 DEF IInv, ReceiptShape, ReadyKept, Applying
<1>6. ReceiptShape' /\ ReadyKept' /\ ProgressShape'
  BY <1>1, <1>2, <1>3, <1>4, <1>5, ReceiptFrame, ReadyFrame, ProgressFrame
<1>7. RunShape'
  BY <1>2, <1>4 DEF RunShape
<1>8. Position'
  BY <1>1, <1>2, Zenon DEF IInv, Position, Applying, Finishing
<1> QED
  BY <1>1, <1>2, <1>6, <1>7, <1>8, DataFrame, Zenon DEF IInv

(* The progress record on disk becomes the one that was written.            *)
LEMMA SyncProgressStep ==
    ASSUME Setting, IInv, TypeOK', NEW w \in Worker, SyncProgress(w)
    PROVE  IInv'
<1>1. /\ pc[w] = "syncProgress" /\ pc' = [pc EXCEPT ![w] = "apply"] /\ SyncInboxDirectory
      /\ UNCHANGED <<receipt, receiptDisk, file, fileDisk, pkg, ackSeq, next, written, flushed>>
  BY Zenon DEF SyncProgress, Goto, share
<1>2. /\ pkg[w] \in Good /\ First[pkg[w]] = receiptDisk + 1 /\ receiptDisk \in Nat
      /\ readyDisk[pkg[w]] # "absent"
  BY <1>1 DEF IInv, TypeOK, Position, ReadyKept, Applying
<1>3. receiptDisk < Last[pkg[w]]
  BY <1>2, PackageFacts
<1>4. ready[pkg[w]] # "absent"
  BY <1>2, <1>3, Zenon DEF IInv, ReadyKept
<1> QED
  BY <1>1, <1>4, InboxStep, Zenon

(* The removals become durable behind the receipt.                          *)
LEMMA SyncRemovalsStep ==
    ASSUME Setting, IInv, TypeOK', NEW w \in Worker, SyncRemovals(w)
    PROVE  IInv'
<1>1. /\ pc[w] = "syncInbox" /\ pc' = [pc EXCEPT ![w] = "return"]
      /\ SyncInboxDirectory \/ UNCHANGED inbox
      /\ UNCHANGED <<receipt, receiptDisk, file, fileDisk, pkg, ackSeq>>
  BY Zenon DEF SyncRemovals, Goto, share
<1>2. ackSeq' <= receiptDisk /\ pkg[w] \in Good /\ receiptDisk >= Last[pkg[w]]
  BY <1>1, Zenon DEF IInv, ReceiptShape, Position, Finishing
<1>3. CASE SyncInboxDirectory
  BY <1>1, <1>3, InboxStep, Zenon
<1>4. CASE UNCHANGED inbox
  BY <1>1, <1>2, <1>4, ControlStep, Zenon DEF inbox
<1> QED
  BY <1>1, <1>3, <1>4, Zenon

(* The receipt on disk becomes the one that was written.                    *)
LEMMA SyncReceiptStep ==
    ASSUME Setting, IInv, TypeOK', NEW w \in Worker, SyncReceipt(w)
    PROVE  IInv'
<1>1. /\ pc[w] = "syncReceipt" /\ pc' = [pc EXCEPT ![w] = "rmReady"]
      /\ receiptDisk' = receipt
      /\ UNCHANGED <<ready, readyDisk, progress, progressDisk, receipt, file, fileDisk,
                     pkg, ackSeq>>
  BY Zenon DEF SyncReceipt, Goto, inbox, share
<1>2. pc'[w] = "rmReady" /\ (\A v \in Worker : v # w => pc'[v] = "idle") /\ OneActive'
  BY <1>1, Alone, Zenon
<1>3. /\ pkg[w] \in Good /\ First[pkg[w]] = receiptDisk + 1 /\ receipt = Last[pkg[w]]
      /\ receiptDisk \in Nat /\ receipt \in Nat /\ ackSeq \in Nat
      /\ ackSeq <= receiptDisk /\ receiptDisk <= receipt
  BY <1>1 DEF IInv, TypeOK, Position, ReceiptShape
<1>4. ReceiptShape'
  BY <1>1, <1>3 DEF ReceiptShape
<1>5. Position'
  BY <1>1, <1>2, <1>3 DEF Position, Applying, Finishing
<1>6. \A b \in Good : Last[b] \in Nat /\ First[b] \in Nat
  BY PackageFacts, Zenon
<1>7. \A b \in Good : receiptDisk' < Last[b] => receiptDisk < Last[b]
  BY <1>1, <1>3, <1>6
<1>8. ReadyKept'
  BY <1>1, <1>2, <1>7, Zenon DEF IInv, ReadyKept, Applying
<1>9. ProgressShape'
  <2>1. \A b \in Good : receiptDisk < Last[b] => progress[b] = progressDisk[b]
    BY <1>1, Settled, Zenon
  <2>2. \A b \in Good : First[b] <= receiptDisk + 1 => First[b] <= receiptDisk' + 1
    BY <1>1, <1>3, <1>6
  <2> QED
    BY <1>1, <1>2, <1>7, <2>1, <2>2, Zenon DEF IInv, ProgressShape
<1>10. RunShape'
  BY <1>2, RunFrame, Zenon
<1>11. VisibleShape'
  <2>1. \A b \in Good : First[b] = receiptDisk + 1 => receiptDisk' >= Last[b]
    BY <1>1, <1>3, SameFirst DEF Setting
  <2>2. \A b \in Good : receiptDisk >= Last[b] => receiptDisk' >= Last[b]
    BY <1>1, <1>3, <1>6
  <2> QED
    BY <1>1, <2>1, <2>2, Zenon DEF IInv, VisibleShape, Visible
<1>12. ReceiptCovers' /\ ProgressCovers'
  BY <1>1, Zenon DEF IInv, ReceiptCovers, ProgressCovers, Durable
<1> QED
  BY <1>2, <1>4, <1>5, <1>8, <1>9, <1>10, <1>11, <1>12, Zenon DEF IInv

(* What a worker in the clean-up knows: its package is behind the receipt.  *)
LEMMA FinishingFacts ==
    ASSUME IInv, NEW w \in Worker, pc[w] \in Finishing
    PROVE  /\ pkg[w] \in Good /\ pkg[w] \in Package
           /\ receiptDisk >= Last[pkg[w]] /\ ~(receiptDisk < Last[pkg[w]])
           /\ receipt = receiptDisk /\ ackSeq <= receiptDisk
           /\ \A b \in Good : receiptDisk < Last[b] => progress[b] = progressDisk[b]
<1>1. pkg[w] \in Good /\ receiptDisk >= Last[pkg[w]] /\ ackSeq <= receiptDisk
  BY Zenon DEF IInv, Position, ReceiptShape
<1>2. pkg[w] \in Package /\ Last[pkg[w]] \in Nat
  BY <1>1, PackageFacts, Zenon
<1>3. receiptDisk \in Nat
  BY Zenon DEF IInv, TypeOK
<1>4. /\ receipt = receiptDisk
      /\ \A b \in Good : receiptDisk < Last[b] => progress[b] = progressDisk[b]
  BY Settled, Zenon DEF Finishing
<1> QED
  BY <1>1, <1>2, <1>3, <1>4

(* The package goes only after its receipt is on disk.                      *)
LEMMA RemoveReadyStep ==
    ASSUME Setting, IInv, TypeOK', NEW w \in Worker, RemoveReady(w)
    PROVE  IInv'
<1>1. /\ pc[w] = "rmReady" /\ pc' = [pc EXCEPT ![w] = "rmProgress"]
      /\ ready' = [ready EXCEPT ![pkg[w]] = "absent"] \/ ready' = ready
      /\ UNCHANGED <<readyDisk, progress, progressDisk, receipt, receiptDisk, file, fileDisk,
                     pkg, ackSeq>>
  BY Zenon DEF RemoveReady, Goto, share
<1>2. /\ pkg[w] \in Good /\ receiptDisk >= Last[pkg[w]] /\ ~(receiptDisk < Last[pkg[w]])
      /\ receipt = receiptDisk /\ ackSeq <= receiptDisk
      /\ \A b \in Good : receiptDisk < Last[b] => progress[b] = progressDisk[b]
  BY <1>1, FinishingFacts, Zenon DEF Finishing
<1>3. pc'[w] = "rmProgress" /\ (\A v \in Worker : v # w => pc'[v] = "idle") /\ OneActive'
  BY <1>1, Alone, Zenon
<1>4. \A b \in Good : b # pkg[w] => ready'[b] = ready[b]
  BY <1>1, Zenon DEF IInv, TypeOK, Good
<1>5. ReadyKept'
  BY <1>1, <1>2, <1>3, <1>4 DEF IInv, ReadyKept, Applying
<1>6. ReceiptShape' /\ ProgressShape' /\ RunShape'
  BY <1>1, <1>2, <1>3, ReceiptFrame, ProgressFrame, RunFrame
<1>7. Position'
  BY <1>1, <1>2, <1>3, Zenon DEF IInv, Position, Applying, Finishing
<1> QED
  BY <1>1, <1>3, <1>5, <1>6, <1>7, DataFrame, Zenon DEF IInv

(* The progress record goes only after the receipt is on disk.              *)
LEMMA RemoveProgressStep ==
    ASSUME Setting, IInv, TypeOK', NEW w \in Worker, RemoveProgress(w)
    PROVE  IInv'
<1>1. /\ pc[w] = "rmProgress" /\ pc' = [pc EXCEPT ![w] = "syncInbox"]
      /\ progress' = [progress EXCEPT ![pkg[w]] = 0] \/ progress' = progress
      /\ UNCHANGED <<ready, readyDisk, progressDisk, receipt, receiptDisk, file, fileDisk,
                     pkg, ackSeq>>
  BY Zenon DEF RemoveProgress, Goto, share
<1>2. /\ pkg[w] \in Good /\ receiptDisk >= Last[pkg[w]] /\ ~(receiptDisk < Last[pkg[w]])
      /\ receipt = receiptDisk /\ ackSeq <= receiptDisk
      /\ \A b \in Good : receiptDisk < Last[b] => progress[b] = progressDisk[b]
  BY <1>1, FinishingFacts, Zenon DEF Finishing
<1>3. pc'[w] = "syncInbox" /\ (\A v \in Worker : v # w => pc'[v] = "idle") /\ OneActive'
  BY <1>1, Alone, Zenon
<1>4. \A b \in Good : progress'[b] = progress[b] \/ (b = pkg[w] /\ progress'[b] = 0)
  BY <1>1, <1>2, Zenon DEF IInv, TypeOK, Good
<1>5. ProgressShape'
  BY <1>1, <1>2, <1>3, <1>4 DEF IInv, ProgressShape
<1>6. ReceiptShape' /\ ReadyKept' /\ RunShape'
  BY <1>1, <1>2, <1>3, ReceiptFrame, ReadyFrame, RunFrame, Zenon DEF Applying
<1>7. Position'
  BY <1>1, <1>2, <1>3, Zenon DEF IInv, Position, Applying, Finishing
<1>8. VisibleShape' /\ ReceiptCovers'
  BY <1>1 DEF IInv, VisibleShape, Visible, ReceiptCovers, Durable
<1>9. ProgressCovers'
  <2> SUFFICES ASSUME NEW b \in Good, NEW k \in 1..Size(b),
                      k <= progress'[b] \/ k <= progressDisk[b]
               PROVE  Durable(SeqOf(b, k))
    BY <1>1 DEF ProgressCovers, Durable
  <2>1. k >= 1 /\ k \in Int
    BY PackageFacts
  <2>2. k <= progress[b] \/ k <= progressDisk[b]
    BY <1>4, <2>1
  <2> QED
    BY <2>2, Zenon DEF IInv, ProgressCovers
<1> QED
  BY <1>3, <1>5, <1>6, <1>7, <1>8, <1>9, Zenon DEF IInv

(* A new upload starts a commit and touches no data.                        *)
LEMMA RenameStep ==
    ASSUME Setting, IInv, TypeOK', NEW w \in Worker, NEW b \in Package, Rename(w, b)
    PROVE  IInv'
<1>1. /\ \A v \in Worker : pc[v] = "idle"
      /\ MaySend(b)
      /\ pc' = [pc EXCEPT ![w] = "stat"] /\ pkg' = [pkg EXCEPT ![w] = b]
      /\ ready' = [ready EXCEPT ![b] = "cached"]
      /\ UNCHANGED <<readyDisk, progress, progressDisk, receipt, receiptDisk, file, fileDisk,
                     ackSeq>>
  BY Zenon DEF Rename, MayRename, Goto, share, Setting
<1>2. pc'[w] = "stat" /\ pkg'[w] = b /\ \A v \in Worker : v # w => pc'[v] = "idle"
  BY <1>1, Zenon DEF IInv, TypeOK
<1>3. /\ receipt = receiptDisk /\ ackSeq <= receiptDisk
      /\ \A a \in Good : receiptDisk < Last[a] => progress[a] = progressDisk[a]
  BY <1>1, Zenon DEF IInv, ReceiptShape, ProgressShape
<1>4. b \in Good /\ receiptDisk = 0 => First[b] = 1
  <2>1. ackSeq \in Nat
    BY Zenon DEF IInv, TypeOK
  <2>2. receiptDisk = 0 => ackSeq = 0
    BY <1>3, <2>1
  <2>3. b \in Good => First[b] = ackSeq + 1 \/ ackSeq > 0 \/ First[b] = 1
    BY <1>1, Zenon DEF MaySend
  <2> QED
    BY <2>2, <2>3
<1>5. OneActive' /\ Position'
  BY <1>1, <1>2, <1>4 DEF OneActive, Position, Applying, Finishing
<1>6. ReceiptShape' /\ ProgressShape' /\ RunShape'
  BY <1>1, <1>2, <1>3, ReceiptFrame, ProgressFrame, RunFrame
<1>7. \A a \in Package : ready'[a] # "absent" \/ ready'[a] = ready[a]
  BY <1>1, Zenon DEF IInv, TypeOK
<1>8. ReadyKept'
  BY <1>1, <1>2, <1>7 DEF IInv, ReadyKept, Applying, Good
<1> QED
  BY <1>1, <1>5, <1>6, <1>8, DataFrame, Zenon DEF IInv

(* The worker in apply: its package is the next one, its index is the       *)
(* durable progress, and no other worker is in the way.                     *)
LEMMA ApplyFacts ==
    ASSUME Setting, IInv, NEW w \in Worker, pc[w] = "apply"
    PROVE  /\ pkg[w] \in Good /\ next[w] \in Nat /\ receiptDisk \in Nat
           /\ First[pkg[w]] = receiptDisk + 1
           /\ receiptDisk < Last[pkg[w]]
           /\ receipt = receiptDisk
           /\ next[w] = progress[pkg[w]]
           /\ next[w] = progressDisk[pkg[w]]
           /\ \A v \in Worker : v # w => pc[v] = "idle"
           /\ CurrentFile(w) \subseteq Run(pkg[w], next[w]) \ flushed[w]
           /\ readyDisk[pkg[w]] # "absent"
<1>1. pkg[w] \in Good /\ First[pkg[w]] = receiptDisk + 1 /\ readyDisk[pkg[w]] # "absent"
  BY Zenon DEF IInv, Position, ReadyKept, Applying
<1>2. next[w] \in Nat /\ receiptDisk \in Nat
  BY Zenon DEF IInv, TypeOK
<1>3. receiptDisk < Last[pkg[w]]
  <2>1. First[pkg[w]] <= Last[pkg[w]] /\ Last[pkg[w]] \in Nat
    BY <1>1, PackageFacts, Zenon
  <2> QED
    BY <1>1, <1>2, <2>1
<1>4. /\ receipt = receiptDisk
      /\ \A b \in Good : receiptDisk < Last[b] => progress[b] = progressDisk[b]
  BY Settled, Zenon
<1>5. next[w] = progress[pkg[w]]
  BY Zenon DEF IInv, ProgressShape
<1>6. next[w] = progressDisk[pkg[w]]
  BY <1>1, <1>3, <1>4, <1>5, Zenon
<1>7. \A v \in Worker : v # w => pc[v] = "idle"
  BY Zenon DEF IInv, OneActive
<1>8. CurrentFile(w) \subseteq Run(pkg[w], next[w]) \ flushed[w]
  BY Zenon DEF CurrentFile
<1> QED
  BY <1>1, <1>2, <1>3, <1>4, <1>5, <1>6, <1>7, <1>8


----------------------------------------------------------------------------
(* The steps that apply operations or record them keep the invariant.       *)

(* The run a worker has in hand.                                            *)
LEMMA RunInHand ==
    ASSUME IInv, NEW w \in Worker, pc[w] = "apply", NEW b, b = pkg[w], NEW n, n = next[w]
    PROVE  /\ flushed[w] \subseteq written[w] /\ written[w] \subseteq Run(b, n)
           /\ \A j \in written[w] : \A i \in Run(b, n) :
                  i < j /\ OpOf(b, i).paths \cap OpOf(b, j).paths # {} => i \in written[w]
           /\ \A k \in written[w] : \A p \in OpOf(b, k).paths : file[p] >= SeqOf(b, k)
           /\ \A k \in flushed[w] : Durable(SeqOf(b, k))
BY Zenon DEF IInv, RunShape

(* An operation is applied after everything before its run is durable.      *)
LEMMA ApplyOpStep ==
    ASSUME Setting, IInv, TypeOK', NEW w \in Worker, ApplyOp(w)
    PROVE  IInv'
<1>a. /\ pc[w] = "apply"
      /\ UNCHANGED <<ready, readyDisk, progress, progressDisk, receipt, receiptDisk, fileDisk,
                     pc, pkg, next, flushed, ackSeq>>
  BY Zenon DEF ApplyOp, inbox
<1>0. PICK b \in Good, n \in Nat : b = pkg[w] /\ n = next[w]
  BY <1>a, ApplyFacts, Zenon
<1>b. /\ flushed[w] \subseteq written[w] /\ written[w] \subseteq Run(b, n)
      /\ \A j \in written[w] : \A i \in Run(b, n) :
             i < j /\ OpOf(b, i).paths \cap OpOf(b, j).paths # {} => i \in written[w]
      /\ \A j \in written[w] : \A p \in OpOf(b, j).paths : file[p] >= SeqOf(b, j)
      /\ \A j \in flushed[w] : Durable(SeqOf(b, j))
  BY <1>a, <1>0, RunInHand, Zenon
<1>1. PICK k \in CurrentFile(w) \ written[w] :
          /\ \A j \in CurrentFile(w) \ written[w] : k <= j
          /\ written' = [written EXCEPT ![w] = @ \cup {k}]
          /\ file' = [p \in Path |-> IF p \in OpOf(b, k).paths
                                     THEN SeqOf(b, k) ELSE file[p]]
  BY <1>0, Zenon DEF ApplyOp
<1>2. /\ b \in Good /\ n \in Nat /\ First[b] = receiptDisk + 1 /\ receiptDisk < Last[b]
      /\ receipt = receiptDisk /\ n = progress[b] /\ n = progressDisk[b]
      /\ readyDisk[b] # "absent"
      /\ \A v \in Worker : v # w => pc[v] = "idle"
      /\ k \in Run(b, n) \ flushed[w]
      /\ receiptDisk \in Nat
  BY <1>a, <1>0, <1>1, ApplyFacts, Zenon
<1>3. /\ k \in Nat /\ n < k /\ k <= Size(b)
      /\ SeqOf(b, k) \in 1..N /\ SeqOf(b, k) > receiptDisk
      /\ First[b] <= SeqOf(b, k) /\ SeqOf(b, k) <= Last[b]
      /\ OpOf(b, k).paths \subseteq Path
  <2>1. k \in 1..Size(b) /\ n < k
    BY <1>2, RunFacts, PackageFacts
  <2> QED
    BY <1>2, <2>1, OpFacts, PackageFacts
<1>4. ASSUME NEW s \in 1..N, Durable(s), s <= SeqOf(b, k) \/ Journal[s].paths \cap OpOf(b, k).paths = {}
      PROVE  Durable(s)'
  <2>1. Journal[s].paths \subseteq Path
    BY JournalFacts, Zenon
  <2> QED
    <3> SUFFICES ASSUME NEW p \in Journal[s].paths PROVE file'[p] >= s /\ fileDisk'[p] >= s
      BY Zenon DEF Durable
    <3>1. p \in Path /\ file[p] >= s /\ fileDisk[p] >= s
      BY <1>4, <2>1, Zenon DEF Durable
    <3>2. fileDisk' = fileDisk
      BY <1>a, Zenon
    <3>3. p \in OpOf(b, k).paths => s <= SeqOf(b, k)
      BY <1>4, Zenon
    <3> QED
      BY <1>1, <1>3, <3>1, <3>2, <3>3, Zenon
<1>5. ASSUME NEW j \in written[w], OpOf(b, j).paths \cap OpOf(b, k).paths # {}
      PROVE  j < k
  <2>1. j \in Run(b, n) /\ j # k
    BY <1>1, <1>b, Zenon
  <2>2. j \in Nat
    BY <1>2, <2>1, RunFacts, Zenon
  <2>3. ~ (k < j)
    BY <1>1, <1>2, <1>5, <1>b, Zenon
  <2> QED
    BY <1>3, <2>1, <2>2, <2>3
<1>6. ASSUME NEW i \in Run(b, n), i < k, OpOf(b, i).paths \cap OpOf(b, k).paths # {}
      PROVE  i \in written[w]
  <2>1. SUFFICES ASSUME i \notin written[w] PROVE FALSE
    BY Zenon
  <2>2. i \in Run(b, n) \ flushed[w]
    BY <2>1, <1>b, Zenon
  <2>3. OpOf(b, i).paths = OpOf(b, k).paths
    <3>1. i \in 1..Size(b) /\ k \in 1..Size(b)
      BY <1>2, RunFacts, PackageFacts
    <3>2. OpOf(b, i).type = "write" /\ OpOf(b, k).type = "write"
      <4>1. i # k
        BY <1>3, <1>6, <3>1
      <4> QED
        BY <1>2, <4>1, RunFacts, Zenon
    <3>3. PICK p \in Path : OpOf(b, i).paths = {p}
      BY <1>2, <3>1, <3>2, OpFacts, Zenon
    <3>4. PICK q \in Path : OpOf(b, k).paths = {q}
      BY <1>2, <3>1, <3>2, OpFacts, Zenon
    <3> QED
      BY <1>6, <3>3, <3>4, Zenon
  <2>4. i \in CurrentFile(w)
    BY <1>0, <1>1, <2>2, <2>3, Zenon DEF CurrentFile
  <2> QED
    <3>1. i \in Nat
      BY <1>2, RunFacts, Zenon
    <3>2. k <= i
      BY <1>1, <2>1, <2>4, Zenon
    <3> QED
      BY <1>3, <1>6, <3>1, <3>2
<1>7. OneActive' /\ ReceiptShape' /\ Position' /\ ReadyKept'
  BY <1>a, Zenon DEF OneActive, ReceiptShape, Position, ReadyKept, IInv
<1>8. ProgressShape'
  BY <1>a, Zenon DEF ProgressShape, IInv
<1>9. RunShape'
  <2>1. \A v \in Worker : v # w => pc'[v] = "idle"
    BY <1>2, <1>a, Zenon
  <2>2. /\ pc'[w] = "apply" /\ pkg'[w] = b /\ next'[w] = n
        /\ written'[w] = written[w] \cup {k} /\ flushed'[w] = flushed[w]
    BY <1>a, <1>0, <1>1, Zenon DEF IInv, TypeOK
  <2>3. flushed[w] \subseteq written[w] /\ written[w] \subseteq Run(b, n)
    BY <1>b, Zenon
  <2>4. \A j \in written'[w] : \A i \in Run(b, n) :
            i < j /\ OpOf(b, i).paths \cap OpOf(b, j).paths # {} => i \in written'[w]
    BY <1>b, <1>6, <2>2, Zenon
  <2>5. ASSUME NEW j \in written'[w], NEW p \in OpOf(b, j).paths
        PROVE  file'[p] >= SeqOf(b, j)
    <3>1. j \in 1..Size(b)
      BY <1>2, <2>2, <2>3, RunFacts, PackageFacts
    <3>2. p \in Path /\ SeqOf(b, j) \in Nat
      BY <1>2, <3>1, OpFacts, PackageFacts
    <3>3. CASE p \in OpOf(b, k).paths
      <4>1. j <= k
        BY <1>5, <2>2, <3>3, <3>1, <1>3
      <4> QED
        BY <1>1, <1>2, <1>3, <3>1, <3>2, <3>3, <4>1, PackageFacts, SMTT(30) DEF SeqOf
    <3>4. CASE p \notin OpOf(b, k).paths
      BY <1>b, <1>1, <1>3, <2>2, <3>2, <3>4, Zenon
    <3> QED
      BY <3>3, <3>4, Zenon
  <2>6. ASSUME NEW j \in flushed'[w] PROVE Durable(SeqOf(b, j))'
    <3>1. j \in written[w] /\ Durable(SeqOf(b, j))
      BY <1>b, <2>2, Zenon
    <3>2. j \in 1..Size(b)
      BY <1>2, <2>3, <3>1, RunFacts, PackageFacts
    <3>3. SeqOf(b, j) \in 1..N /\ Journal[SeqOf(b, j)] = OpOf(b, j)
      BY <1>2, <3>2, OpFacts, Zenon
    <3>4. j < k => SeqOf(b, j) <= SeqOf(b, k)
      BY <1>2, <1>3, <3>2, PackageFacts DEF SeqOf
    <3>5. Journal[SeqOf(b, j)].paths \cap OpOf(b, k).paths # {} => SeqOf(b, j) <= SeqOf(b, k)
      BY <1>5, <3>1, <3>3, <3>4, Zenon
    <3> QED
      BY <1>4, <3>1, <3>3, <3>5, Zenon
  <2>7. /\ flushed'[w] \subseteq written'[w]
        /\ written'[w] \subseteq Run(b, n)
    BY <1>2, <2>2, <2>3, Zenon
  <2> SUFFICES ASSUME NEW v \in Worker, v = w PROVE
            /\ pc'[v] = "syncProgress" => written'[v] = {}
            /\ flushed'[v] \subseteq written'[v]
            /\ written'[v] \subseteq Run(b, n)
            /\ \A j \in written'[v] : \A i \in Run(b, n) :
                   i < j /\ OpOf(b, i).paths \cap OpOf(b, j).paths # {} => i \in written'[v]
            /\ \A j \in written'[v] : \A p \in OpOf(b, j).paths : file'[p] >= SeqOf(b, j)
            /\ \A j \in flushed'[v] : Durable(SeqOf(b, j))'
    BY <2>1, <2>2, Zenon DEF RunShape
  <2> QED
    BY <2>2, <2>4, <2>5, <2>6, <2>7, Zenon
<1>10. VisibleShape'
  <2> SUFFICES ASSUME NEW t \in 1..N, Visible(t)'
               PROVE  Visible(t) \/ t = SeqOf(b, k)
    <3>1. SeqOf(b, k) - First[b] + 1 = k
      BY <1>2, <1>3, PackageFacts DEF SeqOf
    <3> QED
      BY <1>a, <1>2, <1>3, <3>1, SMTT(30) DEF VisibleShape, IInv
  <2>1. PICK p \in Path : file'[p] = t \/ fileDisk'[p] = t
    BY Zenon DEF Visible
  <2>2. fileDisk' = fileDisk
    BY <1>a, Zenon
  <2> QED
    BY <1>1, <2>1, <2>2, Zenon DEF Visible
<1>11. ReceiptCovers'
  <2> SUFFICES ASSUME NEW t \in 1..N, t <= receiptDisk PROVE Durable(t)'
    BY <1>a, <1>2, Zenon DEF ReceiptCovers
  <2>1. Durable(t)
    BY <1>2, Zenon DEF ReceiptCovers, IInv
  <2>2. t \in Int
    BY JournalAssumption DEF N
  <2>3. t <= SeqOf(b, k)
    <3>1. SeqOf(b, k) \in Int /\ receiptDisk \in Int /\ SeqOf(b, k) > receiptDisk
      BY <1>2, <1>3, JournalAssumption DEF N
    <3> QED
      BY <2>2, <3>1, SMTT(30)
  <2> QED
    BY <1>4, <2>1, <2>3, Zenon
<1>12. ProgressCovers'
  <2> SUFFICES ASSUME NEW a \in Good, NEW j \in 1..Size(a),
                      j <= progress[a] \/ j <= progressDisk[a]
               PROVE  Durable(SeqOf(a, j))'
    BY <1>a, Zenon DEF ProgressCovers
  <2>1. Durable(SeqOf(a, j)) /\ SeqOf(a, j) \in 1..N
    BY OpFacts, Zenon DEF ProgressCovers, IInv
  <2>2. SeqOf(a, j) <= SeqOf(b, k)
    <3>1. CASE a = b
      <4>1. j \in Int /\ First[b] \in Nat /\ j <= n
        <5>1. j \in 1..Size(b) /\ j <= n
          BY <1>2, <3>1, Zenon
        <5> QED
          BY <5>1, PackageFacts
      <4> QED
        BY <1>2, <1>3, <3>1, <4>1 DEF SeqOf
    <3>2. CASE a # b
      <4>1. First[a] <= First[b]
        <5>1. progress[a] # 0 \/ progressDisk[a] # 0
          <6>1. j >= 1 /\ j \in Int
            BY PackageFacts
          <6> QED
            BY <6>1
        <5> QED
          BY <1>2, <5>1, SMTT(30) DEF ProgressShape, IInv
      <4>2. Last[a] < First[b]
        BY <1>2, <3>2, <4>1, SameFirst, Zenon DEF Setting
      <4>3. SeqOf(a, j) <= Last[a]
        BY OpFacts, Zenon
      <4> QED
        BY <1>2, <1>3, <2>1, <4>2, <4>3, PackageFacts, SMTT(30)
    <3> QED
      BY <3>1, <3>2, Zenon
  <2> QED
    BY <1>4, <2>1, <2>2, Zenon
<1> QED
  BY <1>7, <1>8, <1>9, <1>10, <1>11, <1>12, Zenon DEF IInv

(* The fsync of one file makes its operations of the run durable.           *)
LEMMA SyncFileStep ==
    ASSUME Setting, IInv, TypeOK', NEW w \in Worker, SyncFile(w)
    PROVE  IInv'
<1>a. /\ pc[w] = "apply"
      /\ UNCHANGED <<ready, readyDisk, progress, progressDisk, receipt, receiptDisk, file,
                     pc, pkg, next, written, ackSeq>>
  BY Zenon DEF SyncFile, inbox
<1>0. PICK b \in Good, n \in Nat : b = pkg[w] /\ n = next[w]
  BY <1>a, ApplyFacts, Zenon
<1>1. \A v \in Worker : v # w => pc[v] = "idle"
  BY <1>a, ApplyFacts, Zenon
<1>2. \A p \in Path : \/ fileDisk'[p] = fileDisk[p]
                      \/ fileDisk'[p] = file[p]
  BY Zenon DEF SyncFile
<1>3. ASSUME NEW s \in 1..N, Durable(s) PROVE Durable(s)'
  <2> SUFFICES ASSUME NEW p \in Journal[s].paths PROVE file'[p] >= s /\ fileDisk'[p] >= s
    BY Zenon DEF Durable
  <2>1. p \in Path /\ file[p] >= s /\ fileDisk[p] >= s
    BY <1>3, JournalFacts, Zenon DEF Durable
  <2> QED
    BY <1>a, <1>2, <2>1, Zenon
<1>4. OneActive' /\ ReceiptShape' /\ Position' /\ ReadyKept' /\ ProgressShape'
  <2>1. OneActive' /\ ReceiptShape' /\ Position'
    BY <1>a, Zenon DEF OneActive, ReceiptShape, Position, IInv
  <2>2. ReadyKept' /\ ProgressShape'
    BY <1>a, ZenonT(40) DEF ReadyKept, ProgressShape, IInv
  <2> QED
    BY <2>1, <2>2
<1>5. RunShape'
  <2>1. /\ flushed[w] \subseteq written[w] /\ written[w] \subseteq Run(b, n)
        /\ \A j \in written[w] : \A i \in Run(b, n) :
               i < j /\ OpOf(b, i).paths \cap OpOf(b, j).paths # {} => i \in written[w]
        /\ \A k \in written[w] : \A p \in OpOf(b, k).paths : file[p] >= SeqOf(b, k)
        /\ \A k \in flushed[w] : Durable(SeqOf(b, k))
    BY <1>a, <1>0, RunInHand, Zenon
  <2>2. flushed'[w] = flushed[w] \cup CurrentFile(w) /\ CurrentFile(w) \subseteq written[w]
    BY Zenon DEF SyncFile, IInv, TypeOK
  <2>3. ASSUME NEW k \in flushed'[w] PROVE Durable(SeqOf(b, k))'
    <3>1. k \in written[w]
      BY <2>1, <2>2, ZenonT(40)
    <3>2. k \in 1..Size(b)
      BY <2>1, <3>1, RunFacts, PackageFacts
    <3>3. SeqOf(b, k) \in 1..N /\ Journal[SeqOf(b, k)] = OpOf(b, k)
          /\ OpOf(b, k).paths \subseteq Path
      BY <3>2, OpFacts, Zenon
    <3>4. CASE k \in flushed[w]
      BY <1>3, <2>1, <3>3, <3>4, Zenon
    <3>5. CASE k \in CurrentFile(w)
      <4>1. \A p \in OpOf(b, k).paths : fileDisk'[p] = file[p]
        BY <1>0, <3>3, <3>5, Zenon DEF SyncFile
      <4> QED
        BY <1>a, <2>1, <3>1, <3>3, <4>1, Zenon DEF Durable
    <3> QED
      BY <2>2, <3>4, <3>5, Zenon
  <2>4. flushed'[w] \subseteq written'[w]
    BY <1>a, <2>1, <2>2, ZenonT(40)
  <2> SUFFICES ASSUME NEW v \in Worker, v = w PROVE
            /\ pc'[v] = "syncProgress" => written'[v] = {}
            /\ flushed'[v] \subseteq written'[v]
            /\ written'[v] \subseteq Run(b, n)
            /\ \A j \in written'[v] : \A i \in Run(b, n) :
                   i < j /\ OpOf(b, i).paths \cap OpOf(b, j).paths # {} => i \in written'[v]
            /\ \A j \in written'[v] : \A p \in OpOf(b, j).paths : file'[p] >= SeqOf(b, j)
            /\ \A j \in flushed'[v] : Durable(SeqOf(b, j))'
    BY <1>a, <1>0, <1>1, ZenonT(40) DEF RunShape
  <2> QED
    BY <1>a, <2>1, <2>3, <2>4, Zenon
<1>6. VisibleShape'
  <2>1. \A t \in 1..N : Visible(t)' => Visible(t)
    BY <1>a, <1>2, Zenon DEF Visible
  <2> QED
    BY <1>a, <2>1, Zenon DEF VisibleShape, IInv
<1>7. ReceiptCovers'
  BY <1>a, <1>3, Zenon DEF ReceiptCovers, IInv
<1>8. ProgressCovers'
  BY <1>a, <1>3, OpFacts, Zenon DEF ProgressCovers, IInv
<1> QED
  BY <1>4, <1>5, <1>6, <1>7, <1>8, Zenon DEF IInv

(* The progress record is written after the whole run is durable.           *)
LEMMA CheckpointStep ==
    ASSUME Setting, IInv, TypeOK', NEW w \in Worker, Checkpoint(w)
    PROVE  IInv'
<1> USE DEF inbox, share, Goto
<1>0. PICK b \in Good, n \in Nat :
          /\ b = pkg[w] /\ n = next[w] /\ n = progress[b] /\ n = progressDisk[b]
          /\ First[b] = receiptDisk + 1 /\ receiptDisk < Last[b] /\ receiptDisk \in Nat
  BY ApplyFacts, Zenon DEF Checkpoint, CheckpointWhen
<1>1. \A v \in Worker : v # w => pc[v] = "idle"
  BY ApplyFacts, Zenon DEF Checkpoint, CheckpointWhen
<1>2. PICK e \in Run(b, n) :
          /\ \A k \in Run(b, n) : k <= e
          /\ progress' = [progress EXCEPT ![b] = e]
          /\ next' = [next EXCEPT ![w] = e]
  BY <1>0, Zenon DEF Checkpoint, CheckpointWhen
<1>3. e \in Nat /\ n < e /\ e <= Size(b) /\ (n + 1)..e \subseteq Run(b, n)
  BY RunFacts, Zenon
<1>4. /\ pc' = [pc EXCEPT ![w] = "syncProgress"]
      /\ written' = [written EXCEPT ![w] = {}]
      /\ flushed' = [flushed EXCEPT ![w] = {}]
      /\ UNCHANGED <<ready, readyDisk, progressDisk, receipt, receiptDisk, file, fileDisk,
                     pkg, ackSeq>>
      /\ Run(b, n) \subseteq flushed[w]
      /\ pc[w] = "apply"
  BY <1>0, Zenon DEF Checkpoint, CheckpointWhen
<1>5. OneActive' /\ ReceiptShape' /\ Position' /\ ReadyKept'
  <2>1. pc'[w] = "syncProgress" /\ (\A v \in Worker : v # w => pc'[v] = "idle") /\ OneActive'
    BY <1>4, Alone, ZenonT(40)
  <2>2. receipt = receiptDisk /\ ackSeq <= receiptDisk
    BY <1>4, Settled, Zenon DEF IInv, ReceiptShape
  <2>3. ReceiptShape'
    BY <1>4, <2>2, ReceiptFrame, Zenon
  <2>4. Position'
    BY <1>4, <2>1, Zenon DEF IInv, Position, Applying, Finishing
  <2>5. readyDisk[pkg[w]] # "absent"
    BY <1>4, ApplyFacts, SMTT(30)
  <2>6. ReadyKept'
    BY <1>4, <2>1, <2>5, ReadyFrame
  <2> QED
    BY <2>1, <2>3, <2>4, <2>6, Zenon
<1>6. ProgressShape'
  <2>1. progress'[b] = e /\ (\A a \in Good : a # b => progress'[a] = progress[a])
    BY <1>2, PackageFacts, Zenon DEF IInv, TypeOK
  <2>2. pc'[w] = "syncProgress" /\ pkg'[w] = b /\ next'[w] = e
    BY <1>0, <1>2, <1>4, Zenon DEF IInv, TypeOK
  <2>3. \A v \in Worker : v # w => pc'[v] = "idle"
    BY <1>1, <1>4
  <2>4. ASSUME NEW a \in Good, progress'[a] # 0 \/ progressDisk'[a] # 0
        PROVE  First[a] <= receiptDisk' + 1
    <3>1. CASE a = b
      BY <1>0, <1>4, <3>1
    <3>2. CASE a # b
      BY <1>4, <2>1, <2>4, <3>2, Zenon DEF ProgressShape, IInv
    <3> QED
      BY <3>1, <3>2, Zenon
  <2>5. ASSUME NEW a \in Good, receiptDisk' < Last[a], progress'[a] # progressDisk'[a]
        PROVE  a = b
    BY <1>1, <1>4, <2>1, <2>5, Zenon DEF ProgressShape, IInv
  <2>6. progress'[b] > progressDisk'[b] /\ \A k \in Run(b, progressDisk'[b]) : k <= progress'[b]
    BY <1>0, <1>2, <1>3, <1>4, <2>1, Zenon
  <2> QED
    BY <2>1, <2>2, <2>3, <2>4, <2>5, <2>6, Zenon DEF ProgressShape
<1>7. RunShape'
  <2>1. pc'[w] = "syncProgress" /\ written'[w] = {} /\ flushed'[w] = {}
    BY <1>4 DEF IInv, TypeOK
  <2>2. \A v \in Worker : v # w => pc'[v] = "idle"
    BY <1>1, <1>4
  <2> QED
    BY <2>1, <2>2, SMTT(30) DEF RunShape
<1>8. VisibleShape'
  BY <1>4, Zenon DEF VisibleShape, Visible, IInv
<1>9. ReceiptCovers'
  BY <1>4, Zenon DEF ReceiptCovers, Durable, IInv
<1>10. ProgressCovers'
  <2> SUFFICES ASSUME NEW a \in Good, NEW k \in 1..Size(a),
                      k <= progress'[a] \/ k <= progressDisk'[a]
               PROVE  Durable(SeqOf(a, k))
    BY <1>4 DEF ProgressCovers, Durable
  <2>1. CASE k <= progress[a] \/ k <= progressDisk[a]
    BY <2>1, Zenon DEF ProgressCovers, IInv
  <2>2. CASE ~(k <= progress[a] \/ k <= progressDisk[a])
    <3>1. a = b /\ k <= e
      BY <1>2, <1>4, <2>2, PackageFacts DEF IInv, TypeOK
    <3>2. k \in (n + 1)..e
      <4>1. k \in Int /\ ~(k <= n)
        BY <1>0, <2>2, <3>1, PackageFacts
      <4> QED
        BY <1>3, <3>1, <4>1
    <3>3. k \in flushed[w]
      BY <1>3, <1>4, <3>2, Zenon
    <3> QED
      BY <1>0, <1>4, <3>1, <3>3, SMTT(30) DEF RunShape, IInv
  <2> QED
    BY <2>1, <2>2, ZenonT(40)
<1> QED
  BY <1>5, <1>6, <1>7, <1>8, <1>9, <1>10, Zenon DEF IInv

(* The receipt is written after the whole package is durable.               *)
LEMMA WriteReceiptStep ==
    ASSUME Setting, IInv, TypeOK', NEW w \in Worker, WriteReceipt(w)
    PROVE  IInv'
<1> USE DEF inbox, share, Goto
<1>0. PICK b \in Good, n \in Nat :
          /\ b = pkg[w] /\ n = next[w] /\ n = progress[b]
          /\ First[b] = receiptDisk + 1 /\ receiptDisk < Last[b] /\ receiptDisk \in Nat
          /\ receipt = receiptDisk
  BY ApplyFacts, Zenon DEF WriteReceipt, WriteReceiptWhen
<1>1. \A v \in Worker : v # w => pc[v] = "idle"
  BY ApplyFacts, Zenon DEF WriteReceipt, WriteReceiptWhen
<1>2. /\ pc' = [pc EXCEPT ![w] = "syncReceipt"] /\ pc[w] = "apply"
      /\ n >= Size(b)
      /\ receipt' = Last[b]
      /\ UNCHANGED <<ready, readyDisk, progress, progressDisk, receiptDisk, file, fileDisk,
                     pkg, next, written, flushed, ackSeq>>
  BY <1>0 DEF WriteReceipt, WriteReceiptWhen
<1>3. pc'[w] = "syncReceipt" /\ pkg'[w] = b /\ \A v \in Worker : v # w => pc'[v] = "idle"
  BY <1>0, <1>1, <1>2, Zenon DEF IInv, TypeOK
<1>4. OneActive' /\ ReceiptShape' /\ RunShape'
  <2>1. OneActive' /\ RunShape'
    BY <1>3 DEF OneActive, RunShape
  <2>2. receiptDisk <= receipt'
    <3>1. Last[b] \in Nat /\ receiptDisk \in Nat /\ receiptDisk < Last[b]
      BY <1>0, PackageFacts, Zenon
    <3>2. receiptDisk <= Last[b]
      BY <3>1, SMTT(30)
    <3> QED
      BY <1>2, <3>2, Zenon
  <2> QED
    BY <1>2, <1>3, <2>1, <2>2, Zenon DEF ReceiptShape, IInv
<1>5. Position'
  BY <1>0, <1>2, <1>3, SMTT(30) DEF Position, Applying, Finishing, IInv
<1>6. ReadyKept' /\ ProgressShape'
  <2>1. readyDisk[b] # "absent"
    BY <1>0, <1>2 DEF ReadyKept, Applying, IInv
  <2>2. ReadyKept'
    BY <1>2, <1>3, <2>1, Zenon DEF ReadyKept, Applying, IInv
  <2>3. \A v \in Worker : pc[v] # "syncProgress"
    BY <1>1, <1>2, Zenon
  <2> QED
    BY <1>2, <1>3, <2>2, <2>3 DEF ProgressShape, IInv
<1>7. VisibleShape' /\ ProgressCovers'
  BY <1>2 DEF VisibleShape, Visible, ProgressCovers, Durable, IInv
<1>8. ReceiptCovers'
  <2> SUFFICES ASSUME NEW t \in 1..N, t <= Last[b] PROVE Durable(t)
    BY <1>2 DEF ReceiptCovers, Durable
  <2>1. CASE t <= receipt
    BY <2>1, Zenon DEF ReceiptCovers, IInv
  <2>2. CASE ~(t <= receipt)
    <3>1. First[b] \in Nat /\ Last[b] \in Nat
      BY PackageFacts
    <3> DEFINE k == t - First[b] + 1
    <3>2. k \in 1..Size(b) /\ SeqOf(b, k) = t
      BY <1>0, <2>2, <3>1, SMTT(30) DEF Size, SeqOf
    <3>3. k <= progress[b]
      BY <1>0, <1>2, <3>1, <3>2 DEF Size
    <3> QED
      BY <3>2, <3>3, SMTT(30) DEF ProgressCovers, IInv
  <2> QED
    BY <2>1, <2>2, ZenonT(40)
<1> QED
  BY <1>4, <1>5, <1>6, <1>7, <1>8, Zenon DEF IInv


----------------------------------------------------------------------------
(* The theorems.                                                            *)

(* Every step keeps the types.                                              *)
LEMMA TypeStep == TypeOK /\ [Next]_vars => TypeOK'
<1> SUFFICES ASSUME TypeOK, [Next]_vars PROVE TypeOK'
  BY Zenon
<1> USE DEF TypeOK, Goto, inbox, share, ReadyState, Pc
<1>1. ASSUME NEW w \in Worker, StatAndSync(w) PROVE TypeOK'
  BY <1>1 DEF StatAndSync, SyncInboxDirectory
<1>2. ASSUME NEW w \in Worker, ReadPackage(w) PROVE TypeOK'
  BY <1>2, Zenon DEF ReadPackage
<1>3. ASSUME NEW w \in Worker, CheckReceipt(w) PROVE TypeOK'
  BY <1>3, BoundAssumption DEF CheckReceipt, CheckReceiptWith, ReadableReceipts
<1>4. ASSUME NEW w \in Worker, ReadProgress(w) PROVE TypeOK'
  BY <1>4, Zenon DEF ReadProgress
<1>5. ASSUME NEW w \in Worker, ApplyOp(w) PROVE TypeOK'
  <2>1. pkg[w] \in Package /\ next[w] \in Nat
    BY <1>5, Zenon
  <2>2. ASSUME NEW k \in CurrentFile(w) PROVE k \in Nat /\ SeqOf(pkg[w], k) \in Nat
    <3>1. k \in (next[w] + 1)..Size(pkg[w])
      BY <2>2, Zenon DEF CurrentFile, Run
    <3>2. First[pkg[w]] \in Nat /\ Last[pkg[w]] \in Nat
      BY <2>1, PackageAssumption, Zenon
    <3> QED
      BY <2>1, <3>1, <3>2 DEF Size, SeqOf
  <2> QED
    BY <1>5, <2>2 DEF ApplyOp
<1>6. ASSUME NEW w \in Worker, SyncFile(w) PROVE TypeOK'
  BY <1>6, Zenon DEF SyncFile
<1>7. ASSUME NEW w \in Worker, Checkpoint(w) PROVE TypeOK'
  BY <1>7 DEF Checkpoint, CheckpointWhen
<1>8. ASSUME NEW w \in Worker, SyncProgress(w) PROVE TypeOK'
  BY <1>8, Zenon DEF SyncProgress, SyncInboxDirectory
<1>9. ASSUME NEW w \in Worker, WriteReceipt(w) PROVE TypeOK'
  BY <1>9, PackageAssumption, Zenon DEF WriteReceipt, WriteReceiptWhen
<1>10. ASSUME NEW w \in Worker, SyncReceipt(w) PROVE TypeOK'
  BY <1>10, Zenon DEF SyncReceipt
<1>11. ASSUME NEW w \in Worker, RemoveReady(w) PROVE TypeOK'
  BY <1>11, BoundAssumption, SMTT(30) DEF RemoveReady
<1>12. ASSUME NEW w \in Worker, RemoveProgress(w) PROVE TypeOK'
  BY <1>12, BoundAssumption, SMTT(30) DEF RemoveProgress
<1>13. ASSUME NEW w \in Worker, SyncRemovals(w) PROVE TypeOK'
  BY <1>13, BoundAssumption DEF SyncRemovals, SyncInboxDirectory
<1>14. ASSUME NEW w \in Worker, Return(w) PROVE TypeOK'
  BY <1>14, PackageAssumption, Zenon DEF Return
<1>15. ASSUME NEW w \in Worker, FailCommit(w) PROVE TypeOK'
  BY <1>15, BoundAssumption DEF FailCommit
<1>16. ASSUME NEW w \in Worker, NEW b \in Package, Rename(w, b) PROVE TypeOK'
  BY <1>16, ZenonT(40) DEF Rename
<1>17. ASSUME Crash PROVE TypeOK'
  BY <1>17, BoundAssumption DEF Crash
<1>18. CASE UNCHANGED vars
  BY <1>18, Zenon DEF vars, worker
<1> QED
  BY <1>1, <1>2, <1>3, <1>4, <1>5, <1>6, <1>7, <1>8, <1>9, <1>10, <1>11, <1>12,
     <1>13, <1>14, <1>15, <1>16, <1>17, <1>18, Zenon DEF Next, CommitReady, RenameRefused

(* Every state has the types of TypeOK: no counter, index or sequence       *)
(* number leaves its range in any step of CommitReady or in a crash.        *)
THEOREM TypeCorrect == Spec => []TypeOK
<1>1. Init => TypeOK
  BY BoundAssumption DEF Init, TypeOK, ReadyState, Pc
<1> QED
  BY <1>1, TypeStep, PTL DEF Spec

----------------------------------------------------------------------------
(* The invariant and what follows from it.                                  *)

(* A crash leaves a state recovery can start from.                          *)
LEMMA CrashStep ==
    ASSUME Setting, IInv, TypeOK', Crash
    PROVE  IInv'
<1>1. /\ readyDisk' = ready'
      /\ progressDisk' = progress'
      /\ receipt' \in {receipt, receiptDisk} /\ receiptDisk' = receipt'
      /\ fileDisk' = file'
      /\ \A v \in Worker : pc'[v] = "idle"
      /\ UNCHANGED <<pkg, ackSeq>>
      /\ \A b \in Package : ready'[b] \in Survivors(ready[b], readyDisk[b])
      /\ \A b \in Package : progress'[b] \in {progress[b], progressDisk[b]}
      /\ \A p \in Path : file'[p] \in {file[p], fileDisk[p]}
  BY Zenon DEF Crash
<1>2. /\ TypeOK /\ ReceiptShape /\ Position /\ ReadyKept /\ ProgressShape /\ VisibleShape
      /\ ReceiptCovers /\ ProgressCovers
  BY Zenon DEF IInv
<1>3. /\ receiptDisk \in Nat /\ receipt \in Nat /\ receiptDisk' \in Nat
      /\ receiptDisk <= receiptDisk' /\ receiptDisk' <= receipt /\ receipt' = receiptDisk'
  BY <1>1, <1>2 DEF TypeOK, ReceiptShape
<1>4. receiptDisk' # receiptDisk =>
          \E w \in Worker : /\ pc[w] = "syncReceipt" /\ pkg[w] \in Good
                            /\ receiptDisk' = Last[pkg[w]]
                            /\ First[pkg[w]] = receiptDisk + 1
  BY <1>1, <1>2, Zenon DEF ReceiptShape, Position
<1>5. ASSUME NEW s \in 1..N, Durable(s) PROVE Durable(s)'
  <2> SUFFICES ASSUME NEW p \in Journal[s].paths PROVE file'[p] >= s /\ fileDisk'[p] >= s
    BY Zenon DEF Durable
  <2>1. p \in Path /\ file[p] >= s /\ fileDisk[p] >= s
    BY <1>5, JournalFacts, Zenon DEF Durable
  <2> QED
    BY <1>1, <2>1, Zenon
<1>6. OneActive' /\ RunShape'
  BY <1>1, Zenon DEF OneActive, RunShape
<1>7. Position'
  BY <1>1, Zenon DEF Position, Applying, Finishing
<1>8. ReceiptShape'
  <2>1. receiptDisk' = 0 \/ \E b \in Good : receiptDisk' = Last[b]
    BY <1>2, <1>4, Zenon DEF ReceiptShape
  <2>2. ackSeq' <= receiptDisk'
    BY <1>1, <1>2, <1>3 DEF TypeOK, ReceiptShape
  <2> QED
    BY <1>1, <1>3, <2>1, <2>2, Zenon DEF ReceiptShape
<1>9. ReadyKept'
  BY <1>1, Zenon DEF ReadyKept, Applying
<1>10. ProgressShape'
  <2>1. ASSUME NEW b \in Good, progress'[b] # 0 PROVE First[b] <= receiptDisk' + 1
    <3>1. First[b] <= receiptDisk + 1
      BY <1>1, <1>2, <2>1, PackageFacts, Zenon DEF ProgressShape
    <3> QED
      BY <1>3, <3>1, PackageFacts
  <2> QED
    BY <1>1, <2>1, Zenon DEF ProgressShape
<1>11. VisibleShape'
  <2> SUFFICES ASSUME NEW t \in 1..N, Visible(t)'
               PROVE  \E b \in Good :
                          /\ t \in First[b]..Last[b]
                          /\ \/ receiptDisk' >= Last[b]
                             \/ /\ First[b] = receiptDisk' + 1
                                /\ readyDisk'[b] # "absent"
                                /\ \/ t - First[b] + 1 <= progressDisk'[b]
                                   \/ t - First[b] + 1 \in Run(b, progressDisk'[b])
    BY Zenon DEF VisibleShape
  <2>1. Visible(t)
    BY <1>1, Zenon DEF Visible
  <2>2. PICK b \in Good :
            /\ t \in First[b]..Last[b]
            /\ \/ receiptDisk >= Last[b]
               \/ /\ First[b] = receiptDisk + 1
                  /\ readyDisk[b] # "absent"
                  /\ \/ t - First[b] + 1 <= progressDisk[b]
                     \/ t - First[b] + 1 \in Run(b, progressDisk[b])
    BY <1>2, <2>1, Zenon DEF VisibleShape
  <2>3. b \in Package /\ First[b] \in Nat /\ Last[b] \in Nat
    BY PackageFacts, Zenon
  <2>4. CASE receiptDisk' >= Last[b]
    BY <2>2, <2>4, Zenon
  <2>5. CASE ~(receiptDisk' >= Last[b])
    <3>1. First[b] = receiptDisk + 1 /\ receiptDisk < Last[b] /\ readyDisk[b] # "absent"
      BY <1>3, <2>2, <2>3, <2>5
    <3>2. receiptDisk' = receiptDisk
      <4> SUFFICES ASSUME receiptDisk' # receiptDisk PROVE FALSE
        BY Zenon
      <4>1. PICK w \in Worker : /\ pkg[w] \in Good /\ receiptDisk' = Last[pkg[w]]
                                /\ First[pkg[w]] = receiptDisk + 1
        BY <1>4, Zenon
      <4>2. Last[pkg[w]] = Last[b]
        BY <3>1, <4>1, SameFirst DEF Setting
      <4> QED
        BY <2>3, <2>5, <4>1, <4>2
    <3>3. readyDisk'[b] # "absent"
      BY <1>1, <1>2, <2>3, <3>1, Zenon DEF ReadyKept, Survivors
    <3>4. CASE progressDisk'[b] = progressDisk[b]
      BY <2>2, <3>1, <3>2, <3>3, <3>4, Zenon
    <3>5. CASE progressDisk'[b] # progressDisk[b]
      <4>1. progressDisk'[b] = progress[b]
        BY <1>1, <2>3, <3>5, Zenon
      <4>2. progress[b] > progressDisk[b] /\ \A k \in Run(b, progressDisk[b]) : k <= progress[b]
        BY <1>2, <3>1, <3>5, <4>1, Zenon DEF ProgressShape
      <4>3. t - First[b] + 1 <= progress[b]
        <5>1. progress[b] \in Nat /\ progressDisk[b] \in Nat /\ t \in Int
          BY <1>2, <2>3, JournalAssumption DEF TypeOK, N
        <5>2. t - First[b] + 1 <= progressDisk[b] \/ t - First[b] + 1 \in Run(b, progressDisk[b])
          BY <1>3, <2>2, <2>3, <3>1
        <5> QED
          BY <2>3, <4>2, <5>1, <5>2, SMTT(30)
      <4> QED
        BY <2>2, <3>1, <3>2, <3>3, <4>1, <4>3, Zenon
    <3> QED
      BY <3>4, <3>5, Zenon
  <2> QED
    BY <2>4, <2>5, Zenon
<1>12. ReceiptCovers'
  <2> SUFFICES ASSUME NEW t \in 1..N, t <= receipt' PROVE Durable(t)'
    BY Zenon DEF ReceiptCovers
  <2>1. t \in Int
    BY JournalAssumption DEF N
  <2>2. t <= receipt
    BY <1>3, <2>1
  <2> QED
    BY <1>2, <1>5, <2>2, Zenon DEF ReceiptCovers
<1>13. ProgressCovers'
  BY <1>1, <1>2, <1>5, OpFacts, PackageFacts, Zenon DEF ProgressCovers
<1> QED
  BY <1>6, <1>7, <1>8, <1>9, <1>10, <1>11, <1>12, <1>13, Zenon DEF IInv

(* The empty share satisfies the invariant.                                 *)
LEMMA IInvInit == ASSUME Init PROVE IInv
<1>1. TypeOK
  BY BoundAssumption DEF Init, TypeOK, ReadyState, Pc
<1>2. /\ \A b \in Package : readyDisk[b] = "absent" /\ progress[b] = 0 /\ progressDisk[b] = 0
      /\ receipt = 0 /\ receiptDisk = 0 /\ ackSeq = 0
      /\ \A p \in Path : file[p] = 0 /\ fileDisk[p] = 0
      /\ \A w \in Worker : pc[w] = "idle"
  BY DEF Init
<1>3. OneActive /\ Position /\ RunShape
  BY <1>2, Zenon DEF OneActive, Position, RunShape, Applying, Finishing
<1>4. ReceiptShape
  BY <1>2 DEF ReceiptShape
<1>5. \A b \in Good : b \in Package
  BY PackageFacts
<1>6. ReadyKept
  BY <1>2, <1>5, Zenon DEF ReadyKept, Applying
<1>7. ProgressShape
  BY <1>2, <1>5, Zenon DEF ProgressShape
<1>8. ProgressCovers
  BY <1>2, <1>5, PackageFacts DEF ProgressCovers
<1>9. VisibleShape
  BY <1>2 DEF VisibleShape, Visible
<1>10. ReceiptCovers
  BY <1>2 DEF ReceiptCovers
<1> QED
  BY <1>1, <1>3, <1>4, <1>6, <1>7, <1>8, <1>9, <1>10, Zenon DEF IInv

(* Every step keeps the invariant.                                          *)
LEMMA IInvNext == ASSUME Setting, IInv, [Next]_vars PROVE IInv'
<1>1. TypeOK'
  BY TypeStep, Zenon DEF IInv
<1>2. CASE UNCHANGED vars
  <2>1. UNCHANGED <<ready, readyDisk, progress, progressDisk, receipt, receiptDisk, file,
                    fileDisk, pc, pkg, next, written, flushed, ackSeq>>
    BY <1>2, Zenon DEF vars, inbox, share, worker
  <2>2. OneActive' /\ ReceiptShape' /\ Position'
    BY <2>1, Zenon DEF IInv, OneActive, ReceiptShape, Position
  <2>3. ReadyKept' /\ ProgressShape'
    BY <2>1, Zenon DEF IInv, ReadyKept, ProgressShape
  <2>4. RunShape'
    BY <2>1, Zenon DEF IInv, RunShape, Durable
  <2> QED
    BY <1>1, <2>1, <2>2, <2>3, <2>4, DataFrame, Zenon DEF IInv
<1>3. ASSUME NEW w \in Worker, CommitReady(w) PROVE IInv'
  BY <1>1, <1>3, StatAndSyncStep, ReadPackageStep, CheckReceiptStep, ReadProgressStep,
     ApplyOpStep, SyncFileStep, CheckpointStep, SyncProgressStep, WriteReceiptStep,
     SyncReceiptStep, RemoveReadyStep, RemoveProgressStep, SyncRemovalsStep, ReturnStep, Zenon
  DEF CommitReady
<1>4. ASSUME NEW w \in Worker, FailCommit(w) PROVE IInv'
  BY <1>1, <1>4, FailCommitStep, Zenon
<1>5. ASSUME NEW w \in Worker, NEW b \in Package, Rename(w, b) PROVE IInv'
  BY <1>1, <1>5, RenameStep, Zenon
<1>6. CASE Crash
  BY <1>1, <1>6, CrashStep, Zenon
<1> QED
  BY <1>2, <1>3, <1>4, <1>5, <1>6, Zenon DEF Next, RenameRefused

(* The invariant holds in every reachable state.                            *)
LEMMA IInvAlways == ASSUME Setting PROVE Spec => []IInv
<1>1. Init => IInv
  BY IInvInit, Zenon
<1>2. IInv /\ [Next]_vars => IInv'
  BY IInvNext, Zenon
<1> QED
  BY <1>1, <1>2, PTL DEF Spec

(* In every state reached by any number of crashes, failed calls, lost      *)
(* answers and resent packages, the receipt covers only durable operations. *)
THEOREM ReceiptNeverAhead == ASSUME Setting PROVE Spec => []ReceiptCovers
<1>1. IInv => ReceiptCovers
  BY Zenon DEF IInv
<1> QED
  BY <1>1, IInvAlways, PTL

(* A progress record never makes a retry skip an operation that is not      *)
(* durable.                                                                 *)
THEOREM ProgressNeverAhead == ASSUME Setting PROVE Spec => []ProgressCovers
<1>1. IInv => ProgressCovers
  BY Zenon DEF IInv
<1> QED
  BY <1>1, IInvAlways, PTL

(* A commit answered with success has its receipt on disk.                  *)
THEOREM AckedDurably == ASSUME Setting PROVE Spec => []AckedIsDurable
<1>1. IInv => AckedIsDurable
  BY Zenon DEF IInv, ReceiptShape, AckedIsDurable
<1> QED
  BY <1>1, IInvAlways, PTL

(* A crash at any point of CommitReady leaves the ready name or a receipt   *)
(* for every package of which something can be seen.                        *)
THEOREM RecoverableThroughout == ASSUME Setting PROVE Spec => []AlwaysRecoverable
<1>1. IInv => AlwaysRecoverable
  <2> SUFFICES ASSUME IInv, NEW b \in Good, NEW s \in First[b]..Last[b], Visible(s)
               PROVE  Recoverable(b)
    BY Zenon DEF AlwaysRecoverable
  <2>1. b \in Package /\ First[b] \in Nat /\ Last[b] \in Nat /\ s \in 1..N
    BY PackageFacts
  <2>2. PICK a \in Good :
            /\ s \in First[a]..Last[a]
            /\ receiptDisk >= Last[a] \/ readyDisk[a] # "absent"
    BY <2>1, Zenon DEF IInv, VisibleShape
  <2>3. a = b
    BY <2>1, <2>2, PackageFacts DEF Setting, DisjointPackages
  <2> QED
    BY <2>2, <2>3, Zenon DEF Recoverable
<1> QED
  BY <1>1, IInvAlways, PTL

(* Operations become visible in journal order, one run of writes at a time, *)
(* whatever crashes and retries come between.                               *)
THEOREM AppliedInOrder == ASSUME Setting PROVE Spec => []JournalOrder
<1>1. IInv => JournalOrder
  <2> SUFFICES ASSUME IInv, NEW t \in 1..N, Visible(t), NEW s \in 1..(t - 1), ~Durable(s)
               PROVE  SameRun(s, t)
    BY Zenon DEF JournalOrder
  <2>1. s \in 1..N /\ s < t /\ t \in 1..N /\ N \in Nat
    BY JournalAssumption DEF N
  <2>2. PICK b \in Good :
            /\ t \in First[b]..Last[b]
            /\ \/ receiptDisk >= Last[b]
               \/ /\ First[b] = receiptDisk + 1
                  /\ \/ t - First[b] + 1 <= progressDisk[b]
                     \/ t - First[b] + 1 \in Run(b, progressDisk[b])
    BY Zenon DEF IInv, VisibleShape
  <2>3. First[b] \in Nat /\ Last[b] \in Nat /\ b \in Package /\ Last[b] <= N
    BY PackageFacts, Zenon
  <2>4. receipt \in Nat /\ receiptDisk \in Nat /\ receiptDisk <= receipt
        /\ progressDisk[b] \in Nat
    BY <2>3, Zenon DEF IInv, TypeOK, ReceiptShape
  <2>5. s > receipt
    BY <2>1, <2>4 DEF IInv, ReceiptCovers
  <2>6. First[b] = receiptDisk + 1
    BY <2>1, <2>2, <2>3, <2>4, <2>5
  <2> DEFINE j == t - First[b] + 1
             i == s - First[b] + 1
             n == progressDisk[b]
  <2>7. i \in 1..Size(b) /\ SeqOf(b, i) = s /\ i < j
    BY <2>1, <2>2, <2>3, <2>4, <2>5, <2>6, SMTT(30) DEF Size, SeqOf
  <2>8. n < i
    BY <2>4, <2>7, SMTT(30) DEF IInv, ProgressCovers
  <2>9. j \in Run(b, n) /\ j # n + 1
    BY <2>1, <2>2, <2>3, <2>4, <2>5, <2>6, <2>7, <2>8
  <2>10. \A m \in (n + 1)..j : Journal[First[b] + m - 1].type = "write"
    BY <2>9, Zenon DEF Run, OpOf, SeqOf
  <2>11. ASSUME NEW r \in s..t PROVE Journal[r].type = "write"
    <3> DEFINE m == r - First[b] + 1
    <3>1. m \in (n + 1)..j /\ First[b] + m - 1 = r
      BY <2>1, <2>3, <2>4, <2>8, SMTT(30)
    <3> HIDE DEF m
    <3> QED
      BY <2>10, <3>1, Zenon
  <2>12. {s, t} \subseteq First[b]..Last[b]
    BY <2>1, <2>2, <2>3, <2>4, <2>5, <2>6
  <2> QED
    BY <2>11, <2>12, Zenon DEF SameRun
<1> QED
  BY <1>1, IInvAlways, PTL

============================================================================
