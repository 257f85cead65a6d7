---------------------------- MODULE BulkJournal ----------------------------
(***************************************************************************)
(* bulk/backend.go: CommitReady, driven by PassthroughFS.Rename.           *)
(*                                                                         *)
(* One relay uploads its journal in packages.  Renaming an upload to       *)
(* inbox/<batch>.ready runs CommitReady: persist the directory entry, read *)
(* and check the package, compare it with the relay's receipt, apply the   *)
(* operations from the recorded progress on, checkpointing after each run, *)
(* publish the receipt and remove the package and its progress record.     *)
(*                                                                         *)
(* The disk has two faces: what the running system sees (ready, progress,  *)
(* receipt, file) and what a crash is certain to leave (...Disk).  An fsync *)
(* or a directory sync copies the first to the second; a crash leaves, for *)
(* every object separately, one of the two.                                *)
(*                                                                         *)
(* The effect of an operation is abstracted to its sequence number: file[p]*)
(* is the sequence number of the last operation applied to path p.         *)
(***************************************************************************)
EXTENDS Integers, Sequences

CONSTANTS
    Worker,       \* connections that may run CommitReady at the same time
    Path,         \* paths of the share
    Journal,      \* the relay's journal: operation s has sequence number s
    Package,      \* batch identifiers
    First, Last,  \* FirstSeq and LastSeq of each package
    Malformed,    \* packages Decode or validateBatch refuses
    Oversize,     \* packages above maxBatchBytes
    Replacing,    \* packages the relay renames with ReplaceIfExists
    MaxCrashes,   \* bound: crashes of the backend
    MaxErrors,    \* bound: failed system calls and lost replies
    Serial,       \* the relay has at most one commit outstanding
    OrderedRelay, \* the relay sends a package only after the answer to the last
    PublishSyncMayFail, \* the directory sync that ends writeAtomic may fail
    ReceiptReadMayFail  \* reading an existing receipt may fail

N == Len(Journal)
Good == Package \ (Malformed \cup Oversize)

ASSUME JournalAssumption ==
    /\ Journal \in Seq([type : {"write", "other"}, paths : SUBSET Path])
    /\ \A s \in 1..N : Journal[s].type = "write" => \E p \in Path : Journal[s].paths = {p}

ASSUME PackageAssumption ==
    /\ First \in [Package -> Nat]
    /\ Last \in [Package -> Nat]
    /\ \A b \in Good : 1 <= First[b] /\ First[b] <= Last[b] /\ Last[b] <= N
    /\ Replacing \subseteq Package

ASSUME BoundAssumption ==
    /\ MaxCrashes \in Nat
    /\ MaxErrors \in Nat
    /\ {Serial, OrderedRelay, PublishSyncMayFail, ReceiptReadMayFail} \subseteq BOOLEAN

(* Two packages never carry the same operation.  The relay cuts its journal *)
(* so; CommitReady does not check it.                                       *)
DisjointPackages ==
    \A a, b \in Good : a # b => Last[a] < First[b] \/ Last[b] < First[a]

VARIABLES
    ready,        \* [Package -> state of inbox/<b>.ready]
    readyDisk,
    progress,     \* [Package -> NextOperation of <b>.ready.progress, 0: none]
    progressDisk,
    receipt,      \* LastSeq of the relay's receipt, 0: none
    receiptDisk,
    file,         \* [Path -> last operation applied]
    fileDisk,
    pc, pkg,      \* where each worker is in CommitReady, and on which package
    next,         \* index of the next operation, as in apply
    written,      \* operations of the current run applied
    flushed,      \* operations of the current run applied and fsynced
    ackSeq,       \* the relay's local completion: highest LastSeq answered
    crashes, errors

inbox == <<ready, readyDisk, progress, progressDisk>>
share == <<file, fileDisk>>
worker == <<pc, pkg, next, written, flushed>>
vars == <<inbox, receipt, receiptDisk, share, worker, ackSeq, crashes, errors>>

(* "cached": complete, but its bytes are only in the page cache; "whole":   *)
(* complete on disk; "torn": the name without the bytes.                    *)
ReadyState == {"absent", "cached", "whole", "torn"}

Pc == {"idle", "stat", "read", "receipt", "progress", "apply", "syncProgress",
       "syncReceipt", "rmReady", "rmProgress", "syncInbox", "return"}

(* What is visible and what a crash leaves have the same types, and the     *)
(* bounded faults stay within their bounds.                                 *)
TypeOK ==
    /\ ready \in [Package -> ReadyState]
    /\ readyDisk \in [Package -> ReadyState]
    /\ progress \in [Package -> Nat]
    /\ progressDisk \in [Package -> Nat]
    /\ receipt \in Nat
    /\ receiptDisk \in Nat
    /\ file \in [Path -> Nat]
    /\ fileDisk \in [Path -> Nat]
    /\ pc \in [Worker -> Pc]
    /\ pkg \in [Worker -> Package]
    /\ next \in [Worker -> Nat]
    /\ written \in [Worker -> SUBSET Nat]
    /\ flushed \in [Worker -> SUBSET Nat]
    /\ ackSeq \in Nat
    /\ crashes \in 0..MaxCrashes
    /\ errors \in 0..MaxErrors

Init ==
    /\ ready = [b \in Package |-> "absent"]
    /\ readyDisk = [b \in Package |-> "absent"]
    /\ progress = [b \in Package |-> 0]
    /\ progressDisk = [b \in Package |-> 0]
    /\ receipt = 0
    /\ receiptDisk = 0
    /\ file = [p \in Path |-> 0]
    /\ fileDisk = [p \in Path |-> 0]
    /\ pc = [w \in Worker |-> "idle"]
    /\ pkg \in {[w \in Worker |-> b] : b \in Package}
    /\ next = [w \in Worker |-> 0]
    /\ written = [w \in Worker |-> {}]
    /\ flushed = [w \in Worker |-> {}]
    /\ ackSeq = 0
    /\ crashes = 0
    /\ errors = 0

----------------------------------------------------------------------------
(* The operations of a package and the runs apply cuts them into.           *)

Size(b) == Last[b] - First[b] + 1
SeqOf(b, k) == First[b] + k - 1
OpOf(b, k) == Journal[SeqOf(b, k)]

(* The run that starts after n operations: one operation, or as many        *)
(* consecutive writes as follow.                                            *)
Run(b, n) ==
    {k \in (n + 1)..Size(b) :
        k = n + 1 \/ \A j \in (n + 1)..k : OpOf(b, j).type = "write"}

(* applyWriteRun takes the files of a run in the order they first appear,   *)
(* and the writes to one file in journal order; any other run has one       *)
(* operation.                                                               *)
CurrentFile(w) ==
    LET pending == Run(pkg[w], next[w]) \ flushed[w]
    IN  {k \in pending : \A j \in pending :
            (\A i \in pending : j <= i) => OpOf(pkg[w], k).paths = OpOf(pkg[w], j).paths}

Goto(w, l) == pc' = [pc EXCEPT ![w] = l]

(* syncDirectory(inbox): every entry of the directory becomes durable, the  *)
(* bytes of an upload do not.                                               *)
SyncInboxDirectory ==
    /\ readyDisk' = [b \in Package |-> IF ready[b] = "cached" THEN "torn" ELSE ready[b]]
    /\ progressDisk' = progress
    /\ UNCHANGED <<ready, progress>>

----------------------------------------------------------------------------
(* The relay.                                                               *)

MaySend(b) ==
    \/ b \notin Good
    \/ OrderedRelay /\ First[b] = ackSeq + 1
    \/ ~OrderedRelay /\ (ackSeq > 0 \/ First[b] = 1)

MayRename(w, b) ==
    /\ pc[w] = "idle"
    /\ Serial => \A v \in Worker : pc[v] = "idle"
    /\ MaySend(b)

(* The target of the rename exists and is not to be replaced. *)
AlreadyExists(b) == b \notin Replacing /\ ready[b] # "absent"

(* SetInfo(FileRenameInformation) on an upload: os.Rename, then CommitReady *)
(* in the same handler.                                                     *)
Rename(w, b) ==
    /\ MayRename(w, b)
    /\ ~AlreadyExists(b)
    /\ ready' = [ready EXCEPT ![b] = "cached"]
    /\ pkg' = [pkg EXCEPT ![w] = b]
    /\ Goto(w, "stat")
    /\ UNCHANGED <<readyDisk, progress, progressDisk, receipt, receiptDisk, share,
                   next, written, flushed, ackSeq, crashes, errors>>

(* The rename is refused: CommitReady does not run, nothing has happened.   *)
RenameRefused(w, b) ==
    /\ MayRename(w, b)
    /\ AlreadyExists(b)
    /\ UNCHANGED vars

(* The answer reaches the relay and is recorded in its local completion.    *)
Return(w) ==
    /\ pc[w] = "return"
    /\ Goto(w, "idle")
    /\ ackSeq' = IF Last[pkg[w]] > ackSeq THEN Last[pkg[w]] ELSE ackSeq
    /\ UNCHANGED <<inbox, receipt, receiptDisk, share, pkg, next, written, flushed,
                   crashes, errors>>

----------------------------------------------------------------------------
(* CommitReady.                                                             *)

(* Bug variant: the directory entry is not persisted before the apply.      *)
StatOnly(w) ==
    /\ pc[w] = "stat"
    /\ Goto(w, IF ready[pkg[w]] = "absent" \/ pkg[w] \in Oversize THEN "idle" ELSE "read")
    /\ UNCHANGED <<inbox, receipt, receiptDisk, share, pkg, next, written, flushed, ackSeq,
                   crashes, errors>>

StatAndSync(w) ==
    /\ pc[w] = "stat"
    /\ IF ready[pkg[w]] = "absent" \/ pkg[w] \in Oversize
       THEN Goto(w, "idle") /\ UNCHANGED inbox
       ELSE Goto(w, "read") /\ SyncInboxDirectory
    /\ UNCHANGED <<receipt, receiptDisk, share, pkg, next, written, flushed, ackSeq,
                   crashes, errors>>

ReadPackage(w) ==
    /\ pc[w] = "read"
    /\ Goto(w, IF ready[pkg[w]] \in {"cached", "whole"} /\ pkg[w] \notin Malformed
               THEN "receipt" ELSE "idle")
    /\ UNCHANGED <<inbox, receipt, receiptDisk, share, pkg, next, written, flushed,
                   ackSeq, crashes, errors>>

(* What readReceipt may return: a receipt it cannot read counts as none.    *)
ReadableReceipts ==
    {receipt} \cup IF ReceiptReadMayFail /\ errors < MaxErrors THEN {0} ELSE {}

(* A duplicate goes straight to the clean-up, a package after a gap is an   *)
(* error, and without a receipt any package may be the first.               *)
CheckReceiptWith(w, first, last) ==
    /\ pc[w] = "receipt"
    /\ \E seen \in ReadableReceipts :
        /\ Goto(w, IF seen # 0 /\ seen >= last THEN "rmReady"
                   ELSE IF seen # 0 /\ first > seen + 1 THEN "idle"
                   ELSE "progress")
        /\ errors' = IF seen = receipt THEN errors ELSE errors + 1
    /\ UNCHANGED <<inbox, receipt, receiptDisk, share, pkg, next, written, flushed,
                   ackSeq, crashes>>

(* Bug variants: no check for a sequence gap; a gap check off by one; any   *)
(* receipt of the relay taken for this package's.                           *)
CheckReceiptNoGap(w) == CheckReceiptWith(w, 0, Last[pkg[w]])
CheckReceiptOffByOne(w) == CheckReceiptWith(w, First[pkg[w]] + 1, Last[pkg[w]])
CheckReceiptAny(w) == CheckReceiptWith(w, First[pkg[w]], 0)

CheckReceipt(w) == CheckReceiptWith(w, First[pkg[w]], Last[pkg[w]])

(* Bug variant: resume at the last operation applied, not after it.         *)
ReadProgressOffByOne(w) ==
    /\ pc[w] = "progress"
    /\ next' = [next EXCEPT ![w] = progress[pkg[w]] - 1]
    /\ written' = [written EXCEPT ![w] = {}]
    /\ flushed' = [flushed EXCEPT ![w] = {}]
    /\ Goto(w, "apply")
    /\ UNCHANGED <<inbox, receipt, receiptDisk, share, pkg, ackSeq, crashes, errors>>

ReadProgress(w) ==
    /\ pc[w] = "progress"
    /\ next' = [next EXCEPT ![w] = progress[pkg[w]]]
    /\ written' = [written EXCEPT ![w] = {}]
    /\ flushed' = [flushed EXCEPT ![w] = {}]
    /\ Goto(w, "apply")
    /\ UNCHANGED <<inbox, receipt, receiptDisk, share, pkg, ackSeq, crashes, errors>>

(* One operation of the run takes effect in the running system.             *)
ApplyOp(w) ==
    /\ pc[w] = "apply"
    /\ \E k \in CurrentFile(w) \ written[w] :
        /\ \A j \in CurrentFile(w) \ written[w] : k <= j
        /\ written' = [written EXCEPT ![w] = @ \cup {k}]
        /\ file' = [p \in Path |-> IF p \in OpOf(pkg[w], k).paths
                                   THEN SeqOf(pkg[w], k) ELSE file[p]]
    /\ UNCHANGED <<inbox, receipt, receiptDisk, fileDisk, pc, pkg, next, flushed,
                   ackSeq, crashes, errors>>

(* f.Sync, syncFile or syncDirectory after the operations on one file.      *)
SyncFile(w) ==
    /\ pc[w] = "apply"
    /\ CurrentFile(w) # {}
    /\ CurrentFile(w) \subseteq written[w]
    /\ flushed' = [flushed EXCEPT ![w] = @ \cup CurrentFile(w)]
    /\ fileDisk' = [p \in Path |->
                       IF \E k \in CurrentFile(w) : p \in OpOf(pkg[w], k).paths
                       THEN file[p] ELSE fileDisk[p]]
    /\ UNCHANGED <<inbox, receipt, receiptDisk, file, pc, pkg, next, written, ackSeq,
                   crashes, errors>>

(* The progress record of a run: writeAtomic up to its rename.              *)
CheckpointWhen(w, done) ==
    /\ pc[w] = "apply"
    /\ next[w] < Size(pkg[w])
    /\ Run(pkg[w], next[w]) \subseteq done
    /\ \E e \in Run(pkg[w], next[w]) :
        /\ \A k \in Run(pkg[w], next[w]) : k <= e
        /\ progress' = [progress EXCEPT ![pkg[w]] = e]
        /\ next' = [next EXCEPT ![w] = e]
    /\ written' = [written EXCEPT ![w] = {}]
    /\ flushed' = [flushed EXCEPT ![w] = {}]
    /\ Goto(w, "syncProgress")
    /\ UNCHANGED <<ready, readyDisk, progressDisk, receipt, receiptDisk, share, pkg,
                   ackSeq, crashes, errors>>

(* Bug variant: the progress record does not wait for the fsyncs.           *)
CheckpointUnsynced(w) == CheckpointWhen(w, written[w] \cup flushed[w])

(* checkpoint(end) once every file of the run is fsynced.                   *)
Checkpoint(w) == CheckpointWhen(w, flushed[w])

SyncProgress(w) ==
    /\ pc[w] = "syncProgress"
    /\ SyncInboxDirectory
    /\ Goto(w, "apply")
    /\ UNCHANGED <<receipt, receiptDisk, share, pkg, next, written, flushed, ackSeq,
                   crashes, errors>>

(* The receipt: writeAtomic up to its rename, then its directory sync.      *)
WriteReceiptWhen(w, n) ==
    /\ pc[w] = "apply"
    /\ next[w] >= n
    /\ receipt' = Last[pkg[w]]
    /\ Goto(w, "syncReceipt")
    /\ UNCHANGED <<inbox, receiptDisk, share, pkg, next, written, flushed, ackSeq,
                   crashes, errors>>

(* Bug variant: the receipt is written with one operation left out.         *)
WriteReceiptEarly(w) == WriteReceiptWhen(w, Size(pkg[w]) - 1)

WriteReceipt(w) == WriteReceiptWhen(w, Size(pkg[w]))

SyncReceipt(w) ==
    /\ pc[w] = "syncReceipt"
    /\ receiptDisk' = receipt
    /\ Goto(w, "rmReady")
    /\ UNCHANGED <<inbox, receipt, share, pkg, next, written, flushed, ackSeq, crashes,
                   errors>>

(* removeApplyArtifacts: each removal may fail, and the failure is ignored. *)
RemoveReady(w) ==
    /\ pc[w] = "rmReady"
    /\ Goto(w, "rmProgress")
    /\ \/ ready' = [ready EXCEPT ![pkg[w]] = "absent"] /\ UNCHANGED errors
       \/ errors < MaxErrors /\ errors' = errors + 1 /\ UNCHANGED ready
    /\ UNCHANGED <<readyDisk, progress, progressDisk, receipt, receiptDisk, share, pkg,
                   next, written, flushed, ackSeq, crashes>>

RemoveProgress(w) ==
    /\ pc[w] = "rmProgress"
    /\ Goto(w, "syncInbox")
    /\ \/ progress' = [progress EXCEPT ![pkg[w]] = 0] /\ UNCHANGED errors
       \/ errors < MaxErrors /\ errors' = errors + 1 /\ UNCHANGED progress
    /\ UNCHANGED <<ready, readyDisk, progressDisk, receipt, receiptDisk, share, pkg,
                   next, written, flushed, ackSeq, crashes>>

SyncRemovals(w) ==
    /\ pc[w] = "syncInbox"
    /\ Goto(w, "return")
    /\ \/ SyncInboxDirectory /\ UNCHANGED errors
       \/ errors < MaxErrors /\ errors' = errors + 1 /\ UNCHANGED inbox
    /\ UNCHANGED <<receipt, receiptDisk, share, pkg, next, written, flushed, ackSeq,
                   crashes>>

(* A system call fails and CommitReady returns the error, or its answer is  *)
(* lost: the package stays where it is and the relay knows nothing.  The    *)
(* directory sync of writeAtomic fails only where PublishSyncMayFail.       *)
FailCommit(w) ==
    /\ pc[w] \in {"stat", "read", "progress", "apply", "return"}
                 \cup IF PublishSyncMayFail THEN {"syncProgress", "syncReceipt"} ELSE {}
    /\ errors < MaxErrors
    /\ errors' = errors + 1
    /\ Goto(w, "idle")
    /\ next' = [next EXCEPT ![w] = 0]
    /\ written' = [written EXCEPT ![w] = {}]
    /\ flushed' = [flushed EXCEPT ![w] = {}]
    /\ UNCHANGED <<inbox, receipt, receiptDisk, share, pkg, ackSeq, crashes>>

----------------------------------------------------------------------------
(* What a crash may leave of an inbox entry that is x in the running system *)
(* and y on disk.                                                           *)
Survivors(x, y) == {y} \cup (IF x = "cached" THEN {"whole", "torn"} ELSE {x})

Crash ==
    /\ crashes < MaxCrashes
    /\ crashes' = crashes + 1
    /\ ready' \in [Package -> ReadyState]
    /\ \A b \in Package : ready'[b] \in Survivors(ready[b], readyDisk[b])
    /\ readyDisk' = ready'
    /\ \E kept \in SUBSET Package :
        progress' = [b \in Package |-> IF b \in kept THEN progress[b] ELSE progressDisk[b]]
    /\ progressDisk' = progress'
    /\ receipt' \in {receipt, receiptDisk}
    /\ receiptDisk' = receipt'
    /\ \E kept \in SUBSET Path :
        file' = [p \in Path |-> IF p \in kept THEN file[p] ELSE fileDisk[p]]
    /\ fileDisk' = file'
    /\ pc' = [w \in Worker |-> "idle"]
    /\ next' = [w \in Worker |-> 0]
    /\ written' = [w \in Worker |-> {}]
    /\ flushed' = [w \in Worker |-> {}]
    /\ UNCHANGED <<pkg, ackSeq, errors>>

CommitReady(w) ==
    \/ StatAndSync(w) \/ ReadPackage(w) \/ CheckReceipt(w) \/ ReadProgress(w)
    \/ ApplyOp(w) \/ SyncFile(w) \/ Checkpoint(w) \/ SyncProgress(w)
    \/ WriteReceipt(w) \/ SyncReceipt(w)
    \/ RemoveReady(w) \/ RemoveProgress(w) \/ SyncRemovals(w)
    \/ Return(w)

Next ==
    \/ \E w \in Worker : CommitReady(w) \/ FailCommit(w)
    \/ \E w \in Worker, b \in Package : Rename(w, b) \/ RenameRefused(w, b)
    \/ Crash

Spec == Init /\ [][Next]_vars

----------------------------------------------------------------------------
(* Properties.                                                              *)

Visible(s) == \E p \in Path : file[p] = s \/ fileDisk[p] = s
Durable(s) == \A p \in Journal[s].paths : file[p] >= s /\ fileDisk[p] >= s

SameRun(s, t) ==
    \E b \in Good : /\ {s, t} \subseteq First[b]..Last[b]
                    /\ \A i \in s..t : Journal[i].type = "write"

Recoverable(b) == readyDisk[b] # "absent" \/ receiptDisk >= Last[b]

(* A receipt is never ahead of the data: every operation up to the LastSeq  *)
(* of the receipt the relay can read is applied and survives a crash        *)
(* (CommitReady writes the receipt after apply).                            *)
ReceiptCovers == \A s \in 1..N : s <= receipt => Durable(s)

(* A progress record, in the running system or on disk, never skips an      *)
(* operation a crash could still undo (checkpoint comes after the fsyncs).  *)
ProgressCovers ==
    \A b \in Good : \A k \in 1..Size(b) :
        k <= progress[b] \/ k <= progressDisk[b] => Durable(SeqOf(b, k))

(* Packages are applied in journal order: when an operation can be seen,    *)
(* every operation before it that is not of the same run of writes is       *)
(* durable, across crashes, retries and failed calls (apply).               *)
JournalOrder ==
    \A t \in 1..N : Visible(t) =>
        \A s \in 1..(t - 1) : SameRun(s, t) \/ Durable(s)

(* While an operation of a package can be seen, a crash leaves the ready    *)
(* name or the receipt behind (the syncDirectory that opens CommitReady and *)
(* the order of receipt and removal).                                       *)
AlwaysRecoverable ==
    \A b \in Good : \A s \in First[b]..Last[b] : Visible(s) => Recoverable(b)

(* The same with the package itself, its bytes included, in place of its    *)
(* name: what the comment in CommitReady promises.                          *)
PackageOrReceipt ==
    \A b \in Good : \A s \in First[b]..Last[b] :
        Visible(s) => ready[b] \in {"cached", "whole"} \/ receipt >= Last[b]

(* A commit answered with success has a receipt on disk.                    *)
AckedIsDurable == ackSeq <= receiptDisk

(* The relay keeps retrying and the backend keeps running: every system     *)
(* call and every retry happens in the end.                                 *)
Fairness ==
    /\ \A w \in Worker : WF_vars(CommitReady(w))
    /\ SF_vars(\E w \in Worker : \E b \in Good : Rename(w, b))

FairSpec == Spec /\ Fairness

(* The relay sends a package for ever whose first attempt left its file in  *)
(* the inbox: the rename is refused, and nobody else removes the file.      *)
RefusedForEver(b) == MaySend(b) /\ AlreadyExists(b)

(* Whatever crashes, fails or is lost on the way, the whole journal is      *)
(* acknowledged in the end, unless a package that is renamed without        *)
(* ReplaceIfExists is left in the inbox by a failed attempt (the check in   *)
(* PassthroughFS.Rename).  Nothing else that is left behind, be it package, *)
(* progress record or receipt, blocks a retry.                              *)
AllAcknowledged == <>(ackSeq = N) \/ <>[](\E b \in Good : RefusedForEver(b))

============================================================================
