# Verification of go-smb2

TLA+ models of this SMB2 server: the bulk journal commit, the table of open
files with its delete marks, the goroutines of a connection, the handling of
chains, trees and pipes, the accept loop and `Shutdown`, directory enumeration,
oplock and lease breaks, change notification, and the layout of every message
and structure of the protocol. TLC checks small instances; TLAPS proves
the invariants of every component with state for all instances, and that
directory enumeration implements its abstract specification.

## Inventory

| Part | State | Operations | Hard behaviour | Modules |
| --- | --- | --- | --- | --- |
| Bulk journal (`bulk/`) | inbox, progress records, receipts, files | `CommitReady`, run by `PassthroughFS.Rename` | crashes, retries, failing syncs, two commits at once | `BulkJournal` |
| Open table (`server/server.go`, `server/file_tree.go`) | `opens`, `deletePending` | create, close, disposition, rename, disconnect | deletion delayed to the last close, unlink by path, connections interleaving | `OpenTable` |
| Connection (`server/conn.go`, `conn.Run`) | `outstandingRequests`, `write`, `werr`, context | receiver, dispatcher, sender, asynchronous reads and writes, `shutdown` | rendezvous, shared result channel, cancellation, end of a connection | `Connection` |
| Chains, trees, pipes (`server/compound.go`, `tree.go`, `ipc_tree.go`) | `compoundContext`, two tree maps, `dceReq` | `Run`, `sendPacket`, tree connect and disconnect, pipe reads and writes | a failure in the middle of a chain, counts and maps in agreement, opens that share a request | `Dispatch` |
| Server lifecycle (`ServeListener`, `Shutdown`) | `active`, `activeConns` | accept, register, end, shut down | shutdown racing accept | `Lifecycle` |
| Directory enumeration (`queryDirectory`, `readDir`) | `dirPos`, `queryDirectoryPending` | query, restart, single entry, read-ahead | portions and answers that divide the directory differently, failed reads, removed files | `Directory`, `Listing` |
| Oplocks, leases, change notification | state of an open | `BreakNode`, acknowledgement, notify, completion | goroutines that write an open without a lock | `Breaks` |
| Messages and structures (`internal/smb2`, `server/session.go`) | none | encode, decode, compound, sign, encrypt, split | offsets, lengths and padding that two functions compute apart | `Wire`, `Requests`, `Responses`, `Information`, `Rpc`, `Codec` |

The receiver of a connection hands requests to its dispatcher; the dispatcher
runs one handler at a time; handlers of all connections share the open table and
the file system; a rename into the inbox runs the bulk commit inside its handler.
`Server` composes `Dispatch` and `Lifecycle`: requests of a connection are
handled while the connection is served. `PROJECT.json` lists every part with its
status, the code of every definition, and the hazards at their lines.

## Modules

### BulkJournal

One relay, its journal and its packages. Each object of the disk has what the
running system sees and what a crash is certain to leave (`readyDisk`,
`progressDisk`, `receiptDisk`, `fileDisk`). The steps of `CommitReady` are
actions of a worker in the code's order; `FailCommit` is a failed call or a lost
answer; `Crash` leaves one of the two faces of each object. The effect of an
operation is its sequence number, so what a create or rename does to names is
abstracted: every operation of `apply` ends in an fsync or a directory sync,
which is `SyncFile`. A rename onto a file that is still in the inbox replaces it for the
packages of `Replacing` (the client sets ReplaceIfExists) and is refused for the others
(`RenameRefused`), before `CommitReady` runs. An upload is `cached` until a crash decides between `whole`
and `torn`, because nothing syncs its bytes.

Assumed of the relay: it starts with the first package, and its packages are
disjoint. The constants `Serial`, `OrderedRelay`, `PublishSyncMayFail` and
`ReceiptReadMayFail` turn further assumptions on and off.

### OpenTable

Regular files, their names, the handles of `PassthroughFS`, `Server.opens` and
`Server.deletePending`. A handler is a sequence of steps of its connection, one
for each file system call or section under `Server.lock`. Inode numbers are
reused. Left out: directories, symlinks, extended attributes, durable opens. DELETE
access is a free choice. A client uses only its own handles, and `SharedRename`
says whether it renames files that other handles have open.

### Connection

One connection: receiver, dispatcher, sender, and a goroutine for each
asynchronous read or write. `Scripts` is what the client may send, by the kind of
handling it gets; during those of `Ending` the client may leave and the server
may shut down. The asynchronous requests of a script share one semaphore, as the
reads (or the writes) of one tree do. Reads and writes of the transport are whole
packets. `conn.m` is not modelled: it is never held across a blocking step of
`sendPacket`.

### Dispatch, Lifecycle, Server

`Dispatch` has the requests of one connection. Each has its message id; clients
number their requests in the order they send them (`ScriptsAssumption`). `Receive` is
an iteration of `runReciever` (it makes the context of a chain and offers the request), the
disjuncts of `Run` are the cases of `conn.Run` with their handlers, `Complete` is
the delayed completion of a CHANGE_NOTIFY. A request has an operation, a tree, a
file id and whether the file system (or the pipe) lets it succeed; "use" stands for every
request of a tree on an open file that answers at once. A tree is one of files or
one of pipes; on a pipe a WRITE leaves its request in `dceReq`, a READ answers
it, FSCTL_PIPE_TRANSCEIVE does both. What the pipe cannot answer is malformed, which a READ
answers with success and no data, or unknown, which it answers with an error; an
FSCTL_PIPE_TRANSCEIVE of either kind is refused or ends the connection. `ReceiverPanics` is
the end of a packet without a context: `runReciever` writes to a nil pointer.

`Lifecycle` has `ServeListener`, the goroutine of each connection and `Shutdown`,
each a sequence of steps with the locks and atomics of the code. `Hosts` are the
surroundings: whether `acceptSingleConn` is set, who comes, leaves or sets up a
session anew, whether `Shutdown` is called.

`Server` lets the connection `Served` handle requests while it is registered and
its context is not cancelled. `alive` becomes false when the receiver panics, which ends the
process: after it no step of the server happens (`Lives`). `SessionActive`, the end of the authentication, is
a step of `Lifecycle`; what comes before it is not modelled.

### Directory, Listing

`Directory` has one open directory. `QueryRefused`, `QueryNoRoom`, `QueryName` and
`QueryWildcard` are the branches of `queryDirectory`; each read of the file
system (`Read`) is a step of its own, since others may remove files meanwhile.
Entries are numbers in the order of the operating system's stream, a pattern is
the set of entries it matches, a size is that of the encoded item.

`Listing` is what the client is promised: an enumeration has a set of entries
that are left; an answer tells the next ones that match, and the end is told only
when none is left that matches. `Directory` implements it with
`left` = what is pending and what the stream has not given.

### Breaks

The opens of one file. `BreakNode` is a goroutine of the embedding program: it
takes the opens under the lock and then reads and writes each without it, so the
test of the oplock, the change and the notification are separate steps. The
dispatchers of the clients run CREATE (entering the table and answering are two
steps), CLOSE, acknowledgements and CHANGE_NOTIFY beside it.

### Wire, Requests, Responses, Information, Rpc, Codec

`Wire` is a byte buffer: its length and the fields written into it, with their
ranges. An encoder is the list of its stores, at the offsets the code computes; a
decoder is its validity check and the ranges its accessors read, computed from
what is in the buffer. A store destroys what it overlaps, so a wrong offset on
either side is seen. Values of fields are abstract, lengths are exact, and 16-bit
arithmetic wraps. `Requests`, `Responses`, `Information` (information classes,
create contexts, security descriptors, reparse data) and `Rpc` (bind, share list)
hold one encoder and one decoder for each structure. `Codec` sends chains of them
through compounding, signing, encryption, framing and the receiver's split.

## Runs

| Run | Result | Bounds | Question |
| --- | --- | --- | --- |
| `BulkRecovery` | passes, 113,475 states | 3 packages of 5 operations on 2 paths, 2 crashes, 2 errors | are receipt and progress never ahead of the data, is the order kept? |
| `BulkLiveness` | passes, 46,249 states | 2 good packages (one is renamed with ReplaceIfExists), a malformed and an oversize one, 1 crash, 2 errors | is everything acknowledged in the end? |
| `BulkPackageLost` | violated | one worker | does a crash leave the package or a receipt? |
| `BulkTwoCommits` | violated | two workers | does it hold with two commits at once? |
| `OpenOne` | passes, 22,788 states | 1 connection, 2 paths, 3 inodes, 3 handles | is the right file deleted, at the last close? |
| `OpenMany` | passes, 311,405 states | 2 connections (one POSIX), 2 paths, 1 inode number, 2 handles | does a mark ever outlive its opens, does it go in the end? |
| `ConnLifetime` | passes, 146,770 states | scripts of 3 to 6 messages, `WriteCap` = 1, `IoSem` = 2 | order, pending before result, one result per caller, the end of a connection, an answer to every request |
| `ConnCancel` | violated | a request and its cancellation | does the receiver go on? |
| `Codec` | passes, 37,142 states | every structure in several lengths, chains of 3, three protections | is what was encoded decoded, alone and in a chain? |
| `Directory` | passes, 36,421 states | 3 files and the dots, portions of 2, 4 buffer sizes, 2 special requests or failed reads, 1 removal | is the directory enumerated, and to its end? |
| `Breaks` | passes, 64,298 states | 2 opens of 1 or 2 clients, 2 `BreakNode`, 2 notifications | does every break take effect, is every notification completed? |
| `Server` | passes, 156,387 states | chains of 3, packets of related requests only, 4 tree operations, 4 operations on a pipe, 2 connections | are chains answered whole and once, do trees and pipes agree, does `Shutdown` finish? |

Why the bounds suffice for the cases of interest. The journal has a run of writes
with a file that comes twice, then an operation on two paths; two crashes allow a
crash during recovery from a crash. Three handles allow two opens to outlive a
third; a free inode allows a name to be taken by a new file. `OpenMany` has one inode
number, which every new file gets again: a mark that was left would meet it at once, and
each connection can hold a handle, or be past its check, while the other marks the file. Three asynchronous
requests exceed the semaphore, and the queue of one fills with one caller (the
code's queue holds ten). The lengths of `Codec` are even and odd, on and off the
alignments of 4 and 8, and on both sides of 2^16; a chain of three has a packet that
is first, one in the middle and one that is last. The
directory is longer than a portion and one entry is twice as long as the others,
so that every way of dividing it happens. Two `BreakNode` meet on one open; the
plans have every pair of an exclusive oplock, a level II oplock, a lease, a lease
without a context and a shared key that the code treats differently. A chain of
three is the shortest in which a request fails between a create and its close;
`Shutdown` with two connections can meet one that is registered and one that is not.

Symmetry (paths, inodes, handles) is used in `OpenOne`, whose properties are safety
properties. Deadlock is checked in the OpenTable runs and in `Directory`. The other
runs turn it off: a relay may have nothing left to send, and a connection, a script
or a plan ends.

Fairness:

- `BulkJournal!FairSpec`: a commit that can go on does (the handler runs to its
  end), and the relay keeps sending (strong fairness; an assumption about the relay).
- `OpenTable!FairSpec`: a handler that has begun is carried on (its goroutine runs), and
  each handle is closed in the end, between the other requests of its connection (strong
  fairness; an assumption about the clients). Nobody need disconnect.
- `Connection!FairSpec`: weak fairness of every goroutine, which the Go scheduler
  gives; the client need not leave and the server need not shut down.
- `Directory!FairSpec`: the dispatcher finishes the request it has begun, and the
  client goes on asking with room for the largest entry. The second is an assumption
  about the client.
- `Breaks!FairSpec`: the goroutines run, notifications and acknowledgements arrive,
  and a client acknowledges what asks for it (an assumption about the client). Nobody
  need close or create.
- `Server!FairSpec`: the accept loop, the goroutines of connections, and `Shutdown`
  once it was called, go on. No client need connect or leave.

### What the violated runs show

- `BulkPackageLost`: the inbox directory is synced, the package is not, and
  `Flush` does nothing. The comment in `CommitReady` promises the package.
- `BulkTwoCommits`: no lock spans the read and the write of the receipt.
- `ConnCancel`: `pop` waits again with its mutex held.

### Limits of the passing runs

Several properties say exactly when something holds; what follows is the part in
which it does not. No document of the repository promises these, so they are
hazards and not findings.

Bulk journal:

- `PublishSyncMayFail` and `ReceiptReadMayFail` are off. With the first TLC finds
  `AckedIsDurable` violated (after a failed directory sync the retry is answered from
  a receipt that may not be on disk), with the second `ReceiptCovers` (an unreadable
  receipt counts as none).
- A package that is renamed without ReplaceIfExists, and whose attempt fails after the
  rename, is left in the inbox: every retry is refused and nothing removes the file.
  `AllAcknowledged` excepts it (`RefusedForEver`); without the exception TLC finds it
  violated. A relay that sets ReplaceIfExists gets everything acknowledged.

Open table:

- The properties of `OpenOne` are for one connection without POSIX extensions
  that renames only files no other handle has open. With two connections TLC
  finds both violated: the check, the open and `addOpen` are separate steps,
  and a delete or a rename of the other connection fits between them. With shared
  renames `OpenFileIsNamed` is violated on one connection.
- A CREATE that was past its check when another connection marked the file still gets a
  handle on it. `MarkedFilesGo` says that this does not put off the deletion for ever. It
  excepts files with an open whose connection has ended, which nothing closes, and clients
  that rename for ever: with one CREATE past its check on a name, the other connection can
  move the marked file there, and so on in turn (TLC finds it).
- A POSIX delete-on-close whose unlink fails (the name is already gone) falls
  back to the delayed delete: the inode is marked although the connection is
  POSIX. `OpenMany` includes this path. The repository's test of POSIX
  delete-on-close only covers an unlink that succeeds.

Connection:

- `ReturnsWhenCancelled` is about the dispatcher and the handlers. The receiver
  (blocked on the rendezvous) and the sender (blocked on the result channel) need
  not return; TLC shows both.
- `EveryRequestAnswered` is for distinct message ids and no cancellation.

Chains, trees and pipes:

- A chain whose requests are not related never learns which request is its last, and
  one that ends in a request that is answered outside the context (ECHO, TREE_CONNECT,
  TREE_DISCONNECT) or not at all is never completed: its responses stay in the context
  (`ChainsSentWhole`, and the precondition of `PacketsAnswered`).
- A chain that creates, fails and closes leaves the handle open, since the close is
  answered with the failure and not run; STATUS_PENDING counts as a failure
  (`HandleLeftOpen`).
- The completion of a CHANGE_NOTIFY that ends a chain sends every response of the
  chain again (`AnsweredOnce`).
- All opens of the pipe share one waiting request: a WRITE replaces one that was not
  read, and a request that cannot be answered stays (`RepliesInOrder`).

- A packet that ends in a related request, with none before it that begins a chain, has no
  context when `runReciever` records its last request (`conn.go:326`): the receiver panics
  and the process ends, with every connection. `PacketsAnswered` and `ServingEnds` allow for
  it, the first only at such a packet.

Server:

- `Shutdown` before ServeListener has stored `active` is overwritten; `ServingEnds`
  excludes it. A connection between `Accept` and its registration is not in the
  snapshot (`ShutdownMissesOne`). Two connections may pass the check of
  `acceptSingleConn` before either has a session.

Directory:

- A request with a plain name or no room that asks to restart drops what was read
  ahead and does not rewind; a file that is removed between listing and stat loses its
  portion. `Listing` allows both, the second only with an error.

Breaks:

- Excepted are opens that share a lease key (the acknowledgement finds any of them),
  opens whose break was sent before their CREATE was answered, and opens with the level
  of a lease and no lease context, which are never broken. A second CHANGE_NOTIFY on an
  open replaces the asynchronous id of the first.

Codec, each by an exact condition in the property:

- Stores outside the structure or over another field: `FileFsFullSizeInformation`
  (`info_fs.go:514`), symbolic link errors.
- Encoder and decoder disagree on: data of error responses, share names that are not
  ASCII, RDMA channel descriptors in READ and WRITE, NEGOTIATE contexts of less than 28
  bytes, fields that end beyond 2^16 (there the accessors panic; of the messages with 16-bit
  sums SESSION_SETUP and TREE_CONNECT are run at such lengths).
- A response of a signed chain that is not the last is signed before it is padded.

## Proofs

`BulkJournalProofs`, for every instance: `TypeCorrect`. `ReceiptNeverAhead`,
`ProgressNeverAhead`, `AckedDurably`, `RecoverableThroughout` and `AppliedInOrder`
under `Setting`: one commit at a time, disjoint packages, and no failing receipt
read or publishing sync. Concurrent commits (`BulkTwoCommits`) and the two failures
(above) are really needed as exclusions. The invariants are not inductive alone:
`IInv` adds where the active worker stands relative to receipt and progress
(`Position`, `ProgressShape`, `RunShape`), that its package is still named
(`ReadyKept`), that at most one worker is active (`OneActive`), and which operations
can be visible (`VisibleShape`). The module has `IInv`, the facts about packages and
runs, what each conjunct needs a step to leave alone (the `...Frame` lemmas), then the steps that apply
nothing, those that apply, sync or record operations, and the crash.

`OpenTableProofs`: `TablesTyped` and `MarksAreTemporary` for all connections,
files and handles, with renames and POSIX connections, from the assumptions on
the constants only. `IInv` adds that a handler past its first step still holds
its open and its handle, that no two handlers work on one handle, and that every
open has a handle in the file system. `UnlinksTheRightFile` and `OpenFilesKeepNames`
are for one client (`OneClient`: one
connection, no POSIX extensions, no rename of a file that another handle has open; the
limits above say why), and for any number of files and handles. `OneInv` adds that the path of a handle is a name of the file it is open on
(`OpensAreNamed`), and for each step of a handler what the handler found out earlier and
relies on (`HandlerKnows`): that is what a second connection would invalidate.

`ConnectionProofs`, for every script, every capacity of the queue and of the
semaphore: `ConnectionTyped`, `ResultsMatchWaiters` (`ResultPerWaiter`) and
`PendingComesFirst` (`PendingFirst`); `HandlersSeeOrder` (`DispatchedInOrder`) for scripts
without a repeated message id, since the table of outstanding requests is keyed by it.
`ConnInv` adds that a request is handled once (`StartedOnce`: what waits in the table
was not given to a goroutine yet), which the count of waiting callers needs, and that
STATUS_PENDING is sent or ahead in the queue of all that comes later (`Ordered`).
`Pipeline` says where the requests between the last that was handled and the last that
was read are.

`DirectoryProofs`: `DirectoryTyped` (`TypeOK`), `ReadAheadCorrect` (`ReadAheadInOrder`) and
`DirectoryImplementsListing`, the refinement, for every number of files, sizes,
portion, patterns, buffer lengths and removals. `IInv` adds to the types and to
`ReadAheadInOrder` that the stream can still give every file that exists
(`ListsFiles`) and that only a pattern reads (`ReadsForPattern`). What
`appendDirectoryEntries` does to a portion is one lemma (`AppendEffect`), used for what
is pending and for what was read; each action then preserves `IInv` and maps to a step
of `Listing`.

The proofs about `Server` are in three modules, for any number of connections, any
packets and any surroundings.

- `ServerProofs`: `ShutdownCorrect` (`ShutdownMissesOne`). `ShutdownInv` adds that the
  loop's connection is the only one between `Accept` and its registration and that those
  that run are registered (`Registered`), that nothing is accepted before `active` is
  stored (`NotYetServing`), and that the listener is closed once `Shutdown` has closed it
  (`Closed`). `ServerTyped` (`TypeOK`) from `Typed`, which has the full types of contexts,
  requests and timers. `InOrder`: what the receiver has passed was handled or is the
  one request that waits, so requests are handled in the order of their ids.
  `PipesReplyInOrder` (`RepliesInOrder`) from `PipesInv`: what waits in a tree was written
  after all that was answered of it. It needs `InOrder`, that a request alone in
  its packet has no context (`AloneInv`: in a chain that failed a WRITE is answered and
  not run), and `TablesInv`, the types of the tree tables and their agreement: ids are not
  given out again, so that no reply is mixed with those of an earlier tree.
  `PanicsAtUnled`: the process lives until the receiver comes to a packet whose requests are
  all related, and such a packet is never got past; it needs `Led`, that the receiver has no
  context exactly while the requests of the packet so far are all related.
  `InContext` and `Collected`, which the other two modules use, are about the context of
  a chain: a request is offered with the context of its packet and a CHANGE_NOTIFY is
  completed through it; the context knows the last request once it was received and has
  the responses of the requests handled so far.
- `ServerChainProofs`: `SpoiltChainsLeakHandles` (`HandleLeftOpen`). `HandleInv` follows a
  chain that creates, uses and closes a file from its CREATE to its CLOSE. Its context has
  status ok when the CREATE comes to the dispatcher (`Fresh`: the receiver made it and
  nobody has used it). Between the two the context has the new handle, the handle is open,
  and the status is ok as long as no request between has failed or was a CHANGE_NOTIFY
  (`KeepsHandle`). `KnownTrees`, that a request was handled on a tree connected before it,
  keeps the meaning of the tree id: ids are not given out again, so that the tree the
  property looks at is the one the CREATE was handled on.
- `ServerCountProofs`: the arguments that count, apart because only they need the
  theorems on cardinalities. `TreesStayCounted` (`TreesAgree`): a step connects a tree once
  more, connects a new one, disconnects one or leaves the trees alone (`TreesChange`), and
  each changes `refCount` as it changes the number of grants and disconnects.
  `ChainsAnswered` (`ChainsSentWhole`) with `SentSound`, what was sent is sound, and
  `RequestsAnsweredOnce` (`AnsweredOnce`) with `SentOnce`: only the last request of a
  packet, or its completion, sends it.

The three theorems on chains are for clients that begin a chain with an unrelated request
and relate those after it, the last one perhaps excepted (`ChainsRelated`). Without it those
on answers are false of the code: the requests of a packet that begins with a related one have no
context, so that a CHANGE_NOTIFY among them is answered twice, and a second unrelated
request in the middle makes a second context, which strands the responses in the first.
`HandleLeftOpen` asks it of its own chain; the proof uses it of the others too, because
`InContext` and `Collected` are about all chains. `SpoiltChainsLeakHandles` is also for chains whose requests name one tree
(`ChainsOnOneTree`): each request finds its tree by its own id, and one between that names
a pipe may fail, or end the connection, for reasons the property does not count. The
scripts of `Server.cfg` satisfy both, except the packets of related requests only. The other theorems need nothing of the kind.

`BreaksProofs`: `BreakingNotified` (`BreakingIsNotified`) and `CompletionsNamePending`
(`CompletionNamesPending`) for any number of clients, opens, requests and concurrent runs
of `BreakNode`, with the exceptions that `Unheard` names. `BreaksInv` adds that an open
that asked for a lease is only ever broken as a lease, and that its lease is breaking
whenever the open is (`OpenOK`): otherwise an acknowledgment would be refused and the open
would break for ever. It adds that breakers, notifications and acknowledgments are about
opens of the kind they were sent for (`Breakable`), and that the id an open records is
that of a request about it (`NotifiesOK`). `BreaksTyped` (`TypeOK`) adds `HandlesOK`: whoever
is told about an open, has found it or is creating it has a handle that exists.

Only model-checked:

- liveness: fairness and ENABLED are out of the prover's reach;
- the four properties of `Codec`: what encoders and decoders compute are folds over lists
  of fields, which would need induction over data.

## Not modelled

- Authentication (`internal/ntlm`, `internal/spnego`) and cryptographic
  primitives: computations on bytes and outcomes of an exchange. A session becomes active
  in a step of `Lifecycle`; a signature is what it covers.
- Negotiation of dialects, the pre-authentication hash and key derivation: values that
  are computed once and handed to cryptography.
- The table of NT status codes: constants.
- Paths and wildcards: conversions of text. A pattern is the set it matches.
- `xattrstore`, attributes and access masks: wrappers of system calls and bit
  arithmetic without state of their own.
- Credits: the server opens an account and calls neither `loan` nor `charge`, so its
  balance never changes.
- The share table: single updates of a map under a lock. Whether a share exists is a free
  choice of each TREE_CONNECT.
- Transport framing, Bonjour, statistics, configuration: pure I/O. A packet is read and
  written whole, or not at all.
- Durable opens, directories and symlinks in the open table.
- What bulk operations do to names, and the temporary file of `writeAtomic`.
- The data of reads and writes: system calls. Their scheduling is in `Connection`, their
  messages in `Codec`.
