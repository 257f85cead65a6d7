----------------------------- MODULE Directory ----------------------------
(* QUERY_DIRECTORY on one open directory: queryDirectory and its helpers    *)
(* (server/file_tree.go) over PassthroughFS.readDir (fs_impl.go).           *)
(*                                                                          *)
(* The entries are numbered: 1 and 2 are "." and "..", the others the files *)
(* in the order of the operating system's directory stream.  A pattern is   *)
(* the set of the entries it matches.  Sizes are those of the encoded items *)
(* of the requested class.                                                  *)
EXTENDS Integers, Sequences, FiniteSets, Functions

CONSTANTS Files,       \* how many files the directory has
          Size,        \* the size of each entry's item
          Batch,       \* queryDirectoryReadBatchSize
          Patterns,    \* the patterns with wildcards
          Rooms,       \* the output buffer lengths
          MaxAsks,     \* how many requests are more than "go on", and how many reads fail
          MaxGone      \* how many files others may remove

Entry == 1..(Files + 2)
Dots == {1, 2}
File == Entry \ Dots

ASSUME DirectoryAssumption ==
    /\ Files \in Nat /\ Batch \in Nat \ {0}
    /\ Size \in [Entry -> Nat \ {0}]
    /\ Patterns \subseteq SUBSET Entry /\ Rooms \subseteq Nat
    /\ MaxAsks \in Nat /\ MaxGone \in Nat

VARIABLES pos,      \* position of the directory stream: the last entry it gave
          dirPos,   \* OpenFile.dirPos: 0 until a portion was read
          pending,  \* Open.queryDirectoryPending: entries read and not yet told
          single,   \* Open.queryDirectorySingleName if SingleDone, 0 otherwise
          req,      \* the request that is being handled, or was last
          phase,    \* "idle", or "restart" or "continue": the ReadDir to come
          told,     \* the entries of the last answer
          status,   \* the status of the last answer
          listed,   \* the files the stream may still give, when it has buffered them
          gone,     \* the files that were removed
          asks      \* counts against MaxAsks

handle == <<pos, dirPos>>
answer == <<told, status>>
vars == <<pos, dirPos, pending, single, req, phase, told, status, listed, gone, asks>>

Request == [wild : {TRUE}, restart : BOOLEAN, single : BOOLEAN, room : Rooms, pat : Patterns]
           \cup [wild : {FALSE}, restart : BOOLEAN, single : {FALSE}, room : Rooms, pat : {{e} : e \in Entry}]
Status == {"none", "ok", "end", "small", "absent", "error"}

(* The request that a client repeats: go on, with room for any entry. *)
GoOn(r) == r.wild /\ ~r.restart /\ \A e \in Entry : Size[e] <= r.room

Count(r) == asks' = IF GoOn(r) THEN asks ELSE asks + 1
Within(r) == GoOn(r) \/ asks < MaxAsks

Answers(st, set) == status' = st /\ told' = set /\ phase' = "idle"

-----------------------------------------------------------------------------
Elements(s) == {s[i] : i \in DOMAIN s}
Increasing(s) == \A i, j \in DOMAIN s : i < j => s[i] < s[j]

(* The increasing sequences of a set of entries, of which there is one:     *)
(* what a read returns.                                                     *)
InOrder(set) == {s \in [1..Cardinality(set) -> set] : Elements(s) = set /\ Increasing(s)}

Matching(s, r, i) == {s[j] : j \in {k \in 1..i : s[k] \in r.pat}}
OutSize(set) == SumFunctionOnSet(Size, set)

(* The response is empty when appendDirectoryEntries begins, and holds the  *)
(* matching entries before the i-th when it comes to the i-th.              *)
(* Bug variant: an item that fills the buffer exactly does not fit. *)
AppendDirectoryInfoStrict(s, r, i) == Size[s[i]] < r.room /\ OutSize(Matching(s, r, i)) < r.room

AppendDirectoryInfo(s, r, i) == Size[s[i]] <= r.room /\ OutSize(Matching(s, r, i)) <= r.room

Stops(s, r, i) ==
    /\ s[i] \in r.pat
    /\ ~AppendDirectoryInfo(s, r, i) \/ r.single \/ OutSize(Matching(s, r, i)) >= r.room

(* appendDirectoryEntries stops at the first such entry, the last one told  *)
(* if it fits, the next one to tell if not (full).                          *)
FirstStop(s, r, i) == i \in DOMAIN s /\ Stops(s, r, i) /\ \A j \in 1..(i - 1) : ~Stops(s, r, j)

Fills(s, r, last, full) ==
    \/ ~full /\ FirstStop(s, r, last) /\ AppendDirectoryInfo(s, r, last)
    \/ full /\ FirstStop(s, r, last + 1) /\ ~AppendDirectoryInfo(s, r, last + 1)
    \/ ~full /\ last = Len(s) /\ \A i \in DOMAIN s : ~Stops(s, r, i)

(* queryDirectoryAppendStatus: answer, or go on to ReadDir. *)
QueryDirectoryAppendStatus(items, full) ==
    \/ items # {} /\ Answers("ok", items)
    \/ items = {} /\ full /\ Answers("small", {})
    \/ items = {} /\ ~full /\ phase' = "continue" /\ UNCHANGED answer

(* Bug variant: the entry that did not fit is dropped. *)
AppendDirectoryEntriesSkip(s, r) ==
    \E last \in 0..Len(s), full \in BOOLEAN :
        /\ Fills(s, r, last, full)
        /\ pending' = SubSeq(s, (IF full THEN last + 2 ELSE last + 1), Len(s))
        /\ QueryDirectoryAppendStatus(Matching(s, r, last), full)

AppendDirectoryEntries(s, r) ==
    \E last \in 0..Len(s), full \in BOOLEAN :
        /\ Fills(s, r, last, full)
        /\ pending' = SubSeq(s, last + 1, Len(s))
        /\ QueryDirectoryAppendStatus(Matching(s, r, last), full)

-----------------------------------------------------------------------------
Init ==
    /\ pos = 2 /\ dirPos = 0 /\ pending = <<>> /\ single = 0
    /\ req \in {r \in Request : GoOn(r)}
    /\ phase = "idle" /\ told = {} /\ status = "none"
    /\ listed = File /\ gone = {} /\ asks = 0

(* queryDirectory when the class is not one it knows, or the handle not one *)
(* that is open: before anything is looked at.                              *)
QueryRefused ==
    /\ phase = "idle" /\ asks < MaxAsks
    /\ asks' = asks + 1
    /\ Answers("error", {})
    /\ UNCHANGED <<pos, dirPos, pending, single, req, listed, gone>>

(* What every accepted request does first. *)
Begin(r) ==
    /\ phase = "idle" /\ Within(r)
    /\ req' = r /\ Count(r)
    /\ UNCHANGED <<pos, dirPos, gone>>

QueryNoRoom(r) ==
    /\ r.room = 0
    /\ Begin(r)
    /\ pending' = IF r.restart THEN <<>> ELSE pending
    /\ single' = IF r.restart THEN 0 ELSE single
    /\ Answers("small", {})
    /\ UNCHANGED listed

(* A name without wildcards is looked up, and told once. *)
QueryName(r) ==
    /\ ~r.wild /\ r.room > 0
    /\ Begin(r)
    /\ pending' = IF r.restart THEN <<>> ELSE pending
    /\ \E e \in r.pat, done \in {IF r.restart THEN 0 ELSE single} :
          \/ done = e /\ single' = done /\ Answers("end", {})
          \/ done # e /\ e \in gone /\ single' = done /\ Answers("absent", {})
          \/ done # e /\ e \notin gone /\ Size[e] <= r.room /\ single' = e /\ Answers("ok", {e})
          \/ done # e /\ e \notin gone /\ Size[e] > r.room /\ single' = done /\ Answers("small", {})
    /\ UNCHANGED listed

(* queryDirectoryWildcard up to its loop: what is pending is told first. *)
QueryWildcard(r) ==
    /\ r.wild /\ r.room > 0
    /\ Begin(r)
    /\ single' = IF r.restart THEN 0 ELSE single
    /\ IF r.restart
       THEN /\ pending' = <<>> /\ phase' = "restart"
            /\ listed' = File \ gone
            /\ UNCHANGED answer
       ELSE AppendDirectoryEntries(pending, r) /\ UNCHANGED listed

(* One turn of the loop: readDir, then appendDirectoryEntries.  The stream  *)
(* goes on up to the entry upto and gives the files of got; a removed file  *)
(* is given when the stream had buffered it.                                *)
From == IF phase = "restart" THEN 2 ELSE pos
FromDir == IF phase = "restart" THEN 0 ELSE dirPos
FirstDots == IF FromDir = 0 THEN Dots ELSE {}
ReadMax == IF req.single THEN 1 ELSE Batch

Gives(upto, got) ==
    /\ upto \in From..(Files + 2)
    /\ got \subseteq {e \in listed : From < e /\ e <= upto}
    /\ {e \in listed \ gone : From < e /\ e <= upto} \subseteq got
    /\ Cardinality(got) <= ReadMax
    /\ Cardinality(got) < ReadMax => upto = Files + 2

ReadEnd(upto, got) ==
    /\ got = {} /\ FromDir # 0
    /\ Answers("end", {})
    /\ UNCHANGED <<dirPos, pending>>

(* A file that was removed after it was listed: getExtendedFileInfo fails,  *)
(* and what the stream gave with it is lost.                                *)
ReadLost(upto, got) ==
    /\ got \cap gone # {}
    /\ Answers("error", {})
    /\ dirPos' = FromDir /\ UNCHANGED pending

(* Bug variant: every portion begins with the dots. *)
ReadEntriesAnew(upto, got) ==
    /\ got # {} \/ FromDir = 0
    /\ got \cap gone = {}
    /\ dirPos' = FromDir
    /\ \E s \in InOrder(got \cup FirstDots) : AppendDirectoryEntries(s, req)

ReadEntries(upto, got) ==
    /\ got # {} \/ FromDir = 0
    /\ got \cap gone = {}
    /\ dirPos' = 1
    /\ \E s \in InOrder(got \cup FirstDots) : AppendDirectoryEntries(s, req)

ReadDir(upto, got) ==
    /\ phase # "idle"
    /\ Gives(upto, got)
    /\ pos' = upto
    /\ ReadEnd(upto, got) \/ ReadLost(upto, got) \/ ReadEntries(upto, got)
    /\ UNCHANGED <<single, req, listed, gone, asks>>

(* Bug variant: the stream is moved back to read the entry before once more. *)
ReadFailsBack ==
    /\ phase # "idle" /\ asks < MaxAsks
    /\ asks' = asks + 1
    /\ pos' = From - 1 /\ dirPos' = FromDir
    /\ Answers("error", {})
    /\ UNCHANGED <<pending, single, req, listed, gone>>

(* readDir when GetAttr of the directory fails, or the stream itself. *)
ReadFails ==
    /\ phase # "idle" /\ asks < MaxAsks
    /\ asks' = asks + 1
    /\ pos' = From /\ dirPos' = FromDir
    /\ Answers("error", {})
    /\ UNCHANGED <<pending, single, req, listed, gone>>

(* Another process removes a file of the directory. *)
Remove(e) ==
    /\ e \in File \ gone /\ Cardinality(gone) < MaxGone
    /\ gone' = gone \cup {e}
    /\ UNCHANGED <<pos, dirPos, pending, single, req, phase, told, status, listed, asks>>

Query(r) == QueryNoRoom(r) \/ QueryName(r) \/ QueryWildcard(r)
Read == \E upto \in Entry \cup {2}, got \in SUBSET File : ReadDir(upto, got)

Next ==
    \/ \E r \in Request : Query(r)
    \/ QueryRefused
    \/ Read
    \/ ReadFails
    \/ \E e \in File : Remove(e)

Spec == Init /\ [][Next]_vars

(* The dispatcher finishes a request it has begun, and the client goes on   *)
(* asking until it is told the end.                                         *)
FairSpec == Spec /\ WF_vars(Read) /\ WF_vars(\E r \in Request : GoOn(r) /\ QueryWildcard(r))

-----------------------------------------------------------------------------
(* Every variable has its type. *)
TypeOK ==
    /\ pos \in 2..(Files + 2) /\ dirPos \in {0, 1}
    /\ pending \in Seq(Entry) /\ single \in Entry \cup {0}
    /\ req \in Request /\ phase \in {"idle", "restart", "continue"}
    /\ told \in SUBSET Entry /\ status \in Status
    /\ listed \in SUBSET File /\ gone \in SUBSET File
    /\ asks \in 0..MaxAsks

(* What the stream has not given since it was last rewound.  The dots come  *)
(* with the first portion that could be read.                               *)
Unread == (IF dirPos = 0 THEN Dots ELSE {}) \cup {e \in File : e > pos}

(* What was read ahead is in the order of the directory and comes before    *)
(* everything the stream has yet to give, whatever portions, patterns,      *)
(* restarts and failed reads came before: appending to what is pending      *)
(* never repeats or reorders an entry.                                      *)
ReadAheadInOrder ==
    /\ Increasing(pending)
    /\ \A e \in Elements(pending), f \in Unread : e < f
    /\ phase # "idle" => pending = <<>>

Left == IF phase = "restart" THEN Entry ELSE Elements(pending) \cup Unread
L == INSTANCE Listing WITH left <- Left

(* The answers are those of an enumeration (Listing): each gives the next   *)
(* matching entries, none is skipped or repeated however the portions that  *)
(* are read and the answers' sizes divide the directory, and the end is     *)
(* announced only when no file that matches is left.                        *)
ImplementsListing == L!Spec

(* A client that goes on asking, with room for the largest entry, comes to  *)
(* the end, and is told so from then on: no answer that the buffer is too   *)
(* small or that nothing matched repeats for ever.                          *)
ListingEnds == <>[](status = "end")
============================================================================
