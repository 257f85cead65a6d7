-------------------------- MODULE DirectoryProofs --------------------------
(***************************************************************************)
(* The directory handler implements the enumeration of Listing, for every  *)
(* number of files, size of the entries, batch, set of patterns and of     *)
(* buffer lengths, and whatever is removed while it is read.               *)
(***************************************************************************)
EXTENDS Directory, SequenceTheorems, FiniteSetTheorems, TLAPS

(* A file that still exists can still be given by the stream. *)
ListsFiles == File \ gone \subseteq listed

(* Only a request with a pattern reads. *)
ReadsForPattern == phase # "idle" => req.wild

IInv == TypeOK /\ ReadAheadInOrder /\ ListsFiles /\ ReadsForPattern

(* What appendDirectoryEntries does to the set S of the entries it is given. *)
TellsFrom(S, r) ==
    /\ status' = "ok" /\ phase' = "idle"
    /\ told' # {} /\ told' \subseteq S \cap r.pat
    /\ told' \cap Elements(pending') = {}
    /\ (S \ Elements(pending')) \cap r.pat \subseteq told'
    /\ \A e \in told', f \in Elements(pending') : e < f

TooSmallFrom(S, r) ==
    /\ status' = "small" /\ phase' = "idle" /\ told' = {}
    /\ (S \ Elements(pending')) \cap r.pat = {}
    /\ Elements(pending') \cap r.pat # {}

PassesAll(S, r) ==
    /\ phase' = "continue" /\ UNCHANGED answer
    /\ pending' = <<>> /\ S \cap r.pat = {}

-----------------------------------------------------------------------------
(* The rest of an increasing sequence. *)
LEMMA RestOfSequence ==
    ASSUME NEW s \in Seq(Entry), NEW last \in 0..Len(s), Increasing(s)
    PROVE  LET rest == SubSeq(s, last + 1, Len(s))
           IN  /\ rest \in Seq(Entry)
               /\ Len(rest) = Len(s) - last
               /\ \A i \in 1..(Len(s) - last) : rest[i] = s[last + i]
               /\ Increasing(rest)
               /\ Elements(rest) = {s[i] : i \in (last + 1)..Len(s)}
<1> DEFINE rest == SubSeq(s, last + 1, Len(s))
<1>1. \A i \in (last + 1)..Len(s) : s[i] \in Entry
  OBVIOUS
<1>2. rest \in Seq(Entry) /\ Len(rest) = Len(s) - last
  <2>1. /\ rest \in Seq(Entry)
        /\ Len(rest) = IF last + 1 <= Len(s) THEN Len(s) - (last + 1) + 1 ELSE 0
    BY <1>1, SubSeqProperties
  <2> QED
    BY <2>1
<1>3. \A i \in 1..(Len(s) - last) : rest[i] = s[last + i]
  <2>1. \A i \in 1..(Len(s) - (last + 1) + 1) : rest[i] = s[(last + 1) + i - 1]
    BY <1>1, SubSeqProperties
  <2> QED
    BY <2>1
<1> HIDE DEF rest
<1>4. DOMAIN rest = 1..(Len(s) - last)
  BY <1>2
<1>5. Increasing(rest)
  BY <1>3, <1>4 DEF Increasing
<1>6. Elements(rest) \subseteq {s[i] : i \in (last + 1)..Len(s)}
  BY <1>3, <1>4 DEF Elements
<1>7. ASSUME NEW i \in (last + 1)..Len(s)
      PROVE  s[i] \in Elements(rest)
  <2>1. i - last \in 1..(Len(s) - last) /\ last + (i - last) = i
    OBVIOUS
  <2>2. rest[i - last] = s[i]
    BY <1>3, <2>1
  <2> QED
    BY <1>4, <2>1, <2>2 DEF Elements
<1> QED
  BY <1>2, <1>3, <1>5, <1>6, <1>7, SMTT(30) DEF rest

(* What was told and what stays pending, when last is the last one told. *)
LEMMA DividedAtLast ==
    ASSUME NEW s \in Seq(Entry), NEW last \in 0..Len(s), Increasing(s), NEW r
    PROVE  LET items == Matching(s, r, last)
               rest == Elements(SubSeq(s, last + 1, Len(s)))
           IN  /\ items \subseteq Elements(s) \cap r.pat
               /\ rest \subseteq Elements(s)
               /\ (Elements(s) \ rest) \cap r.pat \subseteq items
               /\ \A e \in items, f \in rest : e < f
<1> DEFINE items == Matching(s, r, last)
           rest == Elements(SubSeq(s, last + 1, Len(s)))
<1>1. rest = {s[i] : i \in (last + 1)..Len(s)}
  BY RestOfSequence
<1>2. items = {s[i] : i \in {k \in 1..last : s[k] \in r.pat}}
  BY DEF Matching
<1>3. Elements(s) = {s[i] : i \in 1..Len(s)}
  BY DEF Elements
<1>4. \A i, j \in 1..Len(s) : i < j => s[i] < s[j]
  BY DEF Increasing
<1> HIDE DEF items, rest
<1>5. items \subseteq Elements(s) \cap r.pat /\ rest \subseteq Elements(s)
  BY <1>1, <1>2, <1>3
<1>6. ASSUME NEW i \in 1..Len(s), s[i] \notin rest, s[i] \in r.pat
      PROVE  s[i] \in items
  BY <1>1, <1>2, <1>6
<1>7. (Elements(s) \ rest) \cap r.pat \subseteq items
  BY <1>3, <1>6
<1>8. \A e \in items, f \in rest : e < f
  BY <1>1, <1>2, <1>4
<1> QED
  BY <1>5, <1>7, <1>8 DEF items, rest

(* The last entry told, and the first that did not fit, match. *)
LEMMA StopMatches ==
    ASSUME NEW s \in Seq(Entry), NEW last \in 0..Len(s), NEW r, NEW full \in BOOLEAN,
           Fills(s, r, last, full)
    PROVE  /\ full => last + 1 \in 1..Len(s) /\ s[last + 1] \in r.pat
           /\ ~full => last = Len(s) \/ Matching(s, r, last) # {}
<1>1. CASE ~full /\ FirstStop(s, r, last)
  <2>1. last \in 1..Len(s) /\ s[last] \in r.pat
    BY <1>1 DEF FirstStop, Stops
  <2>2. s[last] \in Matching(s, r, last)
    BY <2>1 DEF Matching
  <2> QED
    BY <1>1, <2>2
<1>2. CASE full /\ FirstStop(s, r, last + 1)
  BY <1>2 DEF FirstStop, Stops
<1>3. CASE ~full /\ last = Len(s)
  BY <1>3
<1> QED
  BY <1>1, <1>2, <1>3 DEF Fills

(* appendDirectoryEntries and queryDirectoryAppendStatus: the entries are   *)
(* told, kept or passed over, and every one that matches is told or kept.   *)
LEMMA AppendEffect ==
    ASSUME NEW s \in Seq(Entry), Increasing(s), NEW r, AppendDirectoryEntries(s, r)
    PROVE  /\ pending' \in Seq(Entry) /\ Increasing(pending')
           /\ Elements(pending') \subseteq Elements(s)
           /\ TellsFrom(Elements(s), r) \/ TooSmallFrom(Elements(s), r) \/ PassesAll(Elements(s), r)
<1>1. PICK last \in 0..Len(s), full \in BOOLEAN :
          /\ Fills(s, r, last, full)
          /\ pending' = SubSeq(s, last + 1, Len(s))
          /\ QueryDirectoryAppendStatus(Matching(s, r, last), full)
  BY DEF AppendDirectoryEntries
<1> DEFINE items == Matching(s, r, last)
<1>2. /\ pending' \in Seq(Entry) /\ Increasing(pending')
      /\ Len(pending') = Len(s) - last
      /\ \A i \in 1..(Len(s) - last) : pending'[i] = s[last + i]
  BY <1>1, RestOfSequence
<1>3. /\ items \subseteq Elements(s) \cap r.pat
      /\ Elements(pending') \subseteq Elements(s)
      /\ (Elements(s) \ Elements(pending')) \cap r.pat \subseteq items
      /\ \A e \in items, f \in Elements(pending') : e < f
  BY <1>1, DividedAtLast
<1>4. Elements(s) \subseteq Entry
  BY DEF Elements
<1>5. items \cap Elements(pending') = {}
  <2>1. \A e \in Entry : ~(e < e)
    BY DirectoryAssumption DEF Entry
  <2> QED
    BY <1>3, <1>4, <2>1
<1>6. /\ full => last + 1 \in 1..Len(s) /\ s[last + 1] \in r.pat
      /\ ~full => last = Len(s) \/ items # {}
  BY <1>1, StopMatches
<1> HIDE DEF items
<1>7. ASSUME items # {} /\ Answers("ok", items)
      PROVE  TellsFrom(Elements(s), r)
  BY <1>3, <1>5, <1>7 DEF TellsFrom, Answers
<1>8. ASSUME items = {} /\ full /\ Answers("small", {})
      PROVE  TooSmallFrom(Elements(s), r)
  <2>1. pending'[1] = s[last + 1] /\ 1 \in DOMAIN pending'
    BY <1>2, <1>6, <1>8
  <2>2. Elements(pending') \cap r.pat # {}
    BY <1>6, <1>8, <2>1 DEF Elements
  <2> QED
    BY <1>3, <1>8, <2>2 DEF TooSmallFrom, Answers
<1>9. ASSUME items = {} /\ ~full /\ phase' = "continue" /\ UNCHANGED answer
      PROVE  PassesAll(Elements(s), r)
  <2>1. pending' = <<>>
    BY <1>2, <1>6, <1>9, EmptySeq
  <2>2. Elements(pending') = {}
    BY <2>1 DEF Elements
  <2> QED
    BY <1>3, <1>9, <2>1, <2>2 DEF PassesAll
<1> QED
  BY <1>1, <1>2, <1>3, <1>7, <1>8, <1>9 DEF QueryDirectoryAppendStatus, items

(* A portion as the stream gives it. *)
LEMMA ReadInOrder ==
    ASSUME NEW S \in SUBSET Entry, NEW s \in InOrder(S)
    PROVE  s \in Seq(Entry) /\ Increasing(s) /\ Elements(s) = S
<1>1. 1 \in Int /\ Files + 2 \in Int
  BY DirectoryAssumption
<1>2. IsFiniteSet(Entry)
  BY <1>1, FS_Interval DEF Entry
<1>3. IsFiniteSet(S)
  BY <1>2, FS_Subset
<1>4. Cardinality(S) \in Nat
  BY <1>3, FS_CardinalityType
<1> QED
  BY <1>4 DEF InOrder

(* The empty read-ahead is well formed. *)
LEMMA NothingPending ==
    <<>> \in Seq(Entry) /\ Increasing(<<>>) /\ Elements(<<>>) = {}
BY DEF Increasing, Elements

(* The patterns are sets of entries. *)
LEMMA RequestType ==
    ASSUME NEW r \in Request
    PROVE  r.pat \in SUBSET Entry /\ r.room \in Nat
<1>1. r.pat \in Patterns \cup {{e} : e \in Entry} /\ r.room \in Rooms
  BY Zenon DEF Request
<1> QED
  BY <1>1, DirectoryAssumption

-----------------------------------------------------------------------------
(* The inductive invariant holds when the directory is opened. *)
LEMMA InvInit == Init => IInv
<1> SUFFICES ASSUME Init PROVE IInv
  OBVIOUS
<1>1. 2 \in 2..(Files + 2) /\ 0 \in 0..MaxAsks
  BY DirectoryAssumption
<1>2. TypeOK
  BY <1>1, NothingPending DEF Init, TypeOK, Status
<1>3. ReadAheadInOrder
  BY NothingPending DEF Init, ReadAheadInOrder
<1> QED
  BY <1>2, <1>3 DEF Init, IInv, ListsFiles, ReadsForPattern

(* A request that is refused keeps the invariant. *)
LEMMA InvRefused == IInv /\ QueryRefused => IInv'
<1> SUFFICES ASSUME IInv, QueryRefused PROVE IInv'
  OBVIOUS
<1>1. asks' \in 0..MaxAsks
  BY DirectoryAssumption DEF QueryRefused, IInv, TypeOK
<1>2. TypeOK'
  BY <1>1 DEF QueryRefused, Answers, IInv, TypeOK, Status
<1>3. ReadAheadInOrder'
  BY DEF QueryRefused, Answers, IInv, ReadAheadInOrder, Unread, Increasing, Elements
<1> QED
  BY <1>2, <1>3 DEF QueryRefused, Answers, IInv, ListsFiles, ReadsForPattern

(* What an accepted request leaves of the invariant to be shown. *)
LEMMA InvBegin ==
    ASSUME IInv, NEW r \in Request, Begin(r),
           pending' \in Seq(Entry), Increasing(pending'), Elements(pending') \subseteq Elements(pending),
           phase' # "idle" => pending' = <<>> /\ r.wild,
           single' \in Entry \cup {0}, phase' \in {"idle", "restart", "continue"},
           told' \in SUBSET Entry, status' \in Status,
           listed' \in {listed, File \ gone}
    PROVE  IInv'
<1>1. asks' \in 0..MaxAsks
  <2>1. asks \in Int /\ MaxAsks \in Int /\ 0 <= asks /\ asks <= MaxAsks
    BY DirectoryAssumption DEF IInv, TypeOK
  <2> QED
    BY <2>1 DEF Begin, Within, Count
<1>2. TypeOK'
  BY <1>1 DEF Begin, IInv, TypeOK
<1>3. Unread' = Unread
  BY DEF Begin, Unread
<1>4. ReadAheadInOrder'
  BY <1>3 DEF IInv, ReadAheadInOrder
<1> QED
  BY <1>2, <1>4 DEF Begin, IInv, ListsFiles, ReadsForPattern

(* A request with no room for an answer keeps the invariant. *)
LEMMA InvNoRoom == ASSUME IInv, NEW r \in Request, QueryNoRoom(r) PROVE IInv'
<1>1. pending \in Seq(Entry) /\ Increasing(pending) /\ single \in Entry \cup {0}
  BY DEF IInv, TypeOK, ReadAheadInOrder
<1>2. pending' \in Seq(Entry) /\ Increasing(pending') /\ Elements(pending') \subseteq Elements(pending)
  BY <1>1, NothingPending DEF QueryNoRoom
<1>3. phase' = "idle" /\ told' = {} /\ status' = "small" /\ listed' = listed /\ Begin(r)
  BY DEF QueryNoRoom, Answers
<1>4. single' \in Entry \cup {0}
  BY <1>1 DEF QueryNoRoom
<1> QED
  BY <1>2, <1>3, <1>4, InvBegin DEF Status

(* The look-up of a plain name keeps the invariant. *)
LEMMA InvName == ASSUME IInv, NEW r \in Request, QueryName(r) PROVE IInv'
<1>1. pending \in Seq(Entry) /\ Increasing(pending) /\ single \in Entry \cup {0}
  BY DEF IInv, TypeOK, ReadAheadInOrder
<1>2. pending' \in Seq(Entry) /\ Increasing(pending') /\ Elements(pending') \subseteq Elements(pending)
  BY <1>1, NothingPending DEF QueryName
<1>3. phase' = "idle" /\ listed' = listed /\ Begin(r)
  BY DEF QueryName, Answers
<1>4. told' \in SUBSET Entry /\ status' \in Status /\ single' \in Entry \cup {0}
  BY <1>1, RequestType DEF QueryName, Answers, Status
<1> QED
  BY <1>2, <1>3, <1>4, InvBegin

(* Telling what is pending, or a restart, keeps the invariant. *)
LEMMA InvWildcard == ASSUME IInv, NEW r \in Request, QueryWildcard(r) PROVE IInv'
<1>1. /\ pending \in Seq(Entry) /\ Increasing(pending) /\ single \in Entry \cup {0}
      /\ told \in SUBSET Entry /\ status \in Status
  BY DEF IInv, TypeOK, ReadAheadInOrder
<1>2. Begin(r) /\ r.wild /\ single' \in Entry \cup {0}
  BY <1>1 DEF QueryWildcard
<1>3. CASE r.restart
  <2>1. /\ pending' = <<>> /\ phase' = "restart" /\ listed' = File \ gone
        /\ told' = told /\ status' = status
    BY <1>3 DEF QueryWildcard, answer
  <2>2. pending' \in Seq(Entry) /\ Increasing(pending') /\ Elements(pending') \subseteq Elements(pending)
    BY <2>1, NothingPending
  <2> QED
    BY <1>1, <1>2, <2>1, <2>2, InvBegin
<1>4. CASE ~r.restart
  <2>1. AppendDirectoryEntries(pending, r) /\ listed' = listed
    BY <1>4 DEF QueryWildcard
  <2>2. /\ pending' \in Seq(Entry) /\ Increasing(pending')
        /\ Elements(pending') \subseteq Elements(pending)
        /\ \/ TellsFrom(Elements(pending), r)
           \/ TooSmallFrom(Elements(pending), r)
           \/ PassesAll(Elements(pending), r)
    BY <1>1, <2>1, AppendEffect
  <2>3. /\ phase' \in {"idle", "restart", "continue"} /\ (phase' # "idle" => pending' = <<>>)
        /\ told' \in SUBSET Entry /\ status' \in Status
    BY <1>1, <2>2, RequestType DEF TellsFrom, TooSmallFrom, PassesAll, answer, Status
  <2> QED
    BY <1>2, <2>1, <2>2, <2>3, InvBegin
<1> QED
  BY <1>3, <1>4

-----------------------------------------------------------------------------
(* Where a read begins: nothing is pending, and what is still to come is    *)
(* what the stream has not given from there on.                             *)
LEMMA ReadBegins ==
    ASSUME IInv, phase # "idle"
    PROVE  /\ pending = <<>> /\ FromDir \in {0, 1} /\ From \in 2..(Files + 2)
           /\ FirstDots = IF FromDir = 0 THEN Dots ELSE {}
           /\ Left = FirstDots \cup {e \in File : e > From}
<1>1. pending = <<>>
  BY DEF IInv, ReadAheadInOrder
<1>2. FromDir \in {0, 1} /\ From \in 2..(Files + 2)
  BY DirectoryAssumption DEF IInv, TypeOK, From, FromDir
<1>3. \A e \in File : e > 2
  BY DirectoryAssumption DEF File, Dots, Entry
<1>4. Dots \subseteq Entry
  BY DirectoryAssumption DEF Dots, Entry
<1>5. Left = FirstDots \cup {e \in File : e > From}
  <2>1. CASE phase = "restart"
    BY <1>3, <1>4, <2>1 DEF Left, FirstDots, FromDir, From, File
  <2>2. CASE phase # "restart"
    BY <1>1, <2>2, NothingPending DEF Left, FirstDots, FromDir, From, Unread
  <2> QED
    BY <2>1, <2>2
<1> QED
  BY <1>1, <1>2, <1>5 DEF FirstDots

(* What a read that gives entries does: the portion and what the stream has *)
(* not given after it.                                                      *)
LEMMA ReadEffect ==
    ASSUME IInv, NEW upto, NEW got \in SUBSET File, phase # "idle",
           Gives(upto, got), pos' = upto, ReadEntries(upto, got)
    PROVE  /\ pending' \in Seq(Entry) /\ Increasing(pending')
           /\ dirPos' = 1
           /\ Unread' = {e \in File : e > upto}
           /\ Elements(pending') \subseteq got \cup FirstDots
           /\ \/ TellsFrom(got \cup FirstDots, req)
              \/ TooSmallFrom(got \cup FirstDots, req)
              \/ PassesAll(got \cup FirstDots, req)
<1>1. got \cup FirstDots \in SUBSET Entry
  BY DirectoryAssumption DEF FirstDots, Dots, File, Entry
<1>2. PICK s \in InOrder(got \cup FirstDots) : AppendDirectoryEntries(s, req)
  BY DEF ReadEntries
<1>3. s \in Seq(Entry) /\ Increasing(s) /\ Elements(s) = got \cup FirstDots
  BY <1>1, ReadInOrder
<1>4. dirPos' = 1 /\ Unread' = {e \in File : e > upto}
  BY DEF ReadEntries, Unread
<1> QED
  BY <1>2, <1>3, <1>4, AppendEffect, Zenon

(* The entries of a portion come before those after it. *)
LEMMA PortionFirst ==
    ASSUME IInv, NEW upto, NEW got \in SUBSET File, phase # "idle", Gives(upto, got)
    PROVE  /\ upto \in From..(Files + 2)
           /\ \A e \in got \cup FirstDots, f \in {x \in File : x > upto} : e < f
<1>1. From \in 2..(Files + 2)
  BY ReadBegins
<1>2. upto \in From..(Files + 2) /\ \A e \in got : From < e /\ e <= upto
  BY DEF Gives
<1>3. File \subseteq Int /\ FirstDots \subseteq {1, 2}
  BY DirectoryAssumption DEF File, Entry, FirstDots, Dots
<1> QED
  BY <1>1, <1>2, <1>3, DirectoryAssumption

(* A portion that is read, told and kept keeps the invariant. *)
LEMMA InvRead ==
    ASSUME IInv, NEW upto, NEW got \in SUBSET File, ReadDir(upto, got)
    PROVE  IInv'
<1>1. /\ phase # "idle" /\ Gives(upto, got) /\ pos' = upto
      /\ UNCHANGED <<single, req, listed, gone, asks>>
  BY DEF ReadDir
<1>2. pending = <<>> /\ FromDir \in {0, 1}
  BY <1>1, ReadBegins
<1>3. /\ pos' \in 2..(Files + 2)
      /\ \A e \in got \cup FirstDots, f \in {x \in File : x > upto} : e < f
  <2>1. upto \in From..(Files + 2) /\ From \in 2..(Files + 2)
    BY <1>1, PortionFirst, ReadBegins
  <2>2. upto \in 2..(Files + 2)
    BY <2>1, DirectoryAssumption
  <2> QED
    BY <1>1, <2>2, PortionFirst
<1>4. CASE ReadEnd(upto, got) \/ ReadLost(upto, got)
  <2>1. /\ pending' = <<>> /\ dirPos' \in {0, 1} /\ phase' = "idle"
        /\ told' = {} /\ status' \in Status
    BY <1>2, <1>4 DEF ReadEnd, ReadLost, Answers, IInv, TypeOK, Status
  <2>2. TypeOK'
    BY <1>1, <1>3, <2>1, NothingPending DEF IInv, TypeOK
  <2>3. ReadAheadInOrder'
    BY <2>1, NothingPending DEF ReadAheadInOrder
  <2> QED
    BY <1>1, <2>1, <2>2, <2>3 DEF IInv, ListsFiles, ReadsForPattern
<1>5. CASE ReadEntries(upto, got)
  <2>1. /\ pending' \in Seq(Entry) /\ Increasing(pending')
        /\ dirPos' = 1
        /\ Unread' = {e \in File : e > upto}
        /\ Elements(pending') \subseteq got \cup FirstDots
        /\ \/ TellsFrom(got \cup FirstDots, req)
           \/ TooSmallFrom(got \cup FirstDots, req)
           \/ PassesAll(got \cup FirstDots, req)
    BY <1>1, <1>5, ReadEffect, Zenon
  <2>2. req.pat \in SUBSET Entry /\ told \in SUBSET Entry /\ status \in Status
    BY RequestType DEF IInv, TypeOK
  <2>3. /\ phase' \in {"idle", "restart", "continue"} /\ (phase' # "idle" => pending' = <<>>)
        /\ told' \in SUBSET Entry /\ status' \in Status
    BY <2>1, <2>2 DEF TellsFrom, TooSmallFrom, PassesAll, answer, Status
  <2>4. TypeOK'
    BY <1>1, <1>3, <2>1, <2>3 DEF IInv, TypeOK
  <2>5. ReadAheadInOrder'
    BY <1>3, <2>1, <2>3 DEF ReadAheadInOrder
  <2> QED
    BY <1>1, <2>4, <2>5 DEF IInv, ListsFiles, ReadsForPattern
<1> QED
  BY <1>4, <1>5 DEF ReadDir

(* A read that fails keeps the invariant. *)
LEMMA InvReadFails == IInv /\ ReadFails => IInv'
<1> SUFFICES ASSUME IInv, ReadFails PROVE IInv'
  OBVIOUS
<1>1. pending = <<>> /\ FromDir \in {0, 1} /\ From \in 2..(Files + 2)
  BY ReadBegins DEF ReadFails
<1>2. asks' \in 0..MaxAsks
  BY DirectoryAssumption DEF ReadFails, IInv, TypeOK
<1>3. TypeOK'
  BY <1>1, <1>2 DEF ReadFails, Answers, IInv, TypeOK, Status
<1>4. pending' = <<>>
  BY <1>1 DEF ReadFails
<1>5. ReadAheadInOrder'
  BY <1>4, NothingPending DEF ReadAheadInOrder
<1> QED
  BY <1>3, <1>5 DEF ReadFails, Answers, IInv, ListsFiles, ReadsForPattern

(* A file that another process removes keeps the invariant. *)
LEMMA InvRemove == ASSUME IInv, NEW e \in File, Remove(e) PROVE IInv'
<1>1. TypeOK'
  BY DEF Remove, IInv, TypeOK
<1>2. ReadAheadInOrder'
  BY DEF Remove, IInv, ReadAheadInOrder, Unread, Elements, Increasing
<1> QED
  BY <1>1, <1>2 DEF Remove, IInv, ListsFiles, ReadsForPattern

(* Every step keeps the invariant. *)
LEMMA InvNext == IInv /\ [Next]_vars => IInv'
<1> SUFFICES ASSUME IInv, [Next]_vars PROVE IInv'
  OBVIOUS
<1>1. CASE \E r \in Request : Query(r)
  BY <1>1, InvNoRoom, InvName, InvWildcard DEF Query
<1>2. CASE QueryRefused
  BY <1>2, InvRefused
<1>3. CASE Read
  BY <1>3, InvRead DEF Read
<1>4. CASE ReadFails
  BY <1>4, InvReadFails
<1>5. CASE \E e \in File : Remove(e)
  BY <1>5, InvRemove
<1>6. CASE UNCHANGED vars
  BY <1>6 DEF vars, IInv, TypeOK, ReadAheadInOrder, ListsFiles, ReadsForPattern, Unread, Elements, Increasing
<1> QED
  BY <1>1, <1>2, <1>3, <1>4, <1>5, <1>6, SMTT(30) DEF Next

(* Every QUERY_DIRECTORY leaves the open directory well-formed.             *)
THEOREM DirectoryTyped == Spec => []TypeOK
<1>1. IInv => TypeOK
  BY DEF IInv
<1> QED
  BY <1>1, InvInit, InvNext, PTL DEF Spec

(* What the server has read ahead is always in the order of the directory,  *)
(* without repetition, and ahead of what the stream has yet to give.        *)
THEOREM ReadAheadCorrect == Spec => []ReadAheadInOrder
<1>1. IInv => ReadAheadInOrder
  BY DEF IInv
<1> QED
  BY <1>1, InvInit, InvNext, PTL DEF Spec

-----------------------------------------------------------------------------
(* An open directory starts as an enumeration of all entries. *)
LEMMA RefineInit == Init => L!Init
<1> SUFFICES ASSUME Init PROVE L!Init
  OBVIOUS
<1>1. \A e \in File : e > 2
  BY DirectoryAssumption DEF File, Dots, Entry
<1>2. Dots \subseteq Entry
  BY DirectoryAssumption DEF Dots, Entry
<1>3. Left = Entry
  BY <1>1, <1>2, NothingPending DEF Init, Left, Unread, File
<1> QED
  BY <1>3 DEF Init, L!Init

(* A request that only drops what was read ahead, if anything. *)
LEMMA LeftAfterAsk ==
    ASSUME IInv, NEW r \in Request, Begin(r), phase' = "idle",
           pending' = IF r.restart THEN <<>> ELSE pending
    PROVE  /\ Left' \subseteq Left
           /\ ~r.restart => Left' = Left
<1>1. phase = "idle" /\ Unread' = Unread
  BY DEF Begin, Unread
<1> QED
  BY <1>1, NothingPending DEF Left

(* A request with no room is a step of the enumeration. *)
LEMMA RefineNoRoom == ASSUME IInv, NEW r \in Request, QueryNoRoom(r) PROVE L!Next
<1>1. Left' \subseteq Left /\ (~r.restart => Left' = Left)
  BY LeftAfterAsk DEF QueryNoRoom, Answers
<1>2. L!Ask(r)
  BY <1>1 DEF L!Ask, QueryNoRoom, Answers
<1>3. req' = r /\ gone' = gone
  BY DEF QueryNoRoom, Begin
<1> QED
  BY <1>2, <1>3 DEF L!Next, L!Answer

(* The look-up of a plain name is a step of the enumeration. *)
LEMMA RefineName == ASSUME IInv, NEW r \in Request, QueryName(r) PROVE L!Next
<1>1. phase' = "idle" /\ Begin(r) /\ pending' = IF r.restart THEN <<>> ELSE pending
  BY DEF QueryName, Answers
<1>2. Left' \subseteq Left /\ (~r.restart => Left' = Left)
  BY <1>1, LeftAfterAsk
<1>3. \A e \in r.pat : r.pat = {e}
  BY Zenon DEF QueryName, Request
<1>4. L!Ask(r)
  BY <1>2, <1>3, ZenonT(40) DEF L!Ask, QueryName, Answers
<1>5. req' = r /\ gone' = gone
  BY <1>1 DEF Begin
<1> QED
  BY <1>4, <1>5 DEF L!Next, L!Answer

(* Entries appended to an answer, as the enumeration sees it: S was taken   *)
(* in hand, rest comes after it, and nothing but removed files of what was  *)
(* to come is in neither.                                                   *)
LEMMA RefineAppend ==
    ASSUME NEW S, NEW rest, NEW r,
           Left \cap r.pat \subseteq S \cup rest \cup gone, S \cup rest \subseteq Left,
           Left' = Elements(pending') \cup rest,
           Elements(pending') \subseteq S,
           \A e \in S, f \in rest : e < f /\ e # f,
           TellsFrom(S, r) \/ TooSmallFrom(S, r) \/ PassesAll(S, r)
    PROVE  L!Goes(r)
<1>1. CASE TellsFrom(S, r)
  <2>1. told' \cap Left' = {}
    BY <1>1 DEF TellsFrom
  <2>2. \A e \in told', f \in Left' : e < f
    BY <1>1, SMTT(30) DEF TellsFrom
  <2>3. L!Tell(r)
    BY <1>1, <2>1, <2>2, SMTT(30) DEF TellsFrom, L!Tell
  <2> QED
    BY <2>3 DEF L!Goes
<1>2. CASE TooSmallFrom(S, r)
  <2>1. L!TooSmall(r)
    BY <1>2 DEF TooSmallFrom, L!TooSmall, L!Passes
  <2> QED
    BY <2>1 DEF L!Goes
<1>3. CASE PassesAll(S, r)
  <2>1. L!Pass(r)
    BY <1>3 DEF PassesAll, L!Pass, L!Passes, answer
  <2> QED
    BY <2>1 DEF L!Goes
<1> QED
  BY <1>1, <1>2, <1>3

(* Telling what is pending is a step of the enumeration. *)
LEMMA RefineWildcard == ASSUME IInv, NEW r \in Request, QueryWildcard(r) PROVE L!Next
<1>1. Begin(r) /\ r.wild /\ r.room > 0
  BY DEF QueryWildcard
<1>2. req' = r /\ gone' = gone /\ phase = "idle" /\ Unread' = Unread
  BY <1>1 DEF Begin, Unread
<1>3. CASE r.restart
  <2>1. Left' = Entry /\ told' = told /\ status' = status
    BY <1>3 DEF QueryWildcard, Left, answer
  <2>2. L!Scan(r)
    BY <1>1, <1>3, <2>1, SMTT(30) DEF L!Scan
  <2> QED
    BY <1>2, <2>2 DEF L!Next, L!Answer
<1>4. CASE ~r.restart
  <2>1. /\ pending \in Seq(Entry) /\ Increasing(pending)
        /\ \A e \in Elements(pending), f \in Unread : e < f
    BY DEF IInv, TypeOK, ReadAheadInOrder
  <2>2. AppendDirectoryEntries(pending, r)
    BY <1>4 DEF QueryWildcard
  <2>3. /\ Elements(pending') \subseteq Elements(pending)
        /\ \/ TellsFrom(Elements(pending), r)
           \/ TooSmallFrom(Elements(pending), r)
           \/ PassesAll(Elements(pending), r)
    BY <2>1, <2>2, AppendEffect
  <2>4. phase' # "restart"
    BY <2>3 DEF TellsFrom, TooSmallFrom, PassesAll
  <2>5. Left = Elements(pending) \cup Unread /\ Left' = Elements(pending') \cup Unread
    BY <1>2, <2>4 DEF Left
  <2>6. \A e \in Elements(pending), f \in Unread : e < f /\ e # f
    <3>1. Elements(pending) \subseteq Int /\ Unread \subseteq Int
      BY <2>1, DirectoryAssumption DEF Elements, Unread, Entry, File, Dots
    <3> QED
      BY <2>1, <3>1
  <2>7. L!Goes(r)
    BY <2>3, <2>5, <2>6, RefineAppend
  <2>8. L!Scan(r)
    BY <1>1, <1>4, <2>7 DEF L!Scan
  <2> QED
    BY <1>2, <2>8 DEF L!Next, L!Answer
<1> QED
  BY <1>3, <1>4

(* Reading a portion and telling from it is a step of the enumeration. *)
LEMMA RefineRead ==
    ASSUME IInv, NEW upto, NEW got \in SUBSET File, ReadDir(upto, got)
    PROVE  L!Next
<1>1. /\ phase # "idle" /\ Gives(upto, got) /\ pos' = upto
      /\ req' = req /\ gone' = gone
  BY DEF ReadDir
<1>2. /\ pending = <<>> /\ FromDir \in {0, 1} /\ From \in 2..(Files + 2)
      /\ FirstDots = IF FromDir = 0 THEN Dots ELSE {}
      /\ Left = FirstDots \cup {e \in File : e > From}
  BY <1>1, ReadBegins
<1>3. /\ upto \in From..(Files + 2)
      /\ \A e \in got \cup FirstDots, f \in {x \in File : x > upto} : e < f
  BY <1>1, PortionFirst
<1>4. req.wild
  BY <1>1 DEF IInv, ReadsForPattern
<1>5. \A e \in File : e \in Int /\ e <= Files + 2
  BY DirectoryAssumption DEF File, Entry
<1>6. {e \in File : e > upto} \subseteq {e \in File : e > From}
  BY <1>2, <1>3, <1>5, DirectoryAssumption, SMTT(30)
<1>7. \A e \in File \ gone : e > From => e \in got \/ e > upto
  BY <1>1, <1>2, <1>3, <1>5, DirectoryAssumption, SMTT(30) DEF Gives, IInv, ListsFiles
<1>8. CASE ReadEnd(upto, got)
  <2>1. got = {} /\ FirstDots = {} /\ dirPos' = 1 /\ pending' = <<>> /\ phase' = "idle"
    BY <1>2, <1>8 DEF ReadEnd, Answers, FromDir, IInv, TypeOK
  <2>2. upto = Files + 2
    <3>1. Cardinality(got) = 0 /\ ReadMax \in Nat \ {0}
      BY <2>1, FS_EmptySet, DirectoryAssumption DEF ReadMax
    <3>2. Cardinality(got) < ReadMax
      BY <3>1
    <3> QED
      BY <1>1, <3>2 DEF Gives
  <2>3. {e \in File : e > upto} = {}
    BY <1>5, <2>2, DirectoryAssumption
  <2>4. Left' = {}
    BY <1>1, <2>1, <2>3, NothingPending, SMTT(30) DEF Left, Unread
  <2>5. Left \cap req.pat \subseteq gone
    BY <1>2, <1>7, <2>1, <2>3, SMTT(30)
  <2>6. L!End(req)
    BY <1>8, <2>4, <2>5, SMTT(30) DEF L!End, ReadEnd, Answers
  <2> QED
    BY <1>1, <1>4, <2>6 DEF L!Next, L!Answer, L!Goes
<1>9. CASE ReadLost(upto, got)
  <2>1. /\ pending' = <<>> /\ dirPos' = FromDir /\ phase' = "idle"
        /\ status' = "error" /\ told' = {}
    BY <1>2, <1>9 DEF ReadLost, Answers
  <2>2. Left' = FirstDots \cup {e \in File : e > upto}
    BY <1>1, <1>2, <2>1, NothingPending, SMTT(30) DEF Left, Unread
  <2>3. L!Fail
    BY <1>2, <1>6, <2>1, <2>2 DEF L!Fail
  <2> QED
    BY <1>1, <1>4, <2>3 DEF L!Next, L!Answer
<1>10. CASE ReadEntries(upto, got)
  <2> DEFINE S == got \cup FirstDots
             rest == {e \in File : e > upto}
  <2>1. /\ Unread' = rest /\ Elements(pending') \subseteq S
        /\ TellsFrom(S, req) \/ TooSmallFrom(S, req) \/ PassesAll(S, req)
    BY <1>1, <1>10, ReadEffect, Zenon
  <2>2. Left' = Elements(pending') \cup rest
    BY <2>1 DEF Left, TellsFrom, TooSmallFrom, PassesAll
  <2>3. S \cup rest \subseteq Left
    BY <1>1, <1>2, <1>6 DEF Gives
  <2>4. Left \cap req.pat \subseteq S \cup rest \cup gone
    BY <1>2, <1>7
  <2>5. \A e \in S, f \in rest : e < f /\ e # f
    <3>1. S \subseteq Int
      BY <1>5, SMTT(30) DEF FirstDots, Dots
    <3> QED
      BY <1>3, <1>5, <3>1
  <2> HIDE DEF S, rest
  <2>6. L!Goes(req)
    BY <2>1, <2>2, <2>3, <2>4, <2>5, RefineAppend, Zenon
  <2> QED
    BY <1>1, <1>4, <2>6 DEF L!Next, L!Answer
<1> QED
  BY <1>8, <1>9, <1>10 DEF ReadDir

(* A failed read is a step of the enumeration. *)
LEMMA RefineReadFails == ASSUME IInv, ReadFails PROVE L!Next
<1>1. /\ phase # "idle" /\ pos' = From /\ dirPos' = FromDir
      /\ phase' = "idle" /\ status' = "error" /\ told' = {}
      /\ pending' = pending /\ req' = req /\ gone' = gone
  BY DEF ReadFails, Answers
<1>2. /\ pending = <<>> /\ FirstDots = IF FromDir = 0 THEN Dots ELSE {}
      /\ Left = FirstDots \cup {e \in File : e > From}
  BY <1>1, ReadBegins
<1>3. Left' = FirstDots \cup {e \in File : e > From}
  BY <1>1, <1>2, NothingPending DEF Left, Unread
<1>4. L!Fail
  BY <1>1, <1>2, <1>3 DEF L!Fail
<1>5. req.wild
  BY <1>1 DEF IInv, ReadsForPattern
<1> QED
  BY <1>1, <1>4, <1>5 DEF L!Next, L!Answer

(* Every step is a step of the enumeration or leaves it alone. *)
LEMMA RefineNext == IInv /\ [Next]_vars => [L!Next]_(L!vars)
<1> SUFFICES ASSUME IInv, [Next]_vars PROVE [L!Next]_(L!vars)
  OBVIOUS
<1>1. CASE \E r \in Request : Query(r)
  BY <1>1, RefineNoRoom, RefineName, RefineWildcard DEF Query
<1>2. CASE QueryRefused
  <2>1. Left' = Left /\ req' = req /\ gone' = gone /\ status' = "error" /\ told' = {}
    BY <1>2 DEF QueryRefused, Answers, Left, Unread, Elements
  <2> QED
    BY <2>1 DEF L!Next, L!Answer, L!Refuse
<1>3. CASE Read
  BY <1>3, RefineRead DEF Read
<1>4. CASE ReadFails
  BY <1>4, RefineReadFails
<1>5. CASE \E e \in File : Remove(e)
  <2>1. PICK e \in File : Remove(e)
    BY <1>5
  <2>2. /\ Left' = Left /\ req' = req /\ told' = told /\ status' = status
        /\ gone' = gone \cup {e} /\ e \in Entry
    BY <2>1 DEF Remove, Left, Unread, Elements, File
  <2> QED
    BY <2>2 DEF L!Next, L!Remove
<1>6. CASE UNCHANGED vars
  BY <1>6 DEF vars, L!vars, Left, Unread, Elements
<1> QED
  BY <1>1, <1>2, <1>3, <1>4, <1>5, <1>6, SMTT(30) DEF Next

(* Every behaviour of queryDirectory over readDir is one of the enumeration *)
(* that Listing describes: nothing that still exists is skipped or told     *)
(* twice, and the end is announced only when all was told.                  *)
THEOREM DirectoryImplementsListing == Spec => ImplementsListing
<1>1. Init => L!Init
  BY RefineInit
<1>2. IInv /\ [Next]_vars => [L!Next]_(L!vars)
  BY RefineNext
<1> QED
  BY <1>1, <1>2, InvInit, InvNext, PTL DEF Spec, ImplementsListing, L!Spec
============================================================================
