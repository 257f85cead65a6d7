------------------------------- MODULE Wire -------------------------------
(* Byte buffers as the encoders and the decoders of internal/smb2 use them. *)
(* A buffer is its length and the cells written into it.  A cell is a half  *)
(* open range of bytes with what was last written there: a named field of   *)
(* the message (num is its index in a list, 0 otherwise), or, with the name *)
(* "", a number the decoders compute with: a length, an offset, a count, a  *)
(* structure size.  A write destroys the cells it overlaps, so that a field *)
(* that a later store clobbers is no longer found.                          *)
(*                                                                          *)
(* A message is abstracted to the lengths that decide where its bytes go:   *)
(* n, the length of its payload (or the number of its elements), and items, *)
(* the sizes of the structures nested in it.                                *)
EXTENDS Integers, Sequences, FiniteSets, SequencesExt

Message(kind, n, items) == [kind |-> kind, n |-> n, items |-> items]

Roundup(x, align) == ((x + align - 1) \div align) * align

(* Go's uint16 arithmetic. *)
U16(x) == x % 65536

(* A store of a little-endian number, of the field called name, and of the  *)
(* i-th element of a list of fields.                                        *)
U(from, to, v) == [name |-> "", from |-> from, to |-> to, num |-> v]
P(name, from, to) == [name |-> name, from |-> from, to |-> to, num |-> 0]
L(name, i, from, to) == [name |-> name, from |-> from, to |-> to, num |-> i]

Overlap(c, from, to) == c.from < to /\ from < c.to /\ c.from < c.to

(* What an encoder leaves in a zeroed buffer of Size() bytes: the stores,   *)
(* in program order, that no later one overlaps.  An empty store leaves     *)
(* nothing.                                                                 *)
Written(puts) ==
    {puts[i] : i \in {k \in DOMAIN puts : /\ puts[k].from < puts[k].to
                                         /\ \A j \in (k + 1)..Len(puts) : ~Overlap(puts[j], puts[k].from, puts[k].to)}}

Buffer(size, puts) == [len |-> size, cells |-> Written(puts)]

(* Two's-complement truncation of a number to the bytes that are read.      *)
Low(v, width) == IF width = 1 THEN v % 256 ELSE IF width = 2 THEN U16(v) ELSE v

(* The number a decoder reads: 0 where nothing was written, the low bytes   *)
(* of a number that starts there, and a value no check accepts where it     *)
(* cuts through something else.                                             *)
Unreadable == 2000000000
NumAt(r, from, to) ==
    LET hit == {c \in r.cells : Overlap(c, from, to)}
    IN  IF hit = {} THEN 0
        ELSE IF \E c \in hit : c.from = from /\ c.to >= to
             THEN Low((CHOOSE c \in hit : c.from = from /\ c.to >= to).num, to - from)
             ELSE Unreadable

(* r[from:to] as a buffer of its own. *)
Slice(r, from, to) ==
    [len |-> to - from,
     cells |-> {[c EXCEPT !.from = @ - from, !.to = @ - from] :
                  c \in {d \in r.cells : d.from >= from /\ d.to <= to}}]

Shift(puts, by) == [i \in DOMAIN puts |-> [puts[i] EXCEPT !.from = @ + by, !.to = @ + by]]

(* The offsets at which items of the given sizes start, each rounded up to  *)
(* align, the first at or after off; the last element is where they end.    *)
Layout(off, sizes, align) ==
    FoldLeft(LAMBDA offs, s : Append(SubSeq(offs, 1, Len(offs) - 1),
                                     Roundup(Last(offs), align))
                              \o <<Roundup(Last(offs), align) + s>>,
             <<off>>, sizes)

(* What a decoder makes of a buffer: whether IsInvalid lets it pass, the    *)
(* fields its accessors return, and the ones whose accessor returns the     *)
(* rest of the buffer whatever the length of the field.                     *)
Decoded(valid, get) == [valid |-> valid, get |-> get, rest |-> {}]
DecodedRest(valid, get, rest) == [valid |-> valid, get |-> get, rest |-> rest]

Fields(cells) == {c \in cells : c.name # "" /\ c.from < c.to}

(* The decoder accepts the buffer and returns, whole, every field of the    *)
(* given names that was given to the encoder, and nothing else.             *)
RecoversNamed(r, d, names) ==
    LET sent == {c \in Fields(r.cells) : c.name \in names}
    IN  /\ d.valid
        /\ Fields(d.get) \subseteq sent
        /\ \A c \in sent \ d.get : \E o \in d.rest : o.name = c.name /\ o.from = c.from /\ c.to <= o.to

(* ... every field; every field that the decoder has an accessor for.       *)
Recovers(r, d) == RecoversNamed(r, d, {c.name : c \in r.cells})
RecoversRead(r, d) == RecoversNamed(r, d, {c.name : c \in d.get \union d.rest})

(* No store of the encoder falls outside the buffer and none clobbers a     *)
(* field that was stored before it.                                         *)
Intact(size, puts) ==
    LET r == Buffer(size, puts)
    IN  /\ \A i \in DOMAIN puts : puts[i].from >= 0 /\ puts[i].to <= size
        /\ Fields(ToSet(puts)) \subseteq r.cells
============================================================================
