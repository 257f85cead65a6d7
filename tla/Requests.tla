----------------------------- MODULE Requests -----------------------------
(* The SMB2 request packets of internal/smb2/request.go, and the negotiate  *)
(* and create contexts they carry.  For each packet X, X(m) is its Size and *)
(* Encode and XDecoder(r) its decoder.  Offsets are those of the body,      *)
(* pkt[64:]; a size includes the 64 bytes of the header.                    *)
EXTENDS Wire

Encoded(size, put) == [size |-> size, put |-> put]

(* Go's len check of a buffer that the sum of two uint16 fields delimits.   *)
Fits16(r, off, n) == r.len >= U16(off + n) - 64

-----------------------------------------------------------------------------
(* Negotiate contexts: a type, the length of the data, and at 8 the data;   *)
(* the next one starts at the following multiple of 8.                      *)
ContextPuts(i, off, size) ==
    <<L("ContextType", i, off, off + 2), U(off + 2, off + 4, size - 8), L("Context", i, off + 8, off + size)>>

NegotiateContexts(offs, items) ==
    FlattenSeq([i \in DOMAIN items |-> ContextPuts(i, offs[i], items[i])])

(* The offsets the receiver visits: count contexts, each Next() after the   *)
(* one before.                                                              *)
NegotiateContextDecoder(r, first, count) ==
    LET next(at) == at + Roundup(8 + NumAt(r, at + 2, at + 4), 8)
        at == FoldLeft(LAMBDA seen, i : Append(seen, next(Last(seen))), <<first>>, [i \in 1..count |-> i])
    IN  UNION {{L("ContextType", i, at[i], at[i] + 2),
                L("Context", i, at[i] + 8, at[i] + 8 + NumAt(r, at[i] + 2, at[i] + 4))} : i \in 1..count}

NegotiateRequest(m) ==
    LET offs == Layout(36 + 2 * m.n, m.items, 8)
    IN  Encoded(64 + Last(offs),
          <<U(0, 2, 36), P("SecurityMode", 4, 6), P("Capabilities", 8, 12), P("ClientGuid", 12, 28)>>
          \o [i \in 1..m.n |-> L("Dialect", i, 34 + 2 * i, 36 + 2 * i)]
          \o <<U(2, 4, m.n)>>
          \o (IF m.items = <<>> THEN <<>> ELSE <<U(28, 32, offs[1] + 64)>>)
          \o NegotiateContexts(offs, m.items)
          \o <<U(32, 34, Len(m.items))>>)

NegotiateRequestDecoder(r) ==
    LET noff == NumAt(r, 28, 32)
    IN  Decoded(r.len >= 36 /\ NumAt(r, 0, 2) = 36 /\ noff % 8 = 0 /\ r.len >= noff - 36,
          {P("SecurityMode", 4, 6), P("Capabilities", 8, 12), P("ClientGuid", 12, 28)}
          \union {L("Dialect", i, 34 + 2 * i, 36 + 2 * i) : i \in 1..NumAt(r, 2, 4)}
          \union (IF noff < 64 THEN {} ELSE NegotiateContextDecoder(r, noff - 64, NumAt(r, 32, 34))))

SessionSetupRequest(m) ==
    Encoded(64 + 24 + (IF m.n = 0 THEN 1 ELSE m.n),
      <<U(0, 2, 25), P("Flags", 2, 3), P("SecurityMode", 3, 4), P("Capabilities", 4, 8),
        P("Channel", 8, 12), P("PreviousSessionId", 16, 24), P("SecurityBuffer", 24, 24 + m.n),
        U(12, 14, 64 + 24), U(14, 16, U16(m.n))>>)

SessionSetupRequestDecoder(r) ==
    LET off == NumAt(r, 12, 14)
        n   == NumAt(r, 14, 16)
    IN  Decoded(r.len >= 24 /\ NumAt(r, 0, 2) = 25 /\ Fits16(r, off, n),
          {P("Flags", 2, 3), P("SecurityMode", 3, 4), P("Capabilities", 4, 8),
           P("Channel", 8, 12), P("PreviousSessionId", 16, 24)}
          \union (IF off < 64 + 24 THEN {} ELSE {P("SecurityBuffer", off - 64, U16(off - 64 + n))}))

(* LOGOFF, TREE_DISCONNECT and CANCEL have no fields. *)
LogoffRequest(m) == Encoded(64 + 4, <<U(0, 2, 4)>>)
LogoffRequestDecoder(r) == Decoded(r.len >= 4 /\ NumAt(r, 0, 2) = 4, {})
TreeDisconnectRequest(m) == Encoded(64 + 4, <<U(0, 2, 4)>>)
TreeDisconnectRequestDecoder(r) == Decoded(r.len >= 4 /\ NumAt(r, 0, 2) = 4, {})
CancelRequest(m) == Encoded(64 + 4, <<U(0, 2, 4)>>)
CancelRequestDecoder(r) == Decoded(r.len >= 4 /\ NumAt(r, 0, 2) = 4, {})

TreeConnectRequest(m) ==
    Encoded(64 + 8 + (IF m.n = 0 THEN 1 ELSE m.n),
      <<U(0, 2, 9), P("Flags", 2, 4), P("Path", 8, 8 + m.n), U(4, 6, 8 + 64), U(6, 8, U16(m.n))>>)

(* Bug variant: the offset is taken as one from the end of the fixed part. *)
TreeConnectRequestDecoderFrom8(r) ==
    LET off == NumAt(r, 4, 6)
        n   == NumAt(r, 6, 8)
    IN  Decoded(r.len >= 8 /\ NumAt(r, 0, 2) = 9 /\ Fits16(r, off, n),
          {P("Flags", 2, 4)}
          \union (IF off < 64 + 8 THEN {} ELSE {P("Path", off - 64 - 8, U16(off - 64 - 8 + n))}))

TreeConnectRequestDecoder(r) ==
    LET off == NumAt(r, 4, 6)
        n   == NumAt(r, 6, 8)
    IN  Decoded(r.len >= 8 /\ NumAt(r, 0, 2) = 9 /\ Fits16(r, off, n),
          {P("Flags", 2, 4)}
          \union (IF off < 64 + 8 THEN {} ELSE {P("Path", off - 64, U16(off - 64 + n))}))

-----------------------------------------------------------------------------
(* CREATE.  The contexts are opaque here but for Next, the first four bytes *)
(* of each, which the packet's Encode stores into the context before the    *)
(* one it is about to encode.                                               *)
CreateContextPuts(offs, items) ==
    FlattenSeq([i \in DOMAIN items |->
        (IF i = 1 THEN <<>> ELSE <<U(offs[i - 1], offs[i - 1] + 4, offs[i] - offs[i - 1])>>)
        \o <<L("Context", i, offs[i] + 4, offs[i] + items[i])>>])

(* The walk of a context list: from each context to the one Next bytes      *)
(* further, until Next is 0; bound stops a list that would never end.       *)
CreateContextDecoder(r, first, bound) ==
    LET step(seen) == LET next == NumAt(r, Last(seen), Last(seen) + 4)
                      IN  IF next = 0 THEN seen ELSE Append(seen, Last(seen) + next)
    IN  FoldLeft(LAMBDA seen, i : step(seen), <<first>>, [i \in 1..bound |-> i])

CreateRequest(m) ==
    LET offs == Layout(56 + m.n, m.items, 8)
    IN  Encoded(IF m.n = 0 /\ m.items = <<>> THEN 64 + 56 + 1 ELSE 64 + Last(offs),
          <<U(0, 2, 57), P("SecurityFlags", 2, 3), P("RequestedOplockLevel", 3, 4),
            P("ImpersonationLevel", 4, 8), P("SmbCreateFlags", 8, 16), P("DesiredAccess", 24, 28),
            P("FileAttributes", 28, 32), P("ShareAccess", 32, 36), P("CreateDisposition", 36, 40),
            P("CreateOptions", 40, 44), P("Name", 56, 56 + m.n), U(44, 46, 56 + 64), U(46, 48, U16(m.n))>>
          \o (IF m.items = <<>> THEN <<>> ELSE <<U(48, 52, 64 + offs[1])>>)
          \o CreateContextPuts(offs, m.items)
          \o (IF m.items = <<>> THEN <<>> ELSE <<U(52, 56, Last(offs) - offs[1])>>))

CreateRequestDecoder(r) ==
    LET noff == NumAt(r, 44, 46)
        nlen == NumAt(r, 46, 48)
        coff == NumAt(r, 48, 52)
        clen == NumAt(r, 52, 56)
        at   == CreateContextDecoder(r, coff - 64, 4)
        end(i) == IF i = Len(at) THEN coff - 64 + clen ELSE at[i + 1]
    IN  DecodedRest(r.len >= 56 /\ NumAt(r, 0, 2) = 57 /\ noff % 8 = 0 /\ Fits16(r, noff, nlen)
                      /\ coff % 8 = 0 /\ r.len >= coff + clen - 64,
          {P("SecurityFlags", 2, 3), P("RequestedOplockLevel", 3, 4), P("ImpersonationLevel", 4, 8),
           P("SmbCreateFlags", 8, 16), P("DesiredAccess", 24, 28), P("FileAttributes", 28, 32),
           P("ShareAccess", 32, 36), P("CreateDisposition", 36, 40), P("CreateOptions", 40, 44),
           P("Name", noff - 64, U16(noff - 64 + nlen))},
          IF clen = 0 THEN {} ELSE {L("Context", i, at[i] + 4, end(i)) : i \in DOMAIN at})

-----------------------------------------------------------------------------
CloseRequest(m) == Encoded(64 + 24, <<U(0, 2, 24), P("Flags", 2, 4), P("FileId", 8, 24)>>)
CloseRequestDecoder(r) ==
    Decoded(r.len >= 24 /\ NumAt(r, 0, 2) = 24, {P("Flags", 2, 4), P("FileId", 8, 24)})

FlushRequest(m) == Encoded(64 + 24, <<U(0, 2, 24), P("FileId", 8, 24)>>)
FlushRequestDecoder(r) == Decoded(r.len >= 24 /\ NumAt(r, 0, 2) = 24, {P("FileId", 8, 24)})

(* READ, with the descriptors of an RDMA channel in items. *)
ReadRequest(m) ==
    LET offs == Layout(48, m.items, 1)
    IN  Encoded(IF m.items = <<>> THEN 64 + 48 + 1 ELSE 64 + Last(offs),
          <<U(0, 2, 49), P("Padding", 2, 3), P("Flags", 3, 4), P("Length", 4, 8), P("Offset", 8, 16),
            P("FileId", 16, 32), P("MinimumCount", 32, 36), P("Channel", 36, 40), P("RemainingBytes", 40, 44)>>
          \o (IF m.items = <<>> THEN <<>> ELSE <<U(44, 46, 64 + 48)>>)
          \o [i \in DOMAIN m.items |-> U(offs[i], offs[i] + m.items[i], 0)]
          \o <<U(46, 48, U16(Last(offs) - 48))>>)

ReadRequestDecoder(r) ==
    Decoded(r.len >= 48 /\ NumAt(r, 0, 2) = 49 /\ r.len >= U16(NumAt(r, 44, 46) + NumAt(r, 46, 48)),
      {P("Padding", 2, 3), P("Flags", 3, 4), P("Length", 4, 8), P("Offset", 8, 16), P("FileId", 16, 32),
       P("MinimumCount", 32, 36), P("Channel", 36, 40), P("RemainingBytes", 40, 44)})

WriteRequest(m) ==
    LET offs == Layout(48, m.items, 1)
        off  == Last(offs)
    IN  Encoded(IF m.n = 0 /\ m.items = <<>> THEN 64 + 48 + 1 ELSE 64 + off + m.n,
          <<U(0, 2, 49), P("Offset", 8, 16), P("FileId", 16, 32), P("Channel", 32, 36),
            P("RemainingBytes", 36, 40), P("Flags", 44, 48)>>
          \o (IF m.items = <<>> THEN <<>> ELSE <<U(40, 42, 64 + 48)>>)
          \o [i \in DOMAIN m.items |-> U(offs[i], offs[i] + m.items[i], 0)]
          \o <<U(42, 44, U16(off - 48)), U(2, 4, U16(64 + off)), P("Data", off, off + m.n), U(4, 8, m.n)>>)

(* Data() takes the bytes from 48 on, wherever DataOffset says they start.  *)
WriteRequestDecoder(r) ==
    LET n == NumAt(r, 4, 8)
    IN  Decoded(r.len >= 48 /\ NumAt(r, 0, 2) = 49 /\ Fits16(r, NumAt(r, 40, 42), NumAt(r, 42, 44))
                  /\ r.len >= NumAt(r, 2, 4) + n - 64,
          {P("Offset", 8, 16), P("FileId", 16, 32), P("Channel", 32, 36), P("RemainingBytes", 36, 40),
           P("Flags", 44, 48), P("Data", 48, 48 + n)})

-----------------------------------------------------------------------------
(* IOCTL, QUERY_INFO and SET_INFO carry one structure; n is its size, 0     *)
(* when the packet has none.                                                *)
IoctlRequest(m) ==
    Encoded(64 + 56 + (IF m.n = 0 THEN 1 ELSE m.n),
      <<U(0, 2, 57), P("CtlCode", 4, 8), P("FileId", 8, 24), P("MaxInputResponse", 32, 36),
        P("OutputOffset", 36, 40), P("OutputCount", 40, 44), P("MaxOutputResponse", 44, 48), P("Flags", 48, 52)>>
      \o (IF m.n = 0 THEN <<>> ELSE <<U(24, 28, 56 + 64), P("Input", 56, 56 + m.n), U(28, 32, m.n)>>))

IoctlRequestDecoder(r) ==
    DecodedRest(r.len >= 56 /\ NumAt(r, 0, 2) = 57 /\ r.len >= NumAt(r, 24, 28) + NumAt(r, 28, 32) - 64,
      {P("CtlCode", 4, 8), P("FileId", 8, 24), P("MaxInputResponse", 32, 36), P("OutputOffset", 36, 40),
       P("OutputCount", 40, 44), P("MaxOutputResponse", 44, 48), P("Flags", 48, 52)},
      {P("Input", 56, r.len)})

QueryDirectoryRequest(m) ==
    Encoded(64 + 32 + (IF m.n = 0 THEN 1 ELSE m.n),
      <<U(0, 2, 33), P("FileInfoClass", 2, 3), P("Flags", 3, 4), P("FileIndex", 4, 8), P("FileId", 8, 24),
        P("OutputBufferLength", 28, 32), U(24, 26, 32 + 64), P("FileName", 32, 32 + m.n), U(26, 28, U16(m.n))>>)

QueryDirectoryRequestDecoder(r) ==
    LET off == NumAt(r, 24, 26)
        n   == NumAt(r, 26, 28)
    IN  Decoded(r.len >= 32 /\ NumAt(r, 0, 2) = 33 /\ Fits16(r, off, n),
          {P("FileInfoClass", 2, 3), P("Flags", 3, 4), P("FileIndex", 4, 8), P("FileId", 8, 24),
           P("OutputBufferLength", 28, 32), P("FileName", U16(off - 64), U16(off - 64 + n))})

QueryInfoRequest(m) ==
    Encoded(64 + 40 + (IF m.n = 0 THEN 1 ELSE m.n),
      <<U(0, 2, 41), P("InfoType", 2, 3), P("FileInfoClass", 3, 4), P("OutputBufferLength", 4, 8),
        P("AdditionalInformation", 16, 20), P("Flags", 20, 24), P("FileId", 24, 40)>>
      \o (IF m.n = 0 THEN <<>> ELSE <<U(8, 10, 40 + 64), U(40, 40 + m.n, 0), U(12, 16, m.n)>>))

QueryInfoRequestDecoder(r) ==
    Decoded(r.len >= 40 /\ NumAt(r, 0, 2) = 41 /\ r.len >= NumAt(r, 8, 10) + NumAt(r, 12, 16) - 64,
      {P("InfoType", 2, 3), P("FileInfoClass", 3, 4), P("OutputBufferLength", 4, 8),
       P("AdditionalInformation", 16, 20), P("Flags", 20, 24), P("FileId", 24, 40)})

SetInfoRequest(m) ==
    Encoded(64 + 32 + (IF m.n = 0 THEN 1 ELSE m.n),
      <<U(0, 2, 33), P("InfoType", 2, 3), P("FileInfoClass", 3, 4), P("AdditionalInformation", 12, 16),
        P("FileId", 16, 32)>>
      \o (IF m.n = 0 THEN <<>> ELSE <<U(8, 10, 32 + 64), P("Input", 32, 32 + m.n), U(4, 8, m.n)>>))

SetInfoRequestDecoder(r) ==
    DecodedRest(r.len >= 32 /\ NumAt(r, 0, 2) = 33 /\ r.len >= NumAt(r, 8, 10) + NumAt(r, 4, 8) - 64,
      {P("InfoType", 2, 3), P("FileInfoClass", 3, 4), P("AdditionalInformation", 12, 16), P("FileId", 16, 32)},
      {P("Input", 32, r.len)})

-----------------------------------------------------------------------------
RequestKinds ==
    {"NegotiateRequest", "SessionSetupRequest", "LogoffRequest", "TreeConnectRequest",
     "TreeDisconnectRequest", "CreateRequest", "CloseRequest", "FlushRequest", "ReadRequest",
     "WriteRequest", "CancelRequest", "IoctlRequest", "QueryDirectoryRequest", "QueryInfoRequest",
     "SetInfoRequest"}

EncodeRequest(m) ==
    CASE m.kind = "NegotiateRequest" -> NegotiateRequest(m)
      [] m.kind = "SessionSetupRequest" -> SessionSetupRequest(m)
      [] m.kind = "LogoffRequest" -> LogoffRequest(m)
      [] m.kind = "TreeConnectRequest" -> TreeConnectRequest(m)
      [] m.kind = "TreeDisconnectRequest" -> TreeDisconnectRequest(m)
      [] m.kind = "CreateRequest" -> CreateRequest(m)
      [] m.kind = "CloseRequest" -> CloseRequest(m)
      [] m.kind = "FlushRequest" -> FlushRequest(m)
      [] m.kind = "ReadRequest" -> ReadRequest(m)
      [] m.kind = "WriteRequest" -> WriteRequest(m)
      [] m.kind = "CancelRequest" -> CancelRequest(m)
      [] m.kind = "IoctlRequest" -> IoctlRequest(m)
      [] m.kind = "QueryDirectoryRequest" -> QueryDirectoryRequest(m)
      [] m.kind = "QueryInfoRequest" -> QueryInfoRequest(m)
      [] m.kind = "SetInfoRequest" -> SetInfoRequest(m)

DecodeRequest(kind, r) ==
    CASE kind = "NegotiateRequest" -> NegotiateRequestDecoder(r)
      [] kind = "SessionSetupRequest" -> SessionSetupRequestDecoder(r)
      [] kind = "LogoffRequest" -> LogoffRequestDecoder(r)
      [] kind = "TreeConnectRequest" -> TreeConnectRequestDecoder(r)
      [] kind = "TreeDisconnectRequest" -> TreeDisconnectRequestDecoder(r)
      [] kind = "CreateRequest" -> CreateRequestDecoder(r)
      [] kind = "CloseRequest" -> CloseRequestDecoder(r)
      [] kind = "FlushRequest" -> FlushRequestDecoder(r)
      [] kind = "ReadRequest" -> ReadRequestDecoder(r)
      [] kind = "WriteRequest" -> WriteRequestDecoder(r)
      [] kind = "CancelRequest" -> CancelRequestDecoder(r)
      [] kind = "IoctlRequest" -> IoctlRequestDecoder(r)
      [] kind = "QueryDirectoryRequest" -> QueryDirectoryRequestDecoder(r)
      [] kind = "QueryInfoRequest" -> QueryInfoRequestDecoder(r)
      [] kind = "SetInfoRequest" -> SetInfoRequestDecoder(r)
============================================================================
