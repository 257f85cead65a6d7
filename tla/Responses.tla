----------------------------- MODULE Responses ----------------------------
(* The SMB2 response packets of internal/smb2/response.go and the break     *)
(* notifications of internal/smb2/oplock.go, laid out as in Requests.       *)
EXTENDS Requests

-----------------------------------------------------------------------------
(* Errors.  items are the data sizes of the error contexts of SMB 3.1.1;    *)
(* without them n is the size of the error data, if there is any.           *)
ErrorContextListResponse(items) ==
    LET offs == Layout(8, [i \in DOMAIN items |-> 8 + items[i]], 8)
    IN  [end |-> Last(offs),
         put |-> FlattenSeq([i \in DOMAIN items |->
                   <<U(offs[i], offs[i] + 4, items[i]), L("ErrorId", i, offs[i] + 4, offs[i] + 8),
                     L("ErrorContextData", i, offs[i] + 8, offs[i] + 8 + items[i])>>])]

(* The number of bytes of the data is stored at 2, the number of contexts   *)
(* over its low byte.                                                       *)
ErrorResponse(m) ==
    LET list == ErrorContextListResponse(m.items)
    IN  IF m.items # <<>>
        THEN Encoded(64 + list.end, <<U(0, 2, 9), U(2, 4, list.end - 8)>> \o list.put \o <<U(2, 3, Len(m.items))>>)
        ELSE Encoded(64 + 8 + (IF m.n = 0 THEN 1 ELSE m.n),
               <<U(0, 2, 9)>> \o (IF m.n = 0 THEN <<>> ELSE <<U(2, 4, m.n), P("ErrorData", 8, 8 + m.n)>>))

(* acceptError (conn.go) walks the contexts in the error data. *)
ErrorContextResponseDecoder(r, count, end) ==
    LET len(at) == NumAt(r, at, at + 4)
        at == FoldLeft(LAMBDA seen, i : Append(seen, Last(seen) + 8 + Roundup(len(Last(seen)), 8)), <<8>>,
                       [i \in 1..count |-> i])
    IN  Decoded(\A i \in 1..count : at[i] + 8 + len(at[i]) <= end /\ at[i + 1] <= end,
          {L("ErrorId", i, at[i] + 4, at[i] + 8) : i \in 1..count}
          \union {L("ErrorContextData", i, at[i] + 8, at[i] + 8 + len(at[i])) : i \in 1..count})

ErrorResponseDecoder(r) ==
    LET count == NumAt(r, 2, 3)
        end   == 8 + NumAt(r, 4, 8)
    IN  IF r.len < 8 \/ NumAt(r, 0, 2) # 9 \/ r.len < end THEN Decoded(FALSE, {})
        ELSE IF count = 0 THEN Decoded(TRUE, {P("ErrorData", 8, end)})
        ELSE ErrorContextResponseDecoder(r, count, end)

SmallBufferErrorResponse(m) == Encoded(4, <<P("RequiredBufferLength", 0, 4)>>)
SmallBufferErrorResponseDecoder(r) == Decoded(r.len = 4, {P("RequiredBufferLength", 0, 4)})

(* n and the one item are the lengths of the two names. *)
SymbolicLinkErrorResponse(m) ==
    LET plen == m.items[1]
        size == 28 + m.n + plen
    IN  Encoded(size,
          <<P("SubstituteName", 24, 24 + m.n), P("PrintName", 24 + m.n, 24 + m.n + plen), U(0, 4, size - 4),
            U(4, 8, 1), U(8, 12, 2), P("UnparsedPathLength", 14, 16), P("Flags", 24, 28),
            U(12, 14, U16(size - 12)), U(16, 18, 0), U(18, 20, U16(m.n)), U(20, 22, U16(m.n)), U(22, 24, U16(plen))>>)

SymbolicLinkErrorResponseDecoder(r) ==
    LET tlen == NumAt(r, 0, 4)
        rlen == NumAt(r, 12, 14)
        soff == NumAt(r, 16, 18)
        slen == NumAt(r, 18, 20)
        poff == NumAt(r, 20, 22)
        plen == NumAt(r, 22, 24)
    IN  Decoded(r.len >= 28 /\ NumAt(r, 4, 8) = 1 /\ NumAt(r, 8, 12) = 2 /\ soff % 2 = 0 /\ poff % 2 = 0
                  /\ r.len >= 4 + tlen /\ tlen >= 12 + rlen /\ rlen >= 12 + soff + slen /\ rlen >= 12 + poff + plen,
          {P("UnparsedPathLength", 14, 16), P("Flags", 24, 28),
           P("SubstituteName", 28 + soff, 28 + U16(soff + slen)), P("PrintName", 28 + poff, 28 + U16(poff + plen))})

-----------------------------------------------------------------------------
(* An SMB 3.1.1 answer has contexts; the model's other dialects have none.  *)
NegotiateResponse(m) ==
    LET offs == Layout(64 + m.n, m.items, 8)
    IN  Encoded(IF Last(offs) = 64 THEN 64 + 64 + 1 ELSE 64 + Last(offs),
          <<U(0, 2, 65), P("SecurityMode", 2, 4), U(4, 6, IF m.items = <<>> THEN 528 ELSE 785),
            P("ServerGuid", 8, 24), P("Capabilities", 24, 28), P("MaxTransactSize", 28, 32),
            P("MaxReadSize", 32, 36), P("MaxWriteSize", 36, 40), P("SystemTime", 40, 48),
            P("ServerStartTime", 48, 56), P("SecurityBuffer", 64, 64 + m.n), U(56, 58, 64 + 64), U(58, 60, U16(m.n))>>
          \o (IF m.items = <<>> THEN <<>> ELSE <<U(60, 64, offs[1] + 64)>>)
          \o NegotiateContexts(offs, m.items)
          \o <<U(6, 8, Len(m.items))>>)

NegotiateResponseDecoder(r) ==
    LET off  == NumAt(r, 56, 58)
        n    == NumAt(r, 58, 60)
        noff == NumAt(r, 60, 64)
    IN  Decoded(r.len >= 64 /\ NumAt(r, 0, 2) = 65 /\ Fits16(r, off, n)
                  /\ (NumAt(r, 4, 6) = 785 => noff % 8 = 0 /\ r.len >= noff - 64),
          {P("SecurityMode", 2, 4), P("ServerGuid", 8, 24), P("Capabilities", 24, 28),
           P("MaxTransactSize", 28, 32), P("MaxReadSize", 32, 36), P("MaxWriteSize", 36, 40),
           P("SystemTime", 40, 48), P("ServerStartTime", 48, 56)}
          \union (IF off < 64 + 64 THEN {} ELSE {P("SecurityBuffer", off - 64, U16(off - 64 + n))})
          \union (IF noff < 64 THEN {} ELSE NegotiateContextDecoder(r, noff - 64, NumAt(r, 6, 8))))

SessionSetupResponse(m) ==
    Encoded(64 + 8 + (IF m.n = 0 THEN 1 ELSE m.n),
      <<U(0, 2, 9), P("SessionFlags", 2, 4)>>
      \o (IF m.n = 0 THEN <<>> ELSE <<U(4, 6, 8 + 64), P("SecurityBuffer", 8, 8 + m.n), U(6, 8, U16(m.n))>>))

SessionSetupResponseDecoder(r) ==
    LET off == NumAt(r, 4, 6)
        n   == NumAt(r, 6, 8)
    IN  Decoded(r.len >= 8 /\ NumAt(r, 0, 2) = 9 /\ Fits16(r, off, n),
          {P("SessionFlags", 2, 4)}
          \union (IF off < 8 + 64 THEN {} ELSE {P("SecurityBuffer", off - 64, U16(off - 64 + n))}))

LogoffResponse(m) == Encoded(64 + 4, <<U(0, 2, 4)>>)
LogoffResponseDecoder(r) == Decoded(r.len >= 4 /\ NumAt(r, 0, 2) = 4, {})
TreeDisconnectResponse(m) == Encoded(64 + 4, <<U(0, 2, 4)>>)
TreeDisconnectResponseDecoder(r) == Decoded(r.len >= 4 /\ NumAt(r, 0, 2) = 4, {})
FlushResponse(m) == Encoded(64 + 4, <<U(0, 2, 4)>>)
FlushResponseDecoder(r) == Decoded(r.len >= 4 /\ NumAt(r, 0, 2) = 4, {})
LockResponse(m) == Encoded(64 + 4, <<U(0, 2, 4), U(2, 4, 0)>>)
EchoResponse(m) == Encoded(64 + 4, <<U(0, 2, 4), U(2, 4, 0)>>)
SetInfoResponse(m) == Encoded(64 + 2, <<U(0, 2, 2)>>)
SetInfoResponseDecoder(r) == Decoded(r.len >= 2 /\ NumAt(r, 0, 2) = 2, {})

TreeConnectResponse(m) ==
    Encoded(64 + 16, <<U(0, 2, 16), P("ShareType", 2, 3), P("ShareFlags", 4, 8), P("Capabilities", 8, 12),
                       P("MaximalAccess", 12, 16)>>)
TreeConnectResponseDecoder(r) ==
    Decoded(r.len >= 16 /\ NumAt(r, 0, 2) = 16,
      {P("ShareType", 2, 3), P("ShareFlags", 4, 8), P("Capabilities", 8, 12), P("MaximalAccess", 12, 16)})

-----------------------------------------------------------------------------
CreateResponse(m) ==
    LET offs == Layout(88, m.items, 8)
    IN  Encoded(IF m.items = <<>> THEN 64 + 88 + 1 ELSE 64 + Last(offs),
          <<U(0, 2, 89), P("OplockLevel", 2, 3), P("RspFlags", 3, 4), P("CreateAction", 4, 8),
            P("CreationTime", 8, 16), P("LastAccessTime", 16, 24), P("LastWriteTime", 24, 32), P("ChangeTime", 32, 40),
            P("AllocationSize", 40, 48), P("EndofFile", 48, 56), P("FileAttributes", 56, 60), P("FileId", 64, 80)>>
          \o (IF m.items = <<>> THEN <<>> ELSE <<U(80, 84, 64 + offs[1])>>)
          \o CreateContextPuts(offs, m.items)
          \o (IF m.items = <<>> THEN <<>> ELSE <<U(84, 88, Last(offs) - offs[1])>>))

CreateResponseDecoder(r) ==
    LET coff == NumAt(r, 80, 84)
        clen == NumAt(r, 84, 88)
        at   == CreateContextDecoder(r, coff - 64, 4)
        end(i) == IF i = Len(at) THEN coff - 64 + clen ELSE at[i + 1]
    IN  DecodedRest(r.len >= 88 /\ NumAt(r, 0, 2) = 89 /\ coff % 8 = 0 /\ r.len >= coff + clen - 64,
          {P("OplockLevel", 2, 3), P("RspFlags", 3, 4), P("CreateAction", 4, 8), P("CreationTime", 8, 16),
           P("LastAccessTime", 16, 24), P("LastWriteTime", 24, 32), P("ChangeTime", 32, 40),
           P("AllocationSize", 40, 48), P("EndofFile", 48, 56), P("FileAttributes", 56, 60), P("FileId", 64, 80)},
          IF coff < 88 + 64 THEN {} ELSE {L("Context", i, at[i] + 4, end(i)) : i \in DOMAIN at})

CloseResponse(m) ==
    Encoded(64 + 60,
      <<U(0, 2, 60), P("CloseFlags", 2, 4), P("CreationTime", 8, 16), P("LastAccessTime", 16, 24),
        P("LastWriteTime", 24, 32), P("ChangeTime", 32, 40), P("AllocationSize", 40, 48), P("EndofFile", 48, 56),
        P("FileAttributes", 56, 60)>>)
CloseResponseDecoder(r) ==
    Decoded(r.len >= 60 /\ NumAt(r, 0, 2) = 60,
      {P("CloseFlags", 2, 4), P("CreationTime", 8, 16), P("LastAccessTime", 16, 24), P("LastWriteTime", 24, 32),
       P("ChangeTime", 32, 40), P("AllocationSize", 40, 48), P("EndofFile", 48, 56), P("FileAttributes", 56, 60)})

(* Bug variant: Size counts the fixed part only. *)
ReadResponseFixed(m) ==
    Encoded(64 + 16 + 1,
      <<U(0, 2, 17), U(2, 3, 16 + 64), P("Data", 16, 16 + m.n), U(4, 8, m.n), P("DataRemaining", 8, 12)>>)

ReadResponse(m) ==
    Encoded(64 + 16 + (IF m.n = 0 THEN 1 ELSE m.n),
      <<U(0, 2, 17), U(2, 3, 16 + 64), P("Data", 16, 16 + m.n), U(4, 8, m.n), P("DataRemaining", 8, 12)>>)

ReadResponseDecoder(r) ==
    LET off == NumAt(r, 2, 3)
        n   == NumAt(r, 4, 8)
    IN  Decoded(r.len >= 16 /\ NumAt(r, 0, 2) = 17 /\ r.len >= off + n - 64,
          {P("DataRemaining", 8, 12)} \union (IF off < 16 + 64 THEN {} ELSE {P("Data", off - 64, off - 64 + n)}))

WriteResponse(m) == Encoded(64 + 16 + 1, <<U(0, 2, 17), P("Count", 4, 8), P("Remaining", 8, 12)>>)
WriteResponseDecoder(r) == Decoded(r.len >= 16 /\ NumAt(r, 0, 2) = 17, {P("Count", 4, 8), P("Remaining", 8, 12)})

(* The one item, if there is one, is the size of the echoed input.          *)
IoctlResponse(m) ==
    LET in == IF m.items = <<>> THEN 0 ELSE m.items[1]
    IN  Encoded(64 + 48 + (IF in = 0 /\ m.n = 0 THEN 1 ELSE in + m.n),
          <<U(0, 2, 49), P("CtlCode", 4, 8), P("FileId", 8, 24), P("Flags2", 40, 44)>>
          \o (IF in = 0 THEN <<>> ELSE <<U(24, 28, 48 + 64), P("Input", 48, 48 + in), U(28, 32, in)>>)
          \o (IF m.n = 0 THEN <<>>
              ELSE <<U(32, 36, 48 + in + 64), P("Output", 48 + in, 48 + in + m.n), U(36, 40, m.n)>>))

IoctlResponseDecoder(r) ==
    LET ioff == NumAt(r, 24, 28)
        ilen == NumAt(r, 28, 32)
        ooff == NumAt(r, 32, 36)
        olen == NumAt(r, 36, 40)
    IN  Decoded(r.len >= 48 /\ NumAt(r, 0, 2) = 49 /\ r.len >= ioff + ilen - 64 /\ r.len >= ooff + olen - 64,
          {P("CtlCode", 4, 8), P("FileId", 8, 24), P("Flags2", 40, 44)}
          \union (IF ioff < 64 + 48 THEN {} ELSE {P("Input", ioff - 64, ioff - 64 + ilen)})
          \union (IF ooff < 64 + 48 THEN {} ELSE {P("Output", ooff - 64, ooff - 64 + olen)}))

(* QUERY_DIRECTORY, QUERY_INFO and CHANGE_NOTIFY return one buffer. *)
OutputPuts(n) == <<U(0, 2, 9)>> \o (IF n = 0 THEN <<>> ELSE <<U(2, 4, 8 + 64), P("Output", 8, 8 + n), U(4, 8, n)>>)
OutputBuffer(r) ==
    LET off == NumAt(r, 2, 4)
        n   == NumAt(r, 4, 8)
    IN  Decoded(r.len >= 8 /\ NumAt(r, 0, 2) = 9 /\ r.len >= off + n - 64,
          IF off < 64 + 8 THEN {} ELSE {P("Output", off - 64, off - 64 + n)})

QueryDirectoryResponse(m) == Encoded(64 + 8 + (IF m.n = 0 THEN 1 ELSE m.n), OutputPuts(m.n))
QueryDirectoryResponseDecoder(r) == OutputBuffer(r)
QueryInfoResponse(m) == Encoded(64 + 8 + (IF m.n = 0 THEN 1 ELSE m.n), OutputPuts(m.n))
QueryInfoResponseDecoder(r) == OutputBuffer(r)
ChangeNotifyResponse(m) == Encoded(64 + 8 + (IF m.n = 0 THEN 1 ELSE m.n), OutputPuts(m.n))

-----------------------------------------------------------------------------
(* oplock.go.  The response that answers an acknowledgment has the layout   *)
(* of the acknowledgment, and its decoder reads both.                       *)
OplockBreakNotification(m) ==
    Encoded(64 + 24, <<U(0, 2, 24), P("OplockLevel", 2, 3), U(3, 4, 0), U(4, 8, 0), P("FileId", 8, 24)>>)
OplockBreakResponse(m) ==
    Encoded(64 + 24, <<U(0, 2, 24), P("OplockLevel", 2, 3), U(3, 4, 0), U(4, 8, 0), P("FileId", 8, 24)>>)
OplockBreakAcknowledgmentDecoder(r) ==
    Decoded(r.len >= 24 /\ NumAt(r, 0, 2) = 24, {P("OplockLevel", 2, 3), P("FileId", 8, 24)})

LeaseBreakNotification(m) ==
    Encoded(64 + 44,
      <<U(0, 2, 44), P("NewEpoch", 2, 4), P("Flags", 4, 8), P("LeaseKey", 8, 24), P("CurrentLeaseState", 24, 28),
        P("NewLeaseState", 28, 32), U(32, 36, 0), U(36, 40, 0), U(40, 44, 0)>>)
LeaseBreakNotificationDecoder(r) ==
    Decoded(r.len >= 44 /\ NumAt(r, 0, 2) = 44,
      {P("NewEpoch", 2, 4), P("Flags", 4, 8), P("LeaseKey", 8, 24), P("CurrentLeaseState", 24, 28),
       P("NewLeaseState", 28, 32)})
(* The server leaves LeaseDuration 0. *)
LeaseBreakResponse(m) ==
    Encoded(64 + 36, <<U(0, 2, 36), U(2, 4, 0), U(4, 8, 0), P("LeaseKey", 8, 24), P("LeaseState", 24, 28),
                       U(28, 36, 0)>>)
LeaseBreakAcknowledgmentDecoder(r) ==
    Decoded(r.len >= 36 /\ NumAt(r, 0, 2) = 36, {P("LeaseKey", 8, 24), P("LeaseState", 24, 28)})

-----------------------------------------------------------------------------
EncodeResponse(m) ==
    CASE m.kind = "ErrorResponse" -> ErrorResponse(m)
      [] m.kind = "SymbolicLinkErrorResponse" -> SymbolicLinkErrorResponse(m)
      [] m.kind = "SmallBufferErrorResponse" -> SmallBufferErrorResponse(m)
      [] m.kind = "NegotiateResponse" -> NegotiateResponse(m)
      [] m.kind = "SessionSetupResponse" -> SessionSetupResponse(m)
      [] m.kind = "LogoffResponse" -> LogoffResponse(m)
      [] m.kind = "TreeConnectResponse" -> TreeConnectResponse(m)
      [] m.kind = "TreeDisconnectResponse" -> TreeDisconnectResponse(m)
      [] m.kind = "CreateResponse" -> CreateResponse(m)
      [] m.kind = "CloseResponse" -> CloseResponse(m)
      [] m.kind = "FlushResponse" -> FlushResponse(m)
      [] m.kind = "ReadResponse" -> ReadResponse(m)
      [] m.kind = "WriteResponse" -> WriteResponse(m)
      [] m.kind = "LockResponse" -> LockResponse(m)
      [] m.kind = "EchoResponse" -> EchoResponse(m)
      [] m.kind = "IoctlResponse" -> IoctlResponse(m)
      [] m.kind = "QueryDirectoryResponse" -> QueryDirectoryResponse(m)
      [] m.kind = "QueryInfoResponse" -> QueryInfoResponse(m)
      [] m.kind = "SetInfoResponse" -> SetInfoResponse(m)
      [] m.kind = "ChangeNotifyResponse" -> ChangeNotifyResponse(m)
      [] m.kind = "OplockBreakNotification" -> OplockBreakNotification(m)
      [] m.kind = "OplockBreakResponse" -> OplockBreakResponse(m)
      [] m.kind = "LeaseBreakNotification" -> LeaseBreakNotification(m)
      [] m.kind = "LeaseBreakResponse" -> LeaseBreakResponse(m)

DecodeResponse(kind, r) ==
    CASE kind = "ErrorResponse" -> ErrorResponseDecoder(r)
      [] kind = "SymbolicLinkErrorResponse" -> SymbolicLinkErrorResponseDecoder(r)
      [] kind = "SmallBufferErrorResponse" -> SmallBufferErrorResponseDecoder(r)
      [] kind = "NegotiateResponse" -> NegotiateResponseDecoder(r)
      [] kind = "SessionSetupResponse" -> SessionSetupResponseDecoder(r)
      [] kind = "LogoffResponse" -> LogoffResponseDecoder(r)
      [] kind = "TreeConnectResponse" -> TreeConnectResponseDecoder(r)
      [] kind = "TreeDisconnectResponse" -> TreeDisconnectResponseDecoder(r)
      [] kind = "CreateResponse" -> CreateResponseDecoder(r)
      [] kind = "CloseResponse" -> CloseResponseDecoder(r)
      [] kind = "FlushResponse" -> FlushResponseDecoder(r)
      [] kind = "ReadResponse" -> ReadResponseDecoder(r)
      [] kind = "WriteResponse" -> WriteResponseDecoder(r)
      [] kind = "IoctlResponse" -> IoctlResponseDecoder(r)
      [] kind = "QueryDirectoryResponse" -> QueryDirectoryResponseDecoder(r)
      [] kind = "QueryInfoResponse" -> QueryInfoResponseDecoder(r)
      [] kind = "SetInfoResponse" -> SetInfoResponseDecoder(r)
      [] kind \in {"OplockBreakNotification", "OplockBreakResponse"} -> OplockBreakAcknowledgmentDecoder(r)
      [] kind = "LeaseBreakNotification" -> LeaseBreakNotificationDecoder(r)
      [] kind = "LeaseBreakResponse" -> LeaseBreakAcknowledgmentDecoder(r)
============================================================================
