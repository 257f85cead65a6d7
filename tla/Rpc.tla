-------------------------------- MODULE Rpc -------------------------------
(* The remote procedure calls of the srvsvc pipe: the client's half in      *)
(* internal/msrpc/msrpc.go, the server's in internal/smb2/dcerpc.go.  They  *)
(* travel as the data of WRITE, READ and IOCTL packets.                     *)
EXTENDS Information

DCEHeader(type, size) ==
    <<U(0, 1, 5), U(1, 2, 0), U(2, 3, type), P("PacketFlags", 3, 4), P("DataRepresentation", 4, 8), U(8, 10, U16(size)),
      U(10, 12, 0), P("CallID", 12, 16)>>
DCEHeaderFields == {P("PacketFlags", 3, 4), P("DataRepresentation", 4, 8), P("CallID", 12, 16)}
DCEPacket(r, least, type) == r.len >= least /\ NumAt(r, 0, 1) = 5 /\ NumAt(r, 1, 2) = 0 /\ NumAt(r, 2, 3) = type

(* The bind request offers one interface with one transfer syntax. *)
Bind(m) ==
    Encoded(72, DCEHeader(11, 72)
      \o <<P("MaxSendFragSize", 16, 18), P("MaxRecvFragSize", 18, 20), P("AssocGroupID", 20, 24), U(24, 28, 1),
           L("ContextID", 1, 28, 30), U(30, 32, 1), L("InterfaceUUID", 1, 32, 48), L("VersionMajor", 1, 48, 50),
           L("VersionMinor", 1, 50, 52), L("SyntaxUUID", 11, 52, 68), L("SyntaxMajor", 11, 68, 70),
           L("SyntaxMinor", 11, 70, 72)>>)

DCEBindRequestDecoder(r) ==
    LET count == NumAt(r, 24, 25)
        syntaxes(off) == NumAt(r, off + 2, off + 3)
        offs == FoldLeft(LAMBDA seen, i : Append(seen, Last(seen) + 24 + 20 * syntaxes(Last(seen))),
                         <<28>>, [i \in 1..count |-> i])
    IN  Decoded(r.len >= 16 /\ NumAt(r, 2, 3) = 11,
          DCEHeaderFields
          \union {P("MaxSendFragSize", 16, 18), P("MaxRecvFragSize", 18, 20), P("AssocGroupID", 20, 24)}
          \union UNION {{L("ContextID", i, offs[i], offs[i] + 2), L("InterfaceUUID", i, offs[i] + 4, offs[i] + 20),
                         L("VersionMajor", i, offs[i] + 20, offs[i] + 22),
                         L("VersionMinor", i, offs[i] + 22, offs[i] + 24)} : i \in 1..count}
          \union UNION {LET at == offs[i] + 4 + 20 * j
                        IN  {L("SyntaxUUID", 10 * i + j, at, at + 16), L("SyntaxMajor", 10 * i + j, at + 16, at + 18),
                             L("SyntaxMinor", 10 * i + j, at + 18, at + 20)} :
                          <<i, j>> \in {p \in (1..count) \X (1..4) : p[2] <= syntaxes(offs[p[1]])}})

(* The answer to n contexts; the secondary address is \pipe\srvsvc and NUL. *)
SecAddrLen == 13
DCEBindAck(m) ==
    LET size == Roundup(30 + SecAddrLen, 2) + 24 * m.n
    IN  Encoded(size, DCEHeader(12, size)
          \o <<P("MaxSendFragSize", 16, 18), P("MaxRecvFragSize", 18, 20), P("AssocGroupID", 20, 24),
               U(24, 26, SecAddrLen), P("SecAddr", 26, 26 + SecAddrLen), U(39, 40, 0), U(40, 41, m.n)>>
          \o FlattenSeq([i \in 1..m.n |->
               Shift(<<L("Result", i, 0, 4), L("TransferUUID", i, 4, 20), L("TransferVersion", i, 20, 24)>>,
                     20 + 24 * i)]))
BindAckDecoder(r) ==
    Decoded(DCEPacket(r, 24, 12), DCEHeaderFields \union {P("MaxSendFragSize", 16, 18), P("MaxRecvFragSize", 18, 20),
                                                          P("AssocGroupID", 20, 24)})

(* A server name of n bytes, its terminating NUL not stored. *)
NetShareEnumAllRequest(m) ==
    LET count == m.n \div 2 + 1
        off   == Roundup(40 + 2 * count, 4)
        size  == Roundup(40 + m.n + 2, 4) + 28
    IN  Encoded(size, DCEHeader(0, off + 28)
          \o <<P("ContextId", 20, 22), P("Opnum", 22, 24), U(24, 28, 1), U(28, 32, count), U(32, 36, 0),
               U(36, 40, count), P("ServerName", 40, 40 + m.n), P("Level", off, off + 4), U(off + 4, off + 8, 1),
               U(off + 8, off + 12, 2), U(off + 12, off + 16, 0), U(off + 16, off + 20, 0),
               P("MaxBuffer", off + 20, off + 24), U(off + 24, off + 28, 0), P("AllocHint", 16, 20)>>)
DCERequestReqDecoder(r) ==
    Decoded(r.len >= 16 /\ NumAt(r, 2, 3) = 0,
      DCEHeaderFields \union {P("AllocHint", 16, 20), P("ContextId", 20, 22), P("Opnum", 22, 24)})

-----------------------------------------------------------------------------
(* Strings of the answers.  A string of c characters, each w bytes long in  *)
(* UTF-8, is stored with a NUL as c + 1 UTF-16 units, but its count is that *)
(* of the UTF-8 bytes.                                                      *)
ActualCount(c, w) == w * c + 1
UnicodeStrSize(c, w) == 12 + Roundup(2 * ActualCount(c, w), 4)
UnicodeStr(name, i, at, c, w) ==
    <<U(at, at + 4, ActualCount(c, w)), U(at + 4, at + 8, 0), U(at + 8, at + 12, ActualCount(c, w)),
      L(name, i, at + 12, at + 12 + 2 * (c + 1))>>

(* A pointer, the type, a pointer; the strings follow later. *)
ShareInfo1(i, at) == <<L("NameRef", i, at, at + 4), L("Type", i, at + 4, at + 8), L("CommentRef", i, at + 8, at + 12)>>
DCERequestRes(data) ==
    Encoded(24 + data.size, DCEHeader(2, 24 + data.size)
      \o <<P("AllocHint", 16, 20), P("ContextId", 20, 22), P("CancelCount", 22, 23)>> \o Shift(data.put, 24))

(* Shares with names of the given numbers of characters, n bytes each, and  *)
(* empty comments.                                                          *)
NetShareEnumAllResponse(m) ==
    LET k     == Len(m.items)
        sizes == FlattenSeq([i \in 1..k |-> <<UnicodeStrSize(m.items[i], m.n), UnicodeStrSize(0, m.n)>>])
        offs  == Layout(24 + 12 * k, sizes, 1)
        end   == Last(offs)
    IN  DCERequestRes(Encoded(20 + end - 4,
          <<U(0, 4, 1), U(4, 8, 1), P("CtrRef", 8, 12), U(12, 16, k), P("InfoRef", 16, 20), U(20, 24, k)>>
          \o FlattenSeq([i \in 1..k |-> ShareInfo1(i, 12 + 12 * i)])
          \o FlattenSeq([i \in 1..k |-> UnicodeStr("Name", i, offs[2 * i - 1], m.items[i], m.n)
                                        \o UnicodeStr("Comment", i, offs[2 * i], 0, m.n)])
          \o <<P("TotalEntries", end, end + 4), P("ResumeRef", end + 4, end + 8), P("Handle", end + 8, end + 12),
               P("WindowsError", end + 12, end + 16)>>))

NetShareGetInfoResponse(m) ==
    LET name == UnicodeStrSize(m.items[1], m.n)
        end  == 20 + name + UnicodeStrSize(7, 1)
    IN  DCERequestRes(Encoded(12 + 12 + name + UnicodeStrSize(7, 1),
          <<U(0, 4, 1), P("InfoRef", 4, 8)>> \o ShareInfo1(1, 8)
          \o UnicodeStr("Name", 1, 20, m.items[1], m.n) \o UnicodeStr("Comment", 1, 20 + name, 7, 1)
          \o <<P("WindowsError", end, end + 4)>>))

(* IsInvalid, IsIncomplete and ShareNameList: each string is found behind   *)
(* the one before, names and comments alternating.                          *)
NetShareEnumAllResponseDecoder(r) ==
    LET count == NumAt(r, 36, 40)
        end(at) == at + 12 + NumAt(r, at + 4, at + 8) + 2 * NumAt(r, at + 8, at + 12)
        offs == FoldLeft(LAMBDA seen, i : Append(seen, Roundup(end(Last(seen)), 4)),
                         <<48 + 12 * count>>, [i \in 1..(2 * count) |-> i])
    IN  Decoded(DCEPacket(r, 48, 2) /\ NumAt(r, 24, 28) = 1 /\ \A i \in DOMAIN offs : r.len >= offs[i],
          DCEHeaderFields \union {P("AllocHint", 16, 20), P("ContextId", 20, 22), P("CancelCount", 22, 23)}
          \union {L("Name", i, offs[2 * i - 1] + 12, end(offs[2 * i - 1])) : i \in 1..count})
-----------------------------------------------------------------------------
RpcKinds ==
    {"Bind", "DCEBindAck", "NetShareEnumAllRequest", "NetShareEnumAllResponse", "NetShareGetInfoResponse"}

EncodeRpc(m) ==
    CASE m.kind = "Bind" -> Bind(m)
      [] m.kind = "DCEBindAck" -> DCEBindAck(m)
      [] m.kind = "NetShareEnumAllRequest" -> NetShareEnumAllRequest(m)
      [] m.kind = "NetShareEnumAllResponse" -> NetShareEnumAllResponse(m)
      [] m.kind = "NetShareGetInfoResponse" -> NetShareGetInfoResponse(m)

DecodeRpc(kind, r) ==
    CASE kind = "Bind" -> DCEBindRequestDecoder(r)
      [] kind = "DCEBindAck" -> BindAckDecoder(r)
      [] kind = "NetShareEnumAllRequest" -> DCERequestReqDecoder(r)
      [] kind = "NetShareEnumAllResponse" -> NetShareEnumAllResponseDecoder(r)
============================================================================
