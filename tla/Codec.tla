------------------------------- MODULE Codec ------------------------------
(* A chain of messages from the encoders through compounding, signing,      *)
(* encryption and framing to the receiver that splits and decodes it        *)
(* (packet.go, session.go, compound.go, transport.go, and sendPacket,       *)
(* encodePacket, runReciever, tryDecrypt, tryVerify of conn.go).            *)
(*                                                                          *)
(* A chain of responses is put together by the server.  A chain of requests *)
(* is what a client sends: its encoders are the repository's, but the code  *)
(* that compounds them is not, and is modelled from what runReciever        *)
(* expects: every packet but the last padded to a multiple of 8, signatures *)
(* over the padded packet, one transform around the whole chain.            *)
EXTENDS Rpc

CONSTANTS Messages,   \* the messages that may start a chain
          Tails,      \* the messages that may follow
          MaxChain    \* how many messages a chain may have

VARIABLES chain,      \* the messages to send: for each the structures from its packet to itself
          mode,       \* how they are protected: "plain", "signed" or "sealed"
          phase,      \* where the chain is: "compose", "sent", "split", "done", "skipped" or "broken"
          buf,        \* the bytes on the wire, then those the receiver has yet to split
          got,        \* for each packet the receiver split off: decoded and verified?
          lastMsgId   \* compCtx.lastMsgId of the receiver, 0 while unset

vars == <<chain, mode, phase, buf, got, lastMsgId>>

-----------------------------------------------------------------------------
ResponseKinds ==
    {"ErrorResponse", "NegotiateResponse", "SessionSetupResponse", "LogoffResponse", "TreeConnectResponse",
     "TreeDisconnectResponse", "CreateResponse", "CloseResponse", "FlushResponse", "ReadResponse", "WriteResponse",
     "LockResponse", "EchoResponse", "IoctlResponse", "QueryDirectoryResponse", "QueryInfoResponse",
     "SetInfoResponse", "ChangeNotifyResponse", "OplockBreakNotification", "OplockBreakResponse",
     "LeaseBreakNotification", "LeaseBreakResponse"}
PacketKinds == RequestKinds \union ResponseKinds
NoDecoder == EncodedOnly \union {"LockResponse", "EchoResponse", "ChangeNotifyResponse", "NetShareGetInfoResponse"}
(* Structures of which their decoder has no accessor for every field. *)
PartlyRead == {"DCEBindAck", "NetShareEnumAllRequest", "NetShareEnumAllResponse"}

Encode(m) ==
    IF m.kind \in RequestKinds THEN EncodeRequest(m)
    ELSE IF m.kind \in InformationKinds THEN EncodeInformation(m)
    ELSE IF m.kind \in RpcKinds THEN EncodeRpc(m)
    ELSE EncodeResponse(m)
Decode(kind, r) ==
    IF kind \in RequestKinds THEN DecodeRequest(kind, r)
    ELSE IF kind \in InformationKinds THEN DecodeInformation(kind, r)
    ELSE IF kind \in RpcKinds THEN DecodeRpc(kind, r)
    ELSE DecodeResponse(kind, r)

(* A structure with what its encoder makes of it. *)
Coded(m) == [m |-> m, code |-> Encode(m)]

(* What a structure that is not a packet travels in, the field it is, and   *)
(* by how many bytes it starts before the field (the head of a context).    *)
In(kind, n, items, field, lead) == [m |-> Message(kind, n, items), field |-> field, lead |-> lead]
Carrier(e) ==
    CASE e.m.kind \in SetInfoKinds -> In("SetInfoRequest", e.code.size, <<>>, "Input", 0)
      [] e.m.kind \in QueryInfoKinds -> In("QueryInfoResponse", e.code.size, <<>>, "Output", 0)
      [] e.m.kind \in EntryKinds -> In("QueryDirectoryResponse", e.code.size, <<>>, "Output", 0)
      [] e.m.kind \in CreateContextKinds -> In("CreateContext", 4, <<e.code.size>>, "Buffer", 0)
      [] e.m.kind = "CreateContext" -> In("CreateResponse", 0, <<e.code.size>>, "Context", 4)
      [] e.m.kind \in NegotiateContextKinds -> In("NegotiateRequest", 1, <<e.code.size>>, "Context", 8)
      [] e.m.kind \in {"Bind", "NetShareEnumAllRequest"} -> In("WriteRequest", e.code.size, <<>>, "Data", 0)
      [] e.m.kind \in {"DCEBindAck", "NetShareEnumAllResponse", "AfpInfo"} -> In("ReadResponse", e.code.size, <<>>, "Data", 0)
      [] e.m.kind \in {"NetShareGetInfoResponse", "NetworkInterfaceInfoList", "FileObjectId1"} ->
           In("IoctlResponse", e.code.size, <<>>, "Output", 0)
      [] e.m.kind \in {"SrvCopychunkCopy", "SymbolicLinkReparseDataBuffer"} -> In("IoctlRequest", e.code.size, <<>>, "Input", 0)
      [] e.m.kind = "FileNotifyInformationInfo" -> In("ChangeNotifyResponse", e.code.size, <<>>, "Output", 0)
      [] e.m.kind = "QueryQuotaInfo" -> In("QueryInfoRequest", e.code.size, <<>>, "Input", 0)
      [] e.m.kind \in {"SmallBufferErrorResponse", "SymbolicLinkErrorResponse"} ->
           In("ErrorResponse", e.code.size, <<>>, "ErrorData", 0)

(* The structures that a message travels in: itself, what carries it, and   *)
(* so on up to the packet; then from the packet to the message.             *)
IsPacket(e) == e.m.kind \in PacketKinds
Outward(e) ==
    LET up[k \in 0..2] ==
            IF k = 0 THEN e ELSE IF IsPacket(up[k - 1]) THEN up[k - 1] ELSE Coded(Carrier(up[k - 1]).m)
    IN  up
Nest(up) ==
    LET depth == CHOOSE k \in DOMAIN up : IsPacket(up[k]) /\ \A j \in 0..(k - 1) : ~IsPacket(up[j])
    IN  [i \in 1..(depth + 1) |-> up[depth + 1 - i]]

Msg(i) == Last(chain[i]).m
Packet(i) == chain[i][1].m
IsRequest(nest) == nest[1].m.kind \in RequestKinds

-----------------------------------------------------------------------------
(* Packet headers.  The number in a signature field is how many bytes the   *)
(* signature covers, 0 for none; the flags tell whether the packet is       *)
(* related to the one before.                                               *)
Related == 4
Signed == 8
Magic == 1
Magic2 == 2
MagicSmb1 == 3
SMB_COM_NEGOTIATE == 114

(* The header is asynchronous in the final answer to a change notification. *)
IsAsync(m) == m.kind = "ChangeNotifyResponse"
EncodeHeader(m, flags, next, msgId, signature) ==
    <<U(0, 4, Magic), U(4, 6, 64), P("CreditCharge", 6, 8), P("Status", 8, 12), P("Command", 12, 14),
      P("CreditRequestResponse", 14, 16), U(16, 20, flags), U(20, 24, next), U(24, 32, msgId),
      (IF IsAsync(m) THEN P("AsyncId", 32, 40) ELSE P("TreeId", 36, 40)), P("SessionId", 40, 48),
      U(48, 64, signature)>>

HeaderFields(m) ==
    {P("CreditCharge", 6, 8), P("Status", 8, 12), P("Command", 12, 14), P("CreditRequestResponse", 14, 16),
     P("SessionId", 40, 48), IF IsAsync(m) THEN P("AsyncId", 32, 40) ELSE P("TreeId", 36, 40)}

NextCommand(r) == NumAt(r, 20, 24)
IsSmb1(r) == r.len >= 4 /\ NumAt(r, 0, 4) = MagicSmb1

(* Of SMB1 only the NEGOTIATE that offers SMB2 is valid, whatever follows   *)
(* its command.                                                             *)
PacketIsInvalid(r) ==
    IF IsSmb1(r) THEN r.len < 5 \/ NumAt(r, 4, 5) # SMB_COM_NEGOTIATE
    ELSE \/ r.len < 64
         \/ NumAt(r, 0, 4) # Magic
         \/ NumAt(r, 4, 6) # 64
         \/ NextCommand(r) % 8 # 0
         \/ NextCommand(r) >= r.len
HasFlag(r, flag) == (NumAt(r, 16, 20) \div flag) % 2 = 1
IsCompoundFirst(r) == ~HasFlag(r, Related) /\ NextCommand(r) # 0

(* Bug variant: whatever has nothing behind it ends a chain. *)
IsCompoundLastPlain(r) == NextCommand(r) = 0

IsCompoundLast(r) == HasFlag(r, Related) /\ NextCommand(r) = 0

(* The bytes of one packet: sign covers the packet, or its padded form.     *)
PacketPuts(i, covered) ==
    LET packet == chain[i][1]
        next   == IF i = Len(chain) THEN 0 ELSE Roundup(packet.code.size, 8)
    IN  EncodeHeader(packet.m, (IF i = 1 THEN 0 ELSE Related) + (IF covered = 0 THEN 0 ELSE Signed), next, i, covered)
        \o Shift(packet.code.put, 64)

Sizes == [i \in DOMAIN chain |-> chain[i][1].code.size]
Padded(i) == IF i = Len(chain) THEN Sizes[i] ELSE Roundup(Sizes[i], 8)

(* encrypt: a transform header, whose signature authenticates this many     *)
(* bytes of ciphertext.                                                     *)
Sealed(size, put) ==
    <<U(0, 4, Magic2), P("Nonce", 20, 36), U(36, 40, size), U(42, 44, 1), P("TransformSessionId", 44, 52)>>
    \o Shift(put, 52) \o <<U(4, 20, size)>>

(* The external client. *)
ClientFrame(how) ==
    LET offs == Layout(0, [i \in DOMAIN chain |-> Padded(i)], 1)
        put  == FlattenSeq([i \in DOMAIN chain |->
                  Shift(PacketPuts(i, IF how = "signed" THEN Padded(i) ELSE 0), offs[i])])
    IN  IF how = "sealed" THEN Buffer(52 + Last(offs), Sealed(Last(offs), put)) ELSE Buffer(Last(offs), put)

(* sendPacket encodes and signs every response by itself; compoundContext   *)
(* puts them one behind the other, each at a multiple of 8.  No session and *)
(* no share of the server has the flag that would make it encrypt.          *)
(* Bug variant: the header is not signed. *)
EncodePacketBody(i, how) == Encoded(Sizes[i], PacketPuts(i, IF how = "signed" THEN Sizes[i] - 64 ELSE 0))

EncodePacket(i, how) == Encoded(Sizes[i], PacketPuts(i, IF how = "signed" THEN Sizes[i] ELSE 0))

ServerFrame(how) ==
    LET pkts == [i \in DOMAIN chain |-> EncodePacket(i, how)]
        offs == Layout(0, [i \in DOMAIN pkts |-> pkts[i].size], 8)
    IN  Buffer(Last(offs), FlattenSeq([i \in DOMAIN pkts |-> Shift(pkts[i].put, offs[i])]))

-----------------------------------------------------------------------------
(* Decoding.  The length of what the accessor of the carrying field returns *)
(* is all that a structure's decoder sees besides the structure's bytes.    *)
NotDecoded == Decoded(TRUE, {})
Found(d, field) == {f \in d.get \union d.rest : f.name = field}
Carried(e, f) == Buffer(f.to - f.from + Carrier(e).lead, e.code.put)

(* The bytes of each structure, if they are found, and what its decoder     *)
(* makes of them.                                                           *)
Opened(nest, body) ==
    LET open[k \in DOMAIN nest] ==
            LET e  == nest[k]
                in == IF k = 1 THEN {body}
                      ELSE {Carried(e, f) : f \in Found(open[k - 1].d, Carrier(e).field)}
            IN  [in |-> in,
                 d |-> IF in = {} \/ e.m.kind \in NoDecoder THEN NotDecoded
                       ELSE Decode(e.m.kind, CHOOSE r \in in : TRUE)]
    IN  open

Reads(m, o) ==
    \E r \in o.in : IF m.kind \in PartlyRead THEN RecoversRead(r, o.d) ELSE Recovers(r, o.d)

(* A structure is not looked at when it, or what it travels in, has no      *)
(* decoder.                                                                 *)
Received(nest, r) ==
    /\ HeaderFields(nest[1].m) \subseteq r.cells
    /\ \E open \in {Opened(nest, Slice(r, 64, r.len))} :
          \A k \in DOMAIN nest :
              \/ \E j \in {k - 1, k} \cap DOMAIN nest : nest[j].m.kind \in NoDecoder
              \/ Reads(nest[k].m, open[k])

(* verify recomputes the signature over the packet as it was split off.     *)
Verifies(r) == ~HasFlag(r, Signed) \/ NumAt(r, 48, 64) = r.len

-----------------------------------------------------------------------------
Init ==
    /\ chain = <<>>
    /\ mode = "plain"
    /\ phase = "compose"
    /\ buf = Buffer(0, <<>>)
    /\ got = <<>>
    /\ lastMsgId = 0

(* A message joins the chain; all of a chain go the same way. *)
Compose(m) ==
    /\ phase = "compose"
    /\ Len(chain) < MaxChain
    /\ \E nest \in {Nest(Outward(Coded(m)))} :
          /\ chain # <<>> => m \in Tails /\ IsRequest(nest) = IsRequest(chain[1])
          /\ chain' = Append(chain, nest)
    /\ UNCHANGED <<mode, phase, buf, got, lastMsgId>>

(* The whole chain is written as one transport packet. *)
SendRequests(how) ==
    /\ phase = "compose"
    /\ chain # <<>> /\ IsRequest(chain[1])
    /\ mode' = how
    /\ buf' = ClientFrame(how)
    /\ phase' = "sent"
    /\ UNCHANGED <<chain, got, lastMsgId>>

SendResponses(how) ==
    /\ phase = "compose"
    /\ chain # <<>> /\ ~IsRequest(chain[1])
    /\ mode' = how
    /\ buf' = ServerFrame(how)
    /\ phase' = "sent"
    /\ UNCHANGED <<chain, got, lastMsgId>>

(* tryDecrypt: what is no valid packet must be one transform; a transform   *)
(* that does not open, or anything else, is skipped.                        *)
TryDecrypt ==
    /\ phase = "sent"
    /\ IF ~PacketIsInvalid(buf) THEN buf' = buf /\ phase' = "split"
       ELSE IF buf.len >= 52 /\ NumAt(buf, 0, 4) = Magic2 /\ NumAt(buf, 42, 44) = 1
               /\ NumAt(buf, 4, 20) = buf.len - 52
            THEN buf' = Slice(buf, 52, buf.len) /\ phase' = "split"
            ELSE buf' = buf /\ phase' = "skipped"
    /\ UNCHANGED <<chain, mode, got, lastMsgId>>

(* One turn of the splitting loop. *)
Split ==
    /\ phase = "split"
    /\ IF PacketIsInvalid(buf)
       THEN phase' = "broken" /\ UNCHANGED <<buf, got, lastMsgId>>
       ELSE LET next == NextCommand(buf)
                pkt  == IF next = 0 THEN buf ELSE Slice(buf, 0, next)
            IN  /\ lastMsgId' = IF IsCompoundLast(buf) THEN NumAt(buf, 24, 32)
                                ELSE IF IsCompoundFirst(buf) THEN 0 ELSE lastMsgId
                /\ got' = Append(got, [ok |-> Received(chain[NumAt(pkt, 24, 32)], pkt), verified |-> Verifies(pkt),
                                       msgId |-> NumAt(pkt, 24, 32)])
                /\ IF next = 0 THEN phase' = "done" /\ buf' = buf
                   ELSE phase' = "split" /\ buf' = Slice(buf, next, buf.len)
    /\ UNCHANGED <<chain, mode>>

Next ==
    \/ \E m \in Messages \union Tails : Compose(m)
    \/ \E how \in {"plain", "signed", "sealed"} : SendRequests(how)
    \/ \E how \in {"plain", "signed"} : SendResponses(how)
    \/ TryDecrypt
    \/ Split

Spec == Init /\ [][Next]_vars

-----------------------------------------------------------------------------
(* The bytes of a structure, without the packet header. *)
Room(e) == e.code.size - (IF IsPacket(e) THEN 64 ELSE 0)

(* Every Encode stores inside the Size() bytes it asked for and overwrites  *)
(* no field that it stored before, but for two: the available units of      *)
(* FileFsFullSizeInformation, stored two bytes too far (info_fs.go:514),    *)
(* and the names of a symbolic link error, stored four bytes too early.     *)
EncodersFit ==
    \A i \in DOMAIN chain :
        Intact(Room(Last(chain[i])), Last(chain[i]).code.put)
        <=> Msg(i).kind \notin {"FileFsFullSizeInformationInfo", "SymbolicLinkErrorResponse"}

(* The pairs of encoder and decoder that do not agree.  An error's data is  *)
(* never found, its length being stored in the wrong place.  A name of the  *)
(* share list that is not ASCII is counted in bytes.  Descriptors of an     *)
(* RDMA channel make READ invalid and shift the data of WRITE.  NEGOTIATE   *)
(* contexts of less than 28 bytes fail a check that is 28 bytes off.  The   *)
(* end of a field beyond 2^16 wraps around to before its start, where the   *)
(* accessor's slice panics; of the requests that add 16-bit numbers so, two *)
(* are checked at such lengths.                                             *)
EndsBeyond16(m) ==
    \/ m.kind = "SessionSetupRequest" /\ 24 + m.n > 65535
    \/ m.kind = "TreeConnectRequest" /\ 8 + m.n > 65535
Lossy(m, p, room) ==
    \/ p.kind = "ErrorResponse" /\ (p.n # 0 \/ p.items # <<>>)
    \/ m.kind = "FileFsFullSizeInformationInfo"
    \/ m.kind = "NetShareEnumAllResponse" /\ m.n > 1 /\ m.items # <<>>
    \/ m.kind = "ReadRequest" /\ m.items # <<>>
    \/ m.kind = "WriteRequest" /\ m.items # <<>> /\ m.n # 0
    \/ p.kind = "NegotiateRequest" /\ p.items # <<>> /\ room - 64 < Roundup(36 + 2 * p.n, 8) + 28
    \/ EndsBeyond16(m)

(* Whatever its length, its neighbours in the chain and its protection, a   *)
(* message is decoded into the fields it was encoded from, and what it      *)
(* carries as well, exactly when it is not one of the pairs above.          *)
DecodersRecover ==
    \A i \in DOMAIN got : got[i].ok <=> ~Lossy(Msg(i), Packet(i), Padded(i))

(* The receiver splits every chain into the packets it was made of, in      *)
(* order, never exits on one or skips it, and knows which packet ends it.   *)
ChainArrives ==
    /\ phase \notin {"broken", "skipped"}
    /\ \A i \in DOMAIN got : got[i].msgId = i
    /\ phase = "done" => /\ Len(got) = Len(chain)
                         /\ lastMsgId = IF Len(chain) = 1 THEN 0 ELSE Len(chain)

(* A signature verifies but for one case: sendPacket signs a response of a  *)
(* chain before it is padded, so that the signature of one that is not the  *)
(* last and whose size is no multiple of 8 covers less than is verified.    *)
SignaturesVerify ==
    \A i \in DOMAIN got :
        got[i].verified <=> ~(/\ mode = "signed" /\ ~IsRequest(chain[1])
                              /\ i < Len(chain) /\ Sizes[i] % 8 # 0)
============================================================================
