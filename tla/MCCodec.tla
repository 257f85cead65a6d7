------------------------------ MODULE MCCodec -----------------------------
(* One message of every kind for every small payload, and chains of it with *)
(* an even and an odd sized packet of each direction behind it.             *)
EXTENDS Codec

Lengths == {0, 1, 2, 6, 8, 12}
Nested == {<<>>, <<16>>, <<17, 24>>, <<24, 17, 20>>}
WithItems == {"NegotiateRequest", "NegotiateResponse", "CreateRequest", "CreateResponse", "ReadRequest",
              "WriteRequest", "ErrorResponse", "IoctlResponse"}
Packets == {Message(k, n, <<>>) : k \in PacketKinds, n \in Lengths}
           \union {Message(k, n, i) : k \in WithItems, n \in {0, 2, 6}, i \in Nested}

Listed == EntryKinds \union {"FileStreamInformationInfoItems", "FileFullEaInformationInfoItems"}
Paired == {"SymbolicLinkReparseDataBuffer", "SymbolicLinkErrorResponse", "HashContext"}
Strings == {"NetShareEnumAllResponse", "NetShareGetInfoResponse"}
Other == ((InformationKinds \union RpcKinds \union {"SmallBufferErrorResponse"})
          \ (Listed \union Paired \union Strings \union {"CreateContext", "SecurityDescriptor", "QueryQuotaInfo"}))
Structures ==
    {Message(k, n, <<>>) : k \in Other, n \in {2, 8}}
    \union {Message(k, 0, i) : k \in Listed, i \in {<<2>>, <<6, 2>>, <<8, 10, 2>>}}
    \union {Message(k, n, <<i>>) : k \in Paired, n \in {2, 8}, i \in {2, 8}}
    \union {Message(k, w, <<i>>) : k \in Strings, w \in {1, 2}, i \in {3, 4}}
    \union {Message("NetShareEnumAllResponse", 1, i) : i \in {<<>>, <<3, 4>>, <<4, 3, 1>>}}
    \union {Message("CreateContext", 4, <<i>>) : i \in {8, 13}}
    \union {Message("SecurityDescriptor", n, i) : n \in 0..2, i \in {<<>>, <<3, 3, 1, 3>>}}
    \union {Message("QueryQuotaInfo", 0, i) : i \in {<<>>, <<2>>, <<2, 3>>}}

(* The longest payload whose end fits in 16 bits, and one byte more. *)
Longest == {Message("SessionSetupRequest", n, <<>>) : n \in {65511, 65512}}
           \union {Message("TreeConnectRequest", n, <<>>) : n \in {65527, 65528}}

MCMessages == Packets \union Structures \union Longest
MCTails == {Message("CloseRequest", 0, <<>>), Message("SetInfoRequest", 5, <<>>),
            Message("CloseResponse", 0, <<>>), Message("ReadResponse", 5, <<>>)}
============================================================================
