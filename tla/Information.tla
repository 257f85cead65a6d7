---------------------------- MODULE Information ---------------------------
(* The structures that packets carry: the information classes of            *)
(* internal/smb2/fscc.go and server/info_fs.go, the payloads of create and  *)
(* negotiate contexts, SIDs.  A size is the structure's own.                *)
EXTENDS Responses

Decoder(r, least, get) == Decoded(r.len >= least, get)

Times(at) == <<P("CreationTime", at, at + 8), P("LastAccessTime", at + 8, at + 16),
               P("LastWriteTime", at + 16, at + 24), P("ChangeTime", at + 24, at + 32)>>

-----------------------------------------------------------------------------
(* Structures of fixed size. *)
FileAccessInformationInfo(m) == Encoded(4, <<P("AccessFlags", 0, 4)>>)
FileAccessInformationDecoder(r) == Decoder(r, 4, {P("AccessFlags", 0, 4)})
FileAlignmentInformationInfo(m) == Encoded(4, <<P("AlignmentRequirement", 0, 4)>>)
FileAlignmentInformationDecoder(r) == Decoder(r, 4, {P("AlignmentRequirement", 0, 4)})
FileEaInformationInfo(m) == Encoded(4, <<P("EaSize", 0, 4)>>)
FileEaInformationDecoder(r) == Decoder(r, 4, {P("EaSize", 0, 4)})
FileModeInformationInfo(m) == Encoded(4, <<P("Mode", 0, 4)>>)
FileModeInformationDecoder(r) == Decoder(r, 4, {P("Mode", 0, 4)})
FileInternalInformationInfo(m) == Encoded(8, <<P("IndexNumber", 0, 8)>>)
FileInternalInformationDecoder(r) == Decoder(r, 8, {P("IndexNumber", 0, 8)})
FilePositionInformationInfo(m) == Encoded(8, <<P("CurrentByteOffset", 0, 8)>>)
FilePositionInformationEncoder(m) == Encoded(8, <<P("CurrentByteOffset", 0, 8)>>)
FilePositionInformationDecoder(r) == Decoder(r, 8, {P("CurrentByteOffset", 0, 8)})
FileEndOfFileInformationEncoder(m) == Encoded(8, <<P("EndOfFile", 0, 8)>>)
FileEndOfFileInformationInfoDecoder(r) == Decoder(r, 8, {P("EndOfFile", 0, 8)})
FileDispositionInformationEncoder(m) == Encoded(4, <<P("DeletePending", 0, 1)>>)
FileDispositionInformationInfoDecoder(r) == Decoder(r, 1, {P("DeletePending", 0, 1)})

FileBasicInformationInfo(m) == Encoded(40, Append(Times(0), P("FileAttributes", 32, 36)))
FileBasicInformationDecoder(r) == Decoder(r, 40, ToSet(Times(0)) \union {P("FileAttributes", 32, 36)})
FileBasicInformationEncoder(m) == Encoded(40, Append(Times(0), P("FileAttributes", 32, 36)))
FileBasicInformationInfoDecoder(r) == Decoder(r, 36, ToSet(Times(0)) \union {P("FileAttributes", 32, 36)})

FileStandardInformationInfo(m) ==
    Encoded(24, <<P("AllocationSize", 0, 8), P("EndOfFile", 8, 16), P("NumberOfLinks", 16, 20),
                  P("DeletePending", 20, 21), P("Directory", 21, 22)>>)
FileStandardInformationDecoder(r) ==
    Decoder(r, 24, {P("AllocationSize", 0, 8), P("EndOfFile", 8, 16), P("NumberOfLinks", 16, 20),
                    P("DeletePending", 20, 21), P("Directory", 21, 22)})

FileAttributeTagInformationInfo(m) == Encoded(8, <<P("FileAttributes", 0, 4), P("ReparseTag", 4, 8)>>)
FileCompressionInformationInfo(m) ==
    Encoded(16, <<P("CompressedFileSize", 0, 8), P("CompressionFormat", 8, 10), P("CompressionUnitShift", 10, 11),
                  P("ChunkShift", 11, 12), P("ClusterShift", 12, 13), U(13, 16, 0)>>)
FileIdInformationInfo(m) == Encoded(24, <<P("VolumeSerialNumber", 0, 8), P("FileId", 8, 24)>>)
FileNetworkOpenInformationInfo(m) ==
    Encoded(56, Times(0) \o <<P("AllocationSize", 32, 40), P("EndOfFile", 40, 48), P("FileAttributes", 48, 52)>>)
FileFsDeviceInformationInfo(m) == Encoded(8, <<P("DeviceType", 0, 4), P("Characteristics", 4, 8)>>)
FileFsSectorSizeInformationInfo(m) ==
    Encoded(28, <<P("LogicalBytesPerSector", 0, 4), P("PhysicalForAtomicity", 4, 8), P("PhysicalForPerformance", 8, 12),
                  P("EffectiveForAtomicity", 12, 16), P("Flags", 16, 20), P("ForSectorAlignment", 20, 24),
                  P("ForPartitionAlignment", 24, 28)>>)
FileFsSizeInformationInfo(m) ==
    Encoded(24, <<P("TotalAllocationUnits", 0, 8), P("AvailableAllocationUnits", 8, 16),
                  P("SectorsPerAllocationUnit", 16, 20), P("BytesPerSector", 20, 24)>>)
FileFsPosixInformationInfo(m) ==
    Encoded(56, <<P("OptimalTransferSize", 0, 4), P("BlockSize", 4, 8), P("TotalBlocks", 8, 16),
                  P("BlocksAvailable", 16, 24), P("UserBlocksAvailable", 24, 32), P("TotalFileNodes", 32, 40),
                  P("FreeFileNodes", 40, 48), P("FsIdentifier", 48, 56)>>)
AfpInfo(m) ==
    Encoded(60, <<P("Signature", 0, 4), P("Version", 4, 8), P("FileBitmap", 8, 10), P("FinderInfo", 12, 44),
                  P("ProDOSInfo", 44, 50)>>)
FileObjectId1(m) ==
    Encoded(64, <<P("ObjectId", 0, 16), P("BirthVolumeId", 16, 32), P("BirthObjectId", 32, 48), P("DomainId", 48, 64)>>)
FileFsObjectIdInfo(m) == Encoded(64, <<P("ObjectId", 0, 16)>>)

(* The third number is stored at 18, where the next store cuts it off.      *)
FileFsFullSizeInformationInfo(m) ==
    Encoded(32, <<P("TotalAllocationUnits", 0, 8), P("CallerAvailableAllocationUnits", 8, 16),
                  P("ActualAvailableAllocationUnits", 18, 26), P("SectorsPerAllocationUnit", 24, 28),
                  P("BytesPerSector", 28, 32)>>)
FileFsFullSizeInformationDecoder(r) ==
    Decoder(r, 32, {P("TotalAllocationUnits", 0, 8), P("CallerAvailableAllocationUnits", 8, 16),
                    P("ActualAvailableAllocationUnits", 16, 24), P("SectorsPerAllocationUnit", 24, 28),
                    P("BytesPerSector", 28, 32)})

-----------------------------------------------------------------------------
(* Structures with a name of n bytes. *)
FileAlternateNameInformationInfo(m) == Encoded(4 + m.n, <<U(0, 4, m.n), P("FileName", 4, 4 + m.n)>>)
FileNameInformationDecoder(r) ==
    Decoded(r.len >= 4 /\ r.len >= 4 + NumAt(r, 0, 4), {P("FileName", 4, 4 + NumAt(r, 0, 4))})

(* The parts of FileAllInformation one after the other, and where its       *)
(* decoder looks for them.                                                  *)
AllParts(m) == <<FileBasicInformationInfo(m), FileStandardInformationInfo(m), FileInternalInformationInfo(m),
                 FileEaInformationInfo(m), FileAccessInformationInfo(m), FilePositionInformationInfo(m),
                 FileModeInformationInfo(m), FileAlignmentInformationInfo(m), FileAlternateNameInformationInfo(m)>>
FileAllInformationInfo(m) ==
    LET parts == AllParts(m)
        offs  == Layout(0, [i \in DOMAIN parts |-> parts[i].size], 1)
    IN  Encoded(Last(offs), FlattenSeq([i \in DOMAIN parts |-> Shift(parts[i].put, offs[i])]))

From(at, d) == {[c EXCEPT !.from = @ + at, !.to = @ + at] : c \in d.get}
FileAllInformationDecoder(r) ==
    Decoder(r, 96,
      From(0, FileBasicInformationDecoder(Slice(r, 0, 40)))
      \union From(40, FileStandardInformationDecoder(Slice(r, 40, 64)))
      \union From(64, FileInternalInformationDecoder(Slice(r, 64, 72)))
      \union From(72, FileEaInformationDecoder(Slice(r, 72, 76)))
      \union From(76, FileAccessInformationDecoder(Slice(r, 76, 80)))
      \union From(80, FilePositionInformationDecoder(Slice(r, 80, 88)))
      \union From(88, FileModeInformationDecoder(Slice(r, 88, 92)))
      \union From(92, FileAlignmentInformationDecoder(Slice(r, 92, 96)))
      \union From(96, FileNameInformationDecoder(Slice(r, 96, r.len))))

FileFsAttributeInformationInfo(m) ==
    Encoded(Roundup(12 + m.n, 8), <<P("FileSystemAttributes", 0, 4), P("MaximumComponentNameLength", 4, 8),
                                    U(8, 12, m.n), P("FileSystemName", 12, 12 + m.n)>>)
FileFsVolumeInformationInfo(m) ==
    Encoded(Roundup(18 + m.n, 8), <<P("VolumeCreationTime", 0, 8), P("VolumeSerialNumber", 8, 12), U(12, 16, m.n),
                                    P("VolumeLabel", 18, 18 + m.n)>>)
FileNotifyInformationInfo(m) ==
    Encoded(12 + m.n, <<U(0, 4, 0), P("Action", 4, 8), U(8, 12, m.n), P("FileName", 12, 12 + m.n)>>)

FileRenameInformationType2Encoder(m) ==
    Encoded(20 + m.n, <<P("FileName", 20, 20 + m.n), P("ReplaceIfExists", 0, 1), P("RootDirectory", 8, 16),
                        U(16, 20, m.n)>>)
FileLinkInformationType2Encoder(m) ==
    Encoded(20 + m.n, <<P("FileName", 20, 20 + m.n), P("ReplaceIfExists", 0, 1), P("RootDirectory", 8, 16),
                        U(16, 20, m.n)>>)
FileRenameInformationInfoDecoder(r) ==
    Decoder(r, 20, {P("ReplaceIfExists", 0, 1), P("RootDirectory", 8, 16), P("FileName", 20, 20 + NumAt(r, 16, 20))})

(* n and the one item are the lengths of the two names. *)
SymbolicLinkReparseDataBuffer(m) ==
    LET plen == m.items[1]
        size == 20 + m.n + plen
    IN  Encoded(size, <<P("SubstituteName", 20, 20 + m.n), P("PrintName", 20 + m.n, size), U(0, 4, 2),
                        U(4, 6, U16(size - 8)), U(8, 10, 0), U(10, 12, U16(m.n)), U(14, 16, U16(plen)),
                        U(12, 14, U16(m.n)), P("Flags", 16, 20)>>)
SymbolicLinkReparseDataBufferDecoder(r) ==
    LET rlen == NumAt(r, 4, 6)
        soff == NumAt(r, 8, 10)
        slen == NumAt(r, 10, 12)
        poff == NumAt(r, 12, 14)
        plen == NumAt(r, 14, 16)
    IN  Decoded(r.len >= 20 /\ NumAt(r, 0, 4) = 2 /\ soff % 2 = 0 /\ poff % 2 = 0 /\ r.len >= 8 + rlen
                  /\ rlen >= 12 + soff + slen /\ rlen >= 12 + poff + plen,
          {P("Flags", 16, 20), P("SubstituteName", 20 + soff, 20 + U16(soff + slen)),
           P("PrintName", 20 + poff, 20 + U16(poff + plen))})

-----------------------------------------------------------------------------
(* SIDs with k sub-authorities, the byte j of the identifier authority      *)
(* being the one of significance 256^j.  SID of acl.go copies the six bytes *)
(* in order; Sid of dtyp.go shifts each by one byte too many.  tag tells    *)
(* the SIDs of one structure apart.                                         *)
SIDSize(k) == 8 + 4 * k
SubAuthorities(tag, at, k) ==
    [i \in 1..k |-> L("SubAuthority", tag + i, at + 4 + 4 * i, at + 8 + 4 * i)]
SID(tag, at, k) ==
    <<U(at, at + 1, 1), U(at + 1, at + 2, k)>>
    \o [j \in 1..6 |-> L("IdentifierAuthority", tag + 6 - j, at + 1 + j, at + 2 + j)]
    \o SubAuthorities(tag, at, k)
Sid(tag, at, k) ==
    <<L("Revision", tag, at, at + 1), U(at + 1, at + 2, k)>>
    \o [j \in 1..6 |-> L("IdentifierAuthority", tag + 7 - j, at + 1 + j, at + 2 + j)]
    \o SubAuthorities(tag, at, k)
SidDecoder(tag, at, r) ==
    {L("IdentifierAuthority", tag + 6 - j, at + 1 + j, at + 2 + j) : j \in 1..6}
    \union ToSet(SubAuthorities(tag, at, NumAt(r, at + 1, at + 2)))

QueryQuotaInfo(m) ==
    LET sizes == [i \in DOMAIN m.items |-> SIDSize(m.items[i])]
        offs  == Layout(16, [i \in DOMAIN sizes |-> 8 + sizes[i]], 1)
        one   == Len(m.items) = 1
    IN  Encoded(IF one THEN 16 + sizes[1] ELSE Last(offs),
          <<P("ReturnSingle", 0, 1), P("RestartScan", 1, 2)>>
          \o (IF one THEN Sid(100, 16, m.items[1]) \o <<U(8, 12, sizes[1]), U(12, 16, 0)>>
              ELSE (IF m.items = <<>> THEN <<>> ELSE <<U(4, 8, 1)>>)
                   \o FlattenSeq([i \in DOMAIN m.items |->
                        Sid(100 * i, offs[i] + 8, m.items[i])
                        \o <<U(offs[i], offs[i] + 4, offs[i] + sizes[i]), U(offs[i] + 4, offs[i] + 8, sizes[i])>>])))

(* A security descriptor with the first n of owner and group, and a DACL of *)
(* one ACE for each item, the number of its SID's sub-authorities.          *)
ACESize(k) == 8 + SIDSize(k)
ACE(i, at, k) ==
    <<L("Type", i, at, at + 1), U(at + 1, at + 2, 0), U(at + 2, at + 4, ACESize(k)), L("Mask", i, at + 4, at + 8)>>
    \o SID(100 * i, at + 8, k)
ACLOffsets(at, items) == Layout(at + 8, [i \in DOMAIN items |-> ACESize(items[i])], 1)
ACL(at, items) ==
    LET offs == ACLOffsets(at, items)
    IN  <<U(at, at + 1, 2), U(at + 2, at + 4, Last(offs) - at), U(at + 4, at + 6, Len(items))>>
        \o FlattenSeq([i \in DOMAIN items |-> ACE(i, offs[i], items[i])])
SecurityDescriptor(m) ==
    LET dacl == 20 + m.n * SIDSize(3)
    IN  Encoded(Roundup(IF m.items = <<>> THEN dacl ELSE Last(ACLOffsets(dacl, m.items)), 8),
          <<U(0, 1, 1), P("Control", 2, 4)>>
          \o (IF m.n >= 1 THEN <<U(4, 8, 20)>> \o SID(1000, 20, 3) ELSE <<>>)
          \o (IF m.n >= 2 THEN <<U(8, 12, 20 + SIDSize(3))>> \o SID(2000, 20 + SIDSize(3), 3) ELSE <<>>)
          \o (IF m.items = <<>> THEN <<>> ELSE <<U(16, 20, dacl)>> \o ACL(dacl, m.items)))

AclDecoder(r, at) ==
    LET offs == FoldLeft(LAMBDA seen, i : Append(seen, Last(seen) + NumAt(r, Last(seen) + 2, Last(seen) + 4)),
                         <<at + 8>>, [i \in 1..NumAt(r, at + 4, at + 6) |-> i])
    IN  UNION {{L("Type", i, offs[i], offs[i] + 1), L("Mask", i, offs[i] + 4, offs[i] + 8)}
               \union SidDecoder(100 * i, offs[i] + 8, r) : i \in 1..NumAt(r, at + 4, at + 6)}
SecurityDescriptorDecoder(r) ==
    LET owner == NumAt(r, 4, 8)
        group == NumAt(r, 8, 12)
        dacl  == NumAt(r, 16, 20)
    IN  Decoded(TRUE, {P("Control", 2, 4)}
          \union (IF owner = 0 THEN {} ELSE SidDecoder(1000, owner, r))
          \union (IF group = 0 THEN {} ELSE SidDecoder(2000, group, r))
          \union (IF dacl = 0 THEN {} ELSE AclDecoder(r, dacl)))

-----------------------------------------------------------------------------
(* Entries of a directory listing, each with a name of n bytes.             *)
EntryHead(n) ==
    <<U(0, 4, 0), P("FileIndex", 4, 8)>> \o Times(8)
    \o <<P("EndOfFile", 40, 48), P("AllocationSize", 48, 56), P("FileAttributes", 56, 60), U(60, 64, n)>>
Named(n, at, put) == Encoded(Roundup(at + n, 8), put \o <<P("FileName", at, at + n)>>)

FileDirectoryInformationInfo(n) == Named(n, 64, EntryHead(n))
FileFullDirectoryInformationInfo(n) == Named(n, 68, EntryHead(n) \o <<P("EaSize", 64, 68)>>)
FileBothDirectoryInformationInfo(n) ==
    Named(n, 94, EntryHead(n) \o <<P("EaSize", 64, 68), P("ShortNameLength", 68, 69)>>)
FileIdBothDirectoryInformationInfo(n) ==
    Named(n, 104, EntryHead(n) \o <<P("EaSize", 64, 68), P("FileId", 96, 104)>>)
FileIdBothDirectoryInformationInfo2(n) ==
    Named(n, 104, EntryHead(n) \o <<P("MaxAccess", 64, 68), P("ShortNameLength", 68, 69), P("RsrcForkLen", 70, 78),
                                    P("CompressedFinderInfo", 78, 94), P("UnixMode", 94, 96), P("FileId", 96, 104)>>)
FileIdFullDirectoryInformationInfo(n) ==
    Named(n, 80, EntryHead(n) \o <<P("EaSize", 64, 68), P("FileId", 72, 80)>>)
FileIdAllExtdBothDirectoryInformationInfo(n) ==
    Named(n, 122, EntryHead(n) \o <<P("EaSize", 64, 68), P("ReparsePointTag", 68, 72), P("FileId", 72, 80),
                                    P("FileId128", 80, 88), P("FileId128_2", 88, 96), P("ShortNameLength", 96, 97),
                                    U(97, 98, 0), P("ShortName", 98, 122)>>)
FileNamesInformationInfo(n) ==
    Named(n, 12, <<U(0, 4, 0), P("FileIndex", 4, 8), U(8, 12, 0), U(8, 12, n)>>)

(* Owner and group have three sub-authorities (SIDFromUid, SIDFromGid).     *)
FilePosixInformationInfo(n) ==
    LET name == 80 + 2 * SIDSize(3) + 4
    IN  Named(n, name,
          Times(0) \o <<P("EndOfFile", 32, 40), P("AllocationSize", 40, 48), P("FileAttributes", 48, 52),
            P("Inode", 52, 60), P("Device", 60, 64), U(64, 68, 0), P("NumberOfLinks", 68, 72), P("ReparseTag", 72, 76),
            P("PosixMode", 76, 80)>>
          \o SID(10, 80, 3) \o SID(20, 80 + SIDSize(3), 3) \o <<U(name - 4, name, n)>>)
FilePosixDirectoryInformationInfo(n) ==
    LET info == FilePosixInformationInfo(n)
    IN  Encoded(Roundup(8 + info.size, 8), <<U(0, 4, 0), P("FileIndex", 4, 8)>> \o Shift(info.put, 8))
PosixCreateContextResponse(m) ==
    Encoded(12 + 2 * SIDSize(3), <<P("NumberOfLinks", 0, 4), P("ReparseTag", 4, 8), P("PosixPerms", 8, 12)>>
                                 \o SID(10, 12, 3) \o SID(20, 12 + SIDSize(3), 3))

EntryKinds == {"FileDirectory", "FileFullDirectory", "FileBothDirectory", "FileIdBothDirectory",
               "FileIdBothDirectory2", "FileIdFullDirectory", "FileIdAllExtdBothDirectory", "FileNames",
               "FilePosixDirectory"}
Entry(kind, n) ==
    CASE kind = "FileDirectory" -> FileDirectoryInformationInfo(n)
      [] kind = "FileFullDirectory" -> FileFullDirectoryInformationInfo(n)
      [] kind = "FileBothDirectory" -> FileBothDirectoryInformationInfo(n)
      [] kind = "FileIdBothDirectory" -> FileIdBothDirectoryInformationInfo(n)
      [] kind = "FileIdBothDirectory2" -> FileIdBothDirectoryInformationInfo2(n)
      [] kind = "FileIdFullDirectory" -> FileIdFullDirectoryInformationInfo(n)
      [] kind = "FileIdAllExtdBothDirectory" -> FileIdAllExtdBothDirectoryInformationInfo(n)
      [] kind = "FileNames" -> FileNamesInformationInfo(n)
      [] kind = "FilePosixDirectory" -> FilePosixDirectoryInformationInfo(n)

-----------------------------------------------------------------------------
(* Lists whose elements lead to each other by the offset in their first     *)
(* four bytes, 0 in the last one.  The fields of the i-th element are       *)
(* numbered from 100 * i.                                                   *)
Numbered(put, i) == [k \in DOMAIN put |-> IF put[k].name = "" THEN put[k] ELSE [put[k] EXCEPT !.num = @ + 100 * i]]
Element(e, i, off) == Shift(Numbered(e.put, i), off)
NextOffset(off, v) == U(off, off + 4, v)

FileInformationInfoResponse(m) ==
    LET es   == [i \in DOMAIN m.items |-> Entry(m.kind, m.items[i])]
        offs == Layout(0, [i \in DOMAIN es |-> es[i].size], 1)
    IN  Encoded(Last(offs), FlattenSeq([i \in DOMAIN es |->
          Append(Element(es[i], i, offs[i]), NextOffset(offs[i], IF i = Len(es) THEN 0 ELSE es[i].size))]))

FileStreamInformationInfo(n) ==
    Encoded(Roundup(24 + n, 8), <<U(4, 8, n), P("StreamSize", 8, 16), P("StreamAllocationSize", 16, 24),
                                  P("StreamName", 24, 24 + n)>>)
(* The next element goes where the NextEntryOffset of this one points.      *)
FileStreamInformationInfoItems(m) ==
    LET es   == [i \in DOMAIN m.items |-> FileStreamInformationInfo(m.items[i])]
        next == [i \in DOMAIN es |-> IF i < Len(es) THEN es[i].size ELSE 0]
        offs == Layout(0, next, 1)
    IN  Encoded(Last(Layout(0, [i \in DOMAIN es |-> es[i].size], 1)),
          FlattenSeq([i \in DOMAIN es |-> <<NextOffset(offs[i], next[i])>> \o Element(es[i], i, offs[i])]))

(* An extended attribute with a name of n bytes and a value of three.       *)
EaValueLength == 3
FileFullEaInformationInfoItems(m) ==
    LET size(i) == Roundup(8 + m.items[i] + 1 + EaValueLength, 4)
        offs == Layout(0, [i \in DOMAIN m.items |-> size(i)], 1)
    IN  Encoded(Last(offs), FlattenSeq([i \in DOMAIN m.items |->
          <<NextOffset(offs[i], IF i < Len(m.items) THEN size(i) ELSE 0)>>
          \o Shift(<<L("Flags", 100 * i, 4, 5), U(5, 6, m.items[i]), L("EaValueLength", 100 * i, 6, 8),
                     L("EaName", 100 * i, 8, 8 + m.items[i])>>, offs[i])]))

NetworkInterfaceInfo == Encoded(152, <<P("IfIndex", 4, 8), P("Capability", 8, 12), P("LinkSpeed", 16, 24), U(24, 26, 2),
                                       U(26, 28, 445), P("IPv4", 28, 32)>>)
NetworkInterfaceInfoList(m) ==
    Encoded(152 * m.n, FlattenSeq([i \in 1..m.n |->
      <<NextOffset(152 * (i - 1), IF i < m.n THEN 152 ELSE 0)>> \o Element(NetworkInterfaceInfo, i, 152 * (i - 1))]))

SrvCopychunkCopy(m) ==
    Encoded(32 + 24 * m.n, <<P("SourceKey", 0, 24), U(24, 28, m.n)>>
      \o FlattenSeq([i \in 1..m.n |-> Shift(<<L("SourceOffset", i, 8, 16), L("TargetOffset", i, 16, 24),
                                              L("Length", i, 24, 28)>>, 24 * i)]))

(* The offsets of the elements that a reader of the list visits. *)
MaxElements == 4
Visited(r) ==
    FoldLeft(LAMBDA seen, i : LET next == NumAt(r, Last(seen), Last(seen) + 4)
                              IN  IF Len(seen) < i \/ next = 0 THEN seen ELSE Append(seen, Last(seen) + next),
             <<0>>, [i \in 1..MaxElements |-> i])

FileDirectoryInformationDecoder(r) ==
    LET offs == Visited(r)
        entry(i) == Append(Times(8), P("FileIndex", 4, 8))
                    \o <<P("EndOfFile", 40, 48), P("AllocationSize", 48, 56), P("FileAttributes", 56, 60),
                         P("FileName", 64, 64 + NumAt(r, offs[i] + 60, offs[i] + 64))>>
    IN  Decoded(\A i \in DOMAIN offs : r.len - offs[i] >= 64 + NumAt(r, offs[i] + 60, offs[i] + 64),
          UNION {ToSet(Element([put |-> entry(i)], i, offs[i])) : i \in DOMAIN offs})

-----------------------------------------------------------------------------
(* Data of create contexts. *)
LeaseFields == <<P("LeaseKey", 0, 16), P("LeaseState", 16, 20), P("LeaseFlags", 20, 24), P("LeaseDuration", 24, 32)>>
Lease2Fields == LeaseFields \o <<P("ParentLeaseKey", 32, 48), P("Epoch", 48, 50)>>
LeaseResponse(m) == Encoded(32, LeaseFields)
LeaseResponse2(m) == Encoded(52, Lease2Fields)
(* handleRqLs tells the two versions apart by the length of the data. *)
LeaseRequestDecoder(r) == Decoded(r.len = 32, ToSet(LeaseFields))
LeaseRequest2Decoder(r) == Decoded(r.len # 32 /\ r.len >= 50, ToSet(Lease2Fields))
CreateContextMaximalAccessResponse(m) == Encoded(8, <<P("QueryStatus", 0, 4), P("MaximalAccess", 4, 8)>>)
DurableHandleResponse2(m) == Encoded(8, <<P("Timeout", 0, 4), P("Flags", 4, 8)>>)
DiskIdResponse(m) == Encoded(32, <<P("DiskFileId", 0, 8), P("VolumeId", 8, 16)>>)
AAPLServerQueryResponse(m) ==
    Encoded(Roundup(40 + m.n, 8), <<P("CommandCode", 0, 4), P("ReplyBitmap", 8, 16), P("ServerCaps", 16, 24),
                                    P("VolumeCaps", 24, 32), U(36, 40, m.n), P("ModelString", 40, 40 + m.n)>>)

(* A context with a name of n bytes and data of items[1] bytes. *)
CreateContext(m) ==
    LET data == Roundup(16 + m.n, 8)
    IN  Encoded(data + m.items[1],
          <<U(4, 6, 16), U(6, 8, m.n), U(10, 12, data), U(12, 16, m.items[1]), P("Name", 16, 16 + m.n),
            P("Buffer", data, data + m.items[1])>>)
CreateContextPayload(r) ==
    LET noff == NumAt(r, 4, 6)
        doff == NumAt(r, 10, 12)
    IN  Decoded(r.len >= 16, {P("Name", noff, U16(noff + NumAt(r, 6, 8))), P("Buffer", doff, doff + U16(NumAt(r, 12, 16)))})

-----------------------------------------------------------------------------
(* Negotiate contexts with n algorithms, and for the hash a salt. *)
Algorithms(n, at) == [i \in 1..n |-> L("Algorithm", i, at + 2 * i - 2, at + 2 * i)]
HashContext(m) ==
    LET salt == 12 + 2 * m.n
    IN  Encoded(salt + m.items[1], <<P("ContextType", 0, 2), U(2, 4, salt - 8 + m.items[1])>> \o Algorithms(m.n, 12)
          \o <<U(8, 10, m.n), P("Salt", salt, salt + m.items[1]), U(10, 12, m.items[1])>>)
CipherContext(m) ==
    Encoded(10 + 2 * m.n, <<P("ContextType", 0, 2), U(2, 4, 2 + 2 * m.n)>> \o Algorithms(m.n, 10) \o <<U(8, 10, m.n)>>)
CompressionContext(m) ==
    Encoded(16 + 2 * m.n, <<P("ContextType", 0, 2), U(2, 4, 8 + 2 * m.n)>> \o Algorithms(m.n, 16)
                          \o <<U(8, 10, m.n), P("Flags", 12, 16)>>)
PosixContext(m) == Encoded(24, <<P("ContextType", 0, 2), U(2, 4, 16), P("Tag", 8, 24)>>)

ContextValid(r) == r.len >= 8 /\ r.len >= 8 + NumAt(r, 2, 4)
HashContextDataDecoder(r) ==
    LET count == NumAt(r, 8, 10)
        salt  == 12 + 2 * count
        len   == NumAt(r, 10, 12)
    IN  Decoded(ContextValid(r) /\ r.len >= 12 /\ NumAt(r, 2, 4) >= 4 + 2 * count + len,
          {P("ContextType", 0, 2), P("Salt", salt, salt + len)} \union ToSet(Algorithms(count, 12)))
CipherContextDataDecoder(r) ==
    LET count == NumAt(r, 8, 10)
    IN  Decoded(ContextValid(r) /\ r.len >= 10 /\ NumAt(r, 2, 4) >= 2 + 2 * count,
          {P("ContextType", 0, 2)} \union ToSet(Algorithms(count, 10)))
PosixContextDecoder(r) == Decoded(ContextValid(r) /\ NumAt(r, 2, 4) = 16, {P("ContextType", 0, 2), P("Tag", 8, 24)})
-----------------------------------------------------------------------------
(* The structures by what carries them: the packets QUERY_INFO and SET_INFO, *)
(* create contexts, and the two NEGOTIATE packets.                          *)
QueryInfoKinds ==
    {"FileAccessInformationInfo", "FileAlignmentInformationInfo", "FileEaInformationInfo",
     "FileModeInformationInfo", "FileInternalInformationInfo", "FilePositionInformationInfo",
     "FileBasicInformationInfo", "FileStandardInformationInfo", "FileAttributeTagInformationInfo",
     "FileCompressionInformationInfo", "FileIdInformationInfo", "FileNetworkOpenInformationInfo",
     "FileFsDeviceInformationInfo", "FileFsSectorSizeInformationInfo", "FileFsSizeInformationInfo",
     "FileFsPosixInformationInfo", "FileFsObjectIdInfo", "FileFsFullSizeInformationInfo",
     "FileAlternateNameInformationInfo", "FileAllInformationInfo", "FileFsAttributeInformationInfo",
     "FileFsVolumeInformationInfo", "FileStreamInformationInfoItems", "FileFullEaInformationInfoItems"}
SetInfoKinds ==
    {"FileBasicInformationEncoder", "FilePositionInformationEncoder", "FileEndOfFileInformationEncoder",
     "FileDispositionInformationEncoder", "FileRenameInformationType2Encoder",
     "FileLinkInformationType2Encoder", "SecurityDescriptor"}
CreateContextKinds ==
    {"LeaseResponse", "LeaseResponse2", "CreateContextMaximalAccessResponse", "DurableHandleResponse2",
     "DiskIdResponse", "AAPLServerQueryResponse", "PosixCreateContextResponse"}
NegotiateContextKinds ==
    {"HashContext", "CipherContext", "CompressionContext", "PosixContext"}
InformationKinds ==
    EntryKinds \union QueryInfoKinds \union SetInfoKinds \union CreateContextKinds \union NegotiateContextKinds
    \union {"FileNotifyInformationInfo", "QueryQuotaInfo", "AfpInfo", "FileObjectId1",
            "NetworkInterfaceInfoList", "SrvCopychunkCopy", "SymbolicLinkReparseDataBuffer", "CreateContext"}

EncodeInformation(m) ==
    CASE m.kind \in EntryKinds -> FileInformationInfoResponse(m)
      [] m.kind = "FileAccessInformationInfo" -> FileAccessInformationInfo(m)
      [] m.kind = "FileAlignmentInformationInfo" -> FileAlignmentInformationInfo(m)
      [] m.kind = "FileEaInformationInfo" -> FileEaInformationInfo(m)
      [] m.kind = "FileModeInformationInfo" -> FileModeInformationInfo(m)
      [] m.kind = "FileInternalInformationInfo" -> FileInternalInformationInfo(m)
      [] m.kind = "FilePositionInformationInfo" -> FilePositionInformationInfo(m)
      [] m.kind = "FileBasicInformationInfo" -> FileBasicInformationInfo(m)
      [] m.kind = "FileStandardInformationInfo" -> FileStandardInformationInfo(m)
      [] m.kind = "FileAttributeTagInformationInfo" -> FileAttributeTagInformationInfo(m)
      [] m.kind = "FileCompressionInformationInfo" -> FileCompressionInformationInfo(m)
      [] m.kind = "FileIdInformationInfo" -> FileIdInformationInfo(m)
      [] m.kind = "FileNetworkOpenInformationInfo" -> FileNetworkOpenInformationInfo(m)
      [] m.kind = "FileFsDeviceInformationInfo" -> FileFsDeviceInformationInfo(m)
      [] m.kind = "FileFsSectorSizeInformationInfo" -> FileFsSectorSizeInformationInfo(m)
      [] m.kind = "FileFsSizeInformationInfo" -> FileFsSizeInformationInfo(m)
      [] m.kind = "FileFsPosixInformationInfo" -> FileFsPosixInformationInfo(m)
      [] m.kind = "FileFsObjectIdInfo" -> FileFsObjectIdInfo(m)
      [] m.kind = "FileFsFullSizeInformationInfo" -> FileFsFullSizeInformationInfo(m)
      [] m.kind = "FileAlternateNameInformationInfo" -> FileAlternateNameInformationInfo(m)
      [] m.kind = "FileAllInformationInfo" -> FileAllInformationInfo(m)
      [] m.kind = "FileFsAttributeInformationInfo" -> FileFsAttributeInformationInfo(m)
      [] m.kind = "FileFsVolumeInformationInfo" -> FileFsVolumeInformationInfo(m)
      [] m.kind = "FileStreamInformationInfoItems" -> FileStreamInformationInfoItems(m)
      [] m.kind = "FileFullEaInformationInfoItems" -> FileFullEaInformationInfoItems(m)
      [] m.kind = "FileBasicInformationEncoder" -> FileBasicInformationEncoder(m)
      [] m.kind = "FilePositionInformationEncoder" -> FilePositionInformationEncoder(m)
      [] m.kind = "FileEndOfFileInformationEncoder" -> FileEndOfFileInformationEncoder(m)
      [] m.kind = "FileDispositionInformationEncoder" -> FileDispositionInformationEncoder(m)
      [] m.kind = "FileRenameInformationType2Encoder" -> FileRenameInformationType2Encoder(m)
      [] m.kind = "FileLinkInformationType2Encoder" -> FileLinkInformationType2Encoder(m)
      [] m.kind = "SecurityDescriptor" -> SecurityDescriptor(m)
      [] m.kind = "LeaseResponse" -> LeaseResponse(m)
      [] m.kind = "LeaseResponse2" -> LeaseResponse2(m)
      [] m.kind = "CreateContextMaximalAccessResponse" -> CreateContextMaximalAccessResponse(m)
      [] m.kind = "DurableHandleResponse2" -> DurableHandleResponse2(m)
      [] m.kind = "DiskIdResponse" -> DiskIdResponse(m)
      [] m.kind = "AAPLServerQueryResponse" -> AAPLServerQueryResponse(m)
      [] m.kind = "PosixCreateContextResponse" -> PosixCreateContextResponse(m)
      [] m.kind = "HashContext" -> HashContext(m)
      [] m.kind = "CipherContext" -> CipherContext(m)
      [] m.kind = "CompressionContext" -> CompressionContext(m)
      [] m.kind = "PosixContext" -> PosixContext(m)
      [] m.kind = "FileNotifyInformationInfo" -> FileNotifyInformationInfo(m)
      [] m.kind = "QueryQuotaInfo" -> QueryQuotaInfo(m)
      [] m.kind = "AfpInfo" -> AfpInfo(m)
      [] m.kind = "FileObjectId1" -> FileObjectId1(m)
      [] m.kind = "NetworkInterfaceInfoList" -> NetworkInterfaceInfoList(m)
      [] m.kind = "SrvCopychunkCopy" -> SrvCopychunkCopy(m)
      [] m.kind = "SymbolicLinkReparseDataBuffer" -> SymbolicLinkReparseDataBuffer(m)
      [] m.kind = "CreateContext" -> CreateContext(m)

DecodeInformation(kind, r) ==
    CASE kind = "FileAccessInformationInfo" -> FileAccessInformationDecoder(r)
      [] kind = "FileAlignmentInformationInfo" -> FileAlignmentInformationDecoder(r)
      [] kind = "FileEaInformationInfo" -> FileEaInformationDecoder(r)
      [] kind = "FileModeInformationInfo" -> FileModeInformationDecoder(r)
      [] kind = "FileInternalInformationInfo" -> FileInternalInformationDecoder(r)
      [] kind = "FilePositionInformationInfo" -> FilePositionInformationDecoder(r)
      [] kind = "FileBasicInformationInfo" -> FileBasicInformationDecoder(r)
      [] kind = "FileStandardInformationInfo" -> FileStandardInformationDecoder(r)
      [] kind = "FileFsFullSizeInformationInfo" -> FileFsFullSizeInformationDecoder(r)
      [] kind = "FileAlternateNameInformationInfo" -> FileNameInformationDecoder(r)
      [] kind = "FileAllInformationInfo" -> FileAllInformationDecoder(r)
      [] kind = "FileBasicInformationEncoder" -> FileBasicInformationInfoDecoder(r)
      [] kind = "FileEndOfFileInformationEncoder" -> FileEndOfFileInformationInfoDecoder(r)
      [] kind = "FileDispositionInformationEncoder" -> FileDispositionInformationInfoDecoder(r)
      [] kind = "FileRenameInformationType2Encoder" -> FileRenameInformationInfoDecoder(r)
      [] kind = "SecurityDescriptor" -> SecurityDescriptorDecoder(r)
      [] kind = "LeaseResponse" -> LeaseRequestDecoder(r)
      [] kind = "LeaseResponse2" -> LeaseRequest2Decoder(r)
      [] kind = "HashContext" -> HashContextDataDecoder(r)
      [] kind = "CipherContext" -> CipherContextDataDecoder(r)
      [] kind = "PosixContext" -> PosixContextDecoder(r)
      [] kind = "SymbolicLinkReparseDataBuffer" -> SymbolicLinkReparseDataBufferDecoder(r)
      [] kind = "CreateContext" -> CreateContextPayload(r)
      [] kind = "FileDirectory" -> FileDirectoryInformationDecoder(r)

(* Structures that only an encoder of the repository knows. *)
EncodedOnly ==
    (EntryKinds \ {"FileDirectory"})
    \union {"FileAttributeTagInformationInfo", "FileCompressionInformationInfo", "FileIdInformationInfo",
            "FileNetworkOpenInformationInfo", "FileFsDeviceInformationInfo",
            "FileFsSectorSizeInformationInfo", "FileFsSizeInformationInfo", "FileFsPosixInformationInfo",
            "FileFsObjectIdInfo", "FileFsAttributeInformationInfo", "FileFsVolumeInformationInfo",
            "FileStreamInformationInfoItems", "FileFullEaInformationInfoItems",
            "FilePositionInformationEncoder", "FileLinkInformationType2Encoder",
            "CreateContextMaximalAccessResponse", "DurableHandleResponse2", "DiskIdResponse",
            "AAPLServerQueryResponse", "PosixCreateContextResponse", "CompressionContext",
            "FileNotifyInformationInfo", "QueryQuotaInfo", "AfpInfo", "FileObjectId1",
            "NetworkInterfaceInfoList", "SrvCopychunkCopy"}
============================================================================
