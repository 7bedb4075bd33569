--------------------------- MODULE FileStructures ---------------------------
(***************************************************************************)
(* The data structures of the file system: the bit map of sectors          *)
(* (userprog/bitmap.cc), the directory, the file header and the arithmetic *)
(* of OpenFile (filesys/directory.cc, filehdr.cc, openfile.cc).            *)
(*                                                                         *)
(* A bit map is the set of the bits that are set, a directory is a table   *)
(* of entries.  Names that agree in their first FileNameMaxLen characters  *)
(* are one name.  The disk holds sectors of four kinds; a "data" sector is *)
(* a tuple of bytes.                                                       *)
(***************************************************************************)
EXTENDS Integers, Sequences, FiniteSets, SequencesExt, FiniteSetsExt

CONSTANTS NumSectors, SectorSize, NumDirEntries, Names

ASSUME FileAssumption ==
  /\ NumSectors \in Nat /\ NumSectors >= 5
  /\ SectorSize \in Nat /\ SectorSize >= 2 /\ NumDirEntries \in Nat \ {0}

Sectors == 0..(NumSectors - 1)
Entries == 1..NumDirEntries

divRoundUp(n, s) == (n + s - 1) \div s

\* BitMap::NumClear counts these, and BitMap::Find marks the first.
ClearBits(map) == Sectors \ map
Find(map) == Min(ClearBits(map))

\* What the k-th of several calls of Find returns.
FindNth(map, k) ==
  CHOOSE s \in ClearBits(map) : Cardinality({t \in ClearBits(map) : t < s}) = k - 1

-----------------------------------------------------------------------------

\* FileHeader::Allocate, for a size of at most MaxFileSize.
CanAllocate(map, fileSize) == Cardinality(ClearBits(map)) >= divRoundUp(fileSize, SectorSize)
Allocate(map, fileSize) ==
  [kind |-> "header", numBytes |-> fileSize,
   dataSectors |-> [k \in 1..divRoundUp(fileSize, SectorSize) |-> FindNth(map, k)]]

DataSectors(hdr) == Range(hdr.dataSectors)

\* FileHeader::ByteToSector of the first byte of the k-th sector, from 0.
ByteToSector(hdr, k) == hdr.dataSectors[k + 1]

EmptyEntry == [inUse |-> FALSE, name |-> CHOOSE n \in Names : TRUE, sector |-> 0]
EmptyDirectory == [e \in Entries |-> EmptyEntry]

\* Directory::FindIndex finds the first of these, if there is one.
Found(table, name) == {e \in Entries : table[e].inUse /\ table[e].name = name}
FindSector(table, name) == table[Min(Found(table, name))].sector

\* Directory::Add, for a name that is not there.
FreeEntries(table) == {e \in Entries : ~table[e].inUse}
Add(table, name, newSector) ==
  [table EXCEPT ![Min(FreeEntries(table))] = [inUse |-> TRUE, name |-> name, sector |-> newSector]]

\* Directory::Remove
RemoveEntry(table, name) == [table EXCEPT ![Min(Found(table, name))].inUse = FALSE]

-----------------------------------------------------------------------------

\* What goes to and comes from the disk.
MapSector(map) == [kind |-> "map", marked |-> map]
DirSector(table) == [kind |-> "directory", table |-> table]
DataSector(bytes) == [kind |-> "data", bytes |-> bytes]

\* A sector that was a header or an entry is just bytes to who reads it as data.
Bytes(content) ==
  IF content.kind = "data" THEN content.bytes ELSE [k \in 1..SectorSize |-> <<"other", 0>>]

Reading(sector) == [write |-> FALSE, sector |-> sector, data |-> DataSector(<<>>)]
Writing(sector, content) == [write |-> TRUE, sector |-> sector, data |-> content]

\* ReadAt and WriteAt cut a request to the length of the file.
Clip(fileLength, numBytes, position) ==
  IF numBytes <= 0 \/ position >= fileLength THEN 0
  ELSE IF position + numBytes > fileLength THEN fileLength - position ELSE numBytes

FirstSector(position) == position \div SectorSize
LastSector(position, n) == (position + n - 1) \div SectorSize

\* The sectors that ReadAt reads.
ReadAt(hdr, n, position) ==
  [k \in 1..(1 + LastSector(position, n) - FirstSector(position)) |->
    Reading(ByteToSector(hdr, FirstSector(position) + k - 1))]

\* Mutant: ReadAt copies from the start of its buffer.
CopiedOutAligned(buf, n, position) == SubSeq(FlattenSeq(buf), 1, n)

\* What ReadAt copies out of the sectors in buf.
CopiedOut(buf, n, position) ==
  LET skip == position - FirstSector(position) * SectorSize
  IN  SubSeq(FlattenSeq(buf), skip + 1, skip + n)

\* The sectors WriteAt reads first: the first and the last, if they are to be
\* partially modified.
ReadFirst(hdr, n, position) ==
  LET first == FirstSector(position)
      last == LastSector(position, n)
      firstAligned == position = first * SectorSize
      lastAligned == position + n = (last + 1) * SectorSize
  IN  (IF firstAligned THEN <<>> ELSE <<Reading(ByteToSector(hdr, first))>>) \o
      (IF ~lastAligned /\ (first # last \/ firstAligned)
       THEN <<Reading(ByteToSector(hdr, last))>> ELSE <<>>)

\* Then it writes all of them.  A byte past the end of the file is left over from
\* the buffer; nothing reads it as this file's.
\* Bytes of the first and last sector that are not written are as they were read.
WriteSectors(hdr, from, position, buf) ==
  LET written == position..(position + Len(from) - 1)
      first == FirstSector(position)
      unaligned == position # first * SectorSize
      Old(k, b) == IF k = first /\ unaligned THEN Head(buf)[b] ELSE Last(buf)[b]
      New(k) == [b \in 1..SectorSize |->
                  LET at == k * SectorSize + b - 1
                  IN  IF at \in written THEN from[at - position + 1]
                      ELSE IF at < hdr.numBytes THEN Old(k, b) ELSE <<"left over", 0>>]
  IN  [i \in 1..(1 + LastSector(position, Len(from)) - first) |->
        Writing(ByteToSector(hdr, first + i - 1), DataSector(New(first + i - 1)))]

\* Mutant: a sector that is modified in part is not read first.
WriteBackUnread(hdr, from, position, buf) ==
  WriteSectors(hdr, from, position, <<[b \in 1..SectorSize |-> <<"left over", 0>>]>>)

WriteBack(hdr, from, position, buf) == WriteSectors(hdr, from, position, buf)

\* BitMap and Directory FetchFrom and WriteBack: their files take less than one
\* sector, so WriteAt reads it first.
FetchFrom(hdr) == <<Reading(ByteToSector(hdr, 0))>>
Flush(hdr, content) == FetchFrom(hdr) \o <<Writing(ByteToSector(hdr, 0), content)>>
=============================================================================
