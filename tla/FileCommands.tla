---------------------------- MODULE FileCommands ----------------------------
(***************************************************************************)
(* The users of the file system.  With workload "commands" the main thread *)
(* executes options of the command line (threads/main.cc) one after the    *)
(* other: Copy, Print and PerformanceTest of filesys/fstest.cc, Remove,    *)
(* List and Print of the file system.  With workload "calls" several       *)
(* threads make calls of the file system as they like, as user processes   *)
(* and the kernel do that open, load from and remove files.                *)
(***************************************************************************)
EXTENDS FileSystem

CONSTANTS TransferSize, TestFile    \* of fstest.cc

\* The disk has room for the file it starts with.
ASSUME CommandAssumption ==
  /\ TransferSize \in Nat \ {0} /\ TestFile \in Names /\ Names # {TestFile}
  /\ Cardinality(ClearBits(Reserved)) >= 2
  /\ CanAllocate(Reserved \cup {FindNth(Reserved, 2)}, Max(Sizes))

\* The bytes of a UNIX file, of what a client writes, and of Contents.
Text(owner, n) == [k \in 1..n |-> <<owner, k>>]

Idle(c) == Free(c) /\ cmd[c].step \in {"", "over"}
Doing(c, kind, step) == Free(c) /\ cmd[c].kind = kind /\ cmd[c].step = step
Step(c, step) == cmd' = [cmd EXCEPT ![c].step = step] /\ UNCHANGED calls
Skip(c, step) == Step(c, step) /\ UNCHANGED <<diskVars, op, handle, bootVars, outcome, harm>>

\* main takes the next option.
Command(c) ==
  /\ Idle(c) /\ workload = "commands" /\ calls < MaxCommands /\ c = Main
  /\ calls' = calls + 1
  /\ \E kind \in {"copy", "print", "perf"}, name \in Names, size \in Sizes :
       /\ kind # "copy" => size = Min(Sizes)
       /\ kind = "perf" => name = TestFile
       /\ cmd' = [cmd EXCEPT ![c] = [NoCommand EXCEPT !.kind = kind, !.step = "first",
                                                      !.name = name, !.size = size]]
  /\ UNCHANGED <<diskVars, op, handle, bootVars, outcome, harm>>
OneCall(c) ==
  /\ Idle(c) /\ workload = "commands" /\ calls < MaxCommands /\ c = Main
  /\ calls' = calls + 1
  /\ \/ \E name \in Names : RemoveCall(c, name)
     \/ List(c)
     \/ PrintAll(c)
  /\ cmd' = [cmd EXCEPT ![c] = NoCommand]

\* Copy
CopyCreate(c) == Doing(c, "copy", "first") /\ Create(c, cmd[c].name, cmd[c].size) /\ Step(c, "open")
CopyOpen(c) ==
  /\ Doing(c, "copy", "open")
  /\ IF op[c].result = 0 THEN Skip(c, "over")
     ELSE Open(c, cmd[c].name) /\ Step(c, "write")
CopyWrite(c) ==
  LET k == cmd[c]
      text == Text(k.name, k.size)
      chunk == SubSeq(text, k.fp + 1, Min({k.fp + TransferSize, k.size}))
  IN  /\ Doing(c, "copy", "write")
      /\ IF ~handle[c].open
         THEN outcome' = "abort" /\ UNCHANGED <<diskVars, op, handle, cmd, bootVars, harm, calls>>
         ELSE IF k.fp = k.size THEN Close(c) /\ Step(c, "over")
         ELSE /\ Write(c, chunk)
              /\ cmd' = [cmd EXCEPT ![c].fp = @ + Len(chunk)]
              /\ UNCHANGED calls

\* Print
PrintOpen(c) == Doing(c, "print", "first") /\ Open(c, cmd[c].name) /\ Step(c, "opened")
PrintRead(c) ==
  /\ Doing(c, "print", "opened") \/ (Doing(c, "print", "read") /\ op[c].result > 0)
  /\ IF ~handle[c].open THEN Skip(c, "over")
     ELSE /\ Read(c, TransferSize)
          /\ cmd' = [cmd EXCEPT ![c].step = "read", ![c].out = @ \o op[c].bytes]
          /\ UNCHANGED calls
PrintClose(c) ==
  Doing(c, "print", "read") /\ op[c].result = 0 /\ Close(c) /\ Step(c, "over")

\* PerformanceTest: FileWrite makes a file of size 0, so its first Write falls
\* short; FileRead stops at the first Read that falls short or differs.
FileWrite(c) ==
  \/ Doing(c, "perf", "first") /\ Create(c, TestFile, 0) /\ Step(c, "created")
  \/ /\ Doing(c, "perf", "created") /\ op[c].result = 1
     /\ Open(c, TestFile) /\ Step(c, "opened")
  \/ /\ Doing(c, "perf", "opened")
     /\ IF ~handle[c].open THEN Skip(c, "read")
        ELSE Write(c, Text("Contents", TransferSize)) /\ Step(c, "written")
  \/ /\ Doing(c, "perf", "written")
     /\ IF op[c].result = TransferSize
        THEN Write(c, Text("Contents", TransferSize)) /\ UNCHANGED <<cmd, calls>>
        ELSE Close(c) /\ Step(c, "read")
FileRead(c) ==
  \/ /\ Doing(c, "perf", "read") \/ (Doing(c, "perf", "created") /\ op[c].result = 0)
     /\ Open(c, TestFile) /\ Step(c, "reopened")
  \/ /\ Doing(c, "perf", "reopened") /\ handle[c].open
     /\ Read(c, TransferSize) /\ Step(c, "got")
  \/ /\ Doing(c, "perf", "got")
     /\ IF op[c].bytes = Text("Contents", TransferSize)
        THEN Read(c, TransferSize) /\ UNCHANGED <<cmd, calls>>
        ELSE Close(c) /\ Step(c, "remove")
PerformanceTest(c) ==
  \/ FileWrite(c) \/ FileRead(c)
  \/ /\ Doing(c, "perf", "remove") \/ (Doing(c, "perf", "reopened") /\ ~handle[c].open)
     /\ RemoveCall(c, TestFile) /\ Step(c, "over")

CallNames == Names \ {TestFile}

\* A client makes a call of its own.  Bound: no further ones after an overlap.
Call(c) ==
  /\ Idle(c) /\ workload = "calls" /\ calls < MaxCalls /\ "overlap" \notin harm
  /\ calls' = calls + 1
  /\ \/ \E name \in CallNames : Create(c, name, Max(Sizes)) \/ RemoveCall(c, name)
     \/ \E name \in CallNames : ~handle[c].open /\ Open(c, name)
     \/ handle[c].open /\ (Read(c, 1) \/ Write(c, Text(c, 1)))
     \/ Close(c)
  /\ UNCHANGED cmd

\* OpenFile::Seek
Seek(c) ==
  /\ Idle(c) /\ workload = "calls" /\ handle[c].open /\ handle[c].seek > 0
  /\ handle' = [handle EXCEPT ![c].seek = 0]
  /\ UNCHANGED <<diskVars, op, cmd, bootVars, outcome, harm, calls>>

\* Nothing is left to do within the bounds.
Rest ==
  /\ Running => /\ \A c \in Clients : Idle(c)
                /\ \/ calls = IF workload = "calls" THEN MaxCalls ELSE MaxCommands
                   \/ "overlap" \in harm
  /\ UNCHANGED fsVars

-----------------------------------------------------------------------------

\* A formatted disk with one file; one with a sector was removed before it.
SetUp ==
  LET sector == FindNth(Reserved, 2)
      name == CHOOSE n \in Names \ {TestFile} : TRUE
      hdr == Allocate(Reserved \cup {sector}, Max(Sizes))
      table == Add(EmptyDirectory, name, sector)
      map == Reserved \cup NewSectors(sector, hdr)
  IN  [s \in Sectors |->
        CASE s = FreeMapSector           -> MapHdr
          [] s = DirectorySector         -> DirHdr
          [] s = ByteToSector(MapHdr, 0) -> MapSector(map)
          [] s = ByteToSector(DirHdr, 0) -> DirSector(table)
          [] s = sector                  -> hdr
          [] OTHER                       -> DataSector([k \in 1..SectorSize |-> <<"zero", 0>>])]

FSInit ==
  /\ workload \in {"commands", "calls"}
  /\ formatted \in BOOLEAN /\ up = (workload = "calls") /\ (up => formatted)
  /\ disk = IF formatted THEN SetUp
            ELSE [s \in Sectors |-> DataSector([k \in 1..SectorSize |-> <<"zero", 0>>])]
  /\ active = FALSE /\ value = 0
  /\ op = [c \in Clients |-> NoCall] /\ handle = [c \in Clients |-> Closed]
  /\ cmd = [c \in Clients |-> NoCommand]
  /\ outcome = "running" /\ harm = {} /\ calls = 0 /\ crashes = 0

InCommand(c) ==
  \/ CopyCreate(c) \/ CopyOpen(c) \/ CopyWrite(c)
  \/ PrintOpen(c) \/ PrintRead(c) \/ PrintClose(c)
  \/ PerformanceTest(c)

\* What a thread does once it has begun.
Progress(c) ==
  \/ DiskRequest(c) \/ PDone(c)
  \/ LookedUp(c) \/ CreateAllocate(c) \/ RemoveFree(c) \/ Flushed(c) \/ Opened(c)
  \/ HasRead(c) \/ HasFetched(c) \/ HasWritten(c) \/ PrintEntry(c) \/ PrintFile(c)
  \/ Garbage(c)
  \/ InCommand(c)

FSNext ==
  \/ \E c \in Clients : Progress(c) \/ Command(c) \/ OneCall(c) \/ Call(c) \/ Seek(c)
  \/ RequestDone
  \/ \E format \in BOOLEAN : Boot(format)
  \/ Booted
  \/ Crash
  \/ Rest

\* The interrupt of a request comes and a ready thread gets the processor.
FSSpec ==
  /\ FSInit /\ [][FSNext]_fsVars
  /\ WF_fsVars(RequestDone) /\ WF_fsVars(Booted)
  /\ \A c \in Clients : WF_fsVars(Progress(c))

-----------------------------------------------------------------------------
(***************************************************************************)
(* Properties                                                              *)
(***************************************************************************)

Table == disk[ByteToSector(DirHdr, 0)].table
Marked == disk[ByteToSector(MapHdr, 0)].marked
InUse == {e \in Entries : Table[e].inUse}
Header(e) == disk[Table[e].sector]
SectorsOf(e) == NewSectors(Table[e].sector, Header(e))

Flushing == \E c \in Clients : op[c].phase = "flush"
Intact == harm = {}

\* The disk is well formed.  The sectors with the headers and the contents of the
\* free map and the directory are never used for anything else: not after a crash
\* between two flushes, nor by calls that overlap, nor by writes to a removed file.
\* Between calls, and after every crash that does not come between the two flushes
\* of Create or Remove, names differ, every entry leads to a header, and the sectors
\* of files are marked and belong to one file only.
DirectorySound ==
  /\ formatted =>
       /\ disk[FreeMapSector] = MapHdr /\ disk[DirectorySector] = DirHdr
       /\ disk[ByteToSector(MapHdr, 0)].kind = "map"
       /\ disk[ByteToSector(DirHdr, 0)].kind = "directory"
       /\ Reserved \subseteq Marked
  /\ formatted /\ Intact /\ ~Flushing =>
       /\ \A e \in InUse : Header(e).kind = "header" /\ SectorsOf(e) \subseteq Marked \ Reserved
       /\ \A e, f \in InUse : e # f => /\ Table[e].name # Table[f].name
                                     /\ SectorsOf(e) \cap SectorsOf(f) = {}

\* What is marked belongs to a file.
AllOwned == Marked \subseteq Reserved \cup UNION {SectorsOf(e) : e \in InUse}

\* Create flushes the directory before the free map, and Remove the free map
\* before the directory, so no crash of an intact file system loses sectors, wherever
\* it comes.  What it can do is leave a file on sectors that are free.  (With such files
\* later calls of Create and Remove can lose sectors.)
NothingLeaks ==
  [][formatted' /\ Intact /\ harm' \subseteq {"torn"} => AllOwned']_fsVars

\* No ASSERT fails (the one in Disk that no request is in progress, the one in
\* Deallocate that the sectors of a file are marked, the one in Copy that the
\* file can be opened) and no header is misread, unless calls overlap, a crash
\* came between two flushes, or a file was removed while open.
FailsOnlyAfterHarm == Intact => Running

Contents(hdr) ==
  SubSeq(FlattenSeq([k \in DOMAIN hdr.dataSectors |-> Bytes(disk[hdr.dataSectors[k]])]),
         1, hdr.numBytes)
NamesInUse == {Table[e].name : e \in InUse}
FileOf(name) == Contents(disk[FindSector(Table, name)])

\* The commands move whole files, though their transfers start and end anywhere in
\* a sector.  When Copy is over and it could create the file, the file is the UNIX
\* file.  Print has printed the file from its beginning, and all of it when it is
\* over.
CommandsFaithful ==
  \A c \in Clients :
    /\ (/\ cmd[c].kind = "copy" /\ cmd[c].step = "over" /\ cmd[c].fp = cmd[c].size /\ Intact
        /\ op[c].call = "none" /\ cmd[c].size > 0) =>
          /\ cmd[c].name \in NamesInUse
          /\ FileOf(cmd[c].name) = Text(cmd[c].name, cmd[c].size)
    /\ (/\ cmd[c].kind = "print" /\ cmd[c].step \in {"read", "over"} /\ Intact
        /\ cmd[c].name \in NamesInUse) =>
          LET file == FileOf(cmd[c].name)
          IN  /\ IsPrefix(cmd[c].out, file)
              /\ cmd[c].step = "over" => cmd[c].out = file

\* Every call returns, also when threads take the units of the semaphore that
\* others were woken for, unless the simulation ends.
CallsReturn ==
  \A c \in Clients : op[c].call # "none" ~> (op[c].call = "none" \/ ~Running)

\* The calls being written by a client, for FileStore.
Request ==
  UNION {{<<op[c].name, handle[c].seek + k, op[c].bytes[k]>> : k \in DOMAIN op[c].bytes} :
           c \in {d \in Clients : op[d].call = "Write"}}

Store == INSTANCE FileStore WITH
  StoreNames <- Names,
  files <- IF formatted /\ Intact THEN [n \in NamesInUse |-> FileOf(n)] ELSE << >>,
  request <- IF Intact THEN Request ELSE {},
  intact <- Intact

\* The file system implements FileStore: Create and Remove take effect at the
\* flush of the directory or, if the machine goes down before, not at all.
ImplementsStore == Store!StoreSpec
=============================================================================
