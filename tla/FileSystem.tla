----------------------------- MODULE FileSystem -----------------------------
(***************************************************************************)
(* The file system (filesys/filesys.cc, openfile.cc) on the synchronous    *)
(* disk (synchdisk.cc).  A call of a client is a list of sector requests   *)
(* (todo) followed by a decision, as often as the code goes to the disk;   *)
(* other threads run while a client waits for a request.  SynchDisk's lock *)
(* does nothing, as Lock is an empty class.                                *)
(*                                                                         *)
(* The machine may go down at any time, between two requests too, and come *)
(* up again on the same disk, formatting it or not.  A disk that was not   *)
(* formatted to the end is formatted again.                                *)
(*                                                                         *)
(* harm records what the file system says it does not handle: "overlap"    *)
(* (two calls at the same time), "torn" (down between the two flushes of   *)
(* Create or Remove), "removed" (a file removed while a client has it      *)
(* open).  After reading as a header what is none, the model stops.        *)
(***************************************************************************)
EXTENDS FileStructures

CONSTANTS
  Clients, Main,        \* threads that use the file system, and the main one
  Sizes,                \* the sizes of new files
  MaxCalls, MaxCommands, MaxCrashes   \* bounds on the calls or commands, and on going down

ASSUME ClientAssumption ==
  /\ Main \in Clients /\ {MaxCalls, MaxCommands, MaxCrashes} \subseteq Nat
  /\ Sizes \subseteq Nat /\ \E largest \in Sizes : \A n \in Sizes : n <= largest

VARIABLES
  disk, active, value,  \* the sectors; Disk::active; the value of SynchDisk's semaphore
  op, handle,           \* of each client: the call in progress and its OpenFile
  cmd,                  \* of each client: the command of main.cc it executes
  up, formatted,        \* the file system object exists; the disk is formatted
  outcome,              \* "running", "abort" (an ASSERT) or "garbage"
  harm, calls, crashes, workload

diskVars == <<disk, active, value>>
bootVars == <<up, formatted, crashes, workload>>
fsVars == <<diskVars, op, handle, cmd, bootVars, outcome, harm, calls>>

NoCall == [call |-> "none", phase |-> "", name |-> EmptyEntry.name, size |-> 0,
           bytes |-> <<>>, table |-> EmptyDirectory, todo |-> <<>>, buf |-> <<>>,
           waiting |-> FALSE, result |-> 0]
Closed == [open |-> FALSE, name |-> EmptyEntry.name, hdr |-> Allocate({}, 0), seek |-> 0]
NoCommand == [kind |-> "none", step |-> "", name |-> EmptyEntry.name, size |-> 0,
              fp |-> 0, out |-> <<>>]

\* The headers of the free map and the directory, in memory while the system is
\* up; each file takes a part of one sector.
FreeMapSector == 0
DirectorySector == 1
MapHdr == Allocate({FreeMapSector, DirectorySector}, SectorSize - 1)
DirHdr == Allocate({FreeMapSector, DirectorySector} \cup DataSectors(MapHdr), SectorSize - 1)

\* The sectors marked by formatting.
Reserved == {FreeMapSector, DirectorySector} \cup DataSectors(MapHdr) \cup DataSectors(DirHdr)

FormatRequests ==
  <<Writing(FreeMapSector, MapHdr), Writing(DirectorySector, DirHdr),
    Reading(FreeMapSector), Reading(DirectorySector)>>
  \o Flush(MapHdr, MapSector(Reserved)) \o Flush(DirHdr, DirSector(EmptyDirectory))

-----------------------------------------------------------------------------

Running == outcome = "running"
Free(c) == Running /\ up /\ op[c].call = "none"

\* Client c begins a call.
Start(c, call, name, size, bytes, phase, todo) ==
  /\ Free(c)
  /\ op' = [op EXCEPT ![c] = [NoCall EXCEPT !.call = call, !.name = name, !.size = size,
                              !.bytes = bytes, !.phase = phase, !.todo = todo]]
  /\ harm' = harm \cup {h \in {"overlap"} : \E d \in Clients \ {c} : op[d].call # "none"}
  /\ UNCHANGED <<diskVars, handle, bootVars, outcome>>

Lookup(c, call, name, size) == Start(c, call, name, size, <<>>, "lookup", FetchFrom(DirHdr))
Create(c, name, size) == Lookup(c, "Create", name, size)
Open(c, name) == Lookup(c, "Open", name, 0)
RemoveCall(c, name) == Lookup(c, "Remove", name, 0)

\* OpenFile::Read and OpenFile::Write
Read(c, numBytes) ==
  LET h == handle[c]
      n == Clip(h.hdr.numBytes, numBytes, h.seek)
  IN  Start(c, "Read", h.name, n, <<>>, "read",
            IF n = 0 THEN <<>> ELSE ReadAt(h.hdr, n, h.seek))
Write(c, from) ==
  LET h == handle[c]
      n == Clip(h.hdr.numBytes, Len(from), h.seek)
  IN  Start(c, "Write", h.name, n, SubSeq(from, 1, n), "fetch",
            IF n = 0 THEN <<>> ELSE ReadFirst(h.hdr, n, h.seek))

\* FileSystem::List, and FileSystem::Print up to the entries of the directory.
List(c) == Lookup(c, "List", EmptyEntry.name, 0)
PrintAll(c) ==
  Start(c, "Print", EmptyEntry.name, 0, <<>>, "entries",
        <<Reading(FreeMapSector)>> \o FetchFrom(MapHdr) \o <<Reading(DirectorySector)>>
          \o FetchFrom(DirHdr) \o FetchFrom(MapHdr) \o FetchFrom(DirHdr))

\* ~OpenFile
Close(c) ==
  /\ Free(c) /\ handle[c].open
  /\ handle' = [handle EXCEPT ![c] = Closed]
  /\ UNCHANGED <<diskVars, op, bootVars, outcome, harm>>

-----------------------------------------------------------------------------

\* SynchDisk's ReadSector and WriteSector up to the P: Disk's ReadRequest and
\* WriteRequest insist that no request is in progress, and move the data.
DiskRequest(c) ==
  LET r == Head(op[c].todo)
  IN  /\ Running /\ op[c].todo # <<>> /\ ~op[c].waiting
      /\ IF active
         THEN outcome' = "abort" /\ UNCHANGED <<diskVars, op>>
         ELSE /\ active' = TRUE
              /\ disk' = IF r.write THEN [disk EXCEPT ![r.sector] = r.data] ELSE disk
              /\ op' = [op EXCEPT ![c].todo = Tail(@), ![c].waiting = TRUE,
                                  ![c].buf = IF r.write THEN @ ELSE Append(@, disk[r.sector])]
              /\ UNCHANGED <<value, outcome>>
      /\ UNCHANGED <<handle, cmd, bootVars, harm, calls>>

\* Disk::HandleInterrupt and SynchDisk::RequestDone
RequestDone ==
  /\ Running /\ active
  /\ active' = FALSE /\ value' = value + 1
  /\ UNCHANGED <<disk, op, handle, cmd, bootVars, outcome, harm, calls>>

\* Mutant: P goes back to sleep whatever the value.
PDoneSleeps(c) == Running /\ op[c].waiting /\ UNCHANGED fsVars

\* The P of ReadSector or WriteSector returns.  A thread that comes to P after
\* the interrupt can take the unit another one was woken for.
PDone(c) ==
  /\ Running /\ op[c].waiting /\ value > 0
  /\ value' = value - 1
  /\ op' = [op EXCEPT ![c].waiting = FALSE]
  /\ UNCHANGED <<disk, active, handle, cmd, bootVars, outcome, harm, calls>>

-----------------------------------------------------------------------------

\* The headers a phase has read are headers.
HeaderPhases == {"open", "free", "entry"}
Sound(c) == op[c].phase \in HeaderPhases => op[c].buf[1].kind = "header"

\* The requests of a phase of the call are done.
Ready(c, phase) ==
  /\ Running /\ op[c].call # "none" /\ op[c].phase = phase
  /\ op[c].todo = <<>> /\ ~op[c].waiting /\ Sound(c)

GoOn(c, phase, table, todo) ==
  op' = [op EXCEPT ![c].phase = phase, ![c].table = table, ![c].todo = todo, ![c].buf = <<>>]
End(c, result, bytes) == op' = [op EXCEPT ![c] = [NoCall EXCEPT !.result = result, !.bytes = bytes]]

\* The directory has been fetched.
LookedUp(c) ==
  LET table == op[c].buf[1].table
      found == Found(table, op[c].name) # {}
      sector == FindSector(table, op[c].name)
  IN  /\ Ready(c, "lookup")
      /\ CASE op[c].call = "Create" ->
                IF found THEN End(c, 0, <<>>) ELSE GoOn(c, "allocate", table, FetchFrom(MapHdr))
           [] op[c].call = "Open" ->
                IF ~found THEN End(c, 0, <<>>) ELSE GoOn(c, "open", table, <<Reading(sector)>>)
           [] op[c].call = "Remove" ->
                IF ~found THEN End(c, 0, <<>>)
                ELSE GoOn(c, "free", table, <<Reading(sector)>> \o FetchFrom(MapHdr))
           [] op[c].call = "List" -> End(c, 1, <<>>)
      /\ UNCHANGED <<diskVars, handle, cmd, bootVars, outcome, harm, calls>>

\* Create has fetched the free map: it finds the space, or fails, and flushes in
\* the given order what it changed, with the given of the two kinds of new sectors
\* marked.
CreateWith(c, order, marked) ==
  LET map == op[c].buf[1].marked
      sector == Find(map)
      map2 == map \cup {sector}
      hdr == Allocate(map2, op[c].size)
      table == op[c].table
      new == [header |-> {sector}, data |-> DataSectors(hdr)]
      flush == [none |-> <<>>, header |-> <<Writing(sector, hdr)>>,
                directory |-> Flush(DirHdr, DirSector(Add(table, op[c].name, sector))),
                map |-> Flush(MapHdr, MapSector(map \cup UNION {new[k] : k \in marked}))]
  IN  /\ Ready(c, "allocate")
      /\ IF ClearBits(map) = {} \/ FreeEntries(table) = {} \/ ~CanAllocate(map2, op[c].size)
         THEN End(c, 0, <<>>)
         ELSE GoOn(c, "flush", table, flush[order[1]] \o flush[order[2]] \o flush[order[3]])
      /\ UNCHANGED <<diskVars, handle, cmd, bootVars, outcome, harm, calls>>

\* Mutants: the free map is flushed before the directory; no header is written;
\* the header's sector is not marked.
CreateAllocateMapFirst(c) == CreateWith(c, <<"header", "map", "directory">>, {"header", "data"})
CreateAllocateNoHeader(c) == CreateWith(c, <<"none", "directory", "map">>, {"header", "data"})
CreateAllocateUnmarked(c) == CreateWith(c, <<"header", "directory", "map">>, {"data"})

CreateAllocate(c) == CreateWith(c, <<"header", "directory", "map">>, {"header", "data"})

NewSectors(sector, hdr) == {sector} \cup DataSectors(hdr)

\* Remove has fetched the header and the free map.
RemoveFree(c) ==
  LET hdr == op[c].buf[1]
      map == op[c].buf[2].marked
      table == op[c].table
  IN  /\ Ready(c, "free")
      /\ IF ~ (DataSectors(hdr) \subseteq map)    \* the ASSERT of Deallocate
         THEN outcome' = "abort" /\ UNCHANGED <<op, harm>>
         ELSE /\ GoOn(c, "flush", table,
                      Flush(MapHdr, MapSector(map \ NewSectors(FindSector(table, op[c].name), hdr)))
                        \o Flush(DirHdr, DirSector(RemoveEntry(table, op[c].name))))
              /\ harm' = harm \cup {h \in {"removed"} : \E d \in Clients :
                                      handle[d].open /\ handle[d].name = op[c].name}
              /\ UNCHANGED outcome
      /\ UNCHANGED <<diskVars, handle, cmd, bootVars, calls>>

\* Create and Remove return TRUE.
Flushed(c) ==
  /\ Ready(c, "flush")
  /\ End(c, 1, <<>>)
  /\ UNCHANGED <<diskVars, handle, cmd, bootVars, outcome, harm, calls>>

\* The OpenFile is made.
Opened(c) ==
  /\ Ready(c, "open")
  /\ handle' = [handle EXCEPT ![c] = [open |-> TRUE, name |-> op[c].name,
                                      hdr |-> op[c].buf[1], seek |-> 0]]
  /\ End(c, 1, <<>>)
  /\ UNCHANGED <<diskVars, cmd, bootVars, outcome, harm, calls>>

\* Read ends.
HasRead(c) ==
  LET buf == [k \in DOMAIN op[c].buf |-> Bytes(op[c].buf[k])]
      n == op[c].size
  IN  /\ Ready(c, "read")
      /\ End(c, n, CopiedOut(buf, n, handle[c].seek))
      /\ handle' = [handle EXCEPT ![c].seek = @ + n]
      /\ UNCHANGED <<diskVars, cmd, bootVars, outcome, harm, calls>>

\* WriteAt has read the sectors it modifies in part, and writes.
HasFetched(c) ==
  LET buf == [k \in DOMAIN op[c].buf |-> Bytes(op[c].buf[k])]
  IN  /\ Ready(c, "fetch")
      /\ GoOn(c, "write", op[c].table,
              IF op[c].size = 0 THEN <<>>
              ELSE WriteBack(handle[c].hdr, op[c].bytes, handle[c].seek, buf))
      /\ UNCHANGED <<diskVars, handle, cmd, bootVars, outcome, harm, calls>>

\* Write ends.
HasWritten(c) ==
  /\ Ready(c, "write")
  /\ End(c, op[c].size, <<>>)
  /\ handle' = [handle EXCEPT ![c].seek = @ + op[c].size]
  /\ UNCHANGED <<diskVars, cmd, bootVars, outcome, harm, calls>>

\* Directory::Print: the header of the next entry in use, and in PrintFile the
\* sectors of that file.  size is the number of entries passed.
PrintEntry(c) ==
  LET table == IF op[c].size = 0 THEN Last(op[c].buf).table ELSE op[c].table
      later == {e \in Entries : e > op[c].size /\ table[e].inUse}
  IN  /\ Ready(c, "entries")
      /\ IF later = {} THEN End(c, 1, <<>>)
         ELSE op' = [op EXCEPT ![c].phase = "entry", ![c].table = table, ![c].buf = <<>>,
                               ![c].todo = <<Reading(table[Min(later)].sector)>>,
                               ![c].size = Min(later)]
      /\ UNCHANGED <<diskVars, handle, cmd, bootVars, outcome, harm, calls>>
PrintFile(c) ==
  LET hdr == op[c].buf[1]
  IN  /\ Ready(c, "entry")
      /\ GoOn(c, "entries", op[c].table, [k \in DOMAIN hdr.dataSectors |-> Reading(hdr.dataSectors[k])])
      /\ UNCHANGED <<diskVars, handle, cmd, bootVars, outcome, harm, calls>>

\* A phase has read a header that is none: the rest is not modelled.
Garbage(c) ==
  /\ Running /\ op[c].call # "none" /\ op[c].todo = <<>> /\ ~op[c].waiting
  /\ ~Sound(c)
  /\ outcome' = "garbage"
  /\ UNCHANGED <<diskVars, op, handle, cmd, bootVars, harm, calls>>

-----------------------------------------------------------------------------
(***************************************************************************)
(* Going down and coming up                                                *)
(***************************************************************************)

\* FileSystem::FileSystem, in the main thread.
Boot(format) ==
  /\ Running /\ ~up /\ op[Main].call = "none"
  /\ format \/ formatted
  /\ op' = [op EXCEPT ![Main] = [NoCall EXCEPT !.call = "Boot", !.phase = "boot", !.todo =
              IF format THEN FormatRequests
              ELSE <<Reading(FreeMapSector), Reading(DirectorySector)>>]]
  /\ formatted' = ~format
  /\ harm' = IF format THEN {} ELSE harm
  /\ UNCHANGED <<diskVars, handle, cmd, up, crashes, workload, outcome, calls>>

Booted ==
  /\ Ready(Main, "boot")
  /\ End(Main, 1, <<>>)
  /\ up' = TRUE /\ formatted' = TRUE
  /\ UNCHANGED <<diskVars, handle, cmd, crashes, workload, outcome, harm, calls>>

\* Of the two sectors that Create and Remove flush, one is written.
BetweenFlushes(c) ==
  LET left == {r.sector : r \in {q \in Range(op[c].todo) : q.write}}
  IN  /\ op[c].phase = "flush"
      /\ (ByteToSector(MapHdr, 0) \in left) # (ByteToSector(DirHdr, 0) \in left)

\* Nachos exits, or is stopped, at any point.
Crash ==
  /\ Running /\ crashes < MaxCrashes /\ workload = "commands"
  /\ crashes' = crashes + 1
  /\ up' = FALSE
  /\ op' = [c \in Clients |-> NoCall] /\ handle' = [c \in Clients |-> Closed]
  /\ cmd' = [c \in Clients |-> NoCommand]
  /\ active' = FALSE /\ value' = 0
  /\ harm' = harm \cup {h \in {"torn"} : \E c \in Clients : BetweenFlushes(c)}
  /\ UNCHANGED <<disk, formatted, workload, outcome, calls>>
=============================================================================
