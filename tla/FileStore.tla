----------------------------- MODULE FileStore ------------------------------
(***************************************************************************)
(* What the file system promises: named files of fixed length that change  *)
(* only where they are being written, and have what was written when the   *)
(* write is over.  Create and Remove happen at once or not at all, also    *)
(* when the machine goes down; a write may have been done in part.  A new  *)
(* file has any contents.  Nothing is promised after damage.               *)
(***************************************************************************)
EXTENDS Integers, Sequences

CONSTANTS StoreNames

VARIABLES
  files,     \* maps the names that exist to their bytes
  request,   \* the bytes being written: tuples <<name, position, byte>>
  up,        \* the machine is up
  intact

storeVars == <<files, request, up, intact>>

StoreInit == DOMAIN files \subseteq StoreNames /\ request = {} /\ intact = TRUE

CreateFile(name) ==
  /\ name \notin DOMAIN files
  /\ DOMAIN files' = DOMAIN files \cup {name}
  /\ \A n \in DOMAIN files : files'[n] = files[n]
  /\ UNCHANGED <<request, up>>

RemoveFile(name) ==
  /\ name \in DOMAIN files
  /\ files' = [n \in DOMAIN files \ {name} |-> files[n]]
  /\ UNCHANGED <<request, up>>

BeginWrite == request = {} /\ UNCHANGED <<files, up>>

WritePart ==
  /\ DOMAIN files' = DOMAIN files
  /\ \A n \in DOMAIN files :
       /\ Len(files'[n]) = Len(files[n])
       /\ \A k \in DOMAIN files[n] :
            files'[n][k] = files[n][k] \/ <<n, k, files'[n][k]>> \in request
  /\ UNCHANGED <<request, up>>

EndWrite ==
  /\ \A r \in request : files[r[1]][r[2]] = r[3]
  /\ request' = {} /\ UNCHANGED <<files, up>>

GoDown == up' = FALSE /\ request' = {} /\ UNCHANGED files
ComeUp == up' = TRUE /\ UNCHANGED <<files, request>>
Format == ~up /\ files' = << >> /\ UNCHANGED <<request, up>>

StoreNext ==
  \/ /\ intact' = intact
     /\ \/ \E name \in StoreNames : CreateFile(name) \/ RemoveFile(name)
        \/ BeginWrite \/ WritePart \/ EndWrite
        \/ GoDown \/ ComeUp \/ Format
  \/ intact' = FALSE    \* damage
  \/ ~intact

StoreSpec == StoreInit /\ [][StoreNext]_storeVars
=============================================================================
