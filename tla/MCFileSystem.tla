---------------------------- MODULE MCFileSystem ----------------------------
(***************************************************************************)
(* A disk of eight sectors of three bytes, four of them free, a directory  *)
(* of two entries and three names, so that the space for data, for headers *)
(* and for names can each run out.  Copies of four bytes in transfers of   *)
(* two begin and end inside sectors and cross from one to the next.        *)
(***************************************************************************)
EXTENDS FileCommands
=============================================================================
