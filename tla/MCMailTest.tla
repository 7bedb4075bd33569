----------------------------- MODULE MCMailTest -----------------------------
(***************************************************************************)
(* Two machines, two mailboxes and two threads a machine; messages with    *)
(* and without data.                                                       *)
(***************************************************************************)
EXTENDS MailRefinement

MCBoxes == {0, 1}
MCMessages == {[to |-> 0, from |-> 1, length |-> 0], [to |-> 1, from |-> 0, length |-> 1]}
=============================================================================
