----------------------- MODULE MC_OperationConverter -----------------------
(* Two commands, one redelivery, mailboxes of capacity two: a command's    *)
(* Executing and terminal responses can both wait in the converter's       *)
(* mailbox, and a redelivered Init can arrive after the command ended.     *)
EXTENDS OperationConverter

CONSTANTS a, b

MC_Ids == {a, b}
=============================================================================
