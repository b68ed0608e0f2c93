----------------------------- MODULE MCSubagentTail -----------------------------
(* Instances of SubagentTail for TLC; the .cfg files give the constants.     *)
EXTENDS SubagentTail
AllLines == 1..MaxLines
=============================================================================
