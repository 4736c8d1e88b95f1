--------------------------- MODULE MCPromptBackup ---------------------------
(* Instances of PromptBackup for TLC.  *)
EXTENDS PromptBackup, TLC

CONSTANTS v1, v2

(* Versions are compared and copied, nothing else.  *)
Interchangeable == Permutations({v1, v2})
=============================================================================
