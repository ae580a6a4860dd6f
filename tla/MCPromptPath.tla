---------------------------- MODULE MCPromptPath ----------------------------
(* Small instances of PromptPath: the operator and one other caller.       *)
EXTENDS PromptPath
=============================================================================
