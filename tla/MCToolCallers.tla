---------------------------- MODULE MCToolCallers ----------------------------
(* A cached read, a document and a changing tool; results of three lengths. *)
EXTENDS ToolCallers
MCOutcomes ==
  {[path |-> "", text |-> "text", len |-> 2], [path |-> "", text |-> "text", len |-> 9],
   [path |-> "doc", text |-> "one", len |-> 3], [path |-> "doc", text |-> "two", len |-> 3]}
=============================================================================
