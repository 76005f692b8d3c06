-------------------------- MODULE MCStreamableHTTP --------------------------
(* An instance of StreamableHTTP for TLC. *)
EXTENDS StreamableHTTP

CONSTANTS a, b, r1, r2, tools_list, none, page, s

MCCall(op, adapter, method, params) ==
  [op |-> op, adapter |-> adapter, method |-> method, params |-> params, session |-> s]

MCCalls ==
  {MCCall("list", a, tools_list, none), MCCall("list", a, tools_list, page),
   MCCall("list", b, tools_list, none), MCCall("changed", a, tools_list, none),
   MCCall("initialize", b, "initialize", none)}
=============================================================================
