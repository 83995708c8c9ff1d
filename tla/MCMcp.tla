------------------------------- MODULE MCMcp -------------------------------
(***************************************************************************)
(* Instance of Mcp for TLC: two servers that share a tool.                 *)
(***************************************************************************)
EXTENDS Mcp

TwoServers == <<"a", "b">>
MCOffers == [s \in {"a", "b"} |-> {"t"}]

Call(server, kind) == [server |-> server, tool |-> "t", kind |-> kind]

MCBatches ==
  {[mode |-> "direct", calls |-> <<Call("b", "good")>>],
   [mode |-> "parallel", calls |-> <<Call("", "good"), Call("a", "odd"), Call("b", "good")>>],
   [mode |-> "sequential", calls |-> <<Call("", "invalid"), Call("", "good")>>],
   [mode |-> "sequential", calls |-> <<Call("b", "blocked"), Call("", "odd")>>]}
=============================================================================
