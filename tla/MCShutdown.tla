----------------------------- MODULE MCShutdown -----------------------------
(***************************************************************************)
(* Two connections with one or two frames each: enough for a connection    *)
(* that registers before stop(), one that is accepted while stop() runs,   *)
(* and readers that meet the closed socket before, in and after recv.      *)
(***************************************************************************)
EXTENDS Shutdown
CONSTANTS c1, c2
=============================================================================
