---------------------------- MODULE MCFrontEnds -----------------------------
(* One agent with two messages; a directory with two executables, of which *)
(* one is configured as well, and a path that leads nowhere.               *)
EXTENDS FrontEnds, TLC

CONSTANTS c1, m1, m2, ida, ida64, dir, nowhere

MCFrom == m1 :> c1 @@ m2 :> c1
MCInside == dir :> <<ida64, ida>>
MCConfigured == <<nowhere, ida>>
MCPlatform == <<dir>>
MCNameRank == ida :> 1 @@ ida64 :> 2 @@ nowhere :> 0
MCArguments == {<<>>, <<ida64>>}
=============================================================================
