----------------------------- MODULE MCFrontend -----------------------------
(***************************************************************************)
(* Model checking of Frontend in its two deployments: a backend that the   *)
(* operator starts and stops, and one that the frontend starts itself and  *)
(* a program may reload.  (The third, an integrated backend that is never  *)
(* reloaded, behaves like the second until the first reload.)  The first   *)
(* connection is to gpcm, the second to one of the servers.                *)
(***************************************************************************)
EXTENDS Frontend

CONSTANTS c1, c2  \* the connections

To(first, second) == [c \in Conns |-> IF c = c1 THEN first ELSE second]

Split(server) == [integrated |-> FALSE, reloads |-> FALSE, server |-> server]
Reloaded(server) == [integrated |-> TRUE, reloads |-> TRUE, server |-> server]

BothDeployments == {Split(To("gpcm", "gamestats")), Reloaded(To("gpcm", "serverbrowser"))}

SplitOnly == {Split(To("gpcm", "gpcm"))}
=============================================================================
