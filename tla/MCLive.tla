------------------------------- MODULE MCLive -------------------------------
(***************************************************************************)
(* What must eventually happen, in two components that share no state:     *)
(* logins to GPCM end and closed connections are forgotten (the variables  *)
(* of Gpcm), and consoles are introduced to each other (Natneg, with       *)
(* variables n_...).  A behaviour is one of the component that is chosen   *)
(* at its start; the fairness is that of each component.                   *)
(***************************************************************************)
EXTENDS Gpcm

CONSTANTS n1, n2, g1, ok

VARIABLES
  component,
  n_current, n_created, n_open, n_clients, n_timer, n_work, n_senders, n_revived, n_got

\* Two orderly consoles of one game; one session, two packets at a time, restarts.
N == INSTANCE Natneg WITH
       Clients <- {n1, n2}, Consoles <- {n1, n2}, Games <- {g1}, Results <- {ok}, Kinds <- {"init", "ack", "report"},
       GamePorts <- {FALSE}, Orderly <- {n1, n2}, Restarts <- TRUE, MaxSessions <- 1, MaxPackets <- 2,
       current <- n_current, created <- n_created, open <- n_open, clients <- n_clients, timer <- n_timer,
       work <- n_work, senders <- n_senders, revived <- n_revived, got <- n_got

natnegVars == <<n_current, n_created, n_open, n_clients, n_timer, n_work, n_senders, n_revived, n_got>>

LiveInit == component \in {"gpcm", "natneg"} /\ Init /\ N!Init

LiveNext ==
  /\ UNCHANGED component
  /\ \/ component = "gpcm" /\ Next /\ UNCHANGED natnegVars
     \/ component = "natneg" /\ N!Next /\ UNCHANGED vars

LiveSpec ==
  /\ LiveInit /\ [][LiveNext]_<<component, vars, natnegVars>>
  /\ Fairness /\ N!Fairness

\* Whoever waits for a session to go away does not wait for ever (gpcm/login.go), and the session of a connection that
\* was shut does go away (gpcm/main.go, CloseConnection): see LoginTerminates and ShutIsRemoved.
WaitsEnd == LoginTerminates /\ ShutIsRemoved

\* Two consoles that have told their addresses are introduced to each other (natneg/init.go): see Natneg.
AllNegotiated == N!AllNegotiated
=============================================================================
