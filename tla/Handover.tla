------------------------------ MODULE Handover ------------------------------
(***************************************************************************)
(* What a restart of the backend promises, without processes, uuids or     *)
(* files.  Calls enter through a gate.  A shutdown closes it: nobody       *)
(* enters any more, and when the last call has returned it is closed,      *)
(* until the next backend opens it.  A call changes the session of its own *)
(* connection only; whatever else happens, the sessions are handed over as *)
(* they are, or lost altogether, and nothing that was lost comes back.     *)
(* (Sessions are those a server saves: one that has not logged in at gpcm  *)
(* is none.)                                                               *)
(***************************************************************************)

CONSTANT Conns  \* connection indexes

VARIABLES
  gate,      \* "open", "closing" or "closed"
  calls,     \* the connections with a call inside
  sessions   \* the connections that have a session to be handed over

vars == <<gate, calls, sessions>>

\* The frontend starts without a backend.
Init == gate = "closed" /\ calls = {} /\ sessions = {}

Enter(c) ==
  /\ gate = "open"
  /\ calls' = calls \cup {c}
  /\ UNCHANGED <<gate, sessions>>

Return(c) ==
  /\ c \in calls
  /\ calls' = calls \ {c}
  /\ sessions' \in {sessions, sessions \cup {c}, sessions \ {c}}
  /\ UNCHANGED gate

Shut == gate = "open" /\ gate' = "closing" /\ UNCHANGED <<calls, sessions>>

Drained == gate = "closing" /\ calls = {} /\ gate' = "closed" /\ UNCHANGED <<calls, sessions>>

Reopen == gate = "closed" /\ gate' = "open" /\ UNCHANGED <<calls, sessions>>

\* A crash, a backend that does not save, or one that starts without the state.
Lose == sessions' = {} /\ UNCHANGED <<gate, calls>>

\* The frontend is restarted.
Reset == gate' = "closed" /\ calls' = {} /\ sessions' = {}

Next ==
  \/ \E c \in Conns : Enter(c) \/ Return(c)
  \/ Shut \/ Drained \/ Reopen \/ Lose \/ Reset

Spec == Init /\ [][Next]_vars
=============================================================================
