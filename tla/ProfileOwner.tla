---------------------------- MODULE ProfileOwner ----------------------------
(***************************************************************************)
(* What the GPCM session table promises, without handlers, locks, objects  *)
(* or sockets: a profile is claimed by at most one connection at a time, a *)
(* connection is online only under a profile it has claimed, and a claimed *)
(* profile never passes to another connection without being released.      *)
(***************************************************************************)

CONSTANTS Conns,      \* connection indexes handed out by the frontend
          Profiles,   \* GameSpy profile ids
          None        \* nobody / nothing

VARIABLES owner,      \* owner[p]: the connection that has claimed profile p
          online      \* online[c]: the profile connection c acts as

vars == <<owner, online>>

Init ==
  /\ owner = [p \in Profiles |-> None]
  /\ online = [c \in Conns |-> None]

Claim(c, p) ==
  /\ owner[p] = None
  /\ owner' = [owner EXCEPT ![p] = c]
  /\ UNCHANGED online

GoOnline(c, p) ==
  /\ owner[p] = c
  /\ online[c] = None
  /\ online' = [online EXCEPT ![c] = p]
  /\ UNCHANGED owner

\* A logout leaves the claim in place.
GoOffline(c) ==
  /\ online' = [online EXCEPT ![c] = None]
  /\ UNCHANGED owner

\* The end of an online connection gives the profile back.
Release(c, p) ==
  /\ online[c] = p
  /\ owner' = [owner EXCEPT ![p] = None]
  /\ online' = [online EXCEPT ![c] = None]

\* A restart from saved state keeps the claims; a connection comes back under
\* a profile it has claimed, or offline.
Restart ==
  /\ online' \in [Conns -> Profiles \cup {None}]
  /\ \A c \in Conns : online'[c] # None => owner[online'[c]] = c
  /\ UNCHANGED owner

\* A restart without saved state forgets everything.
Reset ==
  /\ owner' = [p \in Profiles |-> None]
  /\ online' = [c \in Conns |-> None]

Next ==
  \/ \E c \in Conns, p \in Profiles : Claim(c, p) \/ GoOnline(c, p) \/ Release(c, p)
  \/ \E c \in Conns : GoOffline(c)
  \/ Restart
  \/ Reset

Spec == Init /\ [][Next]_vars
=============================================================================
