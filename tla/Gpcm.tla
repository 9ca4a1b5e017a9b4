-------------------------------- MODULE Gpcm --------------------------------
(***************************************************************************)
(* The session table of the GPCM server (gpcm/main.go, gpcm/login.go) and  *)
(* the life of the connections that feed it (main.go, handleConnection).   *)
(*                                                                         *)
(* The frontend issues at most one RPC per connection at a time            *)
(* (NewConnection, then HandlePacket for each read, then CloseConnection), *)
(* so a connection has one handler in the backend, whose position is pc.   *)
(* Handlers of different connections interleave: the global mutex protects *)
(* the two maps, not the session records.                                  *)
(*                                                                         *)
(* A session is a heap object: the maps hold pointers to it, and saving    *)
(* and reloading the map turns one object reachable under two profiles     *)
(* into two.  The object made by NewConnection(c) is <<c, None>>; the one  *)
(* decoded from the entry of profile p is <<c, p>>.  The first element is  *)
(* its ConnIndex.                                                          *)
(***************************************************************************)
EXTENDS Naturals

CONSTANTS Conns,      \* connection indexes (count in frontendListen, never reused)
          Profiles,   \* GameSpy profile ids
          None,       \* a nil pointer, an absent map entry, profile id 0
          MaxPolls,   \* the 20 of the wait loop in login
          Restarts    \* TRUE: the backend is shut down and started again

Objects == Conns \X (Profiles \cup {None})

ASSUME GpcmAssumption ==
  /\ None \notin Conns
  /\ None \notin Profiles
  /\ None \notin Objects
  /\ MaxPolls \in Nat
  /\ Restarts \in BOOLEAN

VARIABLES
  conn,       \* the frontend's socket and its entry in connections
  pc,         \* where the handler of each connection stands
  polls,      \* i in the wait loop of login
  obj,        \* the heap of GameSpySession objects
  sessions,   \* sessions, by profile id
  byConn      \* sessionsByConnIndex

vars == <<conn, pc, polls, obj, sessions, byConn>>

\* "open": readable; "closing": the socket is shut but the entry of connections
\* is still there; "closed": handleConnection has deleted the entry.
ConnStates == {"unused", "open", "closing", "closed"}

\* "packet": between two commands of the read buffer; "admit", "poll" and
\* "admitted": inside login; "close" and "unlink": inside CloseConnection.
Positions == {"idle", "packet", "admit", "poll", "admitted", "close", "unlink"}

SessionRecord == [profile : Profiles \cup {None}, loggedIn : BOOLEAN]
Blank == [profile |-> None, loggedIn |-> FALSE]

TypeOK ==
  /\ conn \in [Conns -> ConnStates]
  /\ pc \in [Conns -> Positions]
  /\ polls \in [Conns -> 0 .. MaxPolls]
  /\ obj \in [Objects -> SessionRecord]
  /\ sessions \in [Profiles -> Objects \cup {None}]
  /\ byConn \in [Conns -> Objects \cup {None}]

Init ==
  /\ conn = [c \in Conns |-> "unused"]
  /\ pc = [c \in Conns |-> "idle"]
  /\ polls = [c \in Conns |-> 0]
  /\ obj = [o \in Objects |-> Blank]
  /\ sessions = [p \in Profiles |-> None]
  /\ byConn = [c \in Conns |-> None]

LoggedIn(c) == obj[byConn[c]].loggedIn
ProfileOf(c) == obj[byConn[c]].profile

\* common.CloseConnection: the frontend shuts the socket if it still has it.
Shut(connections, c) ==
  IF connections[c] = "open" THEN [connections EXCEPT ![c] = "closing"] ELSE connections

-----------------------------------------------------------------------------
(* The frontend's side of a connection. *)

\* A connection is accepted and announced.  The session is registered only if
\* the login challenge could be sent; otherwise the connection is closed.
NewConnection(c) ==
  /\ conn[c] = "unused"
  /\ \/ /\ conn' = [conn EXCEPT ![c] = "open"]
        /\ byConn' = [byConn EXCEPT ![c] = <<c, None>>]
     \/ /\ conn' = [conn EXCEPT ![c] = "closing"]
        /\ UNCHANGED byConn
  /\ UNCHANGED <<pc, polls, obj, sessions>>

\* The console goes away, or the network does.
PeerClose(c) ==
  /\ conn[c] = "open"
  /\ conn' = Shut(conn, c)
  /\ UNCHANGED <<pc, polls, obj, sessions, byConn>>

\* Mutant: the backend is not told.
FrontendCloseSilent(c) ==
  /\ conn[c] = "closing"
  /\ pc[c] = "idle"
  /\ conn' = [conn EXCEPT ![c] = "closed"]
  /\ UNCHANGED <<pc, polls, obj, sessions, byConn>>

\* The read loop ends, the entry is deleted and CloseConnection is called.
FrontendClose(c) ==
  /\ conn[c] = "closing"
  /\ pc[c] = "idle"
  /\ conn' = [conn EXCEPT ![c] = "closed"]
  /\ pc' = [pc EXCEPT ![c] = "close"]
  /\ UNCHANGED <<polls, obj, sessions, byConn>>

-----------------------------------------------------------------------------
(* HandlePacket: the commands of one read buffer.  An error reply that is    *)
(* fatal shuts the connection, and the loop goes on with the next command.   *)

HandlePacket(c) ==
  /\ conn[c] = "open"
  /\ pc[c] = "idle"
  /\ IF byConn[c] = None
       THEN /\ conn' = Shut(conn, c)
            /\ UNCHANGED pc
       ELSE /\ pc' = [pc EXCEPT ![c] = "packet"]
            /\ UNCHANGED conn
  /\ UNCHANGED <<polls, obj, sessions, byConn>>

PacketDone(c) ==
  /\ pc[c] = "packet"
  /\ pc' = [pc EXCEPT ![c] = "idle"]
  /\ UNCHANGED <<conn, polls, obj, sessions, byConn>>

\* status, addbuddy, delbuddy, authadd, bm, getprofile, updatepro before login.
NotLoggedIn(c) ==
  /\ pc[c] = "packet"
  /\ ~LoggedIn(c)
  /\ conn' = Shut(conn, c)
  /\ UNCHANGED <<pc, polls, obj, sessions, byConn>>

\* A second login, a bad token, unit code or response (the profile is untouched),
\* or a profile the database does not have (GetProfile returns the zero profile).
LoginRefused(c) ==
  /\ pc[c] = "packet"
  /\ conn' = Shut(conn, c)
  /\ \/ UNCHANGED obj
     \/ /\ ~LoggedIn(c)
        /\ obj' = [obj EXCEPT ![byConn[c]].profile = None]
  /\ UNCHANGED <<pc, polls, sessions, byConn>>

\* Mutant: the session is marked as logged in before it has its place in the table.
LoginAcceptedEarly(c, p) ==
  /\ pc[c] = "packet"
  /\ ~LoggedIn(c)
  /\ obj' = [obj EXCEPT ![byConn[c]] = [profile |-> p, loggedIn |-> TRUE]]
  /\ pc' = [pc EXCEPT ![c] = "admit"]
  /\ UNCHANGED <<conn, polls, sessions, byConn>>

\* The credentials are good: the session takes the token's profile.
LoginAccepted(c, p) ==
  /\ pc[c] = "packet"
  /\ ~LoggedIn(c)
  /\ obj' = [obj EXCEPT ![byConn[c]].profile = p]
  /\ pc' = [pc EXCEPT ![c] = "admit"]
  /\ UNCHANGED <<conn, polls, sessions, byConn>>

\* Mutant: the slot is taken without a look at it.
RegisterAnyway(c) ==
  /\ sessions' = [sessions EXCEPT ![ProfileOf(c)] = byConn[c]]
  /\ pc' = [pc EXCEPT ![c] = "admitted"]
  /\ UNCHANGED <<conn, polls, obj, byConn>>

\* Mutant: the slot is taken over from a session that has logged out and is closed.
RegisterOverClosed(c) ==
  /\ LET other == sessions[ProfileOf(c)]
     IN  other # None => ~obj[other].loggedIn /\ conn[other[1]] = "closed"
  /\ sessions' = [sessions EXCEPT ![ProfileOf(c)] = byConn[c]]
  /\ pc' = [pc EXCEPT ![c] = "admitted"]
  /\ UNCHANGED <<conn, polls, obj, byConn>>

\* Under the mutex, with the slot of the profile free: take it.
Register(c) ==
  /\ sessions[ProfileOf(c)] = None
  /\ sessions' = [sessions EXCEPT ![ProfileOf(c)] = byConn[c]]
  /\ pc' = [pc EXCEPT ![c] = "admitted"]
  /\ UNCHANGED <<conn, polls, obj, byConn>>

\* The first look at the table: if the profile has a session, its connection is
\* told that it is disconnected by another login, and the wait begins.
LoginAdmit(c) ==
  /\ pc[c] = "admit"
  /\ \/ Register(c)
     \/ /\ sessions[ProfileOf(c)] # None
        /\ conn' = Shut(conn, sessions[ProfileOf(c)][1])
        /\ pc' = [pc EXCEPT ![c] = "poll"]
        /\ polls' = [polls EXCEPT ![c] = 0]
        /\ UNCHANGED <<obj, sessions, byConn>>

\* Mutant: one round too many.
LoginPollLate(c) ==
  /\ pc[c] = "poll"
  /\ \/ Register(c)
     \/ /\ sessions[ProfileOf(c)] # None
        /\ polls[c] <= MaxPolls
        /\ polls' = [polls EXCEPT ![c] = @ + 1]
        /\ UNCHANGED <<conn, pc, obj, sessions, byConn>>

\* One round of the wait loop, after 300 ms without the mutex.
LoginPoll(c) ==
  /\ pc[c] = "poll"
  /\ \/ Register(c)
     \/ /\ sessions[ProfileOf(c)] # None
        /\ polls[c] < MaxPolls
        /\ polls' = [polls EXCEPT ![c] = @ + 1]
        /\ UNCHANGED <<conn, pc, obj, sessions, byConn>>
     \/ /\ sessions[ProfileOf(c)] # None
        /\ polls[c] >= MaxPolls
        /\ conn' = Shut(conn, c)
        /\ pc' = [pc EXCEPT ![c] = "packet"]
        /\ UNCHANGED <<polls, obj, sessions, byConn>>

\* After the mutex is released the session is marked as logged in.
LoginFinish(c) ==
  /\ pc[c] = "admitted"
  /\ obj' = [obj EXCEPT ![byConn[c]].loggedIn = TRUE]
  /\ pc' = [pc EXCEPT ![c] = "packet"]
  /\ UNCHANGED <<conn, polls, sessions, byConn>>

Logout(c) ==
  /\ pc[c] = "packet"
  /\ obj' = [obj EXCEPT ![byConn[c]].loggedIn = FALSE]
  /\ UNCHANGED <<conn, pc, polls, sessions, byConn>>

-----------------------------------------------------------------------------
(* CloseConnection: look up, tell the friends, then take the mutex again. *)

CloseLookup(c) ==
  /\ pc[c] = "close"
  /\ pc' = [pc EXCEPT ![c] = IF byConn[c] = None THEN "idle" ELSE "unlink"]
  /\ UNCHANGED <<conn, polls, obj, sessions, byConn>>

\* Mutant: the session is marked as logged out and stays in the table.
CloseUnlinkKeeps(c) ==
  /\ pc[c] = "unlink"
  /\ pc' = [pc EXCEPT ![c] = "idle"]
  /\ obj' = [obj EXCEPT ![byConn[c]].loggedIn = FALSE]
  /\ UNCHANGED <<conn, polls, sessions, byConn>>

CloseUnlink(c) ==
  /\ pc[c] = "unlink"
  /\ pc' = [pc EXCEPT ![c] = "idle"]
  /\ \/ /\ LoggedIn(c)
        /\ obj' = [obj EXCEPT ![byConn[c]].loggedIn = FALSE]
        /\ sessions' = [sessions EXCEPT ![ProfileOf(c)] = None]
     \/ /\ ~LoggedIn(c)
        /\ UNCHANGED <<obj, sessions>>
  /\ UNCHANGED <<conn, polls, byConn>>

-----------------------------------------------------------------------------
(* A restart of the backend.  The frontend lets it stop in order only when no  *)
(* RPC is in flight, so every handler is idle.                                 *)

Quiet == \A c \in Conns : pc[c] = "idle"

\* saveState then loadState: only what sessions reaches is saved, entry by entry;
\* sessionsByConnIndex is rebuilt from it in map order.
Reload ==
  /\ Restarts
  /\ Quiet
  /\ sessions' = [p \in Profiles |->
                    IF sessions[p] = None THEN None ELSE <<sessions[p][1], p>>]
  /\ obj' = [o \in Objects |->
               IF \E p \in Profiles : sessions'[p] = o THEN obj[sessions[o[2]]] ELSE Blank]
  /\ byConn' \in [Conns -> Objects \cup {None}]
  /\ \A c \in Conns :
       LET saved == {p \in Profiles : sessions'[p] # None /\ sessions'[p][1] = c}
       IN  IF saved = {} THEN byConn'[c] = None
                         ELSE \E p \in saved : byConn'[c] = sessions'[p]
  /\ UNCHANGED <<conn, pc, polls>>

\* A backend that loads nothing.  Either every connection is gone, because the
\* frontend found another state than the one it expected (VerifyState) or went down
\* with the crashed backend; or, when the frontend runs the backend itself, both
\* have the empty uuid, the backend exits without saving and no socket is touched.
ColdStart ==
  /\ Restarts
  /\ \/ /\ conn' = [c \in Conns |-> IF conn[c] = "unused" THEN "unused" ELSE "closed"]
        /\ pc' = [c \in Conns |-> "idle"]
     \/ /\ Quiet
        /\ UNCHANGED <<conn, pc>>
  /\ obj' = [o \in Objects |-> Blank]
  /\ sessions' = [p \in Profiles |-> None]
  /\ byConn' = [c \in Conns |-> None]
  /\ UNCHANGED polls

-----------------------------------------------------------------------------

\* The steps of the handler of c, in the backend.
Handler(c) ==
  \/ PacketDone(c) \/ NotLoggedIn(c)
  \/ LoginRefused(c) \/ (\E p \in Profiles : LoginAccepted(c, p))
  \/ LoginAdmit(c) \/ LoginPoll(c) \/ LoginFinish(c) \/ Logout(c)
  \/ CloseLookup(c) \/ CloseUnlink(c)

Next ==
  \/ \E c \in Conns : \/ NewConnection(c) \/ PeerClose(c) \/ FrontendClose(c)
                      \/ HandlePacket(c) \/ Handler(c)
  \/ Reload
  \/ ColdStart

\* A handler that has nothing to wait for from outside runs on; a shut socket is
\* noticed by the frontend's blocked read.  Packets and closes need not come.
Progress(c) ==
  \/ PacketDone(c) \/ LoginAdmit(c) \/ LoginPoll(c) \/ LoginFinish(c)
  \/ CloseLookup(c) \/ CloseUnlink(c) \/ FrontendClose(c)

Spec == Init /\ [][Next]_vars
Fairness == \A c \in Conns : WF_vars(Progress(c))

-----------------------------------------------------------------------------
(* Properties. *)

\* The backend still has, or will still get, the CloseConnection of c.
Live(c) == conn[c] \in {"open", "closing"} \/ pc[c] \in {"close", "unlink"}

Online(c) == Live(c) /\ byConn[c] # None /\ LoggedIn(c)

\* A connection that is logged in under a profile is the one the table names for
\* that profile, so that messages to the profile reach it, whatever logins,
\* logouts, forced disconnects and restarts happened before.
OnlineIsRegistered ==
  \A c \in Conns : Online(c) =>
    /\ ProfileOf(c) # None
    /\ sessions[ProfileOf(c)] # None
    /\ sessions[ProfileOf(c)][1] = c

\* Two connections are never logged in under the same profile: login waits until
\* the other session is gone, and looks and registers under one lock.
OneConnectionPerProfile ==
  \A c, d \in Conns :
    Online(c) /\ Online(d) /\ ProfileOf(c) = ProfileOf(d) => c = d

\* Without restarts, a session of the table that is logged in (one that friends
\* see and messages go to) has a connection that has not finished closing.
LoggedInIsLive ==
  ~Restarts => \A p \in Profiles :
    sessions[p] # None /\ obj[sessions[p]].loggedIn => Live(sessions[p][1])

\* The comment in login, "Check to see if a session is already open with this
\* profile ID": an entry of the table stands for an open session.
RegisteredIsOpen ==
  \A p \in Profiles : sessions[p] # None => Live(sessions[p][1])

\* The wait of a login for another session to go away ends: it registers, or it
\* gives up after MaxPolls rounds.
LoginTerminates ==
  \A c \in Conns : pc[c] = "poll" ~> pc[c] # "poll"

\* A logged-in session whose connection is shut, by a forced disconnect or by the
\* console, and whose handler is done, leaves the table.
ShutIsRemoved ==
  \A c \in Conns, p \in Profiles :
    (Online(c) /\ ProfileOf(c) = p /\ conn[c] = "closing" /\ pc[c] = "idle")
      ~> (sessions[p] = None \/ sessions[p][1] # c)

\* The table implements the exclusive ownership of profiles: the owner of a profile
\* is the connection of its entry.
Owner == INSTANCE ProfileOwner WITH
  owner <- [p \in Profiles |-> IF sessions[p] = None THEN None ELSE sessions[p][1]],
  online <- [c \in Conns |-> IF Online(c) THEN ProfileOf(c) ELSE None]

\* Every step of the handlers and of the restarts is a step of ProfileOwner: a
\* profile never passes to another connection without being released.
ImplementsOwner == Owner!Spec
=============================================================================
