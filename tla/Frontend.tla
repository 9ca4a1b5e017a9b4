------------------------------ MODULE Frontend ------------------------------
(***************************************************************************)
(* The two processes of the server (main.go, common/connection.go).  The   *)
(* frontend owns the sockets and forwards what happens on them to the      *)
(* backend, which owns the sessions; the backend calls back to write to a  *)
(* socket or to close it.  rpcMutex is held from a shutdown of the backend *)
(* until its successor is ready; rpcBusyCount counts the calls in flight.  *)
(*                                                                         *)
(* Of the sessions this module keeps what a restart does to them: gpcm     *)
(* writes those that logged in, gamestats and serverbrowser all they have. *)
(* Critical sections that do not wait are single steps.                    *)
(***************************************************************************)
EXTENDS Naturals

CONSTANTS Conns,        \* connection indexes
          Deployments,  \* how the frontend may have been started: see deployment
          Disciplined,  \* the operator's backend starts: see MayStart
          MaxRestarts   \* bound on the number of shutdowns of the backend; the frontend is not
                        \* restarted after the last of them

\* gpsp, which keeps nothing of a connection, is left out.
Servers == {"gpcm", "gamestats", "serverbrowser"}

ASSUME FrontendAssumption ==
  /\ Deployments \subseteq [integrated : BOOLEAN, reloads : BOOLEAN, server : [Conns -> Servers]]
  /\ Disciplined \in BOOLEAN
  /\ MaxRestarts \in Nat

VARIABLES
  deployment, \* of the two processes, and the server each connection is to: never changes
  sock,       \* the TCP sockets
  hc,         \* where the handleConnection of each connection stands
  entry,      \* connections: the indexes the frontend has an entry for
  callback,   \* c is in callback while its handler waits for the frontend
  locked,     \* rpcMutex is held by a shutdown or a start
  req,        \* the shutdown under way
  waiters,    \* number of waitForBackend waiting for Ready
  announced,  \* backendReady is closed and nobody has heard it yet
  dialing,    \* number of waitForBackend that have, and dial until a backend answers
  client,     \* rpcClient is connected to the backend that runs
  fuuid,      \* frontendUuid; 0 is the empty string
  fe,         \* "up", or "dead": fatal error in the frontend
  backend,    \* where the backend process stands
  buuid,      \* the uuid the backend presents, and later the one it saves under
  fresh,      \* gpcm connections with a session that has not logged in: never saved
  online,     \* connections whose session is saved, and removed when they end
  stale,      \* gpcm connections whose logged-out session stays in the saved table
  joined,     \* ghost: connections that have a session as their consoles see it
  trusted,    \* ghost: online comes from complete saves only
  disk,       \* the state directory
  uuids       \* number of uuids drawn

connVars == <<sock, hc, entry, callback>>
waitVars == <<waiters, announced, dialing>>
feVars == <<deployment, locked, req, waitVars, fuuid, fe>>
tables == <<fresh, online, stale>>
beVars == <<backend, buuid, tables, joined, trusted, disk>>
vars == <<connVars, feVars, client, beVars, uuids>>

\* Whether the frontend starts the backend itself, and whether an external program may
\* call ReloadBackend.
Integrated == deployment.integrated
Reloads == deployment.reloads
Server == deployment.server

\* "accepted", "forward", "failed" and "ending" wait for rpcMutex; "new", "packet"
\* and "close" have an RPC in flight.
Positions == {"none", "accepted", "new", "failed", "reading", "forward", "packet",
              "ending", "close", "done"}
InFlight == {"new", "packet", "close"}

\* "starting": listening, not verified; "verified": the servers load and start;
\* "stopping": told to shut down; "saved": the servers have saved, uuid.txt is old.
BackendStates == {"off", "starting", "verified", "up", "stopping", "saved"}

Uuids == 0 .. MaxRestarts

TypeOK ==
  /\ deployment \in Deployments
  /\ sock \in [Conns -> {"unused", "open", "shut"}]
  /\ hc \in [Conns -> Positions]
  /\ entry \subseteq Conns
  /\ callback \subseteq Conns
  /\ locked \in BOOLEAN
  /\ req \in {"none", "shutdown", "reload", "restart"}
  /\ waiters \in 0 .. 2
  /\ announced \in BOOLEAN
  /\ dialing \in 0 .. 2
  /\ client \in BOOLEAN
  /\ fuuid \in Uuids
  /\ fe \in {"up", "dead"}
  /\ backend \in BackendStates
  /\ buuid \in Uuids
  /\ fresh \subseteq Conns /\ online \subseteq Conns /\ stale \subseteq Conns
  /\ joined \subseteq Conns
  /\ trusted \in BOOLEAN
  /\ disk \in [online : SUBSET Conns, stale : SUBSET Conns, uuid : Uuids, complete : BOOLEAN]
  /\ uuids \in Uuids

\* frontendMain: rpcMutex is taken before anything else, and a waitForBackend is
\* left to release it.  The integrated backend is started with --noreload.
FirstBackend == IF Integrated THEN "starting" ELSE "off"

Init ==
  /\ deployment \in Deployments
  /\ sock = [c \in Conns |-> "unused"]
  /\ hc = [c \in Conns |-> "none"]
  /\ entry = {} /\ callback = {}
  /\ locked = TRUE /\ req = "none" /\ client = FALSE
  /\ waiters = 1 /\ announced = FALSE /\ dialing = 0
  /\ fuuid = 0 /\ fe = "up"
  /\ backend = FirstBackend /\ buuid = 0
  /\ fresh = {} /\ online = {} /\ stale = {} /\ joined = {} /\ trusted = TRUE
  /\ disk = [online |-> {}, stale |-> {}, uuid |-> 0, complete |-> TRUE]
  /\ uuids = 0

Busy == {c \in Conns : hc[c] \in InFlight}

\* The memory of a backend that has ended, or starts without the saved state.
EmptyTables == fresh' = {} /\ online' = {} /\ stale' = {} /\ trusted' = TRUE

-----------------------------------------------------------------------------
(* handleConnection *)

Goto(c, position) == hc' = [hc EXCEPT ![c] = position]

\* handleConnection returns, and its deferred Close shuts the socket.
Finish(c) ==
  /\ Goto(c, "done")
  /\ sock' = [sock EXCEPT ![c] = "shut"]

Accept(c) ==
  /\ hc[c] = "none"
  /\ sock' = [sock EXCEPT ![c] = "open"]
  /\ Goto(c, "accepted")
  /\ UNCHANGED <<entry, callback, client, uuids, feVars, beVars>>

\* The console goes away, or sends something.
PeerClose(c) ==
  /\ sock[c] = "open"
  /\ sock' = [sock EXCEPT ![c] = "shut"]
  /\ UNCHANGED <<hc, entry, callback, client, uuids, feVars, beVars>>

\* Mutant: whatever the error, the read is tried again.
ReadRetries(c) ==
  /\ hc[c] = "reading"
  /\ sock[c] = "open"
  /\ Goto(c, "forward")
  /\ UNCHANGED <<sock, entry, callback, client, uuids, feVars, beVars>>

Read(c) ==
  /\ hc[c] = "reading"
  /\ \/ sock[c] = "open" /\ Goto(c, "forward")
     \/ sock[c] = "shut" /\ Goto(c, "ending")
  /\ UNCHANGED <<sock, entry, callback, client, uuids, feVars, beVars>>

\* Mutant: the end of a connection is reported without waiting for rpcMutex.
BeginCallUnlocked(c) ==
  /\ ~locked \/ hc[c] = "ending"
  /\ \/ /\ hc[c] = "accepted"
        /\ entry' = entry \cup {c}
        /\ Goto(c, "new")
        /\ UNCHANGED sock
     \/ /\ hc[c] = "forward"
        /\ Goto(c, "packet")
        /\ UNCHANGED <<sock, entry>>
     \/ /\ hc[c] = "ending"
        /\ IF c \in entry THEN Goto(c, "close") /\ UNCHANGED sock ELSE Finish(c)
        /\ entry' = entry \ {c}
     \/ /\ hc[c] = "failed"
        /\ entry' = entry \ {c}
        /\ Finish(c)
  /\ UNCHANGED <<callback, client, uuids, feVars, beVars>>

\* Under rpcMutex the call is counted in rpcBusyCount, and the entry is made or
\* deleted.  A connection whose entry VerifyState has deleted just ends.
BeginCall(c) ==
  /\ ~locked
  /\ \/ /\ hc[c] = "accepted"
        /\ entry' = entry \cup {c}
        /\ Goto(c, "new")
        /\ UNCHANGED sock
     \/ /\ hc[c] = "forward"
        /\ Goto(c, "packet")
        /\ UNCHANGED <<sock, entry>>
     \/ /\ hc[c] = "ending"
        /\ IF c \in entry THEN Goto(c, "close") /\ UNCHANGED sock ELSE Finish(c)
        /\ entry' = entry \ {c}
     \/ /\ hc[c] = "failed"
        /\ entry' = entry \ {c}
        /\ Finish(c)
  /\ UNCHANGED <<callback, client, uuids, feVars, beVars>>

\* The backend listens from its start and serves once its servers have started.
Serving == client /\ backend \in {"up", "stopping", "saved"}

\* gpcm asks the frontend to close a connection: one whose login challenge cannot be
\* sent, or one that sends a packet and has no session.
Refuse(c) ==
  /\ ~locked
  /\ sock' = [sock EXCEPT ![c] = "shut"]
  /\ UNCHANGED <<tables, joined>>

Join(c) ==
  /\ online' = online \cup {c}
  /\ joined' = joined \cup {c}
  /\ fresh' = fresh \ {c}
  /\ UNCHANGED stale

\* gpcm's logout only marks the session.
Logout(c) ==
  /\ online' = online \ {c}
  /\ joined' = joined \ {c}
  /\ stale' = stale \cup {c}
  /\ UNCHANGED fresh

\* NewConnection: gamestats registers a session at once, gpcm makes one that login will
\* register, serverbrowser does nothing.
Greet(c) ==
  \/ Server[c] = "gamestats" /\ Join(c) /\ UNCHANGED sock
  \/ Server[c] = "gpcm" /\ fresh' = fresh \cup {c} /\ UNCHANGED <<online, stale, joined, sock>>
  \/ Server[c] = "gpcm" /\ Refuse(c)
  \/ Server[c] = "serverbrowser" /\ UNCHANGED <<tables, joined, sock>>

\* HandlePacket: what logs in or out at gpcm, or leaves part of a message at serverbrowser
\* (whose buffer then stays); anything else.
HandlePacket(c) ==
  IF Server[c] = "gpcm" /\ c \notin fresh \cup online \cup stale
  THEN Refuse(c)
  ELSE /\ \/ Server[c] = "gpcm" /\ c \notin online /\ Join(c)
          \/ Server[c] = "gpcm" /\ c \in online /\ Logout(c)
          \/ Server[c] = "serverbrowser" /\ Join(c)
          \/ UNCHANGED <<tables, joined>>
       /\ UNCHANGED sock

\* CloseConnection: gpcm removes a session only if it is logged in.  (What it keeps by
\* the index of the connection, which is never used again, is left out.)
Forget(c) ==
  /\ online' = online \ {c}
  /\ joined' = joined \ {c}
  /\ fresh' = fresh \ {c}
  /\ UNCHANGED stale

\* The handler in the backend returns.
EndCall(c) ==
  /\ Serving
  /\ c \notin callback
  /\ \/ hc[c] = "new" /\ Greet(c) /\ Goto(c, "reading")
     \/ hc[c] = "packet" /\ HandlePacket(c) /\ Goto(c, "reading")
     \/ hc[c] = "close" /\ Forget(c) /\ Finish(c)
  /\ UNCHANGED <<entry, callback, client, uuids, feVars, backend, buuid, trusted, disk>>

\* The backend is gone.  A call on a connection known to be broken (ErrShutdown)
\* ends the frontend instead: FrontendRestart.
CallFails(c) ==
  /\ ~client
  /\ \/ hc[c] = "new" /\ Goto(c, "failed") /\ UNCHANGED sock
     \/ hc[c] = "packet" /\ Goto(c, "ending") /\ UNCHANGED sock
     \/ hc[c] = "close" /\ Finish(c)
  /\ UNCHANGED <<entry, callback, client, uuids, feVars, beVars>>

\* The handler of c calls SendPacket or CloseConnection and waits for the answer.
CallFrontend(c) ==
  /\ Serving
  /\ hc[c] \in InFlight
  /\ callback' = callback \cup {c}
  /\ UNCHANGED <<sock, hc, entry, client, uuids, feVars, beVars>>

\* RPCFrontendPacket.SendPacket, or CloseConnection of any connection d: a bad index
\* is an error the handlers only log.
FrontendServes(c) ==
  /\ c \in callback
  /\ ~locked
  /\ callback' = callback \ {c}
  /\ \/ UNCHANGED sock
     \/ \E d \in entry : sock[d] = "open" /\ sock' = [sock EXCEPT ![d] = "shut"]
  /\ UNCHANGED <<hc, entry, client, uuids, feVars, beVars>>

-----------------------------------------------------------------------------
(* Shutting down the backend *)

\* ShutdownBackend, called by a backend that got a signal (not when integrated:
\* --nosignal), or by ReloadBackend: the mutex is locked "indefinitely".
ShutdownBackend(who) ==
  /\ ~locked
  /\ uuids < MaxRestarts
  /\ \/ who = "shutdown" /\ backend = "up" /\ ~Integrated
     \/ who = "reload" /\ Reloads
  /\ locked' = TRUE
  /\ req' = who
  /\ UNCHANGED <<deployment, connVars, waitVars, client, fuuid, fe, beVars, uuids>>

\* Mutant: the calls in flight are waited for only if the backend is integrated.
GrantedAtOnce ==
  /\ req \in {"shutdown", "reload"}
  /\ Integrated => Busy = {}
  /\ IF Integrated
       THEN fuuid' = fuuid /\ buuid' = 0 /\ waiters' = waiters
       ELSE fuuid' = uuids + 1 /\ buuid' = uuids + 1 /\ waiters' = waiters + 1
  /\ uuids' = uuids + 1
  /\ req' = IF req = "reload" THEN "restart" ELSE "none"
  /\ backend' = IF backend = "up" THEN "stopping" ELSE backend
  /\ UNCHANGED <<deployment, connVars, locked, announced, dialing, client, fe, tables, joined,
                 trusted, disk>>

\* Mutant: one waitForBackend too many is left behind.
GrantedTwice ==
  /\ req \in {"shutdown", "reload"}
  /\ Busy = {}
  /\ IF Integrated
       THEN fuuid' = fuuid /\ buuid' = 0 /\ waiters' = waiters
       ELSE fuuid' = uuids + 1 /\ buuid' = uuids + 1 /\ waiters' = waiters + 2
  /\ uuids' = uuids + 1
  /\ req' = IF req = "reload" THEN "restart" ELSE "none"
  /\ backend' = IF backend = "up" THEN "stopping" ELSE backend
  /\ UNCHANGED <<deployment, connVars, locked, announced, dialing, client, fe, tables, joined,
                 trusted, disk>>

\* rpcBusyCount.Wait() is over: a new uuid, and somebody to wait for the successor;
\* neither when integrated.  ReloadBackend then calls RPCPacket.Shutdown.
Granted ==
  /\ req \in {"shutdown", "reload"}
  /\ Busy = {}
  /\ IF Integrated
       THEN fuuid' = fuuid /\ buuid' = 0 /\ waiters' = waiters
       ELSE fuuid' = uuids + 1 /\ buuid' = uuids + 1 /\ waiters' = waiters + 1
  /\ uuids' = uuids + 1
  /\ req' = IF req = "reload" THEN "restart" ELSE "none"
  /\ backend' = IF backend = "up" THEN "stopping" ELSE backend
  /\ UNCHANGED <<deployment, connVars, locked, announced, dialing, client, fe, tables, joined,
                 trusted, disk>>

\* RPCPacket.Shutdown: with an empty uuid the process exits at once; otherwise every
\* server saves its state.  gpcm, which saves the sessions that have logged in, only logs
\* that it could not, and leaves the file of an earlier save, or part of one; the others
\* panic, which is a Crash.
Save ==
  /\ backend = "stopping"
  /\ IF buuid = 0
       THEN /\ backend' = "off"
            /\ client' = FALSE
            /\ EmptyTables
            /\ UNCHANGED disk
       ELSE /\ backend' = "saved"
            /\ \/ disk' = [disk EXCEPT !.online = online, !.stale = stale, !.complete = trusted]
               \/ disk' = [disk EXCEPT !.complete = FALSE, !.online =
                             {c \in Conns : c \in IF Server[c] = "gpcm" THEN @ ELSE online}]
            /\ UNCHANGED <<client, tables, trusted>>
  /\ UNCHANGED <<connVars, uuids, feVars, buuid, joined>>

WriteUuid ==
  /\ backend = "saved"
  /\ disk' = [disk EXCEPT !.uuid = buuid]
  /\ backend' = "off"
  /\ client' = FALSE
  /\ EmptyTables
  /\ UNCHANGED <<connVars, uuids, feVars, buuid, joined>>

\* Mutant: the frontend answers every crash by waiting for another backend.
CrashWaits ==
  /\ backend # "off"
  /\ backend' = "off"
  /\ client' = FALSE
  /\ callback' = {}
  /\ EmptyTables
  /\ waiters' = waiters + 1
  /\ UNCHANGED <<deployment, sock, hc, entry, uuids, locked, req, announced, dialing, fuuid, fe,
                 buuid, joined, disk>>

\* The backend dies, at any moment; what its handlers were waiting for is void.
Crash ==
  /\ backend # "off"
  /\ backend' = "off"
  /\ client' = FALSE
  /\ callback' = {}
  /\ EmptyTables
  /\ UNCHANGED <<sock, hc, entry, uuids, feVars, buuid, joined, disk>>

-----------------------------------------------------------------------------
(* Starting it *)

\* A disciplined operator starts a backend only when no shutdown is still waiting,
\* does not retry without --noreload what failed to start with it (the frontend keeps
\* frontendUuid when it resets the connections, and would accept the state saved before
\* the reset), and restarts the frontend too when a backend dies before it is connected
\* to: the waitForBackend that has heard its Ready would connect to the next one early.
MayStart(uuid) ==
  Disciplined => /\ req = "none"
                 /\ buuid = 0 /\ fuuid # 0 => uuid = 0
                 /\ ~announced /\ dialing = 0

\* backendMain up to loadUuidFile.  A second backend cannot listen.  Started by hand,
\* with or without --noreload, or by ReloadBackend, which waits for it too.
StartBackend ==
  /\ backend = "off"
  /\ \/ /\ req = "restart"
        /\ buuid' = disk.uuid
        /\ waiters' = waiters + 1
        /\ req' = "none"
     \/ /\ ~Integrated
        /\ req # "restart"
        /\ \E uuid \in {0, disk.uuid} : MayStart(uuid) /\ buuid' = uuid
        /\ UNCHANGED <<waiters, req>>
  /\ backend' = "starting"
  /\ UNCHANGED <<deployment, connVars, locked, announced, dialing, client, fuuid, fe, tables,
                 joined, trusted, disk, uuids>>

\* What the servers find in the state directory.
LoadState ==
  /\ fresh' = {} /\ online' = disk.online /\ stale' = disk.stale /\ trusted' = disk.complete

\* Mutant: the servers load whatever is on disk, without asking whether the frontend
\* still has the connections.
VerifyStateIgnored ==
  /\ backend = "starting"
  /\ locked
  /\ IF buuid # fuuid
       THEN /\ sock' = [c \in Conns |-> IF c \in entry THEN "shut" ELSE sock[c]]
            /\ entry' = {}
       ELSE UNCHANGED <<sock, entry>>
  /\ LoadState
  /\ backend' = "verified"
  /\ UNCHANGED <<hc, callback, client, feVars, buuid, joined, disk, uuids>>

\* Mutant: nothing is loaded although the frontend kept the connections.
VerifyStateUnloaded ==
  /\ backend = "starting"
  /\ locked
  /\ IF buuid # fuuid
       THEN /\ sock' = [c \in Conns |-> IF c \in entry THEN "shut" ELSE sock[c]]
            /\ entry' = {}
       ELSE UNCHANGED <<sock, entry>>
  /\ EmptyTables
  /\ backend' = "verified"
  /\ UNCHANGED <<hc, callback, client, feVars, buuid, joined, disk, uuids>>

\* VerifyState, then the loadState of each server; gpcm exits if part of its file is missing.
\* If the mutex is free another backend is active: ErrorBusy, and backendMain panics.
VerifyState ==
  /\ backend = "starting"
  /\ \/ /\ ~locked \/ (buuid = fuuid /\ buuid # 0 /\ ~disk.complete)
        /\ backend' = "off"
        /\ client' = FALSE
        /\ EmptyTables
        /\ UNCHANGED <<sock, entry>>
     \/ /\ locked
        /\ buuid # fuuid
        /\ sock' = [c \in Conns |-> IF c \in entry THEN "shut" ELSE sock[c]]
        /\ entry' = {}
        /\ EmptyTables
        /\ backend' = "verified"
        /\ UNCHANGED client
     \/ /\ locked
        /\ buuid = fuuid
        /\ IF buuid # 0 THEN LoadState ELSE EmptyTables
        /\ backend' = "verified"
        /\ UNCHANGED <<sock, entry, client>>
  /\ UNCHANGED <<hc, callback, feVars, buuid, joined, disk, uuids>>

\* RPCFrontendPacket.Ready closes backendReady; closing it twice panics.
Ready ==
  /\ backend = "verified"
  /\ backend' = "up"
  /\ announced' = TRUE
  /\ fe' = IF announced THEN "dead" ELSE fe
  /\ UNCHANGED <<deployment, connVars, locked, req, waiters, dialing, client, fuuid, buuid, tables,
                 joined, trusted, disk, uuids>>

\* Every waitForBackend goes on, with a new channel made for the next.
Hear ==
  /\ announced
  /\ waiters > 0
  /\ announced' = FALSE
  /\ waiters' = 0
  /\ dialing' = dialing + waiters
  /\ UNCHANGED <<deployment, connVars, locked, req, client, fuuid, fe, beVars, uuids>>

\* It dials until a backend answers, whichever that is, and unlocks rpcMutex: a second
\* unlock is a fatal error.
Connect ==
  /\ dialing > 0
  /\ backend # "off"
  /\ dialing' = dialing - 1
  /\ client' = TRUE
  /\ locked' = FALSE
  /\ fe' = IF locked THEN fe ELSE "dead"
  /\ UNCHANGED <<deployment, connVars, req, waiters, announced, fuuid, beVars, uuids>>

\* The frontend ends, on a signal or on ErrShutdown, and with it the backend, which
\* does not save; it is started again with the same state directory, and counts
\* connections from the start.
FrontendRestart ==
  /\ uuids < MaxRestarts
  /\ sock' = [c \in Conns |-> "unused"]
  /\ hc' = [c \in Conns |-> "none"]
  /\ entry' = {} /\ callback' = {}
  /\ locked' = TRUE /\ req' = "none" /\ client' = FALSE
  /\ waiters' = 1 /\ announced' = FALSE /\ dialing' = 0
  /\ fuuid' = 0 /\ fe' = "up"
  /\ backend' = FirstBackend /\ buuid' = 0
  /\ EmptyTables
  /\ joined' = {}
  /\ UNCHANGED <<deployment, disk, uuids>>

-----------------------------------------------------------------------------

ConnStep(c) ==
  \/ Accept(c) \/ PeerClose(c) \/ Read(c) \/ BeginCall(c) \/ EndCall(c) \/ CallFails(c)
  \/ CallFrontend(c) \/ FrontendServes(c)

BackendStep ==
  \/ ShutdownBackend("shutdown") \/ ShutdownBackend("reload") \/ Granted
  \/ Save \/ WriteUuid \/ Crash \/ StartBackend \/ VerifyState \/ Ready \/ Hear \/ Connect

Next ==
  \/ fe = "up" /\ ((\E c \in Conns : ConnStep(c)) \/ BackendStep)
  \/ FrontendRestart

Spec == Init /\ [][Next]_vars

\* Goroutines that can run do; a handler calls back finitely often (strong fairness of
\* its return), and a socket that is shut is noticed by the blocked read.
Progress(c) == BeginCall(c) \/ CallFails(c) \/ FrontendServes(c)

Fairness ==
  /\ \A c \in Conns : /\ WF_vars(fe = "up" /\ Progress(c))
                      /\ WF_vars(fe = "up" /\ Read(c))
                      /\ SF_vars(fe = "up" /\ EndCall(c))
  /\ WF_vars(fe = "up" /\ (\/ Granted \/ Save \/ WriteUuid
                            \/ VerifyState \/ Ready \/ Hear \/ Connect))

FairSpec == Spec /\ Fairness

-----------------------------------------------------------------------------
(* Properties *)

\* The state is saved while nothing changes it: no call of the frontend is in flight
\* while the old backend stops and saves, nor while its successor loads.
Quiesced ==
  backend \in {"stopping", "saved", "verified"} => Busy = {}

\* serverbrowser takes a packet of any connection, also of one whose entry VerifyState has
\* deleted after the packet was read: that buffer stays, as nobody reports its end.
Announced == {c \in Conns : Server[c] # "serverbrowser"}

\* A backend never has a live session of gpcm or gamestats for a connection that no longer
\* exists: the frontend still has the entry, or its CloseConnection is on the way.
\* Connections that end while the backend is away are reported to its successor, and an old
\* state directory is never taken for the current one.  (The sessions that logged out are
\* those that stay: RegisteredIsOpen of Gpcm.)
NoOrphan ==
  backend \in {"verified", "up"} /\ trusted =>
    \A c \in online \cap Announced : c \in entry \/ hc[c] = "close"

\* The comment in main, "to allow restarting the backend without closing all
\* connections": whatever connection has survived, if its console had a session (was logged
\* in at gpcm, connected to gamestats, in the middle of a message to serverbrowser) it has
\* one in the new backend, and with it the right to go on.  A gpcm connection that had not
\* logged in has none, and is closed at its next packet.  (An integrated backend exits
\* without saving: ReloadBackend loses every session.)
NoStranger ==
  ~Integrated /\ backend \in {"verified", "up"} /\ trusted /\ fe = "up" =>
    entry \cap joined \subseteq online

\* "Expects the RPC mutex to be locked" (waitForBackend): it is, when Ready comes.
UnlockExpectsLocked == fe # "dead"

\* "prepare for shutdown" (ShutdownBackend): a shutdown that is asked for is granted.
ShutdownIsGranted == req \in {"shutdown", "reload"} ~> req \notin {"shutdown", "reload"}

\* The end of a socket reaches gpcm or gamestats, if it lives and nobody has asked it to shut
\* down: the session goes away, whatever the handler of the connection is doing at the
\* time and whatever restarts with complete saves went before.
CloseIsReported ==
  \A c \in Conns :
    (c \in online \cap Announced /\ trusted /\ sock[c] = "shut")
      ~> (c \notin online \/ backend # "up" \/ req # "none")

\* The state directory holds what a backend started under the current uuid would load.
Loadable == locked /\ req = "none" /\ fuuid # 0 /\ buuid # 0 /\ disk.complete

\* The live sessions that are saved, wherever they are: in the memory of the backend, or in
\* the state directory on their way to the next one.
Held ==
  IF backend \in {"off", "starting"}
  THEN IF Loadable /\ disk.uuid = fuuid THEN disk.online ELSE {}
  ELSE IF trusted THEN online ELSE {}

\* rpcMutex is the gate, and closing while rpcBusyCount is waited for.
Gate == IF ~locked THEN "open" ELSE IF req \in {"shutdown", "reload"} THEN "closing" ELSE "closed"

Restarts == INSTANCE Handover WITH gate <- Gate, calls <- Busy, sessions <- Held

\* Every step of the two processes is a step of Handover: no call begins from the moment a
\* shutdown has taken rpcMutex until the next backend is connected to, and through shutdown,
\* save, crash, start and verification the sessions that had logged in (at gpcm; all of the
\* other servers) stay as they are, or are lost as a whole; those of an old state directory
\* never come back.
ImplementsHandover == Restarts!Spec
=============================================================================
