----------------------------- MODULE Gamestats -----------------------------
(***************************************************************************)
(* The gamestats server (gamestats/main.go, auth.go, persistdata.go) with  *)
(* the data it keeps for the games (database/gamestats.go, schema.sql),    *)
(* and its part in the exchange of the backend (main.go), as far as rpcMutex *)
(* of the frontend goes: it is held from the shutdown of the old backend   *)
(* until the new one is ready.                                             *)
(*                                                                         *)
(* An action is the handler of one command, with the commands before it in *)
(* the same packet already handled.  A fatal error shuts the socket, and   *)
(* the commands after it are still executed: sessions, not sockets, decide *)
(* what may run.                                                           *)
(***************************************************************************)
EXTENDS Naturals

CONSTANTS
  Conns,       \* connection indexes
  ProfileIDs,  \* rows of table profiles, positive numbers
  Games,       \* the game list
  DataTypes,   \* values of ptype, of 0 .. 3
  Indexes,     \* values of dindex
  MaxReloads   \* bound on the exchanges of the backend

VARIABLES
  sessions,    \* sessionsByConnIndex, of the running backend or saved in gstats_sessions.gob
  open,        \* the connections whose sockets are open
  backend,     \* "up", or "loading": StartServer(reload) runs in a new process
  loaded,      \* the sessions StartServer is done with
  rpcMutex,    \* "free" or "held", in the frontend
  persist,     \* table gamestats_persistdata: a function from the keys in use to text
  reloads      \* counts the exchanges of the backend

gsVars == <<sessions, open, backend, loaded, rpcMutex, persist, reloads>>

PrivateReadWrite == 1
PublicReadWrite == 3

\* game is "" before auth.  Ghosts: old, if the session came through a reload; shown, the profiles whose
\* tokens it was shown.
Sessions == [game : Games \cup {""}, authenticated : BOOLEAN, profile : ProfileIDs \cup {0},
             old : BOOLEAN, shown : SUBSET ProfileIDs]

NewSession == [game |-> "", authenticated |-> FALSE, profile |-> 0, old |-> FALSE, shown |-> {}]

With(f, k, v) == [x \in DOMAIN f \cup {k} |-> IF x = k THEN v ELSE f[x]]
Without(f, k) == [x \in DOMAIN f \ {k} |-> f[x]]

StatsInit ==
  /\ sessions = [c \in {} |-> NewSession]
  /\ open = {}
  /\ backend = "up" /\ loaded = {} /\ rpcMutex = "free"
  /\ persist = [k \in {} |-> <<>>]
  /\ reloads = 0

-----------------------------------------------------------------------------
(* Connections *)

\* An index is used once: c stands for many connections, one after the other.
NewConnection(c) ==
  /\ backend = "up"
  /\ c \notin DOMAIN sessions /\ c \notin open
  /\ sessions' = With(sessions, c, NewSession)
  /\ open' = open \cup {c}
  /\ UNCHANGED <<backend, loaded, rpcMutex, persist, reloads>>

\* The console goes away, at any time.
Disconnect(c) ==
  /\ c \in open
  /\ open' = open \ {c}
  /\ UNCHANGED <<sessions, backend, loaded, rpcMutex, persist, reloads>>

\* The frontend has noticed, and calls.
CloseConnection(c) ==
  /\ backend = "up"
  /\ c \in DOMAIN sessions \ open
  /\ sessions' = Without(sessions, c)
  /\ UNCHANGED <<open, backend, loaded, rpcMutex, persist, reloads>>

Handles(c) == backend = "up" /\ c \in DOMAIN sessions

\* replyError: the frontend closes the socket.
ReplyError(c) == open' = open \ {c}

-----------------------------------------------------------------------------
(* Commands *)

\* An unknown game or a wrong response is a fatal error; a session may change its game.
Auth(c, game, proven) ==
  /\ Handles(c)
  /\ IF game \in Games /\ proven
     THEN sessions' = [sessions EXCEPT ![c].game = game] /\ UNCHANGED open
     ELSE ReplyError(c) /\ UNCHANGED sessions
  /\ UNCHANGED <<backend, loaded, rpcMutex, persist, reloads>>

\* A token that decodes, for the profile pid: that need not be there (a token of a login without gsbrcd has
\* 0), or the query may fail.  Then Profile is zero, and Authenticated stays what it was.  auth need not
\* have come before.
AuthProfile(c, pid) ==
  /\ Handles(c)
  /\ LET s == [sessions EXCEPT ![c].shown = @ \cup ({pid} \cap ProfileIDs)]
     IN \/ /\ pid \in ProfileIDs
           /\ sessions' = [s EXCEPT ![c].profile = pid, ![c].authenticated = TRUE]
        \/ sessions' = [s EXCEPT ![c].profile = 0]
  /\ UNCHANGED <<open, backend, loaded, rpcMutex, persist, reloads>>

\* What Unmarshal gives for a field marked raw: the text of the message before the field, not the field.
\* That text holds the other fields of the request, and also reads as key-value pairs.
Raw(req) == <<"head", req.pid, req.ptype, req.dindex>>

\* The requests of setpd and getpd.  What the game sends as data makes
\* no difference to what is stored, see Raw, nor does kv, see SetPersistData.
PersistRequests == [pid : ProfileIDs \cup {0}, ptype : DataTypes, dindex : Indexes]

Key(req) == <<req.pid, req.ptype, req.dindex>>

\* INSERT ... ON DUPLICATE KEY UPDATE.
SetGameStatsPersistData(key, data) == persist' = With(persist, key, data)

\* No row is no data.
GetGameStatsPersistData(key) == IF key \in DOMAIN persist THEN persist[key] ELSE <<>>

\* Mutant: any profile may be written.
SetPersistDataOfAnyone(c, req) ==
  /\ Handles(c)
  /\ sessions[c].authenticated
  /\ req.ptype \in {PublicReadWrite, PrivateReadWrite} /\ req.pid \in ProfileIDs
  /\ persist' = With(persist, Key(req), Raw(req))
  /\ UNCHANGED <<sessions, open, backend, loaded, rpcMutex, reloads>>

\* setpd.  Before authentication it is a fatal error, as getpd is.  The foreign key refuses profile 0.  With
\* kv, the old pairs should be kept, but the call that reads them asks for no keys and gets none: the row is
\* replaced in both cases.
SetPersistData(c, req) ==
  /\ Handles(c)
  /\ \/ /\ ~sessions[c].authenticated
        /\ ReplyError(c)
        /\ UNCHANGED persist
     \/ /\ sessions[c].authenticated
        /\ req.pid = sessions[c].profile /\ req.pid \in ProfileIDs
        /\ req.ptype \in {PublicReadWrite, PrivateReadWrite}
        /\ SetGameStatsPersistData(Key(req), Raw(req))
        /\ UNCHANGED open
  /\ UNCHANGED <<sessions, backend, loaded, rpcMutex, reloads>>

\* Mutant: the data of the session's own profile is read.
GetPersistDataOwn(pid, req) ==
  IF req.ptype \notin {PublicReadWrite, PrivateReadWrite} THEN <<>>
  ELSE GetGameStatsPersistData(<<pid, req.dindex, req.ptype>>)

\* getpd, for a session that is authenticated, with profile pid: the answer, or none.  The call passes ptype
\* and dindex in this order to a query that has them in the other.
GetPersistData(pid, req) ==
  IF \/ req.ptype \notin {PublicReadWrite, PrivateReadWrite}
     \/ req.ptype = PrivateReadWrite /\ req.pid # pid
  THEN <<>>
  ELSE GetGameStatsPersistData(<<req.pid, req.dindex, req.ptype>>)

-----------------------------------------------------------------------------
(* Exchange of the backend *)

\* The frontend has taken rpcMutex and waited for the calls in flight; the sessions are saved.  The new
\* process starts and reads them.
Shutdown ==
  /\ backend = "up"
  /\ reloads < MaxReloads
  /\ backend' = "loading" /\ loaded' = {} /\ rpcMutex' = "held"
  /\ sessions' = [c \in DOMAIN sessions |-> [sessions[c] EXCEPT !.old = TRUE]]
  /\ reloads' = reloads + 1
  /\ UNCHANGED <<open, persist>>

\* One round of the loop in StartServer.  A session of an unknown game is closed by a call of the frontend,
\* whose handler takes rpcMutex.
LoadSession(c) ==
  /\ backend = "loading"
  /\ c \in DOMAIN sessions \ loaded
  /\ IF sessions[c].game \in Games
     THEN loaded' = loaded \cup {c} /\ UNCHANGED <<sessions, open>>
     ELSE /\ rpcMutex = "free"
          /\ open' = open \ {c}
          /\ sessions' = Without(sessions, c)
          /\ UNCHANGED loaded
  /\ UNCHANGED <<backend, rpcMutex, persist, reloads>>

\* backendMain waits for every StartServer before it calls Ready, and Ready makes the frontend unlock.
Ready ==
  /\ backend = "loading"
  /\ loaded = DOMAIN sessions
  /\ backend' = "up" /\ rpcMutex' = "free"
  /\ UNCHANGED <<sessions, open, loaded, persist, reloads>>

StatsNext ==
  \/ \E c \in Conns :
       \/ NewConnection(c) \/ Disconnect(c) \/ CloseConnection(c) \/ LoadSession(c)
       \/ \E g \in Games \cup {""}, proven \in BOOLEAN : Auth(c, g, proven)
       \/ \E pid \in ProfileIDs \cup {0} : AuthProfile(c, pid)
       \/ \E req \in PersistRequests : SetPersistData(c, req)
  \/ Shutdown \/ Ready

StatsSpec == StatsInit /\ [][StatsNext]_gsVars

\* The goroutine of StartServer and backendMain run.
FairSpec == StatsSpec /\ WF_gsVars(Ready \/ \E c \in Conns : LoadSession(c))

-----------------------------------------------------------------------------

\* "to prevent a panic later" (gamestats/main.go:96): a session that came through a reload has a game of the
\* game list, when the backend is up again.
ReloadedIsKnown ==
  backend = "up" => \A c \in DOMAIN sessions : sessions[c].old => sessions[c].game \in Games

\* Open sockets have sessions, data belongs to profiles, and rpcMutex is held as long as the backend is exchanged.
StatsTypeOK ==
  /\ DOMAIN sessions \subseteq Conns /\ \A c \in DOMAIN sessions : sessions[c] \in Sessions
  /\ open \subseteq DOMAIN sessions /\ loaded \subseteq Conns
  /\ backend \in {"up", "loading"} /\ rpcMutex = (IF backend = "up" THEN "free" ELSE "held")
  /\ DOMAIN persist \subseteq ProfileIDs \X DataTypes \X Indexes
  /\ reloads \in 0 .. MaxReloads
  /\ ReloadedIsKnown

\* The data of a profile changes only while there is a session of this profile which has shown a token of it:
\* through failed authentications, changes of profile, fatal errors and reloads.  (Which session writes, a step
\* does not say.)
OwnerWrote ==
  \A k \in DOMAIN persist' :
    (k \notin DOMAIN persist \/ persist'[k] # persist[k]) =>
      \E c \in DOMAIN sessions : sessions[c].profile = k[1] /\ k[1] \in sessions[c].shown

\* "Force close the session now to prevent a panic later" (gamestats/main.go:96): sessions of unknown games do
\* not keep the backend from coming back.
ReloadCompletes == backend = "loading" ~> backend = "up"

\* What a getpd for the data of a profile answers, whoever asks, was set for that profile: although the call that
\* reads names the type where the query has the index, and what is stored is not what the game sent.
DataIsOfProfile ==
  \A pid \in ProfileIDs, req \in PersistRequests :
    GetPersistData(pid, req) # <<>> => GetPersistData(pid, req)[2] = req.pid
=============================================================================
