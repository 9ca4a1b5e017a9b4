# OpenWFC in TLA+

A verification project kept beside OpenWFC, a replacement for the Nintendo Wi-Fi
Connection servers written in Go. It holds TLA+ modules that model the parts of the
server whose correctness depends on concurrency, restarts, unreliable delivery, long
sequences of requests or intricate algorithms, the TLC configurations that check them on small instances, and TLAPS proofs of the
properties that matter most for every instance. `PROJECT.json` lists the components,
the runs, the lines of code behind every definition, the hazards of the code and the
theorems.

    tlc -workers 2 -config MCGpcm.cfg MCGpcm     # check one run
    tlapm GpcmProofs.tla                         # check the proofs of one module

## 1. The system

### Components

| Component | State | Operations | Talks to |
|---|---|---|---|
| Frontend and backend processes (`main.go`, `common/connection.go`) | sockets by connection index, `rpcMutex`, `rpcBusyCount`, `frontendUuid`, `state/uuid.txt` | accept, read, close; `RPCPacket.*` to the backend, `RPCFrontendPacket.*` back; shutdown, reload, verification of the saved state | every TCP server |
| GPCM (`gpcm/`) | `sessions` by profile, `sessionsByConnIndex`, the session objects | login, logout, friends, status, messages, profile updates; save and load | frontend, database, QR2 |
| QR2 (`qr2/`) | `sessions` by address, a challenge and a message lock per session | heartbeat, challenge, keep-alive, message and acknowledgement, expiry; save and load | server browser, consoles (UDP) |
| NAT negotiation (`natneg/`) | `sessions` by cookie, the clients of each, timers and sender goroutines | init, connect request and reply, report, expiry; save and load | consoles (UDP) |
| Server browser (`serverbrowser/`) | a read buffer per connection | server list with filter, messages to servers | QR2 |
| NAS (`nas/`) | accounts and tokens in the database | create account, log in, service tokens | database, GPCM (tokens) |
| GPSP (`gpsp/`) | none | profile search, lists of friends' names | database |
| Gamestats (`gamestats/`) | sessions by connection, buffers | authenticate, read and write persistent data, rankings over HTTP | database |
| Sake (`sake/`) | records in the database | create, read, update, delete, search records; files | database |
| Filter language (`filter/`) | none | parse and evaluate server-list and record filters | server browser, Sake |
| Race service (`race/`), Mario Kart Wii data (`common/`) | rankings in the database | read rankings, validate ghosts | database |
| Web front door, TLS, downloads, profanity check (`nas/`) | none | HTTP routing, file serving | |
| Logging, configuration, game list | none that others depend on | | |

### How they interact

The frontend accepts TCP connections and calls the backend for each new connection, each
read and each close; for one connection these calls never overlap, for different
connections they always may. A handler in the backend calls the frontend to write to a
socket or to close it. On a restart the frontend keeps the sockets, holds `rpcMutex`, and
the backend saves every server's sessions, ends, and its successor loads them. The UDP
servers (QR2, NAT negotiation) belong to the backend and start a goroutine per packet.
The server browser reads QR2's sessions and hands it messages for game servers.

### What is hard

* Locks are given up in the middle of an operation: `login` while it waits for another
  session, `sendChallenge` between check and removal, every UDP handler between lookup
  and use.
* State is read without a lock by the sender goroutines of NAT negotiation and by
  `HandlePacket` in GPCM.
* The shutdown of the backend has to wait for calls in flight, which may need the mutex
  it holds.
* A reload rebuilds maps of pointers from a file: objects are copied, goroutines and
  timers are lost, and the file may be old or incomplete.
* UDP packets are lost, repeated and reordered; acknowledgements and reports do not name
  what they answer.
* A friend request and the login of its recipient each write one thing and then read the
  other; lists of friends are read before the mutex that their use needs.
* Go's map order decides who is paired with whom.
* HTTP requests make several queries without a transaction: what one has checked another
  may have changed, and a query that fails leaves half of the work done.
* A TCP stream is cut into pieces anywhere, and its buffers have limits.
* Filters are parsed by moving nodes of a tree up and down, and evaluated by code whose
  panics are only partly recovered.

The hazards are listed line by line in `PROJECT.json`, each with the properties that
would notice it going wrong, or the reason why none does.

### What correct means

* Session table: one connection per profile, the table names it, no entry blocks a
  profile for ever.
* Restart: state saved at rest; whoever was logged in at GPCM, or connected to another
  server, goes on with the session it had; every close is reported.
* NAT negotiation: whoever has to be told is told; results go to the right pair; all
  pairs are tried; sessions end by their own timers.
* QR2: whoever has to prove the key is being asked, with the challenge the answer is
  compared with; nobody stays unproved; senders of messages do not wait for ever.
* Friends and presence: no request is lost, no outdated status is shown, none is shown to
  strangers.
* Accounts: nobody is let in without the secret of the account, a console has one profile,
  an account that was confirmed is stored, a login that failed halfway can be repeated.
* Sake: limits hold up to the requests in flight, nobody's record is changed by others,
  records have the fields their table allows, a search shows what its asker may see, the best
  ones first.
* Gamestats: data belongs to the profile whose token was shown; a score needs a token, the
  player's own comes first, and a rank is one of the total.
* Streams: messages are handled once, whole and in order, and at once if the console waits
  for each answer.
* Filters: the list of servers is what the filter means, and the backend survives it.

## 2. Modules

| Module | Models | Checked by | Proved in |
|---|---|---|---|
| `ProfileOwner` | what the session table promises: exclusive ownership of profiles | (abstract specification) | |
| `Gpcm` | `gpcm/main.go`, `gpcm/login.go`, and the connections of `main.go` as GPCM sees them | `MCGpcm` | `GpcmProofs` |
| `Handover` | what a restart promises: calls pass a gate, sessions are handed over or lost | (abstract specification) | |
| `Frontend` | `main.go`, `common/connection.go`, and what the sessions of GPCM, gamestats and the server browser go through in a restart | `MCFrontend` | `FrontendProofs` |
| `Natneg` | `natneg/main.go`, `init.go`, `connect.go`, `report.go` | `MCNatneg` | `NatnegProofs` |
| `Qr2` | `qr2/*.go` | `MCQr2` | `Qr2Proofs` |
| `Accounts` | `nas/account.go`, `database/user.go`, `database/profile.go`, `common/auth_token.go`, the use of tokens in `gpcm/login.go` | `MCServices` | `DatabaseProofs` |
| `Sake` | `sake/storage.go`, `sake/tables.go`, `database/sake.go` | `MCSake`, `MCServices` | `DatabaseProofs` |
| `Gamestats` | `gamestats/main.go`, `auth.go`, `persistdata.go`, `database/gamestats.go` | `Gamestats` itself, `MCServices` | `ServicesProofs` |
| `Rankings` | `gamestats/web.go`, `dwc.go`, `database/dwc_rankings.go` | `MCServices` | `ServicesProofs` |
| `Streams` | `HandlePacket` of `gpcm/`, `gamestats/` and `serverbrowser/` | `MCServices` | `ParsingProofs` |
| `Filter` | `filter/*.go`, `serverbrowser/filter.go`, the list request of `serverbrowser/server.go` | `MCServices` | `ParsingProofs` |
| `Presence` | `gpcm/friend.go`, `database/friend.go`, and the logins and closes of `gpcm/` as friends see them | `MCPresence` | `PresenceProofs` |

`MCServices` puts together components that share no state with each other: a behaviour is
one of the component chosen at its start, and the others stay as they began. It extends
all six, so that their properties are checked as the proofs state them. `MCLive` does the
same for the liveness of `Gpcm` and `Natneg`, and `MCNatneg` for two instances of `Natneg`.
`MCFrontend` gives `Frontend` its two deployments.

Operators that begin with the comment "Mutant" are wrong variants of the definition that
follows them; they are used to show that each property can fail, and by nothing else.

### Gpcm

`sessions` and `byConn` are the two maps, `obj` is the heap they point into. An object is
named `<<c, None>>` when `NewConnection` made it and `<<c, p>>` when it was decoded from
the entry of profile `p`, since gob turns an object that is in the map twice into two.
`conn` is the frontend's view of the socket, `pc` the position of the one handler a
connection has in the backend. A handler is at "packet" between two commands of its
buffer; `login` is split where it gives up the mutex ("admit", "poll") and where it writes
the session without it ("admitted"); `CloseConnection` is split at its two critical
sections. Whether credentials are right is a choice. Friends, status and messages only
appear as commands that need a login; `Presence` models them on top of what `Gpcm`
establishes, one connection per profile.

`ProfileOwner` has an owner per profile and an online profile per connection; a claim needs
a free profile or one's own. `Owner` in `Gpcm` is the refinement mapping.

### Frontend

`hc` is the position of `handleConnection`, with the calls in flight as positions of their
own; `callback` marks a handler that waits for the frontend. `locked`, `req` and `waiters`
are `rpcMutex`, the shutdown under way and the number of `waitForBackend`s. The backend is
a state machine from "starting" (listening, not verified) to "saved" (the servers have
saved, `uuid.txt` has not been written). Three steps end a restart, and the backend may die
between any two: `Ready` closes the channel (`announced`), the `waitForBackend`s that wait
hear it (`dialing`), and `Connect` dials and unlocks `rpcMutex`.

`deployment` is how the server was started, and never changes: with `Integrated` the frontend
runs the backend itself, `Reloads` allows calls of `ReloadBackend`, and `Server` says which
server each connection is to. What a server has of a connection is in three tables: `fresh`
are the GPCM sessions that have not logged in, which `saveState` leaves out; `online` are the
sessions that are saved and go away with their connections (logged in at GPCM, every connection
at gamestats, the rest of a message at the server browser); `stale` are the GPCM sessions
that logged out, which stay in the saved table (`RegisteredIsOpen` of `Gpcm`). A packet of a
GPCM connection without a session closes it. `disk` is the state directory with its uuid. Two
ghosts: `joined` are the connections whose consoles have a session as they see it, and
`trusted` says that the state came from complete saves, which the code cannot tell.

`Disciplined` restricts the backends an operator starts by hand (`MayStart`): one is started
to replace one that was shut down (with its state directory), or after a crash with a clean
one; and if a backend dies between `Ready` and the dial, the frontend is restarted too. The
`waitForBackend` that has heard its `Ready` would otherwise connect to the next backend while
that one still loads, and let calls in.

`Handover` is what all this is for: a gate, the calls inside, and the sessions. A shutdown shuts
the gate, the last call to return closes it, the next backend opens it; a call changes the
session of its own connection, and anything else keeps all sessions or loses them all. In the
refinement mapping `rpcMutex` is the gate (`Gate`), `Busy` are the calls, and `Held` are the
sessions that are saved (`online`), wherever they are: in memory, or in the state directory if
a backend that starts now would load it. Sessions that an incomplete save has left count as
lost, and a GPCM connection that has not logged in has no session in `Handover`.

### Natneg

One cookie; sessions under it are numbered. `Consoles` are the clients that send, so that the run
can compare the pairs of three clients while two of them race. `work` holds packets that have found their
session and wait for its mutex, so that they overtake each other and the session may close
first. `senders` are the goroutines of `sendConnectRequests`, which look at the destination
and at the sender in two steps and without a lock. `Pairings` is the set of outcomes of the
two nested loops over the map, for every order of the map; it says of each pair when it is
made, which proofs can use, and `MCNatneg` compares it with the loops themselves, a fold
over the clients, for every session of three clients that wait (`PairingsOfLoops`). `got` is what the console was
last told, and decides what its next report is about.

### Qr2

One address; sessions under it are numbered, challenges are named by the heartbeat that
drew them. `beat` is the handler of each heartbeat and then the goroutine that repeats the
challenge, with one step per critical section; `work` as in `Natneg`; `msg`, `holder` and
`waker` are `SendClientMessage`, `messageMutex` and `messageAckWaker`.

### Presence

`row[s][r]` is the row of the table `friends` with sender `s` and recipient `r`. Each
profile has one handler, `pc`; a query is one step and what is done under GPCM's mutex
another, so that `addBuddy` is "insert, then look who is online" and the login is "go online,
read the outgoing rows, read the incoming rows, act on them under the mutex". `buffer` is
`WriteBuffer`, which is flushed at the end of the packet and may be overtaken by what others
send directly. `asked` and `heard` are what the console has been told since its login. A
read of the lists may fail for the profiles in `Failing` (`QueryFails`), which the ghost
`lapsed` records: the code then tells nobody and says nothing. `agreed` is a ghost too, who has ever added or authorized
whom. `Unfit` pairs are statuses whose location does not fit the recipient's game and are
not sent.

### Accounts

`users` and `profiles` are tables with the unique keys of `schema.sql`. Each HTTP request is a
`thread`, and each query of `acAccountCreate`, `acLogin` and `acServiceLocate` a step, which
may find that other requests have run since the last one, and may fail (`MaxFaults`, counted
together with restarts of the process, which lose the goroutines and the keys of tokens and
tickets). `tokens` are those that `Unmarshal` accepts, `tickets` those that were issued. A field of a
request is a value or "bad". Ghosts record whether a request was alone and whether its
console may expect to be let in.

### Sake

`records` is the table, `inserting` the requests between the count and the insertion of
`createRecord`. The fields of a record are JSON text: a sequence of objects, since the update
concatenates, and valid if there is one. The table definitions are a constant, of which
`MCSake` takes three of the code's and one, made up, that denies others to read, which the code
provides for and no table of it uses. `GetTable` looks a definition up by the name as it is spelt
(`Defined`), the database finds rows without regard to case (`Folded`, `SameTable`): the run has
"friendinfo" beside "FriendInfo". `getMyRecords` and
`searchForRecords` only read; `GetMyRecords` and `SearchForRecords` are the sets of answers
the code may give, and the properties ask every question in every state. Numbers of records
are any (`RecordIDs`).

### Gamestats and Rankings

`sessions` are those of the running backend or of the file, `persist` is the table of persistent
data, with what `getpd` and `setpd` make of `\data\`, key lists and the kv flag. The exchange
of the backend appears as far as the frontend's `rpcMutex` goes. In `Rankings` a get is up to
four queries, and puts of others come between them; tokens are computed from a salt of the
process.

### Streams

The cells of a stream are numbered, and a message is an interval of them; the stream is cut
into pieces of any size, and `handled` is what the server took for messages. `MessagesAreCut`
compares it with what was sent. A handler may panic, and the code then handles the commands
before it once more. `mishaps` remembers that data was dropped, that a handler panicked, or
that the buffer held cells of two messages ("pipelined"), which a console that waits for each
answer never causes.

### Filter

The parser is a state machine: one action per token, so that the behaviours are all filters up to
a length. A word with a bracket right behind it is a call; `calls` is the stack of the functions
whose arguments are being read, which are items of the call's node. `Eval` is the evaluation with
its errors, which the server answers with an empty list, and its crashes, the panics that `Eval`
panics on again; `Meaning` is the reference: the usual reading of precedences and brackets, with
the overrides for Mario Kart Wii. Both are recursive functions, on the nodes and on the pairs of
positions.

`MCServices` reads three sets of tokens (`Alphabets`), each for filters of its own: an operator
of each level; the keys with an override, with a text; and calls with arguments. `LibraryFilters`
are filters of the form the DWC library sends (`serverbrowser/filter.go:10-16`), two conditions and
two more in brackets, of 17 tokens. `ListIsExact` asks for every one of them, with the overrides
for "rk" and "ev", for a game that has them and one that has not.

## 3. Runs

All bounds are constants of the modules and are given in the cfg files. `CHECK_DEADLOCK
FALSE` everywhere: connections, heartbeats, sessions and restarts are bounded, and a
server nobody talks to rests.

| Run | Instance | Shows |
|---|---|---|
| `gpcm_table` | 3 connections, 2 profiles, 1 poll, restarts | `TypeOK`; `OnlineIsRegistered`; `ImplementsOwner` |
| `gpcm_registered` | as above | **violation** of `RegisteredIsOpen` |
| `frontend` | 2 connections, one to GPCM, 2 restarts; a separate backend with crashes and failed saves and a connection to gamestats, and an integrated one with `ReloadBackend` and a connection to the server browser | `TypeOK`, `Quiesced`, `NoOrphan`, `NoStranger`, `UnlockExpectsLocked`, `CloseIsReported`, `ImplementsHandover` |
| `frontend_deadlock` | 1 restart | **violation** of `ShutdownIsGranted` |
| `natneg` | 2 clients, 2 games, any order of packets, 2 being handled, restarts; and 3 orderly clients in every map order | `NatnegTypeOK` (with `ConnectingExists`), `StillTold`, `OwnTimer`, `NoIdlePair`; `ResultIsRealOfThree` for the orderly ones |
| `live` | 2 connections, 2 profiles, 2 polls, no restarts; and 2 orderly clients, lost packets, restarts | `LoggedInIsLive`, `OneConnectionPerProfile`, `WaitsEnd` (`LoginTerminates` and `ShutIsRemoved`); `AllNegotiated` |
| `qr2_challenge` | 3 heartbeats, shutdowns, 2 sessions, 2 rounds, lost packets | `TypeOK`, `BeingChallenged`, `ChallengeSettles` |
| `qr2_messages` | 2 messages, 1 receiver, expiry and restarts | `MessageEnds` |
| `presence` | 2 profiles, one of them with 2 statuses, one status unfit, queries of the other failing | `TypeOK`, `RequestIsTold`, `StatusIsCurrent`, `OnlyFriendsSee` |
| `services` | see below | the properties of `Accounts`, `Sake`, `Gamestats`, `Rankings`, `Streams` and `Filter` |
| `gamestats_reload` | 2 connections, 1 reload | **violation** of `ReloadCompletes` |
| `sake_update` | 1 request at a time | **violation** of `OwnerMayUpdate` |

`services` checks, component by component, besides `ServicesTypeOK` (the type invariants of the
components, `RecordsDecode` and `ReloadedIsKnown` included, and `TreeOK` of `Filter`):

| Component | Instance | Shows |
|---|---|---|
| accounts | 4 requests of a DS and two Wiis that share an address or an id, 2 threads, 2 profiles, 1 failed query or restart | `IdentityIsProven`, `OneProfile`, `AnswersHold` (`CreatedIsStored` and `RetrySucceeds`) |
| Sake | 2 threads, 2 profiles, 4 tables, one of them under two spellings, 2 record numbers, limit 1 | `WithinLimit`, `SearchIsRight` (`SearchIsPrivate` and `BestAreKept`), `OthersRecordsKept` |
| gamestats | 2 connections, 2 profiles, 1 reload | `DataIsOfProfile`, `OwnerWrites` |
| rankings | 2 profiles, 2 regions, 2 scores, 2 salts, every mode, limits 0 to 2 | `RankingIsConsistent` (`OwnFirst` and `RankWithinTotal`), `OwnerWrites` |
| streams | 3 servers, every three messages of lengths 2, 3, 6 and 7 and of length 4 that panic, pieces up to 4, buffer of 6 | `MessagesAreCut` (`Whole`, `HandledAtOnce`, `HandledAtEnd` and `FitsIsKept`) |
| filters | every filter of up to 7 tokens over each of three alphabets (an operator of each level; "rk", "ev" and a text; calls), 81 filters of the library's form with 17 tokens; 5 servers of 2 games | `ListIsExact`, `NumbersDoNotCrash` |

A client of `Natneg` is orderly if it has one packet at a time under way; the code cannot
credit the reports of the others to the right peer, and does not try. Sessions that a
restart has loaded (`revived`) or that were silent for a minute (`excused` in `Qr2`) are
exempt from the properties about goroutines, which the code does not start again.

Why the bounds are enough to be interesting. Two profiles let a connection log in under a
second profile after a logout, which is what duplicates an object on reload; three
connections let two logins wait for a third. One poll already separates "waits", "finds the
slot free" and "gives up" (20 in the code), and the proofs are for any limit. Two restarts
let an old state directory meet a later frontend. Three clients are the first case in which
the pairing loops, which have no break, give one sender two destinations. Three heartbeats
are two overlapping ones and one for the session that replaces theirs, with a shutdown in
between; two rounds separate a round that is followed by another from the last (5 in the
code). Two profiles are all a friend row relates, and each may be the sender, the recipient or
both; the second status of one of them is what makes a shown status outdated. A limit of one
record and two threads let the count and the insertion of two requests overlap; two consoles that claim one id, and a console
that retries, are what the separate queries of an account can disagree about. Messages just
below, at and above the size of the buffer are the cases of its limit. Seven tokens hold two
comparisons joined by an operator, a comparison in brackets beside another, or a call with two
arguments; those of 17 tokens hold the library's own form, where the brackets come after what
they are joined to. A connection to each kind of server is what a restart treats differently:
two of them are at least one that saves everything and one that saves what has logged in. To keep
the symmetry groups small, `services` gives the goroutines of `Accounts` and the record numbers of
`Sake`, which never run together, the same names. That a timer
does not remove a later session takes several sessions of a cookie and is proved for any
number of them (`TimersAreOwn`).

### Fairness

* `Gpcm`: weak fairness of the steps of each connection's handler and of the frontend's
  close: goroutines that can run do, and the mutex is never held across a wait. Nothing is
  assumed of consoles, and the liveness run is without restarts.
* `Frontend`: weak fairness of every goroutine of the two processes (`waitForBackend` among
  them); strong fairness for
  the return of a handler, which says that a handler calls back finitely often. Nothing
  about new connections, closes by the peer, or the operator. `CloseIsReported` excepts a
  backend that has been asked to shut down, because of the deadlock below.
* `Natneg`: handlers and senders run on (weak); of requests repeated for ever one arrives,
  and a console that was told to connect reports in the end (strong). The latter two are
  assumptions on the network and the consoles, stated because the protocol has no timeout
  except the end of the session, which `AllNegotiated` allows.
* `Gamestats` (in `gamestats_reload`): `StartServer` of the new backend and the frontend's
  handlers run on when they can (weak). The counterexample does not depend on anything else.
* `Qr2`: the goroutines of challenges and messages run on and their timers go off. Nothing
  about the network.

## 4. Proofs

`GpcmProofs` (for any sets of connections and profiles and any poll limit):

* `TypeCorrect`, `OnlineRegistered`, `ExclusiveLogin`, `NoGhostLogin`: `TypeOK`,
  `OnlineIsRegistered`, `OneConnectionPerProfile`, `LoggedInIsLive` are invariants.
* `TableImplementsOwner`: `Spec => ImplementsOwner`, step by step.

`OnlineIsRegistered` is not inductive. After a logout and a login under another profile,
one object is registered twice, and a reload makes two objects of it, either of which may
become the connection's session. The inductive invariant `IInv` therefore speaks of every
object the table keeps (`AllRegistered`), of what each handler position knows
(`HandlersOK`), of keys (`ByConnKeyed`), of connections that have not been accepted
(`UnusedIsFresh`), and, without restarts, of the absence of copies (`NoCopies`). Exclusive
login follows from `OnlineIsRegistered`: both connections would be named by one entry.

`FrontendProofs` (for any set of connections to any servers, and any number of restarts):

* `TypeCorrect`; `SavesAtRest` (`Quiesced`), `SingleUnlock` (`UnlockExpectsLocked`),
  `NoOrphanEver` (`NoOrphan`), `NoStrangerWhenSplit` (`NoStranger`). All assume `Deployed`:
  backends are started in a disciplined way, and `ReloadBackend` is only called on an
  integrated frontend (section 5, item 5). They hold of both deployments, except that
  `NoStranger` is about a separate backend (section 5, item 6), and `NoOrphan` about GPCM and
  gamestats (item 8).
* `NoStrangerWhenSplit` says of a console that has a session, as it sees it (`joined`: logged in at
  GPCM, connected to gamestats, in the middle of a message to the server browser), that its
  connection, if it survived, has the session in the new backend. It says nothing of GPCM
  connections that have not logged in: their sessions are not saved (item 13).
* `RestartsAreHandovers`: `Spec => ImplementsHandover`, step by step, for both deployments. `Init`
  maps to `Init`, and there is one lemma per action, for the step of `Handover` it is or the
  stutter (`QuietStep`). The sessions of `Handover` are those the servers save.

The inductive invariant says who may hold the mutex in which state of the backend (`Locking`),
where the one `waitForBackend` stands (`Awaited`), how the uuids of frontend, backend and disk relate
(`UuidsOK`), which positions have entries (`EntriesOK`), and that memory (`TablesOK`) and disk
(`DiskOK`) hold no sessions but those of established connections, and all that their consoles
have (`NobodyForgotten`), whenever the uuid says so. The disk parts are needed because the agreement is lost and regained: between save and
load nothing in memory holds the sessions. The refinement needs one fact more, which is not
about connections: what a backend has saved is what it had, and what its successor has
loaded is still what was saved (`HandedOver`). The latter matters when the successor dies
before it is ready, and a third backend loads the same state.

`NatnegProofs` (for any clients, games, packets, sessions and restarts):

* `TimersAreOwn` (`OwnTimer`). The inductive invariant adds that a session which has not been
  created has no timer.
* `IndexesAreFollowed` (`NatnegTypeOK`, that is `TypeOK` and `ConnectingExists`),
  `PeersAreStillTold` (`StillTold`), `NoPairIsIdle` (`NoIdlePair`). What the pairing does to a
  session is one lemma (`PairsClients`), what each handler does another (`HandleEffect`): the
  indexes can be followed, whoever has to be told had to be told the same before or has a new
  goroutine, and only who waits or reports is given a new peer. `StillTold` is not inductive:
  a goroutine that has looked at the destination and found nothing to do may be about to end
  when the destination is paired with the same peer once more. `Telling` adds that the
  goroutine for a client will look at it again before it can end (`Serves`): it is about to look at
  the destination, or has found something to do, or the client is its sender. The pair that is made
  again has a goroutine of its own.
* `ResultsAreReal` (`ResultIsReal`) for one session (`MaxSessions = 1`). The invariant says that an
  orderly console was told of, and reports about, the peer that `ConnectingIndex` names. The
  hypothesis is needed: a console that was told of a peer in a session that closes, joins the
  next one and only then reports, is credited with its new peer.

`Qr2Proofs` (for any number of heartbeats, sessions, rounds, packets and messages):

* `TypeCorrect`. `TypeOK` alone is not inductive: a goroutine that still sends must have
  rounds left and a challenge to send (`GoodBeat`), a message must have a receiver
  (`GoodMsg`).
* `AlwaysChallenged` (`BeingChallenged`). Added are the facts that sessions and heartbeats to
  come are untouched and that a session which was not silent is fresh (`Untouched`), without
  which a goroutine could take the session for one it need not challenge.

`PresenceProofs` (for any profiles and statuses): `TypeCorrect`; `RequestsAreTold`
(`RequestIsTold`), `StatusesAreCurrent` (`StatusIsCurrent`), `StrangersSeeNothing`
(`OnlyFriendsSee`). The invariants say where a request can be on its way to the console
(`Underway`: noted, with the sender's handler, before or inside the recipient's login, in the
buffer), that a status which is not what a friend was told is about to be sent (`StatusInv`),
and that every row, every list in a handler and every authorization under way goes back to an
agreement (`AgreedInv`).

`DatabaseProofs`, accounts (for any consoles, requests, profiles, goroutines and failures; `Formed` says that
requests have the fields of a request and that the bounds are numbers):

* `AccountsType` (`AccountsTypeOK`), `TokensAreProven` (`IdentityIsProven`), `ProfileIsOne` (`OneProfile`).
  The goroutines act on what earlier queries have read. The invariant `AccountsInv` says what each
  position still knows of the tables (`Knows`): the row it has read is there, though it may be
  banned by now, the profile it has read or made is there and is of its user and game; and that
  every token and ticket goes back to such a row and profile (`TokensOK`).
* `AnswersAreKept` (`AnswersHold`). For a login that is alone the invariant says, position by
  position, that the next queries cannot refuse it (`Ahead`). The proof showed that
  `RetrySucceeds` had leaned on the requests of the run: the code checks the MAC address of a DS
  against its user id and refuses other unit codes, and `GoodLogin` now says so.

`DatabaseProofs`, Sake (for any profiles, threads, tables, spellings of their names, inputs and limits;
finitely many threads):

* `LimitHolds` (`WithinLimit`). The inductive invariant adds that a thread has at most one
  insertion under way (`InsertingOK`), so that at most as many are under way for a profile as
  there are threads, and that there are finitely many rows, which an update keeps with their
  owners (`RowsOK`). The bound is exact: the count of a request sees no insertion under way.
* `OthersKept` (`OthersRecordsKept`).
* `AllDecode` (`RecordsDecode`, which `services` checks as part of its type invariant): what
  is stored has passed the checks of the schema, and no failed check of the fields is taken for
  an update that was carried out (`ResultsOfInput`).
* `RowsAreTyped` (`SakeTypeOK`): records and insertions under way have the fields their table
  allows, of the types it gives, and numbers that are unique over the spellings of a name. The
  invariant `ContentInv` follows them from the checks of the request to the row (`AcceptedField`);
  a lemma shows that an update the table accepts changes nothing (`UpdateChangesNothing`: that of
  an owner would store two objects, and is refused), without which rows would lose their form.
* `SearchesAreRight` (`SearchIsRight`: `SearchIsPrivate` and `BestAreKept`). What is private is so by
  the name under which the table is defined (section 5, item 21); what is kept of a search counts
  the records that lack the sort field and take the places of others (item 20). Assumed are
  `InputsAssumption` (fields have forms and integer values) and `FriendInfoAssumption` (the
  table "FriendInfo" has the private field "info", `sake/tables.go:105-117`).

`ParsingProofs`, streams (for any servers, messages, sizes of pieces and of the buffer):

* `StreamsType` (`StreamsTypeOK`), `StreamsAreCutRight` (`MessagesAreCut`). Its parts have their
  conditions. Messages are handled once, whole and in order (`Whole`) until data is dropped or a
  handler panics; data is dropped (`FitsIsKept`) only from a console that does not wait for answers,
  has sent a message that is too long, or met a panic, and never by the server browser; a message is
  handled by the call that brings its end (`HandledAtOnce`) if the console waits for the answers. If it does
  not, a complete message waits at GPCM and gamestats while reads end inside the next one, and
  `HandledAtEnd` says that all are handled when a read ends where a message ends. The inductive
  invariant has one fact more: as long as the console waits for answers, what is
  in the buffer belongs to one message (`InOneMessage`). The lemmas say that the ends of
  messages ascend, that every cell belongs to one message, that a text which is the rest of
  the stream up to an end is split into just the messages of it (`SplitIsWhole`), and that
  the first packet of such a text is the next message (`PacketIsMessage`).

`ParsingProofs`, filters (for any tokens, servers with keys, and length of the filter):

* `FilterIsTree` (`TreeOK`). The parser climbs from a node through the operators above it, and
  relies on finding an operator there and on an operand below; neither is a matter of types.
  The invariant `Tree` says that nodes and their items point at each other (`Linked`) and that
  the nodes can be numbered so that each comes after its items (`Numbers`): the numbers of the
  nodes themselves do not ascend, since `Push` puts a new node above an old one. With it a
  climb ends (`ChainEnds`) and finds an operator (`HighestIsOperator`). `HasOperand` says that
  the current node has an item when an operator is expected; it shows that the panic
  "expecting a value before operator" cannot be reached. `CallsAreNodes` says that the functions
  whose arguments are being read are nodes.
* `NumbersAreSafe` (`NumbersDoNotCrash`), for filters that have no text, no bracket that is nothing but
  a call and are not one themselves, over servers with numbers: each of the three does end the
  process (section 5, item 29). The same numbering gives the recursion of the evaluation
  its value (`EvaluationExists`), and a node whose value is neither a number nor an error would
  have an item like that with a lower number.

Both arguments are inductions over data. The library's induction theorems take an operator as
a parameter, which the provers cannot instantiate; the proofs use the least counterexample
instead, which the lemma `Least` takes from the well-foundedness of the naturals, and `Recursion`
says of a function that is defined step by step that it exists.

`ServicesProofs`:

* Gamestats, for any connections, profiles with positive numbers, games and reloads
  (`StatsConstants`): `StatsType` (`StatsTypeOK` with `ReloadedIsKnown`), `DataIsOwn`
  (`DataIsOfProfile`) and `OwnerHasWritten`, which says that data changes only while there is a session of
  the profile that has shown a token of it, not that this session is the writer. The invariant adds that the sessions a new backend has
  been through have games, that a session with a profile was shown a token of it, and that
  what is stored names the profile it is stored under.
* Rankings, for any players, regions, integer scores and salts (`RankConstants`): `RankType`
  (`RankTypeOK`), `RankingsAreConsistent` (`RankingIsConsistent`) and `PutsHaveTokens`. The invariant
  says what each query of a get has established and, if nobody has put a score since,
  what of it is still so (`ReadingOK`); that a rank is one of the total then follows by counting rows.
* The composition: a behaviour of `MCServices` is one of each component, five of them at rest
  (`PartsAreServices`). `ServicesType` (`ServicesTypeOK`) puts the type theorems of the six together,
  `OwnersHaveWritten` (`OwnerWrites`) those of the gamestats and the rankings.

Only model-checked:

* All liveness properties (the prover has no fairness rules): `CloseIsReported`, `WaitsEnd`,
  `AllNegotiated`, `ChallengeSettles`, `MessageEnds`.
* `ListIsExact` of `Filter`. It needs that the tree which operators of falling and rising levels
  leave behind has the value of the tokens read by their levels: an invariant that gives every
  node an interval of tokens, tells which operators above the current node are still to take
  operands, and relates the chain of equal operators, which the parser makes one node, to the
  reference, which takes them two by two. Evaluation and parser are proved to be sound, the
  comparison is checked for every filter of seven tokens and for those of the library's form.
* That `Pairings` is what the nested loops of `sendConnectRequests` compute: `MCNatneg` checks it for
  three clients.

## 5. Disagreements and limits found while modelling

Four runs show the code doing something else than its comments say:

1. `RegisteredIsOpen`: `logout` keeps the entry of the session table and `CloseConnection`
   removes it only from logged-in sessions, so a profile that logs out and then disconnects
   cannot log in again until the backend is started without state.
2. `ShutdownIsGranted`: `ShutdownBackend` waits for calls in flight with the mutex their
   handlers need.
3. `ReloadCompletes`: a new backend that finds a gamestats session without a game closes it
   through the frontend, which answers only when the backend is ready: one connection that
   has not sent `auth` stops a restart for ever.
4. `OwnerMayUpdate`: `UpdateSakeRecord` concatenates two JSON texts and the table refuses the
   result, so that no update of a record succeeds.

More limits are the reason for a hypothesis of the theorems or properties, for a guard of the
model, or for leaving something out.

Frontend, GPCM, friends:

5. `ReloadBackend` on a frontend with a separate backend leaves two `waitForBackend`s, and
   the second unlocks an unlocked mutex (a deployment that is split and reloads refutes
   `UnlockExpectsLocked`).
6. `ReloadBackend` of an integrated backend keeps the sockets and loses every session
   (`NoStranger` is therefore about separate backends only).
7. A backend that dies between `Ready` and the dial of `waitForBackend` (`main.go:429-443`) leaves the
   frontend dialing: the next backend that listens is connected to, and `rpcMutex` unlocked, before
   that one has verified or loaded its state. `Disciplined` has the operator restart the frontend.
8. `VerifyState` deletes the entries of connections whose last packet may still be on its way; the
   server browser makes a buffer for any index, and nobody reports the end of that one (`NoOrphan`
   and `CloseIsReported` are about GPCM and gamestats).
9. After a crash of the backend the mutex is free, and `VerifyState` answers busy to a new
   backend that presents an old uuid (`main.go:632`).
10. `StatusIsCurrent` allows "offline" for a friend who is there: a login buffers the notice
    and a status sent meanwhile overtakes it.
11. `sendLogoutStatus` stops at the first friend who is not online, so that the others are not
    told; and a friend who logs in between that notice and the removal of the session is shown
    a player who is gone.
12. `authAdd` reports "is not an incoming friend" only when the query fails; authorizing
    somebody who has not asked succeeds.
13. `saveState` of GPCM writes the sessions that have logged in, and those that have logged out
    again (`gpcm/main.go:252-266`). A restart forgets connections that have not logged in yet, and
    they are closed at their next packet: `NoStranger` and `Handover` are about the others.
14. GPSP panics on every message that has a handler: it passes no session to the router,
    which asserts its type.

UDP:

15. A late or repeated acknowledgement is taken for that of the next pairing
    (`natneg/connect.go:85`) or of the next message (`qr2/main.go:212`): neither names what it
    answers. Nor does a report, which is noted for a peer of the session that is open when it
    arrives, also if its console means one of the session before.
16. `sendChallenge` gives the mutex back between its last check and the removal
    (`qr2/challenge.go:70`), so that a session which proves its key then is removed; shutdown
    does not wait for these goroutines (`qr2/main.go:98`).
17. `PacketCount` is read and written without a lock (`qr2/message.go:44`).

Streams:

18. Data that exceeds the buffer of GPCM or gamestats is dropped in the middle of a message
    while the connection goes on, and after a panic the commands before it are repeated:
    `Whole` excepts both. GPCM and gamestats look for messages only when what they have ends where
    one ends (`gpcm/main.go:197`, `gamestats/main.go:190`), and the server browser handles one packet per
    call (`serverbrowser/main.go:153`): a complete message waits if the read also holds part of the
    next, and `HandledAtOnce` is about consoles that wait for each answer. A message to a server of
    fewer than 9 bytes panics in the server browser.

Sake:

19. A new record with fields in a table that is not defined panics (a write to a nil map), and
    so does a search sorted by a field that is no number.
20. Records that lack the sort field come first and take the places of others, although the comment
    says that the one which exists is prioritised (`sake/storage.go:471`): a search for the best
    three may return none. `BestAreKept` is about records that have the field, and counts the others.
21. `GetTable` is case-sensitive (`sake/tables.go:218-224`), the column `table_id` is not
    (`schema.sql:116`, `126`): a search of "friendinfo" returns the records of "FriendInfo" by no
    definition, so that the personal data in a Mii is not cleared and denied reading is allowed.
    `SearchIsPrivate` is about the name under which the table is defined.
22. `LimitPerOwner` is never read; the upload of ghosts cannot be reached.
23. `record_id` defaults to `rand(2147483647)` (`schema.sql:117`), where the argument is a seed
    and the value a fraction. `RecordIDs` leaves open which numbers come out; that insertions
    may collide is part of the model.

Gamestats and rankings:

24. The raw field of a command is the text before `\data\`, `getpd` passes ptype and dindex in
    the other order than `setpd`, and `setpd` with kv replaces the data: all three are modelled
    as they are, and `DataIsOfProfile` says what is left.
25. An `authp` that fails leaves the session authenticated as nobody; `ka` panics.
26. The list of friends is never read, so that a ranking of friends ends in an error of the
    database; "near" in descending order returns the farthest scores.
27. A get is not a snapshot: `RankWithinTotal` is claimed for gets during which nobody puts.

Filters:

28. `&&` and `||` never parse, and in a bracket with "or" before "and" the operators are
    placed otherwise than their precedences say: `ListIsExact` is claimed for filters that
    `Ordinary` describes, which those of the library's form are.
29. One server for which the evaluation fails empties the list. A text where a number is
    expected ends the process, because `Eval` recovers only panics with strings
    (`filter/eval.go:18-24`, `388-399`). So does a call that is all a bracket or the filter holds,
    as in `x(1)`: it parses to a `FuncToken`, which `switchFunction` takes for an operator
    (`filter/eval.go:57`). As an operand a call is an error. `NumbersDoNotCrash` is claimed for filters and servers without these.
30. The overrides for Mario Kart Wii ("ev", "eb", "rk") apply only to operators with two
    operands.

## 6. Not modelled

Cryptography and encodings (TLS, the stream ciphers, RC4-like challenges, base64, the
encryption of ranking requests), HTTP routing, static files, logging, configuration, the
profanity list. The race service and the data of Mario Kart Wii are stateless reads and
validation tables; GPSP does not get as far as a handler (item 14). In the modelled parts:
contents of packets beyond what decides a branch; panics in GPCM handlers; TCP flow control;
`PacketCount`; sessions of different cookies and addresses, which share nothing but the map;
the files and ghosts of Sake and the SQL that a record filter becomes; the scanner of the
filter language and its "like"; the arithmetic of friend codes; the reflection
that turns fields of messages into structures.

## 7. Plan

In this order:

1. Abstract specifications: what a friend sees (for `Presence`) and what a negotiation
   promises a pair (for `Natneg`), with refinement.
2. A composition of `Presence` with the session table of `Gpcm`: a connection that logs in
   under a second profile, and restarts.
3. A proof of `ListIsExact`, first for filters without brackets.
4. Files and ghosts of Sake; the SQL of record filters against `Meaning`.
