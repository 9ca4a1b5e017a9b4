------------------------------- MODULE Natneg -------------------------------
(***************************************************************************)
(* The NAT negotiation server (natneg/): consoles that share a cookie      *)
(* register by UDP, the server pairs them, tells each the address of the   *)
(* other until it acknowledges, and collects their reports until every     *)
(* pair has been tried.                                                    *)
(*                                                                         *)
(* Every packet is handled by a goroutine of its own, which looks up the   *)
(* session under the global mutex and handles the packet later, under the  *)
(* session's mutex: packets overtake each other, and the session may close *)
(* in between.  The connect requests are sent by goroutines that read the  *)
(* clients without any lock.  One cookie is modelled; sessions under it    *)
(* are numbered in the order of their creation.                            *)
(***************************************************************************)
EXTENDS Naturals, FiniteSets, SequencesExt

CONSTANTS Clients,      \* client indexes
          Consoles,     \* the indexes that some console uses
          Games,        \* game names
          Results,      \* what a client reports; the code tells 1 from the rest
          Kinds,        \* kinds of packets the consoles send
          GamePorts,    \* values of "use game port" in the consoles' init packets
          None,         \* nothing
          Orderly,      \* the clients that have one packet at a time under way
          Restarts,     \* TRUE: the backend is restarted from its saved state
          MaxSessions,  \* bound on the sessions created
          MaxPackets    \* bound on the packets being handled at a time

ASSUME NatnegAssumption ==
  /\ None \notin Clients \cup Games \cup Results
  /\ Kinds \subseteq {"init", "ack", "report", "other"}
  /\ GamePorts \subseteq BOOLEAN
  /\ Consoles \subseteq Clients /\ Orderly \subseteq Clients /\ Restarts \in BOOLEAN
  /\ MaxSessions \in Nat \ {0} /\ MaxPackets \in Nat \ {0}

VARIABLES
  current,    \* sessions[cookie]: the number of the session, or 0
  created,    \* number of sessions created
  open,       \* Open of each session
  clients,    \* Clients of each session
  timer,      \* closing of each session: waits 30 s, is half done, or neither
  work,       \* packets that have a session and wait for its mutex
  senders,    \* the goroutines of sendConnectRequests
  revived,    \* ghost: the sessions that were loaded from the saved state
  got         \* the peer each console was last told to connect to

vars == <<current, created, open, clients, timer, work, senders, revived, got>>

Numbers == 1 .. MaxSessions

\* addrs: which of NegotiateIP and ServerIP are set; to: ConnectingIndex.
Client == [game : Games, addrs : SUBSET {"negotiate", "server"}, to : Clients, ack : BOOLEAN,
           result : [Clients -> Results \cup {None}]]

ASSUME NoneAssumption == None \notin Client

\* A report does not say which peer it is about; the console knows.
Packet == [kind : {"init"}, from : Clients, addrs : SUBSET {"negotiate", "server"}, game : Games]
          \cup [kind : {"ack"}, from : Clients]
          \cup [kind : {"report"}, from : Clients, result : Results, about : Clients]
          \cup [kind : {"other"}, from : Clients]

\* half: the goroutine is about to look at the destination, or at the sender; check:
\* what it found at the destination.
Sender == [n : Numbers, s : Clients, d : Clients, half : {"destination", "sender"},
           check : BOOLEAN]

TypeOK ==
  /\ current \in 0 .. MaxSessions
  /\ created \in 0 .. MaxSessions
  /\ open \in [Numbers -> BOOLEAN]
  /\ clients \in [Numbers -> [Clients -> Client \cup {None}]]
  /\ timer \in [Numbers -> {"none", "pending", "closing"}]
  /\ work \subseteq [n : Numbers, p : Packet]
  /\ senders \subseteq Sender
  /\ revived \subseteq Numbers
  /\ got \in [Clients -> Clients \cup {None}]

Init ==
  /\ current = 0
  /\ created = 0
  /\ open = [n \in Numbers |-> FALSE]
  /\ clients = [n \in Numbers |-> [c \in Clients |-> None]]
  /\ timer = [n \in Numbers |-> "none"]
  /\ work = {}
  /\ senders = {}
  /\ revived = {}
  /\ got = [c \in Clients |-> None]

-----------------------------------------------------------------------------
(* A packet arrives: handleConnection up to the session's mutex. *)

Lookup(p) ==
  /\ p.kind \in Kinds
  /\ Cardinality(work) < MaxPackets
  /\ p.from \in Orderly => \A w \in work : w.p.from # p.from
  /\ \/ /\ current # 0
        /\ work' = work \cup {[n |-> current, p |-> p]}
        /\ UNCHANGED <<current, created, open, timer>>
     \/ /\ current = 0
        /\ created < MaxSessions
        /\ created' = created + 1
        /\ current' = created + 1
        /\ open' = [open EXCEPT ![created + 1] = TRUE]
        /\ timer' = [timer EXCEPT ![created + 1] = "pending"]
        /\ work' = work \cup {[n |-> created + 1, p |-> p]}
  /\ UNCHANGED <<clients, senders, revived>>

\* The addresses an init packet tells: one that uses the game port tells the server
\* address from there, and the other address from the other ports.
InitAddrs == UNION {IF use THEN {{"server"}, {"negotiate"}} ELSE {{"negotiate", "server"}} :
                      use \in GamePorts}

\* What a console may send: inits at any time, acknowledgements of connect requests
\* it received, a report of how it went, and packets that are only answered.
SendInit(c) ==
  /\ \E addrs \in InitAddrs, g \in Games :
       Lookup([kind |-> "init", from |-> c, addrs |-> addrs, game |-> g])
  /\ UNCHANGED got

SendAck(c) ==
  /\ got[c] # None
  /\ Lookup([kind |-> "ack", from |-> c])
  /\ UNCHANGED got

SendReport(c) ==
  /\ got[c] # None
  /\ \E r \in Results :
       Lookup([kind |-> "report", from |-> c, result |-> r, about |-> got[c]])
  /\ got' = IF c \in Orderly THEN [got EXCEPT ![c] = None] ELSE got

SendOther(c) ==
  /\ Lookup([kind |-> "other", from |-> c])
  /\ UNCHANGED got

-----------------------------------------------------------------------------
(* sendConnectRequests *)

IsMapped(k) == k # None /\ k.addrs = {"negotiate", "server"}

\* Client i of the session ks is waiting for a peer.
Free(ks, i) == IsMapped(ks[i]) /\ ks[i].to = i

Taken(pairs) == {pair[1] : pair \in pairs} \cup {pair[2] : pair \in pairs}

\* The pairs <<sender, destination>> that sendConnectRequests makes.  Both loops run over a
\* map, and the outer one may meet the clients in any order: rank.  When it comes to a
\* sender that no earlier sender has taken, the inner loop takes every destination that no
\* earlier sender has taken: there is no break.
Pairings(ks) ==
  LET free == {i \in Clients : Free(ks, i)}
      untried == {pair \in free \X free : pair[1] # pair[2] /\ ks[pair[2]].result[pair[1]] = None}
  IN  {pairs \in SUBSET untried :
         \E rank \in Injection(free, 1 .. Cardinality(free)) :
           pairs = {pair \in untried :
                      \A earlier \in {q \in pairs : rank[q[1]] < rank[pair[1]]} :
                        {earlier[1], earlier[2]} \cap {pair[1], pair[2]} = {}}}

\* A destination connects to its sender, and a sender to the destination that the inner
\* loop met last; every pair gets a goroutine.
SendConnectRequests(n, ks) ==
  \E pairs \in Pairings(ks) : \E to \in [Taken(pairs) -> Taken(pairs)] :
    /\ \A i \in Taken(pairs) : <<i, to[i]>> \in pairs \/ <<to[i], i>> \in pairs
    /\ clients' = [clients EXCEPT ![n] =
         [i \in Clients |-> IF i \in Taken(pairs) THEN [ks[i] EXCEPT !.to = to[i], !.ack = FALSE]
                                                  ELSE ks[i]]]
    /\ senders' = senders \cup
         {[n |-> n, s |-> pair[1], d |-> pair[2], half |-> "destination", check |-> FALSE] :
            pair \in pairs}

-----------------------------------------------------------------------------
(* The handlers, under the session's mutex. *)

\* Mutant: ConnectingIndex is left at its zero value, some fixed client.
NewClientZero(c, g) ==
  [game |-> g, addrs |-> {}, to |-> CHOOSE d \in Clients : TRUE, ack |-> FALSE,
   result |-> [d \in Clients |-> None]]

NewClient(c, g) ==
  [game |-> g, addrs |-> {}, to |-> c, ack |-> FALSE, result |-> [d \in Clients |-> None]]

\* A client that joins must play the game of those that are there; the game of one that
\* has joined is overwritten.
HandleInit(n, p) ==
  LET ks == clients[n]
      joins == ks[p.from] = None
      mismatch == joins /\ \E d \in Clients : ks[d] # None /\ ks[d].game # p.game
      before == IF joins THEN NewClient(p.from, p.game) ELSE ks[p.from]
      after == [before EXCEPT !.game = p.game, !.addrs = @ \cup p.addrs]
      joined == [ks EXCEPT ![p.from] = after]
  IN  \/ /\ mismatch
         /\ UNCHANGED <<clients, senders>>
      \/ /\ ~mismatch
         /\ ~IsMapped(after)
         /\ clients' = [clients EXCEPT ![n] = joined]
         /\ UNCHANGED senders
      \/ /\ ~mismatch
         /\ IsMapped(after)
         /\ SendConnectRequests(n, joined)

HandleConnectReply(n, p) ==
  /\ clients' = IF clients[n][p.from] = None THEN clients
                ELSE [clients EXCEPT ![n][p.from].ack = TRUE]
  /\ UNCHANGED senders

\* Mutant: ConnectingIndex is reset before the result is noted.
HandleReportLate(n, p) ==
  LET ks == clients[n]
  IN  SendConnectRequests(n, IF ks[p.from] = None THEN ks
                             ELSE [ks EXCEPT ![p.from].result[p.from] = p.result,
                                             ![p.from].to = p.from, ![p.from].ack = FALSE])

\* Mutant: the remaining requests are not sent.
HandleReportOnly(n, p) ==
  /\ clients' = IF clients[n][p.from] = None THEN clients
                ELSE [clients EXCEPT ![n][p.from].result[clients[n][p.from].to] = p.result,
                                     ![n][p.from].to = p.from, ![n][p.from].ack = FALSE]
  /\ UNCHANGED senders

\* The result is noted for whoever the client is connecting to now.
HandleReport(n, p) ==
  LET ks == clients[n]
      k == ks[p.from]
      noted == IF k = None THEN ks
               ELSE [ks EXCEPT ![p.from] = [k EXCEPT !.result[k.to] = p.result,
                                                     !.to = p.from, !.ack = FALSE]]
  IN  SendConnectRequests(n, noted)

Handle(w) ==
  /\ work' = work \ {w}
  /\ \/ w.p.kind = "init" /\ HandleInit(w.n, w.p)
     \/ w.p.kind = "ack" /\ HandleConnectReply(w.n, w.p)
     \/ w.p.kind = "report" /\ HandleReport(w.n, w.p)
     \/ w.p.kind = "other" /\ UNCHANGED <<clients, senders>>
  /\ UNCHANGED <<current, created, open, timer, revived, got>>

-----------------------------------------------------------------------------
(* The goroutines that send the connect requests. *)

\* Client i has still to acknowledge that it connects to j.  The code reads the two fields
\* one after the other without the lock; whatever it finds is what one look at some
\* moment in between would have found, since pairing sets both.
Unacknowledged(n, i, j) == ~clients[n][i].ack /\ clients[n][i].to = j

\* The datagram reaches the console or is lost.  An orderly console that has just
\* reported does not go back to the same peer.
Deliver(i, j) ==
  \/ UNCHANGED got
  \/ /\ i \in Orderly => \A w \in work : ~(w.p.kind = "report" /\ w.p.from = i)
     /\ got' = [got EXCEPT ![i] = j]

SendToDestination(g) ==
  /\ g.half = "destination"
  /\ \/ /\ ~open[g.n]
        /\ senders' = senders \ {g}
        /\ UNCHANGED got
     \/ /\ open[g.n]
        /\ LET check == Unacknowledged(g.n, g.d, g.s)
           IN  /\ senders' = (senders \ {g}) \cup {[g EXCEPT !.half = "sender", !.check = check]}
               /\ IF check THEN Deliver(g.d, g.s) ELSE UNCHANGED got
  /\ UNCHANGED <<current, created, open, clients, timer, work, revived>>

\* Mutant: the goroutine ends when the sender has acknowledged, whatever it found at the
\* destination.
SendToSenderForgets(g) ==
  /\ g.half = "sender"
  /\ LET check == Unacknowledged(g.n, g.s, g.d)
     IN  /\ senders' = IF check
                         THEN (senders \ {g}) \cup {[g EXCEPT !.half = "destination", !.check = FALSE]}
                         ELSE senders \ {g}
         /\ IF check THEN Deliver(g.s, g.d) ELSE UNCHANGED got
  /\ UNCHANGED <<current, created, open, clients, timer, work, revived>>

SendToSender(g) ==
  /\ g.half = "sender"
  /\ LET check == Unacknowledged(g.n, g.s, g.d)
     IN  /\ senders' = IF g.check \/ check
                         THEN (senders \ {g}) \cup {[g EXCEPT !.half = "destination", !.check = FALSE]}
                         ELSE senders \ {g}
         /\ IF check THEN Deliver(g.s, g.d) ELSE UNCHANGED got
  /\ UNCHANGED <<current, created, open, clients, timer, work, revived>>

-----------------------------------------------------------------------------

\* closeSession, 30 s after the session was made, under the global mutex ...
CloseSession(n) ==
  /\ timer[n] = "pending"
  /\ timer' = [timer EXCEPT ![n] = "closing"]
  /\ open' = [open EXCEPT ![n] = FALSE]
  /\ current' = 0
  /\ UNCHANGED <<created, clients, work, senders, revived, got>>

\* ... and under the session's: the clients that are connecting are told to cancel,
\* which reaches some of them.
CancelClients(n) ==
  /\ timer[n] = "closing"
  /\ timer' = [timer EXCEPT ![n] = "none"]
  /\ \E told \in SUBSET {c \in Clients : clients[n][c] # None /\ clients[n][c].to # c} :
       got' = [c \in Clients |-> IF c \in told THEN None ELSE got[c]]
  /\ UNCHANGED <<current, created, open, clients, work, senders, revived>>

\* Mutant: StartServer loads the sessions and starts no timers.
RestartUntimed ==
  /\ Restarts
  /\ work = {}
  /\ timer' = [n \in Numbers |-> "none"]
  /\ senders' = {}
  /\ revived' = {n \in Numbers : n = current}
  /\ UNCHANGED <<current, created, open, clients, work, got>>

\* Shutdown waits for the handlers (not for timers and senders) and saves the map;
\* StartServer loads it and starts the timers again.
Restart ==
  /\ Restarts
  /\ work = {}
  /\ timer' = [n \in Numbers |-> IF n = current THEN "pending" ELSE "none"]
  /\ senders' = {}
  /\ revived' = {n \in Numbers : n = current}
  /\ UNCHANGED <<current, created, open, clients, work, got>>

Next ==
  \/ \E c \in Consoles : SendInit(c) \/ SendAck(c) \/ SendReport(c) \/ SendOther(c)
  \/ \E w \in work : Handle(w)
  \/ \E g \in senders : SendToDestination(g) \/ SendToSender(g)
  \/ \E n \in Numbers : CloseSession(n) \/ CancelClients(n)
  \/ Restart

Spec == Init /\ [][Next]_vars

\* Handlers and senders run on; of the requests sent to a console again and again one
\* arrives; a console that was told to connect reports in the end how it went.
Fairness ==
  \A c \in Clients :
    /\ WF_vars(\E w \in work : w.p.from = c /\ Handle(w))
    /\ \A d \in Clients :
         WF_vars(\E g \in senders : g.s = c /\ g.d = d /\ (SendToDestination(g) \/ SendToSender(g)))
    /\ SF_vars(\E g \in senders : (SendToDestination(g) \/ SendToSender(g)) /\ got'[c] # got[c])
    /\ SF_vars(SendReport(c))

FairSpec == Spec /\ Fairness

-----------------------------------------------------------------------------
(* Properties *)

\* ConnectingIndex names a client of the session: handleReport follows it without a
\* check, and nothing recovers from the panic a missing one would be.
ConnectingExists ==
  \A n \in Numbers : \A c \in DOMAIN clients[n] :
    clients[n][c] # None => clients[n][clients[n][c].to] # None

\* The sessions are well formed and their indexes can be followed (natneg/main.go, natneg/report.go).
NatnegTypeOK == TypeOK /\ ConnectingExists

\* Whoever is connecting and has not acknowledged is being told: a goroutine for the pair
\* is alive as long as the session is open, although it reads without a lock, may serve
\* a sender with several destinations, and ends on what it has seen of both.  (A restart
\* does not start these goroutines again.)
StillTold ==
  \A n \in Numbers \ revived : \A c \in DOMAIN clients[n] :
    (open[n] /\ clients[n][c] # None /\ ~clients[n][c].ack /\ clients[n][c].to # c) =>
      \E g \in senders : g.n = n /\ {g.s, g.d} = {c, clients[n][c].to}

\* Two clients that wait for a peer have nothing to try with each other any more: every
\* report and every init that could have changed that pairs the clients before the
\* session's mutex is released, in whatever order the map is visited.
NoIdlePair ==
  \A n \in Numbers : \A a, b \in DOMAIN clients[n] :
    (a # b /\ Free(clients[n], a) /\ Free(clients[n], b)) => clients[n][a].result[b] # None

\* A session in the map is open and has its timer, and a pending timer belongs to the
\* session in the map: closing an old session never removes a newer one.
OwnTimer == \A n \in Numbers : (timer[n] = "pending" <=> n = current) /\ (open[n] <=> n = current)

\* If a console has one packet under way at a time, a result noted for a pair is one the
\* console reported about that pair.  (Within one session: a console that reports about a
\* peer of a session that was closed is credited with the peer of the next one.)
RealResult ==
  \A w \in work \ work' : \A d \in Clients :
    (w.p.kind = "report" /\ w.p.from \in Orderly /\ clients[w.n][w.p.from] # None
       /\ clients'[w.n][w.p.from].result[d] # clients[w.n][w.p.from].result[d])
    => w.p.about = d

ResultIsReal == [][RealResult]_vars

\* Two clients that have told their addresses try each other, and both results arrive,
\* unless the session ends or a restart comes first: no client is left waiting for a peer
\* that waits too, whatever the map order in which they are paired and whichever requests
\* are lost.
AllNegotiated ==
  \A n \in Numbers : \A a, b \in Orderly :
    (a # b /\ open[n] /\ IsMapped(clients[n][a]) /\ IsMapped(clients[n][b]))
      ~> (~open[n] \/ n \in revived \/ (IsMapped(clients[n][a]) /\ clients[n][a].result[b] # None))
=============================================================================
