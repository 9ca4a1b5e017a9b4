---------------------------- MODULE NatnegProofs ----------------------------
(***************************************************************************)
(* Proofs about the sessions of NAT negotiation, for any clients, games,   *)
(* packets under way and number of sessions of one cookie: each session    *)
(* has its own timer, its clients are well formed, whoever has still to    *)
(* acknowledge is being told, no two clients wait that could try each      *)
(* other, and, within one session, results are noted for the right pair.   *)
(***************************************************************************)
EXTENDS Natneg, TLAPS

-----------------------------------------------------------------------------
(* Sessions and timers. *)

\* A session that has not been created has no timer and is not open.
NotYetCreated ==
  /\ created \in Nat
  /\ current \in 0 .. created
  /\ \A n \in Numbers : n > created => timer[n] = "none" /\ ~open[n]

TableOK ==
  /\ open \in [Numbers -> BOOLEAN]
  /\ timer \in [Numbers -> {"none", "pending", "closing"}]

TimerInv == TableOK /\ NotYetCreated /\ OwnTimer

\* The steps that leave the table of sessions alone.
LEMMA TableUnchanged ==
  ASSUME TimerInv, UNCHANGED <<current, created, open, timer>>
  PROVE  TimerInv'
  BY DEF TimerInv, TableOK, NotYetCreated, OwnTimer

\* A session is made for the first packet after the last one was removed.
LEMMA LookupTimer ==
  ASSUME NEW p, TimerInv, Lookup(p)
  PROVE  TimerInv'
  <1> USE NatnegAssumption DEF Numbers
  <1>1. CASE current # 0
    <2>1. UNCHANGED <<current, created, open, timer>>
      BY <1>1 DEF Lookup
    <2> QED
      BY <2>1, TableUnchanged
  <1>2. CASE current = 0
    <2>1. /\ created < MaxSessions
          /\ created' = created + 1
          /\ current' = created + 1
          /\ open' = [open EXCEPT ![created + 1] = TRUE]
          /\ timer' = [timer EXCEPT ![created + 1] = "pending"]
      BY <1>2 DEF Lookup
    <2>2. created + 1 \in Numbers
      BY <2>1 DEF TimerInv, NotYetCreated
    <2>3. TableOK'
      BY <2>1 DEF TimerInv, TableOK
    <2>4. NotYetCreated'
      BY <2>1, <2>2 DEF TimerInv, NotYetCreated, TableOK
    <2>5. OwnTimer'
      BY <1>2, <2>1, <2>2 DEF TimerInv, NotYetCreated, TableOK, OwnTimer
    <2> QED
      BY <2>3, <2>4, <2>5 DEF TimerInv
  <1> QED
    BY <1>1, <1>2

LEMMA TimerStep == TimerInv /\ [Next]_vars => TimerInv'
  <1> SUFFICES ASSUME TimerInv, [Next]_vars PROVE TimerInv'
    OBVIOUS
  <1> USE DEF Numbers
  <1>1. CASE UNCHANGED vars
    BY <1>1, TableUnchanged DEF vars
  <1>2. ASSUME NEW c \in Consoles, SendInit(c) \/ SendAck(c) \/ SendReport(c) \/ SendOther(c)
        PROVE  TimerInv'
    BY <1>2, LookupTimer DEF SendInit, SendAck, SendReport, SendOther
  <1>3. ASSUME NEW w \in work, Handle(w)
        PROVE  TimerInv'
    <2>1. UNCHANGED <<current, created, open, timer>>
      BY <1>3 DEF Handle
    <2> QED
      BY <2>1, TableUnchanged
  <1>4. ASSUME NEW g \in senders, SendToDestination(g) \/ SendToSender(g)
        PROVE  TimerInv'
    <2>1. UNCHANGED <<current, created, open, timer>>
      BY <1>4 DEF SendToDestination, SendToSender
    <2> QED
      BY <2>1, TableUnchanged
  <1>5. ASSUME NEW n \in Numbers, CloseSession(n)
        PROVE  TimerInv'
    BY <1>5, NatnegAssumption DEF CloseSession, TimerInv, TableOK, NotYetCreated, OwnTimer
  <1>6. ASSUME NEW n \in Numbers, CancelClients(n)
        PROVE  TimerInv'
    BY <1>6, NatnegAssumption DEF CancelClients, TimerInv, TableOK, NotYetCreated, OwnTimer
  <1>7. CASE Restart
    BY <1>7, NatnegAssumption DEF Restart, TimerInv, TableOK, NotYetCreated, OwnTimer
  <1> QED
    BY <1>1, <1>2, <1>3, <1>4, <1>5, <1>6, <1>7 DEF Next

\* Every session in the map of natneg/main.go is open and has exactly one timer, the one
\* that will close it; closeSession of an old session never removes a newer one of the
\* same cookie, through expiry, packets that come late, and restarts.
THEOREM TimersAreOwn == Spec => []OwnTimer
  <1>1. Init => TimerInv
    BY NatnegAssumption DEF Init, TimerInv, TableOK, NotYetCreated, OwnTimer, Numbers
  <1>2. TimerInv => OwnTimer
    BY DEF TimerInv
  <1> QED
    BY <1>1, <1>2, TimerStep, PTL DEF Spec

-----------------------------------------------------------------------------
(* Pairing: what SendConnectRequests does to a session.                    *)

Session == [Clients -> Client \cup {None}]

\* ConnectingExists and NoIdlePair, of one session.
Follows(ks) == \A c \in Clients : ks[c] # None => ks[ks[c].to] # None

NoIdle(ks) ==
  \A a, b \in Clients : (a # b /\ Free(ks, a) /\ Free(ks, b)) => ks[a].result[b] # None

\* The goroutine g is about to look at client c, which connects to d, again.
Serves(g, n, c, d) ==
  /\ g.n = n
  /\ (g.s = c /\ g.d = d) \/ (g.d = c /\ g.s = d)
  /\ g.half = "destination" \/ g.check \/ g.s = c

\* A goroutine that the session n has just started, for two of its clients.
Started(g, n) ==
  /\ g \in Sender /\ g.n = n /\ g.s # g.d
  /\ clients'[n][g.s] # None /\ clients'[n][g.d] # None

\* The pairs are between different clients that wait, and two that still wait have
\* nothing to try.
LEMMA PairingFacts ==
  ASSUME NEW ks, NEW pairs \in Pairings(ks)
  PROVE  /\ \A pair \in pairs : pair = <<pair[1], pair[2]>>
         /\ \A pair \in pairs : pair[1] \in Clients /\ pair[2] \in Clients /\ pair[1] # pair[2]
         /\ \A pair \in pairs : Free(ks, pair[1]) /\ Free(ks, pair[2])
         /\ \A a, b \in Clients \ Taken(pairs) :
              (a # b /\ Free(ks, a) /\ Free(ks, b)) => ks[a].result[b] # None
  <1> DEFINE free == {i \in Clients : Free(ks, i)}
             untried == {pair \in free \X free : pair[1] # pair[2] /\ ks[pair[2]].result[pair[1]] = None}
  <1>1. PICK rank \in Injection(free, 1 .. Cardinality(free)) :
          pairs = {pair \in untried :
                      \A earlier \in {q \in pairs : rank[q[1]] < rank[pair[1]]} :
                        {earlier[1], earlier[2]} \cap {pair[1], pair[2]} = {}}
    BY DEF Pairings
  <1>2. \A pair \in pairs : pair \in untried
    BY <1>1
  <1>3. ASSUME NEW a \in Clients \ Taken(pairs), NEW b \in Clients \ Taken(pairs),
               a # b, Free(ks, a), Free(ks, b), ks[a].result[b] = None
        PROVE  FALSE
    <2>1. <<b, a>> \in untried
      BY <1>3
    <2>2. \A q \in pairs : {q[1], q[2]} \cap {b, a} = {}
      BY <1>3 DEF Taken
    <2>3. <<b, a>> \in pairs
      BY <1>1, <2>1, <2>2
    <2> QED
      BY <2>2, <2>3
  <1> QED
    BY <1>2, <1>3

LEMMA ClientPaired ==
  ASSUME NEW k \in Client, NEW d \in Clients
  PROVE  /\ [k EXCEPT !.to = d, !.ack = FALSE] \in Client
         /\ [k EXCEPT !.to = d, !.ack = FALSE].to = d
         /\ [k EXCEPT !.to = d, !.ack = FALSE].result = k.result
  BY DEF Client

\* What a session becomes: it has the same clients; one that is paired was waiting, and
\* has a new goroutine.
Paired(n, ks, new) ==
  /\ \A c \in Clients : new[c] = None <=> ks[c] = None
  /\ \A c \in Clients : new[c] = ks[c] \/
       /\ ks[c] # None
       /\ ks[c].to = c
       /\ new[c].to # c
       /\ ks[new[c].to] # None
       /\ new[c].result = ks[c].result
       /\ \E g \in senders' : Serves(g, n, c, new[c].to)
  /\ NoIdle(new)

LEMMA PairsClients ==
  ASSUME NEW n \in Numbers, NEW ks \in Session, clients \in [Numbers -> Session], senders \subseteq Sender,
         SendConnectRequests(n, ks)
  PROVE  /\ \E new \in Session : clients' = [clients EXCEPT ![n] = new] /\ Paired(n, ks, new)
         /\ senders \subseteq senders'
         /\ \A g \in senders' \ senders : Started(g, n)
  <1>0. PICK pairs \in Pairings(ks) :
          \E to \in [Taken(pairs) -> Taken(pairs)] :
            /\ \A i \in Taken(pairs) : <<i, to[i]>> \in pairs \/ <<to[i], i>> \in pairs
            /\ clients' = [clients EXCEPT ![n] =
                 [i \in Clients |-> IF i \in Taken(pairs) THEN [ks[i] EXCEPT !.to = to[i], !.ack = FALSE]
                                                          ELSE ks[i]]]
            /\ senders' = senders \cup
                 {[n |-> n, s |-> pair[1], d |-> pair[2], half |-> "destination", check |-> FALSE] :
                    pair \in pairs}
    BY DEF SendConnectRequests
  <1>1. PICK to \in [Taken(pairs) -> Taken(pairs)] :
          /\ \A i \in Taken(pairs) : <<i, to[i]>> \in pairs \/ <<to[i], i>> \in pairs
          /\ clients' = [clients EXCEPT ![n] =
               [i \in Clients |-> IF i \in Taken(pairs) THEN [ks[i] EXCEPT !.to = to[i], !.ack = FALSE]
                                                        ELSE ks[i]]]
          /\ senders' = senders \cup
               {[n |-> n, s |-> pair[1], d |-> pair[2], half |-> "destination", check |-> FALSE] :
                  pair \in pairs}
    BY <1>0
  <1> DEFINE new == [i \in Clients |-> IF i \in Taken(pairs) THEN [ks[i] EXCEPT !.to = to[i], !.ack = FALSE]
                                                             ELSE ks[i]]
  <1>2. /\ \A pair \in pairs : pair = <<pair[1], pair[2]>>
        /\ \A pair \in pairs : pair[1] \in Clients /\ pair[2] \in Clients /\ pair[1] # pair[2]
        /\ \A pair \in pairs : Free(ks, pair[1]) /\ Free(ks, pair[2])
        /\ \A a, b \in Clients \ Taken(pairs) :
             (a # b /\ Free(ks, a) /\ Free(ks, b)) => ks[a].result[b] # None
    BY PairingFacts
  <1>3. \A i \in Taken(pairs) :
          i \in Clients /\ Free(ks, i) /\ ks[i] \in Client /\ ks[i] # None /\ ks[i].to = i
    BY <1>2 DEF Taken, Free, IsMapped, Session
  <1>4. \A i \in Taken(pairs) : to[i] \in Taken(pairs) /\ to[i] # i
    <2> TAKE i \in Taken(pairs)
    <2>1. CASE <<i, to[i]>> \in pairs
      BY <2>1, <1>2
    <2>2. CASE <<to[i], i>> \in pairs
      BY <2>2, <1>2
    <2> QED
      BY <1>1, <2>1, <2>2
  <1>5. \A i \in Taken(pairs) :
          /\ new[i] \in Client
          /\ new[i].to = to[i]
          /\ new[i].result = ks[i].result
          /\ new[i] # None
    <2> TAKE i \in Taken(pairs)
    <2>1. new[i] = [ks[i] EXCEPT !.to = to[i], !.ack = FALSE]
      BY <1>3
    <2>2. new[i] \in Client /\ new[i].to = to[i] /\ new[i].result = ks[i].result
      BY <2>1, <1>3, <1>4, ClientPaired, ZenonT(60)
    <2> QED
      BY <2>2, NoneAssumption
  <1>6. new \in Session
    BY <1>5 DEF Session
  <1> DEFINE Goroutine(s, d) == [n |-> n, s |-> s, d |-> d, half |-> "destination", check |-> FALSE]
  <1>s. senders' = senders \cup {Goroutine(pair[1], pair[2]) : pair \in pairs}
    BY <1>1
  <1>g. \A s, d \in Clients : Goroutine(s, d) \in Sender /\ Goroutine(s, d).s = s /\ Goroutine(s, d).d = d
    BY DEF Sender
  <1>t. \A s, d : <<s, d>> \in pairs => Goroutine(s, d) \in senders'
    <2> SUFFICES ASSUME NEW s, NEW d, <<s, d>> \in pairs PROVE Goroutine(s, d) \in senders'
      OBVIOUS
    <2>1. Goroutine(<<s, d>>[1], <<s, d>>[2]) \in senders'
      <3> HIDE DEF Goroutine
      <3> QED BY <1>s
    <2> QED
      BY <2>1
  <1>7. \A i \in Taken(pairs) : \E g \in senders' : Serves(g, n, i, to[i])
    <2> TAKE i \in Taken(pairs)
    <2>1. CASE <<i, to[i]>> \in pairs
      <3>1. Goroutine(i, to[i]) \in senders'
        BY <1>t, <2>1
      <3> QED
        BY <3>1 DEF Serves
    <2>2. CASE <<to[i], i>> \in pairs
      <3>1. Goroutine(to[i], i) \in senders'
        BY <1>t, <2>2
      <3> QED
        BY <3>1 DEF Serves
    <2> QED
      BY <1>1, <2>1, <2>2
  <1>8. NoIdle(new)
    <2> SUFFICES ASSUME NEW a \in Clients, NEW b \in Clients, a # b, Free(new, a), Free(new, b)
                 PROVE  new[a].result[b] # None
      BY ZenonT(60) DEF NoIdle
    <2>1. a \notin Taken(pairs) /\ b \notin Taken(pairs)
      BY <1>4, <1>5, ZenonT(60) DEF Free
    <2>2. new[a] = ks[a] /\ new[b] = ks[b]
      BY <2>1
    <2> QED
      BY <1>2, <2>1, <2>2 DEF Free
  <1>9. Paired(n, ks, new)
    <2>1. \A c \in Clients : c \notin Taken(pairs) => new[c] = ks[c]
      OBVIOUS
    <2> HIDE DEF new
    <2>2. \A c \in Clients : new[c] = None <=> ks[c] = None
      BY <1>3, <1>5, <2>1
    <2>3. ASSUME NEW c \in Clients, new[c] # ks[c]
          PROVE  /\ ks[c] # None
                 /\ ks[c].to = c
                 /\ new[c].to # c
                 /\ ks[new[c].to] # None
                 /\ new[c].result = ks[c].result
                 /\ \E g \in senders' : Serves(g, n, c, new[c].to)
      BY <2>1, <2>3, <1>3, <1>4, <1>5, <1>7
    <2> QED
      BY <2>2, <2>3, <1>8 DEF Paired
  <1>10. \A g \in senders' \ senders : Started(g, n)
    <2> SUFFICES ASSUME NEW g \in senders' \ senders PROVE Started(g, n)
      OBVIOUS
    <2>1. PICK pair \in pairs : g = Goroutine(pair[1], pair[2])
      BY <1>s
    <2>2. g \in Sender /\ g.n = n /\ g.s = pair[1] /\ g.d = pair[2]
      BY <2>1, <1>2, <1>g
    <2>3. pair[1] \in Taken(pairs) /\ pair[2] \in Taken(pairs)
      BY DEF Taken
    <2>4. clients'[n] = new
      BY <1>1
    <2> HIDE DEF new
    <2> QED
      BY <2>2, <2>3, <2>4, <1>2, <1>5 DEF Started
  <1> QED
    BY <1>1, <1>6, <1>9, <1>10

-----------------------------------------------------------------------------
(* The handlers: what a packet does to the session it found.               *)

\* The session n may become ks when it handles p: indexes are followed safely; whoever has
\* still to be told had to be told the same before, or has a goroutine; ConnectingIndex
\* changes only for who waits or reports; and a report is noted for one peer only.
Handled(n, p, ks) ==
  LET old == clients[n] IN
  /\ Follows(ks)
  /\ \A c \in Clients :
       (ks[c] # None /\ ~ks[c].ack /\ ks[c].to # c) =>
         \/ old[c] # None /\ ~old[c].ack /\ old[c].to = ks[c].to
         \/ \E g \in senders' : Serves(g, n, c, ks[c].to)
  /\ \A c \in Clients :
       old[c] # None =>
         /\ ks[c] # None
         /\ ks[c].to = old[c].to \/ old[c].to = c \/ (p.kind = "report" /\ p.from = c)
         /\ \A d \in Clients : ks[c].result[d] # old[c].result[d] => d = old[c].to

LEMMA HandledThenPaired ==
  ASSUME NEW n \in Numbers, NEW p, NEW ks \in Session, NEW new \in Session,
         clients[n] \in Session, Handled(n, p, ks), Paired(n, ks, new)
  PROVE  Handled(n, p, new) /\ NoIdle(new)
  <1>0. \A c \in Clients : ks[c] # None => ks[c] \in Client /\ ks[c].to \in Clients
    BY DEF Session, Client
  <1>a. \A c \in Clients : new[c] # None => new[c] \in Client /\ new[c].to \in Clients
    BY DEF Session, Client
  <1>1. Follows(new)
    <2> SUFFICES ASSUME NEW c \in Clients, new[c] # None PROVE new[new[c].to] # None
      BY DEF Follows
    <2> QED
      BY <1>0, <1>a DEF Handled, Follows, Paired
  <1>2. ASSUME NEW c \in Clients, new[c] # None, ~new[c].ack, new[c].to # c
        PROVE  \/ clients[n][c] # None /\ ~clients[n][c].ack /\ clients[n][c].to = new[c].to
               \/ \E g \in senders' : Serves(g, n, c, new[c].to)
    BY <1>2 DEF Handled, Paired
  <1>3. ASSUME NEW c \in Clients, clients[n][c] # None
        PROVE  /\ new[c] # None
               /\ new[c].to = clients[n][c].to \/ clients[n][c].to = c \/ (p.kind = "report" /\ p.from = c)
               /\ \A d \in Clients : new[c].result[d] # clients[n][c].result[d] => d = clients[n][c].to
    BY <1>3 DEF Handled, Paired
  <1> QED
    BY <1>1, <1>2, <1>3 DEF Handled, Paired

\* What the invariant says of the clients of a session.
SessionOK(n) == clients[n] \in Session /\ Follows(clients[n]) /\ NoIdle(clients[n])

\* A handler that pairs: it suffices to look at the session before the pairing.
LEMMA HandledByPairing ==
  ASSUME NEW n \in Numbers, NEW p, NEW ks \in Session, clients \in [Numbers -> Session],
         senders \subseteq Sender, SendConnectRequests(n, ks), Handled(n, p, ks)
  PROVE  \E new \in Session :
           clients' = [clients EXCEPT ![n] = new] /\ Handled(n, p, new) /\ NoIdle(new)
  BY PairsClients, HandledThenPaired

LEMMA JoinedIsClient ==
  ASSUME NEW c \in Clients, NEW g \in Games
  PROVE  NewClient(c, g) \in Client /\ NewClient(c, g).to = c
  BY DEF NewClient, Client

\* A client after an init packet, and after a report.
AfterInit(k, g, a) == [k EXCEPT !.game = g, !.addrs = @ \cup a]

AfterReport(k, r, c) == [k EXCEPT !.result[k.to] = r, !.to = c, !.ack = FALSE]

LEMMA ClientAfterInit ==
  ASSUME NEW k \in Client, NEW g \in Games, NEW a \in SUBSET {"negotiate", "server"}
  PROVE  /\ AfterInit(k, g, a) \in Client
         /\ AfterInit(k, g, a).to = k.to
         /\ AfterInit(k, g, a).ack = k.ack
         /\ AfterInit(k, g, a).result = k.result
  BY DEF Client, AfterInit

LEMMA InitHandled ==
  ASSUME NEW n \in Numbers, NEW p \in Packet, p.kind = "init", SessionOK(n),
         clients \in [Numbers -> Session], senders \subseteq Sender, HandleInit(n, p)
  PROVE  \E new \in Session :
           clients' = [clients EXCEPT ![n] = new] /\ Handled(n, p, new) /\ NoIdle(new)
  <1> DEFINE ks == clients[n]
             joins == ks[p.from] = None
             mismatch == joins /\ \E d \in Clients : ks[d] # None /\ ks[d].game # p.game
             before == IF joins THEN NewClient(p.from, p.game) ELSE ks[p.from]
             after == [before EXCEPT !.game = p.game, !.addrs = @ \cup p.addrs]
             joined == [ks EXCEPT ![p.from] = after]
  <1>1. p.from \in Clients /\ p.game \in Games /\ p.addrs \in SUBSET {"negotiate", "server"}
    BY DEF Packet
  <1>2. ks \in Session
    OBVIOUS
  <1>3. /\ before \in Client
        /\ ks[p.from] = None => before.to = p.from
        /\ ks[p.from] # None => before = ks[p.from]
    BY <1>1, JoinedIsClient DEF Session
  <1>4. after \in Client /\ after.to = before.to /\ after.ack = before.ack /\ after.result = before.result
    <2>1. after = AfterInit(before, p.game, p.addrs)
      BY DEF AfterInit
    <2> HIDE DEF before, after
    <2> QED
      BY <1>1, <1>3, <2>1, ClientAfterInit
  <1> HIDE DEF before, after
  <1>5. joined \in Session
    BY <1>1, <1>4 DEF Session
  <1>6. joined[p.from] = after /\ \A c \in Clients : c # p.from => joined[c] = ks[c]
    BY <1>1 DEF Session
  <1>7. after # None
    BY <1>4, NoneAssumption
  <1>8. Handled(n, p, joined)
    <2> HIDE DEF joined
    <2>0. \A c \in Clients : ks[c] # None => ks[c].to \in Clients
      BY <1>2 DEF Session, Client
    <2>1. Follows(joined)
      <3> SUFFICES ASSUME NEW c \in Clients, joined[c] # None PROVE joined[joined[c].to] # None
        BY DEF Follows
      <3>1. CASE joined[c].to = p.from
        BY <3>1, <1>6, <1>7
      <3>2. CASE joined[c].to # p.from
        BY <3>2, <1>1, <1>3, <1>4, <1>6, <2>0 DEF SessionOK, Follows
      <3> QED
        BY <3>1, <3>2
    <2>2. \A c \in Clients : ks[c] # None =>
            joined[c] # None /\ joined[c].to = ks[c].to /\ joined[c].ack = ks[c].ack
              /\ joined[c].result = ks[c].result
      BY <1>3, <1>4, <1>6, <1>7
    <2>3. \A c \in Clients : ks[c] = None => joined[c] = None \/ joined[c].to = c
      BY <1>3, <1>4, <1>6
    <2> QED
      BY <2>1, <2>2, <2>3 DEF Handled
  <1>9. CASE mismatch
    <2>1. clients' = clients /\ senders' = senders
      BY <1>9 DEF HandleInit, before, after
    <2>2. clients' = [clients EXCEPT ![n] = clients[n]]
      BY <2>1
    <2>3. Handled(n, p, clients[n])
      BY DEF Handled, SessionOK
    <2> QED
      BY <2>2, <2>3 DEF SessionOK
  <1>10. CASE ~mismatch /\ ~IsMapped(after)
    <2>1. clients' = [clients EXCEPT ![n] = joined]
      BY <1>10 DEF HandleInit, before, after
    <2>2. NoIdle(joined)
      <3> HIDE DEF joined
      <3> SUFFICES ASSUME NEW a \in Clients, NEW b \in Clients, a # b, Free(joined, a), Free(joined, b)
                   PROVE  joined[a].result[b] # None
        BY DEF NoIdle
      <3>1. a # p.from /\ b # p.from
        BY <1>10, <1>6 DEF Free
      <3> QED
        BY <3>1, <1>6 DEF SessionOK, NoIdle, Free
    <2> QED
      BY <2>1, <2>2, <1>5, <1>8
  <1>11. CASE ~mismatch /\ IsMapped(after)
    <2>1. SendConnectRequests(n, joined)
      BY <1>11 DEF HandleInit, before, after
    <2> HIDE DEF joined
    <2> QED
      BY <2>1, <1>2, <1>5, <1>8, HandledByPairing
  <1> QED
    BY <1>9, <1>10, <1>11

LEMMA ReplyHandled ==
  ASSUME NEW n \in Numbers, NEW p \in Packet, SessionOK(n),
         clients \in [Numbers -> Session], HandleConnectReply(n, p)
  PROVE  \E new \in Session :
           clients' = [clients EXCEPT ![n] = new] /\ Handled(n, p, new) /\ NoIdle(new)
  <1> DEFINE ks == clients[n]
  <1>0. p.from \in Clients
    BY DEF Packet
  <1>1. CASE ks[p.from] = None
    <2>1. clients' = clients
      BY <1>1 DEF HandleConnectReply
    <2>2. clients' = [clients EXCEPT ![n] = clients[n]]
      BY <2>1
    <2>3. Handled(n, p, clients[n])
      BY DEF Handled, SessionOK
    <2> QED
      BY <2>2, <2>3 DEF SessionOK
  <1>2. CASE ks[p.from] # None
    <2> DEFINE acked == [ks[p.from] EXCEPT !.ack = TRUE]
               new == [ks EXCEPT ![p.from] = acked]
    <2>1. clients' = [clients EXCEPT ![n] = new]
      BY <1>2 DEF HandleConnectReply
    <2>2. ks[p.from] \in Client
      BY <1>0, <1>2 DEF Session
    <2>3. /\ acked \in Client
          /\ acked.ack
          /\ acked.to = ks[p.from].to
          /\ acked.addrs = ks[p.from].addrs
          /\ acked.result = ks[p.from].result
      <3> HIDE DEF ks
      <3> QED
        BY <2>2 DEF Client
    <2> HIDE DEF acked
    <2>4. new \in Session
      BY <1>0, <2>3 DEF Session
    <2>5. new[p.from] = acked /\ \A c \in Clients : c # p.from => new[c] = ks[c]
      BY <1>0 DEF Session
    <2>6. acked # None
      BY <2>3, NoneAssumption
    <2> HIDE DEF new
    <2>7. \A c \in Clients : /\ new[c] = None <=> ks[c] = None
                             /\ ks[c] # None => new[c].to = ks[c].to /\ new[c].result = ks[c].result
                                                  /\ new[c].addrs = ks[c].addrs
                             /\ new[c] # None => new[c].ack \/ new[c] = ks[c]
      BY <1>2, <2>3, <2>5, <2>6
    <2>8. \A c \in Clients : ks[c] # None => ks[c].to \in Clients
      BY DEF Session, Client
    <2>9. Handled(n, p, new)
      <3>1. Follows(new)
        BY <2>7, <2>8 DEF Follows, SessionOK
      <3> QED
        BY <3>1, <2>7 DEF Handled
    <2>10. NoIdle(new)
      BY <2>7 DEF NoIdle, Free, IsMapped, SessionOK
    <2> QED
      BY <2>1, <2>4, <2>9, <2>10
  <1> QED
    BY <1>1, <1>2

LEMMA ClientAfterReport ==
  ASSUME NEW k \in Client, NEW c \in Clients, NEW r \in Results
  PROVE  /\ AfterReport(k, r, c) \in Client
         /\ AfterReport(k, r, c).to = c
         /\ \A d \in Clients : AfterReport(k, r, c).result[d] # k.result[d] => d = k.to
  <1> DEFINE after == AfterReport(k, r, c)
  <1>1. k.to \in Clients /\ k.result \in [Clients -> Results \cup {None}]
    BY DEF Client
  <1>2. after.result = [k.result EXCEPT ![k.to] = r]
    BY DEF Client, AfterReport
  <1>3. after.to = c
    BY DEF Client, AfterReport
  <1>4. after.result \in [Clients -> Results \cup {None}]
    BY <1>1, <1>2
  <1>5. after = [k EXCEPT !.result = after.result, !.to = c, !.ack = FALSE]
    BY DEF Client, AfterReport
  <1>6. after \in Client
    BY <1>4, <1>5 DEF Client
  <1> QED
    BY <1>1, <1>2, <1>3, <1>6

LEMMA ReportHandled ==
  ASSUME NEW n \in Numbers, NEW p \in Packet, p.kind = "report", SessionOK(n),
         clients \in [Numbers -> Session], senders \subseteq Sender, HandleReport(n, p)
  PROVE  \E new \in Session :
           clients' = [clients EXCEPT ![n] = new] /\ Handled(n, p, new) /\ NoIdle(new)
  <1> DEFINE ks == clients[n]
             k == ks[p.from]
             reported == [k EXCEPT !.result[k.to] = p.result, !.to = p.from, !.ack = FALSE]
             noted == IF k = None THEN ks ELSE [ks EXCEPT ![p.from] = reported]
  <1>1. p.from \in Clients /\ p.result \in Results
    BY DEF Packet
  <1>2. SendConnectRequests(n, noted)
    BY DEF HandleReport
  <1>3. noted \in Session /\ Handled(n, p, noted)
    <2>1. CASE k = None
      BY <2>1 DEF Handled, SessionOK
    <2>2. CASE k # None
      <3>1. k \in Client
        BY <1>1, <2>2 DEF Session
      <3>2. /\ reported \in Client
            /\ reported.to = p.from
            /\ \A d \in Clients : reported.result[d] # k.result[d] => d = k.to
        <4>1. reported = AfterReport(k, p.result, p.from)
          BY DEF AfterReport
        <4> HIDE DEF reported, k
        <4> QED
          BY <1>1, <3>1, <4>1, ClientAfterReport
      <3> HIDE DEF reported
      <3>3. noted = [ks EXCEPT ![p.from] = reported]
        BY <2>2
      <3>4. noted \in Session
        BY <1>1, <3>2, <3>3 DEF Session
      <3>5. noted[p.from] = reported /\ \A c \in Clients : c # p.from => noted[c] = ks[c]
        BY <1>1, <3>3 DEF Session
      <3>6. reported # None
        BY <3>2, NoneAssumption
      <3> HIDE DEF noted
      <3>7. \A c \in Clients : ks[c] # None => ks[c].to \in Clients
        BY DEF Session, Client
      <3>8. Follows(noted)
        BY <1>1, <3>2, <3>5, <3>6, <3>7 DEF Follows, SessionOK
      <3> QED
        BY <1>1, <3>2, <3>4, <3>5, <3>6, <3>8 DEF Handled
    <2> QED
      BY <2>1, <2>2
  <1> HIDE DEF noted
  <1> QED
    BY <1>2, <1>3, HandledByPairing

-----------------------------------------------------------------------------
(* The invariant.                                                          *)

\* A session that has not been created has no clients and no packets.
Unborn ==
  /\ \A n \in Numbers : n > created => \A c \in Clients : clients[n][c] = None
  /\ \A w \in work : w.n <= created

\* StillTold, and the goroutine will not end before it has looked at the client again.
Telling ==
  \A n \in Numbers \ revived : \A c \in Clients :
    (open[n] /\ clients[n][c] # None /\ ~clients[n][c].ack /\ clients[n][c].to # c) =>
      \E g \in senders : Serves(g, n, c, clients[n][c].to)

SessionsOK == \A n \in Numbers : SessionOK(n)

NatnegInv == TypeOK /\ TimerInv /\ SessionsOK /\ Unborn /\ Telling

\* Every packet leaves its session, and only that one, in a good state, and adds
\* goroutines only.
LEMMA HandleEffect ==
  ASSUME NatnegInv, NEW w \in work, Handle(w)
  PROVE  /\ w.n \in Numbers /\ w.p \in Packet
         /\ \E new \in Session :
              clients' = [clients EXCEPT ![w.n] = new] /\ Handled(w.n, w.p, new) /\ NoIdle(new)
         /\ senders \subseteq senders'
         /\ \A g \in senders' \ senders : Started(g, w.n)
  <1>1. w.n \in Numbers /\ w.p \in Packet
    BY DEF NatnegInv, TypeOK
  <1>2. /\ clients \in [Numbers -> Session]
        /\ senders \subseteq Sender
        /\ SessionOK(w.n)
    BY <1>1 DEF NatnegInv, TypeOK, Session, SessionsOK
  <1>3. CASE w.p.kind = "init" /\ HandleInit(w.n, w.p)
    <2>1. senders \subseteq senders' /\ \A g \in senders' \ senders : Started(g, w.n)
      <3> DEFINE before == IF clients[w.n][w.p.from] = None THEN NewClient(w.p.from, w.p.game)
                                                            ELSE clients[w.n][w.p.from]
                 after == [before EXCEPT !.game = w.p.game, !.addrs = @ \cup w.p.addrs]
                 joined == [clients[w.n] EXCEPT ![w.p.from] = after]
      <3>1. CASE UNCHANGED senders
        BY <3>1
      <3>2. CASE SendConnectRequests(w.n, joined)
        <4>1. w.p.from \in Clients /\ w.p.game \in Games /\ w.p.addrs \in SUBSET {"negotiate", "server"}
          BY <1>1, <1>3 DEF Packet
        <4>2. before \in Client
          BY <1>2, <4>1, JoinedIsClient DEF SessionOK, Session
        <4>3. after = AfterInit(before, w.p.game, w.p.addrs)
          BY DEF AfterInit
        <4> HIDE DEF before, after
        <4>4. joined \in Session
          BY <1>2, <4>1, <4>2, <4>3, ClientAfterInit DEF SessionOK, Session
        <4> HIDE DEF joined
        <4> QED
          BY <1>1, <1>2, <3>2, <4>4, PairsClients
      <3> QED
        BY <1>3, <3>1, <3>2 DEF HandleInit
    <2> QED
      BY <1>1, <1>2, <1>3, <2>1, InitHandled, SMTT(30)
  <1>4. CASE w.p.kind = "ack" /\ HandleConnectReply(w.n, w.p)
    <2>1. senders' = senders
      BY <1>4 DEF HandleConnectReply
    <2> QED
      BY <1>1, <1>2, <1>4, <2>1, ReplyHandled
  <1>5. CASE w.p.kind = "report" /\ HandleReport(w.n, w.p)
    <2> DEFINE k == clients[w.n][w.p.from]
               reported == [k EXCEPT !.result[k.to] = w.p.result, !.to = w.p.from, !.ack = FALSE]
               noted == IF k = None THEN clients[w.n] ELSE [clients[w.n] EXCEPT ![w.p.from] = reported]
    <2>1. SendConnectRequests(w.n, noted)
      BY <1>5 DEF HandleReport
    <2>2. w.p.from \in Clients /\ w.p.result \in Results
      BY <1>1, <1>5 DEF Packet
    <2>3. k # None => k \in Client
      BY <1>2, <2>2 DEF SessionOK, Session
    <2>4. reported = AfterReport(k, w.p.result, w.p.from)
      BY DEF AfterReport
    <2> HIDE DEF reported
    <2>5. noted \in Session
      BY <1>2, <2>2, <2>3, <2>4, ClientAfterReport DEF SessionOK, Session
    <2> HIDE DEF noted
    <2>6. senders \subseteq senders' /\ \A g \in senders' \ senders : Started(g, w.n)
      BY <1>1, <1>2, <2>1, <2>5, PairsClients
    <2> QED
      BY <1>1, <1>2, <1>5, <2>6, ReportHandled
  <1>6. CASE w.p.kind = "other" /\ UNCHANGED <<clients, senders>>
    <2>1. clients' = [clients EXCEPT ![w.n] = clients[w.n]]
      BY <1>2, <1>6
    <2>2. Handled(w.n, w.p, clients[w.n])
      BY <1>2 DEF Handled, SessionOK
    <2> QED
      BY <1>1, <1>2, <1>6, <2>1, <2>2 DEF SessionOK
  <1> QED
    BY <1>3, <1>4, <1>5, <1>6 DEF Handle

\* Steps that change no client and no goroutine, and do not open a session.
LEMMA TellingKept ==
  ASSUME Telling, UNCHANGED <<clients, senders>>, revived \subseteq revived',
         \A n \in Numbers : open'[n] => open[n]
  PROVE  Telling'
  BY DEF Telling, Serves

LEMMA SessionsKept ==
  ASSUME SessionsOK, UNCHANGED clients
  PROVE  SessionsOK'
  BY DEF SessionsOK, SessionOK, Follows, NoIdle, Free, IsMapped, Session

LEMMA LookupStep ==
  ASSUME NatnegInv, NEW p \in Packet, Lookup(p), got' \in [Clients -> Clients \cup {None}]
  PROVE  NatnegInv'
  <1> USE NatnegAssumption DEF Numbers
  <1>1. TimerInv'
    BY LookupTimer DEF NatnegInv
  <1>2. SessionsOK'
    BY SessionsKept DEF NatnegInv, Lookup
  <1>3. CASE current # 0
    <2>1. /\ work' = work \cup {[n |-> current, p |-> p]}
          /\ UNCHANGED <<current, created, open, timer, clients, senders, revived>>
      BY <1>3 DEF Lookup
    <2>2. current \in Numbers /\ current <= created
      BY <1>3 DEF NatnegInv, TypeOK, TimerInv, NotYetCreated
    <2>3. TypeOK'
      BY <2>1, <2>2 DEF NatnegInv, TypeOK
    <2>4. Unborn'
      BY <2>1, <2>2 DEF NatnegInv, Unborn
    <2>5. Telling'
      BY <2>1, TellingKept DEF NatnegInv
    <2> QED
      BY <1>1, <1>2, <2>3, <2>4, <2>5 DEF NatnegInv
  <1>4. CASE current = 0
    <2>1. /\ created < MaxSessions
          /\ created' = created + 1
          /\ current' = created + 1
          /\ open' = [open EXCEPT ![created + 1] = TRUE]
          /\ timer' = [timer EXCEPT ![created + 1] = "pending"]
          /\ work' = work \cup {[n |-> created + 1, p |-> p]}
          /\ UNCHANGED <<clients, senders, revived>>
      BY <1>4 DEF Lookup
    <2>2. created \in Nat /\ created + 1 \in Numbers
      BY <2>1 DEF NatnegInv, TypeOK
    <2>3. TypeOK'
      BY <2>1, <2>2 DEF NatnegInv, TypeOK
    <2>4. Unborn'
      <3>1. \A n \in Numbers : n > created' => \A c \in Clients : clients'[n][c] = None
        BY <2>1, <2>2 DEF NatnegInv, Unborn
      <3>2. \A w \in work : w.n \in Nat /\ w.n <= created
        BY DEF NatnegInv, Unborn, TypeOK
      <3>3. \A w \in work' : w.n <= created'
        BY <2>1, <2>2, <3>2
      <3> QED
        BY <3>1, <3>3 DEF Unborn
    <2>5. Telling'
      <3> SUFFICES ASSUME NEW n \in Numbers \ revived, NEW c \in Clients, open'[n],
                          clients[n][c] # None, ~clients[n][c].ack, clients[n][c].to # c
                   PROVE  \E g \in senders : Serves(g, n, c, clients[n][c].to)
        BY <2>1 DEF Telling
      <3>1. n # created + 1
        BY <2>2 DEF NatnegInv, Unborn
      <3>2. open[n]
        BY <2>1, <2>2, <3>1 DEF NatnegInv, TypeOK
      <3> QED
        BY <3>2 DEF NatnegInv, Telling
    <2> QED
      BY <1>1, <1>2, <2>3, <2>4, <2>5 DEF NatnegInv
  <1> QED
    BY <1>3, <1>4

\* What a console sends is well formed.
LEMMA SendStep ==
  ASSUME NatnegInv, NEW c \in Clients, SendInit(c) \/ SendAck(c) \/ SendReport(c) \/ SendOther(c)
  PROVE  NatnegInv'
  <1>0. got \in [Clients -> Clients \cup {None}]
    BY DEF NatnegInv, TypeOK
  <1>1. CASE SendInit(c)
    <2>1. PICK addrs \in InitAddrs, g \in Games :
            Lookup([kind |-> "init", from |-> c, addrs |-> addrs, game |-> g])
      BY <1>1 DEF SendInit
    <2>2. addrs \in SUBSET {"negotiate", "server"}
      BY NatnegAssumption DEF InitAddrs
    <2>3. [kind |-> "init", from |-> c, addrs |-> addrs, game |-> g] \in Packet
      BY <2>2 DEF Packet
    <2> QED
      BY <1>0, <1>1, <2>1, <2>3, LookupStep DEF SendInit
  <1>2. CASE SendAck(c)
    <2>1. [kind |-> "ack", from |-> c] \in Packet
      BY DEF Packet
    <2> QED
      BY <1>0, <1>2, <2>1, LookupStep DEF SendAck
  <1>3. CASE SendReport(c)
    <2>1. PICK r \in Results : Lookup([kind |-> "report", from |-> c, result |-> r, about |-> got[c]])
      BY <1>3 DEF SendReport
    <2>2. got[c] \in Clients
      BY <1>0, <1>3 DEF SendReport
    <2>3. [kind |-> "report", from |-> c, result |-> r, about |-> got[c]] \in Packet
      BY <2>2 DEF Packet
    <2>4. got' \in [Clients -> Clients \cup {None}]
      BY <1>0, <1>3 DEF SendReport
    <2> QED
      BY <2>1, <2>3, <2>4, LookupStep
  <1>4. CASE SendOther(c)
    <2>1. [kind |-> "other", from |-> c] \in Packet
      BY DEF Packet
    <2> QED
      BY <1>0, <1>4, <2>1, LookupStep DEF SendOther
  <1> QED
    BY <1>1, <1>2, <1>3, <1>4

LEMMA HandleStep ==
  ASSUME NatnegInv, NEW w \in work, Handle(w)
  PROVE  NatnegInv'
  <1>1. /\ w.n \in Numbers
        /\ senders \subseteq senders'
        /\ \A g \in senders' \ senders : g \in Sender
    BY HandleEffect DEF Started
  <1>2. PICK new \in Session :
          clients' = [clients EXCEPT ![w.n] = new] /\ Handled(w.n, w.p, new) /\ NoIdle(new)
    BY HandleEffect
  <1>3. /\ work' = work \ {w}
        /\ UNCHANGED <<current, created, open, timer, revived, got>>
    BY DEF Handle
  <1>4. clients \in [Numbers -> Session]
    BY DEF NatnegInv, TypeOK, Session
  <1>5. /\ clients' \in [Numbers -> Session]
        /\ clients'[w.n] = new
        /\ \A n \in Numbers : n # w.n => clients'[n] = clients[n]
    BY <1>1, <1>2, <1>4
  <1>6. TypeOK'
    BY <1>1, <1>3, <1>5 DEF NatnegInv, TypeOK, Session
  <1>7. TimerInv'
    BY <1>3, TableUnchanged DEF NatnegInv
  <1>8. SessionsOK'
    <2> SUFFICES ASSUME NEW n \in Numbers PROVE SessionOK(n)'
      BY DEF SessionsOK
    <2>1. CASE n = w.n
      <3>1. clients'[n] \in Session /\ Follows(clients'[n]) /\ NoIdle(clients'[n])
        BY <1>2, <1>5, <2>1 DEF Handled
      <3> QED
        BY <3>1 DEF SessionOK, Follows, NoIdle, Free, IsMapped, Session
    <2>2. CASE n # w.n
      <3>1. clients'[n] \in Session /\ Follows(clients'[n]) /\ NoIdle(clients'[n])
        BY <1>5, <2>2 DEF NatnegInv, SessionsOK, SessionOK
      <3> QED
        BY <3>1 DEF SessionOK, Follows, NoIdle, Free, IsMapped, Session
    <2> QED
      BY <2>1, <2>2
  <1>9. Unborn'
    <2>1. w.n <= created /\ created \in Nat
      BY DEF NatnegInv, Unborn, TimerInv, NotYetCreated
    <2>2. \A n \in Numbers : n > created => n # w.n
      BY <1>1, <2>1, NatnegAssumption DEF Numbers
    <2>3. \A v \in work' : v.n <= created'
      BY <1>3 DEF NatnegInv, Unborn
    <2>4. \A n \in Numbers : n > created' => \A c \in Clients : clients'[n][c] = None
      BY <1>3, <1>5, <2>2 DEF NatnegInv, Unborn
    <2> QED
      BY <2>3, <2>4 DEF Unborn
  <1>10. Telling'
    <2> SUFFICES ASSUME NEW n \in Numbers \ revived, NEW c \in Clients, open[n],
                        clients'[n][c] # None, ~clients'[n][c].ack, clients'[n][c].to # c
                 PROVE  \E g \in senders' : Serves(g, n, c, clients'[n][c].to)
      BY <1>3 DEF Telling
    <2>1. CASE n = w.n
      <3>1. CASE \E g \in senders' : Serves(g, n, c, new[c].to)
        BY <3>1, <2>1, <1>5
      <3>2. CASE clients[n][c] # None /\ ~clients[n][c].ack /\ clients[n][c].to = new[c].to
        BY <3>2, <2>1, <1>1, <1>5 DEF NatnegInv, Telling
      <3> QED
        BY <1>2, <1>5, <2>1, <3>1, <3>2 DEF Handled
    <2>2. CASE n # w.n
      BY <2>2, <1>1, <1>5 DEF NatnegInv, Telling
    <2> QED
      BY <2>1, <2>2
  <1> QED
    BY <1>6, <1>7, <1>8, <1>9, <1>10 DEF NatnegInv

LEMMA SenderMoved ==
  ASSUME NEW g \in Sender, NEW half \in {"destination", "sender"}, NEW check \in BOOLEAN
  PROVE  LET h == [g EXCEPT !.half = half, !.check = check]
         IN  h \in Sender /\ h.n = g.n /\ h.s = g.s /\ h.d = g.d
  BY DEF Sender

\* The goroutine g goes on and still serves whoever it has to serve.
LEMMA SenderStep ==
  ASSUME NatnegInv, NEW g \in senders, SendToDestination(g) \/ SendToSender(g)
  PROVE  NatnegInv'
  <1>1. /\ UNCHANGED <<current, created, open, clients, timer, work, revived>>
        /\ g \in Sender
    BY DEF SendToDestination, SendToSender, NatnegInv, TypeOK
  <1>2. got' \in [Clients -> Clients \cup {None}]
    BY <1>1 DEF SendToDestination, SendToSender, Deliver, NatnegInv, TypeOK, Sender
  <1>3. TimerInv' /\ SessionsOK' /\ Unborn'
    <2>1. TimerInv'
      BY <1>1, TableUnchanged DEF NatnegInv
    <2>2. SessionsOK'
      BY <1>1, SessionsKept DEF NatnegInv
    <2>3. Unborn'
      BY <1>1 DEF NatnegInv, Unborn
    <2> QED
      BY <2>1, <2>2, <2>3
  <1>4. \A h \in senders : h # g => h \in senders'
    BY DEF SendToDestination, SendToSender
  <1>5. senders' \subseteq Sender
    <2>1. senders \subseteq Sender
      BY DEF NatnegInv, TypeOK
    <2>2. CASE SendToDestination(g)
      <3>1. Unacknowledged(g.n, g.d, g.s) \in BOOLEAN
        BY DEF Unacknowledged
      <3>2. [g EXCEPT !.half = "sender", !.check = Unacknowledged(g.n, g.d, g.s)] \in Sender
        BY <1>1, <3>1, SenderMoved
      <3> QED
        BY <2>1, <2>2, <3>2 DEF SendToDestination
    <2>3. CASE SendToSender(g)
      BY <1>1, <2>1, <2>3, SenderMoved DEF SendToSender
    <2> QED
      BY <2>2, <2>3
  <1>6. TypeOK'
    BY <1>1, <1>2, <1>5 DEF NatnegInv, TypeOK
  <1>7. ASSUME NEW n \in Numbers \ revived, NEW c \in Clients, open[n],
               clients[n][c] # None, ~clients[n][c].ack, clients[n][c].to # c,
               Serves(g, n, c, clients[n][c].to)
        PROVE  \E h \in senders' : Serves(h, n, c, clients[n][c].to)
    <2>1. CASE SendToDestination(g)
      <3> DEFINE check == Unacknowledged(g.n, g.d, g.s)
                 h == [g EXCEPT !.half = "sender", !.check = check]
      <3>1. h \in senders'
        BY <1>7, <2>1 DEF SendToDestination, Serves
      <3>2. h.n = g.n /\ h.s = g.s /\ h.d = g.d /\ h.check = check
        BY <1>1 DEF Sender
      <3>3. g.d = c /\ g.s = clients[n][c].to => check
        BY <1>7 DEF Unacknowledged, Serves
      <3> HIDE DEF h, check
      <3> QED
        BY <1>7, <3>1, <3>2, <3>3 DEF Serves
    <2>2. CASE SendToSender(g)
      <3> DEFINE check == Unacknowledged(g.n, g.s, g.d)
                 h == [g EXCEPT !.half = "destination", !.check = FALSE]
      <3>1. g.check \/ check
        BY <1>7, <2>2 DEF SendToSender, Serves, Unacknowledged
      <3>2. h \in senders'
        BY <2>2, <3>1 DEF SendToSender
      <3>3. h.n = g.n /\ h.s = g.s /\ h.d = g.d /\ h.half = "destination"
        BY <1>1 DEF Sender
      <3> HIDE DEF h
      <3> QED
        BY <1>7, <3>2, <3>3 DEF Serves
    <2> QED
      BY <2>1, <2>2
  <1>8. Telling'
    <2> SUFFICES ASSUME NEW n \in Numbers \ revived, NEW c \in Clients, open[n],
                        clients[n][c] # None, ~clients[n][c].ack, clients[n][c].to # c
                 PROVE  \E h \in senders' : Serves(h, n, c, clients[n][c].to)
      BY <1>1 DEF Telling
    <2>1. PICK h \in senders : Serves(h, n, c, clients[n][c].to)
      BY DEF NatnegInv, Telling
    <2> QED
      BY <2>1, <1>4, <1>7
  <1> QED
    BY <1>3, <1>6, <1>8 DEF NatnegInv

LEMMA NatnegStep == NatnegInv /\ [Next]_vars => NatnegInv'
  <1> SUFFICES ASSUME NatnegInv, [Next]_vars PROVE NatnegInv'
    OBVIOUS
  <1>0. TimerInv'
    BY TimerStep DEF NatnegInv
  <1>1. CASE UNCHANGED vars
    <2>1. SessionsOK' /\ Telling'
      BY <1>1, SessionsKept, TellingKept DEF vars, NatnegInv
    <2>2. TypeOK' /\ Unborn'
      BY <1>1 DEF vars, NatnegInv, TypeOK, Unborn
    <2> QED
      BY <1>0, <2>1, <2>2 DEF NatnegInv
  <1>2. ASSUME NEW c \in Consoles, SendInit(c) \/ SendAck(c) \/ SendReport(c) \/ SendOther(c)
        PROVE  NatnegInv'
    BY <1>2, SendStep, NatnegAssumption
  <1>3. ASSUME NEW w \in work, Handle(w)
        PROVE  NatnegInv'
    BY <1>3, HandleStep
  <1>4. ASSUME NEW g \in senders, SendToDestination(g) \/ SendToSender(g)
        PROVE  NatnegInv'
    BY <1>4, SenderStep
  <1>5. ASSUME NEW n \in Numbers, CloseSession(n)
        PROVE  NatnegInv'
    <2>1. SessionsOK' /\ Telling'
      BY <1>5, SessionsKept, TellingKept DEF CloseSession, NatnegInv, TypeOK
    <2>2. TypeOK' /\ Unborn'
      BY <1>5, NatnegAssumption DEF CloseSession, NatnegInv, TypeOK, Unborn
    <2> QED
      BY <1>0, <2>1, <2>2 DEF NatnegInv
  <1>6. ASSUME NEW n \in Numbers, CancelClients(n)
        PROVE  NatnegInv'
    <2>1. SessionsOK' /\ Telling'
      BY <1>6, SessionsKept, TellingKept DEF CancelClients, NatnegInv
    <2>2. TypeOK' /\ Unborn'
      BY <1>6 DEF CancelClients, NatnegInv, TypeOK, Unborn
    <2> QED
      BY <1>0, <2>1, <2>2 DEF NatnegInv
  <1>7. CASE Restart
    <2>1. SessionsOK'
      BY <1>7, SessionsKept DEF Restart, NatnegInv
    <2>2. TypeOK' /\ Unborn'
      BY <1>7 DEF Restart, NatnegInv, TypeOK, Unborn
    <2>3. Telling'
      BY <1>7 DEF Restart, NatnegInv, TimerInv, OwnTimer, Telling
    <2> QED
      BY <1>0, <2>1, <2>2, <2>3 DEF NatnegInv
  <1> QED
    BY <1>1, <1>2, <1>3, <1>4, <1>5, <1>6, <1>7 DEF Next

LEMMA NatnegInitially == Init => NatnegInv
  <1> SUFFICES ASSUME Init PROVE NatnegInv
    OBVIOUS
  <1>1. TimerInv
    BY NatnegAssumption DEF Init, TimerInv, TableOK, NotYetCreated, OwnTimer, Numbers
  <1>2. TypeOK /\ Unborn /\ Telling
    BY NatnegAssumption DEF Init, TypeOK, Unborn, Telling
  <1>3. SessionsOK
    BY DEF Init, SessionsOK, SessionOK, Session, Follows, NoIdle, Free, IsMapped
  <1> QED
    BY <1>1, <1>2, <1>3 DEF NatnegInv

LEMMA NatnegInvariant == Spec => []NatnegInv
  BY NatnegInitially, NatnegStep, PTL DEF Spec

\* The sessions are well formed, and ConnectingIndex always names a client of the session:
\* handleReport (natneg/report.go) never follows a missing one, whatever the order in
\* which clients join, are paired, acknowledge, report and lose their session.
THEOREM IndexesAreFollowed == Spec => []NatnegTypeOK
  <1>1. NatnegInv => NatnegTypeOK
    BY DEF NatnegInv, NatnegTypeOK, ConnectingExists, SessionsOK, SessionOK, Follows, Session
  <1> QED
    BY <1>1, NatnegInvariant, PTL

\* Whoever is connecting and has not acknowledged has a goroutine of sendConnectRequests
\* (natneg/connect.go) that tells it, for any number of clients and pairs, although the
\* goroutines read without the lock.
THEOREM PeersAreStillTold == Spec => []StillTold
  <1>1. NatnegInv => StillTold
    <2> SUFFICES ASSUME NatnegInv PROVE StillTold
      OBVIOUS
    <2>0. \A n \in Numbers : DOMAIN clients[n] = Clients
      BY DEF NatnegInv, TypeOK
    <2> SUFFICES ASSUME NEW n \in Numbers \ revived, NEW c \in Clients,
                        open[n], clients[n][c] # None, ~clients[n][c].ack, clients[n][c].to # c
                 PROVE  \E g \in senders : g.n = n /\ {g.s, g.d} = {c, clients[n][c].to}
      BY <2>0 DEF StillTold
    <2>1. PICK g \in senders : Serves(g, n, c, clients[n][c].to)
      BY DEF NatnegInv, Telling
    <2> QED
      BY <2>1 DEF Serves
  <1> QED
    BY <1>1, NatnegInvariant, PTL

\* Whenever no handler holds the session, no two clients wait for a peer that have still
\* to try each other: the loops of sendConnectRequests (natneg/connect.go) leave no such
\* pair, in whatever order they visit the map, and no other handler makes one.
THEOREM NoPairIsIdle == Spec => []NoIdlePair
  <1>1. NatnegInv => NoIdlePair
    BY DEF NatnegInv, NoIdlePair, SessionsOK, SessionOK, NoIdle, Session
  <1> QED
    BY <1>1, NatnegInvariant, PTL

-----------------------------------------------------------------------------
(* Results, within one session: an orderly console was told, and reports,  *)
(* about the peer that ConnectingIndex names.                              *)

Connects(c, d) == clients[1][c] # None /\ clients[1][c].to = d /\ c # d

\* The goroutines are for two different clients that are there.
SendersOK ==
  \A g \in senders : g.s # g.d /\ clients[g.n][g.s] # None /\ clients[g.n][g.d] # None

ToldOK == \A c \in Orderly : got[c] # None => Connects(c, got[c])

ReportsOK ==
  \A w \in work : (w.p.kind = "report" /\ w.p.from \in Orderly) =>
    Connects(w.p.from, w.p.about) /\ got[w.p.from] = None

OneAtATime ==
  \A v, w \in work : (v.p.from = w.p.from /\ v.p.from \in Orderly) => v = w

ResultInv == NatnegInv /\ SendersOK /\ ToldOK /\ ReportsOK /\ OneAtATime

LEMMA ResultLookup ==
  ASSUME ResultInv, MaxSessions = 1, NEW p \in Packet, Lookup(p),
         \A c \in Orderly : got'[c] = got[c] \/ got'[c] = None,
         (p.kind = "report" /\ p.from \in Orderly) => Connects(p.from, p.about) /\ got'[p.from] = None
  PROVE  SendersOK' /\ ToldOK' /\ ReportsOK' /\ OneAtATime'
  <1>1. UNCHANGED <<clients, senders>>
    BY DEF Lookup
  <1>2. PICK n : work' = work \cup {[n |-> n, p |-> p]}
    BY DEF Lookup
  <1>3. p.from \in Orderly => \A w \in work : w.p.from # p.from
    BY DEF Lookup
  <1>4. SendersOK' /\ ToldOK'
    BY <1>1 DEF ResultInv, SendersOK, ToldOK, Connects
  <1>5. ReportsOK'
    <2> SUFFICES ASSUME NEW w \in work', w.p.kind = "report", w.p.from \in Orderly
                 PROVE  Connects(w.p.from, w.p.about) /\ got'[w.p.from] = None
      BY <1>1 DEF ReportsOK, Connects
    <2>1. CASE w \in work
      BY <2>1 DEF ResultInv, ReportsOK
    <2>2. CASE w = [n |-> n, p |-> p]
      BY <2>2
    <2> QED
      BY <1>2, <2>1, <2>2
  <1>6. OneAtATime'
    <2> SUFFICES ASSUME NEW v \in work', NEW w \in work', v.p.from = w.p.from, v.p.from \in Orderly
                 PROVE  v = w
      BY DEF OneAtATime
    <2>1. CASE v \in work /\ w \in work
      BY <2>1 DEF ResultInv, OneAtATime
    <2>2. CASE v \notin work \/ w \notin work
      BY <1>2, <1>3, <2>2
    <2> QED
      BY <2>1, <2>2
  <1> QED
    BY <1>4, <1>5, <1>6

LEMMA ResultSend ==
  ASSUME ResultInv, MaxSessions = 1, NEW c \in Clients,
         SendInit(c) \/ SendAck(c) \/ SendReport(c) \/ SendOther(c)
  PROVE  SendersOK' /\ ToldOK' /\ ReportsOK' /\ OneAtATime'
  <1>0. got \in [Clients -> Clients \cup {None}] /\ Orderly \subseteq Clients
    BY NatnegAssumption DEF ResultInv, NatnegInv, TypeOK
  <1>1. CASE SendInit(c)
    <2>1. PICK addrs \in InitAddrs, g \in Games :
            Lookup([kind |-> "init", from |-> c, addrs |-> addrs, game |-> g])
      BY <1>1 DEF SendInit
    <2>2. addrs \in SUBSET {"negotiate", "server"}
      BY NatnegAssumption DEF InitAddrs
    <2>3. [kind |-> "init", from |-> c, addrs |-> addrs, game |-> g] \in Packet
      BY <2>2 DEF Packet
    <2>4. got' = got
      BY <1>1 DEF SendInit
    <2> QED
      BY <2>1, <2>3, <2>4, ResultLookup
  <1>2. CASE SendAck(c)
    <2>1. [kind |-> "ack", from |-> c] \in Packet
      BY DEF Packet
    <2> QED
      BY <1>2, <2>1, ResultLookup DEF SendAck
  <1>3. CASE SendReport(c)
    <2>1. PICK r \in Results : Lookup([kind |-> "report", from |-> c, result |-> r, about |-> got[c]])
      BY <1>3 DEF SendReport
    <2>2. got[c] \in Clients /\ got[c] # None
      BY <1>0, <1>3 DEF SendReport
    <2>3. [kind |-> "report", from |-> c, result |-> r, about |-> got[c]] \in Packet
      BY <2>2 DEF Packet
    <2>4. /\ \A d \in Orderly : got'[d] = got[d] \/ got'[d] = None
          /\ c \in Orderly => got'[c] = None
      BY <1>0, <1>3 DEF SendReport
    <2>5. c \in Orderly => Connects(c, got[c])
      BY <2>2 DEF ResultInv, ToldOK
    <2> QED
      BY <2>1, <2>3, <2>4, <2>5, ResultLookup
  <1>4. CASE SendOther(c)
    <2>1. [kind |-> "other", from |-> c] \in Packet
      BY DEF Packet
    <2> QED
      BY <1>4, <2>1, ResultLookup DEF SendOther
  <1> QED
    BY <1>1, <1>2, <1>3, <1>4

LEMMA ResultHandle ==
  ASSUME ResultInv, MaxSessions = 1, NEW w \in work, Handle(w)
  PROVE  SendersOK' /\ ToldOK' /\ ReportsOK' /\ OneAtATime'
  <1>0. NatnegInv /\ Orderly \subseteq Clients
    BY NatnegAssumption DEF ResultInv
  <1>1. /\ w.n \in Numbers /\ Numbers = {1}
        /\ \A g \in senders' \ senders : Started(g, w.n)
    BY <1>0, HandleEffect DEF Numbers
  <1>2. PICK new \in Session :
          clients' = [clients EXCEPT ![w.n] = new] /\ Handled(w.n, w.p, new) /\ NoIdle(new)
    BY <1>0, HandleEffect
  <1>3. work' = work \ {w} /\ UNCHANGED got
    BY DEF Handle
  <1>4. clients'[1] = new /\ w.n = 1
    BY <1>0, <1>1, <1>2 DEF NatnegInv, TypeOK
  <1>5. \A c \in Clients : clients[1][c] # None =>
          /\ new[c] # None
          /\ new[c].to = clients[1][c].to \/ clients[1][c].to = c \/ (w.p.kind = "report" /\ w.p.from = c)
    BY <1>2, <1>4 DEF Handled
  <1>6. \A c \in Orderly, d \in Clients :
          (Connects(c, d) /\ ~(w.p.kind = "report" /\ w.p.from = c)) => Connects(c, d)'
    BY <1>0, <1>4, <1>5 DEF Connects
  <1>7. SendersOK'
    <2> SUFFICES ASSUME NEW g \in senders'
                 PROVE  g.s # g.d /\ clients'[g.n][g.s] # None /\ clients'[g.n][g.d] # None
      BY DEF SendersOK
    <2>1. CASE g \in senders
      <3>1. g.n = 1 /\ g.s \in Clients /\ g.d \in Clients
        BY <2>1, <1>0, <1>1 DEF NatnegInv, TypeOK, Sender
      <3> QED
        BY <2>1, <3>1, <1>4, <1>5 DEF ResultInv, SendersOK
    <2>2. CASE g \notin senders
      BY <2>2, <1>1 DEF Started
    <2> QED
      BY <2>1, <2>2
  <1>8. ToldOK'
    <2> SUFFICES ASSUME NEW c \in Orderly, got[c] # None
                 PROVE  Connects(c, got[c])'
      BY <1>3 DEF ToldOK
    <2>1. Connects(c, got[c]) /\ got[c] \in Clients
      BY <1>0 DEF ResultInv, ToldOK, NatnegInv, TypeOK
    <2>2. ~(w.p.kind = "report" /\ w.p.from = c)
      BY DEF ResultInv, ReportsOK
    <2>3. PICK d \in Clients : d = got[c]
      BY <2>1
    <2>4. Connects(c, d)'
      BY <1>6, <2>1, <2>2, <2>3
    <2> QED
      BY <1>3, <2>3, <2>4
  <1>9. ReportsOK'
    <2> SUFFICES ASSUME NEW v \in work', v.p.kind = "report", v.p.from \in Orderly
                 PROVE  Connects(v.p.from, v.p.about)' /\ got'[v.p.from] = None
      BY DEF ReportsOK
    <2>1. v \in work /\ v # w
      BY <1>3
    <2>2. Connects(v.p.from, v.p.about) /\ got[v.p.from] = None
      BY <2>1 DEF ResultInv, ReportsOK
    <2>3. w.p.from # v.p.from
      BY <2>1 DEF ResultInv, OneAtATime
    <2>4. v.p.about \in Clients
      BY <1>0, <2>1 DEF NatnegInv, TypeOK, Packet
    <2>5. Connects(v.p.from, v.p.about)'
      BY <1>6, <2>2, <2>3, <2>4
    <2> QED
      BY <1>3, <2>2, <2>5
  <1>10. OneAtATime'
    BY <1>3 DEF ResultInv, OneAtATime
  <1> QED
    BY <1>7, <1>8, <1>9, <1>10

LEMMA ResultSender ==
  ASSUME ResultInv, MaxSessions = 1, NEW g \in senders, SendToDestination(g) \/ SendToSender(g)
  PROVE  SendersOK' /\ ToldOK' /\ ReportsOK' /\ OneAtATime'
  <1>1. /\ UNCHANGED <<clients, work>>
        /\ g \in Sender
        /\ got \in [Clients -> Clients \cup {None}] /\ Orderly \subseteq Clients
    BY NatnegAssumption DEF SendToDestination, SendToSender, ResultInv, NatnegInv, TypeOK
  <1>2. g.n = 1 /\ g.s \in Clients /\ g.d \in Clients /\ g.s # g.d
          /\ clients[1][g.s] # None /\ clients[1][g.d] # None
    BY <1>1 DEF Sender, Numbers, ResultInv, SendersOK
  <1>3. SendersOK'
    <2> SUFFICES ASSUME NEW h \in senders'
                 PROVE  h.s # h.d /\ clients[h.n][h.s] # None /\ clients[h.n][h.d] # None
      BY <1>1 DEF SendersOK
    <2>1. h \in senders \/ (h.n = g.n /\ h.s = g.s /\ h.d = g.d)
      <3>1. CASE SendToDestination(g)
        <4>1. Unacknowledged(g.n, g.d, g.s) \in BOOLEAN
          BY DEF Unacknowledged
        <4>2. PICK check \in BOOLEAN : check = Unacknowledged(g.n, g.d, g.s)
          BY <4>1
        <4>3. h \in senders \/ h = [g EXCEPT !.half = "sender", !.check = check]
          BY <3>1, <4>2 DEF SendToDestination
        <4> QED
          BY <1>1, <4>3, ZenonT(60) DEF Sender
      <3>2. CASE SendToSender(g)
        <4>1. h \in senders \/ h = [g EXCEPT !.half = "destination", !.check = FALSE]
          BY <3>2 DEF SendToSender
        <4> QED
          BY <1>1, <4>1, SenderMoved, ZenonT(60)
      <3> QED
        BY <3>1, <3>2
    <2> QED
      BY <1>2, <2>1 DEF ResultInv, SendersOK
  <1>4. \/ UNCHANGED got
        \/ \E i, j \in {g.s, g.d} :
             /\ i # j
             /\ clients[1][i].to = j
             /\ i \in Orderly => \A w \in work : ~(w.p.kind = "report" /\ w.p.from = i)
             /\ got' = [got EXCEPT ![i] = j]
    <2>1. CASE SendToDestination(g)
      BY <1>2, <2>1 DEF SendToDestination, Deliver, Unacknowledged
    <2>2. CASE SendToSender(g)
      BY <1>2, <2>2 DEF SendToSender, Deliver, Unacknowledged
    <2> QED
      BY <2>1, <2>2
  <1>5. ToldOK' /\ ReportsOK'
    <2>1. CASE UNCHANGED got
      BY <1>1, <2>1 DEF ResultInv, ToldOK, ReportsOK, Connects
    <2>2. ASSUME NEW i \in {g.s, g.d}, NEW j \in {g.s, g.d}, i # j, clients[1][i].to = j,
                 i \in Orderly => \A w \in work : ~(w.p.kind = "report" /\ w.p.from = i),
                 got' = [got EXCEPT ![i] = j]
          PROVE  ToldOK' /\ ReportsOK'
      <3>1. got'[i] = j /\ \A c \in Clients : c # i => got'[c] = got[c]
        BY <1>1, <1>2, <2>2
      <3>2. ToldOK'
        BY <1>1, <1>2, <2>2, <3>1 DEF ResultInv, ToldOK, Connects
      <3>3. ReportsOK'
        BY <1>1, <2>2, <3>1 DEF ResultInv, ReportsOK, Connects
      <3> QED
        BY <3>2, <3>3
    <2> QED
      BY <1>4, <2>1, <2>2
  <1>6. OneAtATime'
    BY <1>1 DEF ResultInv, OneAtATime
  <1> QED
    BY <1>3, <1>5, <1>6

LEMMA ResultStep ==
  ASSUME MaxSessions = 1
  PROVE  ResultInv /\ [Next]_vars => ResultInv'
  <1> SUFFICES ASSUME ResultInv, [Next]_vars PROVE ResultInv'
    OBVIOUS
  <1> USE DEF SendersOK, ToldOK, ReportsOK, OneAtATime, Connects
  <1>0. NatnegInv'
    BY NatnegStep DEF ResultInv
  <1>1. CASE UNCHANGED vars
    BY <1>0, <1>1 DEF ResultInv, vars
  <1>2. ASSUME NEW c \in Consoles, SendInit(c) \/ SendAck(c) \/ SendReport(c) \/ SendOther(c)
        PROVE  ResultInv'
    BY <1>0, <1>2, ResultSend, NatnegAssumption DEF ResultInv
  <1>3. ASSUME NEW w \in work, Handle(w)
        PROVE  ResultInv'
    BY <1>0, <1>3, ResultHandle DEF ResultInv
  <1>4. ASSUME NEW g \in senders, SendToDestination(g) \/ SendToSender(g)
        PROVE  ResultInv'
    BY <1>0, <1>4, ResultSender DEF ResultInv
  <1>5. ASSUME NEW n \in Numbers, CloseSession(n)
        PROVE  ResultInv'
    BY <1>0, <1>5 DEF ResultInv, CloseSession
  <1>6. ASSUME NEW n \in Numbers, CancelClients(n)
        PROVE  ResultInv'
    <2>1. /\ UNCHANGED <<clients, senders, work>>
          /\ \A c \in Clients : got'[c] = got[c] \/ got'[c] = None
      BY <1>6 DEF CancelClients
    <2> QED
      BY <1>0, <2>1, NatnegAssumption DEF ResultInv
  <1>7. CASE Restart
    BY <1>0, <1>7 DEF ResultInv, Restart
  <1> QED
    BY <1>1, <1>2, <1>3, <1>4, <1>5, <1>6, <1>7 DEF Next

\* Only a handler takes a packet.
LEMMA ReportIsNoted ==
  ASSUME MaxSessions = 1, ResultInv, [Next]_vars
  PROVE  [RealResult]_vars
  <1> SUFFICES ASSUME Next PROVE RealResult
    BY SMTT(30) DEF vars
  <1> SUFFICES ASSUME NEW w \in work \ work', NEW d \in Clients,
                      w.p.kind = "report", w.p.from \in Orderly, clients[w.n][w.p.from] # None,
                      clients'[w.n][w.p.from].result[d] # clients[w.n][w.p.from].result[d]
               PROVE  w.p.about = d
    BY DEF RealResult
  <1>1. Handle(w)
    BY ZenonT(60) DEF Next, SendInit, SendAck, SendReport, SendOther, Lookup, Handle, SendToDestination,
           SendToSender, CloseSession, CancelClients, Restart
  <1>2. NatnegInv /\ w.n = 1 /\ 1 \in Numbers /\ w.p.from \in Clients
    BY NatnegAssumption DEF ResultInv, NatnegInv, TypeOK, Numbers
  <1>3. PICK new \in Session :
          clients' = [clients EXCEPT ![w.n] = new] /\ Handled(w.n, w.p, new)
    BY <1>1, <1>2, HandleEffect
  <1>4. clients'[1] = new
    BY <1>2, <1>3 DEF NatnegInv, TypeOK
  <1>5. d = clients[1][w.p.from].to
    BY <1>2, <1>3, <1>4 DEF Handled
  <1>6. clients[1][w.p.from].to = w.p.about
    BY DEF ResultInv, ReportsOK, Connects
  <1> QED
    BY <1>5, <1>6

\* Within one session, a result that handleReport (natneg/report.go) notes for a pair is one
\* the console reported about that pair, for any number of orderly consoles and of others
\* that send anything at any time: a report does not name the peer, and is credited to
\* whoever ConnectingIndex names when it is handled.
THEOREM ResultsAreReal ==
  ASSUME MaxSessions = 1
  PROVE  Spec => ResultIsReal
  <1>1. Init => ResultInv
    <2>1. Init => SendersOK /\ ToldOK /\ ReportsOK /\ OneAtATime
      BY NatnegAssumption DEF Init, SendersOK, ToldOK, ReportsOK, OneAtATime
    <2> QED
      BY <2>1, NatnegInitially DEF ResultInv
  <1>2. ResultInv /\ [Next]_vars => ResultInv'
    BY ResultStep
  <1>3. ResultInv /\ [Next]_vars => [RealResult]_vars
    BY ReportIsNoted
  <1> QED
    BY <1>1, <1>2, <1>3, PTL DEF Spec, ResultIsReal
=============================================================================
