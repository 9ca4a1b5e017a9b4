----------------------------- MODULE GpcmProofs -----------------------------
(***************************************************************************)
(* Proofs about the session table: type correctness, that a logged-in      *)
(* connection is the registered one, that two connections never share a    *)
(* profile, that without restarts a logged-in entry has a live connection, *)
(* and that the table implements ProfileOwner.                             *)
(***************************************************************************)
EXTENDS Gpcm, TLAPS

-----------------------------------------------------------------------------
(* The inductive invariant, in parts. *)

InHandler == {"packet", "admit", "poll", "admitted"}

\* sessionsByConnIndex is keyed by the object's own ConnIndex.
ByConnKeyed == \A c \in Conns : byConn[c] # None => byConn[c][1] = c

\* What each handler position says about the session it works on.
AtPosition(c) ==
  /\ pc[c] \in InHandler => conn[c] \in {"open", "closing"}
  /\ pc[c] \in {"close", "unlink"} => conn[c] = "closed"
  /\ pc[c] \in InHandler \cup {"unlink"} => byConn[c] # None
  /\ pc[c] \in {"admit", "poll", "admitted"} => ~LoggedIn(c) /\ ProfileOf(c) # None
  /\ pc[c] = "admitted" => sessions[ProfileOf(c)] = byConn[c]

HandlersOK == \A c \in Conns : AtPosition(c)

\* A connection not yet accepted has left no trace.
UnusedIsFresh ==
  \A c \in Conns : conn[c] = "unused" =>
    /\ pc[c] = "idle"
    /\ byConn[c] = None
    /\ obj[<<c, None>>] = Blank
    /\ \A p \in Profiles : sessions[p] # None => sessions[p][1] # c

\* The registration of the object o of a live connection.
Registered(o) ==
  obj[o].loggedIn /\ Live(o[1]) =>
    /\ obj[o].profile # None
    /\ sessions[obj[o].profile] # None
    /\ sessions[obj[o].profile][1] = o[1]

\* Not only the session a connection uses now: also the copies the table keeps of
\* it under other profiles, which a reload may make the one in use.
AllRegistered ==
  /\ \A c \in Conns : byConn[c] # None => Registered(byConn[c])
  /\ \A p \in Profiles : sessions[p] # None => Registered(sessions[p])

\* Without restarts there are no copies, and a closed connection is logged out.
NoCopies ==
  ~Restarts =>
    /\ \A p \in Profiles : sessions[p] # None => byConn[sessions[p][1]] = sessions[p]
    /\ \A c \in Conns : byConn[c] # None /\ LoggedIn(c) => Live(c)

IInv ==
  /\ TypeOK
  /\ ByConnKeyed
  /\ HandlersOK
  /\ UnusedIsFresh
  /\ AllRegistered
  /\ NoCopies

-----------------------------------------------------------------------------
(* The initial state and one lemma per action. *)

LEMMA InitIInv == Init => IInv
  <1> SUFFICES ASSUME Init PROVE IInv
    OBVIOUS
  <1> USE GpcmAssumption DEF Init
  <1>1. TypeOK
    BY DEF TypeOK, ConnStates, Positions, SessionRecord, Blank
  <1>2. ByConnKeyed /\ HandlersOK
    BY DEF ByConnKeyed, HandlersOK, AtPosition, InHandler
  <1>3. UnusedIsFresh
    BY DEF UnusedIsFresh, Objects
  <1>4. AllRegistered /\ NoCopies
    BY DEF AllRegistered, NoCopies
  <1> QED
    BY <1>1, <1>2, <1>3, <1>4 DEF IInv

\* Writing one field of a session leaves it a session.
LEMMA WriteLoggedIn ==
  ASSUME TypeOK, NEW o \in Objects, NEW b \in BOOLEAN
  PROVE  [obj EXCEPT ![o].loggedIn = b] \in [Objects -> SessionRecord]
  <1>1. obj[o] \in SessionRecord
    BY DEF TypeOK
  <1>2. [obj[o] EXCEPT !.loggedIn = b] \in SessionRecord
    BY <1>1 DEF SessionRecord
  <1> QED
    BY <1>2 DEF TypeOK

LEMMA NewConnectionStep ==
  ASSUME NEW c \in Conns, IInv, NewConnection(c)
  PROVE  IInv'
  <1> USE GpcmAssumption DEF Objects, LoggedIn, ProfileOf, NewConnection, Shut, Register
  <1>1. TypeOK'
    BY DEF IInv, TypeOK, ConnStates
  <1>2. ByConnKeyed'
    BY DEF IInv, TypeOK, ByConnKeyed
  <1>3. HandlersOK'
    BY DEF IInv, TypeOK, HandlersOK, AtPosition, UnusedIsFresh
  <1>4. UnusedIsFresh'
    BY DEF IInv, TypeOK, ByConnKeyed, HandlersOK, AtPosition, InHandler, UnusedIsFresh
  <1>5. AllRegistered'
    <2>1. CASE byConn' = byConn
      <3>1. \A d \in Conns : byConn[d] # None => d # c /\ (Live(d)' => Live(d))
        BY ZenonT(60) DEF IInv, TypeOK, UnusedIsFresh, Live
      <3>2. \A p \in Profiles : sessions[p] # None =>
              sessions[p][1] \in Conns /\ (Live(sessions[p][1])' => Live(sessions[p][1]))
        BY ZenonT(60) DEF IInv, TypeOK, UnusedIsFresh, Live
      <3> QED
        BY <2>1, <3>1, <3>2 DEF IInv, TypeOK, ByConnKeyed, AllRegistered, Registered
    <2>2. CASE byConn' = [byConn EXCEPT ![c] = <<c, None>>]
      <3>1. obj[<<c, None>>] = Blank
        BY DEF IInv, UnusedIsFresh
      <3>2. ~ obj'[<<c, None>>].loggedIn
        BY <3>1 DEF Blank
      <3>3. ASSUME NEW d \in Conns, byConn'[d] # None
            PROVE  Registered(byConn[d])'
        BY <2>2, <3>2, <3>3 DEF IInv, TypeOK, ByConnKeyed, AllRegistered, Registered, Live
      <3>4. ASSUME NEW p \in Profiles, sessions'[p] # None
            PROVE  Registered(sessions[p])'
        <4>1. sessions[p] # None /\ sessions[p][1] \in Conns /\ sessions[p][1] # c
          BY <3>4, ZenonT(60) DEF IInv, TypeOK, UnusedIsFresh
        <4>2. Live(sessions[p][1])' => Live(sessions[p][1])
          BY <4>1 DEF IInv, TypeOK, Live
        <4> QED
          BY <4>1, <4>2 DEF IInv, AllRegistered, Registered
      <3> QED
        BY <3>3, <3>4 DEF AllRegistered
    <2> QED
      BY <2>1, <2>2
  <1>6. NoCopies'
    BY DEF IInv, TypeOK, UnusedIsFresh, NoCopies, Live
  <1> QED
    BY <1>1, <1>2, <1>3, <1>4, <1>5, <1>6 DEF IInv

LEMMA PeerCloseStep ==
  ASSUME NEW c \in Conns, IInv, PeerClose(c)
  PROVE  IInv'
  <1> USE GpcmAssumption DEF Objects, LoggedIn, ProfileOf, PeerClose, Shut, Register
  <1>1. TypeOK'
    BY DEF IInv, TypeOK, ConnStates
  <1>2. ByConnKeyed'
    BY DEF IInv, TypeOK, ByConnKeyed
  <1>3. HandlersOK'
    BY DEF IInv, HandlersOK, AtPosition
  <1>4. UnusedIsFresh'
    BY DEF IInv, TypeOK, ByConnKeyed, HandlersOK, AtPosition, InHandler, UnusedIsFresh
  <1>5. AllRegistered'
    BY DEF IInv, AllRegistered, Registered, Live
  <1>6. NoCopies'
    BY DEF IInv, NoCopies, Live
  <1> QED
    BY <1>1, <1>2, <1>3, <1>4, <1>5, <1>6 DEF IInv

LEMMA FrontendCloseStep ==
  ASSUME NEW c \in Conns, IInv, FrontendClose(c)
  PROVE  IInv'
  <1> USE GpcmAssumption DEF Objects, LoggedIn, ProfileOf, FrontendClose, Shut, Register
  <1>1. TypeOK'
    BY DEF IInv, TypeOK, ConnStates, Positions
  <1>2. ByConnKeyed'
    BY DEF IInv, TypeOK, ByConnKeyed
  <1>3. HandlersOK'
    BY DEF IInv, TypeOK, HandlersOK, AtPosition, InHandler
  <1>4. UnusedIsFresh'
    BY DEF IInv, TypeOK, ByConnKeyed, HandlersOK, AtPosition, InHandler, UnusedIsFresh
  <1>5. AllRegistered'
    BY DEF IInv, AllRegistered, Registered, Live
  <1>6. NoCopies'
    BY DEF IInv, TypeOK, NoCopies, Live
  <1> QED
    BY <1>1, <1>2, <1>3, <1>4, <1>5, <1>6 DEF IInv

LEMMA HandlePacketStep ==
  ASSUME NEW c \in Conns, IInv, HandlePacket(c)
  PROVE  IInv'
  <1> USE GpcmAssumption DEF Objects, LoggedIn, ProfileOf, HandlePacket, Shut, Register
  <1>1. TypeOK'
    BY DEF IInv, TypeOK, ConnStates, Positions
  <1>2. ByConnKeyed'
    BY DEF IInv, TypeOK, ByConnKeyed
  <1>3. HandlersOK'
    BY DEF IInv, TypeOK, HandlersOK, AtPosition
  <1>4. UnusedIsFresh'
    BY DEF IInv, TypeOK, ByConnKeyed, HandlersOK, AtPosition, InHandler, UnusedIsFresh
  <1>5. AllRegistered'
    BY DEF IInv, TypeOK, AllRegistered, Registered, Live
  <1>6. NoCopies'
    BY DEF IInv, TypeOK, NoCopies, Live
  <1> QED
    BY <1>1, <1>2, <1>3, <1>4, <1>5, <1>6 DEF IInv

LEMMA PacketDoneStep ==
  ASSUME NEW c \in Conns, IInv, PacketDone(c)
  PROVE  IInv'
  <1> USE GpcmAssumption DEF Objects, LoggedIn, ProfileOf, PacketDone, Shut, Register
  <1>1. TypeOK'
    BY DEF IInv, TypeOK, Positions
  <1>2. ByConnKeyed'
    BY DEF IInv, TypeOK, ByConnKeyed
  <1>3. HandlersOK'
    BY DEF IInv, HandlersOK, AtPosition, InHandler
  <1>4. UnusedIsFresh'
    BY DEF IInv, TypeOK, ByConnKeyed, HandlersOK, AtPosition, InHandler, UnusedIsFresh
  <1>5. AllRegistered'
    BY DEF IInv, AllRegistered, Registered, Live
  <1>6. NoCopies'
    BY DEF IInv, NoCopies, Live
  <1> QED
    BY <1>1, <1>2, <1>3, <1>4, <1>5, <1>6 DEF IInv

LEMMA NotLoggedInStep ==
  ASSUME NEW c \in Conns, IInv, NotLoggedIn(c)
  PROVE  IInv'
  <1> USE GpcmAssumption DEF Objects, LoggedIn, ProfileOf, NotLoggedIn, Shut, Register
  <1>1. TypeOK'
    BY DEF IInv, TypeOK, ConnStates
  <1>2. ByConnKeyed'
    BY DEF IInv, TypeOK, ByConnKeyed
  <1>3. HandlersOK'
    BY DEF IInv, HandlersOK, AtPosition
  <1>4. UnusedIsFresh'
    BY DEF IInv, TypeOK, ByConnKeyed, HandlersOK, AtPosition, InHandler, UnusedIsFresh
  <1>5. AllRegistered'
    BY DEF IInv, AllRegistered, Registered, Live
  <1>6. NoCopies'
    BY DEF IInv, NoCopies, Live
  <1> QED
    BY <1>1, <1>2, <1>3, <1>4, <1>5, <1>6 DEF IInv

LEMMA LoginRefusedStep ==
  ASSUME NEW c \in Conns, IInv, LoginRefused(c)
  PROVE  IInv'
  <1> USE GpcmAssumption DEF Objects, LoggedIn, ProfileOf, LoginRefused, Shut, Register
  <1>1. TypeOK'
    BY DEF IInv, TypeOK, ConnStates, SessionRecord, HandlersOK
  <1>2. ByConnKeyed'
    BY DEF IInv, TypeOK, ByConnKeyed
  <1>3. HandlersOK'
    BY DEF IInv, TypeOK, ByConnKeyed, HandlersOK, AtPosition, InHandler
  <1>4. UnusedIsFresh'
    BY DEF IInv, TypeOK, ByConnKeyed, HandlersOK, AtPosition, InHandler, UnusedIsFresh
  <1>5. AllRegistered'
    BY SMTT(30) DEF IInv, TypeOK, SessionRecord, UnusedIsFresh, AllRegistered, Registered, Live
  <1>6. NoCopies'
    BY DEF IInv, TypeOK, ByConnKeyed, HandlersOK, AtPosition, InHandler, NoCopies, Live
  <1> QED
    BY <1>1, <1>2, <1>3, <1>4, <1>5, <1>6 DEF IInv

LEMMA LoginAcceptedStep ==
  ASSUME NEW c \in Conns, NEW p \in Profiles, IInv, LoginAccepted(c, p)
  PROVE  IInv'
  <1> USE GpcmAssumption DEF Objects, LoggedIn, ProfileOf, LoginAccepted, Shut, Register
  <1>1. TypeOK'
    BY DEF IInv, TypeOK, Positions, SessionRecord, HandlersOK, AtPosition, InHandler
  <1>2. ByConnKeyed'
    BY DEF IInv, TypeOK, ByConnKeyed
  <1>3. HandlersOK'
    BY DEF IInv, TypeOK, ByConnKeyed, HandlersOK, AtPosition, InHandler
  <1>4. UnusedIsFresh'
    BY DEF IInv, TypeOK, ByConnKeyed, HandlersOK, AtPosition, InHandler, UnusedIsFresh
  <1>5. AllRegistered'
    BY DEF IInv, AllRegistered, Registered, Live
  <1>6. NoCopies'
    BY DEF IInv, NoCopies, Live
  <1> QED
    BY <1>1, <1>2, <1>3, <1>4, <1>5, <1>6 DEF IInv

\* Taking a free slot disturbs no other registration.
LEMMA RegisterKeeps ==
  ASSUME NEW c \in Conns, IInv, pc[c] \in {"admit", "poll"}, Register(c)
  PROVE  AllRegistered'
  <1> USE GpcmAssumption DEF Objects, LoggedIn, ProfileOf, Register
  <1>1. byConn[c] \in Objects /\ ProfileOf(c) \in Profiles /\ byConn[c][1] = c /\ ~LoggedIn(c)
    BY DEF IInv, TypeOK, SessionRecord, ByConnKeyed, HandlersOK, AtPosition, InHandler
  <1>2. \A o \in Objects : Registered(o) => Registered(o)'
    <2> SUFFICES ASSUME NEW o \in Objects, Registered(o), obj[o].loggedIn, Live(o[1])'
                 PROVE  Registered(o)'
      BY DEF Registered
    <2>1. Live(o[1])
      BY DEF Live, IInv, TypeOK
    <2>2. /\ obj[o].profile \in Profiles
          /\ sessions[obj[o].profile] # None
          /\ sessions[obj[o].profile][1] = o[1]
      BY <2>1 DEF Registered, IInv, TypeOK, SessionRecord
    <2>3. sessions'[obj[o].profile] = sessions[obj[o].profile]
      BY <1>1, <2>2 DEF IInv, TypeOK
    <2> QED
      BY <2>2, <2>3 DEF Registered
  <1>3. Registered(byConn[c])'
    BY <1>1 DEF Registered
  <1>4. ASSUME NEW p \in Profiles, sessions'[p] # None
        PROVE  Registered(sessions[p])'
    BY <1>1, <1>2, <1>3, <1>4 DEF IInv, TypeOK, AllRegistered
  <1>5. ASSUME NEW d \in Conns, byConn'[d] # None
        PROVE  Registered(byConn[d])'
    BY <1>2, <1>5 DEF IInv, TypeOK, AllRegistered
  <1> QED
    BY <1>4, <1>5 DEF AllRegistered

\* An object that a step leaves alone stays registered, if the step opens no connection.
LEMMA StaysRegistered ==
  ASSUME NEW o, UNCHANGED <<obj, sessions>>, Live(o[1])' => Live(o[1]), Registered(o)
  PROVE  Registered(o)'
  BY DEF Registered

LEMMA LoginAdmitStep ==
  ASSUME NEW c \in Conns, IInv, LoginAdmit(c)
  PROVE  IInv'
  <1> USE GpcmAssumption DEF Objects, LoggedIn, ProfileOf, LoginAdmit, Shut, Register
  <1>1. TypeOK'
    <2>1. byConn[c] \in Objects /\ ProfileOf(c) \in Profiles
      BY DEF IInv, TypeOK, SessionRecord, HandlersOK, AtPosition, InHandler
    <2>2. sessions' \in [Profiles -> Objects \cup {None}]
      BY <2>1 DEF IInv, TypeOK
    <2>3. polls' \in [Conns -> 0 .. MaxPolls]
      BY DEF IInv, TypeOK
    <2>4. conn' \in [Conns -> ConnStates] /\ pc' \in [Conns -> Positions]
      BY DEF IInv, TypeOK, ConnStates, Positions
    <2> QED
      BY <2>2, <2>3, <2>4, SMTT(30) DEF IInv, TypeOK
  <1>2. ByConnKeyed'
    BY DEF IInv, TypeOK, ByConnKeyed
  <1>3. HandlersOK'
    BY SMTT(30) DEF IInv, TypeOK, SessionRecord, HandlersOK, AtPosition, InHandler
  <1>4. UnusedIsFresh'
    BY DEF IInv, TypeOK, ByConnKeyed, HandlersOK, AtPosition, InHandler, UnusedIsFresh
  <1>5. AllRegistered'
    <2>1. CASE Register(c)
      BY <2>1, RegisterKeeps
    <2>2. CASE UNCHANGED <<obj, sessions, byConn>>
      <3>1. \A d \in Conns : Live(d)' => Live(d)
        BY DEF IInv, TypeOK, Live
      <3> HIDE DEF LoginAdmit, Register, Shut, LoggedIn, ProfileOf
      <3>2. \A d \in Conns : byConn[d] # None => byConn[d][1] \in Conns /\ Registered(byConn[d])
        BY DEF IInv, TypeOK, AllRegistered
      <3>3. \A p \in Profiles : sessions[p] # None => sessions[p][1] \in Conns /\ Registered(sessions[p])
        BY DEF IInv, TypeOK, AllRegistered
      <3>4. \A d \in Conns : byConn[d] # None => Registered(byConn[d])'
        BY <2>2, <3>1, <3>2, StaysRegistered
      <3>5. \A p \in Profiles : sessions[p] # None => Registered(sessions[p])'
        BY <2>2, <3>1, <3>3, StaysRegistered
      <3> QED
        BY <2>2, <3>4, <3>5 DEF AllRegistered
    <2> QED
      BY <2>1, <2>2
  <1>6. NoCopies'
    BY SMTT(30) DEF IInv, TypeOK, ByConnKeyed, NoCopies, Live
  <1> QED
    BY <1>1, <1>2, <1>3, <1>4, <1>5, <1>6 DEF IInv

LEMMA LoginPollStep ==
  ASSUME NEW c \in Conns, IInv, LoginPoll(c)
  PROVE  IInv'
  <1> USE GpcmAssumption DEF Objects, LoggedIn, ProfileOf, LoginPoll, Shut, Register
  <1>1. TypeOK'
    <2>1. byConn[c] \in Objects /\ ProfileOf(c) \in Profiles
      BY DEF IInv, TypeOK, SessionRecord, HandlersOK, AtPosition, InHandler
    <2>2. sessions' \in [Profiles -> Objects \cup {None}]
      BY <2>1 DEF IInv, TypeOK
    <2>3. polls' \in [Conns -> 0 .. MaxPolls]
      BY DEF IInv, TypeOK
    <2>4. conn' \in [Conns -> ConnStates] /\ pc' \in [Conns -> Positions]
      BY DEF IInv, TypeOK, ConnStates, Positions
    <2> QED
      BY <2>2, <2>3, <2>4 DEF IInv, TypeOK
  <1>2. ByConnKeyed'
    BY DEF IInv, TypeOK, ByConnKeyed
  <1>3. HandlersOK'
    BY DEF IInv, TypeOK, SessionRecord, HandlersOK, AtPosition, InHandler
  <1>4. UnusedIsFresh'
    BY DEF IInv, TypeOK, ByConnKeyed, HandlersOK, AtPosition, InHandler, UnusedIsFresh
  <1>5. AllRegistered'
    <2>1. CASE Register(c)
      BY <2>1, RegisterKeeps
    <2>2. CASE UNCHANGED <<obj, sessions, byConn>>
      <3>1. \A d \in Conns : Live(d)' => Live(d)
        BY <2>2 DEF IInv, TypeOK, Live
      <3>2. \A o \in Objects : o[1] \in Conns
        OBVIOUS
      <3>3. \A o \in Objects : Registered(o) => Registered(o)'
        BY <2>2, <3>1, <3>2 DEF Registered
      <3> QED
        BY <2>2, <3>3 DEF IInv, TypeOK, AllRegistered
    <2> QED
      BY <2>1, <2>2
  <1>6. NoCopies'
    BY SMTT(30) DEF IInv, TypeOK, SessionRecord, ByConnKeyed, HandlersOK, AtPosition, NoCopies, Live
  <1> QED
    BY <1>1, <1>2, <1>3, <1>4, <1>5, <1>6 DEF IInv

LEMMA LoginFinishStep ==
  ASSUME NEW c \in Conns, IInv, LoginFinish(c)
  PROVE  IInv'
  <1> USE GpcmAssumption DEF Objects, LoggedIn, ProfileOf, LoginFinish, Shut, Register
  <1>1. TypeOK'
    <2>1. byConn[c] \in Objects
      BY DEF IInv, TypeOK, HandlersOK, AtPosition, InHandler
    <2>2. obj' \in [Objects -> SessionRecord]
      BY <2>1, WriteLoggedIn DEF IInv
    <2> QED
      BY <2>2 DEF IInv, TypeOK, Positions
  <1>2. ByConnKeyed'
    BY DEF IInv, TypeOK, ByConnKeyed
  <1>3. HandlersOK'
    BY DEF IInv, TypeOK, ByConnKeyed, HandlersOK, AtPosition, InHandler
  <1>4. UnusedIsFresh'
    BY DEF IInv, TypeOK, ByConnKeyed, HandlersOK, AtPosition, InHandler, UnusedIsFresh
  <1>5. AllRegistered'
    BY DEF IInv, HandlersOK, AtPosition, AllRegistered, Registered, Live
  <1>6. NoCopies'
    BY DEF IInv, ByConnKeyed, HandlersOK, AtPosition, InHandler, NoCopies, Live
  <1> QED
    BY <1>1, <1>2, <1>3, <1>4, <1>5, <1>6 DEF IInv

LEMMA LogoutStep ==
  ASSUME NEW c \in Conns, IInv, Logout(c)
  PROVE  IInv'
  <1> USE GpcmAssumption DEF Objects, LoggedIn, ProfileOf, Logout, Shut, Register
  <1>1. TypeOK'
    <2>1. byConn[c] \in Objects
      BY DEF IInv, TypeOK, HandlersOK, AtPosition, InHandler
    <2>2. obj' \in [Objects -> SessionRecord]
      BY <2>1, WriteLoggedIn DEF IInv
    <2> QED
      BY <2>2 DEF IInv, TypeOK
  <1>2. ByConnKeyed'
    BY DEF IInv, TypeOK, ByConnKeyed
  <1>3. HandlersOK'
    BY DEF IInv, HandlersOK, AtPosition
  <1>4. UnusedIsFresh'
    BY DEF IInv, TypeOK, ByConnKeyed, HandlersOK, AtPosition, InHandler, UnusedIsFresh
  <1>5. AllRegistered'
    BY DEF IInv, AllRegistered, Registered, Live
  <1>6. NoCopies'
    BY DEF IInv, NoCopies, Live
  <1> QED
    BY <1>1, <1>2, <1>3, <1>4, <1>5, <1>6 DEF IInv

LEMMA CloseLookupStep ==
  ASSUME NEW c \in Conns, IInv, CloseLookup(c)
  PROVE  IInv'
  <1> USE GpcmAssumption DEF Objects, LoggedIn, ProfileOf, CloseLookup, Shut, Register
  <1>1. TypeOK'
    BY DEF IInv, TypeOK, Positions
  <1>2. ByConnKeyed'
    BY DEF IInv, TypeOK, ByConnKeyed
  <1>3. HandlersOK'
    BY DEF IInv, HandlersOK, AtPosition, InHandler
  <1>4. UnusedIsFresh'
    BY DEF IInv, TypeOK, ByConnKeyed, HandlersOK, AtPosition, InHandler, UnusedIsFresh
  <1>5. AllRegistered'
    BY DEF IInv, AllRegistered, Registered, Live
  <1>6. NoCopies'
    BY DEF IInv, NoCopies, Live
  <1> QED
    BY <1>1, <1>2, <1>3, <1>4, <1>5, <1>6 DEF IInv

LEMMA CloseUnlinkStep ==
  ASSUME NEW c \in Conns, IInv, CloseUnlink(c)
  PROVE  IInv'
  <1> USE GpcmAssumption DEF Objects, LoggedIn, ProfileOf, CloseUnlink, Shut, Register
  <1>0. /\ byConn[c] \in Objects
        /\ byConn[c][1] = c
        /\ Live(c)
        /\ LoggedIn(c) => /\ ProfileOf(c) \in Profiles
                          /\ sessions[ProfileOf(c)] # None
                          /\ sessions[ProfileOf(c)][1] = c
    <2>1. byConn[c] \in Objects /\ byConn[c][1] = c
      BY DEF IInv, TypeOK, ByConnKeyed, HandlersOK, AtPosition, InHandler
    <2>2. Live(c)
      BY DEF Live
    <2> QED
      BY <2>1, <2>2, ZenonT(60) DEF IInv, TypeOK, SessionRecord, AllRegistered, Registered
  <1>1. TypeOK'
    <2>2. obj' \in [Objects -> SessionRecord]
      <3>1. CASE LoggedIn(c)
        <4>1. obj' = [obj EXCEPT ![byConn[c]].loggedIn = FALSE]
          BY <3>1
        <4> QED
          BY <1>0, <4>1, WriteLoggedIn DEF IInv
      <3>2. CASE ~LoggedIn(c)
        BY <3>2 DEF IInv, TypeOK
      <3> QED
        BY <3>1, <3>2
    <2>3. sessions' \in [Profiles -> Objects \cup {None}]
      BY DEF IInv, TypeOK
    <2> QED
      BY <2>2, <2>3 DEF IInv, TypeOK, Positions
  <1>2. ByConnKeyed'
    BY DEF IInv, TypeOK, ByConnKeyed
  <1>3. HandlersOK'
    <2> SUFFICES ASSUME NEW d \in Conns PROVE AtPosition(d)'
      BY DEF HandlersOK
    <2>1. AtPosition(d)
      BY DEF IInv, HandlersOK
    <2>2. CASE d = c
      BY <2>1, <2>2 DEF IInv, TypeOK, AtPosition, InHandler
    <2>3. CASE d # c
      <3>1. pc'[d] = pc[d] /\ (byConn[d] # None => obj'[byConn[d]] = obj[byConn[d]])
        BY <1>0, <2>3 DEF IInv, TypeOK, ByConnKeyed
      <3>2. pc[d] = "admitted" => sessions'[ProfileOf(d)] = sessions[ProfileOf(d)]
        BY <1>0, <2>1, <2>3 DEF IInv, TypeOK, SessionRecord, ByConnKeyed, AtPosition, InHandler
      <3> QED
        BY <2>1, <3>1, <3>2 DEF AtPosition, InHandler
    <2> QED
      BY <2>2, <2>3
  <1>4. UnusedIsFresh'
    BY DEF IInv, TypeOK, ByConnKeyed, HandlersOK, AtPosition, InHandler, UnusedIsFresh
  <1>5. AllRegistered'
    <2>1. ~Live(c)' /\ \A d \in Conns : Live(d)' => Live(d)
      BY DEF IInv, TypeOK, HandlersOK, AtPosition, InHandler, Live
    <2>2. \A o \in Objects : Registered(o) => Registered(o)'
      <3> SUFFICES ASSUME NEW o \in Objects, Registered(o), obj'[o].loggedIn, Live(o[1])'
                   PROVE  Registered(o)'
        BY DEF Registered
      <3>1. o[1] \in Conns /\ o[1] # c /\ Live(o[1])
        BY <2>1
      <3>2. obj'[o] = obj[o]
        BY <1>0, <3>1 DEF IInv, TypeOK
      <3>3. /\ obj[o].profile \in Profiles
            /\ sessions[obj[o].profile] # None
            /\ sessions[obj[o].profile][1] = o[1]
        BY <3>1, <3>2 DEF Registered, IInv, TypeOK, SessionRecord
      <3>4. sessions'[obj[o].profile] = sessions[obj[o].profile]
        BY <1>0, <3>1, <3>3 DEF IInv, TypeOK
      <3> QED
        BY <3>2, <3>3, <3>4 DEF Registered
    <2>3. ASSUME NEW p \in Profiles, sessions'[p] # None
          PROVE  sessions'[p] = sessions[p]
      BY <1>0, <2>3 DEF IInv, TypeOK
    <2> QED
      BY <2>2, <2>3 DEF IInv, TypeOK, AllRegistered
  <1>6. NoCopies'
    <2>1. \A d \in Conns : d # c => (Live(d) => Live(d)')
      BY DEF IInv, TypeOK, Live
    <2>2. ~ obj'[byConn[c]].loggedIn
      BY <1>0 DEF IInv, TypeOK, SessionRecord
    <2>3. \A d \in Conns : d # c /\ byConn[d] # None => obj'[byConn[d]] = obj[byConn[d]]
      BY <1>0 DEF IInv, TypeOK, ByConnKeyed
    <2>4. \A p \in Profiles : sessions'[p] # None => sessions'[p] = sessions[p]
      BY <1>0 DEF IInv, TypeOK
    <2> QED
      BY <2>1, <2>2, <2>3, <2>4 DEF IInv, TypeOK, NoCopies
  <1> QED
    BY <1>1, <1>2, <1>3, <1>4, <1>5, <1>6 DEF IInv

LEMMA ReloadStep ==
  ASSUME IInv, Reload
  PROVE  IInv'
  <1> USE GpcmAssumption DEF Objects, LoggedIn, ProfileOf, Reload, Quiet
  \* What the reloaded table and heap hold.
  <1>1. ASSUME NEW p \in Profiles, sessions'[p] # None
        PROVE  /\ sessions[p] # None /\ sessions[p] \in Objects
               /\ sessions'[p] = <<sessions[p][1], p>>
               /\ obj'[sessions'[p]] = obj[sessions[p]]
    BY <1>1 DEF IInv, TypeOK
  <1>2. ASSUME NEW c \in Conns, byConn'[c] # None
        PROVE  \E p \in Profiles :
                 sessions'[p] # None /\ byConn'[c] = sessions'[p] /\ sessions'[p][1] = c
    BY <1>2
  <1>3. TypeOK'
    <2>1. sessions' \in [Profiles -> Objects \cup {None}]
      BY DEF IInv, TypeOK
    <2>2. ASSUME NEW o \in Objects
          PROVE  obj'[o] \in SessionRecord
      BY <1>1 DEF IInv, TypeOK, SessionRecord, Blank
    <2>3. obj' \in [Objects -> SessionRecord]
      BY <2>2
    <2> QED
      BY <2>1, <2>3 DEF IInv, TypeOK
  <1>4. ByConnKeyed'
    BY <1>2 DEF ByConnKeyed
  <1>5. HandlersOK'
    BY DEF HandlersOK, AtPosition, InHandler
  <1>6. UnusedIsFresh'
    BY <1>1, <1>2 DEF IInv, TypeOK, UnusedIsFresh
  <1>7. ASSUME NEW p \in Profiles, sessions'[p] # None
        PROVE  Registered(sessions[p])'
    <2> DEFINE o == sessions[p]
               q == obj[o].profile
    <2>1. o \in Objects /\ o # None /\ sessions'[p] = <<o[1], p>> /\ obj'[sessions'[p]] = obj[o]
      BY <1>1, <1>7
    <2>2. sessions'[p][1] = o[1] /\ o[1] \in Conns
      BY <2>1
    <2>3. obj[o].loggedIn /\ Live(o[1]) => q \in Profiles /\ sessions[q] # None /\ sessions[q][1] = o[1]
      BY <2>1 DEF IInv, TypeOK, SessionRecord, AllRegistered, Registered
    <2>4. q \in Profiles /\ sessions[q] # None => sessions'[q] # None /\ sessions'[q][1] = sessions[q][1]
      BY SMTT(30) DEF IInv, TypeOK
    <2> HIDE DEF o, q
    <2>5. obj'[sessions'[p]].profile = q /\ obj'[sessions'[p]].loggedIn = obj[o].loggedIn
      BY <2>1 DEF q
    <2> QED
      BY <2>2, <2>3, <2>4, <2>5, ZenonT(60) DEF Registered, Live
  <1>8. AllRegistered'
    BY <1>2, <1>7 DEF AllRegistered
  <1>9. NoCopies'
    BY DEF NoCopies
  <1> QED
    BY <1>3, <1>4, <1>5, <1>6, <1>8, <1>9 DEF IInv

LEMMA ColdStartStep ==
  ASSUME IInv, ColdStart
  PROVE  IInv'
  <1> USE GpcmAssumption DEF ColdStart, Quiet
  <1>1. TypeOK'
    BY DEF IInv, TypeOK, ConnStates, Positions, SessionRecord, Blank
  <1>2. ByConnKeyed' /\ AllRegistered' /\ NoCopies'
    BY DEF ByConnKeyed, AllRegistered, NoCopies
  <1>3. HandlersOK'
    BY DEF IInv, TypeOK, HandlersOK, AtPosition, InHandler
  <1>4. UnusedIsFresh'
    BY DEF IInv, TypeOK, UnusedIsFresh, Objects
  <1> QED
    BY <1>1, <1>2, <1>3, <1>4 DEF IInv

LEMMA NextIInv == IInv /\ [Next]_vars => IInv'
  <1> SUFFICES ASSUME IInv, [Next]_vars PROVE IInv'
    OBVIOUS
  <1>1. CASE UNCHANGED vars
    BY <1>1 DEF vars, IInv, TypeOK, ByConnKeyed, HandlersOK, AtPosition, UnusedIsFresh,
       AllRegistered, Registered, NoCopies, Live, LoggedIn, ProfileOf
  <1>2. CASE Reload
    BY <1>2, ReloadStep
  <1>3. CASE ColdStart
    BY <1>3, ColdStartStep
  <1>4. ASSUME NEW c \in Conns,
               NewConnection(c) \/ PeerClose(c) \/ FrontendClose(c) \/ HandlePacket(c)
        PROVE  IInv'
    BY <1>4, NewConnectionStep, PeerCloseStep, FrontendCloseStep, HandlePacketStep
  <1>5. ASSUME NEW c \in Conns, Handler(c)
        PROVE  IInv'
    BY <1>5, PacketDoneStep, NotLoggedInStep, LoginRefusedStep, LoginAcceptedStep,
       LoginAdmitStep, LoginPollStep, LoginFinishStep, LogoutStep, CloseLookupStep,
       CloseUnlinkStep DEF Handler
  <1> QED
    BY <1>1, <1>2, <1>3, <1>4, <1>5 DEF Next

LEMMA IInvInvariant == Spec => []IInv
  BY InitIInv, NextIInv, PTL DEF Spec

-----------------------------------------------------------------------------
(* The theorems. *)

\* The maps, the heap of sessions and the handlers keep their types, for any number
\* of connections and profiles, across restarts.
THEOREM TypeCorrect == Spec => []TypeOK
  BY IInvInvariant, PTL DEF IInv

\* A logged-in connection is the one sessions names for its profile.
THEOREM OnlineRegistered == Spec => []OnlineIsRegistered
  <1>1. IInv => OnlineIsRegistered
    BY DEF IInv, TypeOK, ByConnKeyed, AllRegistered, Registered, OnlineIsRegistered, Online,
       LoggedIn, ProfileOf
  <1> QED
    BY IInvInvariant, <1>1, PTL

\* login never lets two connections in under one profile.
THEOREM ExclusiveLogin == Spec => []OneConnectionPerProfile
  <1>1. OnlineIsRegistered => OneConnectionPerProfile
    BY DEF OnlineIsRegistered, OneConnectionPerProfile
  <1> QED
    BY OnlineRegistered, <1>1, PTL

\* Without restarts, CloseConnection leaves no logged-in entry behind.
THEOREM NoGhostLogin == Spec => []LoggedInIsLive
  <1>1. IInv => LoggedInIsLive
    BY DEF IInv, TypeOK, Objects, NoCopies, LoggedInIsLive, LoggedIn
  <1> QED
    BY IInvInvariant, <1>1, PTL

-----------------------------------------------------------------------------
(* Refinement of ProfileOwner.  The owner of a profile only depends on sessions, *)
(* and the profile a connection is online under on its own session.             *)

OwnerOf(p) == IF sessions[p] = None THEN None ELSE sessions[p][1]
OnlineAs(c) == IF Online(c) THEN ProfileOf(c) ELSE None

LEMMA InitOwner == Init => Owner!Init
  BY DEF Init, Owner!Init, Online

\* A step that neither touches the table nor who is online under what is invisible.
LEMMA Invisible ==
  ASSUME UNCHANGED sessions, \A d \in Conns : OnlineAs(d)' = OnlineAs(d)
  PROVE  UNCHANGED Owner!vars
  BY DEF Owner!vars, OnlineAs

\* Only c's handler writes c's session, so that nobody else's status moves.
LEMMA OthersOnline ==
  ASSUME IInv, NEW c \in Conns, NEW d \in Conns, d # c,
         byConn'[d] = byConn[d], pc'[d] = pc[d],
         Live(d)' = Live(d),
         \A o \in Objects : o[1] # c => obj'[o] = obj[o]
  PROVE  OnlineAs(d)' = OnlineAs(d)
  BY GpcmAssumption DEF IInv, TypeOK, ByConnKeyed, OnlineAs, Online, LoggedIn, ProfileOf

LEMMA QuietSteps ==
  ASSUME IInv, NEW c \in Conns,
         \/ NewConnection(c) \/ PeerClose(c) \/ FrontendClose(c) \/ HandlePacket(c)
         \/ PacketDone(c) \/ NotLoggedIn(c) \/ CloseLookup(c)
  PROVE  UNCHANGED Owner!vars
  <1> USE GpcmAssumption DEF OnlineAs, Online, LoggedIn, ProfileOf, Live
  <1>1. ASSUME NewConnection(c), NEW d \in Conns
        PROVE  OnlineAs(d)' = OnlineAs(d)
    <2>1. CASE d = c
      <3>1. byConn[c] = None /\ ~ obj[<<c, None>>].loggedIn
        BY <1>1 DEF NewConnection, IInv, UnusedIsFresh, Blank
      <3>2. byConn'[c] = None \/ byConn'[c] = <<c, None>>
        BY <1>1, <3>1 DEF NewConnection, IInv, TypeOK
      <3>3. ~Online(c) /\ ~Online(c)'
        BY <1>1, <3>1, <3>2 DEF NewConnection
      <3> QED
        BY <2>1, <3>3
    <2>2. CASE d # c
      BY <1>1, <2>2, OthersOnline DEF NewConnection, IInv, TypeOK
    <2> QED
      BY <2>1, <2>2
  <1>2. ASSUME NEW d \in Conns,
               \/ PeerClose(c) \/ FrontendClose(c) \/ HandlePacket(c)
               \/ PacketDone(c) \/ NotLoggedIn(c) \/ CloseLookup(c)
        PROVE  OnlineAs(d)' = OnlineAs(d)
    BY <1>2 DEF PeerClose, FrontendClose, HandlePacket, PacketDone, NotLoggedIn, CloseLookup,
       Shut, IInv, TypeOK, HandlersOK, AtPosition, InHandler
  <1>3. UNCHANGED sessions
    BY DEF NewConnection, PeerClose, FrontendClose, HandlePacket, PacketDone, NotLoggedIn,
       CloseLookup
  <1> QED
    BY <1>1, <1>2, <1>3, Invisible

\* A login attempt before it is registered, and a give-up.
LEMMA LoginSteps ==
  ASSUME IInv, NEW c \in Conns, LoginRefused(c) \/ \E p \in Profiles : LoginAccepted(c, p)
  PROVE  UNCHANGED Owner!vars
  <1> USE GpcmAssumption DEF Objects, LoginRefused, LoginAccepted
  <1>1. byConn[c] \in Objects /\ byConn[c][1] = c
    BY DEF IInv, TypeOK, ByConnKeyed, HandlersOK, AtPosition, InHandler
  <1>2. /\ \A o \in Objects : obj'[o].loggedIn = obj[o].loggedIn
        /\ \A o \in Objects : obj[o].loggedIn => obj'[o].profile = obj[o].profile
    BY <1>1 DEF IInv, TypeOK, SessionRecord, LoggedIn
  <1>3. \A d \in Conns : Live(d)' = Live(d)
    BY DEF Live, Shut, IInv, TypeOK
  <1>4. \A d \in Conns : OnlineAs(d)' = OnlineAs(d)
    <2> TAKE d \in Conns
    <2>1. Online(d)' = Online(d)
      BY <1>2, <1>3 DEF IInv, TypeOK, Online, LoggedIn
    <2>2. Online(d) => ProfileOf(d)' = ProfileOf(d)
      BY <1>2 DEF IInv, TypeOK, Online, LoggedIn, ProfileOf
    <2> QED
      BY <2>1, <2>2 DEF OnlineAs
  <1> QED
    BY <1>4, Invisible

\* A registration is a claim; waiting and giving up are invisible.
LEMMA AdmitSteps ==
  ASSUME IInv, NEW c \in Conns, LoginAdmit(c) \/ LoginPoll(c)
  PROVE  [Owner!Next]_Owner!vars
  <1> USE GpcmAssumption DEF LoginAdmit, LoginPoll
  <1>1. byConn[c] \in Objects /\ byConn[c][1] = c /\ ProfileOf(c) \in Profiles
    BY DEF IInv, TypeOK, SessionRecord, ByConnKeyed, HandlersOK, AtPosition, InHandler, ProfileOf
  <1>2. /\ UNCHANGED <<obj, byConn>>
        /\ \A d \in Conns : Live(d)' = Live(d)
    BY DEF Register, Live, Shut, IInv, TypeOK
  <1>3. \A d \in Conns : OnlineAs(d)' = OnlineAs(d)
    BY <1>2 DEF OnlineAs, Online, LoggedIn, ProfileOf
  <1>4. CASE Register(c)
    <2>1. PICK p \in Profiles : p = ProfileOf(c)
      BY <1>1
    <2>2. Owner!Claim(c, p)
      BY <1>1, <1>3, <1>4, <2>1 DEF Owner!Claim, OnlineAs, Register, IInv, TypeOK, Objects
    <2> QED
      BY <2>2 DEF Owner!Next
  <1>5. CASE UNCHANGED sessions
    BY <1>3, <1>5, Invisible
  <1> QED
    BY <1>4, <1>5

\* The end of login makes the connection online under the profile it has claimed.
LEMMA LoginFinishOwner ==
  ASSUME IInv, NEW c \in Conns, LoginFinish(c)
  PROVE  [Owner!Next]_Owner!vars
  <1> USE GpcmAssumption DEF Objects, LoginFinish
  <1>1. /\ byConn[c] \in Objects /\ byConn[c][1] = c
        /\ ProfileOf(c) \in Profiles /\ sessions[ProfileOf(c)] = byConn[c]
        /\ ~LoggedIn(c) /\ conn[c] \in {"open", "closing"}
    BY DEF IInv, TypeOK, SessionRecord, ByConnKeyed, HandlersOK, AtPosition, InHandler, ProfileOf
  <1>2. PICK p \in Profiles : p = ProfileOf(c)
    BY <1>1
  <1>3. \A d \in Conns \ {c} : OnlineAs(d)' = OnlineAs(d)
    BY <1>1, OthersOnline DEF IInv, TypeOK, Live
  <1>4. OnlineAs(c) = None
    BY <1>1 DEF OnlineAs, Online
  <1>5. OnlineAs(c)' = p
    BY <1>1, <1>2 DEF OnlineAs, Online, Live, LoggedIn, ProfileOf, IInv, TypeOK
  <1>6. Owner!GoOnline(c, p)
    BY <1>1, <1>2, <1>3, <1>4, <1>5 DEF Owner!GoOnline, OnlineAs
  <1> QED
    BY <1>6 DEF Owner!Next

LEMMA LogoutOwner ==
  ASSUME IInv, NEW c \in Conns, Logout(c)
  PROVE  [Owner!Next]_Owner!vars
  <1> USE GpcmAssumption DEF Objects, Logout
  <1>1. byConn[c] \in Objects /\ byConn[c][1] = c
    BY DEF IInv, TypeOK, ByConnKeyed, HandlersOK, AtPosition, InHandler
  <1>2. \A d \in Conns \ {c} : OnlineAs(d)' = OnlineAs(d)
    BY <1>1, OthersOnline DEF IInv, TypeOK, Live
  <1>3. OnlineAs(c)' = None
    BY <1>1 DEF OnlineAs, Online, LoggedIn, IInv, TypeOK, SessionRecord
  <1>4. Owner!GoOffline(c)
    BY <1>2, <1>3 DEF Owner!GoOffline, OnlineAs
  <1> QED
    BY <1>4 DEF Owner!Next

\* The second half of CloseConnection releases the profile it is logged in under,
\* and only that one.
LEMMA CloseUnlinkOwner ==
  ASSUME IInv, NEW c \in Conns, CloseUnlink(c)
  PROVE  [Owner!Next]_Owner!vars
  <1> USE GpcmAssumption DEF Objects, CloseUnlink
  <1>1. byConn[c] \in Objects /\ byConn[c][1] = c /\ conn[c] = "closed" /\ Live(c)
    BY DEF IInv, TypeOK, ByConnKeyed, HandlersOK, AtPosition, InHandler, Live
  <1>2. \A d \in Conns \ {c} : OnlineAs(d)' = OnlineAs(d)
    BY <1>1, OthersOnline DEF IInv, TypeOK, Live
  <1>3. OnlineAs(c)' = None
    BY <1>1 DEF OnlineAs, Online, Live, IInv, TypeOK
  <1>4. CASE LoggedIn(c)
    <2>1. Registered(byConn[c])
      BY <1>1 DEF IInv, AllRegistered
    <2>2. ProfileOf(c) \in Profiles
      BY <1>1, <1>4, <2>1 DEF Registered, LoggedIn, ProfileOf, IInv, TypeOK, SessionRecord
    <2>3. PICK p \in Profiles : p = ProfileOf(c)
      BY <2>2
    <2>4. OnlineAs(c) = p
      BY <1>1, <1>4, <2>3 DEF OnlineAs, Online
    <2>5. \A q \in Profiles : OwnerOf(q)' = IF q = p THEN None ELSE OwnerOf(q)
      BY <1>4, <2>3 DEF OwnerOf, IInv, TypeOK
    <2>6. Owner!Release(c, p)
      BY <1>2, <1>3, <2>4, <2>5 DEF Owner!Release, OnlineAs, OwnerOf
    <2> QED
      BY <2>6 DEF Owner!Next
  <1>5. CASE ~LoggedIn(c)
    <2>1. OnlineAs(c) = None
      BY <1>5 DEF OnlineAs, Online
    <2> QED
      BY <1>2, <1>3, <1>5, <2>1, Invisible
  <1> QED
    BY <1>4, <1>5

LEMMA RestartOwner ==
  ASSUME IInv, IInv', Reload \/ ColdStart
  PROVE  [Owner!Next]_Owner!vars
  <1> USE GpcmAssumption
  <1>1. CASE Reload
    <2>1. \A p \in Profiles : OwnerOf(p)' = OwnerOf(p)
      BY <1>1 DEF Reload, OwnerOf, Objects, IInv, TypeOK
    <2>2. \A c \in Conns : OnlineAs(c)' # None =>
            OnlineAs(c)' \in Profiles /\ OwnerOf(OnlineAs(c)') = c
      <3> TAKE c \in Conns
      <3> HAVE OnlineAs(c)' # None
      <3>1. Online(c)' /\ OnlineAs(c)' = ProfileOf(c)'
        BY DEF OnlineAs
      <3>2. /\ ProfileOf(c)' \in Profiles
            /\ sessions'[ProfileOf(c)'] # None
            /\ sessions'[ProfileOf(c)'][1] = c
        BY <3>1 DEF IInv, TypeOK, SessionRecord, ByConnKeyed, AllRegistered, Registered, Online,
           LoggedIn, ProfileOf
      <3>3. PICK p \in Profiles : p = ProfileOf(c)'
        BY <3>2
      <3>4. OwnerOf(p)' = c
        BY <3>2, <3>3 DEF OwnerOf
      <3> QED
        BY <2>1, <3>1, <3>3, <3>4 DEF OwnerOf
    <2>3. Owner!Restart
      BY <2>1, <2>2 DEF Owner!Restart, OwnerOf, OnlineAs
    <2> QED
      BY <2>3 DEF Owner!Next
  <1>2. CASE ColdStart
    <2>1. Owner!Reset
      BY <1>2 DEF ColdStart, Owner!Reset, Online
    <2> QED
      BY <2>1 DEF Owner!Next
  <1> QED
    BY <1>1, <1>2

\* Every behaviour of the session table, with its waits, locks, copies and restarts, is
\* one of ProfileOwner: profiles are claimed one connection at a time.
THEOREM TableImplementsOwner == Spec => ImplementsOwner
  <1>1. IInv /\ IInv' /\ [Next]_vars => [Owner!Next]_Owner!vars
    <2> SUFFICES ASSUME IInv, IInv', [Next]_vars PROVE [Owner!Next]_Owner!vars
      OBVIOUS
    <2>1. CASE UNCHANGED vars
      BY <2>1, Invisible DEF vars, OnlineAs, Online, Live, LoggedIn, ProfileOf
    <2>2. CASE Reload \/ ColdStart
      BY <2>2, RestartOwner
    <2>3. ASSUME NEW c \in Conns,
                 NewConnection(c) \/ PeerClose(c) \/ FrontendClose(c) \/ HandlePacket(c)
          PROVE  [Owner!Next]_Owner!vars
      BY <2>3, QuietSteps
    <2>4. ASSUME NEW c \in Conns, Handler(c)
          PROVE  [Owner!Next]_Owner!vars
      BY <2>4, QuietSteps, LoginSteps, AdmitSteps, LoginFinishOwner, LogoutOwner,
         CloseUnlinkOwner DEF Handler
    <2> QED
      BY <2>1, <2>2, <2>3, <2>4 DEF Next
  <1> QED
    BY InitOwner, IInvInvariant, <1>1, PTL DEF Spec, ImplementsOwner, Owner!Spec
=============================================================================
