------------------------------ MODULE Presence ------------------------------
(***************************************************************************)
(* Friends and presence in GPCM (gpcm/friend.go, gpcm/message.go,          *)
(* gpcm/profile.go) over the table friends of the database                 *)
(* (database/friend.go): who is asked, who agrees, and what each console   *)
(* is told about the others.                                               *)
(*                                                                         *)
(* A profile has one connection at a time (Gpcm, OneConnectionPerProfile), *)
(* and a connection one handler.  Handlers of different profiles           *)
(* interleave: a query of the database is one step, what is done under the *)
(* mutex of GPCM another.  Messages that are sent directly arrive in the   *)
(* order they are sent; what a login writes to the WriteBuffer goes out at *)
(* the end of the packet.  Messages that change nothing in the server and  *)
(* are about nothing but themselves (buddy messages, notices of            *)
(* authorization and of removal, profiles) are not recorded.  Queries may  *)
(* fail.  A connection that logs in under a second profile after a logout  *)
(* is left to Gpcm.                                                        *)
(***************************************************************************)
EXTENDS Naturals, FiniteSets

CONSTANTS Profiles,   \* profiles
          Statuses,   \* statuses a player may set
          Settable,   \* Settable[p]: those the console of p sets
          Failing,    \* the profiles for whose handlers a query may fail
          Unfit       \* <<s, p>>: the location of s is too long for the game of p

ASSUME PresenceAssumption ==
  /\ Statuses \cap {"none", "blank", "offline"} = {}
  /\ Settable \in [Profiles -> SUBSET Statuses]
  /\ Failing \subseteq Profiles
  /\ Unfit \subseteq Statuses \X Profiles

VARIABLES
  row,      \* friends: row[s][r] for the sender s and the recipient r
  online,   \* the profiles whose session is logged in
  status,   \* Status of each session
  pc,       \* the handler of each profile's connection
  buffer,   \* WriteBuffer of each session
  asked,    \* the friend requests each console shows: told since its login, not authorized
  heard,    \* heard[p][q]: the last status of q that the console of p was told
  agreed,   \* ghost: <<p, q>> if p has ever added or authorized q
  lapsed    \* ghost: sessions for which the query of those to be told, or of requests, failed

vars == <<row, online, status, pc, buffer, asked, heard, agreed, lapsed>>

Rows == {"none", "asked", "authorized"}

\* "blank": a session that has not set a status.
SessionStatuses == Statuses \cup {"blank"}

\* Of a handler: "added", "authorized", "status": the database or the session is written, the others are
\* not told yet; "login", "outgoing", "incoming": inside sendFriendsInfo; "closing": inside
\* CloseConnection.  to: the other profile; list: the result of GetFriends.
Positions ==
  {"idle", "added", "authorized", "status", "login", "outgoing", "incoming", "closing"}

Handlers == [at : Positions, to : Profiles, list : [Profiles -> Rows]]

NoList == [q \in Profiles |-> "none"]

At(position, q, list) == [at |-> position, to |-> q, list |-> list]

\* A friend request of q, or the notice that q is offline.
Buffered == [kind : {"request", "offline"}, from : Profiles]

TypeOK ==
  /\ row \in [Profiles -> [Profiles -> Rows]]
  /\ online \subseteq Profiles
  /\ status \in [Profiles -> SessionStatuses]
  /\ pc \in [Profiles -> Handlers]
  /\ buffer \in [Profiles -> SUBSET Buffered]
  /\ asked \in [Profiles -> SUBSET Profiles]
  /\ heard \in [Profiles -> [Profiles -> SessionStatuses \cup {"none", "offline"}]]
  /\ agreed \subseteq Profiles \X Profiles
  /\ lapsed \subseteq Profiles

Init ==
  /\ row = [s \in Profiles |-> [r \in Profiles |-> "none"]]
  /\ online = {}
  /\ status = [p \in Profiles |-> "blank"]
  /\ pc = [p \in Profiles |-> At("idle", p, NoList)]
  /\ buffer = [p \in Profiles |-> {}]
  /\ asked = [p \in Profiles |-> {}]
  /\ heard = [p \in Profiles |-> [q \in Profiles |-> "none"]]
  /\ agreed = {}
  /\ lapsed = {}

Goto(p, position) == pc' = [pc EXCEPT ![p] = At(position, p, NoList)]
Finish(p) == Goto(p, "idle")

\* A command of the packet is handled by a logged-in session; every other is refused.
Command(p) == p \in online /\ pc[p].at = "idle"

-----------------------------------------------------------------------------
(* Friends *)

\* GetFriends(p, false) and GetFriends(p, true).
Incoming(p) == [q \in Profiles |-> row[q][p]]
Outgoing(p) == row[p]

\* The writes: a second row for the same pair is refused, as is the removal of none, but the
\* update of no row is not an error.
AddFriend(s, r) == row[s][r] = "none" /\ row' = [row EXCEPT ![s][r] = "asked"]
AuthFriend(s, r) == row' = IF row[s][r] = "none" THEN row ELSE [row EXCEPT ![s][r] = "authorized"]
RemoveFriend(s, r) == row[s][r] # "none" /\ row' = [row EXCEPT ![s][r] = "none"]

\* A handler whose write fails or is refused changes nothing.
AddBuddy(p, q) ==
  /\ Command(p)
  /\ p # q
  /\ AddFriend(p, q)
  /\ agreed' = agreed \cup {<<p, q>>}
  /\ pc' = [pc EXCEPT ![p] = At("added", q, NoList)]
  /\ UNCHANGED <<online, status, buffer, asked, heard, lapsed>>

NotifyAdded(p) ==
  /\ pc[p].at = "added"
  /\ asked' = IF pc[p].to \in online THEN [asked EXCEPT ![pc[p].to] = @ \cup {p}] ELSE asked
  /\ Finish(p)
  /\ UNCHANGED <<row, online, status, buffer, heard, agreed, lapsed>>

\* Whether the other is told of it depends on what was read before.
DeleteBuddy(p, q) ==
  /\ Command(p)
  /\ RemoveFriend(p, q)
  /\ UNCHANGED <<online, status, pc, buffer, asked, heard, agreed, lapsed>>

\* p may authorize whoever has not asked, too.  (Authorizing oneself changes no row and sends
\* one's own status to oneself: left out.)
AuthAdd(p, q) ==
  /\ Command(p)
  /\ p # q
  /\ AuthFriend(q, p)
  /\ agreed' = agreed \cup {<<p, q>>}
  /\ asked' = [asked EXCEPT ![p] = @ \ {q}]
  /\ pc' = [pc EXCEPT ![p] = At("authorized", q, NoList)]
  /\ UNCHANGED <<online, status, buffer, heard, lapsed>>

-----------------------------------------------------------------------------
(* Presence *)

\* sendFriendStatus from p to q reaches q.
Reaches(p, q) == q \in online /\ <<status[p], q>> \notin Unfit

\* What the consoles have heard when p has sent its status to all of qs.
SendFriendStatus(p, qs) ==
  heard' = [q \in Profiles |->
              IF q \in qs /\ Reaches(p, q) THEN [heard[q] EXCEPT ![p] = status[p]] ELSE heard[q]]

NotifyAuthorized(p) ==
  /\ pc[p].at = "authorized"
  /\ SendFriendStatus(p, {pc[p].to})
  /\ Finish(p)
  /\ UNCHANGED <<row, online, status, buffer, asked, agreed, lapsed>>

\* The session is written without the mutex ...
SetStatus(p, s) ==
  /\ Command(p)
  /\ status' = [status EXCEPT ![p] = s]
  /\ Goto(p, "status")
  /\ UNCHANGED <<row, online, buffer, asked, heard, agreed, lapsed>>

Friends(p) == {q \in Profiles : Incoming(p)[q] = "authorized"}

\* Mutant: whoever has asked is told, authorized or not.
NotifyStatusAll(p) ==
  /\ pc[p].at = "status"
  /\ SendFriendStatus(p, {q \in Profiles : Incoming(p)[q] # "none"})
  /\ Finish(p)
  /\ UNCHANGED <<row, online, status, buffer, asked, agreed, lapsed>>

\* Mutant: the friends on the player's own list are told.
NotifyStatusOutgoing(p) ==
  /\ pc[p].at = "status"
  /\ SendFriendStatus(p, {q \in Profiles : Outgoing(p)[q] = "authorized"})
  /\ Finish(p)
  /\ UNCHANGED <<row, online, status, buffer, asked, agreed, lapsed>>

\* ... and the friends are looked up and told with it.
NotifyStatus(p) ==
  /\ pc[p].at = "status"
  /\ SendFriendStatus(p, Friends(p))
  /\ Finish(p)
  /\ UNCHANGED <<row, online, status, buffer, asked, agreed, lapsed>>

-----------------------------------------------------------------------------
(* Login and close *)

\* A console that goes offline starts afresh with its next login.
Forget(p) ==
  /\ asked' = [asked EXCEPT ![p] = {}]
  /\ heard' = [heard EXCEPT ![p] = [q \in Profiles |-> "none"]]

\* The session is marked as logged in: that of a new connection, or the one that has logged
\* out before, which keeps its Status.
Login(p) ==
  /\ p \notin online
  /\ pc[p].at = "idle"
  /\ online' = online \cup {p}
  /\ Forget(p)
  /\ Goto(p, "login")
  /\ UNCHANGED <<row, status, buffer, agreed, lapsed>>

Write(p, kind, qs) == [kind : {kind}, from : qs]

\* sendFriendsInfo, for requests that wait for an answer ...
ReadOutgoing(p) ==
  /\ pc[p].at = "login"
  /\ buffer' = [buffer EXCEPT ![p] =
       @ \cup Write(p, "offline", {q \in Profiles : Outgoing(p)[q] = "asked"})]
  /\ Goto(p, "outgoing")
  /\ UNCHANGED <<row, online, status, asked, heard, agreed, lapsed>>

ReadIncoming(p) ==
  /\ pc[p].at = "outgoing"
  /\ pc' = [pc EXCEPT ![p] = At("incoming", p, Incoming(p))]
  /\ UNCHANGED <<row, online, status, buffer, asked, heard, agreed, lapsed>>

\* Mutant: requests are left to the sender to tell.
SendFriendsInfoSilent(p) ==
  LET friends == {q \in Profiles : pc[p].list[q] = "authorized"}
  IN  /\ pc[p].at = "incoming"
      /\ buffer' = [buffer EXCEPT ![p] = @ \cup Write(p, "offline", friends \ online)]
      /\ heard' = [heard EXCEPT ![p] = [q \in Profiles |->
           IF q \in friends \cap online /\ Reaches(q, p) THEN status[q] ELSE @[q]]]
      /\ Finish(p)
      /\ UNCHANGED <<row, online, status, asked, agreed, lapsed>>

\* ... and, under the mutex, for those who have asked: a request is shown again, the
\* status of a friend who is there is sent at once.
SendFriendsInfo(p) ==
  LET list == pc[p].list
      friends == {q \in Profiles : list[q] = "authorized"}
  IN  /\ pc[p].at = "incoming"
      /\ buffer' = [buffer EXCEPT ![p] =
           @ \cup Write(p, "request", {q \in Profiles : list[q] = "asked"})
             \cup Write(p, "offline", friends \ online)]
      /\ heard' = [heard EXCEPT ![p] = [q \in Profiles |->
           IF q \in friends \cap online /\ Reaches(q, p) THEN status[q] ELSE @[q]]]
      /\ Finish(p)
      /\ UNCHANGED <<row, online, status, asked, agreed, lapsed>>

\* The end of the packet.
FlushBuffer(p) ==
  LET from(kind) == {b.from : b \in {m \in buffer[p] : m.kind = kind}}
  IN  /\ pc[p].at = "idle"
      /\ buffer[p] # {}
      /\ buffer' = [buffer EXCEPT ![p] = {}]
      /\ asked' = [asked EXCEPT ![p] = @ \cup from("request")]
      /\ heard' = [heard EXCEPT ![p] = [q \in Profiles |->
           IF q \in from("offline") THEN "offline" ELSE @[q]]]
      /\ UNCHANGED <<row, online, status, pc, agreed, lapsed>>

\* logout tells nobody.
Logout(p) ==
  /\ Command(p)
  /\ online' = online \ {p}
  /\ Forget(p)
  /\ UNCHANGED <<row, status, pc, buffer, agreed, lapsed>>

\* CloseConnection of a session that is logged in: the friends are told one after the
\* other until one is not online, in whatever order the database returns them ...
SendLogoutStatus(p) ==
  /\ Command(p)
  /\ buffer[p] = {}
  /\ \E told \in SUBSET (Friends(p) \cap online) :
       /\ Friends(p) \subseteq online => told = Friends(p)
       /\ heard' = [q \in Profiles |->
            IF q \in told THEN [heard[q] EXCEPT ![p] = "offline"] ELSE heard[q]]
  /\ Goto(p, "closing")
  /\ UNCHANGED <<row, online, status, buffer, asked, agreed, lapsed>>

\* Mutant: the offline message stays in the session as its Status.
UnlinkOffline(p) ==
  /\ pc[p].at = "closing"
  /\ online' = online \ {p}
  /\ status' = [status EXCEPT ![p] = "offline"]
  /\ lapsed' = lapsed \ {p}
  /\ Forget(p)
  /\ Finish(p)
  /\ UNCHANGED <<row, buffer, agreed>>

\* ... and the session is removed when the mutex has been taken again.
Unlink(p) ==
  /\ pc[p].at = "closing"
  /\ online' = online \ {p}
  /\ status' = [status EXCEPT ![p] = "blank"]
  /\ lapsed' = lapsed \ {p}
  /\ Forget(p)
  /\ Finish(p)
  /\ UNCHANGED <<row, buffer, agreed>>

\* GetFriends fails: status and sendLogoutStatus tell nobody, sendFriendsInfo goes on without
\* the outgoing requests, or ends without the incoming ones.
QueryFails(p) ==
  /\ p \in Failing
  /\ \/ pc[p].at \in {"status", "outgoing"} /\ Finish(p) /\ lapsed' = lapsed \cup {p}
     \/ pc[p].at = "login" /\ Goto(p, "outgoing") /\ UNCHANGED lapsed
     \/ Command(p) /\ buffer[p] = {} /\ Goto(p, "closing") /\ UNCHANGED lapsed
  /\ UNCHANGED <<row, online, status, buffer, asked, heard, agreed>>

-----------------------------------------------------------------------------

Next ==
  \E p \in Profiles :
    \/ \E q \in Profiles : AddBuddy(p, q) \/ DeleteBuddy(p, q) \/ AuthAdd(p, q)
    \/ NotifyAdded(p) \/ NotifyAuthorized(p)
    \/ \E s \in Settable[p] : SetStatus(p, s)
    \/ NotifyStatus(p)
    \/ Login(p) \/ ReadOutgoing(p) \/ ReadIncoming(p) \/ SendFriendsInfo(p) \/ FlushBuffer(p)
    \/ Logout(p) \/ SendLogoutStatus(p) \/ Unlink(p)
    \/ QueryFails(p)

Spec == Init /\ [][Next]_vars

-----------------------------------------------------------------------------
(* Properties *)

\* The console of p has been told all that the server had for it.
Settled(p) == p \in online /\ pc[p].at = "idle" /\ buffer[p] = {}

\* "notify recipient of the friend request": no request gets lost between the sender, who
\* finds the recipient not online yet, and the recipient's login, which reads the requests
\* of the database before it looks at who is online.
RequestIsTold ==
  \A s, r \in Profiles :
    (row[s][r] = "asked" /\ Settled(r) /\ r \notin lapsed /\ pc[s].at # "added") => s \in asked[r]

\* What a player is shown of a friend is never out of date: it is the status the friend has
\* now, or nothing, or that it is offline (which a login may deliver late); a status that
\* does not fit the player's game is not shown.
StatusIsCurrent ==
  \A p, q \in Profiles :
    (row[p][q] = "authorized" /\ Settled(p) /\ Settled(q) /\ status[q] # "blank"
       /\ q \notin lapsed /\ <<status[q], p>> \notin Unfit)
    => heard[p][q] \in {status[q], "offline", "none"}

\* Nobody is shown the status of a player who has neither added nor authorized him, whatever
\* changes between the reading of the lists and the sending.
OnlyFriendsSee ==
  [][\A p, q \in Profiles :
       heard'[q][p] # heard[q][p] /\ heard'[q][p] \in SessionStatuses => <<p, q>> \in agreed]_vars
=============================================================================
