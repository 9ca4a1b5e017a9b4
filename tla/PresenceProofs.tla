--------------------------- MODULE PresenceProofs ---------------------------
(***************************************************************************)
(* Proofs about Presence, for any profiles, statuses and games: types, no  *)
(* lost friend request, no outdated status, no status shown to strangers.  *)
(***************************************************************************)
EXTENDS Presence, TLAPS

-----------------------------------------------------------------------------
(* Types *)

\* What the lists of the database look like.
LEMMA ListType ==
  ASSUME TypeOK, NEW p \in Profiles
  PROVE  /\ Incoming(p) \in [Profiles -> Rows]
         /\ Outgoing(p) \in [Profiles -> Rows]
BY DEF TypeOK, Incoming, Outgoing

\* A handler and its parts.
LEMMA HandlerType ==
  /\ NoList \in [Profiles -> Rows]
  /\ \A h \in Handlers : h.at \in Positions /\ h.to \in Profiles /\ h.list \in [Profiles -> Rows]
  /\ \A x \in Positions, q \in Profiles, l \in [Profiles -> Rows] : At(x, q, l) \in Handlers
BY DEF NoList, Handlers, At, Rows

\* The position, the other and the list of a handler.
LEMMA AtParts ==
  \A x, q, l : At(x, q, l).at = x /\ At(x, q, l).to = q /\ At(x, q, l).list = l
BY DEF At

\* TypeOK is inductive: one step per action.
LEMMA TypeStep == TypeOK /\ [Next]_vars => TypeOK'
<1> SUFFICES ASSUME TypeOK, [Next]_vars PROVE TypeOK'
  OBVIOUS
<1> USE HandlerType DEF TypeOK, Goto, Finish, Positions
<1>1. ASSUME NEW p \in Profiles, NEW q \in Profiles, AddBuddy(p, q) PROVE TypeOK'
  BY <1>1 DEF AddBuddy, AddFriend, Command, Rows
<1>2. ASSUME NEW p \in Profiles, NEW q \in Profiles, DeleteBuddy(p, q) PROVE TypeOK'
  BY <1>2 DEF DeleteBuddy, RemoveFriend, Command, Rows
<1>3. ASSUME NEW p \in Profiles, NEW q \in Profiles, AuthAdd(p, q) PROVE TypeOK'
  BY <1>3 DEF AuthAdd, AuthFriend, Command, Rows
<1>4. ASSUME NEW p \in Profiles, NotifyAdded(p) PROVE TypeOK'
  BY <1>4 DEF NotifyAdded
<1>5. ASSUME NEW p \in Profiles, NotifyAuthorized(p) PROVE TypeOK'
  BY <1>5 DEF NotifyAuthorized, SendFriendStatus
<1>6. ASSUME NEW p \in Profiles, NEW s \in Statuses, SetStatus(p, s) PROVE TypeOK'
  BY <1>6 DEF SetStatus, Command, SessionStatuses
<1>7. ASSUME NEW p \in Profiles, NotifyStatus(p) PROVE TypeOK'
  BY <1>7 DEF NotifyStatus, SendFriendStatus
<1>8. ASSUME NEW p \in Profiles, Login(p) PROVE TypeOK'
  BY <1>8 DEF Login, Forget
<1>9. ASSUME NEW p \in Profiles, ReadOutgoing(p) PROVE TypeOK'
  BY <1>9 DEF ReadOutgoing, Write, Buffered
<1>10. ASSUME NEW p \in Profiles, ReadIncoming(p) PROVE TypeOK'
  BY <1>10, ListType DEF ReadIncoming
<1>11. ASSUME NEW p \in Profiles, SendFriendsInfo(p) PROVE TypeOK'
  BY <1>11 DEF SendFriendsInfo, Write, Buffered
<1>12. ASSUME NEW p \in Profiles, FlushBuffer(p) PROVE TypeOK'
  BY <1>12 DEF FlushBuffer, Buffered
<1>13. ASSUME NEW p \in Profiles, Logout(p) PROVE TypeOK'
  BY <1>13 DEF Logout, Forget
<1>14. ASSUME NEW p \in Profiles, SendLogoutStatus(p) PROVE TypeOK'
  BY <1>14 DEF SendLogoutStatus
<1>15. ASSUME NEW p \in Profiles, Unlink(p) PROVE TypeOK'
  BY <1>15 DEF Unlink, Forget, SessionStatuses
<1>16. ASSUME NEW p \in Profiles, QueryFails(p) PROVE TypeOK'
  <2>1. /\ UNCHANGED <<row, online, status, buffer, asked, heard, agreed>>
        /\ lapsed' \subseteq lapsed \cup {p}
        /\ Finish(p) \/ Goto(p, "outgoing") \/ Goto(p, "closing")
    BY <1>16 DEF QueryFails
  <2>2. /\ At("idle", p, NoList) \in Handlers
        /\ At("outgoing", p, NoList) \in Handlers
        /\ At("closing", p, NoList) \in Handlers
    OBVIOUS
  <2>3. PICK h \in Handlers : pc' = [pc EXCEPT ![p] = h]
    BY <2>1, <2>2
  <2> QED
    BY <2>1, <2>3
<1>17. CASE UNCHANGED vars
  BY <1>17 DEF vars
<1> QED
  BY <1>1, <1>2, <1>3, <1>4, <1>5, <1>6, <1>7, <1>8, <1>9, <1>10, <1>11, <1>12, <1>13,
     <1>14, <1>15, <1>16, <1>17, PresenceAssumption DEF Next

LEMMA TypeInit == Init => TypeOK
BY HandlerType DEF Init, TypeOK, Positions, Rows, SessionStatuses

\* The rows of friends, the handlers and what each console was told are well typed
\* throughout, queries that fail included.
THEOREM TypeCorrect == Spec => []TypeOK
BY TypeInit, TypeStep, PTL DEF Spec

-----------------------------------------------------------------------------
(* Friend requests *)

\* Where the request of s to r is while r is online: shown, about to be told by s, about to
\* be read or written by the login of r, or in the buffer of r.
Underway(s, r) ==
  \/ s \in asked[r]
  \/ pc[s].at = "added" /\ pc[s].to = r
  \/ pc[r].at \in {"login", "outgoing"}
  \/ pc[r].at = "incoming" /\ pc[r].list[s] = "asked"
  \/ [kind |-> "request", from |-> s] \in buffer[r]

RequestInv ==
  \A s, r \in Profiles :
    (row[s][r] = "asked" /\ r \in online /\ r \notin lapsed) => Underway(s, r)

LEMMA RequestStep == TypeOK /\ RequestInv /\ [Next]_vars => RequestInv'
<1> SUFFICES ASSUME TypeOK, RequestInv, [Next]_vars, NEW s \in Profiles, NEW r \in Profiles,
                    row'[s][r] = "asked", r \in online', r \notin lapsed'
             PROVE  Underway(s, r)'
  BY DEF RequestInv
<1> USE AtParts DEF TypeOK, RequestInv, Underway
<1>1. ASSUME NEW p \in Profiles, NEW q \in Profiles, AddBuddy(p, q) PROVE Underway(s, r)'
  BY <1>1 DEF AddBuddy, AddFriend, Command
<1>2. ASSUME NEW p \in Profiles, NEW q \in Profiles, DeleteBuddy(p, q) PROVE Underway(s, r)'
  BY <1>2 DEF DeleteBuddy, RemoveFriend
<1>3. ASSUME NEW p \in Profiles, NEW q \in Profiles, AuthAdd(p, q) PROVE Underway(s, r)'
  BY <1>3, SMTT(30) DEF AuthAdd, AuthFriend, Command
<1>4. ASSUME NEW p \in Profiles, NotifyAdded(p) PROVE Underway(s, r)'
  BY <1>4 DEF NotifyAdded, Finish, Goto
<1>5. ASSUME NEW p \in Profiles, NotifyAuthorized(p) PROVE Underway(s, r)'
  BY <1>5 DEF NotifyAuthorized, Finish, Goto, SendFriendStatus, Reaches
<1>6. ASSUME NEW p \in Profiles, NEW new \in Statuses, SetStatus(p, new) PROVE Underway(s, r)'
  BY <1>6 DEF SetStatus, Command, Goto
<1>7. ASSUME NEW p \in Profiles, NotifyStatus(p) PROVE Underway(s, r)'
  BY <1>7 DEF NotifyStatus, Finish, Goto, SendFriendStatus, Friends, Reaches, Incoming
<1>8. ASSUME NEW p \in Profiles, Login(p) PROVE Underway(s, r)'
  BY <1>8 DEF Login, Goto, Forget
<1>9. ASSUME NEW p \in Profiles, ReadOutgoing(p) PROVE Underway(s, r)'
  BY <1>9 DEF ReadOutgoing, Goto, Write
<1>10. ASSUME NEW p \in Profiles, ReadIncoming(p) PROVE Underway(s, r)'
  BY <1>10 DEF ReadIncoming, Incoming
<1>11. ASSUME NEW p \in Profiles, SendFriendsInfo(p) PROVE Underway(s, r)'
  BY <1>11 DEF SendFriendsInfo, Finish, Goto, Write, Reaches
<1>12. ASSUME NEW p \in Profiles, FlushBuffer(p) PROVE Underway(s, r)'
  BY <1>12 DEF FlushBuffer, Buffered
<1>13. ASSUME NEW p \in Profiles, Logout(p) PROVE Underway(s, r)'
  BY <1>13 DEF Logout, Forget
<1>14. ASSUME NEW p \in Profiles, SendLogoutStatus(p) PROVE Underway(s, r)'
  BY <1>14 DEF SendLogoutStatus, Command, Goto
<1>15. ASSUME NEW p \in Profiles, Unlink(p) PROVE Underway(s, r)'
  BY <1>15 DEF Unlink, Finish, Goto, Forget
<1>16. ASSUME NEW p \in Profiles, QueryFails(p) PROVE Underway(s, r)'
  <2> UNCHANGED <<row, online, status, buffer, asked, heard, agreed>>
    BY <1>16 DEF QueryFails
  <2>1. CASE pc[p].at \in {"status", "outgoing"} /\ Finish(p) /\ lapsed' = lapsed \cup {p}
    BY <2>1 DEF Finish, Goto
  <2>2. CASE pc[p].at = "login" /\ Goto(p, "outgoing") /\ UNCHANGED lapsed
    BY <2>2 DEF Goto
  <2>3. CASE Command(p) /\ buffer[p] = {} /\ Goto(p, "closing") /\ UNCHANGED lapsed
    BY <2>3, SMTT(30) DEF Command, Goto
  <2> QED
    BY <1>16, <2>1, <2>2, <2>3 DEF QueryFails
<1>17. CASE UNCHANGED vars
  BY <1>17 DEF vars
<1> QED
  BY <1>1, <1>2, <1>3, <1>4, <1>5, <1>6, <1>7, <1>8, <1>9, <1>10, <1>11, <1>12, <1>13,
     <1>14, <1>15, <1>16, <1>17, PresenceAssumption DEF Next

\* "notify recipient of the friend request" (friend.go): no request is lost between addBuddy,
\* which inserts the row and then looks whether the recipient is online, and the login of the
\* recipient, which goes online and then reads the rows, in any interleaving.
THEOREM RequestsAreTold == Spec => []RequestIsTold
<1>1. Init => RequestInv
  BY DEF Init, RequestInv
<1>2. RequestInv => RequestIsTold
  BY DEF RequestInv, Underway, RequestIsTold, Settled
<1> QED
  BY <1>1, <1>2, RequestStep, TypeCorrect, PTL DEF Spec

-----------------------------------------------------------------------------
(* Statuses *)

\* What r was told of s is up to date, or s is about to tell.
StatusInv ==
  \A r, s \in Profiles :
    (row[r][s] = "authorized" /\ r \in online /\ status[s] # "blank" /\ s \notin lapsed
       /\ <<status[s], r>> \notin Unfit)
    => \/ heard[r][s] \in {status[s], "offline", "none"}
       \/ pc[s].at = "status"
       \/ pc[s].at = "authorized" /\ pc[s].to = r

LEMMA StatusStep == TypeOK /\ StatusInv /\ [Next]_vars => StatusInv'
<1> DEFINE Current(r, s) == \/ heard[r][s] \in {status[s], "offline", "none"}
                            \/ pc[s].at = "status"
                            \/ pc[s].at = "authorized" /\ pc[s].to = r
<1> SUFFICES ASSUME TypeOK, StatusInv, [Next]_vars, NEW s \in Profiles, NEW r \in Profiles,
                    row'[r][s] = "authorized", r \in online', status'[s] # "blank",
                    s \notin lapsed', <<status'[s], r>> \notin Unfit
             PROVE  Current(r, s)'
  BY DEF StatusInv
<1> USE AtParts DEF TypeOK, StatusInv
<1>1. ASSUME NEW p \in Profiles, NEW q \in Profiles, AddBuddy(p, q) PROVE Current(r, s)'
  BY <1>1 DEF AddBuddy, AddFriend, Command
<1>2. ASSUME NEW p \in Profiles, NEW q \in Profiles, DeleteBuddy(p, q) PROVE Current(r, s)'
  BY <1>2 DEF DeleteBuddy, RemoveFriend
<1>3. ASSUME NEW p \in Profiles, NEW q \in Profiles, AuthAdd(p, q) PROVE Current(r, s)'
  BY <1>3 DEF AuthAdd, AuthFriend, Command
<1>4. ASSUME NEW p \in Profiles, NotifyAdded(p) PROVE Current(r, s)'
  BY <1>4 DEF NotifyAdded, Finish, Goto
<1>5. ASSUME NEW p \in Profiles, NotifyAuthorized(p) PROVE Current(r, s)'
  BY <1>5 DEF NotifyAuthorized, Finish, Goto, SendFriendStatus, Reaches
<1>6. ASSUME NEW p \in Profiles, NEW new \in Statuses, SetStatus(p, new) PROVE Current(r, s)'
  BY <1>6 DEF SetStatus, Command, Goto
<1>7. ASSUME NEW p \in Profiles, NotifyStatus(p) PROVE Current(r, s)'
  <2>1. CASE p = s
    <3>1. r \in Friends(p) /\ Reaches(p, r)
      BY <1>7, <2>1 DEF NotifyStatus, Friends, Incoming, Reaches
    <3>2. heard'[r] = [heard[r] EXCEPT ![p] = status[p]]
      BY <1>7, <3>1 DEF NotifyStatus, SendFriendStatus
    <3> QED
      BY <1>7, <2>1, <3>2 DEF NotifyStatus
  <2>2. CASE p # s
    <3>1. heard'[r][s] = heard[r][s]
      BY <1>7, <2>2 DEF NotifyStatus, SendFriendStatus
    <3> QED
      BY <1>7, <2>2, <3>1 DEF NotifyStatus, Finish, Goto
  <2> QED
    BY <2>1, <2>2
<1>8. ASSUME NEW p \in Profiles, Login(p) PROVE Current(r, s)'
  BY <1>8 DEF Login, Goto, Forget
<1>9. ASSUME NEW p \in Profiles, ReadOutgoing(p) PROVE Current(r, s)'
  BY <1>9 DEF ReadOutgoing, Goto, Write
<1>10. ASSUME NEW p \in Profiles, ReadIncoming(p) PROVE Current(r, s)'
  BY <1>10 DEF ReadIncoming, Incoming
<1>11. ASSUME NEW p \in Profiles, SendFriendsInfo(p) PROVE Current(r, s)'
  BY <1>11 DEF SendFriendsInfo, Finish, Goto, Write, Reaches
<1>12. ASSUME NEW p \in Profiles, FlushBuffer(p) PROVE Current(r, s)'
  BY <1>12 DEF FlushBuffer, Buffered
<1>13. ASSUME NEW p \in Profiles, Logout(p) PROVE Current(r, s)'
  BY <1>13 DEF Logout, Forget
<1>14. ASSUME NEW p \in Profiles, SendLogoutStatus(p) PROVE Current(r, s)'
  BY <1>14 DEF SendLogoutStatus, Command, Goto
<1>15. ASSUME NEW p \in Profiles, Unlink(p) PROVE Current(r, s)'
  BY <1>15 DEF Unlink, Finish, Goto, Forget
<1>16. ASSUME NEW p \in Profiles, QueryFails(p) PROVE Current(r, s)'
  BY <1>16 DEF QueryFails, Command, Finish, Goto
<1>17. CASE UNCHANGED vars
  BY <1>17 DEF vars
<1> QED
  BY <1>1, <1>2, <1>3, <1>4, <1>5, <1>6, <1>7, <1>8, <1>9, <1>10, <1>11, <1>12, <1>13,
     <1>14, <1>15, <1>16, <1>17, PresenceAssumption DEF Next

\* What a console shows of a friend is the friend's status, or nothing, or offline: status,
\* authAdd and sendFriendsInfo (friend.go) leave no older status behind.
THEOREM StatusesAreCurrent == Spec => []StatusIsCurrent
<1>1. Init => StatusInv
  BY DEF Init, StatusInv
<1>2. StatusInv => StatusIsCurrent
  BY DEF StatusInv, StatusIsCurrent, Settled
<1> QED
  BY <1>1, <1>2, StatusStep, TypeCorrect, PTL DEF Spec

-----------------------------------------------------------------------------
(* Strangers *)

\* Rows, lists that were read and authorizations under way are by agreement.
AgreedInv ==
  /\ \A s, r \in Profiles : row[s][r] # "none" => <<s, r>> \in agreed
  /\ \A s, r \in Profiles : row[s][r] = "authorized" => <<r, s>> \in agreed
  /\ \A s \in Profiles : pc[s].at = "authorized" => <<s, pc[s].to>> \in agreed
  /\ \A s, r \in Profiles :
       pc[r].at = "incoming" /\ pc[r].list[s] # "none" => <<s, r>> \in agreed

LEMMA AgreedStep == TypeOK /\ AgreedInv /\ [Next]_vars => AgreedInv'
<1> SUFFICES ASSUME TypeOK, AgreedInv, [Next]_vars PROVE AgreedInv'
  OBVIOUS
<1> USE AtParts DEF TypeOK, AgreedInv
<1>1. ASSUME NEW p \in Profiles, NEW q \in Profiles, AddBuddy(p, q) PROVE AgreedInv'
  BY <1>1 DEF AddBuddy, AddFriend, Command
<1>2. ASSUME NEW p \in Profiles, NEW q \in Profiles, DeleteBuddy(p, q) PROVE AgreedInv'
  BY <1>2 DEF DeleteBuddy, RemoveFriend
<1>3. ASSUME NEW p \in Profiles, NEW q \in Profiles, AuthAdd(p, q) PROVE AgreedInv'
  BY <1>3 DEF AuthAdd, AuthFriend, Command
<1>4. ASSUME NEW p \in Profiles, NotifyAdded(p) PROVE AgreedInv'
  BY <1>4 DEF NotifyAdded, Finish, Goto
<1>5. ASSUME NEW p \in Profiles, NotifyAuthorized(p) PROVE AgreedInv'
  BY <1>5 DEF NotifyAuthorized, Finish, Goto, SendFriendStatus, Reaches
<1>6. ASSUME NEW p \in Profiles, NEW new \in Statuses, SetStatus(p, new) PROVE AgreedInv'
  BY <1>6 DEF SetStatus, Command, Goto
<1>7. ASSUME NEW p \in Profiles, NotifyStatus(p) PROVE AgreedInv'
  BY <1>7 DEF NotifyStatus, Finish, Goto, SendFriendStatus, Friends, Reaches, Incoming
<1>8. ASSUME NEW p \in Profiles, Login(p) PROVE AgreedInv'
  BY <1>8 DEF Login, Goto, Forget
<1>9. ASSUME NEW p \in Profiles, ReadOutgoing(p) PROVE AgreedInv'
  BY <1>9 DEF ReadOutgoing, Goto, Write
<1>10. ASSUME NEW p \in Profiles, ReadIncoming(p) PROVE AgreedInv'
  BY <1>10 DEF ReadIncoming, Incoming
<1>11. ASSUME NEW p \in Profiles, SendFriendsInfo(p) PROVE AgreedInv'
  BY <1>11 DEF SendFriendsInfo, Finish, Goto, Write, Reaches
<1>12. ASSUME NEW p \in Profiles, FlushBuffer(p) PROVE AgreedInv'
  BY <1>12 DEF FlushBuffer, Buffered
<1>13. ASSUME NEW p \in Profiles, Logout(p) PROVE AgreedInv'
  BY <1>13 DEF Logout, Forget
<1>14. ASSUME NEW p \in Profiles, SendLogoutStatus(p) PROVE AgreedInv'
  BY <1>14 DEF SendLogoutStatus, Command, Goto
<1>15. ASSUME NEW p \in Profiles, Unlink(p) PROVE AgreedInv'
  BY <1>15 DEF Unlink, Finish, Goto, Forget
<1>16. ASSUME NEW p \in Profiles, QueryFails(p) PROVE AgreedInv'
  <2> UNCHANGED <<row, online, status, buffer, asked, heard, agreed>>
    BY <1>16 DEF QueryFails
  <2>1. CASE pc[p].at \in {"status", "outgoing"} /\ Finish(p) /\ lapsed' = lapsed \cup {p}
    BY <2>1 DEF Finish, Goto
  <2>2. CASE pc[p].at = "login" /\ Goto(p, "outgoing") /\ UNCHANGED lapsed
    BY <2>2 DEF Goto
  <2>3. CASE Command(p) /\ buffer[p] = {} /\ Goto(p, "closing") /\ UNCHANGED lapsed
    BY <2>3 DEF Command, Goto
  <2> QED
    BY <1>16, <2>1, <2>2, <2>3 DEF QueryFails
<1>17. CASE UNCHANGED vars
  BY <1>17 DEF vars
<1> QED
  BY <1>1, <1>2, <1>3, <1>4, <1>5, <1>6, <1>7, <1>8, <1>9, <1>10, <1>11, <1>12, <1>13,
     <1>14, <1>15, <1>16, <1>17, PresenceAssumption DEF Next

\* The step of OnlyFriendsSee.
FriendsSee ==
  \A p, q \in Profiles :
    heard'[q][p] # heard[q][p] /\ heard'[q][p] \in SessionStatuses => <<p, q>> \in agreed

LEMMA FriendsSeeStep == TypeOK /\ AgreedInv /\ [Next]_vars => FriendsSee
<1> SUFFICES ASSUME TypeOK, AgreedInv, [Next]_vars, NEW s \in Profiles, NEW r \in Profiles,
                    heard'[r][s] # heard[r][s], heard'[r][s] \in SessionStatuses
             PROVE  <<s, r>> \in agreed
  BY DEF FriendsSee
<1> USE AtParts, PresenceAssumption DEF TypeOK, AgreedInv, SessionStatuses
<1>1. ASSUME NEW p \in Profiles, NEW q \in Profiles, AddBuddy(p, q) PROVE <<s, r>> \in agreed
  BY <1>1 DEF AddBuddy, AddFriend, Command
<1>2. ASSUME NEW p \in Profiles, NEW q \in Profiles, DeleteBuddy(p, q) PROVE <<s, r>> \in agreed
  BY <1>2 DEF DeleteBuddy, RemoveFriend
<1>3. ASSUME NEW p \in Profiles, NEW q \in Profiles, AuthAdd(p, q) PROVE <<s, r>> \in agreed
  BY <1>3 DEF AuthAdd, AuthFriend, Command
<1>4. ASSUME NEW p \in Profiles, NotifyAdded(p) PROVE <<s, r>> \in agreed
  BY <1>4 DEF NotifyAdded, Finish, Goto
<1>5. ASSUME NEW p \in Profiles, NotifyAuthorized(p) PROVE <<s, r>> \in agreed
  BY <1>5 DEF NotifyAuthorized, Finish, Goto, SendFriendStatus, Reaches
<1>6. ASSUME NEW p \in Profiles, NEW new \in Statuses, SetStatus(p, new) PROVE <<s, r>> \in agreed
  BY <1>6 DEF SetStatus, Command, Goto
<1>7. ASSUME NEW p \in Profiles, NotifyStatus(p) PROVE <<s, r>> \in agreed
  BY <1>7 DEF NotifyStatus, Finish, Goto, SendFriendStatus, Friends, Reaches, Incoming
<1>8. ASSUME NEW p \in Profiles, Login(p) PROVE <<s, r>> \in agreed
  BY <1>8 DEF Login, Goto, Forget
<1>9. ASSUME NEW p \in Profiles, ReadOutgoing(p) PROVE <<s, r>> \in agreed
  BY <1>9 DEF ReadOutgoing, Goto, Write
<1>10. ASSUME NEW p \in Profiles, ReadIncoming(p) PROVE <<s, r>> \in agreed
  BY <1>10 DEF ReadIncoming, Incoming
<1>11. ASSUME NEW p \in Profiles, SendFriendsInfo(p) PROVE <<s, r>> \in agreed
  BY <1>11 DEF SendFriendsInfo, Finish, Goto, Write, Reaches
<1>12. ASSUME NEW p \in Profiles, FlushBuffer(p) PROVE <<s, r>> \in agreed
  BY <1>12 DEF FlushBuffer, Buffered
<1>13. ASSUME NEW p \in Profiles, Logout(p) PROVE <<s, r>> \in agreed
  BY <1>13 DEF Logout, Forget
<1>14. ASSUME NEW p \in Profiles, SendLogoutStatus(p) PROVE <<s, r>> \in agreed
  BY <1>14 DEF SendLogoutStatus, Command, Goto
<1>15. ASSUME NEW p \in Profiles, Unlink(p) PROVE <<s, r>> \in agreed
  BY <1>15 DEF Unlink, Finish, Goto, Forget
<1>16. ASSUME NEW p \in Profiles, QueryFails(p) PROVE <<s, r>> \in agreed
  BY <1>16 DEF QueryFails, Command, Finish, Goto
<1>17. CASE UNCHANGED vars
  BY <1>17 DEF vars
<1> QED
  BY <1>1, <1>2, <1>3, <1>4, <1>5, <1>6, <1>7, <1>8, <1>9, <1>10, <1>11, <1>12, <1>13,
     <1>14, <1>15, <1>16, <1>17 DEF Next

\* A status is shown only to those the player has added or authorized, although the lists
\* that authAdd and sendFriendsInfo (friend.go) act on may have changed since they were read.
THEOREM StrangersSeeNothing == Spec => OnlyFriendsSee
<1>1. Init => AgreedInv
  BY AtParts DEF Init, AgreedInv
<1>2. TypeOK /\ AgreedInv /\ [Next]_vars => [FriendsSee]_vars
  BY FriendsSeeStep
<1> QED
  BY <1>1, <1>2, AgreedStep, TypeCorrect, PTL DEF Spec, OnlyFriendsSee, FriendsSee
=============================================================================
