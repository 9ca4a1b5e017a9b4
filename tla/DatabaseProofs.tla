---------------------------- MODULE DatabaseProofs ----------------------------
(***************************************************************************)
(* Proofs about what is kept in the database. The accounts of NAS, for any *)
(* consoles, requests and number of goroutines: a token names the user     *)
(* whose secret was shown, a console is always led to the same profile,    *)
(* and an answer can be relied on. Sake, for any profiles, threads,        *)
(* tables, inputs and limits: the limit of records holds up to the         *)
(* requests in flight, nobody changes a record of somebody else, and every *)
(* stored record decodes.                                                  *)
(*                                                                         *)
(* The goroutines of NAS act on what they have read before, so the         *)
(* inductive invariant says what each position of a goroutine still knows  *)
(* of the tables: the row it has read is there, though it may be banned by *)
(* now, and the profile it has read or made is there and is of its user    *)
(* and game.  For a login that is alone it says what is left to go wrong   *)
(* at each query, which is nothing.                                        *)
(***************************************************************************)
EXTENDS Accounts, Sake, FiniteSetTheorems, TLAPS

-----------------------------------------------------------------------------
(* Accounts: what is known, as a function of the tables us and ps. *)

\* The bounds are numbers and the requests have the fields of a request.
Formed ==
  /\ \A r \in Requests : DOMAIN r = Fields
  /\ MaxProfiles \in Nat /\ MaxFaults \in Nat

AllRows == {[Row(r) EXCEPT !.banned = b] : r \in Requests, b \in BOOLEAN}

Codes == {"none", "001", "002", "007", "040", "101", "102", "103", "104", "105", "106", "109"}

Goroutine == [at : Queries, req : Requests \cup {Blank.req}, user : AllRows \cup {NoUser}, profile : Nat,
              answer : Codes, alone : BOOLEAN, fit : BOOLEAN]

\* The same row, but for the ban.
Same(u, v) == u.id = v.id /\ u.unitcd = v.unitcd /\ u.macadr = v.macadr /\ u.secret = v.secret

\* The row of the user that was read is still there.
HasRow(u, us) == \E v \in us : Same(v, u)

\* The profile pid is that of the user id for the game code.
IsProfile(pid, id, code, ps) == \E p \in ps : p.id = pid /\ p.wfcid = id /\ p.gsbrcd = code

\* The positions after the row was read, and all of those of a request.
AfterUser == {"getProfileID", "createProfile", "check"}

Knows(th, us, ps) ==
  /\ th.at # "idle" => th.req \in Requests
  /\ th.at \in AfterUser => th.user.id = th.req.userid /\ HasRow(th.user, us)
  /\ th.at # "check" => th.profile = 0
  /\ th.profile # 0 => IsProfile(th.profile, th.req.userid, th.req.gsbrcd, ps)

Stored(th, us) == th.answer = "002" => th.req \in Requests /\ HasRow(Row(th.req), us)

TokenOK(k, us, ps) ==
  /\ k.wfcid = k.by.userid
  /\ \E u \in us : u.id = k.by.userid /\ u.unitcd = k.by.unitcd /\ u.secret = k.by.secret
  /\ k.profile # 0 => IsProfile(k.profile, k.by.userid, k.by.gsbrcd, ps)

TicketOK(k, ps) == IsProfile(k.profile, k.by.userid, k.by.gsbrcd, ps)

\* Rows do not go away.
Kept(us, vs) == \A u \in us : HasRow(u, vs)

LEMMA RowWithBan ==
  ASSUME NEW r, NEW b \in BOOLEAN
  PROVE  [Row(r) EXCEPT !.banned = b]
           = [id |-> r.userid, unitcd |-> r.unitcd, macadr |-> r.macadr, secret |-> r.secret, banned |-> b]
  BY DEF Row

LEMMA RowsAreAll ==
  ASSUME NEW r \in Requests
  PROVE  Row(r) \in AllRows /\ [Row(r) EXCEPT !.banned = TRUE] \in AllRows
  <1>1. ASSUME NEW b \in BOOLEAN PROVE [Row(r) EXCEPT !.banned = b] \in AllRows
    BY DEF AllRows
  <1>2. Row(r) = [Row(r) EXCEPT !.banned = FALSE]
    BY RowWithBan DEF Row
  <1> QED
    BY <1>1, <1>2

LEMMA HasRowMono ==
  ASSUME NEW us, NEW vs, Kept(us, vs), NEW u, HasRow(u, us)
  PROVE  HasRow(u, vs)
  BY DEF Kept, HasRow, Same

LEMMA KnowsMono ==
  ASSUME NEW us, NEW vs, NEW ps, NEW qs, Kept(us, vs), ps \subseteq qs, NEW th, Knows(th, us, ps)
  PROVE  Knows(th, vs, qs)
  BY HasRowMono DEF Knows, IsProfile

LEMMA StoredMono ==
  ASSUME NEW us, NEW vs, Kept(us, vs), NEW th, Stored(th, us)
  PROVE  Stored(th, vs)
  BY HasRowMono DEF Stored

LEMMA TokenMono ==
  ASSUME NEW us, NEW vs, NEW ps, NEW qs, Kept(us, vs), ps \subseteq qs, NEW k, TokenOK(k, us, ps)
  PROVE  TokenOK(k, vs, qs)
  BY DEF TokenOK, Kept, HasRow, Same, IsProfile

LEMMA TicketMono ==
  ASSUME NEW ps, NEW qs, ps \subseteq qs, NEW k, TicketOK(k, ps)
  PROVE  TicketOK(k, qs)
  BY DEF TicketOK, IsProfile

-----------------------------------------------------------------------------
(* The inductive invariant. *)

Typed ==
  /\ users \subseteq AllRows
  /\ thread \in [Goroutines -> Goroutine]
  /\ lastId \in 0 .. MaxProfiles /\ faults \in 0 .. MaxFaults

\* The keys of table profiles, and its foreign key.
ProfilesOK ==
  /\ \A p \in profiles : p.id \in 1 .. lastId /\ Holder(p.wfcid) # {}
  /\ \A p, q \in profiles : p.wfcid = q.wfcid /\ p.gsbrcd = q.gsbrcd => p.id = q.id

ThreadsOK == \A t \in Goroutines : Knows(thread[t], users, profiles) /\ Stored(thread[t], users)

TokensOK == (\A k \in tokens : TokenOK(k, users, profiles)) /\ (\A k \in tickets : TicketOK(k, profiles))

\* What a good login that is alone finds at each query.
Ahead(t) ==
  LET q == thread[t].at
      r == thread[t].req
  IN /\ q = "getUser" => Fit(r)
     /\ q \in {"isUserIDInUse", "isMACInUse", "isSerialInUse", "insertUser"} => UniqueUser(r)
     /\ q = "getUserAgain" => Holder(r.userid) = {Row(r)}
     /\ q \in AfterUser => thread[t].user = Row(r)
     /\ q = "createProfile" => ProfilesOf(t) = {}

Good(th) == th.alone /\ th.fit /\ GoodLogin(th.req)

Smooth(t) ==
  Good(thread[t]) => IF Idle(t) THEN thread[t].answer \in {"001", "040"} ELSE Ahead(t)

Alone == \A t \in Goroutines : thread[t].alone /\ ~Idle(t) => \A s \in Goroutines \ {t} : Idle(s)

LoginsOK == Alone /\ \A t \in Goroutines : Smooth(t)

AccountsInv == Typed /\ ProfilesOK /\ ThreadsOK /\ TokensOK

-----------------------------------------------------------------------------
(* One goroutine moves. *)

LEMMA KeptSame ==
  ASSUME NEW us
  PROVE  Kept(us, us)
  BY DEF Kept, HasRow, Same

\* A goroutine that answers knows nothing any more.
LEMMA AnsweredKnows ==
  ASSUME NEW th \in Goroutine, NEW code \in Codes, NEW us, NEW ps
  PROVE  /\ Answered(th, code) \in Goroutine
         /\ Answered(th, code).at = "idle" /\ Answered(th, code).answer = code
         /\ Answered(th, code).req = th.req
         /\ Answered(th, code).alone = th.alone /\ Answered(th, code).fit = th.fit
         /\ Knows(Answered(th, code), us, ps)
         /\ code # "002" => Stored(Answered(th, code), us)
  BY DEF Answered, Goroutine, Knows, Stored, AfterUser, Queries

LEMMA ThreadMoves ==
  ASSUME AccountsInv, NEW t \in Goroutines, NEW x \in Goroutine, thread' = [thread EXCEPT ![t] = x],
         Kept(users, users'), profiles \subseteq profiles',
         Knows(x, users', profiles'), Stored(x, users')
  PROVE  thread' \in [Goroutines -> Goroutine] /\ ThreadsOK'
  <1>1. thread' \in [Goroutines -> Goroutine]
    BY DEF AccountsInv, Typed
  <1>2. ASSUME NEW s \in Goroutines
        PROVE  Knows(thread'[s], users', profiles') /\ Stored(thread'[s], users')
    <2>1. CASE s = t
      BY <2>1 DEF AccountsInv, Typed
    <2>2. CASE s # t
      <3>1. thread'[s] = thread[s] /\ Knows(thread[s], users, profiles) /\ Stored(thread[s], users)
        BY <2>2 DEF AccountsInv, ThreadsOK, Typed
      <3> QED
        BY <3>1, KnowsMono, StoredMono
    <2> QED
      BY <2>1, <2>2
  <1> QED
    BY <1>1, <1>2 DEF ThreadsOK

\* A query that changes no table.
LEMMA ThreadReads ==
  ASSUME AccountsInv, NEW t \in Goroutines, NEW x \in Goroutine, thread' = [thread EXCEPT ![t] = x],
         Unread, faults' \in 0 .. MaxFaults,
         Knows(x, users, profiles), Stored(x, users)
  PROVE  AccountsInv'
  <1>1. thread' \in [Goroutines -> Goroutine] /\ ThreadsOK'
    BY ThreadMoves, KeptSame DEF Unread
  <1>2. Typed' /\ ProfilesOK' /\ TokensOK'
    BY <1>1 DEF AccountsInv, Typed, ProfilesOK, TokensOK, Unread, Holder
  <1> QED
    BY <1>1, <1>2 DEF AccountsInv

LEMMA AnswerReads ==
  ASSUME AccountsInv, NEW t \in Goroutines, NEW code \in Codes \ {"002"}, Answer(t, code),
         Unread, UNCHANGED faults
  PROVE  AccountsInv'
  <1>1. thread[t] \in Goroutine /\ faults \in 0 .. MaxFaults
    BY DEF AccountsInv, Typed
  <1>2. thread' = [thread EXCEPT ![t] = Answered(thread[t], code)]
    BY DEF Answer
  <1>3. Answered(thread[t], code) \in Goroutine /\ Knows(Answered(thread[t], code), users, profiles)
        /\ Stored(Answered(thread[t], code), users)
    BY <1>1, AnsweredKnows
  <1> QED
    BY <1>1, <1>2, <1>3, ThreadReads

\* A goroutine that goes on to a query before the row is read.
LEMMA GotoReads ==
  ASSUME AccountsInv, NEW t \in Goroutines, NEW q \in Queries \ ({"idle"} \cup AfterUser), Goto(t, q),
         ~Idle(t), thread[t].at # "check", Unread, UNCHANGED faults
  PROVE  AccountsInv'
  <1> DEFINE x == [thread[t] EXCEPT !.at = q]
  <1>1. thread[t] \in Goroutine /\ Knows(thread[t], users, profiles) /\ Stored(thread[t], users)
        /\ faults \in 0 .. MaxFaults
    BY DEF AccountsInv, Typed, ThreadsOK
  <1>2. thread' = [thread EXCEPT ![t] = x]
    BY DEF Goto, AccountsInv, Typed
  <1>3. x \in Goroutine /\ Knows(x, users, profiles) /\ Stored(x, users)
    BY <1>1 DEF Goroutine, Knows, Stored, Idle, AfterUser, Queries
  <1> QED
    BY <1>1, <1>2, <1>3, ThreadReads

LEMMA UnacceptableIsCode == ASSUME NEW r PROVE Unacceptable(r) \in Codes
  BY DEF Unacceptable, Codes

LEMMA WithUserReads ==
  ASSUME AccountsInv, NEW t \in Goroutines, NEW u \in Holder(thread[t].req.userid), WithUser(t, u),
         ~Idle(t), thread[t].at # "check", Unread, UNCHANGED faults
  PROVE  AccountsInv'
  <1> DEFINE code == IF thread[t].req.action = "SVCLOC" THEN "" ELSE thread[t].req.gsbrcd
             q == IF code = "" THEN "check" ELSE "getProfileID"
             x == [thread[t] EXCEPT !.user = u, !.at = q]
  <1>1. CASE Answer(t, "102") \/ Answer(t, "109")
    BY <1>1, AnswerReads DEF Codes
  <1>2. CASE thread' = [thread EXCEPT ![t].user = u, ![t].at = q]
    <2>1. thread[t] \in Goroutine /\ Knows(thread[t], users, profiles) /\ Stored(thread[t], users)
          /\ faults \in 0 .. MaxFaults /\ u \in AllRows /\ u \in users /\ u.id = thread[t].req.userid
      BY DEF AccountsInv, Typed, ThreadsOK, Holder
    <2>2. thread' = [thread EXCEPT ![t] = x]
      BY <1>2 DEF AccountsInv, Typed
    <2>3. HasRow(u, users)
      BY <2>1 DEF HasRow, Same
    <2>4. x \in Goroutine /\ Knows(x, users, profiles) /\ Stored(x, users)
      BY <2>1, <2>3 DEF Goroutine, Knows, Stored, Idle, AfterUser, Queries
    <2> QED
      BY <2>1, <2>2, <2>4, ThreadReads
  <1> QED
    BY <1>1, <1>2 DEF WithUser

LEMMA ReadStep ==
  ASSUME AccountsInv, NEW t \in Goroutines,
         GetUser(t) \/ GetUserAgain(t) \/ IsUserIDInUse(t) \/ IsMACInUse(t) \/ IsSerialInUse(t)
  PROVE  AccountsInv'
  <1>1. CASE GetUser(t)
    <2> USE <1>1 DEF GetUser, Idle
    <2>1. CASE Holder(thread[t].req.userid) = {}
      BY <2>1, AnswerReads, GotoReads, UnacceptableIsCode DEF StartCreate, Queries, AfterUser
    <2>2. CASE Holder(thread[t].req.userid) # {}
      BY <2>2, WithUserReads
    <2> QED
      BY <2>1, <2>2
  <1>2. CASE GetUserAgain(t)
    BY <1>2, AnswerReads, WithUserReads DEF GetUserAgain, Idle, Codes
  <1>3. CASE IsUserIDInUse(t)
    BY <1>3, AnswerReads, GotoReads DEF IsUserIDInUse, Idle, Queries, AfterUser, Codes
  <1>4. CASE IsMACInUse(t)
    BY <1>4, AnswerReads, GotoReads DEF IsMACInUse, Idle, Queries, AfterUser, Codes
  <1>5. CASE IsSerialInUse(t)
    BY <1>5, AnswerReads, GotoReads DEF IsSerialInUse, Idle, Queries, AfterUser, Codes
  <1> QED
    BY <1>1, <1>2, <1>3, <1>4, <1>5

-----------------------------------------------------------------------------
(* The steps that write. *)

\* The row of the request comes in, or it breaks a key.
LEMMA InsertUserStep ==
  ASSUME AccountsInv, NEW t \in Goroutines, InsertUser(t)
  PROVE  AccountsInv'
  <1> DEFINE r == thread[t].req
             x == IF r.action = "ACCTCREATE" THEN Answered(thread[t], "002")
                  ELSE [thread[t] EXCEPT !.at = "getUserAgain"]
  <1>1. thread[t] \in Goroutine /\ Knows(thread[t], users, profiles) /\ Stored(thread[t], users)
        /\ thread[t].at = "insertUser" /\ faults \in 0 .. MaxFaults
    BY DEF AccountsInv, Typed, ThreadsOK, InsertUser
  <1>2. CASE UniqueUser(r)
    <2>1. users' = users \cup {Row(r)} /\ thread' = [thread EXCEPT ![t] = x]
          /\ UNCHANGED <<profiles, lastId, tokens, tickets, faults>>
      BY <1>2 DEF InsertUser, Answer, Goto, AccountsInv, Typed
    <2>2. r \in Requests
      BY <1>1 DEF Knows
    <2>3. Row(r) \in AllRows
      BY <2>2, RowsAreAll
    <2>4. Kept(users, users') /\ HasRow(Row(r), users')
      BY <2>1 DEF Kept, HasRow, Same
    <2>5. x \in Goroutine /\ Knows(x, users', profiles') /\ Stored(x, users')
      <3>1. CASE r.action = "ACCTCREATE"
        <4>1. x \in Goroutine /\ Knows(x, users', profiles') /\ x.answer = "002" /\ x.req = r
          BY <1>1, <3>1, AnsweredKnows, SMTT(30) DEF Codes
        <4> QED
          BY <4>1, <2>2, <2>4 DEF Stored
      <3>2. CASE r.action # "ACCTCREATE"
        <4>1. x = [thread[t] EXCEPT !.at = "getUserAgain"]
          BY <3>2
        <4>2. Stored(thread[t], users')
          BY <1>1, <2>4, StoredMono
        <4> QED
          BY <1>1, <4>1, <4>2 DEF Goroutine, Knows, Stored, AfterUser, Queries
      <3> QED
        BY <3>1, <3>2
    <2>6. thread' \in [Goroutines -> Goroutine] /\ ThreadsOK'
      <3> HIDE DEF x
      <3> QED
        BY <2>1, <2>4, <2>5, ThreadMoves
    <2>7. Typed'
      BY <2>1, <2>3, <2>6 DEF AccountsInv, Typed
    <2>8. ProfilesOK'
      BY <2>1 DEF AccountsInv, ProfilesOK, Holder
    <2>9. TokensOK'
      BY <2>1, <2>4, TokenMono, TicketMono DEF AccountsInv, TokensOK
    <2> QED
      BY <2>6, <2>7, <2>8, <2>9 DEF AccountsInv
  <1>3. CASE ~UniqueUser(r)
    BY <1>3, AnswerReads DEF InsertUser, Unread, Codes
  <1> QED
    BY <1>2, <1>3

LEMMA GetProfileIDStep ==
  ASSUME AccountsInv, NEW t \in Goroutines, GetProfileID(t)
  PROVE  AccountsInv'
  <1>1. thread[t] \in Goroutine /\ Knows(thread[t], users, profiles) /\ Stored(thread[t], users)
        /\ thread[t].at = "getProfileID" /\ faults' \in 0 .. MaxFaults /\ Unread
    BY DEF AccountsInv, Typed, ThreadsOK, GetProfileID
  <1>2. CASE ProfilesOf(t) = {}
    <2> DEFINE x == [thread[t] EXCEPT !.at = "createProfile"]
    <2>1. thread' = [thread EXCEPT ![t] = x]
      BY <1>2 DEF GetProfileID, Goto, AccountsInv, Typed
    <2>2. x \in Goroutine /\ Knows(x, users, profiles) /\ Stored(x, users)
      BY <1>1 DEF Goroutine, Knows, Stored, AfterUser, Queries
    <2> QED
      BY <1>1, <2>1, <2>2, ThreadReads
  <1>3. CASE ProfilesOf(t) # {}
    <2>1. PICK p \in ProfilesOf(t) : thread' = [thread EXCEPT ![t].at = "check", ![t].profile = p.id]
      BY <1>3 DEF GetProfileID
    <2> DEFINE x == [thread[t] EXCEPT !.at = "check", !.profile = p.id]
    <2>2. thread' = [thread EXCEPT ![t] = x]
      BY <2>1 DEF AccountsInv, Typed
    <2>3. p \in profiles /\ p.wfcid = thread[t].user.id /\ p.gsbrcd = thread[t].req.gsbrcd /\ p.id \in Nat
      BY DEF ProfilesOf, AccountsInv, ProfilesOK
    <2>4. IsProfile(p.id, thread[t].req.userid, thread[t].req.gsbrcd, profiles)
      BY <1>1, <2>3 DEF IsProfile, Knows, AfterUser
    <2>5. x \in Goroutine /\ Knows(x, users, profiles) /\ Stored(x, users)
      BY <1>1, <2>3, <2>4 DEF Goroutine, Knows, Stored, AfterUser, Queries
    <2> QED
      BY <1>1, <2>2, <2>5, ThreadReads
  <1> QED
    BY <1>2, <1>3

\* A profile is made for a user whose row is there, and only if the user has none for the game.
LEMMA CreateProfileStep ==
  ASSUME AccountsInv, MaxProfiles \in Nat, NEW t \in Goroutines, CreateProfile(t)
  PROVE  AccountsInv'
  <1>1. thread[t] \in Goroutine /\ Knows(thread[t], users, profiles) /\ Stored(thread[t], users)
        /\ thread[t].at = "createProfile" /\ lastId \in 0 .. MaxProfiles /\ lastId < MaxProfiles
        /\ lastId' = lastId + 1 /\ UNCHANGED <<users, tokens, tickets, faults>>
    BY DEF AccountsInv, Typed, ThreadsOK, CreateProfile
  <1>2. lastId' \in 0 .. MaxProfiles /\ lastId' \in Nat \ {0}
    BY <1>1
  <1>3. CASE ProfilesOf(t) = {}
    <2> DEFINE new == [id |-> lastId', wfcid |-> thread[t].user.id, gsbrcd |-> thread[t].req.gsbrcd]
               x == [thread[t] EXCEPT !.at = "check", !.profile = lastId']
    <2>1. profiles' = profiles \cup {new} /\ thread' = [thread EXCEPT ![t] = x]
      BY <1>3 DEF CreateProfile, AccountsInv, Typed
    <2>2. IsProfile(lastId', thread[t].req.userid, thread[t].req.gsbrcd, profiles')
      <3>1. new \in profiles' /\ new.id = lastId' /\ new.wfcid = thread[t].req.userid
            /\ new.gsbrcd = thread[t].req.gsbrcd
        BY <1>1, <2>1 DEF Knows, AfterUser
      <3> HIDE DEF new
      <3> QED
        BY <3>1 DEF IsProfile
    <2>3. x \in Goroutine /\ Knows(x, users', profiles') /\ Stored(x, users')
      BY <1>1, <1>2, <2>2 DEF Goroutine, Knows, Stored, AfterUser, Queries
    <2>4. thread' \in [Goroutines -> Goroutine] /\ ThreadsOK'
      <3> HIDE DEF x
      <3> QED
        BY <1>1, <2>1, <2>3, KeptSame, ThreadMoves
    <2>5. Typed'
      BY <1>1, <1>2, <2>4 DEF AccountsInv, Typed
    <2>6. Holder(new.wfcid) # {}
      BY <1>1 DEF Knows, HasRow, Same, Holder, AfterUser
    <2>7. \A p \in profiles : ~(p.wfcid = new.wfcid /\ p.gsbrcd = new.gsbrcd)
      BY <1>3 DEF ProfilesOf
    <2>8. ProfilesOK'
      <3>1. ASSUME NEW p \in profiles' PROVE p.id \in 1 .. lastId' /\ Holder(p.wfcid)' # {}
        BY <1>1, <1>2, <2>1, <2>6 DEF AccountsInv, ProfilesOK, Holder
      <3>2. ASSUME NEW p \in profiles', NEW q \in profiles', p.wfcid = q.wfcid /\ p.gsbrcd = q.gsbrcd
            PROVE  p.id = q.id
        <4> HIDE DEF new
        <4> QED
          BY <2>1, <2>7, <3>2 DEF AccountsInv, ProfilesOK
      <3> QED
        BY <3>1, <3>2 DEF ProfilesOK
    <2>9. TokensOK'
      BY <1>1, <2>1, KeptSame, TokenMono, TicketMono DEF AccountsInv, TokensOK
    <2> QED
      BY <2>4, <2>5, <2>8, <2>9 DEF AccountsInv
  <1>4. CASE ProfilesOf(t) # {}
    <2>1. UNCHANGED profiles /\ Answer(t, "101")
      BY <1>4 DEF CreateProfile
    <2> DEFINE x == Answered(thread[t], "101")
    <2>2. x \in Goroutine /\ Knows(x, users', profiles') /\ Stored(x, users')
      BY <1>1, AnsweredKnows DEF Codes
    <2>3. thread' = [thread EXCEPT ![t] = x]
      BY <2>1 DEF Answer
    <2>4. thread' \in [Goroutines -> Goroutine] /\ ThreadsOK'
      <3> HIDE DEF x
      <3> QED
        BY <1>1, <2>1, <2>2, <2>3, KeptSame, ThreadMoves
    <2>5. Typed' /\ ProfilesOK' /\ TokensOK'
      BY <1>1, <1>2, <2>1, <2>4 DEF AccountsInv, Typed, ProfilesOK, Holder, TokensOK
    <2> QED
      BY <2>4, <2>5 DEF AccountsInv
  <1> QED
    BY <1>3, <1>4

\* Whoever passes has shown the unit code and the secret of the row.
LEMMA PassesHasShown ==
  ASSUME NEW u, NEW r, Verdict(u, r) \in {"001", "040"}
  PROVE  r.unitcd = u.unitcd /\ r.secret = u.secret
  BY DEF Verdict

LEMMA VerdictIsCode ==
  ASSUME NEW u, NEW r
  PROVE  Verdict(u, r) \in Codes \ {"002", "007"}
  BY DEF Verdict, Codes

LEMMA CheckStep ==
  ASSUME AccountsInv, NEW t \in Goroutines, Check(t)
  PROVE  AccountsInv'
  <1> DEFINE r == thread[t].req
             v == Verdict(thread[t].user, r)
             code == IF r.action = "SVCLOC" /\ v = "001" THEN "007" ELSE v
             x == Answered(thread[t], code)
  <1>1. thread[t] \in Goroutine /\ Knows(thread[t], users, profiles) /\ Stored(thread[t], users)
        /\ thread[t].at = "check" /\ UNCHANGED <<users, profiles, lastId, tickets, faults>>
    BY DEF AccountsInv, Typed, ThreadsOK, Check
  <1>2. code \in Codes \ {"002"}
    BY VerdictIsCode DEF Codes
  <1>3. thread' = [thread EXCEPT ![t] = x]
    BY DEF Check, Answer
  <1>4. x \in Goroutine /\ Knows(x, users', profiles') /\ Stored(x, users')
    <2> HIDE DEF code
    <2> QED
      BY <1>1, <1>2, AnsweredKnows
  <1>5. thread' \in [Goroutines -> Goroutine] /\ ThreadsOK'
    <2> HIDE DEF x
    <2> QED
      BY <1>1, <1>3, <1>4, KeptSame, ThreadMoves
  <1>6. Typed' /\ ProfilesOK'
    BY <1>1, <1>5 DEF AccountsInv, Typed, ProfilesOK, Holder
  <1>7. v \in {"001", "040"} => TokenOK(Token(t), users, profiles)
    <2> SUFFICES ASSUME v \in {"001", "040"} PROVE TokenOK(Token(t), users, profiles)
      OBVIOUS
    <2>1. r.unitcd = thread[t].user.unitcd /\ r.secret = thread[t].user.secret
      BY PassesHasShown
    <2>2. thread[t].user.id = r.userid /\ HasRow(thread[t].user, users)
          /\ (thread[t].profile # 0 => IsProfile(thread[t].profile, r.userid, r.gsbrcd, profiles))
      BY <1>1 DEF Knows, AfterUser
    <2> QED
      BY <2>1, <2>2 DEF TokenOK, Token, HasRow, Same
  <1>8. tokens' = tokens \/ (tokens' = tokens \cup {Token(t)} /\ v \in {"001", "040"})
    BY DEF Check
  <1>9. TokensOK'
    <2> HIDE DEF v
    <2> QED
      BY <1>1, <1>7, <1>8 DEF AccountsInv, TokensOK
  <1> QED
    BY <1>5, <1>6, <1>9 DEF AccountsInv

LEMMA QueryFailsStep ==
  ASSUME AccountsInv, MaxFaults \in Nat, NEW t \in Goroutines, QueryFails(t)
  PROVE  AccountsInv'
  <1> DEFINE at == thread[t].at
             code == CASE at = "getUser" -> Unacceptable(thread[t].req)
                       [] at = "getUserAgain" -> "105"
                       [] OTHER -> "101"
             th == [thread[t] EXCEPT !.alone = FALSE]
             goes == at = "getUser" /\ code = "002"
             x == IF goes THEN [th EXCEPT !.at = "isUserIDInUse"] ELSE Answered(th, code)
  <1>1. thread[t] \in Goroutine /\ Knows(thread[t], users, profiles) /\ Stored(thread[t], users)
        /\ thread[t].at \notin {"idle", "check"} /\ faults' \in 0 .. MaxFaults /\ Unread
    BY DEF AccountsInv, Typed, ThreadsOK, QueryFails
  <1>2. thread' = [thread EXCEPT ![t] = x]
    BY DEF QueryFails
  <1>3. code \in Codes /\ (~goes => code # "002")
    BY UnacceptableIsCode DEF Codes
  <1>4. th \in Goroutine /\ Knows(th, users, profiles) /\ Stored(th, users) /\ th.at = at
    BY <1>1 DEF Goroutine, Knows, Stored
  <1>5. x \in Goroutine /\ Knows(x, users, profiles) /\ Stored(x, users)
    <2>1. CASE goes
      <3>1. x = [th EXCEPT !.at = "isUserIDInUse"]
        BY <2>1
      <3> HIDE DEF th
      <3> QED
        BY <1>1, <1>4, <2>1, <3>1 DEF Goroutine, Knows, Stored, AfterUser, Queries
    <2>2. CASE ~goes
      <3>1. x = Answered(th, code)
        BY <2>2
      <3> HIDE DEF x, th, code
      <3> QED
        BY <1>3, <1>4, <2>2, <3>1, AnsweredKnows
    <2> QED
      BY <2>1, <2>2
  <1> HIDE DEF x
  <1> QED
    BY <1>1, <1>2, <1>5, ThreadReads

-----------------------------------------------------------------------------
(* Requests that arrive, bans, logins to GPCM, and restarts. *)

LEMMA BlankKnows ==
  ASSUME NEW us, NEW ps
  PROVE  Blank \in Goroutine /\ Knows(Blank, us, ps) /\ Stored(Blank, us)
  BY DEF Blank, Goroutine, Knows, Stored, AfterUser, Queries, Codes

\* The goroutine of a request, after what is done before its first query.
Begun(r, alone, fit) ==
  LET th == [Blank EXCEPT !.req = r, !.alone = alone, !.fit = fit]
  IN IF r.action # "ACCTCREATE" THEN [th EXCEPT !.at = "getUser"]
     ELSE IF Unacceptable(r) = "002" THEN [th EXCEPT !.at = "isUserIDInUse"]
     ELSE Answered(th, Unacceptable(r))

\* The others are no longer alone.
Disturbed(th) == [th EXCEPT !.alone = @ /\ th.at = "idle"]

LEMMA BegunKnows ==
  ASSUME NEW r \in Requests, NEW alone \in BOOLEAN, NEW fit \in BOOLEAN, NEW us, NEW ps
  PROVE  /\ Begun(r, alone, fit) \in Goroutine
         /\ Knows(Begun(r, alone, fit), us, ps) /\ Stored(Begun(r, alone, fit), us)
  <1> DEFINE th == [Blank EXCEPT !.req = r, !.alone = alone, !.fit = fit]
  <1>1. th \in Goroutine /\ th.req = r /\ th.profile = 0 /\ th.answer = "none" /\ th.at = "idle"
    BY DEF Blank, Goroutine, Queries, Codes
  <1> HIDE DEF th
  <1>2. CASE r.action # "ACCTCREATE"
    <2>1. Begun(r, alone, fit) = [th EXCEPT !.at = "getUser"]
      BY <1>2 DEF Begun, th
    <2> QED
      BY <1>1, <2>1 DEF Goroutine, Knows, Stored, AfterUser, Queries
  <1>3. CASE r.action = "ACCTCREATE" /\ Unacceptable(r) = "002"
    <2>1. Begun(r, alone, fit) = [th EXCEPT !.at = "isUserIDInUse"]
      BY <1>3 DEF Begun, th
    <2> QED
      BY <1>1, <2>1 DEF Goroutine, Knows, Stored, AfterUser, Queries
  <1>4. CASE r.action = "ACCTCREATE" /\ Unacceptable(r) # "002"
    <2>1. Begun(r, alone, fit) = Answered(th, Unacceptable(r))
      BY <1>4 DEF Begun, th
    <2> QED
      BY <1>1, <1>4, <2>1, UnacceptableIsCode, AnsweredKnows
  <1> QED
    BY <1>2, <1>3, <1>4

LEMMA DisturbedKnows ==
  ASSUME NEW th \in Goroutine, NEW us, NEW ps, Knows(th, us, ps), Stored(th, us)
  PROVE  Disturbed(th) \in Goroutine /\ Knows(Disturbed(th), us, ps) /\ Stored(Disturbed(th), us)
  BY DEF Disturbed, Goroutine, Knows, Stored

LEMMA FitIsBoolean == ASSUME NEW r PROVE Fit(r) \in BOOLEAN
  BY DEF Fit

\* How the goroutines change when a request arrives at t.
LEMMA BeginThreads ==
  ASSUME Typed, NEW t \in Goroutines, NEW r \in Requests, Begin(t, r)
  PROVE  thread' = [s \in Goroutines |-> IF s = t THEN Begun(r, \A u \in Goroutines : Idle(u), Fit(r))
                                       ELSE Disturbed(thread[s])]
  BY DEF Begin, Begun, Disturbed, Idle, Typed

LEMMA BeginStep ==
  ASSUME AccountsInv, NEW t \in Goroutines, NEW r \in Requests, Begin(t, r)
  PROVE  AccountsInv'
  <1> DEFINE alone == \A u \in Goroutines : Idle(u)
  <1>1. UNCHANGED <<users, profiles, lastId, tokens, tickets, faults>>
    BY DEF Begin
  <1>2. ASSUME NEW s \in Goroutines
        PROVE  thread'[s] \in Goroutine /\ Knows(thread'[s], users, profiles) /\ Stored(thread'[s], users)
    <2>1. CASE s = t
      <3>1. thread'[s] = Begun(r, alone, Fit(r))
        BY <2>1, BeginThreads DEF AccountsInv
      <3>2. alone \in BOOLEAN
        OBVIOUS
      <3> HIDE DEF alone
      <3> QED
        BY <3>1, <3>2, FitIsBoolean, BegunKnows
    <2>2. CASE s # t
      <3>1. thread'[s] = Disturbed(thread[s])
        BY <2>2, BeginThreads DEF AccountsInv
      <3> QED
        BY <3>1, DisturbedKnows DEF AccountsInv, Typed, ThreadsOK
    <2> QED
      BY <2>1, <2>2
  <1>3. thread' \in [Goroutines -> Goroutine]
    BY <1>2, BeginThreads DEF AccountsInv
  <1>4. Typed' /\ ProfilesOK' /\ TokensOK'
    BY <1>1, <1>3 DEF AccountsInv, Typed, ProfilesOK, TokensOK, Holder
  <1> QED
    BY <1>1, <1>2, <1>4 DEF AccountsInv, ThreadsOK

\* A ban leaves the rest of the row as it was.
LEMMA BanStep ==
  ASSUME AccountsInv, NEW u \in users, Ban(u)
  PROVE  AccountsInv'
  <1> DEFINE b == [u EXCEPT !.banned = TRUE]
  <1>1. users' = (users \ {u}) \cup {b} /\ UNCHANGED <<profiles, lastId, tokens, tickets, faults>>
        /\ thread' = [t \in Goroutines |-> Disturbed(thread[t])]
    BY DEF Ban, Disturbed, Idle
  <1>2. b \in AllRows /\ Same(b, u)
    <2>1. PICK r \in Requests, x \in BOOLEAN : u = [Row(r) EXCEPT !.banned = x]
      BY DEF AccountsInv, Typed, AllRows
    <2>2. b = [Row(r) EXCEPT !.banned = TRUE]
      BY <2>1 DEF Row
    <2>3. b \in AllRows
      BY <2>2, RowsAreAll
    <2> QED
      BY <2>1, <2>2, <2>3 DEF Same, Row
  <1> HIDE DEF b
  <1>3. Kept(users, users') /\ users' \subseteq AllRows
    BY <1>1, <1>2 DEF Kept, HasRow, Same, AccountsInv, Typed
  <1>4. ASSUME NEW t \in Goroutines
        PROVE  thread'[t] \in Goroutine /\ Knows(thread'[t], users', profiles') /\ Stored(thread'[t], users')
    <2>1. thread[t] \in Goroutine /\ Knows(thread[t], users', profiles') /\ Stored(thread[t], users')
      BY <1>1, <1>3, KnowsMono, StoredMono DEF AccountsInv, Typed, ThreadsOK
    <2> QED
      BY <1>1, <2>1, DisturbedKnows
  <1>5. Typed'
    BY <1>1, <1>3, <1>4 DEF AccountsInv, Typed
  <1>6. ProfilesOK'
    <2>1. ASSUME NEW p \in profiles PROVE Holder(p.wfcid)' # {}
      <3>1. PICK v \in users : v.id = p.wfcid
        BY DEF AccountsInv, ProfilesOK, Holder
      <3>2. PICK w \in users' : w.id = v.id
        BY <1>3 DEF Kept, HasRow, Same
      <3> QED
        BY <3>1, <3>2 DEF Holder
    <2> QED
      BY <1>1, <2>1 DEF AccountsInv, ProfilesOK
  <1>7. TokensOK'
    BY <1>1, <1>3, TokenMono, TicketMono DEF AccountsInv, TokensOK
  <1> QED
    BY <1>4, <1>5, <1>6, <1>7 DEF AccountsInv, ThreadsOK

\* A profile that is in the table has a number other than 0, so the token has read or made it.
LEMMA GpcmLoginStep ==
  ASSUME AccountsInv, MaxProfiles \in Nat, NEW k \in tokens, GpcmLogin(k)
  PROVE  AccountsInv'
  <1>1. k.profile # 0 /\ TokenOK(k, users, profiles)
    BY DEF GpcmLogin, AccountsInv, TokensOK, ProfilesOK, Typed
  <1>2. TicketOK([profile |-> k.profile, by |-> k.by], profiles)
    BY <1>1 DEF TokenOK, TicketOK
  <1>3. TokensOK'
    BY <1>2 DEF GpcmLogin, AccountsInv, TokensOK
  <1>4. Typed' /\ ProfilesOK' /\ ThreadsOK'
    BY DEF GpcmLogin, AccountsInv, Typed, ProfilesOK, ThreadsOK, Holder
  <1> QED
    BY <1>3, <1>4 DEF AccountsInv

LEMMA RestartStep ==
  ASSUME AccountsInv, MaxFaults \in Nat, Restart
  PROVE  AccountsInv'
  <1>1. thread' \in [Goroutines -> Goroutine] /\ ThreadsOK'
    BY BlankKnows DEF Restart, ThreadsOK
  <1>2. Typed'
    BY <1>1 DEF Restart, AccountsInv, Typed
  <1>3. ProfilesOK' /\ TokensOK'
    BY DEF Restart, AccountsInv, ProfilesOK, TokensOK, Holder
  <1> QED
    BY <1>1, <1>2, <1>3 DEF AccountsInv

LEMMA AccountsStep ==
  ASSUME Formed, AccountsInv, [AccountsNext]_accountVars
  PROVE  AccountsInv'
  <1>1. CASE UNCHANGED accountVars
    BY <1>1 DEF accountVars, AccountsInv, Typed, ProfilesOK, ThreadsOK, TokensOK, Holder
  <1>2. ASSUME NEW t \in Goroutines, Query(t)
        PROVE  AccountsInv'
    BY <1>2, ReadStep, InsertUserStep, GetProfileIDStep, CreateProfileStep, CheckStep, QueryFailsStep
       DEF Query, Formed
  <1>3. CASE Expire
    BY <1>3 DEF Expire, AccountsInv, Typed, ProfilesOK, ThreadsOK, TokensOK, Holder
  <1> QED
    BY <1>1, <1>2, <1>3, BeginStep, BanStep, GpcmLoginStep, RestartStep DEF AccountsNext, Formed

LEMMA AccountsInitially == ASSUME Formed PROVE AccountsInit => AccountsInv
  BY BlankKnows DEF Formed, AccountsInit, AccountsInv, Typed, ProfilesOK, ThreadsOK, TokensOK

-----------------------------------------------------------------------------
(* Logins that are alone. *)

\* While one goroutine moves, no other is both busy and alone.
LEMMA OthersSmooth ==
  ASSUME Typed, LoginsOK, NEW t \in Goroutines, ~Idle(t), NEW x, thread' = [thread EXCEPT ![t] = x],
         x.alone => thread[t].alone
  PROVE  Alone' /\ \A s \in Goroutines \ {t} : Smooth(s)'
  <1>1. ASSUME NEW s \in Goroutines \ {t} PROVE thread'[s] = thread[s]
    BY DEF Typed
  <1>2. thread'[t] = x
    BY DEF Typed
  <1>3. Alone'
    BY <1>1, <1>2 DEF LoginsOK, Alone, Idle
  <1>4. ASSUME NEW s \in Goroutines \ {t} PROVE Smooth(s)'
    <2>1. CASE Idle(s)
      BY <1>1, <2>1 DEF LoginsOK, Smooth, Idle, Good
    <2>2. CASE ~Idle(s)
      <3>1. ~thread[s].alone
        BY <2>2 DEF LoginsOK, Alone
      <3> QED
        BY <1>1, <3>1 DEF Smooth, Good
    <2> QED
      BY <2>1, <2>2
  <1> QED
    BY <1>3, <1>4

\* A goroutine that answers has passed, or was not a good login that is alone.
LEMMA AnswerSmooth ==
  ASSUME Typed, LoginsOK, NEW t \in Goroutines, ~Idle(t), NEW code \in Codes, Answer(t, code),
         Good(thread[t]) => code \in {"001", "040"}
  PROVE  LoginsOK'
  <1> DEFINE x == Answered(thread[t], code)
  <1>1. thread' = [thread EXCEPT ![t] = x]
    BY DEF Answer
  <1>2. x.at = "idle" /\ x.answer = code /\ x.req = thread[t].req /\ x.alone = thread[t].alone
        /\ x.fit = thread[t].fit
    BY AnsweredKnows DEF Typed
  <1> HIDE DEF x
  <1>3. Alone' /\ \A s \in Goroutines \ {t} : Smooth(s)'
    BY <1>1, <1>2, OthersSmooth
  <1>4. thread'[t] = x
    BY <1>1 DEF Typed
  <1>5. Smooth(t)'
    BY <1>2, <1>4 DEF Smooth, Idle, Good
  <1> QED
    BY <1>3, <1>5 DEF LoginsOK

LEMMA GoesSmooth ==
  ASSUME Typed, LoginsOK, NEW t \in Goroutines, ~Idle(t), NEW x \in Goroutine, thread' = [thread EXCEPT ![t] = x],
         x.at # "idle", x.alone = thread[t].alone, x.fit = thread[t].fit, x.req = thread[t].req,
         Good(thread[t]) => Ahead(t)'
  PROVE  LoginsOK'
  <1>1. Alone' /\ \A s \in Goroutines \ {t} : Smooth(s)'
    BY OthersSmooth
  <1>2. thread'[t] = x
    BY DEF Typed
  <1>3. Smooth(t)'
    BY <1>2 DEF Smooth, Good, Idle
  <1> QED
    BY <1>1, <1>3 DEF LoginsOK

LEMMA GoodIsAcceptable ==
  ASSUME NEW r, GoodLogin(r)
  PROVE  Unacceptable(r) = "002" /\ r.action = "LOGIN" /\ r.gsbrcd # "bad" /\ r.lang # "bad" /\ r.extra # "bad"
  BY DEF GoodLogin, Unacceptable, IsWii

LEMMA RowIsNotBanned ==
  ASSUME NEW r
  PROVE  Row(r).banned = FALSE /\ Row(r).id = r.userid /\ [Row(r) EXCEPT !.banned = FALSE] = Row(r)
  <1>1. [Row(r) EXCEPT !.banned = FALSE] = Row(r)
    BY RowWithBan DEF Row
  <1> QED
    BY <1>1 DEF Row

LEMMA WithUserSmooth ==
  ASSUME AccountsInv, LoginsOK, NEW t \in Goroutines, ~Idle(t), NEW u \in Holder(thread[t].req.userid),
         WithUser(t, u), Unread,
         Good(thread[t]) => u = Row(thread[t].req)
  PROVE  LoginsOK'
  <1> DEFINE r == thread[t].req
             code == IF r.action = "SVCLOC" THEN "" ELSE r.gsbrcd
             q == IF code = "" THEN "check" ELSE "getProfileID"
             x == [thread[t] EXCEPT !.user = u, !.at = q]
  <1>1. Typed /\ thread[t] \in Goroutine /\ u \in AllRows
    BY DEF AccountsInv, Typed, Holder
  <1>2. Good(thread[t]) => ~u.banned /\ code # "bad"
    BY RowIsNotBanned, GoodIsAcceptable DEF Good
  <1>3. CASE u.banned \/ code = "bad"
    BY <1>1, <1>2, <1>3, AnswerSmooth DEF WithUser, Codes
  <1>4. CASE ~u.banned /\ code # "bad"
    <2>1. thread' = [thread EXCEPT ![t] = x]
      BY <1>1, <1>4 DEF WithUser, Typed
    <2>2. x \in Goroutine /\ x.at \in {"check", "getProfileID"} /\ x.user = u /\ x.req = r
          /\ x.alone = thread[t].alone /\ x.fit = thread[t].fit
      BY <1>1 DEF Goroutine, Queries
    <2>3. thread'[t] = x
      BY <1>1, <2>1 DEF Typed
    <2>4. Good(thread[t]) => Ahead(t)'
      BY <2>2, <2>3 DEF Ahead, AfterUser
    <2> HIDE DEF x
    <2> QED
      BY <1>1, <2>1, <2>2, <2>4, GoesSmooth
  <1> QED
    BY <1>3, <1>4

LEMMA GotoSmooth ==
  ASSUME Typed, LoginsOK, NEW t \in Goroutines, ~Idle(t), NEW q \in Queries \ {"idle"}, Goto(t, q),
         Good(thread[t]) => Ahead(t)'
  PROVE  LoginsOK'
  <1> DEFINE x == [thread[t] EXCEPT !.at = q]
  <1>1. thread' = [thread EXCEPT ![t] = x]
    BY DEF Goto, Typed
  <1>2. x \in Goroutine /\ x.at = q /\ x.user = thread[t].user /\ x.req = thread[t].req
        /\ x.alone = thread[t].alone /\ x.fit = thread[t].fit
    BY DEF Goroutine, Typed
  <1> HIDE DEF x
  <1> QED
    BY <1>1, <1>2, GoesSmooth

LEMMA GotoThread ==
  ASSUME Typed, NEW t \in Goroutines, NEW q, Goto(t, q)
  PROVE  thread'[t].at = q /\ thread'[t].req = thread[t].req /\ thread'[t].user = thread[t].user
  BY DEF Typed, Goroutine, Goto

\* The first look: the row is that of the request, or nothing of it is taken.
LEMMA GetUserSmooth ==
  ASSUME AccountsInv, LoginsOK, NEW t \in Goroutines, GetUser(t)
  PROVE  LoginsOK'
  <1> DEFINE r == thread[t].req
  <1>1. Typed /\ ~Idle(t) /\ Unread /\ (Good(thread[t]) => Fit(r))
    BY DEF AccountsInv, GetUser, Idle, LoginsOK, Smooth, Ahead
  <1>2. CASE Holder(r.userid) = {}
    <2>1. Good(thread[t]) => UniqueUser(r) /\ Unacceptable(r) = "002"
      BY <1>1, <1>2, GoodIsAcceptable DEF Fit, UniqueUser, SerialTaken, Good
    <2>2. CASE Unacceptable(r) # "002"
      BY <1>1, <1>2, <2>1, <2>2, AnswerSmooth, UnacceptableIsCode DEF GetUser, StartCreate
    <2>3. CASE Unacceptable(r) = "002"
      <3>1. Goto(t, "isUserIDInUse")
        BY <1>2, <2>3 DEF GetUser, StartCreate
      <3>2. Good(thread[t]) => Ahead(t)'
        BY <1>1, <2>1, <3>1, GotoThread DEF Ahead, AfterUser, UniqueUser, SerialTaken, Holder, Unread
      <3> QED
        BY <1>1, <3>1, <3>2, GotoSmooth DEF Queries
    <2> QED
      BY <2>2, <2>3
  <1>3. CASE Holder(r.userid) # {}
    <2>1. PICK u \in Holder(r.userid) : WithUser(t, u)
      BY <1>3 DEF GetUser
    <2>2. Good(thread[t]) => u = Row(r)
      BY <1>1, <1>3, RowIsNotBanned DEF Fit
    <2> QED
      BY <1>1, <2>1, <2>2, WithUserSmooth
  <1> QED
    BY <1>2, <1>3

\* The questions before the insertion, and the insertion, find nothing in the way.
LEMMA CreateUserSmooth ==
  ASSUME AccountsInv, LoginsOK, NEW t \in Goroutines,
         IsUserIDInUse(t) \/ IsMACInUse(t) \/ IsSerialInUse(t) \/ InsertUser(t)
  PROVE  LoginsOK'
  <1> DEFINE r == thread[t].req
  <1>1. Typed /\ ~Idle(t) /\ (Good(thread[t]) => UniqueUser(r) /\ r.action = "LOGIN")
    BY DEF AccountsInv, IsUserIDInUse, IsMACInUse, IsSerialInUse, InsertUser, Idle, LoginsOK, Smooth, Ahead,
           Good, GoodLogin
  <1>2. ASSUME NEW q \in {"isMACInUse", "isSerialInUse", "insertUser"}, Goto(t, q), Unread
        PROVE  LoginsOK'
    <2>1. Good(thread[t]) => Ahead(t)'
      BY <1>1, <1>2, GotoThread DEF Ahead, AfterUser, UniqueUser, SerialTaken, Holder, Unread
    <2> QED
      BY <1>1, <1>2, <2>1, GotoSmooth DEF Queries
  <1>3. CASE IsUserIDInUse(t)
    <2>1. CASE Holder(r.userid) # {}
      BY <1>1, <1>3, <2>1, AnswerSmooth DEF IsUserIDInUse, UniqueUser, Codes
    <2>2. CASE Holder(r.userid) = {}
      BY <1>2, <1>3, <2>2 DEF IsUserIDInUse
    <2> QED
      BY <2>1, <2>2
  <1>4. CASE IsMACInUse(t)
    <2>1. CASE \E u \in users : u.macadr = r.macadr
      BY <1>1, <1>4, <2>1, AnswerSmooth DEF IsMACInUse, UniqueUser, Codes
    <2>2. CASE ~\E u \in users : u.macadr = r.macadr
      BY <1>2, <1>4, <2>2 DEF IsMACInUse
    <2> QED
      BY <2>1, <2>2
  <1>5. CASE IsSerialInUse(t)
    <2>1. CASE SerialTaken(r)
      BY <1>1, <1>5, <2>1, AnswerSmooth DEF IsSerialInUse, UniqueUser, Codes
    <2>2. CASE ~SerialTaken(r)
      BY <1>2, <1>5, <2>2 DEF IsSerialInUse
    <2> QED
      BY <2>1, <2>2
  <1>6. CASE InsertUser(t)
    <2>1. CASE ~UniqueUser(r)
      BY <1>1, <1>6, <2>1, AnswerSmooth DEF InsertUser, Codes
    <2>2. CASE UniqueUser(r) /\ r.action = "ACCTCREATE"
      BY <1>1, <1>6, <2>2, AnswerSmooth DEF InsertUser, Codes
    <2>3. CASE UniqueUser(r) /\ r.action # "ACCTCREATE"
      <3>1. Goto(t, "getUserAgain") /\ users' = users \cup {Row(r)}
        BY <1>6, <2>3 DEF InsertUser
      <3>2. Row(r).id = r.userid /\ \A u \in users : u.id # r.userid
        BY <2>3, RowIsNotBanned DEF UniqueUser, Holder
      <3>3. {u \in users' : u.id = r.userid} = {Row(r)}
        BY <3>1, <3>2
      <3>4. Ahead(t)'
        BY <1>1, <3>1, <3>3, GotoThread DEF Ahead, AfterUser, Holder
      <3> QED
        BY <1>1, <3>1, <3>4, GotoSmooth DEF Queries
    <2> QED
      BY <2>1, <2>2, <2>3
  <1> QED
    BY <1>3, <1>4, <1>5, <1>6

LEMMA GetUserAgainSmooth ==
  ASSUME AccountsInv, LoginsOK, NEW t \in Goroutines, GetUserAgain(t)
  PROVE  LoginsOK'
  <1> DEFINE r == thread[t].req
  <1>1. Typed /\ ~Idle(t) /\ Unread /\ (Good(thread[t]) => Holder(r.userid) = {Row(r)})
    BY DEF AccountsInv, GetUserAgain, Idle, LoginsOK, Smooth, Ahead
  <1>2. CASE Holder(r.userid) = {}
    BY <1>1, <1>2, AnswerSmooth DEF GetUserAgain, Codes
  <1>3. CASE Holder(r.userid) # {}
    <2>1. PICK u \in Holder(r.userid) : WithUser(t, u)
      BY <1>3 DEF GetUserAgain
    <2> QED
      BY <1>1, <2>1, WithUserSmooth
  <1> QED
    BY <1>2, <1>3

LEMMA ProfileSmooth ==
  ASSUME AccountsInv, LoginsOK, NEW t \in Goroutines, GetProfileID(t) \/ CreateProfile(t)
  PROVE  LoginsOK'
  <1>1. Typed /\ ~Idle(t) /\ thread[t] \in Goroutine /\ (Good(thread[t]) => thread[t].user = Row(thread[t].req))
    BY DEF AccountsInv, GetProfileID, CreateProfile, Idle, LoginsOK, Smooth, Ahead, AfterUser, Typed
  <1>2. ASSUME NEW pid \in Nat, thread' = [thread EXCEPT ![t].at = "check", ![t].profile = pid]
        PROVE  LoginsOK'
    <2> DEFINE x == [thread[t] EXCEPT !.at = "check", !.profile = pid]
    <2>1. thread' = [thread EXCEPT ![t] = x] /\ thread'[t] = x
      BY <1>1, <1>2 DEF Typed
    <2>2. x \in Goroutine /\ x.at = "check" /\ x.user = thread[t].user /\ x.req = thread[t].req
          /\ x.alone = thread[t].alone /\ x.fit = thread[t].fit
      BY <1>1 DEF Goroutine, Queries
    <2> HIDE DEF x
    <2>3. Good(thread[t]) => Ahead(t)'
      BY <1>1, <2>1, <2>2 DEF Ahead, AfterUser
    <2> QED
      BY <1>1, <2>1, <2>2, <2>3, GoesSmooth
  <1>3. CASE GetProfileID(t)
    <2>1. CASE ProfilesOf(t) = {}
      <3>1. Goto(t, "createProfile") /\ UNCHANGED profiles
        BY <1>3, <2>1 DEF GetProfileID, Unread
      <3>2. Good(thread[t]) => Ahead(t)'
        BY <1>1, <2>1, <3>1, GotoThread DEF Ahead, AfterUser, ProfilesOf
      <3> QED
        BY <1>1, <3>1, <3>2, GotoSmooth DEF Queries
    <2>2. CASE ProfilesOf(t) # {}
      <3>1. PICK p \in ProfilesOf(t) : thread' = [thread EXCEPT ![t].at = "check", ![t].profile = p.id]
        BY <1>3, <2>2 DEF GetProfileID
      <3>2. p.id \in Nat
        BY DEF ProfilesOf, AccountsInv, ProfilesOK
      <3> QED
        BY <1>2, <3>1, <3>2
    <2> QED
      BY <2>1, <2>2
  <1>4. CASE CreateProfile(t)
    <2>1. Good(thread[t]) => ProfilesOf(t) = {}
      BY <1>4 DEF LoginsOK, Smooth, Ahead, CreateProfile, Idle
    <2>2. CASE ProfilesOf(t) = {}
      BY <1>1, <1>2, <1>4, <2>2 DEF CreateProfile, AccountsInv, Typed
    <2>3. CASE ProfilesOf(t) # {}
      BY <1>1, <1>4, <2>1, <2>3, AnswerSmooth DEF CreateProfile, Codes
    <2> QED
      BY <2>2, <2>3
  <1> QED
    BY <1>3, <1>4

\* A row that is the console's own passes.
LEMMA OwnRowPasses ==
  ASSUME NEW r, GoodLogin(r)
  PROVE  Verdict(Row(r), r) \in {"001", "040"}
  BY GoodIsAcceptable DEF Verdict, Row

LEMMA CheckSmooth ==
  ASSUME AccountsInv, LoginsOK, NEW t \in Goroutines, Check(t)
  PROVE  LoginsOK'
  <1> DEFINE r == thread[t].req
             v == Verdict(thread[t].user, r)
             code == IF r.action = "SVCLOC" /\ v = "001" THEN "007" ELSE v
  <1>1. Typed /\ ~Idle(t) /\ Answer(t, code)
    BY DEF AccountsInv, Check, Idle
  <1>2. code \in Codes
    BY VerdictIsCode DEF Codes
  <1>3. Good(thread[t]) => code \in {"001", "040"}
    <2> SUFFICES ASSUME Good(thread[t]) PROVE code \in {"001", "040"}
      OBVIOUS
    <2>1. thread[t].user = Row(r)
      BY <1>1 DEF LoginsOK, Smooth, Ahead, Check, AfterUser
    <2>2. v \in {"001", "040"}
      BY <2>1, OwnRowPasses DEF Good
    <2>3. r.action = "LOGIN"
      BY DEF Good, GoodLogin
    <2> QED
      BY <2>2, <2>3
  <1> HIDE DEF code
  <1> QED
    BY <1>1, <1>2, <1>3, AnswerSmooth

\* A login one of whose queries failed is not called alone.
LEMMA QueryFailsSmooth ==
  ASSUME AccountsInv, LoginsOK, NEW t \in Goroutines, QueryFails(t)
  PROVE  LoginsOK'
  <1>1. Typed /\ ~Idle(t) /\ thread[t] \in Goroutine
    BY DEF AccountsInv, QueryFails, Idle, Typed
  <1>2. PICK x : thread' = [thread EXCEPT ![t] = x] /\ ~x.alone
    <2> DEFINE th == [thread[t] EXCEPT !.alone = FALSE]
    <2>1. th \in Goroutine /\ ~th.alone
      BY <1>1 DEF Goroutine
    <2>2. ASSUME NEW code PROVE ~Answered(th, code).alone /\ ~[th EXCEPT !.at = "isUserIDInUse"].alone
      BY <1>1 DEF Answered, Goroutine
    <2> QED
      BY <2>2 DEF QueryFails
  <1>3. Alone' /\ \A s \in Goroutines \ {t} : Smooth(s)'
    BY <1>1, <1>2, OthersSmooth
  <1>4. Smooth(t)'
    BY <1>1, <1>2 DEF Smooth, Good, Typed
  <1> QED
    BY <1>3, <1>4 DEF LoginsOK

LEMMA BegunFields ==
  ASSUME NEW r \in Requests, NEW alone \in BOOLEAN, NEW fit \in BOOLEAN
  PROVE  /\ Begun(r, alone, fit).req = r
         /\ Begun(r, alone, fit).alone = alone /\ Begun(r, alone, fit).fit = fit
         /\ r.action = "LOGIN" => Begun(r, alone, fit).at = "getUser"
  BY DEF Begun, Blank, Answered

\* Those that were busy are no longer alone; those that were idle stay as they were.
LEMMA DisturbedFields ==
  ASSUME NEW th \in Goroutine
  PROVE  /\ Disturbed(th).at = th.at /\ Disturbed(th).req = th.req /\ Disturbed(th).answer = th.answer
         /\ Disturbed(th).fit = th.fit
         /\ Disturbed(th).alone => th.at = "idle" /\ th.alone
  BY DEF Disturbed, Goroutine

LEMMA DisturbedSmooth ==
  ASSUME Typed, LoginsOK, NEW t \in Goroutines, thread'[t] = Disturbed(thread[t])
  PROVE  Smooth(t)' /\ (thread'[t].alone => Idle(t)')
  BY DisturbedFields DEF Typed, LoginsOK, Smooth, Good, Idle

LEMMA BeginSmooth ==
  ASSUME AccountsInv, LoginsOK, NEW t \in Goroutines, NEW r \in Requests, Begin(t, r)
  PROVE  LoginsOK'
  <1> DEFINE alone == \A u \in Goroutines : Idle(u)
  <1>1. thread'[t] = Begun(r, alone, Fit(r)) /\ UNCHANGED users
    <2>1. thread'[t] = Begun(r, alone, Fit(r))
      BY BeginThreads DEF AccountsInv
    <2> QED
      BY <2>1 DEF Begin
  <1>2. alone \in BOOLEAN /\ Fit(r) \in BOOLEAN
    BY FitIsBoolean
  <1>3. /\ thread'[t].req = r /\ thread'[t].alone = alone /\ thread'[t].fit = Fit(r)
        /\ r.action = "LOGIN" => thread'[t].at = "getUser"
    <2> HIDE DEF alone
    <2> QED
      BY <1>1, <1>2, BegunFields
  <1>4. ASSUME NEW s \in Goroutines \ {t}
        PROVE  Smooth(s)' /\ (thread'[s].alone => Idle(s)') /\ (Idle(s) => Idle(s)')
    <2>1. thread'[s] = Disturbed(thread[s])
      BY BeginThreads DEF AccountsInv
    <2> QED
      BY <2>1, DisturbedSmooth, DisturbedFields DEF AccountsInv, Typed, Idle
  <1>5. Smooth(t)'
    <2> SUFFICES ASSUME Good(thread[t])' PROVE ~Idle(t)' /\ Ahead(t)'
      BY DEF Smooth
    <2>1. thread'[t].at = "getUser" /\ thread'[t].req = r /\ Fit(r)
      BY <1>3 DEF Good, GoodLogin
    <2>2. Fit(r)'
      BY <1>1, <2>1 DEF Fit, Holder
    <2> QED
      BY <2>1, <2>2 DEF Ahead, AfterUser, Idle
  <1>6. Alone'
    BY <1>3, <1>4 DEF Alone
  <1> QED
    BY <1>4, <1>5, <1>6 DEF LoginsOK

LEMMA BanSmooth ==
  ASSUME AccountsInv, LoginsOK, NEW u \in users, Ban(u)
  PROVE  LoginsOK'
  <1>1. ASSUME NEW t \in Goroutines PROVE thread'[t] = Disturbed(thread[t])
    BY DEF Ban, Disturbed, Idle
  <1>2. ASSUME NEW t \in Goroutines PROVE Smooth(t)' /\ (thread'[t].alone => Idle(t)')
    BY <1>1, DisturbedSmooth DEF AccountsInv
  <1> QED
    BY <1>2 DEF LoginsOK, Alone

LEMMA LoginsStep ==
  ASSUME Formed, AccountsInv, LoginsOK, [AccountsNext]_accountVars
  PROVE  LoginsOK'
  <1>1. CASE UNCHANGED <<thread, users, profiles>>
    BY <1>1 DEF LoginsOK, Alone, Smooth, Ahead, Idle, Fit, UniqueUser, SerialTaken, Holder, ProfilesOf
  <1>2. ASSUME NEW t \in Goroutines, Query(t)
        PROVE  LoginsOK'
    BY <1>2, GetUserSmooth, CreateUserSmooth, GetUserAgainSmooth, ProfileSmooth, CheckSmooth, QueryFailsSmooth
       DEF Query
  <1>3. CASE Restart
    <2>1. \A t \in Goroutines : thread'[t].alone = FALSE
      BY <1>3 DEF Restart, Blank
    <2> QED
      BY <2>1 DEF LoginsOK, Alone, Smooth, Good
  <1>4. CASE UNCHANGED accountVars \/ Expire \/ \E k \in tokens : GpcmLogin(k)
    BY <1>1, <1>4 DEF accountVars, Expire, GpcmLogin
  <1> QED
    BY <1>2, <1>3, <1>4, BeginSmooth, BanSmooth DEF AccountsNext

-----------------------------------------------------------------------------
(* The theorems. *)

LEMMA AccountsInvariant == ASSUME Formed PROVE AccountsSpec => [](AccountsInv /\ LoginsOK)
  <1>1. AccountsInit => AccountsInv /\ LoginsOK
    <2>1. AccountsInit => LoginsOK
      BY DEF AccountsInit, LoginsOK, Alone, Smooth, Good, Blank
    <2> QED
      BY <2>1, AccountsInitially
  <1>2. AccountsInv /\ LoginsOK /\ [AccountsNext]_accountVars => (AccountsInv /\ LoginsOK)'
    BY AccountsStep, LoginsStep
  <1> QED
    BY <1>1, <1>2, PTL DEF AccountsSpec

\* Every row of users holds what some console sent (database/user.go), every profile has a number that was
\* drawn and a user (database/profile.go), and the goroutines are at queries of nas/account.go.
THEOREM AccountsType == ASSUME Formed PROVE AccountsSpec => []AccountsTypeOK
  <1>1. AccountsInv => AccountsTypeOK
    <2> SUFFICES ASSUME AccountsInv PROVE AccountsTypeOK
      OBVIOUS
    <2>1. ASSUME NEW t \in Goroutines PROVE thread[t].at \in Queries /\ thread[t].profile \in 0 .. lastId
      <3>1. thread[t] \in Goroutine /\ Knows(thread[t], users, profiles)
        BY DEF AccountsInv, Typed, ThreadsOK
      <3>2. thread[t].profile # 0 => thread[t].profile \in 1 .. lastId
        BY <3>1 DEF Knows, IsProfile, AccountsInv, ProfilesOK
      <3>3. lastId \in Nat /\ thread[t].profile \in Nat /\ thread[t].at \in Queries
        BY <3>1 DEF AccountsInv, Typed, Formed, Goroutine
      <3> QED
        BY <3>2, <3>3
    <2> QED
      BY <2>1 DEF AccountsInv, Typed, ProfilesOK, AccountsTypeOK, Formed, AllRows
  <1> QED
    BY <1>1, AccountsInvariant, PTL

\* A token was issued, and a ticket of GPCM given, only to who has shown the unit code and the secret of the
\* row of that user (acLogin of nas/account.go), and for the profile of that user and game, whatever other
\* requests, failures, bans and restarts came between its queries.
THEOREM TokensAreProven == ASSUME Formed PROVE AccountsSpec => []IdentityIsProven
  <1>1. AccountsInv => IdentityIsProven
    <2> SUFFICES ASSUME AccountsInv PROVE IdentityIsProven
      OBVIOUS
    <2>1. ASSUME NEW k \in tokens
          PROVE  \E u \in Holder(k.wfcid) : u.id = k.by.userid /\ u.unitcd = k.by.unitcd /\ u.secret = k.by.secret
      BY DEF AccountsInv, TokensOK, TokenOK, Holder
    <2>2. ASSUME NEW k \in tickets
          PROVE  \E p \in profiles : p.id = k.profile /\ p.wfcid = k.by.userid /\ p.gsbrcd = k.by.gsbrcd
      BY DEF AccountsInv, TokensOK, TicketOK, IsProfile
    <2> QED
      BY <2>1, <2>2 DEF IdentityIsProven
  <1> QED
    BY <1>1, AccountsInvariant, PTL

\* A console is always led to the same profile (database/profile.go): two requests that found none do not
\* both get one of their own.
THEOREM ProfileIsOne == ASSUME Formed PROVE AccountsSpec => []OneProfile
  <1>1. AccountsInv => OneProfile
    <2> SUFFICES ASSUME AccountsInv, NEW j \in tickets, NEW k \in tickets,
                        j.by.userid = k.by.userid /\ j.by.gsbrcd = k.by.gsbrcd
                 PROVE  j.profile = k.profile
      BY DEF OneProfile
    <2>1. PICK p \in profiles : p.id = j.profile /\ p.wfcid = j.by.userid /\ p.gsbrcd = j.by.gsbrcd
      BY DEF AccountsInv, TokensOK, TicketOK, IsProfile
    <2>2. PICK q \in profiles : q.id = k.profile /\ q.wfcid = k.by.userid /\ q.gsbrcd = k.by.gsbrcd
      BY DEF AccountsInv, TokensOK, TicketOK, IsProfile
    <2> QED
      BY <2>1, <2>2 DEF AccountsInv, ProfilesOK
  <1> QED
    BY <1>1, AccountsInvariant, PTL

\* Answer 002 is given only with the row stored (acAccountCreate of nas/account.go), and a good login whose row is
\* its own, or of which nothing is taken, succeeds if it is alone and no query fails (acLogin): no sequence of races,
\* failures, bans of others and restarts leaves the tables in a state that locks such a console out.
THEOREM AnswersAreKept == ASSUME Formed PROVE AccountsSpec => []AnswersHold
  <1>1. AccountsInv /\ LoginsOK => AnswersHold
    <2> SUFFICES ASSUME AccountsInv, LoginsOK PROVE AnswersHold
      OBVIOUS
    <2>1. CreatedIsStored
      <3> SUFFICES ASSUME NEW t \in Goroutines, thread[t].answer = "002"
                   PROVE  \E u \in users : u = [Row(thread[t].req) EXCEPT !.banned = u.banned]
        BY DEF CreatedIsStored
      <3> DEFINE r == thread[t].req
      <3>1. PICK u \in users : Same(u, Row(r))
        BY DEF AccountsInv, ThreadsOK, Stored, HasRow
      <3>2. PICK q \in Requests, b \in BOOLEAN : u = [Row(q) EXCEPT !.banned = b]
        BY DEF AccountsInv, Typed, AllRows
      <3>3. u = [id |-> q.userid, unitcd |-> q.unitcd, macadr |-> q.macadr, secret |-> q.secret, banned |-> b]
        BY <3>2, RowWithBan
      <3>4. u.banned = b /\ q.userid = r.userid /\ q.unitcd = r.unitcd /\ q.macadr = r.macadr /\ q.secret = r.secret
        BY <3>1, <3>3 DEF Same, Row
      <3>5. u = [Row(r) EXCEPT !.banned = b]
        BY <3>3, <3>4, RowWithBan
      <3> QED
        BY <3>4, <3>5
    <2>2. RetrySucceeds
      BY DEF LoginsOK, Smooth, Good, RetrySucceeds
    <2> QED
      BY <2>1, <2>2 DEF AnswersHold
  <1> QED
    BY <1>1, AccountsInvariant, PTL

-----------------------------------------------------------------------------
(* Sake *)

\* The insertions under way for a profile.
Pending(p) == {i \in inserting : i.owner = p}

\* A thread has at most one insertion under way, and rows are rows.
InsertingOK ==
  /\ \A i \in inserting : i.thread \in Threads
  /\ \A i, j \in inserting : i.thread = j.thread => i = j

RowsOK ==
  /\ IsFiniteSet(records)
  /\ \A r \in records : r = [table |-> r.table, id |-> r.id, owner |-> r.owner, fields |-> r.fields]

LimitInv == InsertingOK /\ RowsOK /\ WithinLimit

-----------------------------------------------------------------------------
(* Counting *)

\* Of insertions that are under way in threads of their own, no more belong to one profile than there are threads.
LEMMA PendingBounded ==
  ASSUME NEW S, \A i \in S : i.thread \in Threads, \A i, j \in S : i.thread = j.thread => i = j, NEW p
  PROVE  LET P == {i \in S : i.owner = p}
         IN /\ IsFiniteSet(P) /\ Cardinality(P) \in Nat
            /\ Cardinality(Threads) \in Nat /\ Cardinality(P) <= Cardinality(Threads)
<1> DEFINE P == {i \in S : i.owner = p}
           f == [i \in P |-> i.thread]
<1>1. f \in [P -> Threads]
  OBVIOUS
<1>2. \A i, j \in P : f[i] = f[j] => i = j
  OBVIOUS
<1>3. f \in Injection(P, Threads)
  BY <1>1, <1>2 DEF Injection, IsInjective
<1>4. IsFiniteSet(Threads)
  BY SakeAssumption
<1> HIDE DEF f, P
<1>5. IsFiniteSet(P) /\ Cardinality(P) <= Cardinality(Threads)
  BY <1>3, <1>4, FS_Injection
<1>6. Cardinality(P) \in Nat /\ Cardinality(Threads) \in Nat
  BY <1>4, <1>5, FS_CardinalityType
<1>. QED  BY <1>5, <1>6 DEF P

\* The rows of a profile are finitely many.
LEMMA OwnedFinite ==
  ASSUME NEW R, IsFiniteSet(R), NEW p
  PROVE  LET O == {r \in R : r.owner = p} IN IsFiniteSet(O) /\ Cardinality(O) \in Nat
<1> DEFINE O == {r \in R : r.owner = p}
<1>1. O \in SUBSET R
  OBVIOUS
<1>2. IsFiniteSet(O)
  BY <1>1, FS_Subset
<1>. QED  BY <1>2, FS_CardinalityType

-----------------------------------------------------------------------------
(* The limit *)

\* The count of createRecord leaves room for one row per thread: its own insertion takes one of them.
LEMMA CreateKeepsLimit ==
  ASSUME LimitInv, NEW t \in Threads, NEW p \in Profiles, NEW table, NEW in, CreateRecord(t, p, table, in)
  PROVE  LimitInv'
<1>1. PICK all : inserting' = inserting \cup {[thread |-> t, owner |-> p, table |-> table, fields |-> <<all>>]}
  BY Zenon DEF CreateRecord
<1>2. records' = records
  BY DEF CreateRecord
<1>3. InsertingOK'
  BY <1>1 DEF LimitInv, InsertingOK, CreateRecord, Waiting
<1>4. RowsOK'
  BY <1>2 DEF LimitInv, RowsOK
<1>5. ASSUME NEW q \in Profiles
      PROVE  Cardinality(Owned(q))' + Cardinality(Pending(q))' < MaxSakeRecordsPerProfile + Cardinality(Threads)
  <2>1. Owned(q)' = Owned(q)
    BY <1>2 DEF Owned
  <2>2. Cardinality(Owned(q)) \in Nat
    BY OwnedFinite DEF LimitInv, RowsOK, Owned
  <2>3. /\ Cardinality(Pending(q))' \in Nat /\ Cardinality(Threads) \in Nat
        /\ Cardinality(Pending(q))' <= Cardinality(Threads)
    BY <1>3, PendingBounded DEF InsertingOK, Pending
  <2>4. CASE q = p
    <3>1. Cardinality(Owned(q)) < MaxSakeRecordsPerProfile
      BY <2>4 DEF CreateRecord
    <3>. QED  BY <2>1, <2>2, <2>3, <3>1, SakeAssumption
  <2>5. CASE q # p
    <3>1. Pending(q)' = Pending(q)
      BY <1>1, <2>5 DEF Pending
    <3>. QED  BY <2>1, <3>1 DEF LimitInv, WithinLimit, Pending
  <2>. QED  BY <2>4, <2>5
<1>. QED  BY <1>3, <1>4, <1>5 DEF LimitInv, WithinLimit, Pending

\* An insertion turns a pending one into a row.
LEMMA InsertKeepsLimit ==
  ASSUME LimitInv, NEW i \in inserting, NEW id, InsertSakeRecord(i, id)
  PROVE  LimitInv'
<1> DEFINE new == [table |-> i.table, id |-> id, owner |-> i.owner, fields |-> i.fields]
<1>1. records' = records \cup {new} /\ inserting' = inserting \ {i}
  BY DEF InsertSakeRecord
<1>2. InsertingOK'
  BY <1>1 DEF LimitInv, InsertingOK
<1>3. RowsOK'
  <2>1. IsFiniteSet(records \cup {new})
    BY FS_AddElement DEF LimitInv, RowsOK
  <2>. QED  BY <1>1, <2>1 DEF LimitInv, RowsOK
<1>4. ASSUME NEW q \in Profiles
      PROVE  Cardinality(Owned(q))' + Cardinality(Pending(q))' < MaxSakeRecordsPerProfile + Cardinality(Threads)
  <2>1. IsFiniteSet(Owned(q)) /\ Cardinality(Owned(q)) \in Nat
    BY OwnedFinite DEF LimitInv, RowsOK, Owned
  <2>2. IsFiniteSet(Pending(q)) /\ Cardinality(Pending(q)) \in Nat /\ Cardinality(Threads) \in Nat
    BY PendingBounded DEF LimitInv, InsertingOK, Pending
  <2>3. Cardinality(Owned(q)) + Cardinality(Pending(q)) < MaxSakeRecordsPerProfile + Cardinality(Threads)
    BY DEF LimitInv, WithinLimit, Pending
  <2>4. CASE i.owner = q
    <3>1. Owned(q)' = Owned(q) \cup {new} /\ Pending(q)' = Pending(q) \ {i}
      BY <1>1, <2>4 DEF Owned, Pending
    <3>2. i \in Pending(q)
      BY <2>4 DEF Pending
    <3>3. Cardinality(Owned(q) \cup {new}) \in {Cardinality(Owned(q)), Cardinality(Owned(q)) + 1}
      <4> HIDE DEF new
      <4>. QED  BY <2>1, FS_AddElement
    <3>4. Cardinality(Pending(q) \ {i}) = Cardinality(Pending(q)) - 1
      BY <2>2, <3>2, FS_RemoveElement
    <3> HIDE DEF new
    <3>. QED  BY <2>1, <2>2, <2>3, <3>1, <3>3, <3>4, SakeAssumption
  <2>5. CASE i.owner # q
    <3>1. Owned(q)' = Owned(q) /\ Pending(q)' = Pending(q)
      BY <1>1, <2>5 DEF Owned, Pending
    <3>. QED  BY <2>3, <3>1
  <2>. QED  BY <2>4, <2>5
<1>. QED  BY <1>2, <1>3, <1>4 DEF LimitInv, WithinLimit, Pending

\* An insertion that fails only makes room.
LEMMA FailureKeepsLimit ==
  ASSUME LimitInv, NEW i \in inserting, InsertFails(i)
  PROVE  LimitInv'
<1>1. records' = records /\ inserting' = inserting \ {i}
  BY DEF InsertFails
<1>2. InsertingOK' /\ RowsOK'
  BY <1>1 DEF LimitInv, InsertingOK, RowsOK
<1>3. ASSUME NEW q \in Profiles
      PROVE  Cardinality(Owned(q))' + Cardinality(Pending(q))' < MaxSakeRecordsPerProfile + Cardinality(Threads)
  <2>1. Owned(q)' = Owned(q) /\ Pending(q)' \in SUBSET Pending(q)
    BY <1>1 DEF Owned, Pending
  <2>2. Cardinality(Owned(q)) \in Nat
    BY OwnedFinite DEF LimitInv, RowsOK, Owned
  <2>3. IsFiniteSet(Pending(q)) /\ Cardinality(Pending(q)) \in Nat /\ Cardinality(Threads) \in Nat
    BY PendingBounded DEF LimitInv, InsertingOK, Pending
  <2>4. Cardinality(Pending(q)') <= Cardinality(Pending(q)) /\ Cardinality(Pending(q)') \in Nat
    BY <2>1, <2>3, FS_Subset, FS_CardinalityType
  <2>5. Cardinality(Owned(q)) + Cardinality(Pending(q)) < MaxSakeRecordsPerProfile + Cardinality(Threads)
    BY DEF LimitInv, WithinLimit, Pending
  <2>. QED  BY <2>1, <2>2, <2>3, <2>4, <2>5, SakeAssumption
<1>. QED  BY <1>2, <1>3 DEF LimitInv, WithinLimit, Pending

\* An update puts at most one row in the place of one row of the same owner.
LEMMA UpdateKeepsLimit ==
  ASSUME LimitInv, NEW p, NEW table, NEW id, NEW in, UpdateRecord(p, table, id, in)
  PROVE  LimitInv'
<1>1. PICK r \in records : records' = (records \ {r}) \cup {Updated(r, p, in)}
  BY DEF UpdateRecord
<1>2. inserting' = inserting
  BY DEF UpdateRecord
<1> DEFINE new == Updated(r, p, in)
<1>3. /\ new = [table |-> new.table, id |-> new.id, owner |-> new.owner, fields |-> new.fields]
      /\ new.owner = r.owner
  <2>1. r = [table |-> r.table, id |-> r.id, owner |-> r.owner, fields |-> r.fields]
    BY DEF LimitInv, RowsOK
  <2>2. CASE r.owner = p
    <3>1. new = [table |-> r.table, id |-> r.id, owner |-> r.owner, fields |-> Append(r.fields, in)]
      BY <2>1, <2>2 DEF Updated
    <3>. QED  BY <3>1
  <2>3. CASE r.owner # p
    BY <2>1, <2>3 DEF Updated
  <2>. QED  BY <2>2, <2>3
<1> HIDE DEF new
<1>4. records' = (records \ {r}) \cup {new}
  BY <1>1 DEF new
<1>5. InsertingOK'
  BY <1>2 DEF LimitInv, InsertingOK
<1>6. RowsOK'
  <2>1. IsFiniteSet((records \ {r}) \cup {new})
    BY FS_RemoveElement, FS_AddElement DEF LimitInv, RowsOK
  <2>. QED  BY <1>3, <1>4, <2>1 DEF LimitInv, RowsOK
<1>7. ASSUME NEW q \in Profiles
      PROVE  Cardinality(Owned(q))' + Cardinality(Pending(q))' < MaxSakeRecordsPerProfile + Cardinality(Threads)
  <2>1. IsFiniteSet(Owned(q)) /\ Cardinality(Owned(q)) \in Nat
    BY OwnedFinite DEF LimitInv, RowsOK, Owned
  <2>2. Cardinality(Pending(q)) \in Nat /\ Cardinality(Threads) \in Nat
    BY PendingBounded DEF LimitInv, InsertingOK, Pending
  <2>3. Cardinality(Owned(q)) + Cardinality(Pending(q)) < MaxSakeRecordsPerProfile + Cardinality(Threads)
    BY DEF LimitInv, WithinLimit, Pending
  <2>4. Pending(q)' = Pending(q)
    BY <1>2 DEF Pending
  <2>5. CASE r.owner = q
    <3>1. Owned(q)' = (Owned(q) \ {r}) \cup {new} /\ r \in Owned(q)
      BY <1>3, <1>4, <2>5 DEF Owned
    <3>2. IsFiniteSet(Owned(q) \ {r}) /\ Cardinality(Owned(q) \ {r}) = Cardinality(Owned(q)) - 1
      BY <2>1, <3>1, FS_RemoveElement
    <3>3. Cardinality((Owned(q) \ {r}) \cup {new}) \in {Cardinality(Owned(q)) - 1, Cardinality(Owned(q)) - 1 + 1}
      BY <3>2, FS_AddElement
    <3>. QED  BY <2>1, <2>2, <2>3, <2>4, <3>1, <3>3, SakeAssumption
  <2>6. CASE r.owner # q
    <3>1. Owned(q)' = Owned(q)
      BY <1>3, <1>4, <2>6 DEF Owned
    <3>. QED  BY <2>3, <2>4, <3>1
  <2>. QED  BY <2>5, <2>6
<1>. QED  BY <1>5, <1>6, <1>7 DEF LimitInv, WithinLimit, Pending

LEMMA LimitInvariant == SakeSpec => []LimitInv
<1>1. SakeInit => LimitInv
  <2> SUFFICES ASSUME SakeInit PROVE LimitInv
    OBVIOUS
  <2>1. InsertingOK /\ RowsOK
    BY FS_EmptySet DEF SakeInit, InsertingOK, RowsOK
  <2>2. ASSUME NEW q \in Profiles
        PROVE  Cardinality(Owned(q)) + Cardinality(Pending(q)) < MaxSakeRecordsPerProfile + Cardinality(Threads)
    <3>1. Owned(q) = {} /\ Pending(q) = {}
      BY DEF SakeInit, Owned, Pending
    <3>2. Cardinality(Threads) \in Nat
      BY FS_CardinalityType, SakeAssumption
    <3>. QED  BY <3>1, <3>2, FS_EmptySet, SakeAssumption
  <2>. QED  BY <2>1, <2>2 DEF LimitInv, WithinLimit, Pending
<1>2. LimitInv /\ [SakeNext]_sakeVars => LimitInv'
  <2> SUFFICES ASSUME LimitInv, [SakeNext]_sakeVars PROVE LimitInv'
    OBVIOUS
  <2>1. ASSUME NEW p \in Profiles, NEW in \in Inputs, NEW t \in Threads, NEW table \in TableIDs,
               CreateRecord(t, p, table, in)
        PROVE  LimitInv'
    BY <2>1, CreateKeepsLimit
  <2>2. ASSUME NEW p \in Profiles, NEW in \in Inputs, NEW table \in TableIDs, NEW r \in records,
               UpdateRecord(p, table, r.id, in)
        PROVE  LimitInv'
    BY <2>2, UpdateKeepsLimit
  <2>3. ASSUME NEW i \in inserting, InsertFails(i)
        PROVE  LimitInv'
    BY <2>3, FailureKeepsLimit
  <2>4. ASSUME NEW i \in inserting, NEW id \in RecordIDs, InsertSakeRecord(i, id)
        PROVE  LimitInv'
    BY <2>4, InsertKeepsLimit
  <2>5. CASE UNCHANGED sakeVars
    BY <2>5 DEF LimitInv, InsertingOK, RowsOK, WithinLimit, Owned, sakeVars
  <2>. QED  BY <2>1, <2>2, <2>3, <2>4, <2>5 DEF SakeNext
<1>. QED  BY <1>1, <1>2, PTL DEF SakeSpec

\* createRecord (sake/storage.go) counts in one query and inserts in another, and nevertheless a profile never has
\* more records, with those about to be inserted, than the limit and the other threads: WithinLimit.
THEOREM LimitHolds == SakeSpec => []WithinLimit
<1>1. LimitInv => WithinLimit
  BY DEF LimitInv
<1>. QED  BY <1>1, LimitInvariant, PTL

-----------------------------------------------------------------------------
(* Other players' records *)

\* Insertions that meet on a number (database/sake.go), and updates by players who do not own the record they
\* name, leave every record as it is: OthersRecordsKept.
THEOREM OthersKept == SakeSpec => OthersRecordsKept
<1>1. ASSUME SakeNext, NEW r \in records
      PROVE  r \in records' \/ \E in \in Inputs, table \in TableIDs : UpdateRecord(r.owner, table, r.id, in)
  <2>1. ASSUME NEW p \in Profiles, NEW in \in Inputs, NEW table \in TableIDs, NEW s \in records,
               UpdateRecord(p, table, s.id, in)
        PROVE  r \in records' \/ UpdateRecord(r.owner, table, r.id, in)
    <3>1. PICK x \in records : /\ x.id = s.id
                               /\ records' = (records \ {x}) \cup {Updated(x, p, in)}
      BY <2>1 DEF UpdateRecord
    <3>2. CASE r = x /\ r.owner = p
      BY <2>1, <3>1, <3>2
    <3>3. CASE r = x /\ r.owner # p
      BY <3>1, <3>3 DEF Updated
    <3>4. CASE r # x
      BY <3>1, <3>4
    <3>. QED  BY <3>2, <3>3, <3>4
  <2>2. ASSUME NEW p, NEW in, NEW t, NEW table, CreateRecord(t, p, table, in)
        PROVE  r \in records'
    BY <2>2 DEF CreateRecord
  <2>3. ASSUME NEW i, InsertFails(i)
        PROVE  r \in records'
    BY <2>3 DEF InsertFails
  <2>4. ASSUME NEW i, NEW id, InsertSakeRecord(i, id)
        PROVE  r \in records'
    BY <2>4 DEF InsertSakeRecord
  <2>. QED  BY <1>1, <2>1, <2>2, <2>3, <2>4 DEF SakeNext
<1>2. [SakeNext]_sakeVars =>
        [\A r \in records : r \in records' \/
           \E in \in Inputs, table \in TableIDs : UpdateRecord(r.owner, table, r.id, in)]_sakeVars
  BY <1>1
<1>. QED  BY <1>2, PTL DEF SakeSpec, OthersRecordsKept

-----------------------------------------------------------------------------
(* JSON *)

\* The results of checking the fields of a console: there is one, and none is mistaken for that of the query.
LEMMA ResultsOfInput ==
  ASSUME NEW table, NEW in, NEW useDefault \in BOOLEAN
  PROVE  /\ GetInputFields(table, in, useDefault) # {}
         /\ "NotOwned" \notin GetInputFields(table, in, useDefault)
<1>1. ASSUME NEW n, NEW f
      PROVE  CheckField(table, n, f) # "NotOwned"
  BY DEF CheckField, CheckValidField
<1>. QED  BY <1>1 DEF GetInputFields

\* The CHECK of the schema holds for what an update stores.
LEMMA UpdateIsStorable ==
  ASSUME NEW p, NEW table, NEW id, NEW in, UpdateRecord(p, table, id, in)
  PROVE  \E r \in records : /\ SameTable(r.table, table) /\ r.id = id
                            /\ records' = (records \ {r}) \cup {Updated(r, p, in)}
                            /\ Storable(Updated(r, p, in).fields)
<1>1. PICK r \in records : /\ SameTable(r.table, table) /\ r.id = id
                           /\ records' = (records \ {r}) \cup {Updated(r, p, in)}
  BY DEF UpdateRecord
<1>2. UpdateResult(p, table, id, in) \in {"NotOwned", "Success"}
  BY DEF UpdateRecord
<1>3. r \in {x \in records : SameTable(x.table, table) /\ x.id = id}
  BY <1>1
<1>4. GetInputFields(table, in, FALSE) # {} /\ "NotOwned" \notin GetInputFields(table, in, FALSE)
  BY ResultsOfInput
<1> DEFINE results == GetInputFields(table, in, FALSE)
<1>5. (CHOOSE x \in results : TRUE) \in results
  BY <1>4
<1>6. ~Reserved(table) /\ AllowsOwnerUpdate(table)
  BY <1>2 DEF UpdateResult
<1>7. "Success" \in results
  <2>1. "Success" \notin results => UpdateResult(p, table, id, in) = CHOOSE x \in results : TRUE
    BY <1>6 DEF UpdateResult
  <2> HIDE DEF results
  <2>. QED  BY <1>2, <1>4, <1>5, <2>1 DEF results
<1>8. Storable(Updated(r, p, in).fields)
  BY <1>2, <1>3, <1>6, <1>7 DEF UpdateResult
<1>. QED  BY <1>1, <1>8

\* A record is stored only as the table allows it (schema.sql), by insertion or update: RecordsDecode, without which one
\* record would fail every search of its table.
THEOREM AllDecode == SakeSpec => []RecordsDecode
<1>1. SakeInit => RecordsDecode
  BY DEF SakeInit, RecordsDecode
<1>2. RecordsDecode /\ [SakeNext]_sakeVars => RecordsDecode'
  <2> SUFFICES ASSUME RecordsDecode, [SakeNext]_sakeVars PROVE RecordsDecode'
    OBVIOUS
  <2>1. ASSUME NEW p, NEW in, NEW table, NEW id, UpdateRecord(p, table, id, in)
        PROVE  RecordsDecode'
    BY <2>1, UpdateIsStorable DEF RecordsDecode, Decodes, Storable
  <2>2. ASSUME NEW p, NEW in, NEW t, NEW table, CreateRecord(t, p, table, in)
        PROVE  RecordsDecode'
    BY <2>2 DEF CreateRecord, RecordsDecode
  <2>3. ASSUME NEW i, InsertFails(i)
        PROVE  RecordsDecode'
    BY <2>3 DEF InsertFails, RecordsDecode
  <2>4. ASSUME NEW i, NEW id, InsertSakeRecord(i, id)
        PROVE  RecordsDecode'
    BY <2>4 DEF InsertSakeRecord, RecordsDecode, Decodes, Storable
  <2>5. CASE UNCHANGED sakeVars
    BY <2>5 DEF RecordsDecode, sakeVars
  <2>. QED  BY <2>1, <2>2, <2>3, <2>4, <2>5 DEF SakeNext
<1>. QED  BY <1>1, <1>2, PTL DEF SakeSpec

-----------------------------------------------------------------------------
(* Rows *)

\* The text of a row of table t is one object, whose fields passed the checks.
Sound(t, fields) ==
  /\ fields = <<fields[1]>>
  /\ FieldsAllowed(t, fields[1])
  /\ \A n \in DOMAIN fields[1] : fields[1][n].value \in Int

ContentInv ==
  /\ \A r \in records : r.table \in TableIDs /\ r.owner \in Profiles /\ r.id \in RecordIDs /\ Sound(r.table, r.fields)
  /\ \A r, s \in records : SameTable(r.table, s.table) /\ r.id = s.id => r = s
  /\ \A i \in inserting : i.thread \in Threads /\ i.owner \in Profiles /\ i.table \in TableIDs /\ Sound(i.table, i.fields)
  /\ \A i, j \in inserting : i.thread = j.thread => i = j

\* A field that is not refused is one that its table allows.
LEMMA AcceptedField ==
  ASSUME NEW table, Defined(table), NEW n, NEW f, f.form \in Forms, CheckField(table, n, f) = "Success"
  PROVE  FieldAllowed(table, n, f)
<1>1. CheckValidField(table, n, f) = "Success" /\ n \notin {"ownerid", "recordid", "gameid", "tableid"}
  BY DEF CheckField
<1> DEFINE known == Tables[table].fields
<1>2. /\ DOMAIN known # {} /\ Tables[table].hardened => n \in DOMAIN known
      /\ n \in DOMAIN known => known[n] = f.type
      /\ f.form \notin {"long", "bad"}
  BY <1>1 DEF CheckValidField
<1>. QED  BY <1>1, <1>2 DEF FieldAllowed

LEMMA AcceptedInput ==
  ASSUME NEW table, NEW in, "Success" \in GetInputFields(table, in, TRUE)
  PROVE  /\ \A n \in DOMAIN in : CheckField(table, n, in[n]) = "Success"
         /\ ~Defined(table) => DOMAIN in = {}
<1>1. ASSUME NEW n PROVE CheckField(table, n, in[n]) # "panic"
  BY DEF CheckField, CheckValidField
<1>. QED  BY <1>1 DEF GetInputFields

LEMMA DefaultField ==
  ASSUME NEW table, Defined(table), NEW n \in DOMAIN GetDefaultFields(table)
  PROVE  /\ GetDefaultFields(table)[n].value = 0
         /\ FieldAllowed(table, n, GetDefaultFields(table)[n])
<1> DEFINE f == GetDefaultFields(table)[n]
<1>1. f.form = "plain" /\ f.value = 0
  BY DEF GetDefaultFields
<1>2. n \in RatingFields \/ (n \in Tables[table].defaults /\ f.type = Tables[table].fields[n])
  BY DEF GetDefaultFields, RatingFields
<1>3. n \in Tables[table].defaults => n \in DOMAIN Tables[table].fields
  BY SakeAssumption DEF Defined
<1> HIDE DEF f
<1>4. n \notin {"ownerid", "recordid", "gameid", "tableid"} \/ n \in Tables[table].defaults
  BY <1>2 DEF RatingFields
<1>5. FieldAllowed(table, n, f)
  BY <1>1, <1>2, <1>3, <1>4 DEF FieldAllowed, Forms
<1>. QED  BY <1>1, <1>5 DEF f

LEMMA CreateIsSound ==
  ASSUME ContentInv, NEW t \in Threads, NEW p \in Profiles, NEW table \in TableIDs, NEW in \in Inputs,
         CreateRecord(t, p, table, in)
  PROVE  ContentInv'
<1> DEFINE defaults == IF Defined(table) THEN GetDefaultFields(table) ELSE <<>>
           all == [n \in DOMAIN in \cup DOMAIN defaults |-> IF n \in DOMAIN in THEN in[n] ELSE defaults[n]]
           new == [thread |-> t, owner |-> p, table |-> table, fields |-> <<all>>]
<1>1. inserting' = inserting \cup {new} /\ records' = records
  BY Zenon DEF CreateRecord
<1>2. \A n \in DOMAIN in : Defined(table) /\ FieldAllowed(table, n, in[n]) /\ in[n].value \in Int
  <2>1. "Success" \in GetInputFields(table, in, TRUE)
    BY DEF CreateRecord
  <2>. QED  BY <2>1, AcceptedInput, AcceptedField, InputsAssumption
<1>3. \A n \in DOMAIN defaults : Defined(table) /\ FieldAllowed(table, n, defaults[n]) /\ defaults[n].value \in Int
  <2>1. CASE Defined(table)
    BY <2>1, DefaultField
  <2>2. CASE ~Defined(table)
    <3>1. defaults = <<>>
      BY <2>2
    <3>2. DOMAIN defaults = {}
      BY <3>1
    <3>. QED  BY <3>2
  <2>. QED  BY <2>1, <2>2
<1> HIDE DEF defaults
<1>4. \A n \in DOMAIN all : Defined(table) /\ FieldAllowed(table, n, all[n]) /\ all[n].value \in Int
  BY <1>2, <1>3
<1> HIDE DEF all
<1>5. Sound(table, <<all>>)
  BY <1>4 DEF Sound, FieldsAllowed
<1>6. new.thread = t /\ new.owner = p /\ new.table = table /\ new.fields = <<all>>
  OBVIOUS
<1>7. \A i \in inserting : i.thread # t
  BY DEF CreateRecord, Waiting
<1> HIDE DEF new
<1>. QED  BY <1>1, <1>5, <1>6, <1>7 DEF ContentInv

\* An update that would change its record would store two objects, which the table refuses.
LEMMA UpdateChangesNothing ==
  ASSUME ContentInv, NEW p, NEW table, NEW id, NEW in, UpdateRecord(p, table, id, in)
  PROVE  records' = records /\ inserting' = inserting
<1>1. PICK r \in records : /\ records' = (records \ {r}) \cup {Updated(r, p, in)}
                           /\ Storable(Updated(r, p, in).fields)
  BY UpdateIsStorable
<1>2. r.owner # p
  <2> SUFFICES ASSUME r.owner = p PROVE FALSE
    OBVIOUS
  <2>1. r.fields = <<r.fields[1]>>
    BY DEF ContentInv, Sound
  <2>2. Len(Append(r.fields, in)) = 2
    <3>1. ASSUME NEW x PROVE Len(Append(<<x>>, in)) = 2
      OBVIOUS
    <3>. QED  BY <2>1, <3>1
  <2>3. Updated(r, p, in) = [r EXCEPT !.fields = Append(@, in)]
    BY DEF Updated
  <2>. QED  BY <1>1, <2>2, <2>3 DEF Storable
<1>3. inserting' = inserting
  BY DEF UpdateRecord
<1>. QED  BY <1>1, <1>2, <1>3 DEF Updated

LEMMA InsertIsSound ==
  ASSUME ContentInv, NEW i \in inserting, NEW id \in RecordIDs, InsertSakeRecord(i, id)
  PROVE  ContentInv'
<1> DEFINE new == [table |-> i.table, id |-> id, owner |-> i.owner, fields |-> i.fields]
<1>1. records' = records \cup {new} /\ inserting' = inserting \ {i}
      /\ \A r \in records : SameTable(r.table, i.table) => r.id # id
  BY DEF InsertSakeRecord
<1>2. new.table = i.table /\ new.id = id /\ new.owner = i.owner /\ new.fields = i.fields
  OBVIOUS
<1> HIDE DEF new
<1>. QED  BY <1>1, <1>2 DEF ContentInv, SameTable

LEMMA ContentInvariant == SakeSpec => []ContentInv
<1>1. SakeInit => ContentInv
  BY DEF SakeInit, ContentInv
<1>2. ContentInv /\ [SakeNext]_sakeVars => ContentInv'
  <2> SUFFICES ASSUME ContentInv, [SakeNext]_sakeVars PROVE ContentInv'
    OBVIOUS
  <2>1. CASE records' = records /\ inserting' = inserting
    BY <2>1 DEF ContentInv
  <2>2. ASSUME NEW i \in inserting, InsertFails(i)
        PROVE  ContentInv'
    BY <2>2 DEF InsertFails, ContentInv
  <2>3. CASE UNCHANGED sakeVars
    BY <2>1, <2>3 DEF sakeVars
  <2>. QED  BY <2>1, <2>2, <2>3, CreateIsSound, UpdateChangesNothing, InsertIsSound DEF SakeNext
<1>. QED  BY <1>1, <1>2, PTL DEF SakeSpec

\* The rows of sake_records keep the keys of the table (database/sake.go, schema.sql), and hold the fields that the
\* definition of their table allows, with its types, as getInputFields (sake/storage.go) checks them, and those that it
\* adds; a request has one insertion under way.
THEOREM RowsAreTyped == SakeSpec => []SakeTypeOK
<1>1. ContentInv => SakeTypeOK
  <2> SUFFICES ASSUME ContentInv PROVE SakeTypeOK
    OBVIOUS
  <2>1. ASSUME NEW t, NEW fields, Sound(t, fields) PROVE Len(fields) = 1 /\ FieldsAllowed(t, fields[1])
    BY <2>1 DEF Sound
  <2>2. RecordsDecode
    BY <2>1 DEF ContentInv, RecordsDecode, Decodes
  <2>3. \A x \in records \cup inserting : Len(x.fields) = 1 /\ FieldsAllowed(x.table, x.fields[1])
    BY <2>1 DEF ContentInv
  <2>. QED  BY <2>2, <2>3 DEF ContentInv, SakeTypeOK
<1>. QED  BY <1>1, ContentInvariant, PTL

-----------------------------------------------------------------------------
(* Searches *)

\* Where a search finds its records.
LEMMA FoundByOwner ==
  ASSUME NEW p, NEW table, NEW owners, NEW fields, NEW s, NEW max,
         NEW rs \in SearchForRecords(p, table, owners, fields, s, max)
  PROVE  LET q == GetSakeRecords(table, Owners(p, table, owners))
         IN /\ ~Reserved(table) /\ q.ok /\ ~SortPanics(q.rows, s)
            /\ \E f \in SUBSET q.rows :
                 /\ Cardinality(f) = (IF max = 0 \/ Cardinality(q.rows) < max THEN Cardinality(q.rows) ELSE max)
                 /\ \A l \in q.rows \ f, r \in f : ~Less(l, r, s)
                 /\ rs = Complete(f, fields)
BY Zenon DEF SearchForRecords

\* A search without a limit finds all of them.
LEMMA FoundAll ==
  ASSUME NEW p, NEW table, NEW owners, NEW fields, NEW s, NEW max, max = 0,
         NEW rs \in SearchForRecords(p, table, owners, fields, s, max)
  PROVE  LET q == GetSakeRecords(table, Owners(p, table, owners))
         IN \E f \in SUBSET q.rows : Cardinality(f) = Cardinality(q.rows) /\ rs = Complete(f, fields)
<1> DEFINE q == GetSakeRecords(table, Owners(p, table, owners))
<1>1. PICK f \in SUBSET q.rows :
        /\ Cardinality(f) = (IF max = 0 \/ Cardinality(q.rows) < max THEN Cardinality(q.rows) ELSE max)
        /\ rs = Complete(f, fields)
  BY FoundByOwner
<1>. QED  BY <1>1

\* The rows of a query.
LEMMA RowsOfQuery ==
  ASSUME NEW table, NEW owners
  PROVE  GetSakeRecords(table, owners).rows = {r \in records : SameTable(r.table, table) /\ r.owner \in owners}
BY DEF GetSakeRecords

LEMMA SearchShowsAllowed ==
  ASSUME NEW p \in Profiles, NEW table, Defined(table),
         NEW rs \in SearchForRecords(p, table, Profiles, {"recordid"}, "Score", 0), NEW r \in rs, r.owner # p
  PROVE  /\ AllowsPublicRead(table)
         /\ \A n \in DOMAIN r.fields[1] :
              n = "info" /\ table = "FriendInfo" => FilterFieldFromDatabase(table, r, n, p) # "mii"
<1> DEFINE q == GetSakeRecords(table, Owners(p, table, Profiles))
<1>1. PICK f \in SUBSET q.rows : rs = Complete(f, {"recordid"})
  BY FoundByOwner
<1>2. r \in q.rows
  BY <1>1 DEF Complete
<1>3. r.owner \in Owners(p, table, Profiles)
  BY <1>2, RowsOfQuery
<1>4. AllowsPublicRead(table)
  BY <1>3 DEF Owners
<1>5. ASSUME NEW n, n = "info" /\ table = "FriendInfo"
      PROVE  FilterFieldFromDatabase(table, r, n, p) # "mii"
  BY <1>5, FriendInfoAssumption DEF FilterFieldFromDatabase, FilterFriendInfo
<1>. QED  BY <1>4, <1>5

\* A subset with as many elements is the set.
LEMMA AllOfThem ==
  ASSUME NEW S, IsFiniteSet(S), NEW T \in SUBSET S, Cardinality(T) = Cardinality(S)
  PROVE  T = S
BY FS_Subset

LEMMA SearchOfOwn ==
  ASSUME IsFiniteSet(records), NEW p \in Profiles, NEW table,
         NEW rs \in SearchForRecords(p, table, {p}, {"recordid"}, "Score", 0)
  PROVE  rs = GetMyRecords(p, table, {"recordid"})
<1> DEFINE q == GetSakeRecords(table, {p})
<1>1. Owners(p, table, {p}) = {p}
  BY DEF Owners
<1>2. PICK f \in SUBSET q.rows : Cardinality(f) = Cardinality(q.rows) /\ rs = Complete(f, {"recordid"})
  <2> DEFINE x == GetSakeRecords(table, Owners(p, table, {p}))
  <2>1. PICK f \in SUBSET x.rows : Cardinality(f) = Cardinality(x.rows) /\ rs = Complete(f, {"recordid"})
    BY FoundAll
  <2>2. x = q
    BY <1>1
  <2> HIDE DEF x, q
  <2>. QED  BY <2>1, <2>2
<1>3. ~Reserved(table) /\ q.ok
  BY <1>1, FoundByOwner, ZenonT(60)
<1>4. q.rows \in SUBSET records
  <2>1. q.rows = {r \in records : SameTable(r.table, table) /\ r.owner \in {p}}
    BY RowsOfQuery
  <2>. QED  BY <2>1
<1>5. IsFiniteSet(q.rows)
  BY <1>4, FS_Subset
<1>6. f = q.rows
  <2> HIDE DEF q
  <2>. QED  BY <1>2, <1>5, AllOfThem
<1>7. GetMyRecords(p, table, {"recordid"}) = Complete(q.rows, {"recordid"})
  BY <1>3 DEF GetMyRecords
<1>. QED  BY <1>2, <1>6, <1>7

\* Two that can be compared by a value that is a number.
LEMMA NotLess ==
  ASSUME NEW l, NEW r, HasSort(l, "Score"), HasSort(r, "Score"), ~Less(l, r, "Score"),
         l.fields[1]["Score"].value \in Int, r.fields[1]["Score"].value \in Int
  PROVE  l.fields[1]["Score"].value >= r.fields[1]["Score"].value
BY DEF Less

\* The records that p may find are those of the query.
LEMMA VisibleIsFound ==
  ASSUME ContentInv, NEW p \in Profiles, NEW table
  PROVE  GetSakeRecords(table, Owners(p, table, Profiles)).rows = Visible(p, table)
BY RowsOfQuery DEF Owners, Visible, ContentInv

LEMMA SearchKeepsBest ==
  ASSUME ContentInv, IsFiniteSet(records), NEW p \in Profiles, NEW table, NEW max \in 1 .. 2,
         NEW rs \in SearchForRecords(p, table, Profiles, {"recordid", "Score"}, "Score", max)
  PROVE  LET scored == Complete(Visible(p, table), {"Score"})
         IN /\ rs \subseteq scored
            /\ \A r \in rs, l \in scored \ rs : l.fields[1]["Score"].value >= r.fields[1]["Score"].value
            /\ scored \ rs # {} => Cardinality(rs \cup (Visible(p, table) \ scored)) >= max
<1> DEFINE rows == Visible(p, table)
           scored == Complete(rows, {"Score"})
<1>1. PICK f \in SUBSET rows :
        /\ Cardinality(f) = (IF max = 0 \/ Cardinality(rows) < max THEN Cardinality(rows) ELSE max)
        /\ \A x \in rows \ f, y \in f : ~Less(x, y, "Score")
        /\ rs = Complete(f, {"recordid", "Score"})
  <2> DEFINE q == GetSakeRecords(table, Owners(p, table, Profiles))
  <2>1. q.rows = rows
    BY VisibleIsFound
  <2>2. \E f \in SUBSET q.rows :
          /\ Cardinality(f) = (IF max = 0 \/ Cardinality(q.rows) < max THEN Cardinality(q.rows) ELSE max)
          /\ \A x \in q.rows \ f, y \in f : ~Less(x, y, "Score")
          /\ rs = Complete(f, {"recordid", "Score"})
    BY FoundByOwner
  <2> HIDE DEF q, rows
  <2>. QED  BY <2>1, <2>2
<1>2. rows \subseteq records /\ IsFiniteSet(rows)
  <2>1. rows \subseteq records
    BY DEF Visible
  <2>. QED  BY <2>1, FS_Subset
<1> HIDE DEF rows
<1>3. scored = {r \in rows : HasSort(r, "Score")} /\ rs = {r \in f : HasSort(r, "Score")}
  <2>1. scored = {r \in rows : {"Score"} \subseteq DOMAIN r.fields[1] \cup {"ownerid", "recordid"}}
    BY DEF Complete
  <2>2. rs = {r \in f : {"recordid", "Score"} \subseteq DOMAIN r.fields[1] \cup {"ownerid", "recordid"}}
    BY <1>1 DEF Complete
  <2>. QED  BY <2>1, <2>2 DEF HasSort
<1> HIDE DEF scored
<1>4. rs \subseteq scored
  BY <1>1, <1>3
<1>5. ASSUME NEW r \in rs, NEW l \in scored \ rs
      PROVE  l.fields[1]["Score"].value >= r.fields[1]["Score"].value
  <2>1. r \in f /\ l \in rows \ f /\ HasSort(r, "Score") /\ HasSort(l, "Score")
    BY <1>3
  <2>2. ~Less(l, r, "Score")
    BY <1>1, <2>1
  <2>3. l \in records /\ r \in records
    BY <1>1, <1>2, <2>1
  <2>4. l.fields[1]["Score"].value \in Int /\ r.fields[1]["Score"].value \in Int
    BY <2>1, <2>3 DEF ContentInv, Sound, HasSort
  <2>. QED  BY <2>1, <2>2, <2>4, NotLess
<1>6. ASSUME scored \ rs # {}
      PROVE  Cardinality(rs \cup (rows \ scored)) >= max
  <2>1. f # rows
    BY <1>3, <1>6
  <2>2. Cardinality(f) # Cardinality(rows)
    BY <1>1, <1>2, <2>1, AllOfThem
  <2>3. Cardinality(f) = max
    BY <1>1, <2>2
  <2>4. f \subseteq rs \cup (rows \ scored)
    BY <1>1, <1>3
  <2>5. rs \cup (rows \ scored) \subseteq rows
    BY <1>1, <1>3
  <2>6. IsFiniteSet(rs \cup (rows \ scored))
    BY <1>2, <2>5, FS_Subset
  <2>7. Cardinality(f) <= Cardinality(rs \cup (rows \ scored))
    BY <2>4, <2>6, FS_Subset
  <2>8. Cardinality(rs \cup (rows \ scored)) \in Nat
    BY <2>6, FS_CardinalityType
  <2>. QED  BY <2>3, <2>7, <2>8
<1>. QED  BY <1>4, <1>5, <1>6 DEF scored, rows

\* searchForRecords (sake/storage.go), asked for a table by the name it is defined under, never shows a record of another
\* player in a table that does not allow it, nor the personal data of another player's Mii; by any name it finds of
\* one's own records what getMyRecords finds, and when it is cut off keeps the lowest of those that have the field, as
\* far as those that lack it leave room.
THEOREM SearchesAreRight == SakeSpec => []SearchIsRight
<1>1. ContentInv /\ LimitInv => SearchIsRight
  <2> SUFFICES ASSUME ContentInv, LimitInv PROVE SearchIsRight
    OBVIOUS
  <2>1. IsFiniteSet(records)
    BY DEF LimitInv, RowsOK
  <2>2. SearchIsPrivate
    BY <2>1, SearchShowsAllowed, SearchOfOwn DEF SearchIsPrivate
  <2>3. BestAreKept
    BY <2>1, SearchKeepsBest DEF BestAreKept
  <2>. QED  BY <2>2, <2>3 DEF SearchIsRight
<1>. QED  BY <1>1, ContentInvariant, LimitInvariant, PTL
=============================================================================
