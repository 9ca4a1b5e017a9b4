------------------------------ MODULE Accounts ------------------------------
(***************************************************************************)
(* The accounts of NAS (nas/account.go) over the tables users and profiles *)
(* (database/user.go, database/profile.go, schema.sql), the tokens and     *)
(* tickets they lead to (common/auth_token.go), and their use in GPCM      *)
(* (gpcm/login.go).                                                        *)
(*                                                                         *)
(* Every HTTP request has a goroutine; each query of the database is one   *)
(* step and may fail.  What happens between two queries is local to the    *)
(* request and done with the query before it.  The unique keys of the      *)
(* schema hold in the database, whatever the goroutines have checked.  The *)
(* process may stop at any time: the rows stay, the goroutines are gone,   *)
(* and the keys of tokens and tickets are drawn again.                     *)
(*                                                                         *)
(* A field of a request is a value or "bad" if it is missing or malformed. *)
(* The password of a DS and the serial number of a Wii are both "secret":  *)
(* the row holds one of them.  The names of players change nothing here.   *)
(***************************************************************************)
EXTENDS Naturals, FiniteSets

CONSTANTS
  Goroutines,      \* goroutines of the HTTP server
  Requests,     \* the requests of the consoles, see Fields
  MacOf,        \* decodeDSUserID: the end of the MAC address a DS user ID holds
  MaxProfiles,  \* bound on the profiles
  MaxFaults     \* bound on the faults

VARIABLES
  users,     \* table users
  profiles,  \* table profiles, and
  lastId,    \* its AUTO_INCREMENT
  thread,    \* the goroutine of each request
  tokens,    \* the tokens that Unmarshal accepts: of this process, and of the last ten minutes
  tickets,   \* the login tickets ever issued
  faults     \* counts the queries that failed and the processes that stopped

accountVars == <<users, profiles, lastId, thread, tokens, tickets, faults>>

Fields == {"action", "userid", "unitcd", "macadr", "secret", "gsbrcd", "lang", "extra", "profane"}

\* Rows of users.  A row never changes but for the ban.
Row(r) == [id |-> r.userid, unitcd |-> r.unitcd, macadr |-> r.macadr, secret |-> r.secret, banned |-> FALSE]

NoUser == [id |-> "none", unitcd |-> 0, macadr |-> "bad", secret |-> "bad", banned |-> FALSE]

IsWii(u) == u.unitcd = 1

\* A goroutine: the query it is about to make, the request, the row and the profile it has read, and its
\* answer.  Ghosts: alone, if no other request, ban or failure came between; fit, see Fit.
Queries == {"idle", "getUser", "isUserIDInUse", "isMACInUse", "isSerialInUse", "insertUser",
            "getUserAgain", "getProfileID", "createProfile", "check"}

Idle(t) == thread[t].at = "idle"

Blank == [at |-> "idle", req |-> CHOOSE r \in Requests : TRUE, user |-> NoUser, profile |-> 0,
          answer |-> "none", alone |-> FALSE, fit |-> FALSE]

AccountsInit ==
  /\ users = {} /\ profiles = {} /\ lastId = 0
  /\ thread = [t \in Goroutines |-> Blank]
  /\ tokens = {} /\ tickets = {}
  /\ faults = 0

-----------------------------------------------------------------------------

Holder(id) == {u \in users : u.id = id}

\* Ghost: the console may expect to be let in.  Its row is its own, or nothing of it is taken.
Fit(r) ==
  IF Holder(r.userid) # {}
  THEN \A u \in Holder(r.userid) : u = [Row(r) EXCEPT !.banned = FALSE]
  ELSE \A u \in users : u.macadr # r.macadr /\ (IsWii(r) /\ IsWii(u) => u.secret # r.secret)

\* t goes on to the query q.
Goto(t, q) == thread' = [thread EXCEPT ![t].at = q]

\* t answers, and forgets what it has read.
Answered(th, code) == [th EXCEPT !.at = "idle", !.answer = code, !.user = NoUser, !.profile = 0]

Answer(t, code) == thread' = [thread EXCEPT ![t] = Answered(@, code)]

\* What acAccountCreate checks before it asks the database.
Unacceptable(r) ==
  IF r.unitcd \notin {0, 1} THEN "109"
  ELSE IF r.macadr = "bad" THEN "109"
  ELSE IF ~IsWii(r) /\ r.macadr # MacOf[r.userid] THEN "103"
  ELSE IF r.secret = "bad" THEN "109"
  ELSE "002"

StartCreate(t, r) ==
  IF Unacceptable(r) # "002" THEN Answer(t, Unacceptable(r)) ELSE Goto(t, "isUserIDInUse")

\* A request arrives.  The queries of others are no longer alone.
Begin(t, r) ==
  /\ Idle(t)
  /\ LET alone == \A s \in Goroutines : Idle(s)
         th == [s \in Goroutines |-> IF s = t
                  THEN [Blank EXCEPT !.req = r, !.alone = alone, !.fit = Fit(r)]
                  ELSE [thread[s] EXCEPT !.alone = @ /\ Idle(s)]]
     IN thread' = [th EXCEPT ![t] =
          IF r.action # "ACCTCREATE" THEN [@ EXCEPT !.at = "getUser"]
          ELSE IF Unacceptable(r) = "002" THEN [@ EXCEPT !.at = "isUserIDInUse"]
          ELSE Answered(@, Unacceptable(r))]
  /\ UNCHANGED <<users, profiles, lastId, tokens, tickets, faults>>

\* acLogin with the row of the user.
WithUser(t, u) ==
  LET code == IF thread[t].req.action = "SVCLOC" THEN "" ELSE thread[t].req.gsbrcd
  IN IF u.banned THEN Answer(t, "102")
     ELSE IF code = "bad" THEN Answer(t, "109")
     ELSE thread' = [thread EXCEPT ![t].user = u, ![t].at = IF code = "" THEN "check" ELSE "getProfileID"]

Unread == UNCHANGED <<users, profiles, lastId, tokens, tickets>>

\* The first look for the user: nobody there, or a query that failed, leads to acAccountCreate.
GetUser(t) ==
  /\ thread[t].at = "getUser"
  /\ LET r == thread[t].req
     IN IF Holder(r.userid) = {} THEN StartCreate(t, r) ELSE \E u \in Holder(r.userid) : WithUser(t, u)
  /\ UNCHANGED faults /\ Unread

GetUserAgain(t) ==
  /\ thread[t].at = "getUserAgain"
  /\ LET h == Holder(thread[t].req.userid)
     IN IF h = {} THEN Answer(t, "105") ELSE \E u \in h : WithUser(t, u)
  /\ UNCHANGED faults /\ Unread

\* The questions CreateUser asks before it inserts.
IsUserIDInUse(t) ==
  /\ thread[t].at = "isUserIDInUse"
  /\ IF Holder(thread[t].req.userid) # {} THEN Answer(t, "104") ELSE Goto(t, "isMACInUse")
  /\ UNCHANGED faults /\ Unread

IsMACInUse(t) ==
  /\ thread[t].at = "isMACInUse"
  /\ LET r == thread[t].req
     IN IF \E u \in users : u.macadr = r.macadr THEN Answer(t, "106")
        ELSE Goto(t, IF IsWii(r) THEN "isSerialInUse" ELSE "insertUser")
  /\ UNCHANGED faults /\ Unread

SerialTaken(r) == IsWii(r) /\ \E u \in users : IsWii(u) /\ u.secret = r.secret

IsSerialInUse(t) ==
  /\ thread[t].at = "isSerialInUse"
  /\ IF SerialTaken(thread[t].req) THEN Answer(t, "106") ELSE Goto(t, "insertUser")
  /\ UNCHANGED faults /\ Unread

\* The keys of table users: id, macadr and csnum.
UniqueUser(r) ==
  /\ Holder(r.userid) = {}
  /\ \A u \in users : u.macadr # r.macadr
  /\ ~SerialTaken(r)

\* A row that came in between breaks a key: the insertion fails, and NAS answers 101.
InsertUser(t) ==
  /\ thread[t].at = "insertUser"
  /\ LET r == thread[t].req
     IN IF UniqueUser(r)
        THEN /\ users' = users \cup {Row(r)}
             /\ IF r.action = "ACCTCREATE" THEN Answer(t, "002") ELSE Goto(t, "getUserAgain")
        ELSE UNCHANGED users /\ Answer(t, "101")
  /\ UNCHANGED <<profiles, lastId, tokens, tickets, faults>>

ProfilesOf(t) ==
  {p \in profiles : p.wfcid = thread[t].user.id /\ p.gsbrcd = thread[t].req.gsbrcd}

\* Mutant: every login creates the profile.
GetProfileIDNever(t) ==
  /\ thread[t].at = "getProfileID"
  /\ Goto(t, "createProfile")
  /\ UNCHANGED faults /\ Unread

GetProfileID(t) ==
  /\ thread[t].at = "getProfileID"
  /\ IF ProfilesOf(t) = {} THEN Goto(t, "createProfile")
     ELSE \E p \in ProfilesOf(t) : thread' = [thread EXCEPT ![t].at = "check", ![t].profile = p.id]
  /\ UNCHANGED faults /\ Unread

\* Mutant: table profiles without its unique key.
CreateProfileTwice(t) ==
  /\ thread[t].at = "createProfile"
  /\ lastId < MaxProfiles
  /\ lastId' = lastId + 1
  /\ profiles' = profiles \cup {[id |-> lastId', wfcid |-> thread[t].user.id, gsbrcd |-> thread[t].req.gsbrcd]}
  /\ thread' = [thread EXCEPT ![t].at = "check", ![t].profile = lastId']
  /\ UNCHANGED <<users, tokens, tickets, faults>>

\* An insertion that breaks the key uses up a number all the same.
CreateProfile(t) ==
  /\ thread[t].at = "createProfile"
  /\ lastId < MaxProfiles
  /\ lastId' = lastId + 1
  /\ IF ProfilesOf(t) = {}
     THEN /\ profiles' = profiles \cup
               {[id |-> lastId', wfcid |-> thread[t].user.id, gsbrcd |-> thread[t].req.gsbrcd]}
          /\ thread' = [thread EXCEPT ![t].at = "check", ![t].profile = lastId']
     ELSE UNCHANGED profiles /\ Answer(t, "101")
  /\ UNCHANGED <<users, tokens, tickets, faults>>

\* Mutant: the serial number of a Wii is not compared.
VerdictWithoutSerial(u, r) ==
  IF r.lang = "bad" THEN "109"
  ELSE IF r.unitcd # u.unitcd THEN "103"
  ELSE IF ~IsWii(u) /\ r.secret # u.secret THEN "105"
  ELSE IF r.extra = "bad" THEN "109"
  ELSE IF r.profane THEN "040"
  ELSE "001"

\* The rest of acLogin compares what the console says with its row: extra is the device name or the region.
Verdict(u, r) ==
  IF r.lang = "bad" THEN "109"
  ELSE IF r.unitcd # u.unitcd THEN "103"
  ELSE IF r.secret # u.secret THEN (IF IsWii(u) THEN "103" ELSE "105")
  ELSE IF r.extra = "bad" THEN "109"
  ELSE IF r.profane THEN "040"
  ELSE "001"

\* NASAuthToken: by is a ghost, the request that was answered with it.
Token(t) == [wfcid |-> thread[t].user.id, profile |-> thread[t].profile, unitcd |-> thread[t].user.unitcd,
             by |-> thread[t].req]

\* The end of acLogin.  A profane name is reported, and the token issued all the same; SVCLOC, for
\* the services that get one (9000 and 9001), hands a token out only with the answer 007.
Check(t) ==
  /\ thread[t].at = "check"
  /\ LET r == thread[t].req
         v == Verdict(thread[t].user, r)
         passes == IF r.action = "SVCLOC" THEN v = "001" ELSE v \in {"001", "040"}
     IN /\ Answer(t, IF r.action = "SVCLOC" /\ v = "001" THEN "007" ELSE v)
        /\ tokens' = IF passes THEN tokens \cup {Token(t)} ELSE tokens
  /\ UNCHANGED <<users, profiles, lastId, tickets, faults>>

\* A query of t fails.  GetUser cannot tell that from a user who is not there; the name is not checked.
QueryFails(t) ==
  /\ faults < MaxFaults
  /\ thread[t].at \notin {"idle", "check"}
  /\ LET at == thread[t].at
         code == CASE at = "getUser" -> Unacceptable(thread[t].req)
                   [] at = "getUserAgain" -> "105"
                   [] OTHER -> "101"
         th == [thread[t] EXCEPT !.alone = FALSE]
     IN thread' = [thread EXCEPT ![t] = IF at = "getUser" /\ code = "002"
                                        THEN [th EXCEPT !.at = "isUserIDInUse"] ELSE Answered(th, code)]
  /\ faults' = faults + 1
  /\ Unread

-----------------------------------------------------------------------------

\* The operator bans a user, in the database.
Ban(u) ==
  /\ ~u.banned
  /\ users' = (users \ {u}) \cup {[u EXCEPT !.banned = TRUE]}
  /\ thread' = [t \in Goroutines |-> [thread[t] EXCEPT !.alone = @ /\ Idle(t)]]
  /\ UNCHANGED <<profiles, lastId, tokens, tickets, faults>>

\* A console logs in to GPCM with the token: it must decode (see tokens) and name a
\* profile, which a token of SVCLOC or of a login without gsbrcd does not name.  Refusals change nothing.
GpcmLogin(k) ==
  /\ \E p \in profiles : p.id = k.profile
  /\ tickets' = tickets \cup {[profile |-> k.profile, by |-> k.by]}
  /\ UNCHANGED <<users, profiles, lastId, thread, tokens, faults>>

\* Ten minutes pass, and Unmarshal refuses the tokens.
Expire ==
  /\ tokens # {}
  /\ tokens' = {}
  /\ UNCHANGED <<users, profiles, lastId, thread, tickets, faults>>

\* The process stops, wherever its goroutines are, and another one starts with new keys.
Restart ==
  /\ faults < MaxFaults
  /\ faults' = faults + 1
  /\ thread' = [t \in Goroutines |-> Blank]
  /\ tokens' = {}
  /\ UNCHANGED <<users, profiles, lastId, tickets>>

Query(t) ==
  \/ GetUser(t) \/ IsUserIDInUse(t) \/ IsMACInUse(t) \/ IsSerialInUse(t) \/ InsertUser(t)
  \/ GetUserAgain(t) \/ GetProfileID(t) \/ CreateProfile(t) \/ Check(t) \/ QueryFails(t)

AccountsNext ==
  \/ \E t \in Goroutines : Query(t) \/ \E r \in Requests : Begin(t, r)
  \/ \E u \in users : Ban(u)
  \/ \E k \in tokens : GpcmLogin(k)
  \/ Expire \/ Restart

AccountsSpec == AccountsInit /\ [][AccountsNext]_accountVars

-----------------------------------------------------------------------------

\* Every request is well formed as a record, every row has what its console sent, profiles belong to users.
AccountsTypeOK ==
  /\ \A r \in Requests : DOMAIN r = Fields
  /\ users \subseteq {[Row(r) EXCEPT !.banned = b] : r \in Requests, b \in BOOLEAN}
  /\ \A p \in profiles : p.id \in 1..lastId /\ Holder(p.wfcid) # {}
  /\ \A t \in Goroutines : thread[t].at \in Queries /\ thread[t].profile \in 0..lastId
  /\ lastId \in 0..MaxProfiles /\ faults \in 0..MaxFaults

\* Whoever holds a token or is logged in to GPCM has shown the unit code and the secret of the row of
\* that user, and the profile is the one of that user for that game, whatever other requests created,
\* banned or lost in between.
IdentityIsProven ==
  /\ \A k \in tokens : \E u \in Holder(k.wfcid) :
       u.id = k.by.userid /\ u.unitcd = k.by.unitcd /\ u.secret = k.by.secret
  /\ \A k \in tickets : \E p \in profiles :
       p.id = k.profile /\ p.wfcid = k.by.userid /\ p.gsbrcd = k.by.gsbrcd

\* A console is always led to the same profile: two requests that find none do not both create one.
OneProfile ==
  \A j, k \in tickets : j.by.userid = k.by.userid /\ j.by.gsbrcd = k.by.gsbrcd => j.profile = k.profile

\* A console that is told its account was created (002) owns the row, even if another console asked for
\* the same user ID, address or serial number at the same time.
CreatedIsStored ==
  \A t \in Goroutines : thread[t].answer = "002" =>
    \E u \in users : u = [Row(thread[t].req) EXCEPT !.banned = u.banned]

\* Ghost: a login that has no reason of its own to be refused.
GoodLogin(r) ==
  /\ r.action = "LOGIN"
  /\ \A f \in {"macadr", "secret", "gsbrcd", "lang", "extra"} : r[f] # "bad"
  /\ r.unitcd = 1 \/ (r.unitcd = 0 /\ r.macadr = MacOf[r.userid])

\* Whatever failures, crashes and races came before, a good login of a console whose row is its own, or of
\* which nothing is taken, succeeds if it is alone and no query fails: half of an earlier attempt does not
\* lock a console out.
RetrySucceeds ==
  \A t \in Goroutines :
    Idle(t) /\ thread[t].alone /\ thread[t].fit /\ GoodLogin(thread[t].req) => thread[t].answer \in {"001", "040"}

\* What a console is told can be relied on: an account reported as created is stored (acAccountCreate), and
\* a login that may succeed does (acLogin).
AnswersHold == CreatedIsStored /\ RetrySucceeds
=============================================================================
