---------------------------- MODULE ServicesProofs ----------------------------
(***************************************************************************)
(* Proofs about the gamestats server and the rankings, for any             *)
(* connections, profiles, games, scores and questions: the data of a       *)
(* profile is written by its owner and read as what it is, and what a get  *)
(* of the rankings answers fits together. At the end, the services as they *)
(* are checked together.                                                   *)
(***************************************************************************)
EXTENDS MCServices, DatabaseProofs, ParsingProofs

-----------------------------------------------------------------------------
(* Gamestats *)

\* ProfileIDs have positive numbers; zero is a session without a profile.
StatsConstants == ProfileIDs \subseteq Nat \ {0} /\ MaxReloads \in Nat

\* While the backend is loaded, the sessions that are done have games.
LoadedIsKnown ==
  backend = "loading" => \A c \in loaded \cap DOMAIN sessions : sessions[c].game \in Games

\* A session that has a profile was shown a token of it.
ProfileWasShown ==
  \A c \in DOMAIN sessions : sessions[c].profile # 0 => sessions[c].profile \in sessions[c].shown

\* What is stored under a key names the profile of the key.
StoredIsOfProfile == \A k \in DOMAIN persist : persist[k][2] = k[1]

StatsInv == StatsTypeOK /\ LoadedIsKnown /\ ProfileWasShown /\ StoredIsOfProfile

\* The steps that change one session.
LEMMA SessionChanges ==
  ASSUME StatsInv, NEW c \in DOMAIN sessions, NEW s \in Sessions, backend = "up",
         sessions' = [sessions EXCEPT ![c] = s],
         s.old = sessions[c].old, s.game \in Games \/ s.game = sessions[c].game,
         s.profile # 0 => s.profile \in s.shown,
         UNCHANGED <<open, backend, loaded, rpcMutex, persist, reloads>>
  PROVE  StatsInv'
  BY DEF StatsInv, StatsTypeOK, ReloadedIsKnown, LoadedIsKnown, ProfileWasShown, StoredIsOfProfile

LEMMA AuthProfileStep ==
  ASSUME StatsConstants, StatsInv, NEW c, NEW pid \in ProfileIDs \cup {0}, AuthProfile(c, pid)
  PROVE  StatsInv'
  <1>1. c \in DOMAIN sessions /\ backend = "up" /\ sessions[c] \in Sessions
        /\ UNCHANGED <<open, backend, loaded, rpcMutex, persist, reloads>>
    BY DEF AuthProfile, Handles, StatsInv, StatsTypeOK
  <1> DEFINE x == [sessions[c] EXCEPT !.shown = @ \cup ({pid} \cap ProfileIDs)]
             y == [x EXCEPT !.profile = pid, !.authenticated = TRUE]
             z == [x EXCEPT !.profile = 0]
  <1>2. x \in Sessions /\ x.shown = sessions[c].shown \cup ({pid} \cap ProfileIDs)
        /\ x.old = sessions[c].old /\ x.game = sessions[c].game
    BY <1>1 DEF Sessions
  <1>3. \/ pid \in ProfileIDs /\ sessions' = [sessions EXCEPT ![c] = y]
        \/ sessions' = [sessions EXCEPT ![c] = z]
    BY <1>1 DEF AuthProfile
  <1> HIDE DEF x
  <1>4. CASE pid \in ProfileIDs /\ sessions' = [sessions EXCEPT ![c] = y]
    <2>1. y \in Sessions /\ y.old = x.old /\ y.game = x.game /\ y.profile = pid /\ y.shown = x.shown
      BY <1>2, <1>4 DEF Sessions
    <2> HIDE DEF y
    <2> QED
      BY <1>1, <1>2, <1>4, <2>1, SessionChanges
  <1>5. CASE sessions' = [sessions EXCEPT ![c] = z]
    <2>1. z \in Sessions /\ z.old = x.old /\ z.game = x.game /\ z.profile = 0 /\ z.shown = x.shown
      BY <1>2 DEF Sessions
    <2> HIDE DEF z
    <2> QED
      BY <1>1, <1>2, <1>5, <2>1, SessionChanges
  <1> QED
    BY <1>3, <1>4, <1>5

LEMMA AuthStep ==
  ASSUME StatsInv, NEW c, NEW game, NEW proven, Auth(c, game, proven)
  PROVE  StatsInv'
  <1>1. c \in DOMAIN sessions /\ backend = "up" /\ sessions[c] \in Sessions
    BY DEF Auth, Handles, StatsInv, StatsTypeOK
  <1>2. CASE game \in Games /\ proven
    <2> DEFINE s == [sessions[c] EXCEPT !.game = game]
    <2>1. s \in Sessions /\ s.old = sessions[c].old /\ s.game = game
          /\ s.profile = sessions[c].profile /\ s.shown = sessions[c].shown
      BY <1>1, <1>2 DEF Sessions
    <2>2. sessions' = [sessions EXCEPT ![c] = s] /\ UNCHANGED <<open, backend, loaded, rpcMutex, persist, reloads>>
      BY <1>1, <1>2 DEF Auth
    <2> HIDE DEF s
    <2> QED
      BY <1>1, <1>2, <2>1, <2>2, SessionChanges DEF StatsInv, ProfileWasShown
  <1>3. CASE ~(game \in Games /\ proven)
    BY <1>3 DEF Auth, ReplyError, StatsInv, StatsTypeOK, ReloadedIsKnown, LoadedIsKnown, ProfileWasShown,
                StoredIsOfProfile
  <1> QED
    BY <1>2, <1>3

\* A write stores the request under the key of the request.
LEMMA SetPersistDataStep ==
  ASSUME StatsInv, NEW c, NEW req \in PersistRequests, SetPersistData(c, req)
  PROVE  StatsInv'
  <1>1. CASE ~sessions[c].authenticated
    BY <1>1 DEF SetPersistData, ReplyError, StatsInv, StatsTypeOK, ReloadedIsKnown, LoadedIsKnown,
                ProfileWasShown, StoredIsOfProfile
  <1>2. CASE sessions[c].authenticated
    <2>1. /\ persist' = With(persist, Key(req), Raw(req)) /\ req.pid \in ProfileIDs
          /\ UNCHANGED <<sessions, open, backend, loaded, rpcMutex, reloads>>
      BY <1>2 DEF SetPersistData, SetGameStatsPersistData
    <2>2. Key(req) \in ProfileIDs \X DataTypes \X Indexes /\ Key(req)[1] = req.pid /\ Raw(req)[2] = req.pid
      BY <2>1 DEF Key, Raw, PersistRequests
    <2>3. DOMAIN persist' = DOMAIN persist \cup {Key(req)}
          /\ \A k \in DOMAIN persist' : persist'[k] = IF k = Key(req) THEN Raw(req) ELSE persist[k]
      BY <2>1 DEF With
    <2>4. StoredIsOfProfile'
      BY <2>2, <2>3 DEF StatsInv, StoredIsOfProfile
    <2>5. StatsTypeOK'
      BY <2>1, <2>2, <2>3 DEF StatsInv, StatsTypeOK, ReloadedIsKnown
    <2> QED
      BY <2>1, <2>4, <2>5 DEF StatsInv, LoadedIsKnown, ProfileWasShown
  <1> QED
    BY <1>1, <1>2

LEMMA ConnectionStep ==
  ASSUME StatsInv, NEW c \in Conns, NewConnection(c) \/ Disconnect(c) \/ CloseConnection(c)
  PROVE  StatsInv'
  <1> USE DEF StatsInv, StatsTypeOK, ReloadedIsKnown, LoadedIsKnown, ProfileWasShown, StoredIsOfProfile
  <1>1. CASE NewConnection(c)
    <2>1. NewSession \in Sessions /\ ~NewSession.old /\ NewSession.profile = 0
      BY DEF NewSession, Sessions
    <2> QED
      BY <1>1, <2>1 DEF NewConnection, With
  <1>2. CASE Disconnect(c)
    BY <1>2 DEF Disconnect
  <1>3. CASE CloseConnection(c)
    BY <1>3 DEF CloseConnection, Without
  <1> QED
    BY <1>1, <1>2, <1>3

LEMMA ExchangeStep ==
  ASSUME StatsConstants, StatsInv, Shutdown \/ Ready \/ \E c \in Conns : LoadSession(c)
  PROVE  StatsInv'
  <1> USE DEF StatsInv, StatsTypeOK, ReloadedIsKnown, LoadedIsKnown, ProfileWasShown, StoredIsOfProfile
  <1>1. CASE Shutdown
    <2>1. ASSUME NEW c \in DOMAIN sessions
          PROVE  LET s == [sessions[c] EXCEPT !.old = TRUE]
                 IN s \in Sessions /\ s.profile = sessions[c].profile /\ s.shown = sessions[c].shown
      BY DEF Sessions
    <2>2. DOMAIN sessions' = DOMAIN sessions
          /\ \A c \in DOMAIN sessions : sessions'[c] = [sessions[c] EXCEPT !.old = TRUE]
      BY <1>1 DEF Shutdown
    <2>3. reloads' \in 0 .. MaxReloads
      BY <1>1 DEF Shutdown, StatsConstants
    <2> QED
      BY <1>1, <2>1, <2>2, <2>3 DEF Shutdown
  <1>2. CASE Ready
    BY <1>2 DEF Ready
  <1>3. ASSUME NEW c \in Conns, LoadSession(c)
        PROVE  StatsInv'
    BY <1>3 DEF LoadSession
  <1> QED
    BY <1>1, <1>2, <1>3

LEMMA StatsStep ==
  ASSUME StatsConstants, StatsInv, [StatsNext]_gsVars
  PROVE  StatsInv'
  <1>1. CASE UNCHANGED gsVars
    BY <1>1 DEF gsVars, StatsInv, StatsTypeOK, ReloadedIsKnown, LoadedIsKnown, ProfileWasShown, StoredIsOfProfile
  <1> QED
    BY <1>1, ConnectionStep, AuthStep, AuthProfileStep, SetPersistDataStep, ExchangeStep DEF StatsNext

LEMMA StatsInvariant == ASSUME StatsConstants PROVE StatsSpec => []StatsInv
  <1>1. StatsInit => StatsInv
    BY DEF StatsConstants, StatsInit, StatsInv, StatsTypeOK, ReloadedIsKnown, LoadedIsKnown, ProfileWasShown,
           StoredIsOfProfile
  <1> QED
    BY <1>1, StatsStep, PTL DEF StatsSpec

\* Sessions, sockets and stored data are well formed, rpcMutex is held just while the backend is exchanged, and
\* "to prevent a panic later" (gamestats/main.go:96): a session that came through a reload has a game.
THEOREM StatsType == ASSUME StatsConstants PROVE StatsSpec => []StatsTypeOK
  <1>1. StatsInv => StatsTypeOK
    BY DEF StatsInv
  <1> QED
    BY <1>1, StatsInvariant, PTL

\* What getpd answers for a profile was set for that profile (gamestats/persistdata.go), although the type
\* and the index are exchanged on the way to the query.
THEOREM DataIsOwn == ASSUME StatsConstants PROVE StatsSpec => []DataIsOfProfile
  <1>1. StatsInv => DataIsOfProfile
    BY DEF StatsInv, StoredIsOfProfile, DataIsOfProfile, GetPersistData, GetGameStatsPersistData, PersistRequests
  <1> QED
    BY <1>1, StatsInvariant, PTL

\* The data of a profile changes only while there is a session of this profile that has shown a token of it
\* (setPersistData of gamestats/persistdata.go).
THEOREM OwnerHasWritten == ASSUME StatsConstants PROVE StatsSpec => [][OwnerWrote]_gsVars
  <1>1. ASSUME StatsInv, StatsNext PROVE OwnerWrote
    <2>1. CASE UNCHANGED persist
      BY <2>1 DEF OwnerWrote
    <2>2. ASSUME NEW c \in Conns, NEW req \in PersistRequests, SetPersistData(c, req), persist' # persist
          PROVE  OwnerWrote
      <3>1. /\ persist' = With(persist, Key(req), Raw(req)) /\ req.pid \in ProfileIDs
            /\ c \in DOMAIN sessions /\ req.pid = sessions[c].profile
        BY <2>2 DEF SetPersistData, SetGameStatsPersistData, Handles
      <3>2. req.pid \in sessions[c].shown
        BY <1>1, <3>1 DEF StatsInv, ProfileWasShown, StatsConstants
      <3>3. ASSUME NEW k \in DOMAIN persist', k \notin DOMAIN persist \/ persist'[k] # persist[k]
            PROVE  k[1] = req.pid
        BY <3>1, <3>3 DEF With, Key
      <3> QED
        BY <3>1, <3>2, <3>3 DEF OwnerWrote
    <2>3. (UNCHANGED persist) \/ \E c \in Conns, req \in PersistRequests : SetPersistData(c, req)
      BY <1>1 DEF StatsNext, NewConnection, Disconnect, CloseConnection, LoadSession, Auth, AuthProfile,
                  Shutdown, Ready
    <2> QED
      BY <2>1, <2>2, <2>3
  <1>2. StatsInv /\ [StatsNext]_gsVars => [OwnerWrote]_gsVars
    BY <1>1
  <1> QED
    BY <1>2, StatsInvariant, PTL DEF StatsSpec

-----------------------------------------------------------------------------
(* Rankings *)

RankConstants == Scores \subseteq Int /\ MaxSalts \in Nat \ {0}

RankRow == [pid : Pids, region : Regions, score : Scores]

\* A get under way.
Reading == [at : {"own", "rank", "count", "order", "last", "rows"}, q : Questions,
            own : RankRow \cup {[pid |-> 0]}, order : Nat, total : Nat, alone : BOOLEAN]

RankTyped ==
  /\ IsFiniteSet(rankings) /\ rankings \subseteq RankRow
  /\ reading = NoQuestion \/ reading \in Reading

\* What the get has made sure of, whatever others have put since: its own row is the player's, and one of the
\* places is for it.
Sure ==
  LET q == reading.q
  IN /\ reading.at \in {"own", "rank"} => q.mode \notin {"order", "top"}
     /\ reading.at \in {"order", "last"} => q.mode = "order"
     /\ reading.at = "rows" => q.mode # "order"
     /\ q.mode # "order" => q.limit \in 1 .. 30
     /\ q.mode \notin {"order", "top"} /\ reading.at # "own" => reading.own.pid = q.pid
     /\ reading.at \in {"rank", "last"} => reading.own \in RankRow

\* What is still so if nobody has put anything since: the total, and the player's row.
StillSo ==
  reading.alone =>
    /\ reading.at \in {"order", "last", "rows"} => reading.total = Cardinality(Selected(reading.q, reading.own))
    /\ reading.at = "last" => reading.own \in rankings /\ Matches(reading.own, reading.q)

ReadingOK == reading.at # "idle" => Sure /\ StillSo

RankInv == RankTypeOK /\ RankTyped /\ ReadingOK /\ RankingIsConsistent

\* A selection of finitely many rows.
LEMMA SelectedFinite ==
  ASSUME NEW S, IsFiniteSet(S), NEW T \in SUBSET S
  PROVE  IsFiniteSet(T) /\ Cardinality(T) \in Nat /\ Cardinality(S) \in Nat /\ Cardinality(T) <= Cardinality(S)
  BY FS_Subset, FS_CardinalityType

\* The better ones do not include the row itself.
LEMMA RankIsOfTotal ==
  ASSUME NEW S, IsFiniteSet(S), NEW T, NEW r \in S, T \subseteq S, r \notin T
  PROVE  Cardinality(T) + 1 <= Cardinality(S) /\ Cardinality(T) + 1 \in Nat
  <1>1. T \in SUBSET (S \ {r})
    OBVIOUS
  <1>2. IsFiniteSet(S \ {r}) /\ Cardinality(S \ {r}) = Cardinality(S) - 1 /\ Cardinality(S) \in Nat
    BY FS_RemoveElement, FS_CardinalityType
  <1>3. Cardinality(T) \in Nat /\ Cardinality(T) <= Cardinality(S \ {r})
    BY <1>1, <1>2, SelectedFinite
  <1> QED
    BY <1>2, <1>3

\* The steps of a get leave the table and the tokens alone.
LEMMA GetKeepsTable ==
  ASSUME RankInv, UNCHANGED <<rankings, salt, given>>
  PROVE  RankTypeOK' /\ IsFiniteSet(rankings') /\ rankings' \subseteq RankRow
  BY DEF RankInv, RankTypeOK, RankTyped

LEMMA NoAnswerIsConsistent ==
  ASSUME answer' = NoAnswer
  PROVE  RankingIsConsistent'
  BY DEF NoAnswer, RankingIsConsistent, OwnFirst, RankWithinTotal

LEMMA SameAnswerIsConsistent ==
  ASSUME RankInv, UNCHANGED answer
  PROVE  RankingIsConsistent'
  BY DEF RankInv, RankingIsConsistent, OwnFirst, RankWithinTotal

LEMMA NoQuestionIsOK ==
  ASSUME reading' = NoQuestion
  PROVE  ReadingOK'
  BY DEF NoQuestion, ReadingOK

LEMMA RankGetStep ==
  ASSUME RankInv, NEW token, NEW q \in Questions, RankGet(token, q)
  PROVE  RankInv'
  <1>1. UNCHANGED <<rankings, salt, given>> /\ answer' = NoAnswer
    BY DEF RankGet
  <1>2. RankTypeOK' /\ IsFiniteSet(rankings') /\ rankings' \subseteq RankRow /\ RankingIsConsistent'
    BY <1>1, GetKeepsTable, NoAnswerIsConsistent
  <1>3. reading' \in Reading /\ reading'.at \in {"count", "own"} /\ reading'.q = q
        /\ (reading'.at = "own" <=> q.mode \notin {"order", "top"})
        /\ (q.mode # "order" => q.limit \in 1 .. 30)
    BY DEF RankGet, Reading
  <1>4. ReadingOK'
    BY <1>3 DEF ReadingOK, Sure, StillSo
  <1> QED
    BY <1>2, <1>3, <1>4 DEF RankInv, RankTyped

LEMMA RankPutStep ==
  ASSUME RankInv, NEW token, NEW p \in Pids, NEW d, NEW region \in Regions, NEW score \in Scores,
         RankPut(token, p, d, region, score)
  PROVE  RankInv'
  <1> DEFINE new == [pid |-> p, region |-> region, score |-> score]
             old == {r \in rankings : ~(r.pid = p /\ r.region = region)}
  <1>1. rankings' = old \cup {new} /\ UNCHANGED <<salt, given, answer>>
    BY DEF RankPut
  <1>2. new \in RankRow /\ new.pid = p /\ new.region = region /\ new.score = score
    BY DEF RankRow
  <1>3. IsFiniteSet(rankings')
    <2>1. old \in SUBSET rankings
      OBVIOUS
    <2>2. IsFiniteSet(old)
      BY <2>1, SelectedFinite DEF RankInv, RankTyped
    <2> HIDE DEF old, new
    <2> QED
      BY <1>1, <2>2, FS_AddElement
  <1> HIDE DEF new
  <1>4. RankTypeOK'
    BY <1>1, <1>2 DEF RankInv, RankTypeOK
  <1>5. rankings' \subseteq RankRow
    BY <1>1, <1>2 DEF RankInv, RankTyped
  <1>6. CASE reading.at = "idle"
    <2>1. reading' = reading
      BY <1>6 DEF RankPut
    <2> QED
      BY <1>1, <1>3, <1>4, <1>5, <1>6, <2>1, SameAnswerIsConsistent DEF RankInv, RankTyped, ReadingOK
  <1>7. CASE reading.at # "idle"
    <2>1. reading' = [reading EXCEPT !.alone = FALSE] /\ reading \in Reading
      BY <1>7 DEF RankPut, RankInv, RankTyped, NoQuestion
    <2>2. reading' \in Reading /\ ~reading'.alone /\ reading'.at = reading.at /\ reading'.q = reading.q
          /\ reading'.own = reading.own
      BY <2>1 DEF Reading
    <2>3. ReadingOK'
      BY <1>7, <2>2 DEF RankInv, ReadingOK, Sure, StillSo
    <2> QED
      BY <1>1, <1>3, <1>4, <1>5, <2>2, <2>3, SameAnswerIsConsistent DEF RankInv, RankTyped
  <1> QED
    BY <1>6, <1>7

LEMMA GiveUpStep ==
  ASSUME RankInv, GiveUp, UNCHANGED <<rankings, salt, given>>
  PROVE  RankInv'
  <1>1. reading' = NoQuestion /\ answer' = NoAnswer
    BY DEF GiveUp
  <1> QED
    BY <1>1, GetKeepsTable, NoAnswerIsConsistent, NoQuestionIsOK DEF RankInv, RankTyped

\* The player's row is read: for the mode "order", which selects all rows, after the total.
LEMMA GetDwcRankingStep ==
  ASSUME RankInv, GetDwcRanking
  PROVE  RankInv'
  <1> DEFINE mine == {r \in rankings : r.pid = reading.q.pid /\ Matches(r, reading.q)}
  <1>1. UNCHANGED <<rankings, salt, given>>
    BY DEF GetDwcRanking
  <1>2. CASE mine = {}
    BY <1>1, <1>2, GiveUpStep DEF GetDwcRanking
  <1>3. CASE mine # {}
    <2>1. reading \in Reading /\ reading.at \in {"own", "order"}
      <3>1. reading.at \in {"own", "order"}
        BY DEF GetDwcRanking
      <3> QED
        BY <3>1 DEF RankInv, RankTyped, NoQuestion
    <2>2. PICK r \in mine : reading' = [reading EXCEPT !.own = r, !.at = IF @ = "own" THEN "rank" ELSE "last"]
      BY <1>3 DEF GetDwcRanking
    <2>3. UNCHANGED answer
      BY <1>3 DEF GetDwcRanking
    <2>4. r \in RankRow /\ r \in rankings /\ r.pid = reading.q.pid /\ Matches(r, reading.q)
      BY DEF RankInv, RankTyped
    <2>5. /\ reading' \in Reading /\ reading'.q = reading.q /\ reading'.own = r
          /\ reading'.total = reading.total /\ reading'.alone = reading.alone
          /\ reading'.at = IF reading.at = "own" THEN "rank" ELSE "last"
      BY <2>1, <2>2, <2>4 DEF Reading
    <2>6. Sure /\ StillSo
      BY <2>1 DEF RankInv, ReadingOK
    <2>7. Sure'
      BY <2>1, <2>4, <2>5, <2>6 DEF Sure
    <2>8. StillSo'
      <3> SUFFICES ASSUME reading.alone, reading.at = "order" PROVE StillSo'
        BY <2>1, <2>5 DEF StillSo
      <3>1. reading.total = Cardinality(Selected(reading.q, reading.own)) /\ reading.q.mode = "order"
        BY <2>6 DEF Sure, StillSo
      <3>2. Selected(reading.q, r) = Selected(reading.q, reading.own)
        BY <3>1 DEF Selected
      <3>3. Selected(reading.q, reading.own)' = Selected(reading.q, r)
        BY <1>1, <2>5 DEF Selected, Matches
      <3>4. (reading.own \in rankings /\ Matches(reading.own, reading.q))'
        BY <1>1, <2>4, <2>5 DEF Matches
      <3> QED
        BY <2>5, <3>1, <3>2, <3>3, <3>4 DEF StillSo
    <2> QED
      BY <1>1, <2>3, <2>5, <2>7, <2>8, GetKeepsTable, SameAnswerIsConsistent DEF RankInv, RankTyped, ReadingOK
  <1> QED
    BY <1>2, <1>3

\* The rank: one more than there are better ones, of which the player's row is none.
LEMMA GetDwcRankingOrderStep ==
  ASSUME RankConstants, RankInv, GetDwcRankingOrder
  PROVE  RankInv'
  <1> DEFINE better == Better(reading.own.score, reading.q)
             order == Cardinality(better) + 1
  <1>1. UNCHANGED <<rankings, salt, given>>
    BY DEF GetDwcRankingOrder
  <1>2. reading \in Reading /\ reading.at \in {"rank", "last"} /\ Sure /\ StillSo
    BY DEF GetDwcRankingOrder, RankInv, RankTyped, NoQuestion, ReadingOK
  <1>3. better \in SUBSET rankings /\ IsFiniteSet(rankings)
    BY DEF Better, RankInv, RankTyped
  <1>4. order \in Nat
    <2> HIDE DEF better
    <2> QED
      BY <1>3, SelectedFinite
  <1>5. CASE reading.at = "rank"
    <2>1. reading' = [reading EXCEPT !.order = order, !.at = "count"] /\ UNCHANGED answer
      BY <1>5 DEF GetDwcRankingOrder
    <2> HIDE DEF order
    <2>2. reading' \in Reading /\ reading'.q = reading.q /\ reading'.own = reading.own /\ reading'.at = "count"
      BY <1>2, <1>4, <2>1 DEF Reading
    <2>3. ReadingOK'
      BY <1>2, <1>5, <2>2 DEF ReadingOK, Sure, StillSo
    <2> QED
      BY <1>1, <2>1, <2>2, <2>3, GetKeepsTable, SameAnswerIsConsistent DEF RankInv, RankTyped
  <1>6. CASE reading.at = "last"
    <2>1. reading' = NoQuestion /\ answer' = [RankAnswer(reading.own, {}) EXCEPT !.order = order]
      <3>1. reading.at # "rank"
        BY <1>6
      <3> QED
        BY <3>1 DEF GetDwcRankingOrder
    <2>2. reading.alone => order <= reading.total
      <3> SUFFICES ASSUME reading.alone PROVE order <= reading.total
        OBVIOUS
      <3> DEFINE all == Selected(reading.q, reading.own)
      <3>1. reading.total = Cardinality(all) /\ reading.own \in rankings /\ Matches(reading.own, reading.q)
            /\ reading.q.mode = "order"
        BY <1>2, <1>6 DEF Sure, StillSo
      <3>2. reading.own \in all /\ better \subseteq all /\ all \in SUBSET rankings
        BY <3>1 DEF Selected, Better
      <3>3. reading.own \notin better
        <4>1. reading.own.score \in Int
          BY <3>1 DEF RankInv, RankTyped, RankRow, RankConstants
        <4> QED
          BY <4>1 DEF Better
      <3>4. IsFiniteSet(all)
        <4> HIDE DEF all
        <4> QED
          BY <1>3, <3>2, SelectedFinite
      <3> HIDE DEF all, better
      <3> QED
        BY <3>1, <3>2, <3>3, <3>4, RankIsOfTotal
    <2> HIDE DEF order
    <2>3. /\ answer'.q = reading.q /\ answer'.others = {} /\ answer'.order = order
          /\ answer'.total = reading.total /\ answer'.alone = reading.alone
      BY <2>1 DEF RankAnswer
    <2>4. reading.total \in Nat /\ reading.q.mode = "order"
      BY <1>2, <1>6 DEF Reading, Sure
    <2>5. RankingIsConsistent'
      <3>1. OwnFirst'
        BY <2>3, <2>4 DEF OwnFirst
      <3>2. RankWithinTotal'
        BY <2>2, <2>3, <2>4, FS_EmptySet DEF RankWithinTotal
      <3> QED
        BY <3>1, <3>2 DEF RankingIsConsistent
    <2> QED
      BY <1>1, <2>1, <2>5, GetKeepsTable, NoQuestionIsOK DEF RankInv, RankTyped
  <1> QED
    BY <1>2, <1>5, <1>6

LEMMA CountStep ==
  ASSUME RankInv, Count
  PROVE  RankInv'
  <1> DEFINE total == Cardinality(Selected(reading.q, reading.own))
             at == IF reading.q.mode = "order" THEN "order" ELSE "rows"
  <1>1. UNCHANGED <<rankings, salt, given>>
    BY DEF Count
  <1>2. CASE reading.q.mode = "friends"
    BY <1>1, <1>2, GiveUpStep DEF Count
  <1>3. CASE reading.q.mode # "friends"
    <2>1. reading' = [reading EXCEPT !.total = total, !.at = at] /\ UNCHANGED answer
      BY <1>3 DEF Count
    <2>2. reading \in Reading /\ reading.at = "count" /\ Sure
      BY DEF Count, RankInv, RankTyped, NoQuestion, ReadingOK
    <2>3. Selected(reading.q, reading.own) \in SUBSET rankings /\ IsFiniteSet(rankings)
      BY DEF Selected, RankInv, RankTyped
    <2>4. total \in Nat
      BY <2>3, SelectedFinite
    <2>5. /\ reading' \in Reading /\ reading'.q = reading.q /\ reading'.own = reading.own
          /\ reading'.total = total /\ reading'.at = at
      <3> HIDE DEF total
      <3> QED
        BY <2>1, <2>2, <2>4 DEF Reading
    <2>6. Selected(reading.q, reading.own)' = Selected(reading.q, reading.own)
      BY <1>1, <2>5 DEF Selected, Matches
    <2>7. ReadingOK'
      BY <2>2, <2>5, <2>6 DEF ReadingOK, Sure, StillSo
    <2> QED
      BY <1>1, <2>1, <2>5, <2>7, GetKeepsTable, SameAnswerIsConsistent DEF RankInv, RankTyped
  <1> QED
    BY <1>2, <1>3

\* No more rows than the limit leaves beside the player's own, and none of the player.
LEMMA RowsStep ==
  ASSUME RankInv, Rows
  PROVE  RankInv'
  <1> DEFINE q == reading.q
             all == Selected(q, reading.own)
             n == IF Cardinality(all) < Limit(q) THEN Cardinality(all) ELSE Limit(q)
  <1>1. UNCHANGED <<rankings, salt, given>> /\ reading' = NoQuestion
    BY DEF Rows
  <1>2. reading \in Reading /\ reading.at = "rows" /\ Sure /\ StillSo
    BY DEF Rows, RankInv, RankTyped, NoQuestion, ReadingOK
  <1>3. PICK rs \in SUBSET all : Cardinality(rs) = n /\ answer' = RankAnswer(reading.own, rs)
    BY DEF Rows
  <1>4. /\ answer'.q = q /\ answer'.others = rs /\ answer'.own = reading.own
        /\ answer'.total = reading.total /\ answer'.alone = reading.alone
    BY <1>3 DEF RankAnswer
  <1>5. all \in SUBSET rankings /\ IsFiniteSet(rankings)
    BY DEF Selected, RankInv, RankTyped
  <1>6. Cardinality(all) \in Nat /\ Cardinality(rs) \in Nat /\ Cardinality(rs) <= Cardinality(all)
    <2> HIDE DEF all
    <2> QED
      BY <1>5, SelectedFinite
  <1>7. q.mode # "order" /\ q.limit \in 1 .. 30 /\ (q.mode # "top" => reading.own.pid = q.pid)
        /\ (reading.alone => reading.total = Cardinality(all))
    BY <1>2 DEF Sure, StillSo
  <1>8. ASSUME q.mode # "top"
        PROVE  1 + Cardinality(rs) <= q.limit /\ \A r \in rs : r.pid # q.pid
    <2>1. Limit(q) = q.limit - 1
      BY <1>8 DEF Limit
    <2>2. Cardinality(rs) <= Limit(q)
      <3> HIDE DEF all
      <3> QED
        BY <1>3, <1>6, <1>7, <2>1
    <2>3. \A r \in rs : r.pid # q.pid
      BY <1>7, <1>8 DEF Selected
    <2> QED
      BY <1>6, <1>7, <2>1, <2>2, <2>3
  <1>9. RankingIsConsistent'
    <2> HIDE DEF all, q
    <2> QED
      <3>1. OwnFirst'
        BY <1>4, <1>7, <1>8 DEF OwnFirst
      <3>2. RankWithinTotal'
        BY <1>4, <1>6, <1>7 DEF RankWithinTotal
      <3> QED
        BY <3>1, <3>2 DEF RankingIsConsistent
  <1> QED
    BY <1>1, <1>9, GetKeepsTable, NoQuestionIsOK DEF RankInv, RankTyped

LEMMA RankStep ==
  ASSUME RankConstants, RankInv, [RankNext]_rankVars
  PROVE  RankInv'
  <1>1. CASE UNCHANGED <<rankings, reading, answer>> /\ RankTypeOK'
    BY <1>1, SameAnswerIsConsistent DEF RankInv, RankTyped, ReadingOK, Sure, StillSo, Selected, Matches
  <1>2. CASE UNCHANGED rankVars
    BY <1>1, <1>2 DEF rankVars, RankInv, RankTypeOK
  <1>3. ASSUME NEW e \in Endpoints, NEW p \in Pids, GiveToken(e, p)
        PROVE  RankInv'
    BY <1>1, <1>3 DEF GiveToken, RankToken, RankInv, RankTypeOK, RankConstants
  <1>4. CASE RankRestart
    <2>1. RankTypeOK' /\ RankTyped'
      BY <1>4 DEF RankRestart, RankInv, RankTypeOK, RankTyped, RankConstants
    <2> QED
      BY <1>4, <2>1, NoAnswerIsConsistent, NoQuestionIsOK DEF RankRestart, RankInv
  <1> QED
    BY <1>2, <1>3, <1>4, RankPutStep, RankGetStep, GetDwcRankingStep, GetDwcRankingOrderStep, CountStep, RowsStep
       DEF RankNext

LEMMA RankInvariant == ASSUME RankConstants PROVE RankSpec => []RankInv
  <1>1. RankInit => RankInv
    BY FS_EmptySet DEF RankConstants, RankInit, RankInv, RankTypeOK, RankTyped, ReadingOK, RankingIsConsistent,
                       OwnFirst, RankWithinTotal, NoAnswer, NoQuestion
  <1> QED
    BY <1>1, RankStep, PTL DEF RankSpec

\* One score for each player and region (schema.sql), tokens of this or an earlier process.
THEOREM RankType == ASSUME RankConstants PROVE RankSpec => []RankTypeOK
  <1>1. RankInv => RankTypeOK
    BY DEF RankInv
  <1> QED
    BY <1>1, RankInvariant, PTL

\* The player's own score is at the top and nowhere else, there are no more rows than asked for, and a rank is one
\* of the total if nobody put a score between the queries (GetDwcRankings of database/dwc_rankings.go).
THEOREM RankingsAreConsistent == ASSUME RankConstants PROVE RankSpec => []RankingIsConsistent
  <1>1. RankInv => RankingIsConsistent
    BY DEF RankInv
  <1> QED
    BY <1>1, RankInvariant, PTL

\* A score changes only with a token that this process gave for this player, to put (dwcRankPut of gamestats/dwc.go).
THEOREM PutsHaveTokens == RankSpec => [][PutWithToken]_rankVars
  <1>1. ASSUME RankNext PROVE PutWithToken
    <2>1. CASE UNCHANGED rankings
      BY <2>1 DEF PutWithToken
    <2>2. ASSUME NEW t \in given, NEW p, NEW d, NEW r, NEW s, RankPut(t, p, d, r, s)
          PROVE  PutWithToken
      BY <2>2 DEF RankPut, Accepted, RankToken, PutWithToken
    <2> QED
      BY <1>1, <2>1, <2>2 DEF RankNext, GiveToken, RankGet, GetDwcRanking, GetDwcRankingOrder, Count,
                              Rows, RankRestart
  <1>2. [RankNext]_rankVars => [PutWithToken]_rankVars
    BY <1>1
  <1> QED
    BY <1>2, PTL DEF RankSpec

-----------------------------------------------------------------------------
(* The services that are checked together: each one's part of a behaviour is a behaviour of it. *)

LEMMA StepIsOfOne ==
  ASSUME [Next]_servicesVars
  PROVE  /\ [AccountsNext]_accountVars /\ [SakeNext]_sakeVars /\ [StatsNext]_gsVars
         /\ [RankNext]_rankVars /\ [StreamsNext]_streamVars /\ [FilterNext]_filterVars
  BY DEF Next, servicesVars

LEMMA PartsAreServices ==
  Spec => AccountsSpec /\ SakeSpec /\ StatsSpec /\ RankSpec /\ StreamsSpec /\ FilterSpec
  <1>1. Init => AccountsInit /\ SakeInit /\ StatsInit /\ RankInit /\ StreamsInit /\ FilterInit
    BY DEF Init
  <1> QED
    BY <1>1, StepIsOfOne, PTL DEF Spec, AccountsSpec, SakeSpec, StatsSpec, RankSpec, StreamsSpec, FilterSpec

\* The state of every service stays well formed, whichever runs: ServicesTypeOK.
THEOREM ServicesType == ASSUME Formed, StatsConstants, RankConstants PROVE Spec => []ServicesTypeOK
  <1>1. AccountsTypeOK /\ SakeTypeOK /\ StatsTypeOK /\ RankTypeOK /\ StreamsTypeOK /\ TreeOK => ServicesTypeOK
    BY DEF ServicesTypeOK
  <1> QED
    BY <1>1, PartsAreServices, AccountsType, RowsAreTyped, StatsType, RankType, StreamsType, FilterIsTree, PTL

\* The data of a profile changes only while its owner has a session (gamestats/persistdata.go, setPersistData), and a
\* score only with a token for it (gamestats/dwc.go, dwcRankPut): OwnerWrites.
THEOREM OwnersHaveWritten == ASSUME StatsConstants PROVE Spec => OwnerWrites
  <1>1. UNCHANGED gsVars => OwnerWrote
    BY DEF gsVars, OwnerWrote
  <1>2. UNCHANGED rankVars => PutWithToken
    BY DEF rankVars, PutWithToken
  <1>3. [OwnerWrote]_gsVars /\ [PutWithToken]_rankVars => [OwnerWrote /\ PutWithToken]_servicesVars
    BY <1>1, <1>2
  <1> QED
    BY <1>3, PartsAreServices, OwnerHasWritten, PutsHaveTokens, PTL DEF OwnerWrites
=============================================================================
