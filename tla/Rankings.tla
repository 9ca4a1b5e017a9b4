----------------------------- MODULE Rankings -----------------------------
(***************************************************************************)
(* The rankings of the DWC library (gamestats/web.go, dwc.go, dwc_crypt.go) *)
(* over table dwc_rankings (database/dwc_rankings.go, schema.sql), for one *)
(* game and category: every query names both.                              *)
(*                                                                         *)
(* A console asks for a token and then sends its request with a hash of    *)
(* it; the token is computed from a salt of the process.  A get makes up   *)
(* to four queries, and puts of others come between them.  The region of  *)
(* a row or of a question is a set of bits; the time since when scores     *)
(* count selects rows the same way, and is left out.                       *)
(***************************************************************************)
EXTENDS Naturals, Integers, FiniteSets

CONSTANTS
  Pids,      \* profiles
  Regions,   \* sets of bits
  Scores,    \* scores
  Questions, \* the gets of the consoles: [pid, mode, desc, region, limit]
  MaxSalts   \* bound on the processes

VARIABLES
  rankings,  \* table dwc_rankings: [pid, region, score]
  salt,      \* webSalt, drawn by each process
  given,     \* the tokens that were given out last
  reading,   \* the get under way: the query it is about to make, and what it has read
  answer     \* what the last get answered

rankVars == <<rankings, salt, given, reading, answer>>

Endpoints == {"get", "put"}

\* makeDwcToken: what the hash is taken of.
RankToken(endpoint, pid) == [salt |-> salt, endpoint |-> endpoint, pid |-> pid]

NoQuestion == [at |-> "idle"]

\* alone is a ghost: nobody has put anything while the get was under way.
NoAnswer == [done |-> FALSE]

RankInit ==
  /\ rankings = {} /\ salt = 1 /\ given = {}
  /\ reading = NoQuestion /\ answer = NoAnswer

-----------------------------------------------------------------------------

\* handleDwc without a hash.
GiveToken(endpoint, pid) ==
  /\ given' = {RankToken(endpoint, pid)}
  /\ UNCHANGED <<rankings, salt, reading, answer>>

\* handleDwc with one: the hash must be that of a token for this endpoint and pid, in this process, and
\* the encrypted part must name the same pid.
Accepted(token, endpoint, pid, dataPid) == token = RankToken(endpoint, pid) /\ dataPid = pid

\* dwcRankPut: REPLACE, for the key of pid and region.
RankPut(token, pid, dataPid, region, score) ==
  /\ Accepted(token, "put", pid, dataPid)
  /\ rankings' = {r \in rankings : ~(r.pid = pid /\ r.region = region)}
                 \cup {[pid |-> pid, region |-> region, score |-> score]}
  /\ reading' = IF reading.at = "idle" THEN reading ELSE [reading EXCEPT !.alone = FALSE]
  /\ UNCHANGED <<salt, given, answer>>

Matches(r, q) == r.region \cap q.region # {}

\* dwcRankGet reads and checks the header.
RankGet(token, q) ==
  /\ reading.at = "idle"
  /\ Accepted(token, "get", q.pid, q.pid)
  /\ q.mode # "order" => q.limit \in 1 .. 30
  /\ reading' = [at |-> IF q.mode \in {"order", "top"} THEN "count" ELSE "own", q |-> q,
                 own |-> [pid |-> 0], order |-> 0, total |-> 0, alone |-> TRUE]
  /\ answer' = NoAnswer
  /\ UNCHANGED <<rankings, salt, given>>

\* A query that fails or finds nothing ends the get with an empty response.
GiveUp == reading' = NoQuestion /\ answer' = NoAnswer

Better(score, q) == {r \in rankings : Matches(r, q) /\ IF q.desc THEN r.score > score ELSE r.score < score}

\* The first query of GetDwcRanking: a row of the player, any one if there are several.
GetDwcRanking ==
  /\ reading.at \in {"own", "order"}
  /\ LET mine == {r \in rankings : r.pid = reading.q.pid /\ Matches(r, reading.q)}
     IN IF mine = {} THEN GiveUp
        ELSE /\ \E r \in mine : reading' = [reading EXCEPT !.own = r, !.at = IF @ = "own" THEN "rank" ELSE "last"]
             /\ UNCHANGED answer
  /\ UNCHANGED <<rankings, salt, given>>

RankAnswer(own, others) ==
  [done |-> TRUE, q |-> reading.q, own |-> own, order |-> reading.order, total |-> reading.total,
   others |-> others, alone |-> reading.alone]

\* The second: its rank, which is the answer if that was the question.
GetDwcRankingOrder ==
  /\ reading.at \in {"rank", "last"}
  /\ LET order == Cardinality(Better(reading.own.score, reading.q)) + 1
     IN IF reading.at = "rank"
        THEN reading' = [reading EXCEPT !.order = order, !.at = "count"] /\ UNCHANGED answer
        ELSE reading' = NoQuestion /\ answer' = [RankAnswer(reading.own, {}) EXCEPT !.order = order]
  /\ UNCHANGED <<rankings, salt, given>>

\* Mutant: the player is among the others.
SelectedWithOwn(q, own) ==
  {r \in rankings : /\ Matches(r, q)
                    /\ q.mode = "nearHigh" => r.score >= own.score
                    /\ q.mode = "nearLow" => r.score <= own.score}

\* The rows the query of GetDwcRankings selects.
Selected(q, own) ==
  {r \in rankings : /\ Matches(r, q)
                    /\ q.mode \notin {"order", "top"} => r.pid # q.pid
                    /\ q.mode = "nearHigh" => r.score >= own.score
                    /\ q.mode = "nearLow" => r.score <= own.score}

\* The total.  The list of friends is never read, and the query for none of them is not valid SQL.
Count ==
  /\ reading.at = "count"
  /\ IF reading.q.mode = "friends" THEN GiveUp
     ELSE /\ reading' = [reading EXCEPT !.total = Cardinality(Selected(reading.q, reading.own)),
                                        !.at = IF reading.q.mode = "order" THEN "order" ELSE "rows"]
          /\ UNCHANGED answer
  /\ UNCHANGED <<rankings, salt, given>>

Distance(a, b) == IF a < b THEN b - a ELSE a - b

\* ORDER BY: a comes before b.
Before(a, b, q, own) ==
  LET x == IF q.mode = "near" THEN Distance(own.score, a.score) ELSE a.score
      y == IF q.mode = "near" THEN Distance(own.score, b.score) ELSE b.score
  IN IF q.desc THEN x > y ELSE x < y

\* LIMIT: the player's own row has taken one place.
Limit(q) == IF q.mode = "top" THEN q.limit ELSE q.limit - 1

\* The rows, and the answer.
Rows ==
  /\ reading.at = "rows"
  /\ LET q == reading.q
         all == Selected(q, reading.own)
         n == IF Cardinality(all) < Limit(q) THEN Cardinality(all) ELSE Limit(q)
     IN \E rs \in {s \in SUBSET all : Cardinality(s) = n} :
          /\ \A a \in all \ rs, b \in rs : ~Before(a, b, q, reading.own)
          /\ answer' = RankAnswer(reading.own, rs)
  /\ reading' = NoQuestion
  /\ UNCHANGED <<rankings, salt, given>>

\* A new process: the get is lost, and the tokens are void.
RankRestart ==
  /\ salt < MaxSalts
  /\ salt' = salt + 1
  /\ reading' = NoQuestion /\ answer' = NoAnswer
  /\ UNCHANGED <<rankings, given>>

RankNext ==
  \/ \E e \in Endpoints, p \in Pids : GiveToken(e, p)
  \/ \E t \in given, p, d \in Pids, r \in Regions, s \in Scores : RankPut(t, p, d, r, s)
  \/ \E t \in given, q \in Questions : RankGet(t, q)
  \/ GetDwcRanking \/ GetDwcRankingOrder \/ Count \/ Rows \/ RankRestart

RankSpec == RankInit /\ [][RankNext]_rankVars

-----------------------------------------------------------------------------

\* One score for each player and region, as the key of the table has it; tokens are of this or an earlier process.
RankTypeOK ==
  /\ \A r \in rankings : r.pid \in Pids /\ r.region \in Regions /\ r.score \in Scores
  /\ \A r, s \in rankings : r.pid = s.pid /\ r.region = s.region => r = s
  /\ salt \in 1 .. MaxSalts /\ \A t \in given : t.salt \in 1 .. salt

\* A player's score changes only with a token that this process gave for this player, to put.
PutWithToken ==
  \A r \in rankings' : r \notin rankings => [salt |-> salt, endpoint |-> "put", pid |-> r.pid] \in given

\* "near and friends return the user's own score at the top" (database/dwc_rankings.go:69): and nowhere else,
\* although the scores may change between the queries; and no more rows than asked for.
OwnFirst ==
  answer.done /\ answer.q.mode \notin {"order", "top"} =>
    /\ answer.own.pid = answer.q.pid
    /\ \A r \in answer.others : r.pid # answer.q.pid
    /\ 1 + Cardinality(answer.others) <= answer.q.limit

\* A rank is one of the total, and the total covers the rows, if nobody has put a score between the queries.
\* (If somebody has, a player may be told to be second of one.)
RankWithinTotal ==
  answer.done /\ answer.alone =>
    /\ answer.q.mode = "order" => answer.order <= answer.total
    /\ Cardinality(answer.others) <= answer.total

\* What a get answers fits together, although scores change between its queries (GetDwcRankings).
RankingIsConsistent == OwnFirst /\ RankWithinTotal
=============================================================================
