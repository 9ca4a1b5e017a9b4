----------------------------- MODULE MCServices -----------------------------
(***************************************************************************)
(* The services that share no state with each other, each checked for      *)
(* itself: accounts, Sake, Gamestats, rankings, the cutting of streams     *)
(* into messages, and filters.  A behaviour is one of the component that   *)
(* is chosen at its start.                                                 *)
(***************************************************************************)
EXTENDS MCSake, Accounts, Gamestats, Rankings, Streams, Filter

VARIABLE component  \* the component that runs

-----------------------------------------------------------------------------
(* Values for the constants *)

Request(action, id, unit, mac, secret, code) ==
  [action |-> action, userid |-> id, unitcd |-> unit, macadr |-> mac, secret |-> secret, gsbrcd |-> code,
   lang |-> "ok", extra |-> "ok", profane |-> FALSE]

\* A DS and a Wii with the same address, and a second Wii that claims the user ID of the first.
MCRequests ==
  {Request("ACCTCREATE", "d", 0, "m1", "p1", "bad"), Request("SVCLOC", "w", 1, "m1", "s1", ""),
   Request("LOGIN", "w", 1, "m1", "s1", "g"), [Request("LOGIN", "w", 1, "m2", "s2", "g") EXCEPT !.profane = TRUE]}

ServicesSymmetry ==
  Permutations(Threads) \cup Permutations(Goroutines) \cup Permutations(Profiles) \cup Permutations(RecordIDs)

MCMacOf == [u \in {"d", "w"} |-> "m1"]

MCRegions == {{1}, {2}}

\* Every mode; a limit that leaves no room for other players.
MCQuestions ==
  {[pid |-> 11, mode |-> m, desc |-> m # "near", region |-> {1}, limit |-> 2] :
     m \in {"order", "top", "near", "nearHigh", "nearLow", "friends"}}
  \cup {[pid |-> 11, mode |-> "near", desc |-> TRUE, region |-> {1, 2}, limit |-> n] : n \in 0 .. 1}

\* Three messages: shorter and longer than a piece, as long as the buffer, and longer; one that panics.
MCMessages ==
  LET one == {[len |-> n, kind |-> "plain"] : n \in {2, 3, 6, 7}} \cup {[len |-> 4, kind |-> "panics"]}
      at(from, m) == [from |-> from, len |-> m.len, kind |-> m.kind]
  IN {<<>>} \cup {<<at(0, a), at(a.len, b), at(a.len + b.len, c)>> : a \in one, b \in one, c \in one}

\* Three sets of tokens, each for filters of its own: an operator of each level; the keys with an override for
\* Mario Kart Wii; and calls.
Tok(t, s) == [t |-> t, n |-> IF t = "num" THEN 1 ELSE 0, s |-> s]

Brackets == {Tok("open", ""), Tok("close", "")}

Alphabets ==
  [levels    |-> Brackets \cup {Tok("num", ""), Tok("id", "x")} \cup {Tok("op", op) : op \in {"+", "=", "and", "or"}},
   overrides |-> Brackets \cup {Tok("num", ""), Tok("id", "rk"), Tok("id", "ev"), Tok("text", "vs_1")}
                 \cup {Tok("op", op) : op \in {"=", "<", "and"}},
   calls     |-> Brackets \cup {Tok("num", ""), Tok("call", "x"), Tok("comma", ""), Tok("op", "or")}]

MCTokens == UNION {Alphabets[a] : a \in DOMAIN Alphabets}

\* Bound on the length of a filter over an alphabet.
MaxAnyTokens == 7

\* Filters of the form that the DWC library sends: conditions, and more of them in brackets.
LibraryFilters ==
  LET condition(name, op, value) == <<Tok("id", name), Tok("op", op), value>>
      conditions == {condition("x", "=", Tok("num", "")), condition("rk", "=", Tok("text", "vs_1")),
                     condition("ev", "<", Tok("num", ""))}
      conjunction(a, b) == a \o <<Tok("op", "and")>> \o b
  IN {conjunction(conjunction(a, b), <<Tok("open", "")>> \o conjunction(c, d) \o <<Tok("close", "")>>) :
        a \in conditions, b \in conditions, c \in conditions, d \in conditions}

\* The next token continues a filter of the library, or one over the alphabet that is chosen.
Continues ==
  \/ component \in DOMAIN Alphabets /\ read' \in Seq(Alphabets[component]) /\ Len(read') <= MaxAnyTokens
  \/ component = "library" /\ \E f \in LibraryFilters : read' = SubSeq(f, 1, Len(read'))

\* Servers of two games: values on both sides of 1, one that cannot be reached, and two without x.
MCBrowserServers ==
  LET keys(x, rk, ev) == [x |-> <<"n", x>>, rk |-> <<"s", rk>>, ev |-> <<"n", ev>>]
      other(rk, ev) == [rk |-> <<"s", rk>>, ev |-> <<"n", ev>>]
  IN {[gamename |-> "g", keys |-> keys(x, "vs", x), reachable |-> x # 2] : x \in 0 .. 2}
     \cup {[gamename |-> "mariokartwii", keys |-> k, reachable |-> TRUE] : k \in {other("vs", 0), other("bt_1", 1)}}

-----------------------------------------------------------------------------

servicesVars == <<component, sakeVars, accountVars, gsVars, rankVars, streamVars, filterVars>>

\* A component that does not run has one initial state.
Init ==
  /\ component \in {"accounts", "sake", "gamestats", "rankings", "streams", "library"} \cup DOMAIN Alphabets
  /\ SakeInit /\ AccountsInit /\ StatsInit /\ RankInit /\ StreamsInit /\ FilterInit
  /\ component # "streams" => server = "gpcm" /\ messages = <<>>

Next ==
  /\ UNCHANGED component
  /\ \/ /\ component = "accounts" /\ AccountsNext
        /\ UNCHANGED <<sakeVars, gsVars, rankVars, streamVars, filterVars>>
     \/ /\ component = "sake" /\ SakeNext
        /\ UNCHANGED <<accountVars, gsVars, rankVars, streamVars, filterVars>>
     \/ /\ component = "gamestats" /\ StatsNext
        /\ UNCHANGED <<sakeVars, accountVars, rankVars, streamVars, filterVars>>
     \/ /\ component = "rankings" /\ RankNext
        /\ UNCHANGED <<sakeVars, accountVars, gsVars, streamVars, filterVars>>
     \/ /\ component = "streams" /\ StreamsNext
        /\ UNCHANGED <<sakeVars, accountVars, gsVars, rankVars, filterVars>>
     \/ /\ component \in {"library"} \cup DOMAIN Alphabets /\ FilterNext /\ Continues
        /\ UNCHANGED <<sakeVars, accountVars, gsVars, rankVars, streamVars>>

Spec == Init /\ [][Next]_servicesVars

-----------------------------------------------------------------------------
(* Properties.  Most are those of the components. *)

\* The state of each component is well formed: the keys of the tables hold, every record can be decoded, a session
\* that came through a reload has a game, buffers keep to their bounds, and the parser's nodes form a tree.
ServicesTypeOK ==
  /\ SakeTypeOK
  /\ AccountsTypeOK
  /\ StatsTypeOK
  /\ RankTypeOK
  /\ StreamsTypeOK
  /\ TreeOK

\* Data changes only while its owner has a session (gamestats/persistdata.go, setPersistData), and a score only with a
\* token for it (gamestats/dwc.go, dwcRankPut): see Gamestats and Rankings.
OwnerWrites == [][OwnerWrote /\ PutWithToken]_servicesVars
=============================================================================
