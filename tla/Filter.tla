------------------------------- MODULE Filter -------------------------------
(***************************************************************************)
(* The filters of the server browser: the parser (filter/parse.go,         *)
(* parse_branches.go, treenode.go, tokens.go), the evaluation              *)
(* (filter/eval.go), and what a list request makes of them                 *)
(* (serverbrowser/filter.go, server.go).                                   *)
(*                                                                         *)
(* The parser is a state machine over a tree: each action reads one token  *)
(* (scanner.go cuts the text into them) and so every filter of up to       *)
(* MaxTokens tokens is a behaviour.  The evaluation is an operator, and a  *)
(* reference definition says what the filter means.                        *)
(*                                                                         *)
(* A token is [t, n, s]: a number n, a text or an identifier s, an         *)
(* operator s, a bracket, a word s with the bracket that follows it at     *)
(* once (a call), a comma.  Operators of a level that are evaluated alike  *)
(* are represented by one; LIKE is left out.                               *)
(***************************************************************************)
EXTENDS Integers, Sequences, FiniteSets

CONSTANTS
  Tokens,          \* the tokens consoles use
  BrowserServers,  \* the servers in qr2: [gamename, keys, reachable]
  QueryGames,      \* the games of the requests
  MaxTokens        \* bound on the length of a filter

VARIABLES
  read,        \* the tokens read so far
  tree,        \* the nodes: node 1 is the root
  curr,        \* the current node
  calls,       \* the functions whose arguments are being read, the innermost last
  phase        \* the branch that is next: "value" or "operator", or "panic"

filterVars == <<read, tree, curr, calls, phase>>

Operators == {"*", "+", "-", "=", "!=", "<", "and", "or"}

\* A number is decimal text that strconv parses; any other text is not.
Strings == ({"n"} \X Int) \cup ({"s"} \X STRING)

ASSUME FilterAssumption ==
  /\ \A tok \in Tokens :
       /\ tok \in [t : {"num", "id", "text", "op", "open", "close", "call", "comma"}, n : Int, s : STRING]
       /\ tok.t = "op" => tok.s \in Operators
  /\ \A v \in BrowserServers : \A key \in DOMAIN v.keys : v.keys[key] \in Strings
  /\ MaxTokens \in Nat

\* OperatorPrecedence.
Level(op) ==
  CASE op = "*" -> 5
    [] op \in {"+", "-"} -> 4
    [] op \in {"=", "!=", "<"} -> 3
    [] op = "and" -> 2
    [] op = "or" -> 1

Node(tok, parent) == [tok |-> tok, parent |-> parent, items |-> <<>>]

FilterInit ==
  /\ read = <<>>
  /\ tree = <<Node([t |-> "empty", n |-> 0, s |-> ""], 0)>>
  /\ curr = 1
  /\ calls = <<>>
  /\ phase = "value"

-----------------------------------------------------------------------------
(* Trees *)

New == Len(tree) + 1

\* Add: a new last child of node i.
Add(i, tok) == Append([tree EXCEPT ![i].items = Append(@, New)], Node(tok, i))

\* Mutant: the node keeps its old parent.
PushKept(i, tok) ==
  LET p == tree[i].parent
      replaced == [tree EXCEPT ![p].items = [j \in DOMAIN @ |-> IF @[j] = i THEN New ELSE @[j]]]
  IN Append(replaced, [tok |-> tok, parent |-> p, items |-> <<i>>])

\* Push: a new node takes the place of node i, which becomes its child.
Push(i, tok) ==
  LET p == tree[i].parent
      replaced == [tree EXCEPT ![p].items = [j \in DOMAIN @ |-> IF @[j] = i THEN New ELSE @[j]], ![i].parent = New]
  IN Append(replaced, [tok |-> tok, parent |-> p, items |-> <<i>>])

LastElement(i) == tree[i].items[Len(tree[i].items)]

IsOperator(i) == tree[i].tok.t = "op"

\* Node i and the nodes above it, up to the first one that is no operator.
Above(k) == IF IsOperator(k) THEN tree[k].parent ELSE k

Ancestors(i) ==
  LET up[j \in 0 .. Len(tree)] == IF j = 0 THEN i ELSE Above(up[j - 1])
  IN {up[j] : j \in 0 .. Len(tree)}

\* Mutant: the operator is placed over the current one, whatever is above.
HighestNear(i) == i

\* The highest operator that is reached from i by operators only.
Highest(i) == CHOOSE j \in Ancestors(i) : IsOperator(j) /\ ~IsOperator(tree[j].parent)

-----------------------------------------------------------------------------
(* The parser *)

Read(tok) == Len(read) < MaxTokens /\ read' = Append(read, tok)

\* Panics with a message: Parse recovers, and fails.
ParseFails == phase' = "panic" /\ UNCHANGED <<tree, curr, calls>>

\* branchExpressionValuePart, branchExpressionAfterWord.  The arguments of a call are the items of its node.
ValuePart(tok) ==
  /\ phase = "value" /\ Read(tok)
  /\ \/ /\ tok.t \in {"num", "id", "text"}
        /\ tree' = Add(curr, tok) /\ phase' = "operator" /\ UNCHANGED <<curr, calls>>
     \/ /\ tok.t \in {"open", "call"}
        /\ tree' = Add(curr, tok) /\ curr' = New /\ UNCHANGED phase
        /\ calls' = IF tok.t = "call" THEN Append(calls, New) ELSE calls
     \/ tok.t \in {"op", "close", "comma"} /\ ParseFails

\* parseOperator.  The same operator again takes one more operand; a stronger one takes the last operand;
\* a weaker one takes all that the operators above have; one of the same level takes the current node.
ParseOperator(tok) ==
  LET op == tok.s
      this == tree[curr].tok.s
  IN IF ~IsOperator(curr) \/ Level(op) > Level(this)
     THEN tree' = Push(LastElement(curr), tok) /\ curr' = New
     ELSE IF op = this
     THEN UNCHANGED <<tree, curr>>
     ELSE tree' = Push(IF Level(op) < Level(this) THEN Highest(curr) ELSE curr, tok) /\ curr' = New

\* parseCloseBracket looks for the bracket above; in a function, branchFunctionArguments ends there.
CloseBracket ==
  LET groups == {i \in Ancestors(curr) : tree[i].tok.t \in {"open", "call"}}
      group == CHOOSE i \in groups : TRUE
  IN IF groups = {} THEN ParseFails
     ELSE /\ curr' = tree[group].parent
          /\ calls' = IF tree[group].tok.t = "call" THEN SubSeq(calls, 1, Len(calls) - 1) ELSE calls
          /\ UNCHANGED <<tree, phase>>

\* branchFunctionArguments: the next argument, whatever brackets are open.  After a call, Rollback goes back to
\* the bracket that ended it: that ends every function, and the rest does not parse.
NextArgument ==
  IF calls = <<>> \/ tree[LastElement(curr)].tok.t = "call" THEN ParseFails
  ELSE curr' = calls[Len(calls)] /\ phase' = "value" /\ UNCHANGED <<tree, calls>>

\* branchExpressionOperatorPart.
OperatorPart(tok) ==
  /\ phase = "operator" /\ Read(tok)
  /\ \/ tok.t = "op" /\ ParseOperator(tok) /\ phase' = "value" /\ UNCHANGED calls
     \/ tok.t = "close" /\ CloseBracket
     \/ tok.t = "comma" /\ NextArgument
     \/ tok.t \notin {"op", "close", "comma"} /\ ParseFails

FilterNext == \E tok \in Tokens : ValuePart(tok) \/ OperatorPart(tok)

FilterSpec == FilterInit /\ [][FilterNext]_filterVars

\* The filter so far, as it is, parses: brackets may be open, but the arguments of a function must end.
Parses == phase # "panic" /\ calls = <<>>

-----------------------------------------------------------------------------
(* Evaluation *)

\* A string of the code is <<"n", i>>, the decimal form of i, or <<"s", text>>.  Failures: "error", a panic with
\* a message, which Eval returns, and "crash", any other, which Eval's recover panics on.
Number(i) == <<"n", i>>
Text(x) == <<"s", x>>
Error == <<"error", 0>>
Crash == <<"crash", 0>>
Fails(v) == v[1] \in {"error", "crash"}

\* Mutant: what is panicked with is wrapped in an error.
ToNumberWrapped(v) == IF v[1] = "n" THEN v ELSE Crash

\* getNumber: strconv's error is no string.
ToNumber(v) == IF v[1] = "s" THEN Crash ELSE v

Truth(b) == Number(IF b THEN 1 ELSE 0)

\* The first value that is at a place that decides, or fails; the default if there is none.
FirstOf(vs, deciding, then, default) ==
  LET at == {j \in DOMAIN vs : Fails(vs[j]) \/ j \in deciding}
      first == CHOOSE j \in at : \A l \in at : j <= l
  IN IF at = {} THEN default ELSE IF Fails(vs[first]) THEN vs[first] ELSE then

\* evalMath*: the operators for two numbers.
Math(op, a, b) ==
  CASE op = "<" -> Truth(a < b) [] op = "+" -> Number(a + b) [] op = "-" -> Number(a - b)

\* The operands from the left: the first that is no number fails.
MathOf(op, num) ==
  LET upTo[j \in DOMAIN num] ==
        IF j = 1 THEN num[1] ELSE IF Fails(upTo[j - 1]) THEN upTo[j - 1]
        ELSE IF Fails(num[j]) THEN num[j] ELSE Math(op, upTo[j - 1][2], num[j][2])
  IN upTo[Len(num)]

\* switchFunction.  "*" parses, and is not supported.
Apply(op, vs) ==
  LET no == {j \in DOMAIN vs : vs[j] = Number(0)}
      rest == SubSeq(vs, 2, Len(vs))
      same == {j \in DOMAIN rest : rest[j] = vs[1]}
  IN IF op = "*" THEN Error
     ELSE IF Len(vs) < 2 THEN Error
     ELSE IF op = "and" THEN FirstOf(vs, no, Truth(FALSE), Truth(TRUE))
     ELSE IF op = "or" THEN FirstOf(vs, DOMAIN vs \ no, Truth(TRUE), Truth(FALSE))
     ELSE IF op \in {"=", "!="} /\ Fails(vs[1]) THEN vs[1]
     ELSE IF op = "=" THEN FirstOf(rest, DOMAIN rest \ same, Truth(FALSE), Truth(TRUE))
     ELSE IF op = "!=" THEN FirstOf(rest, same, Truth(FALSE), Truth(TRUE))
     ELSE MathOf(op, [j \in DOMAIN vs |-> ToNumber(vs[j])])

\* Overrides for Mario Kart Wii: ratings match anything, and the region of a search is removed.
IsKey(tok, names) == tok.t = "id" /\ tok.s \in names

Ignored(op, toks, game) ==
  game = "mariokartwii" /\ Len(toks) = 2 /\ op \in {"<", "+", "-"} /\ IsKey(toks[1], {"ev", "eb"})

Unregional(v) == CASE v = Text("vs_1") -> Text("vs") [] v = Text("bt_1") -> Text("bt") [] OTHER -> v

Operands(op, toks, vs, game) ==
  IF game = "mariokartwii" /\ op = "=" /\ Len(toks) = 2 /\ IsKey(toks[1], {"rk"})
  THEN [j \in DOMAIN vs |-> Unregional(vs[j])] ELSE vs

\* getValue: a key that is missing is the empty string.
Value(keys, name) == IF name \in DOMAIN keys THEN keys[name] ELSE Text("")

\* getString and switchFunction on node i, when vs are the values of its items.  That of a group is the number of
\* its first item; if that is a call, switchFunction's assertion fails.
ValueOf(i, vs, keys, game) ==
  LET tok == tree[i].tok
      toks == [j \in DOMAIN vs |-> tree[tree[i].items[j]].tok]
  IN CASE tok.t = "num" -> Number(tok.n)
       [] tok.t = "text" -> Text(tok.s)
       [] tok.t = "id" -> Value(keys, tok.s)
       [] tok.t = "op" -> IF Ignored(tok.s, toks, game) THEN Truth(TRUE)
                          ELSE Apply(tok.s, Operands(tok.s, toks, vs, game))
       [] tok.t = "call" -> Error
       [] OTHER -> IF vs = <<>> THEN Error ELSE IF toks[1].t = "call" THEN Crash ELSE ToNumber(vs[1])

Eval(keys, game) ==
  LET getString[i \in DOMAIN tree] ==
        LET items == tree[i].items IN ValueOf(i, [j \in DOMAIN items |-> getString[items[j]]], keys, game)
  IN getString[1]

\* filterServers: one server of the game that cannot be evaluated empties the list.
FilterServers(game) ==
  LET ours == {v \in BrowserServers : v.gamename = game}
  IN IF \E v \in ours : Fails(Eval(v.keys, game)) THEN {}
     ELSE {v \in ours : Eval(v.keys, game) # Number(0)}

\* A server whose addresses or ports are missing or do not parse is skipped.
Listed(v) == v.reachable

\* handleServerListRequest, for a request with a filter and no option to leave the list out.
ServerList(game) ==
  IF ~Parses \/ read = <<>> THEN {} ELSE {v \in FilterServers(game) : Listed(v)}

-----------------------------------------------------------------------------
(* What a filter means *)

\* How many brackets token n is in: a bracket is not in itself.
Depth(n) == Cardinality({j \in 1 .. n - 1 : read[j].t = "open"}) - Cardinality({j \in 1 .. n : read[j].t = "close"})

\* The operators between lo and hi that are in no bracket there.
Outer(lo, hi) == {n \in lo .. hi : read[n].t = "op" /\ \A l \in lo .. hi : Depth(n) <= Depth(l)}

\* The filter is complete: values where they are expected, and brackets closed.
WellFormed == phase = "operator" /\ Depth(Len(read)) = 0

\* The value of the tokens lo to hi by the levels of the operators, from the left.
Meaning(keys, game) ==
  LET meaning[lo, hi \in DOMAIN read] ==
        LET ops == Outer(lo, hi)
            weakest == {n \in ops : \A l \in ops : Level(read[n].s) <= Level(read[l].s)}
            n == CHOOSE m \in weakest : \A l \in weakest : l <= m
            toks == <<IF n - 1 = lo THEN read[lo] ELSE [t |-> "open", n |-> 0, s |-> ""], read[n]>>
        IN IF ops # {}
           THEN IF Ignored(read[n].s, toks, game) THEN Truth(TRUE)
                ELSE Apply(read[n].s, Operands(read[n].s, toks, <<meaning[lo, n - 1], meaning[n + 1, hi]>>, game))
           ELSE CASE read[lo].t = "open" -> ToNumber(meaning[lo + 1, hi - 1])
                  [] read[lo].t = "num" -> Number(read[lo].n)
                  [] read[lo].t = "text" -> Text(read[lo].s)
                  [] OTHER -> Value(keys, read[lo].s)
  IN meaning[1, Len(read)]

\* Operators n and m are in the same bracket.
Together(n, m) == Depth(n) = Depth(m) /\ \A l \in n .. m : Depth(l) >= Depth(n)

\* The filters of the DWC library (serverbrowser/filter.go:10-16), and more: no calls, no rating is added to; in
\* each bracket, an operator that is weaker than the one before it is not stronger than any before that, and
\* comparisons are not chained.
Ordinary ==
  LET ops == {n \in DOMAIN read : read[n].t = "op"}
      level(n) == Level(read[n].s)
      next(n, m) == n < m /\ Together(n, m) /\ \A l \in ops : n < l /\ l < m => ~Together(n, l)
  IN /\ \A n \in DOMAIN read : read[n].t # "call"
     /\ \A n \in ops : level(n) = 4 => ~IsKey(read[n - 1], {"ev", "eb"})
     /\ \A n, m \in ops : next(n, m) =>
          /\ level(m) < level(n) => \A l \in ops : l < n /\ Together(l, n) => level(m) <= level(l)
          /\ ~(level(n) = 3 /\ level(m) = 3)

-----------------------------------------------------------------------------

\* The nodes form a tree: each but the root is an item of its parent, once, and of no other node.
TreeOK ==
  /\ phase \in {"value", "operator", "panic"} /\ curr \in DOMAIN tree
  /\ \A i \in DOMAIN tree : \A j \in DOMAIN tree[i].items : tree[tree[i].items[j]].parent = i
  /\ \A i \in 2 .. Len(tree) :
       Cardinality({j \in DOMAIN tree[tree[i].parent].items : tree[tree[i].parent].items[j] = i}) = 1

\* The list holds the servers of the game that match and can be reached, and no others: for every filter as
\* the library sends them, wherever its brackets are, and with the overrides for ratings and regions, if no server
\* of the game fails to evaluate.
ListIsExact ==
  WellFormed /\ Ordinary =>
    \A game \in QueryGames :
      LET ours == {v \in BrowserServers : v.gamename = game}
          means(v) == ToNumber(Meaning(v.keys, game))
      IN (\A v \in ours : ~Fails(means(v))) =>
           ServerList(game) = {v \in ours : v.reachable /\ means(v) # Number(0)}

\* Node i is a bracket, or the filter itself, and a call is all it holds.
OnlyCalls(i) == tree[i].tok.t \notin {"op", "call"} /\ tree[i].items # <<>> /\ tree[tree[i].items[1]].tok.t = "call"

\* No filter, complete or not, takes the process down if it compares no texts, no bracket and not the filter itself
\* is just a call, and the servers have a number for every key: a panic with anything but a message would not stop
\* at Eval.  (Each of the three does take it down: filter/eval.go:57, 386-399.)
NumbersDoNotCrash ==
  \A v \in BrowserServers :
    (/\ Parses
     /\ \A i \in DOMAIN tree : ~OnlyCalls(i)
     /\ \A n \in DOMAIN read : read[n].t # "text" /\ (read[n].t = "id" => Value(v.keys, read[n].s)[1] = "n"))
    => Eval(v.keys, v.gamename) # Crash
=============================================================================
