------------------------------ MODULE MCNatneg ------------------------------
(***************************************************************************)
(* Model checking of Natneg, twice: two consoles of any games that send    *)
(* anything at any time, through restarts of the backend (the constants of *)
(* the cfg), and three consoles of one game that have one packet at a time *)
(* under way.  A behaviour is one of either; both use the variables of     *)
(* Natneg.  Consoles are interchangeable.                                  *)
(***************************************************************************)
EXTENDS Natneg

CONSTANT g1

VARIABLE instance

T == INSTANCE Natneg WITH
       Consoles <- Clients, Games <- {g1}, Kinds <- {"init", "ack", "report"}, GamePorts <- {FALSE},
       Orderly <- Clients, Restarts <- FALSE, MaxPackets <- 1

MCInit ==
  \/ instance = "three" /\ T!Init
  \/ instance = "race" /\ Init

MCNext ==
  /\ UNCHANGED instance
  /\ \/ instance = "three" /\ T!Next
     \/ instance = "race" /\ Next

mcVars == <<instance, vars>>

MCSpec == MCInit /\ [][MCNext]_mcVars

-----------------------------------------------------------------------------
(* The pairing as the loops make it, one sender after the other.           *)

\* The destinations the inner loop takes for sender i, given the pairs made so far.
Destinations(ks, pairs, i) ==
  LET free == {j \in Clients : Free(ks, j)} \ Taken(pairs)
  IN  IF i \in free THEN {j \in free \ {i} : ks[j].result[i] = None} ELSE {}

\* The pairs the outer loop makes when it meets the waiting clients in this order.
LoopPairs(ks, order) ==
  FoldLeft(LAMBDA pairs, i : pairs \cup ({i} \X Destinations(ks, pairs, i)), {}, order)

\* Sessions in which each client is missing or waits, with any results noted.
WaitingSessions ==
  {[c \in Clients |-> IF c \in there THEN [NewClient(c, g1) EXCEPT !.addrs = {"negotiate", "server"}, !.result = results[c]]
                                     ELSE None] :
     there \in SUBSET Clients, results \in [Clients -> [Clients -> Results \cup {None}]]}

\* Pairings is what the loops compute, over every order of the map.
ASSUME PairingsOfLoops ==
  \A ks \in WaitingSessions :
    Pairings(ks) = {LoopPairs(ks, order) : order \in SetToSeqs({i \in Clients : Free(ks, i)})}

Symmetry == Permutations(Clients)

-----------------------------------------------------------------------------
\* A result of an orderly console is noted for the pair it is about (natneg/report.go): see RealResult.
ResultIsRealOfThree == [][instance = "three" => T!RealResult]_mcVars
=============================================================================
