------------------------------- MODULE MCSake -------------------------------
(***************************************************************************)
(* The tables of Sake for TLC.  "friendinfo" is not in TableDefinitions,   *)
(* and to the database the same name as "FriendInfo".                      *)
(***************************************************************************)
EXTENDS Sake, TLC

Definition(fields) ==
  [reserved |-> FALSE, create |-> "allowed", read |-> "allowed", update |-> "allowed", ownedByProfile |-> TRUE,
   rateable |-> FALSE, defaults |-> {}, hardened |-> FALSE, fields |-> fields, private |-> {}]

\* Three of sake/tables.go: personal data, a field to sort by, and a reserved table; and one that only its owners
\* may read, which PublicPermRead provides for and no table uses.
MCTables ==
  [FriendInfo  |-> [Definition([info |-> "BinaryData"]) EXCEPT !.private = {"info"}],
   RecordTable |-> [Definition([Score |-> "Int"]) EXCEPT !.rateable = TRUE],
   GhostData   |-> [Definition([fileid |-> "Int"]) EXCEPT !.hardened = TRUE, !.reserved = TRUE],
   Unread      |-> [Definition([Score |-> "Int"]) EXCEPT !.read = "denied", !.hardened = TRUE]]

MCTableIDs == DOMAIN MCTables \cup {"friendinfo"}

MCFolded == [name \in MCTableIDs |-> IF name = "FriendInfo" THEN "friendinfo" ELSE name]

\* A Mii with a score, and a lower score.  (Under "friendinfo" a record is stored without fields.)
MCInputs ==
  {[info  |-> [type |-> "BinaryData", form |-> "mii", value |-> 0], Score |-> [type |-> "Int", form |-> "plain", value |-> 2]],
   [Score |-> [type |-> "Int", form |-> "plain", value |-> 1]]}

Symmetry == Permutations(Threads)
=============================================================================
