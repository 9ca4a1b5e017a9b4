-------------------------------- MODULE Sake --------------------------------
(***************************************************************************)
(* The storage of Sake (sake/storage.go, sake/tables.go) over the table    *)
(* sake_records (database/sake.go, schema.sql): records that belong to     *)
(* profiles, in tables whose definitions say who may do what.              *)
(*                                                                         *)
(* createRecord counts the records of the profile in one query and inserts *)
(* in another; requests interleave between the two.  updateRecord is one   *)
(* statement.  getMyRecords and searchForRecords change nothing: they are  *)
(* the operators GetMyRecords and SearchForRecords, whose value is the set *)
(* of answers the code may give, and the properties quantify over every    *)
(* question in every state.                                                *)
(*                                                                         *)
(* The fields of a record are JSON text.  An object is a function from     *)
(* names to fields; the text is a sequence of objects, since the update    *)
(* concatenates, and it is valid if there is one.  A handler that panics   *)
(* ends its request without an answer: net/http recovers.                  *)
(***************************************************************************)
EXTENDS Integers, FiniteSets, Sequences

CONSTANTS
  Profiles,     \* profiles that hold login tickets (Accounts)
  Threads,      \* goroutines of the HTTP server
  TableIDs,     \* names of tables, defined or not
  Folded,       \* the names as the database compares them, without regard to case
  Tables,       \* TableDefinitions: a function from some of them to definitions
  Inputs,       \* the values a console sends: functions from names to [type, form, value], see Forms
  RecordIDs,    \* the random numbers records get
  MaxSakeRecordsPerProfile,
  MaxSakeFieldsPerRecord

ASSUME SakeAssumption ==
  /\ IsFiniteSet(Threads)
  /\ MaxSakeRecordsPerProfile \in Nat \ {0}
  /\ DOMAIN Tables \subseteq TableIDs
  /\ \A t \in DOMAIN Tables : Tables[t].defaults \subseteq DOMAIN Tables[t].fields

VARIABLES
  records,   \* table sake_records: [table, id, owner, fields]
  inserting  \* the requests between the count and the insertion: [thread, owner, table, fields]

sakeVars == <<records, inserting>>

SakeInit == records = {} /\ inserting = {}

-----------------------------------------------------------------------------
\* Definitions of tables.

\* The values of a field as far as the code tells them apart: a number or a text, a Mii with a valid checksum
\* and its personal data, one without them, a value longer than the limit, one that is none of its type.
Forms == {"plain", "mii", "clearedMii", "long", "bad"}

\* Values are compared as numbers.
ASSUME InputsAssumption == \A in \in Inputs : \A n \in DOMAIN in : in[n].form \in Forms /\ in[n].value \in Int

\* The table of friend infos has a filter for the Mii.
ASSUME FriendInfoAssumption == "FriendInfo" \in DOMAIN Tables /\ "info" \in Tables["FriendInfo"].private

\* GetTable looks for the name as the console spells it, in the query the collation of
\* table_id decides: the records of a table are found by other spellings, to which no
\* definition applies.
Defined(t) == t \in DOMAIN Tables

SameTable(t, u) == Folded[t] = Folded[u]

Reserved(t) == Defined(t) /\ Tables[t].reserved

AllowsPublicCreate(t) ==
  Defined(t) => Tables[t].create \in {"allowed"} \cup (IF Tables[t].ownedByProfile THEN {"default"} ELSE {})

AllowsPublicRead(t) == Defined(t) => Tables[t].read \in {"allowed", "default"}

AllowsOwnerUpdate(t) == Defined(t) => Tables[t].update \in {"allowed", "default"}

\* Added to the records of a table that can be rated.
RatingFields == {"average_rating", "num_ratings"}

\* Fields a new record of a defined table has before the console's own are added.
GetDefaultFields(t) ==
  LET type(n) == IF n = "num_ratings" THEN "Int"
                 ELSE IF n = "average_rating" THEN "Float"
                 ELSE Tables[t].fields[n]
  IN [n \in (IF Tables[t].rateable THEN RatingFields ELSE {}) \cup Tables[t].defaults |->
        [type |-> type(n), form |-> "plain", value |-> 0]]

\* One field of the console.
CheckValidField(t, name, f) ==
  LET known == IF Defined(t) THEN Tables[t].fields ELSE <<>>
  IN IF DOMAIN known # {} /\ name \notin DOMAIN known /\ Tables[t].hardened THEN "FieldNotFound"
     ELSE IF name \in DOMAIN known /\ known[name] # f.type THEN "FieldTypeInvalid"
     ELSE IF f.form = "long" THEN "FieldTypeInvalid"
     ELSE IF name \in {"average_rating", "my_rating", "num_ratings", "sum_ratings"} THEN "FieldNotFound"
     ELSE IF f.form = "bad" THEN "FieldTypeInvalid"
     ELSE "Success"

CheckField(t, name, f) ==
  IF f.type = "unknown" THEN "FieldTypeInvalid"
  ELSE IF name \in {"ownerid", "recordid", "gameid", "tableid"} THEN "NoPermission"
  ELSE CheckValidField(t, name, f)

\* The results for the fields a console sends: that of the first one refused, in whichever order they come.
\* A new record of an undefined table starts from a nil map: the first field written to it panics.
GetInputFields(t, in, useDefault) ==
  LET refused == {n \in DOMAIN in : CheckField(t, n, in[n]) # "Success"}
      panics == useDefault /\ ~Defined(t) /\ DOMAIN in # {}
  IN IF Cardinality(DOMAIN in) > MaxSakeFieldsPerRecord THEN {"FieldTypeInvalid"}
     ELSE {CheckField(t, n, in[n]) : n \in refused}
          \cup (IF panics /\ refused # DOMAIN in THEN {"panic"} ELSE {})
          \cup (IF refused = {} /\ ~panics THEN {"Success"} ELSE {})

-----------------------------------------------------------------------------
\* The database.

Owned(p) == {r \in records : r.owner = p}

\* The CHECKs of sake_records: JSON, and no more than 64 keys.
Storable(fields) == Len(fields) = 1 /\ Cardinality(DOMAIN fields[1]) <= 64

\* JSON can be read back if it is one object.
Decodes(r) == Len(r.fields) = 1

\* SQL's UPDATE appends the new object to the text of the old one, for the owner's record only.
Updated(r, p, in) == IF r.owner = p THEN [r EXCEPT !.fields = Append(@, in)] ELSE r

-----------------------------------------------------------------------------
\* Handlers that write.

Waiting(t) == \E i \in inserting : i.thread = t

\* Mutant: the limit is compared with the wrong operator.
CreateRecordOneMore(t, p, table, in) ==
  /\ ~Waiting(t)
  /\ Cardinality(Owned(p)) <= MaxSakeRecordsPerProfile
  /\ ~Reserved(table) /\ AllowsPublicCreate(table)
  /\ "Success" \in GetInputFields(table, in, TRUE)
  /\ inserting' = inserting \cup {[thread |-> t, owner |-> p, table |-> table, fields |-> <<in>>]}
  /\ UNCHANGED records

\* createRecord up to the insertion.  All other outcomes change nothing.
CreateRecord(t, p, table, in) ==
  /\ ~Waiting(t)
  /\ Cardinality(Owned(p)) < MaxSakeRecordsPerProfile
  /\ ~Reserved(table) /\ AllowsPublicCreate(table)
  /\ "Success" \in GetInputFields(table, in, TRUE)
  /\ LET defaults == IF Defined(table) THEN GetDefaultFields(table) ELSE <<>>
         all == [n \in DOMAIN in \cup DOMAIN defaults |-> IF n \in DOMAIN in THEN in[n] ELSE defaults[n]]
     IN inserting' = inserting \cup {[thread |-> t, owner |-> p, table |-> table, fields |-> <<all>>]}
  /\ UNCHANGED records

\* Mutant: the insertion asks for a number and does not care whether it is used.
InsertSakeRecordOver(i, id) ==
  /\ i \in inserting
  /\ Storable(i.fields)
  /\ records' = {r \in records : ~(SameTable(r.table, i.table) /\ r.id = id)}
                \cup {[table |-> i.table, id |-> id, owner |-> i.owner, fields |-> i.fields]}
  /\ inserting' = inserting \ {i}

\* The database draws a random number; a number in use breaks the key and is drawn again.
InsertSakeRecord(i, id) ==
  /\ i \in inserting
  /\ Storable(i.fields)
  /\ \A r \in records : SameTable(r.table, i.table) => r.id # id
  /\ records' = records \cup {[table |-> i.table, id |-> id, owner |-> i.owner, fields |-> i.fields]}
  /\ inserting' = inserting \ {i}

\* The insertion fails (ten numbers in use, the database, too many keys), or the process stops before it.
InsertFails(i) ==
  /\ i \in inserting
  /\ inserting' = inserting \ {i}
  /\ UNCHANGED records

\* The result of updateRecord.
UpdateResult(p, table, id, in) ==
  LET found == {r \in records : SameTable(r.table, table) /\ r.id = id}
      results == GetInputFields(table, in, FALSE)
  IN IF Reserved(table) \/ ~AllowsOwnerUpdate(table) THEN "NoPermission"
     ELSE IF "Success" \notin results THEN CHOOSE x \in results : TRUE
     ELSE IF found = {} THEN "RecordNotFound"
     ELSE IF \E r \in found : ~Storable(Updated(r, p, in).fields) THEN "DatabaseUnavailable"
     ELSE IF \E r \in found : r.owner # p THEN "NotOwned"
     ELSE "Success"

\* The statement is refused, or changes the record that it names.
UpdateRecord(p, table, id, in) ==
  /\ UpdateResult(p, table, id, in) \in {"NotOwned", "Success"}
  /\ \E r \in records :
       /\ SameTable(r.table, table) /\ r.id = id
       /\ records' = (records \ {r}) \cup {Updated(r, p, in)}
  /\ UNCHANGED inserting

\* An update of a record that is not there changes nothing.
SakeNext ==
  \/ \E p \in Profiles, in \in Inputs, table \in TableIDs :
       \/ \E t \in Threads : CreateRecord(t, p, table, in)
       \/ \E r \in records : UpdateRecord(p, table, r.id, in)
  \/ \E i \in inserting : InsertFails(i) \/ \E id \in RecordIDs : InsertSakeRecord(i, id)

SakeSpec == SakeInit /\ [][SakeNext]_sakeVars

-----------------------------------------------------------------------------
\* Handlers that read.

\* Those of the records rs that have every field asked for, as fillResponseValues passes them on:
\* none if no field is.
Complete(rs, fields) ==
  {r \in rs : fields # {} /\ fields \subseteq DOMAIN r.fields[1] \cup {"ownerid", "recordid"}}

\* filterMarioKartWiiFriendInfo: a Mii with a valid checksum loses its personal data, for all but the owner.
FilterFriendInfo(v, isOwner) == IF ~isOwner /\ v = "mii" THEN "clearedMii" ELSE v

\* Mutant: the Mii of a friend info is passed on as it is.
FilterAll(table, r, n, p) == r.fields[1][n].form

\* The filter of the field, if the table that is asked for has one.
FilterFieldFromDatabase(table, r, n, p) ==
  LET v == r.fields[1][n].form
      isOwner == r.owner = p /\ Tables[table].ownedByProfile
  IN IF Defined(table) /\ n \in Tables[table].private THEN FilterFriendInfo(v, isOwner) ELSE v

\* GetSakeRecords: one row that does not decode fails the query.
GetSakeRecords(table, owners) ==
  LET rs == {r \in records : SameTable(r.table, table) /\ r.owner \in owners}
  IN [ok |-> \A r \in rs : Decodes(r), rows |-> rs]

GetMyRecords(p, table, fields) ==
  LET q == GetSakeRecords(table, {p})
  IN IF fields = {} \/ Reserved(table) \/ ~q.ok THEN {} ELSE Complete(q.rows, fields)

HasSort(r, s) == s \in DOMAIN r.fields[1]

\* The comparison of the sort: a record that lacks the field comes before one that has it,
\* and takes a place among the first max.
Less(l, r, s) ==
  IF HasSort(l, s) /\ HasSort(r, s) THEN l.fields[1][s].value < r.fields[1][s].value ELSE HasSort(r, s)

SortPanics(rs, s) ==
  /\ Cardinality({r \in rs : HasSort(r, s)}) > 1
  /\ \E r \in rs : HasSort(r, s) /\ r.fields[1][s].type # "Int"

\* The owners whose records a search of p sees.
Owners(p, table, owners) == IF AllowsPublicRead(table) THEN owners ELSE {p}

\* The sets of records that a search may answer with: the first max in an order the sort may leave, of
\* those the complete ones.  A reserved table may have a handler of its own, which reads other tables (the
\* ghosts of Mario Kart Wii) and is left out.
SearchForRecords(p, table, owners, fields, s, max) ==
  LET q == GetSakeRecords(table, Owners(p, table, owners))
  IN IF Reserved(table) \/ ~q.ok \/ SortPanics(q.rows, s) THEN {}
     ELSE {Complete(f, fields) : f \in {f \in SUBSET q.rows :
             /\ Cardinality(f) = (IF max = 0 \/ Cardinality(q.rows) < max THEN Cardinality(q.rows) ELSE max)
             /\ \A l \in q.rows \ f, r \in f : ~Less(l, r, s)}}

-----------------------------------------------------------------------------

\* Every stored record decodes, whatever was created and updated: GetSakeRecords fails as a whole for one
\* that does not, for everybody who searches its table.  The update that concatenates two objects would
\* break it; the CHECK of the schema refuses every such update.
RecordsDecode == \A r \in records : Decodes(r)

\* What a field of a record of the defined table t may be.
FieldAllowed(t, n, f) ==
  /\ f.form \in Forms \ {"long", "bad"}
  /\ n \in {"ownerid", "recordid", "gameid", "tableid"} => n \in Tables[t].defaults
  /\ n \in DOMAIN Tables[t].fields \ RatingFields => f.type = Tables[t].fields[n]
  /\ Tables[t].hardened /\ DOMAIN Tables[t].fields # {} => n \in DOMAIN Tables[t].fields \cup RatingFields

\* A record of a table without a definition has no fields.
FieldsAllowed(t, fields) ==
  \A n \in DOMAIN fields : Defined(t) /\ FieldAllowed(t, n, fields[n])

\* Records and pending insertions have the fields that the definition of their table allows, of its types;
\* numbers are unique among all spellings of a table; a thread has one insertion at most; and see RecordsDecode.
SakeTypeOK ==
  /\ \A r \in records : r.table \in TableIDs /\ r.owner \in Profiles /\ r.id \in RecordIDs
  /\ \A r, s \in records : SameTable(r.table, s.table) /\ r.id = s.id => r = s
  /\ \A i \in inserting : i.thread \in Threads /\ i.table \in TableIDs /\ i.owner \in Profiles
  /\ \A x \in records \cup inserting : Len(x.fields) = 1 /\ FieldsAllowed(x.table, x.fields[1])
  /\ \A i, j \in inserting : i.thread = j.thread => i = j
  /\ RecordsDecode

\* The records of a profile, with those about to be inserted, exceed the limit by no more than the requests
\* that were between the count and the insertion at once.
WithinLimit ==
  \A p \in Profiles : Cardinality(Owned(p)) + Cardinality({i \in inserting : i.owner = p})
                      < MaxSakeRecordsPerProfile + Cardinality(Threads)

\* What one profile does never changes or removes a record of another.
OthersRecordsKept ==
  [][\A r \in records : r \in records' \/
       \E in \in Inputs, table \in TableIDs : UpdateRecord(r.owner, table, r.id, in)]_sakeVars

\* By the name under which a table is defined, a search never shows records of others if the table does not
\* allow it, and never the personal data in another player's Mii.  (By another spelling of the name it shows both.)
\* By any name it finds of the player's own records what getMyRecords returns.
SearchIsPrivate ==
  \A p \in Profiles, table \in TableIDs :
    /\ Defined(table) =>
         \A rs \in SearchForRecords(p, table, Profiles, {"recordid"}, "Score", 0) : \A r \in rs :
           r.owner = p \/ (/\ AllowsPublicRead(table)
                           /\ \A n \in DOMAIN r.fields[1] :
                                n = "info" /\ table = "FriendInfo" => FilterFieldFromDatabase(table, r, n, p) # "mii")
    /\ SearchForRecords(p, table, {p}, {"recordid"}, "Score", 0) \subseteq {GetMyRecords(p, table, {"recordid"})}

\* The records that p may find under the name table.
Visible(p, table) == {r \in records : SameTable(r.table, table) /\ (r.owner = p \/ AllowsPublicRead(table))}

\* A search that is cut off at max keeps the lowest values: of the records that have the field, none that
\* is left out is below one that is returned, and one is left out only if max records are returned or
\* lack the field.
BestAreKept ==
  \A p \in Profiles, table \in TableIDs, max \in 1..2 :
    \A rs \in SearchForRecords(p, table, Profiles, {"recordid", "Score"}, "Score", max) :
      LET scored == Complete(Visible(p, table), {"Score"})
      IN /\ rs \subseteq scored
         /\ \A r \in rs, l \in scored \ rs : l.fields[1]["Score"].value >= r.fields[1]["Score"].value
         /\ scored \ rs # {} => Cardinality(rs \cup (Visible(p, table) \ scored)) >= max

\* A search of records finds what the asker may see, and the best of it (searchForRecords).
SearchIsRight == records # {} => SearchIsPrivate /\ BestAreKept

\* "Defaults to allowed" (sake/tables.go:68, OwnerPermUpdate): an owner may update a record of a table
\* that does not deny it, if the fields are valid and not too many.
OwnerMayUpdate ==
  \A r \in records, in \in Inputs :
    /\ AllowsOwnerUpdate(r.table) /\ ~Reserved(r.table)
    /\ GetInputFields(r.table, in, FALSE) = {"Success"}
    /\ Cardinality(DOMAIN r.fields[1] \cup DOMAIN in) <= MaxSakeFieldsPerRecord
    => UpdateResult(r.owner, r.table, r.id, in) = "Success"
=============================================================================
