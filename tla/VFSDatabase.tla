---------------------------- MODULE VFSDatabase ----------------------------
(***************************************************************************)
(* One VFS database: the pair of files <kind>.idx (an SQLite table         *)
(* asset_id -> position) and <kind>.data (an 8-byte header followed by     *)
(* length-prefixed assets) of one directory of the storage root.           *)
(*                                                                         *)
(* The data file is abstracted to a sequence of units: the header, whole   *)
(* assets, and the junk that a failed or interrupted write leaves behind.  *)
(* A byte position becomes the number of units before it.  That keeps what *)
(* the code relies on: positions grow with the file, distinct appends get  *)
(* distinct positions, and a position is 0 exactly when the file is empty. *)
(***************************************************************************)
EXTENDS Integers, Sequences

CONSTANTS
  Ids,      \* asset ids
  Assets,   \* assets (contents included): several assets may share an id
  Uuid,     \* Uuid[a] is the id an asset carries in its first 32 bytes
  Header,   \* the unit "IWZDDB01"
  Junk,     \* a unit left by an incomplete write
  NoAsset   \* the null Asset::ptr

ASSUME AssetAssumption ==
  /\ Uuid \in [Assets -> Ids]
  /\ NoAsset \notin Assets /\ Header \notin Assets /\ Junk \notin Assets
  /\ Header # Junk

INVALID_POSITION == 0
NoRow == -1                    \* the table has no row for this asset_id

Unit == Assets \cup {Header, Junk}

(***************************************************************************)
(* idx is "absent", "blank" (the file exists, its tables do not) or        *)
(* "ready" (initializeDatabase has committed).                             *)
(***************************************************************************)
Database ==
  [idx : {"absent", "blank", "ready"}, position : [Ids -> Nat \cup {NoRow}],
   dataExists : BOOLEAN, data : Seq(Unit)]

EmptyDatabase ==
  [idx |-> "absent", position |-> [i \in Ids |-> NoRow],
   dataExists |-> FALSE, data |-> <<>>]

----------------------------------------------------------------------------
(* The index file.                                                         *)

\* SQLiteIndexFile's constructor: a file without tables is initialized.
OpenIndex(db) == [db EXCEPT !.idx = "ready"]

\* What the constructor leaves when it throws or is interrupted.
TornOpens(db) ==
  {db, OpenIndex(db)} \cup
  (IF db.idx = "ready" THEN {} ELSE {[db EXCEPT !.idx = "blank"]})

findAssetPosition(db, id) ==
  IF db.position[id] = NoRow THEN INVALID_POSITION ELSE db.position[id]

dbAssetExists(db, id) == findAssetPosition(db, id) # INVALID_POSITION

getContainedAssetIds(db) == {id \in Ids : db.position[id] # NoRow}

recordAssetPosition(db, asset, pos) ==
  [db EXCEPT !.position[Uuid[asset]] = pos]

----------------------------------------------------------------------------
(* The data file.                                                          *)

\* The units in front of a new asset: a file that did not exist gets a header.
Prepared(db) == IF db.dataExists THEN db.data ELSE <<Header>>

\* Mutant: the position is taken before the header is written.
PositionBeforeHeader(db) == Len(db.data)

NewAssetPosition(db) == Len(Prepared(db))

writeNewAsset(db, asset) ==
  [db EXCEPT !.dataExists = TRUE, !.data = Append(Prepared(db), asset)]

\* Every state writeNewAsset can leave when open, size, seek or one of the
\* three writes fails (a short write included) or the process dies in it.
TornWrites(db) ==
  LET left == IF db.dataExists
              THEN {db.data, Append(db.data, Junk)}
              ELSE {<<>>, <<Junk>>, <<Header>>, <<Header, Junk>>}
  IN {db} \cup {[db EXCEPT !.dataExists = TRUE, !.data = d] : d \in left}

\* Mutant: the seek ends one unit too early.
UnitBeforePosition(db, pos) == IF pos > 0 THEN db.data[pos] ELSE Junk

\* The unit at a position, or Junk when the read comes up short.
getAssetAtPosition(db, pos) ==
  IF pos < Len(db.data) THEN db.data[pos + 1] ELSE Junk

\* VFSDatabase::getAsset: NoAsset when the index knows no valid position.
dbGetAsset(db, id) ==
  IF dbAssetExists(db, id)
  THEN getAssetAtPosition(db, findAssetPosition(db, id))
  ELSE NoAsset

----------------------------------------------------------------------------
(* performLocalsPhysicalDeletion removes the index, then the data.         *)

RemoveIndex(db) ==
  [db EXCEPT !.idx = "absent", !.position = [i \in Ids |-> NoRow]]

RemoveData(db) == [db EXCEPT !.dataExists = FALSE, !.data = <<>>]

(***************************************************************************)
(* A database is sound when every row points at a whole copy of an asset   *)
(* with that row's id.                                                     *)
(***************************************************************************)
RowIsSound(db, id) ==
  db.position[id] # NoRow =>
    /\ db.position[id] < Len(db.data)
    /\ db.data[db.position[id] + 1] \in Assets
    /\ Uuid[db.data[db.position[id] + 1]] = id

\* The asset a row holds, whether or not the code can reach it: a row with
\* position INVALID_POSITION is there, but findAssetPosition hides it.
RowContent(db, id) ==
  IF db.position[id] = NoRow THEN NoAsset
  ELSE getAssetAtPosition(db, db.position[id])
=============================================================================
