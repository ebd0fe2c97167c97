------------------------- MODULE VFSDatabaseProofs --------------------------
(***************************************************************************)
(* What the operations of one database preserve.                           *)
(***************************************************************************)
EXTENDS VFSDatabase, TLAPS

\* A database whose data file does not exist has no data.
WellFormed(db) == db \in Database /\ (~db.dataExists => db.data = <<>>)

\* new has the rows of old, and its data file only grew.
Grown(old, new) ==
  /\ new.position = old.position
  /\ Len(old.data) <= Len(new.data)
  /\ \A i \in 1..Len(old.data) : new.data[i] = old.data[i]

\* The files of a database that was never written (a new directory).
LEMMA EmptyIsWellFormed ==
  /\ WellFormed(EmptyDatabase)
  /\ \A id \in Ids : RowIsSound(EmptyDatabase, id)
BY DEF WellFormed, EmptyDatabase, Database, RowIsSound, NoRow

\* Opening an index, completely or not, touches neither rows nor data.
LEMMA OpenGrows ==
  ASSUME NEW db, WellFormed(db)
  PROVE  /\ WellFormed(OpenIndex(db)) /\ Grown(db, OpenIndex(db))
         /\ \A x \in TornOpens(db) : WellFormed(x) /\ Grown(db, x)
BY DEF WellFormed, OpenIndex, TornOpens, Grown, Database

\* Writing an asset leaves everything in front of it alone, and puts it at the
\* position NewAssetPosition names.
LEMMA WriteGrows ==
  ASSUME NEW db, WellFormed(db), NEW a \in Assets
  PROVE  LET new == writeNewAsset(db, a)
             pos == NewAssetPosition(db)
         IN /\ WellFormed(new) /\ Grown(db, new)
            /\ pos \in Nat /\ pos < Len(new.data) /\ new.data[pos + 1] = a
<1> DEFINE new == writeNewAsset(db, a)
           pos == NewAssetPosition(db)
<1>1. /\ db \in Database /\ db.data \in Seq(Unit) /\ a \in Unit
      /\ Header \in Unit
  BY DEF WellFormed, Database, Unit
<1>2. Prepared(db) \in Seq(Unit) /\ pos = Len(Prepared(db)) /\ pos \in Nat
  BY <1>1 DEF Prepared, NewAssetPosition
<1>3. /\ new.position = db.position /\ new.idx = db.idx
      /\ new.dataExists = TRUE /\ new.data = Append(Prepared(db), a)
  BY <1>1 DEF writeNewAsset, Database
<1>4. WellFormed(new)
  <2>1. Append(Prepared(db), a) \in Seq(Unit)
    BY <1>1, <1>2
  <2>2. new \in Database
    BY <1>1, <2>1 DEF writeNewAsset, Database
  <2> QED BY <1>3, <2>2 DEF WellFormed
<1>5. Len(new.data) = pos + 1 /\ new.data[pos + 1] = a
  BY <1>1, <1>2, <1>3
<1>6. Grown(db, new)
  <2>1. CASE db.dataExists
    BY <1>1, <1>2, <1>3, <2>1 DEF Grown, Prepared
  <2>2. CASE ~db.dataExists
    BY <1>1, <1>2, <1>3, <2>2 DEF Grown, Prepared, WellFormed
  <2> QED BY <2>1, <2>2
<1> QED BY <1>2, <1>4, <1>5, <1>6

\* A write that fails or is interrupted leaves everything that was there alone.
LEMMA TornWriteGrows ==
  ASSUME NEW db, WellFormed(db), NEW x \in TornWrites(db)
  PROVE  WellFormed(x) /\ Grown(db, x)
<1>1. /\ db \in Database /\ db.data \in Seq(Unit)
      /\ Junk \in Unit /\ Header \in Unit
  BY DEF WellFormed, Database, Unit
<1>2. CASE x = db
  BY <1>1, <1>2 DEF Grown
<1>3. ASSUME NEW d \in Seq(Unit), x = [db EXCEPT !.dataExists = TRUE, !.data = d],
             Len(db.data) <= Len(d),
             \A i \in 1..Len(db.data) : d[i] = db.data[i]
      PROVE  WellFormed(x) /\ Grown(db, x)
  BY <1>1, <1>3 DEF WellFormed, Grown, Database
<1>4. CASE db.dataExists /\ x # db
  <2>1. PICK d \in {db.data, Append(db.data, Junk)} :
             x = [db EXCEPT !.dataExists = TRUE, !.data = d]
    BY <1>4 DEF TornWrites
  <2>2. /\ d \in Seq(Unit) /\ Len(db.data) <= Len(d)
        /\ \A i \in 1..Len(db.data) : d[i] = db.data[i]
    BY <1>1
  <2> QED BY <1>3, <2>1, <2>2
<1>5. CASE ~db.dataExists /\ x # db
  <2>1. PICK d \in {<<>>, <<Junk>>, <<Header>>, <<Header, Junk>>} :
             x = [db EXCEPT !.dataExists = TRUE, !.data = d]
    BY <1>5 DEF TornWrites
  <2>2. d \in Seq(Unit)
    <3>1. /\ <<>> \in Seq(Unit) /\ <<Junk>> \in Seq(Unit)
          /\ <<Header>> \in Seq(Unit) /\ <<Header, Junk>> \in Seq(Unit)
      BY <1>1
    <3> QED BY <3>1
  <2>3. Len(db.data) = 0 /\ Len(d) \in Nat
    BY <1>1, <1>5, <2>2 DEF WellFormed
  <2>4. Len(db.data) <= Len(d) /\ \A i \in 1..Len(db.data) : d[i] = db.data[i]
    BY <2>3
  <2> QED BY <1>3, <2>1, <2>2, <2>4
<1> QED BY <1>2, <1>4, <1>5

\* Growing keeps every row sound and its asset the same.
LEMMA GrownKeepsRows ==
  ASSUME NEW old, NEW new, WellFormed(old), WellFormed(new), Grown(old, new),
         NEW id \in Ids, RowIsSound(old, id)
  PROVE  /\ RowIsSound(new, id)
         /\ RowContent(new, id) = RowContent(old, id)
BY DEF WellFormed, Grown, RowIsSound, RowContent, getAssetAtPosition, Database,
       NoRow

\* A new row for an asset that is in the data file is sound, and no other row
\* changes.
LEMMA RecordIsSound ==
  ASSUME NEW db, WellFormed(db), NEW a \in Assets, NEW pos \in Nat,
         pos < Len(db.data), db.data[pos + 1] = a
  PROVE  LET new == recordAssetPosition(db, a, pos)
         IN /\ WellFormed(new)
            /\ RowIsSound(new, Uuid[a]) /\ RowContent(new, Uuid[a]) = a
            /\ \A id \in Ids \ {Uuid[a]} :
                 /\ RowIsSound(db, id) => RowIsSound(new, id)
                 /\ RowContent(new, id) = RowContent(db, id)
<1> DEFINE new == recordAssetPosition(db, a, pos)
<1>1. db \in Database /\ db.data \in Seq(Unit) /\ Uuid[a] \in Ids
  BY AssetAssumption DEF WellFormed, Database
<1>2. /\ new.data = db.data /\ new.dataExists = db.dataExists
      /\ new.position[Uuid[a]] = pos
      /\ \A id \in Ids \ {Uuid[a]} : new.position[id] = db.position[id]
  BY <1>1 DEF recordAssetPosition, Database
<1>3. new \in Database
  <2>1. [db.position EXCEPT ![Uuid[a]] = pos] \in [Ids -> Nat \cup {NoRow}]
    BY <1>1 DEF Database
  <2> QED BY <1>1, <2>1 DEF recordAssetPosition, Database
<1>4. WellFormed(new)
  BY <1>2, <1>3 DEF WellFormed
<1>5. RowIsSound(new, Uuid[a]) /\ RowContent(new, Uuid[a]) = a
  BY <1>2 DEF RowIsSound, RowContent, getAssetAtPosition, NoRow
<1>6. ASSUME NEW id \in Ids \ {Uuid[a]}
      PROVE  /\ RowIsSound(db, id) => RowIsSound(new, id)
             /\ RowContent(new, id) = RowContent(db, id)
  BY <1>2 DEF RowIsSound, RowContent, getAssetAtPosition
<1> QED BY <1>4, <1>5, <1>6

\* Removing the index leaves no row, so removing the data afterwards breaks none.
LEMMA RemoveIsSound ==
  ASSUME NEW db, WellFormed(db)
  PROVE  /\ WellFormed(RemoveIndex(db)) /\ WellFormed(RemoveData(db))
         /\ \A id \in Ids : /\ RemoveIndex(db).position[id] = NoRow
                            /\ RowIsSound(RemoveIndex(db), id)
                            /\ RemoveData(db).position[id] = db.position[id]
<1>1. db \in Database /\ <<>> \in Seq(Unit)
  BY DEF WellFormed
<1>2. RemoveIndex(db) \in Database
  BY <1>1 DEF RemoveIndex, Database
<1>3. RemoveData(db) \in Database
  BY <1>1 DEF RemoveData, Database
<1>4. /\ RemoveIndex(db).data = db.data
      /\ RemoveIndex(db).dataExists = db.dataExists
      /\ RemoveIndex(db).position = [i \in Ids |-> NoRow]
  BY <1>1 DEF RemoveIndex, Database
<1>5. RemoveData(db).data = <<>> /\ RemoveData(db).position = db.position
  BY <1>1 DEF RemoveData, Database
<1> QED BY <1>2, <1>3, <1>4, <1>5 DEF WellFormed, RowIsSound

\* The content of a sound row is an asset with the row's id.
LEMMA SoundContent ==
  ASSUME NEW db, WellFormed(db), NEW id \in Ids, RowIsSound(db, id)
  PROVE  /\ RowContent(db, id) # NoAsset =>
              RowContent(db, id) \in Assets /\ Uuid[RowContent(db, id)] = id
         /\ dbGetAsset(db, id) # NoAsset =>
              dbGetAsset(db, id) \in Assets /\ Uuid[dbGetAsset(db, id)] = id
BY DEF WellFormed, RowIsSound, RowContent, getAssetAtPosition, dbGetAsset,
       dbAssetExists, findAssetPosition, INVALID_POSITION, Database, NoRow
=============================================================================
