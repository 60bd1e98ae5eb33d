----------------------------- MODULE PartProofs -----------------------------
(***************************************************************************)
(* Proofs about the parts that run by themselves: the archive sink and the *)
(* PostgreSQL sink of shreds-audit, its rotation of filter bundles, the    *)
(* credits and the settings of the admin mock, the judgement of a server   *)
(* by the filter audit and its database writer, and the streams of the     *)
(* provider mocks.  Each theorem is about the specification of one part,   *)
(* whatever the others do.                                                 *)
(***************************************************************************)
EXTENDS ZipSink, PgSink, PreconfCredits, FilterRotation, PostpackSettings, FilterTags,
        FilterDb, PostpackStreams, IntegerSets, SequenceTheorems

-----------------------------------------------------------------------------
(* The archive sink. *)

Finishing == packing # Nothing /\ packing.pc \in {"close", "create", "copy", "remove"}

\* There is an open window, also where Nothing should look like one.
HasWindow == window # Nothing \/ (Finishing /\ ~ packing.last)

\* Archives are named for the second they began, one after another: what is on the disk is older
\* than the archive that is being finished, and that is older than the open window.
NamesGrow ==
    /\ second \in Nat
    /\ \A n \in DOMAIN zips \cup DOMAIN work : n \in Nat /\ n <= second
    /\ HasWindow =>
           /\ window.since \in Nat /\ window.since <= second
           /\ \A n \in DOMAIN zips \cup DOMAIN work : n < window.since
    /\ Finishing =>
           /\ packing.name \in Nat /\ packing.name <= second
           /\ HasWindow => packing.name < window.since
           /\ \A n \in DOMAIN zips \cup DOMAIN work : n <= packing.name
           /\ packing.pc = "close" => packing.name \notin DOMAIN work
           /\ packing.pc \in {"close", "create"} => packing.name \notin DOMAIN zips

\* Rows are numbered; those of the open window, and of an archive whose files are open still, are
\* in no other archive.
RowsApart ==
    /\ records.count \in Nat /\ records.closed \subseteq 1..records.count
    /\ HasWindow => window.rows \subseteq (1..records.count) \ records.closed
    /\ Finishing =>
           /\ packing.rows \subseteq 1..records.count
           /\ HasWindow => packing.rows \cap window.rows = {}
           /\ packing.pc = "close" => packing.rows \cap records.closed = {}

\* Where the files of an archive are at each step of finish.
FilesKept ==
    /\ Finishing /\ packing.pc # "close" =>
           /\ packing.rows \subseteq records.closed
           /\ packing.name \in DOMAIN work /\ work[packing.name] = packing.rows
           /\ packing.pc = "copy" => packing.name \in DOMAIN zips /\ ~ zips[packing.name].whole
           /\ packing.pc = "remove" =>
                  packing.name \in DOMAIN zips /\ zips[packing.name] = Packed(packing.rows, TRUE)
    /\ \A n \in DOMAIN zips :
           /\ zips[n].rows \subseteq records.closed
           /\ Finishing /\ packing.pc # "close" /\ n # packing.name => zips[n].rows \cap packing.rows = {}
           /\ \A m \in DOMAIN zips : m # n => zips[m].rows \cap zips[n].rows = {}
    /\ \A row \in records.closed : WholeWith(row) = {} => \E n \in DOMAIN work : row \in work[n]

LiveWhole ==
    /\ live = [zip |-> live.zip, tmp |-> live.tmp]
    /\ live.zip # Nothing => live.zip.whole
    /\ At("rename") => live.tmp.whole

\* The shapes of the records.
ZipShapes ==
    /\ records = [count |-> records.count, closed |-> records.closed]
    /\ HasWindow => window = [since |-> window.since, rows |-> window.rows]
    /\ Finishing => packing = [pc |-> packing.pc, name |-> packing.name, rows |-> packing.rows, last |-> packing.last]
    /\ packing # Nothing => packing.pc \in {"close", "create", "copy", "remove", "live", "rename"}

ZipInv == NamesGrow /\ RowsApart /\ FilesKept /\ LiveWhole /\ ZipShapes

LEMMA NamesStep == ZipInv /\ [ZipNext]_zipVars => NamesGrow'
<1> SUFFICES ASSUME ZipInv, [ZipNext]_zipVars PROVE NamesGrow'
  OBVIOUS
<1> USE ZipSinkAssumption DEF ZipInv
<1>1. CASE StartRun
  BY <1>1 DEF StartRun, NamesGrow, Finishing, HasWindow, Running, At, With, Without, NewWindow, Removable, ZipShapes
<1>2. CASE WriteRow
  BY <1>2 DEF WriteRow, NamesGrow, Finishing, HasWindow, Running, At, With, Without, NewWindow, Removable, ZipShapes
<1>3. CASE Rotate
  BY <1>3 DEF Rotate, NamesGrow, Finishing, HasWindow, Running, At, With, Without, NewWindow, Removable, ZipShapes
<1>4. CASE CloseSink
  BY <1>4 DEF CloseSink, NamesGrow, Finishing, HasWindow, Running, At, With, Without, NewWindow, Removable, ZipShapes
<1>5. CASE CloseFiles
  BY <1>5 DEF CloseFiles, NamesGrow, Finishing, HasWindow, Running, At, With, Without, NewWindow, Removable, ZipShapes
<1>6. CASE CreateZip
  BY <1>6 DEF CreateZip, NamesGrow, Finishing, HasWindow, Running, At, With, Without, NewWindow, Removable, ZipShapes
<1>7. CASE FinishZip
  BY <1>7 DEF FinishZip, NamesGrow, Finishing, HasWindow, Running, At, With, Without, NewWindow, Removable, ZipShapes
<1>8. CASE RemoveWork
  BY <1>8 DEF RemoveWork, NamesGrow, Finishing, HasWindow, Running, At, With, Without, NewWindow, Removable, ZipShapes
<1>9. CASE LiveBegins
  BY <1>9 DEF LiveBegins, NamesGrow, Finishing, HasWindow, Running, At, With, Without, NewWindow, Removable, ZipShapes
<1>10. CASE LiveFinishes
  BY <1>10 DEF LiveFinishes, NamesGrow, Finishing, HasWindow, Running, At, With, Without, NewWindow, Removable, ZipShapes
<1>11. CASE LiveRenames
  BY <1>11 DEF LiveRenames, NamesGrow, Finishing, HasWindow, Running, At, With, Without, NewWindow, Removable, ZipShapes
<1>12. CASE LiveFails
  BY <1>12 DEF LiveFails, NamesGrow, Finishing, HasWindow, Running, At, With, Without, NewWindow, Removable, ZipShapes
<1>13. CASE RunEnds
  BY <1>13 DEF RunEnds, NamesGrow, Finishing, HasWindow, Running, At, With, Without, NewWindow, Removable, ZipShapes
<1>14. CASE SecondPasses
  BY <1>14 DEF SecondPasses, NamesGrow, Finishing, HasWindow, Running, At, With, Without, NewWindow, Removable, ZipShapes
<1>15. CASE TimeIsUp
  BY <1>15 DEF TimeIsUp, zipVars, NamesGrow, Finishing, HasWindow, Running, At, With, Without, NewWindow, Removable, ZipShapes
<1>16. CASE UNCHANGED zipVars
  BY <1>16 DEF zipVars, NamesGrow, Finishing, HasWindow, Running, At, With, Without, NewWindow, Removable, ZipShapes
<1>17. QED
  BY <1>1, <1>2, <1>3, <1>4, <1>5, <1>6, <1>7, <1>8, <1>9, <1>10, <1>11, <1>12, <1>13, <1>14, <1>15, <1>16 DEF ZipNext

LEMMA RowsStep == ZipInv /\ [ZipNext]_zipVars => RowsApart'
<1> SUFFICES ASSUME ZipInv, [ZipNext]_zipVars PROVE RowsApart'
  OBVIOUS
<1> USE ZipSinkAssumption DEF ZipInv
<1>1. CASE StartRun
  BY <1>1 DEF StartRun, RowsApart, Finishing, HasWindow, Running, At, NewWindow, Removable, ZipShapes
<1>2. CASE WriteRow
  BY <1>2 DEF WriteRow, RowsApart, Finishing, HasWindow, Running, At, NewWindow, Removable, ZipShapes
<1>3. CASE Rotate
  BY <1>3 DEF Rotate, RowsApart, Finishing, HasWindow, Running, At, NewWindow, Removable, ZipShapes
<1>4. CASE CloseSink
  BY <1>4 DEF CloseSink, RowsApart, Finishing, HasWindow, Running, At, NewWindow, Removable, ZipShapes
<1>5. CASE CloseFiles
  BY <1>5 DEF CloseFiles, RowsApart, Finishing, HasWindow, Running, At, NewWindow, Removable, ZipShapes
<1>6. CASE CreateZip
  BY <1>6 DEF CreateZip, RowsApart, Finishing, HasWindow, Running, At, NewWindow, Removable, ZipShapes
<1>7. CASE FinishZip
  BY <1>7 DEF FinishZip, RowsApart, Finishing, HasWindow, Running, At, NewWindow, Removable, ZipShapes
<1>8. CASE RemoveWork
  BY <1>8 DEF RemoveWork, RowsApart, Finishing, HasWindow, Running, At, NewWindow, Removable, ZipShapes
<1>9. CASE LiveBegins
  BY <1>9 DEF LiveBegins, RowsApart, Finishing, HasWindow, Running, At, NewWindow, Removable, ZipShapes
<1>10. CASE LiveFinishes
  BY <1>10 DEF LiveFinishes, RowsApart, Finishing, HasWindow, Running, At, NewWindow, Removable, ZipShapes
<1>11. CASE LiveRenames
  BY <1>11 DEF LiveRenames, RowsApart, Finishing, HasWindow, Running, At, NewWindow, Removable, ZipShapes
<1>12. CASE LiveFails
  BY <1>12 DEF LiveFails, RowsApart, Finishing, HasWindow, Running, At, NewWindow, Removable, ZipShapes
<1>13. CASE RunEnds
  BY <1>13 DEF RunEnds, RowsApart, Finishing, HasWindow, Running, At, NewWindow, Removable, ZipShapes
<1>14. CASE SecondPasses
  BY <1>14 DEF SecondPasses, RowsApart, Finishing, HasWindow, Running, At, NewWindow, Removable, ZipShapes
<1>15. CASE TimeIsUp
  BY <1>15 DEF TimeIsUp, zipVars, RowsApart, Finishing, HasWindow, Running, At, NewWindow, Removable, ZipShapes
<1>16. CASE UNCHANGED zipVars
  BY <1>16 DEF zipVars, RowsApart, Finishing, HasWindow, Running, At, NewWindow, Removable, ZipShapes
<1>17. QED
  BY <1>1, <1>2, <1>3, <1>4, <1>5, <1>6, <1>7, <1>8, <1>9, <1>10, <1>11, <1>12, <1>13, <1>14, <1>15, <1>16 DEF ZipNext

LEMMA FilesStep == ZipInv /\ [ZipNext]_zipVars => FilesKept'
<1> SUFFICES ASSUME ZipInv, [ZipNext]_zipVars PROVE FilesKept'
  OBVIOUS
<1> USE ZipSinkAssumption DEF ZipInv
<1>1. CASE StartRun
  BY <1>1 DEF StartRun, FilesKept, Finishing, HasWindow, Running, At, With, Without, Packed, Removable, WholeWith, ZipShapes, NamesGrow, RowsApart
<1>2. CASE WriteRow
  BY <1>2 DEF WriteRow, FilesKept, Finishing, HasWindow, Running, At, With, Without, Packed, Removable, WholeWith, ZipShapes, NamesGrow, RowsApart
<1>3. CASE Rotate
  BY <1>3 DEF Rotate, FilesKept, Finishing, HasWindow, Running, At, With, Without, Packed, Removable, WholeWith, ZipShapes, NamesGrow, RowsApart
<1>4. CASE CloseSink
  BY <1>4 DEF CloseSink, FilesKept, Finishing, HasWindow, Running, At, With, Without, Packed, Removable, WholeWith, ZipShapes, NamesGrow, RowsApart
<1>5. CASE CloseFiles
  BY <1>5 DEF CloseFiles, FilesKept, Finishing, HasWindow, Running, At, With, Without, Packed, Removable, WholeWith, ZipShapes, NamesGrow, RowsApart
<1>6. CASE CreateZip
  <2>1. /\ Finishing /\ packing.pc = "create" /\ packing.name \notin DOMAIN zips
        /\ packing' = [pc |-> "copy", name |-> packing.name, rows |-> packing.rows, last |-> packing.last]
        /\ UNCHANGED <<work, records>>
        /\ zips' = [n \in DOMAIN zips \cup {packing.name} |-> IF n = packing.name THEN [rows |-> {}, whole |-> FALSE] ELSE zips[n]]
    BY <1>6 DEF CreateZip, At, Finishing, ZipShapes, NamesGrow, With, Packed
  <2>2. \A row : WholeWith(row)' = WholeWith(row)
    BY <2>1 DEF WholeWith
  <2>3. \A row \in records.closed' : WholeWith(row)' = {} => \E n \in DOMAIN work' : row \in work'[n]
    BY <2>1, <2>2 DEF FilesKept
  <2>4. QED
    BY <2>1, <2>3 DEF FilesKept, Finishing
<1>7. CASE FinishZip
  BY <1>7 DEF FinishZip, FilesKept, Finishing, HasWindow, Running, At, With, Without, Packed, Removable, WholeWith, ZipShapes, NamesGrow, RowsApart
<1>8. CASE RemoveWork
  BY <1>8 DEF RemoveWork, FilesKept, Finishing, HasWindow, Running, At, With, Without, Packed, Removable, WholeWith, ZipShapes, NamesGrow, RowsApart
<1>9. CASE LiveBegins
  BY <1>9 DEF LiveBegins, FilesKept, Finishing, HasWindow, Running, At, With, Without, Packed, Removable, WholeWith, ZipShapes, NamesGrow, RowsApart
<1>10. CASE LiveFinishes
  BY <1>10 DEF LiveFinishes, FilesKept, Finishing, HasWindow, Running, At, With, Without, Packed, Removable, WholeWith, ZipShapes, NamesGrow, RowsApart
<1>11. CASE LiveRenames
  BY <1>11 DEF LiveRenames, FilesKept, Finishing, HasWindow, Running, At, With, Without, Packed, Removable, WholeWith, ZipShapes, NamesGrow, RowsApart
<1>12. CASE LiveFails
  BY <1>12 DEF LiveFails, FilesKept, Finishing, HasWindow, Running, At, With, Without, Packed, Removable, WholeWith, ZipShapes, NamesGrow, RowsApart
<1>13. CASE RunEnds
  BY <1>13 DEF RunEnds, FilesKept, Finishing, HasWindow, Running, At, With, Without, Packed, Removable, WholeWith, ZipShapes, NamesGrow, RowsApart
<1>14. CASE SecondPasses
  BY <1>14 DEF SecondPasses, FilesKept, Finishing, HasWindow, Running, At, With, Without, Packed, Removable, WholeWith, ZipShapes, NamesGrow, RowsApart
<1>15. CASE TimeIsUp
  BY <1>15 DEF TimeIsUp, zipVars, FilesKept, Finishing, HasWindow, Running, At, With, Without, Packed, Removable, WholeWith, ZipShapes, NamesGrow, RowsApart
<1>16. CASE UNCHANGED zipVars
  BY <1>16 DEF zipVars, FilesKept, Finishing, HasWindow, Running, At, With, Without, Packed, Removable, WholeWith, ZipShapes, NamesGrow, RowsApart
<1>17. QED
  BY <1>1, <1>2, <1>3, <1>4, <1>5, <1>6, <1>7, <1>8, <1>9, <1>10, <1>11, <1>12, <1>13, <1>14, <1>15, <1>16 DEF ZipNext

LEMMA LiveStep == ZipInv /\ [ZipNext]_zipVars => LiveWhole'
<1> SUFFICES ASSUME ZipInv, [ZipNext]_zipVars PROVE LiveWhole'
  OBVIOUS
<1> USE ZipSinkAssumption DEF ZipInv
<1>1. CASE StartRun
  BY <1>1 DEF StartRun, LiveWhole, Running, At, Packed
<1>2. CASE WriteRow
  BY <1>2 DEF WriteRow, LiveWhole, Running, At, Packed
<1>3. CASE Rotate
  BY <1>3 DEF Rotate, LiveWhole, Running, At, Packed
<1>4. CASE CloseSink
  BY <1>4 DEF CloseSink, LiveWhole, Running, At, Packed
<1>5. CASE CloseFiles
  BY <1>5 DEF CloseFiles, LiveWhole, Running, At, Packed
<1>6. CASE CreateZip
  BY <1>6 DEF CreateZip, LiveWhole, Running, At, Packed
<1>7. CASE FinishZip
  BY <1>7 DEF FinishZip, LiveWhole, Running, At, Packed
<1>8. CASE RemoveWork
  BY <1>8 DEF RemoveWork, LiveWhole, Running, At, Packed
<1>9. CASE LiveBegins
  BY <1>9 DEF LiveBegins, LiveWhole, Running, At, Packed
<1>10. CASE LiveFinishes
  BY <1>10 DEF LiveFinishes, LiveWhole, Running, At, Packed
<1>11. CASE LiveRenames
  BY <1>11 DEF LiveRenames, LiveWhole, Running, At, Packed
<1>12. CASE LiveFails
  BY <1>12 DEF LiveFails, LiveWhole, Running, At, Packed
<1>13. CASE RunEnds
  BY <1>13 DEF RunEnds, LiveWhole, Running, At, Packed
<1>14. CASE SecondPasses
  BY <1>14 DEF SecondPasses, LiveWhole, Running, At, Packed
<1>15. CASE TimeIsUp
  BY <1>15 DEF TimeIsUp, zipVars, LiveWhole, Running, At, Packed
<1>16. CASE UNCHANGED zipVars
  BY <1>16 DEF zipVars, LiveWhole, Running, At, Packed
<1>17. QED
  BY <1>1, <1>2, <1>3, <1>4, <1>5, <1>6, <1>7, <1>8, <1>9, <1>10, <1>11, <1>12, <1>13, <1>14, <1>15, <1>16 DEF ZipNext

LEMMA ShapesStep == ZipInv /\ [ZipNext]_zipVars => ZipShapes'
<1> SUFFICES ASSUME ZipInv, [ZipNext]_zipVars PROVE ZipShapes'
  OBVIOUS
<1> USE ZipSinkAssumption DEF ZipInv
<1>1. CASE StartRun
  BY <1>1 DEF StartRun, ZipShapes, Finishing, HasWindow, Running, At, NewWindow, Removable
<1>2. CASE WriteRow
  BY <1>2 DEF WriteRow, ZipShapes, Finishing, HasWindow, Running, At, NewWindow, Removable
<1>3. CASE Rotate
  BY <1>3 DEF Rotate, ZipShapes, Finishing, HasWindow, Running, At, NewWindow, Removable
<1>4. CASE CloseSink
  BY <1>4 DEF CloseSink, ZipShapes, Finishing, HasWindow, Running, At, NewWindow, Removable
<1>5. CASE CloseFiles
  BY <1>5 DEF CloseFiles, ZipShapes, Finishing, HasWindow, Running, At, NewWindow, Removable
<1>6. CASE CreateZip
  BY <1>6 DEF CreateZip, ZipShapes, Finishing, HasWindow, Running, At, NewWindow, Removable
<1>7. CASE FinishZip
  BY <1>7 DEF FinishZip, ZipShapes, Finishing, HasWindow, Running, At, NewWindow, Removable
<1>8. CASE RemoveWork
  BY <1>8 DEF RemoveWork, ZipShapes, Finishing, HasWindow, Running, At, NewWindow, Removable
<1>9. CASE LiveBegins
  BY <1>9 DEF LiveBegins, ZipShapes, Finishing, HasWindow, Running, At, NewWindow, Removable
<1>10. CASE LiveFinishes
  BY <1>10 DEF LiveFinishes, ZipShapes, Finishing, HasWindow, Running, At, NewWindow, Removable
<1>11. CASE LiveRenames
  BY <1>11 DEF LiveRenames, ZipShapes, Finishing, HasWindow, Running, At, NewWindow, Removable
<1>12. CASE LiveFails
  BY <1>12 DEF LiveFails, ZipShapes, Finishing, HasWindow, Running, At, NewWindow, Removable
<1>13. CASE RunEnds
  BY <1>13 DEF RunEnds, ZipShapes, Finishing, HasWindow, Running, At, NewWindow, Removable
<1>14. CASE SecondPasses
  BY <1>14 DEF SecondPasses, ZipShapes, Finishing, HasWindow, Running, At, NewWindow, Removable
<1>15. CASE TimeIsUp
  BY <1>15 DEF TimeIsUp, zipVars, ZipShapes, Finishing, HasWindow, Running, At, NewWindow, Removable
<1>16. CASE UNCHANGED zipVars
  BY <1>16 DEF zipVars, ZipShapes, Finishing, HasWindow, Running, At, NewWindow, Removable
<1>17. QED
  BY <1>1, <1>2, <1>3, <1>4, <1>5, <1>6, <1>7, <1>8, <1>9, <1>10, <1>11, <1>12, <1>13, <1>14, <1>15, <1>16 DEF ZipNext

LEMMA ZipStart == ZipInit => ZipInv
BY DEF ZipInit, ZipInv, NamesGrow, RowsApart, FilesKept, LiveWhole, ZipShapes, Finishing, HasWindow, At

\* Archives are named one after another, the rows of an archive are in no other, and until its
\* work directory is removed its rows are in it.
THEOREM ZipInvariant == ZipInit /\ [][ZipNext]_zipVars => []ZipInv
<1>1. ZipInv /\ [ZipNext]_zipVars => ZipInv'
  BY NamesStep, RowsStep, FilesStep, LiveStep, ShapesStep DEF ZipInv
<1>2. QED
  BY <1>1, ZipStart, PTL

\* Wherever a rotation, the close or a snapshot of the archive sink is cut off, and whatever a later
\* run does, a row whose file was closed is in exactly one whole zip or still in a work directory,
\* and live.zip is whole (finish and write_live of out/archive.rs).
THEOREM RowsKeptOnce == ZipInit /\ [][ZipNext]_zipVars => []ArchivesKeepRows
<1>1. ZipInv => ArchivesKeepRows
  <2> SUFFICES ASSUME ZipInv PROVE ArchivesKeepRows
    OBVIOUS
  <2>1. ASSUME NEW row PROVE Cardinality(WholeWith(row)) <= 1
    <3>1. CASE WholeWith(row) = {}
      BY <3>1, FS_EmptySet
    <3>2. ASSUME NEW n \in WholeWith(row) PROVE Cardinality(WholeWith(row)) <= 1
      <4>1. \A m \in WholeWith(row) : m = n
        BY <3>2 DEF WholeWith, ZipInv, FilesKept
      <4>2. WholeWith(row) = {n}
        BY <4>1
      <4>3. QED
        BY <4>2, FS_Singleton
    <3>3. QED
      BY <3>1, <3>2
  <2>2. QED
    BY <2>1 DEF ArchivesKeepRows, ZipInv, FilesKept, LiveWhole
<1>2. QED
  BY <1>1, ZipInvariant, PTL

InTime == second \in 0..MaxSecond

\* Type correctness of the archive sink (out/archive.rs): directories and zips are named for
\* seconds that have been, and a packing is at one of the steps of finish or of write_live.
THEOREM ZipTypes == ZipInit /\ [][ZipNext]_zipVars => []ZipTypeOK
<1>1. ZipInit => InTime
  BY ZipSinkAssumption DEF ZipInit, InTime
<1>2. InTime /\ [ZipNext]_zipVars => InTime'
  <2> SUFFICES ASSUME InTime, [ZipNext]_zipVars PROVE InTime'
    OBVIOUS
  <2>1. CASE SecondPasses
    BY <2>1, ZipSinkAssumption DEF SecondPasses, InTime
  <2>2. ASSUME second' = second PROVE InTime'
    BY <2>2 DEF InTime
  <2>3. CASE StartRun \/ WriteRow \/ Rotate \/ CloseSink
    BY <2>2, <2>3 DEF StartRun, WriteRow, Rotate, CloseSink
  <2>4. CASE CloseFiles \/ CreateZip \/ FinishZip \/ RemoveWork
    BY <2>2, <2>4 DEF CloseFiles, CreateZip, FinishZip, RemoveWork
  <2>5. CASE LiveBegins \/ LiveFinishes \/ LiveRenames \/ LiveFails \/ RunEnds
    BY <2>2, <2>5 DEF LiveBegins, LiveFinishes, LiveRenames, LiveFails, RunEnds
  <2>6. CASE TimeIsUp \/ UNCHANGED zipVars
    BY <2>2, <2>6 DEF TimeIsUp, zipVars
  <2>7. QED
    BY <2>1, <2>3, <2>4, <2>5, <2>6 DEF ZipNext
<1>3. ZipInv /\ InTime => ZipTypeOK
  BY ZipSinkAssumption DEF ZipInv, NamesGrow, ZipShapes, InTime, ZipTypeOK
<1>4. QED
  BY ZipInvariant, <1>1, <1>2, <1>3, PTL

-----------------------------------------------------------------------------
(* The PostgreSQL sink. *)

PgBatch == [id : Nat, rows : Nat, delta : Nat]

RowsOf(s) == [i \in DOMAIN s |-> s[i].rows]
DeltasOf(s) == [i \in DOMAIN s |-> s[i].delta]

\* What the batches of a sequence add up to.
RowsIn(s) == SeqSum(RowsOf(s))
DeltaIn(s) == SeqSum(DeltasOf(s))

LEMMA BatchSums ==
  ASSUME NEW s \in Seq(PgBatch)
  PROVE  /\ RowsOf(s) \in Seq(Int) /\ Len(RowsOf(s)) = Len(s)
         /\ \A i \in 1..Len(s) : RowsOf(s)[i] = s[i].rows
         /\ DeltasOf(s) \in Seq(Int) /\ Len(DeltasOf(s)) = Len(s)
         /\ \A i \in 1..Len(s) : DeltasOf(s)[i] = s[i].delta
         /\ RowsIn(s) \in Int /\ DeltaIn(s) \in Int
<1> DEFINE n == Len(s)
           p == [i \in 1..n |-> s[i].rows]
           q == [i \in 1..n |-> s[i].delta]
<1>1. n \in Nat /\ \A i \in 1..n : s[i] \in PgBatch
  OBVIOUS
<1>2. RowsOf(s) = p /\ DeltasOf(s) = q
  BY DOMAIN s = 1..n DEF RowsOf, DeltasOf
<1> HIDE DEF n
<1>3. p \in Seq(Int) /\ q \in Seq(Int)
  BY <1>1 DEF PgBatch
<1>4. Len(p) = n /\ Len(q) = n
  BY <1>1
<1>5. SeqSum(RowsOf(s)) \in Int /\ SeqSum(DeltasOf(s)) \in Int
  BY <1>2, <1>3, SeqSumBasics
<1>6. QED
  BY <1>2, <1>3, <1>4, <1>5 DEF RowsIn, DeltaIn, n

LEMMA SumsConcat ==
  ASSUME NEW s \in Seq(PgBatch), NEW t \in Seq(PgBatch)
  PROVE  RowsIn(s \o t) = RowsIn(s) + RowsIn(t) /\ DeltaIn(s \o t) = DeltaIn(s) + DeltaIn(t)
<1> DEFINE r == s \o t
<1>1. r \in Seq(PgBatch) /\ Joins(r, s, t) /\ Len(s) \in Nat /\ Len(t) \in Nat
  BY DEF Joins
<1> HIDE DEF r
<1>2. Joins(RowsOf(r), RowsOf(s), RowsOf(t)) /\ Joins(DeltasOf(r), DeltasOf(s), DeltasOf(t))
  <2>1. \A u \in Seq(PgBatch) :
            /\ Len(RowsOf(u)) = Len(u) /\ \A i \in 1..Len(u) : RowsOf(u)[i] = u[i].rows
            /\ Len(DeltasOf(u)) = Len(u) /\ \A i \in 1..Len(u) : DeltasOf(u)[i] = u[i].delta
    BY BatchSums
  <2>2. /\ \A i \in 1..Len(s) : i \in 1..Len(r) /\ r[i] = s[i]
        /\ \A i \in 1..Len(t) : Len(s) + i \in 1..Len(r) /\ r[Len(s) + i] = t[i]
        /\ Len(r) = Len(s) + Len(t)
    BY <1>1 DEF Joins
  <2>3. /\ \A i \in 1..Len(s) : RowsOf(r)[i] = RowsOf(s)[i] /\ DeltasOf(r)[i] = DeltasOf(s)[i]
        /\ \A i \in 1..Len(t) : /\ RowsOf(r)[Len(s) + i] = RowsOf(t)[i]
                               /\ DeltasOf(r)[Len(s) + i] = DeltasOf(t)[i]
    <3>1. ASSUME NEW i \in 1..Len(s)
          PROVE  RowsOf(r)[i] = RowsOf(s)[i] /\ DeltasOf(r)[i] = DeltasOf(s)[i]
      <4>1. /\ RowsOf(r)[i] = r[i].rows /\ RowsOf(s)[i] = s[i].rows
            /\ DeltasOf(r)[i] = r[i].delta /\ DeltasOf(s)[i] = s[i].delta
        BY <1>1, <2>1, <2>2, Zenon
      <4>2. QED
        BY <2>2, <4>1
    <3>2. ASSUME NEW i \in 1..Len(t)
          PROVE  RowsOf(r)[Len(s) + i] = RowsOf(t)[i] /\ DeltasOf(r)[Len(s) + i] = DeltasOf(t)[i]
      <4>1. /\ RowsOf(r)[Len(s) + i] = r[Len(s) + i].rows /\ RowsOf(t)[i] = t[i].rows
            /\ DeltasOf(r)[Len(s) + i] = r[Len(s) + i].delta /\ DeltasOf(t)[i] = t[i].delta
        BY <1>1, <2>1, <2>2, Zenon
      <4>2. QED
        BY <2>2, <4>1
    <3>3. QED
      BY <3>1, <3>2
  <2>4. /\ Len(RowsOf(r)) = Len(r) /\ Len(RowsOf(s)) = Len(s) /\ Len(RowsOf(t)) = Len(t)
        /\ Len(DeltasOf(r)) = Len(r) /\ Len(DeltasOf(s)) = Len(s) /\ Len(DeltasOf(t)) = Len(t)
    BY <1>1, <2>1
  <2>5. Joins(RowsOf(r), RowsOf(s), RowsOf(t))
    BY <2>2, <2>3, <2>4, Zenon DEF Joins
  <2>6. Joins(DeltasOf(r), DeltasOf(s), DeltasOf(t))
    BY <2>2, <2>3, <2>4, Zenon DEF Joins
  <2>7. QED
    BY <2>5, <2>6
<1>3. SeqSum(RowsOf(r)) = SeqSum(RowsOf(s)) + SeqSum(RowsOf(t))
  BY <1>1, <1>2, BatchSums, SeqSumJoins
<1>4. SeqSum(DeltasOf(r)) = SeqSum(DeltasOf(s)) + SeqSum(DeltasOf(t))
  BY <1>1, <1>2, BatchSums, SeqSumJoins
<1>5. QED
  BY <1>3, <1>4 DEF RowsIn, DeltaIn, r

LEMMA SumsOne ==
  ASSUME NEW b \in PgBatch
  PROVE  RowsIn(<<b>>) = b.rows /\ DeltaIn(<<b>>) = b.delta
<1>1. RowsOf(<<b>>) = <<b.rows>> /\ DeltasOf(<<b>>) = <<b.delta>>
  BY DEF RowsOf, DeltasOf
<1>2. b.rows \in Int /\ b.delta \in Int
  BY DEF PgBatch
<1>3. QED
  BY <1>1, <1>2, SeqSumBasics DEF RowsIn, DeltaIn

LEMMA SumsNone == RowsIn(<<>>) = 0 /\ DeltaIn(<<>>) = 0
<1>1. RowsOf(<<>>) = <<>> /\ DeltasOf(<<>>) = <<>>
  BY DEF RowsOf, DeltasOf
<1>2. QED
  BY <1>1, SeqSumBasics DEF RowsIn, DeltaIn

LEMMA SumsAppend ==
  ASSUME NEW s \in Seq(PgBatch), NEW b \in PgBatch
  PROVE  RowsIn(Append(s, b)) = RowsIn(s) + b.rows /\ DeltaIn(Append(s, b)) = DeltaIn(s) + b.delta
<1>1. Append(s, b) = s \o <<b>> /\ <<b>> \in Seq(PgBatch)
  OBVIOUS
<1>2. RowsIn(s \o <<b>>) = RowsIn(s) + RowsIn(<<b>>) /\ DeltaIn(s \o <<b>>) = DeltaIn(s) + DeltaIn(<<b>>)
  BY <1>1, SumsConcat
<1>3. QED
  BY <1>1, <1>2, SumsOne

LEMMA SumsTail ==
  ASSUME NEW s \in Seq(PgBatch), s # <<>>
  PROVE  RowsIn(s) = Head(s).rows + RowsIn(Tail(s)) /\ DeltaIn(s) = Head(s).delta + DeltaIn(Tail(s))
<1>1. /\ s = <<Head(s)>> \o Tail(s)
      /\ Head(s) \in PgBatch /\ <<Head(s)>> \in Seq(PgBatch) /\ Tail(s) \in Seq(PgBatch)
  OBVIOUS
<1>2. /\ RowsIn(<<Head(s)>> \o Tail(s)) = RowsIn(<<Head(s)>>) + RowsIn(Tail(s))
      /\ DeltaIn(<<Head(s)>> \o Tail(s)) = DeltaIn(<<Head(s)>>) + DeltaIn(Tail(s))
  BY <1>1, SumsConcat
<1>3. RowsIn(<<Head(s)>>) = Head(s).rows /\ DeltaIn(<<Head(s)>>) = Head(s).delta
  BY <1>1, SumsOne
<1>4. QED
  BY <1>1, <1>2, <1>3, Zenon

\* SumOf, which adds from the left, is that sum.
LEMMA SumOfIs ==
  ASSUME NEW s \in Seq(PgBatch)
  PROVE  SumOf(LAMBDA b : b.rows, s) = RowsIn(s) /\ SumOf(LAMBDA b : b.delta, s) = DeltaIn(s)
<1> DEFINE D == DOMAIN s
<1>1. IsFiniteSet(D) /\ D \subseteq Int /\ \A i \in D : s[i] \in PgBatch
  BY SeqFinite
<1>2. \A t \in SUBSET D : t # {} => Max(t) \in t
  <2> HIDE DEF D
  <2> SUFFICES ASSUME NEW t \in SUBSET D, t # {} PROVE Max(t) \in t
    OBVIOUS
  <2>1. IsFiniteSet(t) /\ t \subseteq Int
    BY <1>1, FS_Subset
  <2>2. QED
    BY <2>1, MaxOfFinite
<1>3. SumOf(LAMBDA b : b.rows, s) = RowsIn(s)
  <2> DEFINE F == RowsOf(s)
             adds(q) == [t \in SUBSET D |-> IF t = {} THEN 0 ELSE q[t \ {Max(t)}] + s[Max(t)].rows]
             g == CHOOSE q : q = adds(q)
  <2>1. F \in [D -> Int] /\ \A i \in D : F[i] = s[i].rows
    BY <1>1 DEF RowsOf, PgBatch
  <2>2. ASSUME NEW q PROVE SumsLeft(q, F, D) <=> q = adds(q)
    <3> HIDE DEF F
    <3>1. \A t \in SUBSET D : (IF t = {} THEN 0 ELSE q[t \ {Max(t)}] + F[Max(t)])
                              = (IF t = {} THEN 0 ELSE q[t \ {Max(t)}] + s[Max(t)].rows)
      BY <1>2, <2>1
    <3>2. QED
      BY <3>1, Zenon DEF SumsLeft
  <2>3. SumOf(LAMBDA b : b.rows, s) = g[D]
    BY DEF SumOf, FoldLeft, MapThenFoldSet
  <2> HIDE DEF F, D, adds
  <2>4. \E q : q = adds(q)
    BY <1>1, <2>1, <2>2, SumsLeftChosen
  <2>5. g = adds(g)
    BY <2>4
  <2> HIDE DEF g
  <2>6. SumsLeft(g, F, D)
    BY <2>2, <2>5
  <2>7. g[D] = SumFunctionOnSet(F, D)
    BY <1>1, <2>1, <2>6, SumsLeftChosen
  <2>8. DOMAIN F = D
    BY <2>1
  <2>9. QED
    BY <2>3, <2>7, <2>8, Zenon DEF RowsIn, SeqSum, F
<1>4. SumOf(LAMBDA b : b.delta, s) = DeltaIn(s)
  <2> DEFINE F == DeltasOf(s)
             adds(q) == [t \in SUBSET D |-> IF t = {} THEN 0 ELSE q[t \ {Max(t)}] + s[Max(t)].delta]
             g == CHOOSE q : q = adds(q)
  <2>1. F \in [D -> Int] /\ \A i \in D : F[i] = s[i].delta
    BY <1>1 DEF DeltasOf, PgBatch
  <2>2. ASSUME NEW q PROVE SumsLeft(q, F, D) <=> q = adds(q)
    <3> HIDE DEF F
    <3>1. \A t \in SUBSET D : (IF t = {} THEN 0 ELSE q[t \ {Max(t)}] + F[Max(t)])
                              = (IF t = {} THEN 0 ELSE q[t \ {Max(t)}] + s[Max(t)].delta)
      BY <1>2, <2>1
    <3>2. QED
      BY <3>1, Zenon DEF SumsLeft
  <2>3. SumOf(LAMBDA b : b.delta, s) = g[D]
    BY DEF SumOf, FoldLeft, MapThenFoldSet
  <2> HIDE DEF F, D, adds
  <2>4. \E q : q = adds(q)
    BY <1>1, <2>1, <2>2, SumsLeftChosen
  <2>5. g = adds(g)
    BY <2>4
  <2> HIDE DEF g
  <2>6. SumsLeft(g, F, D)
    BY <2>2, <2>5
  <2>7. g[D] = SumFunctionOnSet(F, D)
    BY <1>1, <2>1, <2>6, SumsLeftChosen
  <2>8. DOMAIN F = D
    BY <2>1
  <2>9. QED
    BY <2>3, <2>7, <2>8, Zenon DEF DeltaIn, SeqSum, F
<1>5. QED
  BY <1>3, <1>4

\* The shapes of the sink's state.
PgNumbers ==
    /\ counted \in Nat /\ rows_written \in Nat
    /\ sink = [fold |-> sink.fold, prev |-> sink.prev, dropped |-> sink.dropped, flushed |-> sink.flushed]
    /\ sink.fold \in Nat /\ sink.prev \in Nat /\ sink.dropped \in Nat /\ sink.flushed \in Nat
    /\ sink.prev <= counted

PgPlaces ==
    /\ queue \in Seq(PgBatch) /\ stored \in Seq(PgBatch)
    /\ pg_hist = [refused |-> pg_hist.refused, skipped |-> pg_hist.skipped, failed |-> pg_hist.failed]
    /\ pg_hist.refused \in Seq(PgBatch) /\ pg_hist.skipped \in Seq(PgBatch) /\ pg_hist.failed \in Seq(PgBatch)
    /\ pg_writer = [pc |-> pg_writer.pc, client |-> pg_writer.client, batch |-> pg_writer.batch]
    /\ pg_writer.pc \in {"waiting", "received", "writing", "ended"}

Holding == pg_writer.pc \in {"received", "writing"}

\* The queue, the refusals and the writer's batch.
PgBounds ==
    /\ Len(queue) <= QUEUE_DEPTH /\ sink.dropped = Len(pg_hist.refused)
    /\ Holding => pg_writer.batch \in PgBatch

HeldRows == IF Holding THEN pg_writer.batch.rows ELSE 0
HeldDelta == IF Holding THEN pg_writer.batch.delta ELSE 0

\* What is folded, and each place a batch can be in, add up to what was written and counted.
PgSums ==
    /\ rows_written = sink.fold + RowsIn(stored) + RowsIn(pg_hist.refused) + RowsIn(pg_hist.skipped)
                      + RowsIn(pg_hist.failed) + RowsIn(queue) + HeldRows
    /\ sink.prev = DeltaIn(stored) + DeltaIn(pg_hist.refused) + DeltaIn(pg_hist.skipped)
                   + DeltaIn(pg_hist.failed) + DeltaIn(queue) + HeldDelta

\* Intervals are stored, held and queued in the order they were flushed.
PgOrder ==
    /\ \A i, j \in DOMAIN stored : i < j => stored[i].id < stored[j].id
    /\ \A i, j \in DOMAIN queue : i < j => queue[i].id < queue[j].id
    /\ \A i \in DOMAIN queue : queue[i].id <= sink.flushed
    /\ \A i \in DOMAIN stored : stored[i].id <= sink.flushed
    /\ \A i \in DOMAIN stored, j \in DOMAIN queue : stored[i].id < queue[j].id
    /\ Holding => /\ pg_writer.batch.id <= sink.flushed
                  /\ \A i \in DOMAIN stored : stored[i].id < pg_writer.batch.id
                  /\ \A j \in DOMAIN queue : pg_writer.batch.id < queue[j].id

PgShapes == PgNumbers /\ PgPlaces

PgInv == PgShapes /\ PgBounds /\ PgSums /\ PgOrder

LEMMA PgShapesStep == PgInv /\ [PgNext]_pgVars => PgShapes'
<1> SUFFICES ASSUME PgInv, [PgNext]_pgVars PROVE PgShapes'
  OBVIOUS
<1> USE PgSinkAssumption DEF PgInv
<1>1. CASE Count
  BY <1>1 DEF Count, PgShapes, PgNumbers, PgPlaces
<1>2. CASE WriteSets
  <2>1. sink' = [fold |-> sink.fold + 1, prev |-> sink.prev, dropped |-> sink.dropped, flushed |-> sink.flushed]
    BY <1>2 DEF WriteSets, PgShapes, PgNumbers, PgPlaces
  <2>2. rows_written' = rows_written + 1 /\ UNCHANGED <<counted, queue, shutdown, pg_writer, pg_main, stored, pg_hist>>
    BY <1>2 DEF WriteSets
  <2>3. QED
    BY SMTT(30), <2>1, <2>2 DEF PgShapes, PgNumbers, PgPlaces
<1>3. CASE Flush
  <2>1. NextBatch \in PgBatch
    BY SMTT(30) DEF NextBatch, PgBatch, PgShapes, PgNumbers, PgPlaces
  <2>2. /\ sink' = [fold |-> 0, prev |-> counted, dropped |-> sink'.dropped, flushed |-> sink.flushed + 1]
        /\ sink'.dropped \in Nat
    <3>1. sink' = [sink EXCEPT !.flushed = @ + 1, !.fold = 0, !.prev = counted,
                               !.dropped = @ + IF QueueFull THEN 1 ELSE 0]
      BY <1>3 DEF Flush, Flushed
    <3>2. sink' = [fold |-> 0, prev |-> counted, dropped |-> sink.dropped + (IF QueueFull THEN 1 ELSE 0),
                   flushed |-> sink.flushed + 1]
      BY <3>1 DEF PgShapes, PgNumbers, PgPlaces
    <3>3. sink.dropped + (IF QueueFull THEN 1 ELSE 0) \in Nat
      BY SMTT(30) DEF PgShapes, PgNumbers, PgPlaces
    <3>4. QED
      BY <3>2, <3>3
  <2>3. CASE QueueFull
    <3>1. pg_hist' = [refused |-> Append(pg_hist.refused, NextBatch), skipped |-> pg_hist.skipped, failed |-> pg_hist.failed]
      BY <1>3, <2>3 DEF Flush, PgShapes, PgNumbers, PgPlaces
    <3>2. Append(pg_hist.refused, NextBatch) \in Seq(PgBatch)
      BY <2>1 DEF PgShapes, PgNumbers, PgPlaces
    <3>3. UNCHANGED <<counted, rows_written, shutdown, pg_writer, stored, queue>>
      BY <1>3, <2>3 DEF Flush
    <3>4. /\ pg_hist' = [refused |-> pg_hist'.refused, skipped |-> pg_hist'.skipped, failed |-> pg_hist'.failed]
          /\ pg_hist'.refused \in Seq(PgBatch) /\ pg_hist'.skipped \in Seq(PgBatch) /\ pg_hist'.failed \in Seq(PgBatch)
      BY <3>1, <3>2 DEF PgShapes, PgNumbers, PgPlaces
    <3>5. PgNumbers'
      BY <2>2, <3>3 DEF PgShapes, PgNumbers
    <3>6. PgPlaces'
      BY <3>3, <3>4 DEF PgShapes, PgPlaces
    <3>7. QED
      BY <3>5, <3>6 DEF PgShapes
  <2>4. CASE ~ QueueFull
    <3>1. queue' = Append(queue, NextBatch) /\ UNCHANGED <<counted, rows_written, shutdown, pg_writer, stored, pg_hist>>
      BY <1>3, <2>4 DEF Flush
    <3>2. queue' \in Seq(PgBatch)
      BY <2>1, <3>1 DEF PgShapes, PgNumbers, PgPlaces
    <3>3. UNCHANGED <<counted, rows_written, shutdown, pg_writer, stored, pg_hist>>
      BY <3>1
    <3>4. PgNumbers'
      BY <2>2, <3>3 DEF PgShapes, PgNumbers
    <3>5. PgPlaces'
      BY <3>2, <3>3 DEF PgShapes, PgPlaces
    <3>6. QED
      BY <3>4, <3>5 DEF PgShapes
  <2>5. QED
    BY <2>3, <2>4
<1>4. CASE SetShutdown
  BY <1>4 DEF SetShutdown, PgShapes, PgNumbers, PgPlaces, PgBounds, Holding, PgBatch
<1>5. CASE DropSender
  BY <1>5 DEF DropSender, PgShapes, PgNumbers, PgPlaces, PgBounds, Holding, PgBatch
<1>6. CASE JoinWriter
  BY <1>6 DEF JoinWriter, PgShapes, PgNumbers, PgPlaces, PgBounds, Holding, PgBatch
<1>7. CASE PgClosed
  BY <1>7 DEF PgClosed, pgVars, PgShapes, PgNumbers, PgPlaces, PgBounds, Holding, PgBatch
<1>8. CASE Receive
  <2>1. queue' \in Seq(PgBatch)
    BY <1>8 DEF Receive, PgShapes, PgNumbers, PgPlaces
  <2>2. /\ pg_writer' = [pc |-> pg_writer'.pc, client |-> pg_writer'.client, batch |-> pg_writer'.batch]
        /\ pg_writer'.pc \in {"received", "writing"}
        /\ UNCHANGED <<counted, rows_written, sink, shutdown, pg_main, stored, pg_hist>>
    BY <1>8 DEF Receive, PgShapes, PgNumbers, PgPlaces
  <2>3. QED
    BY <2>1, <2>2 DEF PgShapes, PgNumbers, PgPlaces
<1>9. CASE EndWriter
  BY <1>9 DEF EndWriter, PgShapes, PgNumbers, PgPlaces, PgBounds, Holding, PgBatch
<1>10. CASE GiveUp
  <2>1. pg_writer.batch \in PgBatch
    BY <1>10 DEF GiveUp, PgBounds, Holding
  <2>2. /\ pg_writer' = [pc |-> "waiting", client |-> pg_writer.client, batch |-> pg_writer.batch]
        /\ UNCHANGED <<counted, rows_written, sink, queue, shutdown, pg_main, stored>>
    BY <1>10 DEF GiveUp, PgShapes, PgNumbers, PgPlaces
  <2>3. /\ pg_hist' = [refused |-> pg_hist'.refused, skipped |-> pg_hist'.skipped, failed |-> pg_hist'.failed]
        /\ pg_hist'.refused = pg_hist.refused
        /\ pg_hist'.skipped \in {pg_hist.skipped, Append(pg_hist.skipped, pg_writer.batch)}
        /\ pg_hist'.failed \in {pg_hist.failed, Append(pg_hist.failed, pg_writer.batch)}
    BY <1>10 DEF GiveUp, PgShapes, PgNumbers, PgPlaces
  <2>a. \A s \in Seq(PgBatch) : Append(s, pg_writer.batch) \in Seq(PgBatch)
    BY <2>1
  <2>4. pg_hist'.skipped \in Seq(PgBatch) /\ pg_hist'.failed \in Seq(PgBatch)
    BY <2>a, <2>3 DEF PgShapes, PgNumbers, PgPlaces
  <2>5. QED
    BY <2>2, <2>3, <2>4 DEF PgShapes, PgNumbers, PgPlaces
<1>11. CASE Connect
  BY <1>11 DEF Connect, PgShapes, PgNumbers, PgPlaces, PgBounds, Holding, PgBatch
<1>12. CASE WriteBatch
  <2>1. pg_writer.batch \in PgBatch
    BY <1>12 DEF WriteBatch, PgBounds, Holding
  <2>2. /\ pg_writer' = [pc |-> "waiting", client |-> pg_writer'.client, batch |-> pg_writer.batch]
        /\ UNCHANGED <<counted, rows_written, sink, queue, shutdown, pg_main>>
    BY <1>12 DEF WriteBatch, PgShapes, PgNumbers, PgPlaces
  <2>3. /\ pg_hist' = [refused |-> pg_hist'.refused, skipped |-> pg_hist'.skipped, failed |-> pg_hist'.failed]
        /\ pg_hist'.refused = pg_hist.refused /\ pg_hist'.skipped = pg_hist.skipped
        /\ pg_hist'.failed \in {pg_hist.failed, Append(pg_hist.failed, pg_writer.batch)}
        /\ stored' \in {stored, Append(stored, pg_writer.batch)}
    BY <1>12 DEF WriteBatch, PgShapes, PgNumbers, PgPlaces
  <2>a. \A s \in Seq(PgBatch) : Append(s, pg_writer.batch) \in Seq(PgBatch)
    BY <2>1
  <2>4. stored' \in Seq(PgBatch) /\ pg_hist'.failed \in Seq(PgBatch)
    BY <2>a, <2>3 DEF PgShapes, PgNumbers, PgPlaces
  <2>5. QED
    BY <2>2, <2>3, <2>4 DEF PgShapes, PgNumbers, PgPlaces
<1>13. CASE UNCHANGED pgVars
  BY <1>13 DEF pgVars, PgShapes, PgNumbers, PgPlaces, PgBounds, Holding, PgBatch
<1>14. QED
  BY <1>1, <1>2, <1>3, <1>4, <1>5, <1>6, <1>7, <1>8, <1>9, <1>10, <1>11, <1>12, <1>13 DEF PgNext

LEMMA PgBoundsStep == PgInv /\ [PgNext]_pgVars => PgBounds'
<1> SUFFICES ASSUME PgInv, [PgNext]_pgVars PROVE PgBounds'
  OBVIOUS
<1> USE PgSinkAssumption DEF PgInv
<1>1. CASE Count
  BY <1>1 DEF Count, PgShapes, PgNumbers, PgPlaces, PgBounds, Holding
<1>2. CASE WriteSets
  BY <1>2 DEF WriteSets, PgShapes, PgNumbers, PgPlaces, PgBounds, Holding
<1>3. CASE Flush
  <2>1. Len(queue) \in Nat /\ Len(pg_hist.refused) \in Nat /\ QUEUE_DEPTH \in Nat \ {0}
    BY DEF PgShapes, PgPlaces
  <2>2. CASE QueueFull
    <3>1. sink'.dropped = sink.dropped + 1 /\ queue' = queue /\ pg_writer' = pg_writer
      BY <1>3, <2>2 DEF Flush, Flushed, PgShapes, PgNumbers
    <3>2. pg_hist'.refused = Append(pg_hist.refused, NextBatch)
      BY <1>3, <2>2 DEF Flush, PgShapes, PgPlaces
    <3>3. Len(Append(pg_hist.refused, NextBatch)) = Len(pg_hist.refused) + 1
      BY DEF PgShapes, PgPlaces
    <3>4. QED
      BY <2>1, <3>1, <3>2, <3>3 DEF PgBounds, Holding
  <2>3. CASE ~ QueueFull
    <3>1. /\ sink'.dropped = sink.dropped /\ pg_hist' = pg_hist /\ pg_writer' = pg_writer
          /\ queue' = Append(queue, NextBatch)
      BY <1>3, <2>3 DEF Flush, Flushed, PgShapes, PgNumbers
    <3>2. Len(Append(queue, NextBatch)) = Len(queue) + 1
      BY DEF PgShapes, PgPlaces
    <3>3. QED
      BY <2>1, <2>3, <3>1, <3>2 DEF PgBounds, Holding, QueueFull
  <2>4. QED
    BY <2>2, <2>3
<1>4. CASE SetShutdown
  BY <1>4 DEF SetShutdown, PgShapes, PgNumbers, PgPlaces, PgBounds, Holding
<1>5. CASE DropSender
  BY <1>5 DEF DropSender, PgShapes, PgNumbers, PgPlaces, PgBounds, Holding
<1>6. CASE JoinWriter
  BY <1>6 DEF JoinWriter, PgShapes, PgNumbers, PgPlaces, PgBounds, Holding
<1>7. CASE PgClosed
  BY <1>7 DEF PgClosed, pgVars, PgShapes, PgNumbers, PgPlaces, PgBounds, Holding
<1>8. CASE Receive
  BY <1>8 DEF Receive, PgShapes, PgNumbers, PgPlaces, PgBounds, Holding
<1>9. CASE EndWriter
  BY <1>9 DEF EndWriter, PgShapes, PgNumbers, PgPlaces, PgBounds, Holding
<1>10. CASE GiveUp
  BY <1>10 DEF GiveUp, PgShapes, PgNumbers, PgPlaces, PgBounds, Holding
<1>11. CASE Connect
  BY <1>11 DEF Connect, PgShapes, PgNumbers, PgPlaces, PgBounds, Holding
<1>12. CASE WriteBatch
  BY <1>12 DEF WriteBatch, PgShapes, PgNumbers, PgPlaces, PgBounds, Holding
<1>13. CASE UNCHANGED pgVars
  BY <1>13 DEF pgVars, PgShapes, PgNumbers, PgPlaces, PgBounds, Holding
<1>14. QED
  BY <1>1, <1>2, <1>3, <1>4, <1>5, <1>6, <1>7, <1>8, <1>9, <1>10, <1>11, <1>12, <1>13 DEF PgNext

LEMMA PgTypedSums == PgInv =>
  /\ RowsIn(stored) \in Int /\ RowsIn(pg_hist.refused) \in Int /\ RowsIn(pg_hist.skipped) \in Int
  /\ RowsIn(pg_hist.failed) \in Int /\ RowsIn(queue) \in Int /\ HeldRows \in Int
  /\ DeltaIn(stored) \in Int /\ DeltaIn(pg_hist.refused) \in Int /\ DeltaIn(pg_hist.skipped) \in Int
  /\ DeltaIn(pg_hist.failed) \in Int /\ DeltaIn(queue) \in Int /\ HeldDelta \in Int
  /\ counted \in Int /\ rows_written \in Int /\ sink.fold \in Int /\ sink.prev \in Int
<1> SUFFICES ASSUME PgInv
             PROVE  /\ RowsIn(stored) \in Int /\ RowsIn(pg_hist.refused) \in Int /\ RowsIn(pg_hist.skipped) \in Int
                    /\ RowsIn(pg_hist.failed) \in Int /\ RowsIn(queue) \in Int /\ HeldRows \in Int
                    /\ DeltaIn(stored) \in Int /\ DeltaIn(pg_hist.refused) \in Int /\ DeltaIn(pg_hist.skipped) \in Int
                    /\ DeltaIn(pg_hist.failed) \in Int /\ DeltaIn(queue) \in Int /\ HeldDelta \in Int
                    /\ counted \in Int /\ rows_written \in Int /\ sink.fold \in Int /\ sink.prev \in Int
  OBVIOUS
<1>1. \A s \in Seq(PgBatch) : RowsIn(s) \in Int /\ DeltaIn(s) \in Int
  BY BatchSums
<1>2. /\ stored \in Seq(PgBatch) /\ pg_hist.refused \in Seq(PgBatch) /\ pg_hist.skipped \in Seq(PgBatch)
      /\ pg_hist.failed \in Seq(PgBatch) /\ queue \in Seq(PgBatch)
  BY DEF PgInv, PgShapes, PgNumbers, PgPlaces
<1>3. HeldRows \in Int /\ HeldDelta \in Int
  BY DEF PgInv, PgBounds, PgBatch, HeldRows, HeldDelta
<1>4. counted \in Int /\ rows_written \in Int /\ sink.fold \in Int /\ sink.prev \in Int
  BY DEF PgInv, PgShapes, PgNumbers, PgPlaces
<1>5. QED
  BY <1>1, <1>2, <1>3, <1>4

LEMMA PgSumsStep == PgInv /\ [PgNext]_pgVars => PgSums'
<1> SUFFICES ASSUME PgInv, [PgNext]_pgVars PROVE PgSums'
  OBVIOUS
<1> USE PgSinkAssumption DEF PgInv
<1>1. CASE Count
  <2>1. /\ UNCHANGED <<rows_written, sink, stored, pg_hist, queue>>
        /\ HeldRows' = HeldRows /\ HeldDelta' = HeldDelta
    BY <1>1 DEF Count, PgShapes, PgNumbers, PgPlaces, HeldRows, HeldDelta, Holding
  <2>2. QED
    BY <2>1 DEF PgSums
<1>2. CASE WriteSets
  <2>1. /\ rows_written' = rows_written + 1 /\ sink'.fold = sink.fold + 1 /\ sink'.prev = sink.prev
        /\ UNCHANGED <<stored, queue, pg_hist>> /\ HeldRows' = HeldRows /\ HeldDelta' = HeldDelta
    BY <1>2 DEF WriteSets, PgShapes, PgNumbers, PgPlaces, HeldRows, HeldDelta, Holding
  <2>2. QED
    BY <2>1, PgTypedSums DEF PgSums
<1>3. CASE Flush
  <2>1. NextBatch \in PgBatch /\ NextBatch.rows = sink.fold /\ NextBatch.delta = counted - sink.prev
    BY SMTT(30) DEF NextBatch, PgBatch, PgShapes, PgNumbers, PgPlaces
  <2>2. CASE QueueFull
    <3>1. /\ RowsIn(pg_hist'.refused) = RowsIn(pg_hist.refused) + sink.fold
          /\ DeltaIn(pg_hist'.refused) = DeltaIn(pg_hist.refused) + (counted - sink.prev)
      BY <1>3, <2>1, <2>2, SumsAppend DEF Flush, PgShapes, PgNumbers, PgPlaces
    <3>2. /\ sink'.fold = 0 /\ sink'.prev = counted /\ UNCHANGED <<rows_written, queue, stored>>
          /\ pg_hist'.skipped = pg_hist.skipped /\ pg_hist'.failed = pg_hist.failed
          /\ HeldRows' = HeldRows /\ HeldDelta' = HeldDelta
      BY <1>3, <2>2 DEF Flush, Flushed, PgShapes, PgNumbers, PgPlaces, HeldRows, HeldDelta, Holding
    <3>3. /\ rows_written = 0 + RowsIn(stored) + (RowsIn(pg_hist.refused) + sink.fold) + RowsIn(pg_hist.skipped)
                           + RowsIn(pg_hist.failed) + RowsIn(queue) + HeldRows
          /\ counted = DeltaIn(stored) + (DeltaIn(pg_hist.refused) + (counted - sink.prev))
                        + DeltaIn(pg_hist.skipped) + DeltaIn(pg_hist.failed) + DeltaIn(queue) + HeldDelta
      BY PgTypedSums DEF PgSums
    <3>4. QED
      BY <3>1, <3>2, <3>3 DEF PgSums
  <2>3. CASE ~ QueueFull
    <3>1. /\ RowsIn(queue') = RowsIn(queue) + sink.fold
          /\ DeltaIn(queue') = DeltaIn(queue) + (counted - sink.prev)
      BY <1>3, <2>1, <2>3, SumsAppend DEF Flush, PgShapes, PgNumbers, PgPlaces
    <3>2. /\ sink'.fold = 0 /\ sink'.prev = counted /\ UNCHANGED <<rows_written, stored>>
          /\ pg_hist'.refused = pg_hist.refused /\ pg_hist'.skipped = pg_hist.skipped /\ pg_hist'.failed = pg_hist.failed
          /\ HeldRows' = HeldRows /\ HeldDelta' = HeldDelta
      BY <1>3, <2>3 DEF Flush, Flushed, PgShapes, PgNumbers, PgPlaces, HeldRows, HeldDelta, Holding
    <3>3. QED
      BY <3>1, <3>2, PgTypedSums DEF PgSums
  <2>4. QED
    BY <2>2, <2>3
<1>4. CASE SetShutdown
  <2>1. /\ UNCHANGED <<rows_written, sink, stored, pg_hist, queue>>
        /\ HeldRows' = HeldRows /\ HeldDelta' = HeldDelta
    BY <1>4 DEF SetShutdown, PgShapes, PgNumbers, PgPlaces, HeldRows, HeldDelta, Holding
  <2>2. QED
    BY <2>1 DEF PgSums
<1>5. CASE DropSender
  <2>1. /\ UNCHANGED <<rows_written, sink, stored, pg_hist, queue>>
        /\ HeldRows' = HeldRows /\ HeldDelta' = HeldDelta
    BY <1>5 DEF DropSender, PgShapes, PgNumbers, PgPlaces, HeldRows, HeldDelta, Holding
  <2>2. QED
    BY <2>1 DEF PgSums
<1>6. CASE JoinWriter
  <2>1. /\ UNCHANGED <<rows_written, sink, stored, pg_hist, queue>>
        /\ HeldRows' = HeldRows /\ HeldDelta' = HeldDelta
    BY <1>6 DEF JoinWriter, PgShapes, PgNumbers, PgPlaces, HeldRows, HeldDelta, Holding
  <2>2. QED
    BY <2>1 DEF PgSums
<1>7. CASE PgClosed
  <2>1. /\ UNCHANGED <<rows_written, sink, stored, pg_hist, queue>>
        /\ HeldRows' = HeldRows /\ HeldDelta' = HeldDelta
    BY <1>7 DEF PgClosed, PgShapes, PgNumbers, PgPlaces, HeldRows, HeldDelta, Holding, pgVars
  <2>2. QED
    BY <2>1 DEF PgSums
<1>8. CASE Receive
  <2>1. /\ queue # <<>> /\ queue' = Tail(queue) /\ HeldRows = 0 /\ HeldDelta = 0
        /\ HeldRows' = Head(queue).rows /\ HeldDelta' = Head(queue).delta
        /\ UNCHANGED <<rows_written, sink, stored, pg_hist>>
    BY <1>8 DEF Receive, Holding, PgShapes, PgNumbers, PgPlaces, HeldRows, HeldDelta
  <2>2. /\ RowsIn(queue) = Head(queue).rows + RowsIn(queue')
        /\ DeltaIn(queue) = Head(queue).delta + DeltaIn(queue')
    BY <2>1, SumsTail DEF PgShapes, PgNumbers, PgPlaces
  <2>3. Head(queue) \in PgBatch /\ queue' \in Seq(PgBatch)
    BY SMTT(30), <2>1 DEF PgShapes, PgNumbers, PgPlaces
  <2>4. Head(queue).rows \in Nat /\ Head(queue).delta \in Nat /\ RowsIn(queue') \in Int /\ DeltaIn(queue') \in Int
    BY <2>3, BatchSums DEF PgBatch
  <2>5. /\ UNCHANGED <<rows_written, stored>> /\ sink'.fold = sink.fold /\ sink'.prev = sink.prev
        /\ pg_hist'.refused = pg_hist.refused /\ pg_hist'.skipped = pg_hist.skipped /\ pg_hist'.failed = pg_hist.failed
        /\ HeldRows = 0 /\ HeldDelta = 0 /\ HeldRows' = Head(queue).rows /\ HeldDelta' = Head(queue).delta
    BY <2>1
  <2>6. QED
    BY <2>2, <2>4, <2>5, PgTypedSums DEF PgSums
<1>9. CASE EndWriter
  <2>1. /\ UNCHANGED <<rows_written, sink, stored, pg_hist, queue>>
        /\ HeldRows' = HeldRows /\ HeldDelta' = HeldDelta
    BY <1>9 DEF EndWriter, PgShapes, PgNumbers, PgPlaces, HeldRows, HeldDelta, Holding
  <2>2. QED
    BY <2>1 DEF PgSums
<1>10. CASE GiveUp
  <2>1. pg_writer.batch \in PgBatch /\ HeldRows = pg_writer.batch.rows /\ HeldDelta = pg_writer.batch.delta
        /\ HeldRows' = 0 /\ HeldDelta' = 0
        /\ UNCHANGED <<rows_written, sink, stored, queue>>
    BY <1>10 DEF GiveUp, Holding, PgShapes, PgNumbers, PgPlaces, PgBounds, HeldRows, HeldDelta
  <2>2. CASE shutdown
    <3>1. /\ RowsIn(pg_hist'.skipped) = RowsIn(pg_hist.skipped) + pg_writer.batch.rows
          /\ DeltaIn(pg_hist'.skipped) = DeltaIn(pg_hist.skipped) + pg_writer.batch.delta
      BY <1>10, <2>1, <2>2, SumsAppend DEF GiveUp, PgShapes, PgNumbers, PgPlaces
    <3>2. pg_hist'.refused = pg_hist.refused /\ pg_hist'.failed = pg_hist.failed
      BY <1>10, <2>2 DEF GiveUp, PgShapes, PgNumbers, PgPlaces
    <3>3. QED
      BY <2>1, <3>1, <3>2, PgTypedSums DEF PgSums
  <2>3. CASE ~ shutdown
    <3>1. /\ RowsIn(pg_hist'.failed) = RowsIn(pg_hist.failed) + pg_writer.batch.rows
          /\ DeltaIn(pg_hist'.failed) = DeltaIn(pg_hist.failed) + pg_writer.batch.delta
      BY <1>10, <2>1, <2>3, SumsAppend DEF GiveUp, PgShapes, PgNumbers, PgPlaces
    <3>2. pg_hist'.refused = pg_hist.refused /\ pg_hist'.skipped = pg_hist.skipped
      BY <1>10, <2>3 DEF GiveUp, PgShapes, PgNumbers, PgPlaces
    <3>3. QED
      BY <2>1, <3>1, <3>2, PgTypedSums DEF PgSums
  <2>4. QED
    BY <2>2, <2>3
<1>11. CASE Connect
  <2>1. /\ UNCHANGED <<rows_written, sink, stored, pg_hist, queue>>
        /\ HeldRows' = HeldRows /\ HeldDelta' = HeldDelta
    BY <1>11 DEF Connect, PgShapes, PgNumbers, PgPlaces, HeldRows, HeldDelta, Holding
  <2>2. QED
    BY <2>1 DEF PgSums
<1>12. CASE WriteBatch
  <2>1. pg_writer.batch \in PgBatch /\ HeldRows = pg_writer.batch.rows /\ HeldDelta = pg_writer.batch.delta
        /\ HeldRows' = 0 /\ HeldDelta' = 0
        /\ UNCHANGED <<rows_written, sink, queue>>
    BY <1>12 DEF WriteBatch, Holding, PgShapes, PgNumbers, PgPlaces, PgBounds, HeldRows, HeldDelta
  <2>2. CASE stored' = Append(stored, pg_writer.batch) /\ UNCHANGED pg_hist
    <3>1. /\ RowsIn(stored') = RowsIn(stored) + pg_writer.batch.rows
          /\ DeltaIn(stored') = DeltaIn(stored) + pg_writer.batch.delta
      BY <2>1, <2>2, SumsAppend DEF PgShapes, PgNumbers, PgPlaces
    <3>2. pg_hist'.refused = pg_hist.refused /\ pg_hist'.skipped = pg_hist.skipped /\ pg_hist'.failed = pg_hist.failed
      BY <2>2
    <3>3. QED
      BY <2>1, <3>1, <3>2, PgTypedSums DEF PgSums
  <2>3. CASE pg_hist' = [pg_hist EXCEPT !.failed = Append(@, pg_writer.batch)] /\ UNCHANGED stored
    <3>1. /\ RowsIn(pg_hist'.failed) = RowsIn(pg_hist.failed) + pg_writer.batch.rows
          /\ DeltaIn(pg_hist'.failed) = DeltaIn(pg_hist.failed) + pg_writer.batch.delta
      BY <2>1, <2>3, SumsAppend DEF PgShapes, PgNumbers, PgPlaces
    <3>2. pg_hist'.refused = pg_hist.refused /\ pg_hist'.skipped = pg_hist.skipped
      BY <2>3 DEF PgShapes, PgNumbers, PgPlaces
    <3>3. UNCHANGED stored
      BY <2>3
    <3>4. QED
      BY <2>1, <3>1, <3>2, <3>3, PgTypedSums DEF PgSums
  <2>4. QED
    BY <1>12, <2>2, <2>3 DEF WriteBatch
<1>13. CASE UNCHANGED pgVars
  BY <1>13 DEF pgVars, PgSums, HeldRows, HeldDelta, Holding
<1>14. QED
  BY <1>1, <1>2, <1>3, <1>4, <1>5, <1>6, <1>7, <1>8, <1>9, <1>10, <1>11, <1>12, <1>13 DEF PgNext

LEMMA PgOrderStep == PgInv /\ [PgNext]_pgVars => PgOrder'
<1> SUFFICES ASSUME PgInv, [PgNext]_pgVars PROVE PgOrder'
  OBVIOUS
<1> USE PgSinkAssumption DEF PgInv
<1>1. CASE Count
  BY <1>1 DEF Count, PgOrder, Holding, PgShapes, PgNumbers, PgPlaces, PgBounds, PgBatch
<1>2. CASE WriteSets
  BY <1>2 DEF WriteSets, PgOrder, Holding, PgShapes, PgNumbers, PgPlaces, PgBounds, PgBatch
<1>3. CASE Flush
  <2>1. sink.flushed \in Nat /\ sink'.flushed = sink.flushed + 1 /\ NextBatch.id = sink.flushed + 1
        /\ stored' = stored /\ pg_writer' = pg_writer
        /\ queue' \in {queue, Append(queue, NextBatch)}
    BY <1>3 DEF Flush, Flushed, NextBatch, PgShapes, PgNumbers, PgPlaces
  <2>a. \A b \in PgBatch : b.id \in Nat
    BY DEF PgBatch
  <2>2. queue \in Seq(PgBatch) /\ \A i \in DOMAIN queue : queue[i].id \in Nat
    BY <2>a DEF PgShapes, PgNumbers, PgPlaces
  <2>3. stored \in Seq(PgBatch) /\ \A i \in DOMAIN stored : stored[i].id \in Nat
    BY <2>a DEF PgShapes, PgNumbers, PgPlaces
  <2>4. Holding => pg_writer.batch.id \in Nat
    BY DEF PgBounds, PgBatch
  <2>5. CASE queue' = queue
    BY <2>1, <2>2, <2>3, <2>4, <2>5 DEF PgOrder, Holding
  <2>6. CASE queue' = Append(queue, NextBatch)
    <3>1. /\ DOMAIN queue' = DOMAIN queue \cup {Len(queue) + 1} /\ queue'[Len(queue) + 1] = NextBatch
          /\ \A i \in DOMAIN queue : queue'[i] = queue[i] /\ i <= Len(queue) /\ i \in Nat
          /\ Len(queue) \in Nat
      BY <2>2, <2>6
    <3>2. Holding' <=> Holding
      BY <2>1 DEF Holding
    <3>3. \A i, j \in DOMAIN queue' : i < j => queue'[i].id < queue'[j].id
      BY <2>1, <2>2, <3>1 DEF PgOrder
    <3>4. \A i \in DOMAIN queue' : queue'[i].id <= sink'.flushed
      BY <2>1, <2>2, <3>1 DEF PgOrder
    <3>5. \A i \in DOMAIN stored' : stored'[i].id <= sink'.flushed
      BY <2>1, <2>3 DEF PgOrder
    <3>6. \A i \in DOMAIN stored', j \in DOMAIN queue' : stored'[i].id < queue'[j].id
      BY <2>1, <2>2, <2>3, <3>1 DEF PgOrder
    <3>7. Holding' => /\ pg_writer'.batch.id <= sink'.flushed
                      /\ \A i \in DOMAIN stored' : stored'[i].id < pg_writer'.batch.id
                      /\ \A j \in DOMAIN queue' : pg_writer'.batch.id < queue'[j].id
      BY <2>1, <2>2, <2>4, <3>1, <3>2 DEF PgOrder
    <3>8. QED
      BY <2>1, <3>3, <3>4, <3>5, <3>6, <3>7 DEF PgOrder
  <2>7. QED
    BY <2>1, <2>5, <2>6
<1>4. CASE SetShutdown
  BY <1>4 DEF SetShutdown, PgOrder, Holding, PgShapes, PgNumbers, PgPlaces, PgBounds, PgBatch
<1>5. CASE DropSender
  BY <1>5 DEF DropSender, PgOrder, Holding, PgShapes, PgNumbers, PgPlaces, PgBounds, PgBatch
<1>6. CASE JoinWriter
  BY <1>6 DEF JoinWriter, PgOrder, Holding, PgShapes, PgNumbers, PgPlaces, PgBounds, PgBatch
<1>7. CASE PgClosed
  BY <1>7 DEF PgClosed, pgVars, PgOrder, Holding, PgShapes, PgNumbers, PgPlaces, PgBounds, PgBatch
<1>8. CASE Receive
  <2>1. /\ queue # <<>> /\ queue' = Tail(queue) /\ pg_writer'.batch = Head(queue)
        /\ UNCHANGED <<sink, stored>>
    BY <1>8 DEF Receive, PgShapes, PgNumbers, PgPlaces
  <2>2. /\ \A i \in DOMAIN queue' : queue'[i] = queue[i + 1] /\ i + 1 \in DOMAIN queue /\ i \in Nat
        /\ \A i \in DOMAIN queue' : 1 < i + 1
        /\ Head(queue) = queue[1] /\ 1 \in DOMAIN queue
    <3>1. queue \in Seq(PgBatch) /\ queue # <<>>
      BY <2>1 DEF PgShapes, PgPlaces
    <3>2. /\ DOMAIN Tail(queue) = 1..Len(queue) - 1 /\ DOMAIN queue = 1..Len(queue)
          /\ Len(queue) \in Nat \ {0} /\ Head(queue) = queue[1]
          /\ \A i \in 1..Len(queue) - 1 : Tail(queue)[i] = queue[i + 1]
      BY <3>1
    <3>3. QED
      BY <2>1, <3>2
  <2>3. \A i, j \in DOMAIN queue' : i < j => i + 1 < j + 1
    BY <2>2
  <2>4. QED
    BY <2>1, <2>2, <2>3 DEF PgOrder
<1>9. CASE EndWriter
  BY <1>9 DEF EndWriter, PgOrder, Holding, PgShapes, PgNumbers, PgPlaces, PgBounds, PgBatch
<1>10. CASE GiveUp
  BY <1>10 DEF GiveUp, PgOrder, Holding, PgShapes, PgNumbers, PgPlaces, PgBounds, PgBatch
<1>11. CASE Connect
  BY <1>11 DEF Connect, PgOrder, Holding, PgShapes, PgNumbers, PgPlaces, PgBounds, PgBatch
<1>12. CASE WriteBatch
  <2>1. /\ Holding /\ ~ Holding' /\ UNCHANGED <<sink, queue>>
        /\ stored' \in {stored, Append(stored, pg_writer.batch)}
    BY <1>12 DEF WriteBatch, Holding, PgShapes, PgNumbers, PgPlaces
  <2>2. /\ stored \in Seq(PgBatch) /\ Len(stored) \in Nat /\ pg_writer.batch \in PgBatch
        /\ DOMAIN stored = 1..Len(stored)
    BY <2>1 DEF PgShapes, PgNumbers, PgPlaces, PgBounds
  <2>3. CASE stored' = stored
    BY <2>1, <2>3 DEF PgOrder
  <2>4. CASE stored' = Append(stored, pg_writer.batch)
    <3>1. /\ DOMAIN stored' = DOMAIN stored \cup {Len(stored) + 1} /\ stored'[Len(stored) + 1] = pg_writer.batch
          /\ \A i \in DOMAIN stored : stored'[i] = stored[i] /\ i <= Len(stored) /\ i \in Nat
      BY <2>2, <2>4
    <3>2. QED
      BY <2>1, <2>2, <3>1 DEF PgOrder
  <2>5. QED
    BY <2>1, <2>3, <2>4
<1>13. CASE UNCHANGED pgVars
  BY <1>13 DEF pgVars, PgOrder, Holding, PgShapes, PgNumbers, PgPlaces, PgBounds, PgBatch
<1>14. QED
  BY <1>1, <1>2, <1>3, <1>4, <1>5, <1>6, <1>7, <1>8, <1>9, <1>10, <1>11, <1>12, <1>13 DEF PgNext

LEMMA PgStart == PgInit => PgInv
BY SumsNone, PgSinkAssumption DEF PgInit, PgInv, PgShapes, PgNumbers, PgPlaces, PgBounds, PgSums, PgOrder, Holding, HeldRows, HeldDelta

\* The queue of the sink stays within its bound and every refusal is counted (flush of out/pg.rs).
THEOREM PgTypes == PgInit /\ [][PgNext]_pgVars => []PgTypeOK
<1>1. PgInv /\ [PgNext]_pgVars => PgInv'
  BY PgShapesStep, PgBoundsStep, PgSumsStep, PgOrderStep DEF PgInv
<1>2. PgInv => PgTypeOK
  BY DEF PgInv, PgShapes, PgNumbers, PgPlaces, PgBounds, PgTypeOK
<1>3. QED
  BY <1>1, <1>2, PgStart, PTL

\* Whatever the database refuses and whenever the queue is full, every row and every count is in
\* exactly one batch or still to be flushed, and batches are stored at most once and in order
\* (flush, writer_loop and write_batch of out/pg.rs).
THEOREM NothingCountedTwice == PgInit /\ [][PgNext]_pgVars => []IntervalsAddUp
<1>1. PgInv /\ [PgNext]_pgVars => PgInv'
  BY PgShapesStep, PgBoundsStep, PgSumsStep, PgOrderStep DEF PgInv
<1>2. PgInv => IntervalsAddUp
  <2> SUFFICES ASSUME PgInv PROVE IntervalsAddUp
    OBVIOUS
  <2> DEFINE held == IF Holding THEN <<pg_writer.batch>> ELSE <<>>
  <2>1. /\ stored \in Seq(PgBatch) /\ pg_hist.refused \in Seq(PgBatch) /\ pg_hist.skipped \in Seq(PgBatch)
        /\ pg_hist.failed \in Seq(PgBatch) /\ queue \in Seq(PgBatch) /\ held \in Seq(PgBatch)
    BY DEF PgInv, PgShapes, PgNumbers, PgPlaces, PgBounds
  <2>2. /\ RowsIn(held) = HeldRows /\ DeltaIn(held) = HeldDelta
    BY SumsNone, SumsOne DEF PgInv, PgBounds, HeldRows, HeldDelta
  <2>3. Intervals = stored \o pg_hist.refused \o pg_hist.skipped \o pg_hist.failed \o queue \o held
    BY DEF Intervals, Holding
  <2> HIDE DEF held
  <2> DEFINE two == stored \o pg_hist.refused
             three == two \o pg_hist.skipped
             four == three \o pg_hist.failed
             five == four \o queue
  <2>4. two \in Seq(PgBatch) /\ three \in Seq(PgBatch) /\ four \in Seq(PgBatch) /\ five \in Seq(PgBatch)
        /\ Intervals \in Seq(PgBatch)
    BY <2>1, <2>3
  <2>5. RowsIn(two) = RowsIn(stored) + RowsIn(pg_hist.refused) /\ DeltaIn(two) = DeltaIn(stored) + DeltaIn(pg_hist.refused)
    BY <2>1, SumsConcat
  <2>6. Intervals = five \o held
    BY <2>3
  <2> HIDE DEF two
  <2>7. RowsIn(three) = RowsIn(two) + RowsIn(pg_hist.skipped) /\ DeltaIn(three) = DeltaIn(two) + DeltaIn(pg_hist.skipped)
    BY <2>1, <2>4, SumsConcat
  <2> HIDE DEF three
  <2>8. RowsIn(four) = RowsIn(three) + RowsIn(pg_hist.failed) /\ DeltaIn(four) = DeltaIn(three) + DeltaIn(pg_hist.failed)
    BY <2>1, <2>4, SumsConcat
  <2> HIDE DEF four
  <2>9. RowsIn(five) = RowsIn(four) + RowsIn(queue) /\ DeltaIn(five) = DeltaIn(four) + DeltaIn(queue)
    BY <2>1, <2>4, SumsConcat
  <2> HIDE DEF five
  <2>10. RowsIn(Intervals) = RowsIn(five) + RowsIn(held) /\ DeltaIn(Intervals) = DeltaIn(five) + DeltaIn(held)
    BY <2>1, <2>4, <2>6, SumsConcat
  <2>11. rows_written = sink.fold + RowsIn(Intervals) /\ sink.prev = DeltaIn(Intervals)
    BY <2>2, <2>5, <2>7, <2>8, <2>9, <2>10, PgTypedSums DEF PgInv, PgSums
  <2>12. SumOf(LAMBDA b : b.rows, Intervals) = RowsIn(Intervals) /\ SumOf(LAMBDA b : b.delta, Intervals) = DeltaIn(Intervals)
    BY <2>4, SumOfIs
  <2>13. rows_written = sink.fold + SumOf(LAMBDA b : b.rows, Intervals) /\ sink.prev = SumOf(LAMBDA b : b.delta, Intervals)
    BY <2>11, <2>12
  <2>14. QED
    BY <2>13 DEF IntervalsAddUp, PgInv, PgOrder
<1>3. QED
  BY <1>1, <1>2, PgStart, PTL

-----------------------------------------------------------------------------
(* The credits of the admin mock: payments. *)

CreditRows ==
    [key : ApiKeys, delta : Int, reason : Reasons \ {"usage"}, sig : Signatures \cup {Absent},
     cents : Cents \cup {Absent}, age : Nat \cup {Absent}]
    \cup [key : ApiKeys, delta : Int, reason : {"usage"}, sig : {Absent}, at : Int]

PaymentRows == [sig : Signatures, key : ApiKeys \cup Strangers, tip : Nat, accounted : BOOLEAN]

CreditShapes ==
    /\ time \in 0..MaxTime
    /\ sol_price.cents \in Cents /\ sol_price.at \in 0..time
    /\ check # Absent => check.cents \in Cents /\ check.price_at \in 0..time
    /\ DOMAIN balance \subseteq ApiKeys
    /\ ledger \in Seq(CreditRows) /\ payments \in Seq(PaymentRows)

\* A payment was registered for a tip; nobody's signature is in two of them.
PaymentsApart ==
    /\ \A i \in DOMAIN payments : payments[i].tip = TipOf[payments[i].sig] /\ payments[i].tip > 0
    /\ \A i, j \in DOMAIN payments : payments[i].sig = payments[j].sig => i = j

\* A row with a signature is that of a payment which is accounted.
RowsOfPayments ==
    /\ \A i \in DOMAIN ledger : ledger[i].sig # Absent => ledger[i].reason = "tip"
    /\ \A i, j \in DOMAIN ledger : ledger[i].sig # Absent /\ ledger[i].sig = ledger[j].sig => i = j
    /\ \A i \in DOMAIN ledger :
           ledger[i].reason = "tip" =>
               /\ ledger[i].age <= MAX_SOL_PRICE_AGE
               /\ \E j \in DOMAIN payments :
                      /\ payments[j].sig = ledger[i].sig /\ payments[j].key = ledger[i].key
                      /\ payments[j].accounted
                      /\ ledger[i].delta = Buys(payments[j].tip, ledger[i].cents)

\* What is always worth something is not set aside without a row.
PaymentsHaveRows ==
    \A j \in DOMAIN payments :
        payments[j].accounted /\ (\A c \in Cents : Buys(payments[j].tip, c) \notin {0, Absent}) =>
            \E i \in DOMAIN ledger : ledger[i].sig = payments[j].sig

CreditInv == CreditShapes /\ PaymentsApart /\ RowsOfPayments /\ PaymentsHaveRows

\* What register_payments takes is valid, new, and in the batch once.
LEMMA FreshIs ==
  ASSUME NEW batch \in Batches
  PROVE  /\ Fresh(batch) \in Seq(Signatures)
         /\ \A n \in 1..Len(Fresh(batch)) : PaysTip(Fresh(batch)[n]) /\ ~ Registered(Fresh(batch)[n])
         /\ \A n, m \in 1..Len(Fresh(batch)) : Fresh(batch)[n] = Fresh(batch)[m] => n = m
<1> DEFINE first(i) == \A j \in 1..i - 1 : batch[j] # batch[i]
           taken == {i \in DOMAIN batch : PaysTip(batch[i]) /\ first(i) /\ ~Registered(batch[i])}
           size == Cardinality(taken)
           F == [n \in 1..size |-> batch[Nth(taken, n)]]
<1>1. batch \in Seq(Signatures)
  BY PreconfCreditsAssumption
<1>2. IsFiniteSet(DOMAIN batch) /\ DOMAIN batch = 1..Len(batch) /\ Len(batch) \in Nat
  BY <1>1, SeqFinite
<1>3. IsFiniteSet(taken) /\ taken \subseteq Int
  <2>1. taken \in SUBSET DOMAIN batch
    OBVIOUS
  <2> HIDE DEF taken
  <2>2. QED
    BY <1>2, <2>1, FS_Subset
<1>4. Fresh(batch) = F
  BY DEF Fresh, Nth, Rank
<1>5. /\ \A n \in 1..size : Nth(taken, n) \in taken
      /\ \A n, m \in 1..size : Nth(taken, n) = Nth(taken, m) => n = m
      /\ size \in Nat
  <2> HIDE DEF taken
  <2> QED
    BY <1>3, NthRanks
<1>6. \A i, k \in taken : batch[i] = batch[k] => i = k
  <2> SUFFICES ASSUME NEW i \in taken, NEW k \in taken, batch[i] = batch[k], i # k PROVE FALSE
    OBVIOUS
  <2>1. i \in 1..Len(batch) /\ k \in 1..Len(batch) /\ first(i) /\ first(k)
    BY <1>2
  <2>2. CASE i < k
    BY <2>1, <2>2
  <2>3. CASE k < i
    BY <2>1, <2>3
  <2>4. QED
    BY <2>1, <2>2, <2>3
<1>7. \A n \in 1..size : Nth(taken, n) \in DOMAIN batch /\ batch[Nth(taken, n)] \in Signatures
  <2>1. \A i \in DOMAIN batch : batch[i] \in Signatures
    BY <1>1
  <2>2. QED
    BY <1>5, <2>1
<1>8. F \in [1..size -> Signatures]
  BY <1>7
<1>9. F \in Seq(Signatures) /\ Len(F) = size
  <2> HIDE DEF F, size
  <2>1. DOMAIN F = 1..size
    BY <1>8
  <2>2. F \in Seq(Signatures)
    BY <1>5, <1>8, SeqDef
  <2>3. QED
    BY <1>5, <2>1, <2>2
<1>10. \A n \in 1..size : F[n] = batch[Nth(taken, n)] /\ PaysTip(F[n]) /\ ~ Registered(F[n])
  BY <1>5
<1>11. \A n, m \in 1..size : F[n] = F[m] => n = m
  <2> SUFFICES ASSUME NEW n \in 1..size, NEW m \in 1..size, F[n] = F[m] PROVE n = m
    OBVIOUS
  <2>1. F[n] = batch[Nth(taken, n)] /\ F[m] = batch[Nth(taken, m)]
    BY <1>10
  <2> HIDE DEF F, taken, size
  <2>2. Nth(taken, n) = Nth(taken, m)
    BY <1>5, <1>6, <2>1
  <2>3. QED
    BY <1>5, <2>2
<1>12. QED
  <2> HIDE DEF F, taken, size
  <2> QED
    BY <1>4, <1>9, <1>10, <1>11

\* What postpack_pay adds to the payments.
LEMMA PayAdds ==
  ASSUME CreditInv, NEW k \in ApiKeys \cup Strangers, NEW batch \in Batches, Pay(k, batch)
  PROVE  /\ payments' \in Seq(PaymentRows)
         /\ \A i \in DOMAIN payments : i \in DOMAIN payments' /\ payments'[i] = payments[i]
         /\ \A i \in DOMAIN payments' \ DOMAIN payments :
                /\ payments'[i].tip = TipOf[payments'[i].sig] /\ payments'[i].tip > 0
                /\ ~ Registered(payments'[i].sig) /\ ~ payments'[i].accounted
                /\ payments'[i].key = k
         /\ \A i, j \in DOMAIN payments' \ DOMAIN payments : payments'[i].sig = payments'[j].sig => i = j
<1> DEFINE F == Fresh(batch)
           G == [i \in 1..Len(F) |-> [sig |-> F[i], key |-> k, tip |-> TipOf[F[i]], accounted |-> FALSE]]
<1>1. /\ F \in Seq(Signatures) /\ Len(F) \in Nat
      /\ \A n \in 1..Len(F) : F[n] \in Signatures /\ PaysTip(F[n]) /\ ~ Registered(F[n])
      /\ \A n, m \in 1..Len(F) : F[n] = F[m] => n = m
  <2>1. F \in Seq(Signatures)
    BY FreshIs
  <2>2. Len(F) \in Nat /\ \A n \in 1..Len(F) : F[n] \in Signatures
    <3> HIDE DEF F
    <3> QED
      BY <2>1
  <2>3. QED
    BY <2>1, <2>2, FreshIs
<1>2. payments' = payments \o G /\ k \in ApiKeys
  BY DEF Pay
<1> HIDE DEF F
<1>3. \A i \in 1..Len(F) : /\ G[i] \in PaymentRows /\ G[i].sig = F[i] /\ G[i].tip = TipOf[F[i]]
                           /\ ~ G[i].accounted /\ G[i].key = k
  BY <1>1, PreconfCreditsAssumption DEF PaymentRows
<1>4. G \in Seq(PaymentRows) /\ Len(G) = Len(F)
  <2>1. G \in [1..Len(F) -> PaymentRows]
    BY <1>3
  <2> HIDE DEF G
  <2>2. G \in Seq(PaymentRows)
    BY <1>1, <2>1, SeqDef
  <2>3. QED
    BY <1>1, <2>1, <2>2
<1>5. payments \in Seq(PaymentRows)
  BY DEF CreditInv, CreditShapes
<1> HIDE DEF G
<1>6. /\ payments' \in Seq(PaymentRows) /\ Len(payments') = Len(payments) + Len(F) /\ Len(payments) \in Nat
      /\ DOMAIN payments = 1..Len(payments) /\ DOMAIN payments' = 1..Len(payments) + Len(F)
      /\ \A i \in 1..Len(payments) : payments'[i] = payments[i]
      /\ \A i \in 1..Len(payments) + Len(F) : i > Len(payments) => payments'[i] = G[i - Len(payments)]
  <2>1. payments' \in Seq(PaymentRows) /\ Len(payments') = Len(payments) + Len(G)
    BY <1>2, <1>4, <1>5, ConcatProperties
  <2>2. Len(payments) \in Nat /\ DOMAIN payments = 1..Len(payments) /\ DOMAIN payments' = 1..Len(payments')
    BY <1>5, <2>1
  <2>3. ASSUME NEW i \in 1..Len(payments) PROVE payments'[i] = payments[i]
    BY <1>1, <1>2, <1>4, <1>5, <2>2, ConcatProperties
  <2>4. ASSUME NEW i \in 1..Len(payments) + Len(F), i > Len(payments) PROVE payments'[i] = G[i - Len(payments)]
    BY <1>1, <1>2, <1>4, <1>5, <2>2, <2>4, ConcatProperties
  <2>5. QED
    BY <1>4, <2>1, <2>2, <2>3, <2>4
<1>7. \A i \in DOMAIN payments' \ DOMAIN payments :
          /\ i - Len(payments) \in 1..Len(F) /\ payments'[i] = G[i - Len(payments)] /\ i \in Nat
  BY <1>1, <1>6
<1>8. QED
  <2>1. \A i \in DOMAIN payments : i \in DOMAIN payments' /\ payments'[i] = payments[i]
    BY <1>1, <1>6
  <2>2. ASSUME NEW i \in DOMAIN payments' \ DOMAIN payments
        PROVE  /\ payments'[i].tip = TipOf[payments'[i].sig] /\ payments'[i].tip > 0
               /\ ~ Registered(payments'[i].sig) /\ ~ payments'[i].accounted /\ payments'[i].key = k
    BY <1>1, <1>3, <1>7 DEF PaysTip
  <2>3. ASSUME NEW i \in DOMAIN payments' \ DOMAIN payments, NEW j \in DOMAIN payments' \ DOMAIN payments,
               payments'[i].sig = payments'[j].sig
        PROVE  i = j
    <3>1. /\ i - Len(payments) \in 1..Len(F) /\ payments'[i].sig = F[i - Len(payments)] /\ i \in Nat
          /\ j - Len(payments) \in 1..Len(F) /\ payments'[j].sig = F[j - Len(payments)] /\ j \in Nat
      BY <1>3, <1>7
    <3>2. i - Len(payments) = j - Len(payments)
      BY <1>1, <2>3, <3>1
    <3>3. QED
      BY <1>6, <3>1, <3>2
  <2>4. QED
    BY <1>6, <2>1, <2>2, <2>3

\* The payments that are worth something.
Paid == {i \in Due : Worth(i) > 0}

\* What credit_payments adds to the history.
LEMMA CreditAdds ==
  ASSUME CreditInv, CreditPayments, IsFresh(Copied)
  PROVE  /\ ledger' \in Seq(CreditRows) /\ payments' \in Seq(PaymentRows)
         /\ DOMAIN payments' = DOMAIN payments
         /\ \A i \in DOMAIN payments :
                /\ payments'[i].sig = payments[i].sig /\ payments'[i].key = payments[i].key
                /\ payments'[i].tip = payments[i].tip
                /\ payments'[i].accounted <=> payments[i].accounted \/ i \in Due
         /\ Due \subseteq DOMAIN payments /\ Paid \subseteq Due /\ IsFiniteSet(Paid)
         /\ \A i \in Due : ~ payments[i].accounted /\ Worth(i) \in Nat /\ payments[i].key \in DOMAIN balance
         /\ DOMAIN ledger = 1..Len(ledger) /\ Len(ledger) \in Nat /\ Cardinality(Paid) \in Nat
         /\ DOMAIN ledger' = 1..Len(ledger) + Cardinality(Paid)
         /\ \A i \in DOMAIN ledger : ledger'[i] = ledger[i]
         /\ \A n \in 1..Cardinality(Paid) :
                /\ Nth(Paid, n) \in Paid
                /\ ledger'[Len(ledger) + n].reason = "tip"
                /\ ledger'[Len(ledger) + n].sig = payments[Nth(Paid, n)].sig
                /\ ledger'[Len(ledger) + n].key = payments[Nth(Paid, n)].key
                /\ ledger'[Len(ledger) + n].delta = Worth(Nth(Paid, n))
                /\ ledger'[Len(ledger) + n].cents = check.cents
                /\ ledger'[Len(ledger) + n].age <= MAX_SOL_PRICE_AGE
         /\ \A n, m \in 1..Cardinality(Paid) : Nth(Paid, n) = Nth(Paid, m) => n = m
         /\ \A i \in Paid : \E n \in 1..Cardinality(Paid) : Nth(Paid, n) = i
<1> DEFINE size == Cardinality(Paid)
           R == [n \in 1..size |->
                    Row(payments[Nth(Paid, n)].key, Worth(Nth(Paid, n)), "tip", payments[Nth(Paid, n)].sig, Copied)]
<1>1. check # Absent /\ check.cents \in Cents /\ check.price_at \in 0..time /\ time \in 0..MaxTime
      /\ MaxTime \in Nat /\ MAX_SOL_PRICE_AGE \in Nat
  BY PreconfCreditsAssumption DEF CreditInv, CreditShapes, CreditPayments
<1>2. Copied \in [cents : Cents, at : 0..MaxTime] /\ Copied # Absent
      /\ Copied.cents = check.cents /\ Copied.at = check.price_at
  BY <1>1, PreconfCreditsAssumption DEF Copied
<1>3. payments \in Seq(PaymentRows) /\ ledger \in Seq(CreditRows)
  BY DEF CreditInv, CreditShapes
<1>4. /\ IsFiniteSet(DOMAIN payments) /\ DOMAIN payments \subseteq Int
      /\ \A i \in DOMAIN payments : payments[i] \in PaymentRows
  BY <1>3, SeqFinite
<1>5. /\ Due \subseteq DOMAIN payments /\ Paid \subseteq Due /\ Paid \in SUBSET (DOMAIN payments)
      /\ \A i \in Due : ~ payments[i].accounted /\ payments[i].key \in DOMAIN balance
  BY DEF Due, Paid, Waits
<1>6. ASSUME NEW i \in DOMAIN payments PROVE Worth(i) \in Nat
  <2>1. payments[i].tip \in Nat /\ check.cents \in Nat
    BY <1>1, <1>4, PreconfCreditsAssumption DEF PaymentRows
  <2> DEFINE credits == CreditsFor(payments[i].tip, check.cents)
  <2>2. CREDITS_PER_CENT \in Nat \ {0} /\ LAMPORTS_PER_SOL \in Nat \ {0} /\ I64_MAX \in Nat
    BY PreconfCreditsAssumption
  <2>3. (payments[i].tip * check.cents) \in Nat
    BY <2>1
  <2>4. (payments[i].tip * check.cents * CREDITS_PER_CENT) \in Nat
    BY <2>2, <2>3
  <2>5. credits \in Nat
    BY <2>2, <2>4, Quotient DEF CreditsFor
  <2> HIDE DEF credits
  <2>6. Buys(payments[i].tip, check.cents) = IF credits <= I64_MAX THEN credits ELSE Absent
    BY DEF Buys, credits
  <2>7. QED
    BY <2>5, <2>6 DEF Worth
<1>7. IsFiniteSet(Paid) /\ Paid \subseteq Int
  BY <1>4, <1>5, FS_Subset
<1>8. /\ \A n \in 1..size : Nth(Paid, n) \in Paid
      /\ \A n, m \in 1..size : Nth(Paid, n) = Nth(Paid, m) => n = m
      /\ \A i \in Paid : \E n \in 1..size : Nth(Paid, n) = i
      /\ size \in Nat
  BY <1>7, NthRanks
<1>9. TipRows = R
  BY DEF TipRows, Paid, Nth, Rank
<1>10. ASSUME NEW n \in 1..size
       PROVE  /\ R[n].reason = "tip" /\ R[n].sig = payments[Nth(Paid, n)].sig
              /\ R[n].key = payments[Nth(Paid, n)].key /\ R[n].delta = Worth(Nth(Paid, n))
              /\ R[n].cents = check.cents /\ R[n].age <= MAX_SOL_PRICE_AGE
              /\ R[n] \in CreditRows
  <2> DEFINE i == Nth(Paid, n)
  <2>1. /\ i \in DOMAIN payments /\ payments[i] \in PaymentRows /\ Worth(i) \in Nat
        /\ payments[i].key \in DOMAIN balance
    BY <1>4, <1>5, <1>6, <1>8
  <2>2. payments[i].key \in ApiKeys /\ payments[i].sig \in Signatures
    BY <2>1 DEF PaymentRows, CreditInv, CreditShapes
  <2>3. R[n] = Row(payments[i].key, Worth(i), "tip", payments[i].sig, Copied)
    OBVIOUS
  <2> HIDE DEF R, i
  <2>4. R[n] = [key |-> payments[i].key, delta |-> Worth(i), reason |-> "tip", sig |-> payments[i].sig,
                cents |-> check.cents, age |-> time - check.price_at]
    BY <1>2, <2>3 DEF Row
  <2>5. time - check.price_at \in Nat /\ time - check.price_at <= MAX_SOL_PRICE_AGE
    BY <1>1, <1>2 DEF IsFresh
  <2>6. R[n] \in CreditRows
    BY <1>1, <2>1, <2>2, <2>4, <2>5 DEF CreditRows, Reasons
  <2>7. QED
    BY <2>4, <2>5, <2>6 DEF i
<1>11. R \in Seq(CreditRows) /\ Len(R) = size
  <2>1. R \in [1..size -> CreditRows]
    BY <1>10
  <2> HIDE DEF R, size
  <2>2. R \in Seq(CreditRows)
    BY <1>8, <2>1, SeqDef
  <2>3. QED
    BY <1>8, <2>1, <2>2
<1>12. ledger' = ledger \o R
  BY <1>9 DEF CreditPayments
<1> HIDE DEF R, size
<1>13. /\ ledger' \in Seq(CreditRows) /\ Len(ledger) \in Nat
       /\ DOMAIN ledger = 1..Len(ledger) /\ DOMAIN ledger' = 1..Len(ledger) + size
       /\ \A i \in DOMAIN ledger : ledger'[i] = ledger[i]
       /\ \A n \in 1..size : ledger'[Len(ledger) + n] = R[n]
  <2>1. ledger' \in Seq(CreditRows) /\ Len(ledger') = Len(ledger) + Len(R)
    BY <1>3, <1>11, <1>12, ConcatProperties
  <2>2. /\ Len(ledger) \in Nat /\ DOMAIN ledger = 1..Len(ledger)
        /\ DOMAIN ledger' = 1..Len(ledger) + size
    BY <1>3, <1>11, <2>1
  <2>3. \A i \in DOMAIN ledger : ledger'[i] = ledger[i]
    BY <1>3, <1>8, <1>11, <1>12, <2>2, ConcatProperties
  <2>4. ASSUME NEW n \in 1..size PROVE ledger'[Len(ledger) + n] = R[n]
    <3>1. /\ Len(ledger) + n \in 1..Len(ledger) + Len(R) /\ ~ (Len(ledger) + n <= Len(ledger))
          /\ Len(ledger) + n - Len(ledger) = n
      BY <1>8, <1>11, <2>2
    <3>2. QED
      BY <1>3, <1>11, <1>12, <3>1, ConcatProperties
  <2>5. QED
    BY <2>1, <2>2, <2>3, <2>4
<1>14. payments' = [i \in DOMAIN payments |->
                       IF i \in Due THEN [payments[i] EXCEPT !.accounted = TRUE] ELSE payments[i]]
  BY DEF CreditPayments
<1>15. \A i \in DOMAIN payments :
           /\ payments'[i] \in PaymentRows
           /\ payments'[i].sig = payments[i].sig /\ payments'[i].key = payments[i].key
           /\ payments'[i].tip = payments[i].tip
           /\ payments'[i].accounted <=> payments[i].accounted \/ i \in Due
  <2> SUFFICES ASSUME NEW i \in DOMAIN payments
               PROVE  /\ payments'[i] \in PaymentRows
                      /\ payments'[i].sig = payments[i].sig /\ payments'[i].key = payments[i].key
                      /\ payments'[i].tip = payments[i].tip
                      /\ payments'[i].accounted <=> payments[i].accounted \/ i \in Due
    OBVIOUS
  <2>1. payments[i] \in PaymentRows
    BY <1>4
  <2>2. CASE i \in Due
    BY <1>14, <2>1, <2>2 DEF PaymentRows
  <2>3. CASE i \notin Due
    BY <1>14, <2>1, <2>3 DEF PaymentRows
  <2>4. QED
    BY <2>2, <2>3
<1>16. payments' \in Seq(PaymentRows) /\ DOMAIN payments' = DOMAIN payments
  <2>1. DOMAIN payments = 1..Len(payments) /\ Len(payments) \in Nat
    BY <1>3
  <2>2. payments' \in [1..Len(payments) -> PaymentRows]
    BY <1>14, <1>15, <2>1
  <2>3. QED
    BY <2>1, <2>2, SeqDef
<1>17. \A n \in 1..size :
           /\ ledger'[Len(ledger) + n].reason = "tip"
           /\ ledger'[Len(ledger) + n].sig = payments[Nth(Paid, n)].sig
           /\ ledger'[Len(ledger) + n].key = payments[Nth(Paid, n)].key
           /\ ledger'[Len(ledger) + n].delta = Worth(Nth(Paid, n))
           /\ ledger'[Len(ledger) + n].cents = check.cents
           /\ ledger'[Len(ledger) + n].age <= MAX_SOL_PRICE_AGE
  BY <1>10, <1>13
<1>18. \A i \in Due : Worth(i) \in Nat
  BY <1>5, <1>6
<1>19. QED
  BY <1>5, <1>7, <1>8, <1>13, <1>15, <1>16, <1>17, <1>18 DEF size

\* What a change of credits is, when it is not refused.
LEMMA ChangeIs ==
  ASSUME NEW change \in Changes, Delta(change) # Absent
  PROVE  Delta(change) \in Int /\ change.reason \in {"admin_change", "manual_payment"}
<1>1. MAX_ADMIN_CREDITS_CHANGE \in Nat
  BY PreconfCreditsAssumption
<1>2. Delta(change) \in -MAX_ADMIN_CREDITS_CHANGE..MAX_ADMIN_CREDITS_CHANGE
  BY DEF Delta
<1>3. change.reason \in {"admin_change", "manual_payment"}
  BY DEF Delta
<1>4. QED
  BY <1>1, <1>2, <1>3

\* The row a change of credits adds.
LEMMA ChangeAdds ==
  ASSUME CreditInv, NEW k \in ApiKeys, NEW change \in Changes, ChangeCredits(k, change)
  PROVE  /\ ledger' \in Seq(CreditRows) /\ DOMAIN ledger = 1..Len(ledger) /\ Len(ledger) \in Nat
         /\ DOMAIN ledger' = 1..Len(ledger) + 1
         /\ \A i \in DOMAIN ledger : ledger'[i] = ledger[i]
         /\ ledger'[Len(ledger) + 1].sig = Absent /\ ledger'[Len(ledger) + 1].key = k
         /\ ledger'[Len(ledger) + 1].reason \in {"admin_change", "manual_payment"}
         /\ ledger'[Len(ledger) + 1].delta = Delta(change)
         /\ k \in DOMAIN balance /\ Delta(change) \in Int /\ DOMAIN balance' = DOMAIN balance
         /\ balance' = [balance EXCEPT ![k] = balance[k] + Delta(change)]
<1> DEFINE new == Row(k, Delta(change), change.reason, Absent, Absent)
<1>1. Delta(change) \in Int /\ change.reason \in {"admin_change", "manual_payment"}
  BY ChangeIs DEF ChangeCredits
<1>2. /\ new = [key |-> k, delta |-> Delta(change), reason |-> change.reason, sig |-> Absent,
                cents |-> Absent, age |-> Absent]
      /\ ledger' = Append(ledger, new) /\ k \in DOMAIN balance
      /\ balance' = [balance EXCEPT ![k] = balance[k] + Delta(change)]
  BY DEF ChangeCredits, Record, Row
<1> HIDE DEF new
<1>3. new \in CreditRows
  BY <1>1, <1>2 DEF CreditRows, Reasons
<1>4. new.sig = Absent /\ new.key = k /\ new.reason = change.reason /\ new.delta = Delta(change)
  BY <1>2
<1>5. ledger \in Seq(CreditRows)
  BY DEF CreditInv, CreditShapes
<1>6. /\ ledger' \in Seq(CreditRows) /\ DOMAIN ledger = 1..Len(ledger) /\ Len(ledger) \in Nat
      /\ DOMAIN ledger' = 1..Len(ledger) + 1
      /\ \A i \in DOMAIN ledger : ledger'[i] = ledger[i]
      /\ ledger'[Len(ledger) + 1] = new
  <2>1. ledger' \in Seq(CreditRows) /\ Len(ledger') = Len(ledger) + 1 /\ Len(ledger) \in Nat
    BY <1>2, <1>3, <1>5, AppendProperties
  <2>2. DOMAIN ledger = 1..Len(ledger) /\ DOMAIN ledger' = 1..Len(ledger) + 1
    BY <1>5, <2>1
  <2>3. \A i \in 1..Len(ledger) : ledger'[i] = ledger[i]
    BY <1>2, <1>3, <1>5, AppendProperties
  <2>4. ledger'[Len(ledger) + 1] = new
    BY <1>2, <1>3, <1>5, AppendProperties
  <2>5. QED
    BY <2>1, <2>2, <2>3, <2>4
<1>7. DOMAIN balance' = DOMAIN balance
  BY <1>2
<1>8. QED
  BY <1>1, <1>2, <1>4, <1>6, <1>7

\* The parts of the invariant about payments, where neither history nor payments change.
LEMMA PaymentsStay ==
  ASSUME CreditInv, ledger' = ledger, payments' = payments
  PROVE  (PaymentsApart /\ RowsOfPayments /\ PaymentsHaveRows)'
BY DEF CreditInv, PaymentsApart, RowsOfPayments, PaymentsHaveRows

LEMMA CreditShapesStep ==
  ASSUME CreditInv, [CreditsNext]_creditsVars PROVE CreditShapes'
<1>1. MaxTime \in Nat /\ Seeded \in ApiKeys
  BY PreconfCreditsAssumption
<1>2. CreditShapes
  BY DEF CreditInv
<1>3. ASSUME NEW k \in ApiKeys, CreateClient(k) PROVE CreditShapes'
  <2>1. DOMAIN balance' \subseteq ApiKeys
    BY <1>2, <1>3 DEF CreateClient, CreditShapes
  <2>2. QED
    BY <1>2, <1>3, <2>1 DEF CreateClient, CreditShapes
<1>4. ASSUME NEW k \in ApiKeys, NEW c \in Changes, ChangeCredits(k, c) PROVE CreditShapes'
  <2>1. ledger' \in Seq(CreditRows) /\ DOMAIN balance' = DOMAIN balance
    BY <1>4, ChangeAdds
  <2>2. time' = time /\ payments' = payments /\ sol_price' = sol_price /\ check' = check
    BY <1>4 DEF ChangeCredits
  <2>3. QED
    BY <1>2, <2>1, <2>2 DEF CreditShapes
<1>5. ASSUME NEW k \in ApiKeys \cup Strangers, NEW b \in Batches, Pay(k, b) PROVE CreditShapes'
  <2>1. payments' \in Seq(PaymentRows)
    BY <1>5, PayAdds
  <2>2. time' = time /\ ledger' = ledger /\ sol_price' = sol_price /\ check' = check /\ balance' = balance
    BY <1>5 DEF Pay
  <2>3. QED
    BY <1>2, <2>1, <2>2 DEF CreditShapes
<1>6. CASE ReadPrice
  BY <1>2, <1>6 DEF CreditShapes, ReadPrice
<1>7. CASE CreditPayments
  <2>1. CASE IsFresh(Copied)
    <3>1. ledger' \in Seq(CreditRows) /\ payments' \in Seq(PaymentRows)
      BY <1>7, <2>1, CreditAdds
    <3>2. DOMAIN balance' = DOMAIN balance /\ check' = Absent /\ time' = time /\ sol_price' = sol_price
      BY <1>7, <2>1 DEF CreditPayments
    <3>3. QED
      BY <1>2, <3>1, <3>2 DEF CreditShapes
  <2>2. CASE ~ IsFresh(Copied)
    <3>1. /\ ledger' = ledger /\ payments' = payments /\ balance' = balance
          /\ check' = Absent /\ time' = time /\ sol_price' = sol_price
      BY <1>7, <2>2 DEF CreditPayments
    <3>2. QED
      BY <1>2, <3>1 DEF CreditShapes
  <2>3. QED
    BY <2>1, <2>2
<1>8. ASSUME NEW c \in Cents, RefreshPrice(c) PROVE CreditShapes'
  BY <1>1, <1>2, <1>8 DEF CreditShapes, RefreshPrice
<1>9. CASE TimePasses
  BY <1>1, <1>2, <1>9 DEF CreditShapes, TimePasses
<1>10. CASE ReadPage
  BY <1>2, <1>10 DEF CreditShapes, ReadPage
<1>11. CASE UNCHANGED creditsVars
  BY <1>2, <1>11 DEF CreditShapes, creditsVars
<1>12. QED
  BY <1>3, <1>4, <1>5, <1>6, <1>7, <1>8, <1>9, <1>10, <1>11 DEF CreditsNext

\* A payment is registered once, for a tip.
LEMMA PayKeepsApart ==
  ASSUME CreditInv, NEW k \in ApiKeys \cup Strangers, NEW b \in Batches, Pay(k, b)
  PROVE  (PaymentsApart /\ RowsOfPayments /\ PaymentsHaveRows)'
<1>1. /\ \A i \in DOMAIN payments : i \in DOMAIN payments' /\ payments'[i] = payments[i]
      /\ \A i \in DOMAIN payments' \ DOMAIN payments :
             /\ payments'[i].tip = TipOf[payments'[i].sig] /\ payments'[i].tip > 0
             /\ ~ Registered(payments'[i].sig) /\ ~ payments'[i].accounted
      /\ \A i, j \in DOMAIN payments' \ DOMAIN payments : payments'[i].sig = payments'[j].sig => i = j
  BY PayAdds
<1>2. ledger' = ledger
  BY DEF Pay
<1>3. PaymentsApart /\ RowsOfPayments /\ PaymentsHaveRows
  BY DEF CreditInv
<1>4. PaymentsApart'
  <2>1. \A i \in DOMAIN payments' : payments'[i].tip = TipOf[payments'[i].sig] /\ payments'[i].tip > 0
    BY <1>1, <1>3 DEF PaymentsApart
  <2>2. ASSUME NEW i \in DOMAIN payments', NEW j \in DOMAIN payments', payments'[i].sig = payments'[j].sig
        PROVE  i = j
    BY <1>1, <1>3, <2>2 DEF PaymentsApart, Registered
  <2>3. QED
    BY <2>1, <2>2 DEF PaymentsApart
<1>5. RowsOfPayments'
  BY <1>1, <1>2, <1>3 DEF RowsOfPayments, Buys, CreditsFor
<1>6. PaymentsHaveRows'
  BY <1>1, <1>2, <1>3 DEF PaymentsHaveRows
<1>7. QED
  BY <1>4, <1>5, <1>6

\* A change of credits adds a row without a signature.
LEMMA ChangeKeepsRows ==
  ASSUME CreditInv, NEW k \in ApiKeys, NEW c \in Changes, ChangeCredits(k, c)
  PROVE  (PaymentsApart /\ RowsOfPayments /\ PaymentsHaveRows)'
<1> DEFINE last == Len(ledger) + 1
<1>1. /\ DOMAIN ledger' = DOMAIN ledger \cup {last} /\ last \notin DOMAIN ledger
      /\ \A i \in DOMAIN ledger : i \in DOMAIN ledger' /\ ledger'[i] = ledger[i]
      /\ ledger'[last].sig = Absent /\ ledger'[last].reason # "tip"
  <2>1. /\ DOMAIN ledger = 1..Len(ledger) /\ Len(ledger) \in Nat /\ DOMAIN ledger' = 1..Len(ledger) + 1
        /\ \A i \in DOMAIN ledger : ledger'[i] = ledger[i]
        /\ ledger'[last].sig = Absent /\ ledger'[last].reason \in {"admin_change", "manual_payment"}
    BY ChangeAdds
  <2>2. QED
    BY <2>1
<1>2. payments' = payments
  BY DEF ChangeCredits
<1>3. PaymentsApart /\ RowsOfPayments /\ PaymentsHaveRows
  BY DEF CreditInv
<1> HIDE DEF last
<1>4. PaymentsApart'
  BY <1>2, <1>3 DEF PaymentsApart
<1>5. RowsOfPayments'
  <2>1. \A i \in DOMAIN ledger' : ledger'[i].sig # Absent => ledger'[i].reason = "tip"
    BY <1>1, <1>3 DEF RowsOfPayments
  <2>2. \A i, j \in DOMAIN ledger' : ledger'[i].sig # Absent /\ ledger'[i].sig = ledger'[j].sig => i = j
    BY <1>1, <1>3 DEF RowsOfPayments
  <2>3. ASSUME NEW i \in DOMAIN ledger', ledger'[i].reason = "tip"
        PROVE  i \in DOMAIN ledger /\ ledger'[i] = ledger[i]
    BY <1>1, <2>3
  <2>4. QED
    BY <1>2, <1>3, <2>1, <2>2, <2>3 DEF RowsOfPayments, Buys, CreditsFor
<1>6. PaymentsHaveRows'
  BY <1>1, <1>2, <1>3 DEF PaymentsHaveRows
<1>7. QED
  BY <1>4, <1>5, <1>6

\* Crediting the payments that are due adds one row for each that is worth something.
LEMMA CreditKeepsRows ==
  ASSUME CreditInv, CreditPayments, IsFresh(Copied)
  PROVE  (PaymentsApart /\ RowsOfPayments /\ PaymentsHaveRows)'
<1> DEFINE size == Cardinality(Paid)
           old == Len(ledger)
<1>1. PaymentsApart /\ RowsOfPayments /\ PaymentsHaveRows
  BY DEF CreditInv
<1>2. /\ DOMAIN payments' = DOMAIN payments
      /\ \A i \in DOMAIN payments :
             /\ payments'[i].sig = payments[i].sig /\ payments'[i].key = payments[i].key
             /\ payments'[i].tip = payments[i].tip
             /\ payments'[i].accounted <=> payments[i].accounted \/ i \in Due
      /\ Due \subseteq DOMAIN payments /\ Paid \subseteq Due
      /\ \A i \in Due : ~ payments[i].accounted /\ Worth(i) \in Nat
  BY CreditAdds
<1>3. /\ DOMAIN ledger = 1..old /\ old \in Nat /\ size \in Nat
      /\ DOMAIN ledger' = 1..old + size
      /\ \A i \in DOMAIN ledger : ledger'[i] = ledger[i]
  BY CreditAdds
<1>4. /\ \A n \in 1..size : Nth(Paid, n) \in Paid
      /\ \A n, m \in 1..size : Nth(Paid, n) = Nth(Paid, m) => n = m
      /\ \A i \in Paid : \E n \in 1..size : Nth(Paid, n) = i
  BY CreditAdds
<1>5. \A n \in 1..size :
          /\ ledger'[old + n].reason = "tip"
          /\ ledger'[old + n].sig = payments[Nth(Paid, n)].sig
          /\ ledger'[old + n].key = payments[Nth(Paid, n)].key
          /\ ledger'[old + n].delta = Worth(Nth(Paid, n))
          /\ ledger'[old + n].cents = check.cents
          /\ ledger'[old + n].age <= MAX_SOL_PRICE_AGE
  BY CreditAdds
<1>6. \A i \in Paid : Worth(i) = Buys(payments[i].tip, check.cents) /\ Worth(i) > 0
  BY DEF Paid, Worth
<1>7. check.cents \in Cents
  BY DEF CreditInv, CreditShapes, CreditPayments
<1> HIDE DEF size, old
\* A row is old, or it is that of a payment that was due.
<1>8. ASSUME NEW i \in DOMAIN ledger'
      PROVE  \/ i \in DOMAIN ledger /\ ledger'[i] = ledger[i]
             \/ \E n \in 1..size : i = old + n
  <2>1. CASE i \in 1..old
    BY <1>3, <2>1
  <2>2. CASE i \notin 1..old
    <3>1. i \in Int /\ i > old /\ i - old \in 1..size /\ i = old + (i - old)
      BY <1>3, <2>2
    <3>2. QED
      BY <3>1
  <2>3. QED
    BY <2>1, <2>2
<1>9. \A n \in 1..size : old + n \in DOMAIN ledger' /\ old + n \notin DOMAIN ledger
  BY <1>3
<1>10. DOMAIN ledger \subseteq DOMAIN ledger'
  BY <1>3
<1>11. PaymentsApart'
  BY <1>1, <1>2 DEF PaymentsApart
\* An old row is of a payment that is accounted already, and so is not paid again.
<1>12. ASSUME NEW i \in DOMAIN ledger, ledger[i].sig # Absent, NEW p \in Paid PROVE ledger[i].sig # payments[p].sig
  <2>1. PICK j \in DOMAIN payments : payments[j].sig = ledger[i].sig /\ payments[j].accounted
    BY <1>1, <1>12 DEF RowsOfPayments
  <2>2. p \in DOMAIN payments /\ ~ payments[p].accounted
    BY <1>2
  <2>3. QED
    BY <1>1, <2>1, <2>2 DEF PaymentsApart
<1>13. RowsOfPayments'
  <2>1. \A i \in DOMAIN ledger' : ledger'[i].sig # Absent => ledger'[i].reason = "tip"
    BY <1>1, <1>5, <1>8 DEF RowsOfPayments
  <2>2. ASSUME NEW i \in DOMAIN ledger', NEW j \in DOMAIN ledger', ledger'[i].sig # Absent,
               ledger'[i].sig = ledger'[j].sig
        PROVE  i = j
    <3>1. CASE i \in DOMAIN ledger /\ ledger'[i] = ledger[i] /\ j \in DOMAIN ledger /\ ledger'[j] = ledger[j]
      BY <1>1, <2>2, <3>1 DEF RowsOfPayments
    <3>2. CASE i \in DOMAIN ledger /\ ledger'[i] = ledger[i] /\ \E n \in 1..size : j = old + n
      BY <1>4, <1>5, <1>12, <2>2, <3>2
    <3>3. CASE j \in DOMAIN ledger /\ ledger'[j] = ledger[j] /\ \E n \in 1..size : i = old + n
      BY <1>4, <1>5, <1>12, <2>2, <3>3
    <3>4. ASSUME NEW n \in 1..size, NEW m \in 1..size, i = old + n, j = old + m PROVE i = j
      <4>1. payments[Nth(Paid, n)].sig = payments[Nth(Paid, m)].sig
        BY <1>5, <2>2, <3>4
      <4>2. Nth(Paid, n) \in DOMAIN payments /\ Nth(Paid, m) \in DOMAIN payments
        BY <1>2, <1>4
      <4>3. n = m
        BY <1>1, <1>4, <4>1, <4>2 DEF PaymentsApart
      <4>4. QED
        BY <3>4, <4>3
    <3>5. QED
      BY <1>8, <3>1, <3>2, <3>3, <3>4
  <2>3. ASSUME NEW i \in DOMAIN ledger', ledger'[i].reason = "tip"
        PROVE  /\ ledger'[i].age <= MAX_SOL_PRICE_AGE
               /\ \E j \in DOMAIN payments' :
                      /\ payments'[j].sig = ledger'[i].sig /\ payments'[j].key = ledger'[i].key
                      /\ payments'[j].accounted
                      /\ ledger'[i].delta = Buys(payments'[j].tip, ledger'[i].cents)
    <3>1. CASE i \in DOMAIN ledger /\ ledger'[i] = ledger[i]
      <4>1. /\ ledger[i].age <= MAX_SOL_PRICE_AGE
            /\ \E j \in DOMAIN payments :
                   /\ payments[j].sig = ledger[i].sig /\ payments[j].key = ledger[i].key
                   /\ payments[j].accounted
                   /\ ledger[i].delta = Buys(payments[j].tip, ledger[i].cents)
        BY <1>1, <2>3, <3>1 DEF RowsOfPayments
      <4>2. PICK j \in DOMAIN payments :
                /\ payments[j].sig = ledger[i].sig /\ payments[j].key = ledger[i].key
                /\ payments[j].accounted
                /\ ledger[i].delta = Buys(payments[j].tip, ledger[i].cents)
        BY <4>1
      <4>3. QED
        BY <1>2, <3>1, <4>1, <4>2
    <3>2. ASSUME NEW n \in 1..size, i = old + n
          PROVE  /\ ledger'[i].age <= MAX_SOL_PRICE_AGE
                 /\ \E j \in DOMAIN payments' :
                        /\ payments'[j].sig = ledger'[i].sig /\ payments'[j].key = ledger'[i].key
                        /\ payments'[j].accounted
                        /\ ledger'[i].delta = Buys(payments'[j].tip, ledger'[i].cents)
      <4> DEFINE p == Nth(Paid, n)
      <4>1. p \in Paid /\ p \in Due /\ p \in DOMAIN payments
        BY <1>2, <1>4
      <4>2. /\ ledger'[i].sig = payments[p].sig /\ ledger'[i].key = payments[p].key
            /\ ledger'[i].delta = Worth(p) /\ ledger'[i].cents = check.cents
            /\ ledger'[i].age <= MAX_SOL_PRICE_AGE
        BY <1>5, <3>2
      <4>3. /\ payments'[p].sig = payments[p].sig /\ payments'[p].key = payments[p].key
            /\ payments'[p].tip = payments[p].tip /\ payments'[p].accounted
        BY <1>2, <4>1
      <4> HIDE DEF p
      <4>4. ledger'[i].delta = Buys(payments'[p].tip, ledger'[i].cents)
        BY <1>6, <4>1, <4>2, <4>3
      <4>5. QED
        BY <1>2, <4>1, <4>2, <4>3, <4>4
    <3>3. QED
      BY <1>8, <3>1, <3>2
  <2>4. RowsOfPayments' = (/\ \A i \in DOMAIN ledger' : ledger'[i].sig # Absent => ledger'[i].reason = "tip"
                           /\ \A i, j \in DOMAIN ledger' :
                                  ledger'[i].sig # Absent /\ ledger'[i].sig = ledger'[j].sig => i = j
                           /\ \A i \in DOMAIN ledger' :
                                  ledger'[i].reason = "tip" =>
                                      /\ ledger'[i].age <= MAX_SOL_PRICE_AGE
                                      /\ \E j \in DOMAIN payments' :
                                             /\ payments'[j].sig = ledger'[i].sig
                                             /\ payments'[j].key = ledger'[i].key
                                             /\ payments'[j].accounted
                                             /\ ledger'[i].delta = Buys(payments'[j].tip, ledger'[i].cents))
    BY DEF RowsOfPayments
  <2>5. QED
    BY <2>1, <2>2, <2>3, <2>4
<1>14. PaymentsHaveRows'
  <2> SUFFICES ASSUME NEW j \in DOMAIN payments', payments'[j].accounted,
                      \A c \in Cents : Buys(payments'[j].tip, c) \notin {0, Absent}
               PROVE  \E i \in DOMAIN ledger' : ledger'[i].sig = payments'[j].sig
    BY DEF PaymentsHaveRows, Buys, CreditsFor
  <2>1. j \in DOMAIN payments /\ payments'[j].tip = payments[j].tip /\ payments'[j].sig = payments[j].sig
    BY <1>2
  <2>2. CASE payments[j].accounted
    <3>1. PICK i \in DOMAIN ledger : ledger[i].sig = payments[j].sig
      BY <1>1, <2>1, <2>2 DEF PaymentsHaveRows
    <3>2. QED
      BY <1>3, <1>10, <2>1, <3>1
  <2>3. CASE j \in Due
    <3>1. Buys(payments[j].tip, check.cents) \notin {0, Absent}
      BY <1>7, <2>1
    <3>2. Worth(j) # 0 /\ Worth(j) \in Nat
      BY <1>2, <2>3, <3>1 DEF Worth
    <3>3. j \in Paid
      BY <2>3, <3>2 DEF Paid
    <3>4. PICK n \in 1..size : Nth(Paid, n) = j
      BY <1>4, <3>3
    <3>5. ledger'[old + n].sig = payments[j].sig /\ old + n \in DOMAIN ledger'
      BY <1>5, <1>9, <3>4
    <3>6. QED
      BY <2>1, <3>5
  <2>4. QED
    BY <1>2, <2>1, <2>2, <2>3
<1>15. QED
  BY <1>11, <1>13, <1>14

LEMMA CreditInvStart ==
  CreditsInit => CreditInv
<1> SUFFICES ASSUME CreditsInit PROVE CreditInv
  OBVIOUS
<1> DEFINE row1 == Row(Seeded, StartingBalance, "admin_change", Absent, Absent)
           row2 == UsageRow(Seeded, 1, -HOUR)
           row3 == UsageRow(Seeded, 2, 0)
<1>1. Seeded \in ApiKeys /\ HOUR \in Nat /\ MaxTime \in Nat /\ Cents # {}
  BY PreconfCreditsAssumption
<1>2. /\ row1 = [key |-> Seeded, delta |-> 1, reason |-> "admin_change", sig |-> Absent,
                  cents |-> Absent, age |-> Absent]
      /\ row2 = [key |-> Seeded, delta |-> -1, reason |-> "usage", sig |-> Absent, at |-> -HOUR]
      /\ row3 = [key |-> Seeded, delta |-> -2, reason |-> "usage", sig |-> Absent, at |-> 0]
  BY DEF Row, UsageRow, StartingBalance
<1>3. ledger = <<row1, row2, row3>>
  BY DEF CreditsInit
<1> HIDE DEF row1, row2, row3
<1>4. row1 \in CreditRows /\ row2 \in CreditRows /\ row3 \in CreditRows
  BY <1>1, <1>2 DEF CreditRows, Reasons
<1>5. ledger \in Seq(CreditRows)
  BY <1>3, <1>4
<1>6. /\ DOMAIN ledger = {1, 2, 3} /\ ledger[1] = row1 /\ ledger[2] = row2 /\ ledger[3] = row3
  BY <1>3
<1>7. \A i \in DOMAIN ledger : ledger[i].sig = Absent /\ ledger[i].reason # "tip"
  BY <1>2, <1>6
<1>8. DOMAIN payments = {} /\ payments \in Seq(PaymentRows)
  BY DEF CreditsInit
<1>9. CreditShapes
  <2>1. time = 0 /\ check = Absent /\ DOMAIN balance = {Seeded}
    BY DEF CreditsInit
  <2>2. sol_price.cents \in Cents /\ sol_price.at = 0
    BY <1>1 DEF CreditsInit
  <2>3. QED
    BY <1>1, <1>5, <1>8, <2>1, <2>2 DEF CreditShapes
<1>10. PaymentsApart /\ PaymentsHaveRows
  BY <1>8 DEF PaymentsApart, PaymentsHaveRows
<1>11. RowsOfPayments
  BY <1>7 DEF RowsOfPayments
<1>12. QED
  BY <1>9, <1>10, <1>11 DEF CreditInv

LEMMA CreditInvKept ==
  CreditInv /\ [CreditsNext]_creditsVars => CreditInv'
<1> SUFFICES ASSUME CreditInv, [CreditsNext]_creditsVars PROVE CreditInv'
  OBVIOUS
<1>1. CreditShapes'
  BY CreditShapesStep
<1>2. (PaymentsApart /\ RowsOfPayments /\ PaymentsHaveRows)'
  <2>1. ASSUME NEW k \in ApiKeys, CreateClient(k) PROVE ledger' = ledger /\ payments' = payments
    BY <2>1 DEF CreateClient
  <2>2. CASE ReadPrice
    BY <2>2, PaymentsStay DEF ReadPrice
  <2>3. CASE CreditPayments
    <3>1. CASE ~ IsFresh(Copied)
      BY <2>3, <3>1, PaymentsStay DEF CreditPayments
    <3>2. QED
      BY <2>3, <3>1, CreditKeepsRows
  <2>4. ASSUME NEW c \in Cents, RefreshPrice(c) PROVE ledger' = ledger /\ payments' = payments
    BY <2>4 DEF RefreshPrice
  <2>5. CASE TimePasses
    BY <2>5, PaymentsStay DEF TimePasses
  <2>6. CASE ReadPage
    BY <2>6, PaymentsStay DEF ReadPage
  <2>7. CASE UNCHANGED creditsVars
    BY <2>7, PaymentsStay DEF creditsVars
  <2>8. QED
    BY <2>1, <2>2, <2>3, <2>4, <2>5, <2>6, <2>7, PaymentsStay, ChangeKeepsRows, PayKeepsApart DEF CreditsNext
<1>3. QED
  BY <1>1, <1>2 DEF CreditInv

\* However the payment task, the refresh of the price and the handlers take turns, a payment is
\* credited once, to the key that registered it, at a price that is not too old, and none that is
\* worth something is set aside without a row (register_payments, credit_payments).
THEOREM CreditedOnce ==
  CreditsInit /\ [][CreditsNext]_creditsVars => []PaymentsCreditedOnce
<1>1. CreditInv => PaymentsCreditedOnce
  BY DEF CreditInv, PaymentsApart, RowsOfPayments, PaymentsHaveRows, PaymentsCreditedOnce
<1>2. QED
  BY <1>1, CreditInvStart, CreditInvKept, PTL
-----------------------------------------------------------------------------
(* The credits of the admin mock: balances. *)

Counted(L, k) == {i \in DOMAIN L : L[i].key = k /\ L[i].reason # "usage"}

Book(L, k) == SumFunctionOnSet([i \in Counted(L, k) |-> L[i].delta], Counted(L, k))

LEMMA CountedRows ==
  ASSUME NEW L \in Seq(CreditRows), NEW k
  PROVE  /\ Counted(L, k) \subseteq DOMAIN L /\ IsFiniteSet(Counted(L, k)) /\ Counted(L, k) \subseteq Int
         /\ \A i \in DOMAIN L : L[i].delta \in Int
         /\ [i \in Counted(L, k) |-> L[i].delta] \in [Counted(L, k) -> Int]
         /\ Book(L, k) \in Int
<1>1. IsFiniteSet(DOMAIN L) /\ DOMAIN L \subseteq Int /\ \A i \in DOMAIN L : L[i] \in CreditRows
  BY SeqFinite
<1>2. \A i \in DOMAIN L : L[i].delta \in Int
  BY <1>1 DEF CreditRows
<1>3. Counted(L, k) \in SUBSET DOMAIN L
  BY DEF Counted
<1>4. IsFiniteSet(Counted(L, k)) /\ Counted(L, k) \subseteq Int
  BY <1>1, <1>3, FS_Subset
<1> DEFINE F == [i \in Counted(L, k) |-> L[i].delta]
<1>5. F \in [Counted(L, k) -> Int]
  BY <1>2, <1>3
<1> HIDE DEF F
<1>6. SumFunctionOnSet(F, Counted(L, k)) \in Int
  BY <1>4, <1>5, SumBasics
<1>7. QED
  BY <1>2, <1>3, <1>4, <1>5, <1>6 DEF F, Book

\* What the history adds up to, as the sum of a function.
LEMMA BookIs ==
  ASSUME NEW L \in Seq(CreditRows), NEW k
  PROVE  MapThenSumSet(LAMBDA i : L[i].delta, Counted(L, k)) = Book(L, k)
<1> DEFINE T == Counted(L, k)
           F == [i \in T |-> L[i].delta]
           adds(q) == [s \in SUBSET T |-> IF s = {} THEN 0
                          ELSE L[CHOOSE x \in s : TRUE].delta + q[s \ {CHOOSE x \in s : TRUE}]]
           g == CHOOSE q : q = adds(q)
<1>1. IsFiniteSet(T) /\ F \in [T -> Int]
  BY CountedRows
<1>2. MapThenSumSet(LAMBDA i : L[i].delta, T) = g[T]
  BY DEF MapThenSumSet, MapThenFoldSet
<1>3. Book(L, k) = SumFunctionOnSet(F, T)
  BY DEF Book
<1> HIDE DEF T
<1>4. \A s \in SUBSET T : s # {} => F[CHOOSE x \in s : TRUE] = L[CHOOSE x \in s : TRUE].delta
  <2>1. \A s \in SUBSET T : s # {} => (CHOOSE x \in s : TRUE) \in T
    OBVIOUS
  <2>2. QED
    BY <2>1
<1>5. ASSUME NEW q PROVE Sums(q, F, T) <=> q = adds(q)
  <2> HIDE DEF F
  <2>1. adds(q) = [s \in SUBSET T |-> IF s = {} THEN 0
                       ELSE F[CHOOSE x \in s : TRUE] + q[s \ {CHOOSE x \in s : TRUE}]]
    BY <1>4
  <2>2. QED
    BY <2>1 DEF Sums
<1>6. Sums(g, F, T) /\ g[T] = SumFunctionOnSet(F, T)
  <2> HIDE DEF F, adds
  <2>1. g = adds(g)
    BY <1>1, <1>5, SumChosen
  <2> HIDE DEF g
  <2>2. QED
    BY <1>1, <1>5, <2>1, SumChosen
<1>7. MapThenSumSet(LAMBDA i : L[i].delta, T) = Book(L, k)
  <2> HIDE DEF F, adds, g
  <2> QED
    BY <1>2, <1>3, <1>6
<1>8. QED
  BY <1>7 DEF T

\* And what the payments of a client earn.
LEMMA EarnedIs ==
  ASSUME NEW T, IsFiniteSet(T), \A i \in T : Worth(i) \in Int
  PROVE  MapThenSumSet(Worth, T) = SumFunctionOnSet([i \in T |-> Worth(i)], T)
<1> DEFINE F == [i \in T |-> Worth(i)]
           adds(q) == [s \in SUBSET T |-> IF s = {} THEN 0
                          ELSE Worth(CHOOSE x \in s : TRUE) + q[s \ {CHOOSE x \in s : TRUE}]]
           g == CHOOSE q : q = adds(q)
<1>1. F \in [T -> Int]
  OBVIOUS
<1>2. MapThenSumSet(Worth, T) = g[T]
  BY DEF MapThenSumSet, MapThenFoldSet
<1>4. \A s \in SUBSET T : s # {} => F[CHOOSE x \in s : TRUE] = Worth(CHOOSE x \in s : TRUE)
  <2>1. \A s \in SUBSET T : s # {} => (CHOOSE x \in s : TRUE) \in T
    OBVIOUS
  <2>2. QED
    BY <2>1
<1>5. ASSUME NEW q PROVE Sums(q, F, T) <=> q = adds(q)
  <2> HIDE DEF F
  <2>1. adds(q) = [s \in SUBSET T |-> IF s = {} THEN 0
                       ELSE F[CHOOSE x \in s : TRUE] + q[s \ {CHOOSE x \in s : TRUE}]]
    BY <1>4
  <2>2. QED
    BY <2>1 DEF Sums
<1>6. Sums(g, F, T) /\ g[T] = SumFunctionOnSet(F, T)
  <2> HIDE DEF F, adds
  <2>1. g = adds(g)
    BY <1>1, <1>5, SumChosen
  <2> HIDE DEF g
  <2>2. QED
    BY <1>1, <1>5, <2>1, SumChosen
<1>7. QED
  BY <1>2, <1>6

\* One more row is booked for the client it is about, and for nobody else.
LEMMA BookAppend ==
  ASSUME NEW L \in Seq(CreditRows), NEW M \in Seq(CreditRows), NEW n, n = Len(L) + 1,
         DOMAIN M = 1..n, \A i \in DOMAIN L : M[i] = L[i], M[n].reason # "usage"
  PROVE  \A k : Book(M, k) = IF k = M[n].key THEN Book(L, k) + M[n].delta ELSE Book(L, k)
<1> SUFFICES ASSUME NEW k
             PROVE  Book(M, k) = IF k = M[n].key THEN Book(L, k) + M[n].delta ELSE Book(L, k)
  OBVIOUS
<1> DEFINE F == [i \in Counted(L, k) |-> L[i].delta]
           H == [i \in Counted(M, k) |-> M[i].delta]
           S == Counted(L, k)
           R == Counted(M, k)
<1>1. DOMAIN L = 1..Len(L) /\ Len(L) \in Nat
  OBVIOUS
<1>2. n \notin DOMAIN L /\ DOMAIN M = DOMAIN L \cup {n}
  BY <1>1
<1>3. /\ IsFiniteSet(S) /\ F \in [S -> Int] /\ IsFiniteSet(R) /\ H \in [R -> Int]
      /\ S \subseteq DOMAIN L /\ M[n].delta \in Int
  BY <1>2, CountedRows
<1>4. S \subseteq R /\ R = IF k = M[n].key THEN S \cup {n} ELSE S
  BY <1>2 DEF Counted
<1>5. \A i \in S : F[i] = H[i]
  BY <1>3, <1>4
<1>6. n \in R => H[n] = M[n].delta
  OBVIOUS
<1>7. Book(L, k) = SumFunctionOnSet(F, S) /\ Book(M, k) = SumFunctionOnSet(H, R)
  BY DEF Book
<1> HIDE DEF F, H, S, R
<1>8. S \in SUBSET S /\ S \in SUBSET R /\ R \in SUBSET R
  BY <1>4
<1>9. SumFunctionOnSet(F, S) = SumFunctionOnSet(H, S)
  BY <1>3, <1>5, <1>8, SumAgree
<1>10. SumFunctionOnSet(F, S) \in Int
  BY <1>3, <1>8, SumBasics
<1>11. CASE k = M[n].key
  <2>1. n \in R /\ R \ {n} = S
    BY <1>2, <1>3, <1>4, <1>11
  <2>2. SumFunctionOnSet(H, R) = H[n] + SumFunctionOnSet(H, R \ {n})
    BY <1>3, <1>8, <2>1, SumRemove
  <2>3. SumFunctionOnSet(H, R \ {n}) = SumFunctionOnSet(F, S)
    BY <1>9, <2>1, Zenon
  <2>4. QED
    BY <1>3, <1>6, <1>7, <1>10, <1>11, <2>1, <2>2, <2>3
<1>12. CASE k # M[n].key
  <2>1. R = S
    BY <1>4, <1>12
  <2>2. SumFunctionOnSet(H, R) = SumFunctionOnSet(F, S)
    BY <1>9, <2>1, Zenon
  <2>3. QED
    BY <1>7, <1>12, <2>2
<1>13. QED
  BY <1>11, <1>12

Balanced ==
    /\ \A k \in DOMAIN balance : balance[k] \in Int
    /\ capped \subseteq DOMAIN balance
    /\ \A i \in DOMAIN ledger : ledger[i].key \in DOMAIN balance
    /\ \A k \in DOMAIN balance :
           IF k \in capped THEN balance[k] <= Book(ledger, k) ELSE balance[k] = Book(ledger, k)

\* A client of whom the history has no row.
LEMMA NothingBooked ==
  ASSUME NEW L \in Seq(CreditRows), NEW k, \A i \in DOMAIN L : L[i].key # k
  PROVE  Book(L, k) = 0
<1> DEFINE F == [i \in Counted(L, k) |-> L[i].delta]
<1>1. Counted(L, k) = {}
  BY DEF Counted
<1>2. F \in [Counted(L, k) -> Int] /\ IsFiniteSet(Counted(L, k))
  BY CountedRows
<1>3. Book(L, k) = SumFunctionOnSet(F, Counted(L, k))
  BY DEF Book
<1> HIDE DEF F
<1>4. SumFunctionOnSet(F, {}) = 0
  BY <1>2, SumBasics
<1>5. QED
  BY <1>1, <1>3, <1>4

\* What the payment task books for a client is what it adds to the balance.
LEMMA CreditBooks ==
  ASSUME CreditInv, CreditPayments, IsFresh(Copied), NEW k
  PROVE  Earned(k) \in Int /\ Book(ledger', k) = Book(ledger, k) + Earned(k)
<1> DEFINE size == Cardinality(Paid)
           old == Len(ledger)
           mine == {i \in Due : payments[i].key = k}
           W == [i \in mine |-> Worth(i)]
           Q == {i \in Paid : payments[i].key = k}
           q == [i \in Q |-> Worth(i)]
           P == Counted(ledger, k)
           p == [i \in P |-> ledger[i].delta]
           S == Counted(ledger', k)
           r == [i \in S |-> ledger'[i].delta]
           f == [i \in Q |-> old + Rank(Paid, i)]
<1>1. /\ ledger \in Seq(CreditRows) /\ payments \in Seq(PaymentRows) /\ ledger' \in Seq(CreditRows)
  BY CreditAdds DEF CreditInv, CreditShapes
<1>2. /\ Due \subseteq DOMAIN payments /\ Paid \subseteq Due /\ IsFiniteSet(Paid)
      /\ \A i \in Due : Worth(i) \in Nat
  BY CreditAdds
<1>3. /\ DOMAIN ledger = 1..old /\ old \in Nat /\ size \in Nat
      /\ DOMAIN ledger' = 1..old + size
      /\ \A i \in DOMAIN ledger : ledger'[i] = ledger[i]
  BY CreditAdds
<1>4. \A n \in 1..size :
          /\ ledger'[old + n].reason = "tip"
          /\ ledger'[old + n].key = payments[Nth(Paid, n)].key
          /\ ledger'[old + n].delta = Worth(Nth(Paid, n))
  BY CreditAdds
<1>5. IsFiniteSet(DOMAIN payments) /\ DOMAIN payments \subseteq Int
  BY <1>1, SeqFinite
<1>6. /\ \A n \in 1..size : Nth(Paid, n) \in Paid /\ Rank(Paid, Nth(Paid, n)) = n
      /\ \A i \in Paid : Rank(Paid, i) \in 1..size /\ Nth(Paid, Rank(Paid, i)) = i
  <2>1. Paid \subseteq Int
    BY <1>2, <1>5
  <2>2. QED
    BY <1>2, <2>1, NthRanks
\* The sum over all that are due is that over those that are worth something.
<1>7. mine \in SUBSET mine /\ Q \in SUBSET mine /\ mine \ Q \in SUBSET mine /\ IsFiniteSet(mine)
      /\ IsFiniteSet(Q) /\ W \in [mine -> Nat] /\ W \in [mine -> Int] /\ q \in [Q -> Int]
      /\ \A i \in mine \ Q : W[i] = 0
  <2>1. mine \in SUBSET DOMAIN payments /\ Q \in SUBSET mine /\ \A i \in mine : Worth(i) \in Nat
    BY <1>2
  <2>2. IsFiniteSet(mine) /\ IsFiniteSet(Q)
    BY <1>5, <2>1, FS_Subset
  <2>3. \A i \in mine \ Q : W[i] = 0
    BY <2>1 DEF Paid
  <2> HIDE DEF mine, Q
  <2>4. QED
    BY <2>1, <2>2, <2>3
<1>8. Earned(k) = SumFunctionOnSet(W, mine)
  <2>1. Earned(k) = MapThenSumSet(Worth, mine)
    BY DEF Earned, Total
  <2>2. \A i \in mine : Worth(i) \in Int
    BY <1>2
  <2> HIDE DEF mine
  <2>3. QED
    BY <1>7, <2>1, <2>2, EarnedIs
<1>9. SumFunctionOnSet(W, mine) = SumFunctionOnSet(q, Q) /\ SumFunctionOnSet(q, Q) \in Int
  <2>1. \A i \in Q : W[i] = q[i]
    BY <1>7
  <2> DEFINE N == mine \ Q
  <2>2. mine = Q \cup N /\ Q \cap N = {} /\ N \in SUBSET mine /\ \A i \in N : W[i] = 0
    BY <1>7
  <2> HIDE DEF N, W, q, Q, mine
  <2>3. SumFunctionOnSet(W, Q \cup N) = SumFunctionOnSet(W, Q) + SumFunctionOnSet(W, N)
    BY <1>7, <2>2, SumUnion
  <2>4. SumFunctionOnSet(W, N) = 0
    BY <1>7, <2>2, SumNat
  <2>5. SumFunctionOnSet(W, Q) = SumFunctionOnSet(q, Q)
    BY <1>7, <2>1, SumAgree
  <2>6. SumFunctionOnSet(q, Q) \in Int
    BY <1>7, SumBasics
  <2>7. SumFunctionOnSet(W, mine) = SumFunctionOnSet(W, Q \cup N)
    BY <2>2, Zenon
  <2>8. QED
    BY <2>3, <2>4, <2>5, <2>6, <2>7
\* The rows of the client are the old ones and one for each of those payments.
<1>10. /\ IsFiniteSet(S) /\ r \in [S -> Int] /\ IsFiniteSet(P) /\ p \in [P -> Int]
       /\ P \subseteq DOMAIN ledger
  BY <1>1, CountedRows
<1>11. \A i \in Q : /\ i \in Paid /\ f[i] = old + Rank(Paid, i) /\ f[i] \in DOMAIN ledger' /\ f[i] \notin DOMAIN ledger
                    /\ ledger'[f[i]].reason = "tip" /\ ledger'[f[i]].key = k
                    /\ ledger'[f[i]].delta = Worth(i) /\ f[i] \in S
  <2> SUFFICES ASSUME NEW i \in Q
               PROVE  /\ i \in Paid /\ f[i] = old + Rank(Paid, i)
                      /\ f[i] \in DOMAIN ledger' /\ f[i] \notin DOMAIN ledger
                      /\ ledger'[f[i]].reason = "tip" /\ ledger'[f[i]].key = k
                      /\ ledger'[f[i]].delta = Worth(i) /\ f[i] \in S
    OBVIOUS
  <2>1. i \in Paid /\ payments[i].key = k /\ f[i] = old + Rank(Paid, i)
    OBVIOUS
  <2>2. Rank(Paid, i) \in 1..size /\ Nth(Paid, Rank(Paid, i)) = i
    BY <1>6, <2>1
  <2> HIDE DEF f, size, old
  <2>3. f[i] \in DOMAIN ledger' /\ f[i] \notin DOMAIN ledger
    BY <1>3, <2>1, <2>2
  <2>4. ledger'[f[i]].reason = "tip" /\ ledger'[f[i]].key = k /\ ledger'[f[i]].delta = Worth(i)
    BY <1>4, <2>1, <2>2
  <2>5. QED
    BY <2>1, <2>3, <2>4 DEF Counted
<1>12. InParts(S, r, P, p, Q, q, f)
  <2>1. P \subseteq S /\ \A i \in P : r[i] = p[i]
    <3>1. DOMAIN ledger \subseteq DOMAIN ledger'
      BY <1>3
    <3>2. P \subseteq S
      BY <1>3, <3>1 DEF Counted
    <3>3. ASSUME NEW i \in P PROVE r[i] = p[i]
      <4>1. i \in S /\ i \in DOMAIN ledger
        BY <1>10, <3>2
      <4>2. r[i] = ledger'[i].delta /\ p[i] = ledger[i].delta
        BY <4>1
      <4>3. QED
        BY <1>3, <4>1, <4>2
    <3>4. QED
      BY <3>2, <3>3
  <2>2. f \in [Q -> S] /\ \A x \in Q : r[f[x]] = q[x]
    <3>1. \A x \in Q : f[x] \in S /\ q[x] = Worth(x)
      BY <1>11
    <3>2. \A y \in S : r[y] = ledger'[y].delta
      OBVIOUS
    <3>3. \A x \in Q : r[f[x]] = q[x]
      <4> HIDE DEF r, f, q, S, Q
      <4> QED
        BY <1>11, <3>1, <3>2
    <3>4. f \in [Q -> S]
      BY <3>1
    <3>5. QED
      BY <3>3, <3>4
  <2>3. ASSUME NEW x \in Q, NEW y \in Q, f[x] = f[y] PROVE x = y
    <3>1. /\ x \in Paid /\ y \in Paid
          /\ f[x] = old + Rank(Paid, x) /\ f[y] = old + Rank(Paid, y)
      BY <1>11
    <3>2. /\ Rank(Paid, x) \in 1..size /\ Rank(Paid, y) \in 1..size
          /\ Nth(Paid, Rank(Paid, x)) = x /\ Nth(Paid, Rank(Paid, y)) = y
      BY <1>6, <3>1
    <3> HIDE DEF f, size, old
    <3>3. Rank(Paid, x) = Rank(Paid, y)
      <4> DEFINE m == Rank(Paid, x)
                 n == Rank(Paid, y)
      <4>1. m \in Int /\ n \in Int /\ old \in Int
        BY <1>3, <3>2
      <4>2. old + m = old + n
        BY <2>3, <3>1
      <4> HIDE DEF m, n
      <4>3. m = n
        BY <4>1, <4>2
      <4>4. QED
        BY <4>3 DEF m, n
    <3>4. QED
      BY <3>2, <3>3
  <2>4. P \cap {f[i] : i \in Q} = {}
    <3>1. \A x \in Q : f[x] \notin DOMAIN ledger
      BY <1>11
    <3> HIDE DEF f, Q, P
    <3>2. \A i \in P : i \in DOMAIN ledger
      BY <1>10
    <3>3. QED
      BY ONLY <3>1, <3>2
  <2>5. ASSUME NEW y \in S PROVE y \in P \cup {f[i] : i \in Q}
    <3>1. y \in DOMAIN ledger' /\ ledger'[y].key = k /\ ledger'[y].reason # "usage"
      BY DEF Counted
    <3>2. CASE y \in DOMAIN ledger
      BY <1>3, <3>1, <3>2 DEF Counted
    <3>3. CASE y \notin DOMAIN ledger
      <4> DEFINE n == y - old
      <4>1. n \in 1..size /\ y = old + n
        BY <1>3, <3>1, <3>3
      <4> HIDE DEF n
      <4>2. Nth(Paid, n) \in Paid /\ Rank(Paid, Nth(Paid, n)) = n /\ payments[Nth(Paid, n)].key = k
        BY <1>4, <1>6, <3>1, <4>1
      <4>3. Nth(Paid, n) \in Q /\ f[Nth(Paid, n)] = y
        BY <4>1, <4>2
      <4>4. QED
        BY <4>3
    <3>4. QED
      BY <3>2, <3>3
  <2>6. {f[i] : i \in Q} \subseteq S
    BY <1>11
  <2>7. P \cup {f[i] : i \in Q} = S
    <3> HIDE DEF f, P, Q, S
    <3> QED
      BY <2>1, <2>5, <2>6
  <2> HIDE DEF S, r, P, p, Q, q, f
  <2>8. QED
    BY <1>7, <1>10, <2>1, <2>2, <2>3, <2>4, <2>7 DEF InParts
<1>13. Book(ledger', k) = SumFunctionOnSet(r, S) /\ Book(ledger, k) = SumFunctionOnSet(p, P)
  BY DEF Book
<1>14. Book(ledger, k) \in Int
  BY <1>1, CountedRows
<1> HIDE DEF mine, W, S, r, P, p, Q, q, f
<1>15. SumFunctionOnSet(r, S) = SumFunctionOnSet(p, P) + SumFunctionOnSet(q, Q)
  BY <1>12, SumInParts
<1>16. QED
  BY <1>8, <1>9, <1>13, <1>15

LEMMA BalancedStart ==
  CreditsInit => Balanced
<1> SUFFICES ASSUME CreditsInit PROVE Balanced
  OBVIOUS
<1> DEFINE row1 == Row(Seeded, StartingBalance, "admin_change", Absent, Absent)
           row2 == UsageRow(Seeded, 1, -HOUR)
           row3 == UsageRow(Seeded, 2, 0)
           F == [i \in Counted(ledger, Seeded) |-> ledger[i].delta]
           S == Counted(ledger, Seeded)
<1>1. /\ row1 = [key |-> Seeded, delta |-> 1, reason |-> "admin_change", sig |-> Absent,
                  cents |-> Absent, age |-> Absent]
      /\ row2 = [key |-> Seeded, delta |-> -1, reason |-> "usage", sig |-> Absent, at |-> -HOUR]
      /\ row3 = [key |-> Seeded, delta |-> -2, reason |-> "usage", sig |-> Absent, at |-> 0]
  BY DEF Row, UsageRow, StartingBalance
<1>2. ledger = <<row1, row2, row3>>
  BY DEF CreditsInit
<1> HIDE DEF row1, row2, row3
<1>3. DOMAIN ledger = {1, 2, 3} /\ ledger[1] = row1 /\ ledger[2] = row2 /\ ledger[3] = row3
  BY <1>2
<1>4. \A i \in DOMAIN ledger : ledger[i].key = Seeded
  BY <1>1, <1>3
<1>5. S = {1}
  BY <1>1, <1>3 DEF Counted
<1>6. DOMAIN balance = {Seeded} /\ balance[Seeded] = 1 /\ capped = {}
  BY DEF CreditsInit, StartingBalance
<1>7. Book(ledger, Seeded) = 1
  <2>1. ledger \in Seq(CreditRows)
    BY CreditInvStart DEF CreditInv, CreditShapes
  <2>2. IsFiniteSet(S) /\ F \in [S -> Int]
    BY <2>1, CountedRows
  <2>3. F[1] = 1
    BY <1>1, <1>3, <1>5
  <2>4. Book(ledger, Seeded) = SumFunctionOnSet(F, S)
    BY DEF Book
  <2> HIDE DEF F, S
  <2>5. 1 \in S /\ S \in SUBSET S /\ S \ {1} = {}
    BY <1>5
  <2>6. SumFunctionOnSet(F, S) = F[1] + SumFunctionOnSet(F, S \ {1})
    BY <2>2, <2>5, SumRemove
  <2>7. SumFunctionOnSet(F, S \ {1}) = SumFunctionOnSet(F, {})
    BY <2>5, Zenon
  <2>8. SumFunctionOnSet(F, {}) = 0
    BY <2>2, SumBasics
  <2>9. QED
    BY <2>3, <2>4, <2>6, <2>7, <2>8
<1>8. QED
  BY <1>4, <1>6, <1>7 DEF Balanced

LEMMA BalancedCredits ==
  ASSUME CreditInv, Balanced, CreditPayments, IsFresh(Copied) PROVE Balanced'
<1>1. I64_MAX \in Nat
  BY PreconfCreditsAssumption
<1>2. /\ balance' = [k \in DOMAIN balance |->
             IF balance[k] + Earned(k) > I64_MAX THEN I64_MAX ELSE balance[k] + Earned(k)]
      /\ capped' = capped \cup {k \in DOMAIN balance : balance[k] + Earned(k) > I64_MAX}
  BY DEF CreditPayments
<1>3. ASSUME NEW k \in DOMAIN balance
      PROVE  /\ balance'[k] \in Int
             /\ IF k \in capped' THEN balance'[k] <= Book(ledger', k) ELSE balance'[k] = Book(ledger', k)
  <2>1. /\ balance[k] \in Int
        /\ IF k \in capped THEN balance[k] <= Book(ledger, k) ELSE balance[k] = Book(ledger, k)
    BY DEF Balanced
  <2>2. Earned(k) \in Int /\ Book(ledger', k) = Book(ledger, k) + Earned(k)
    BY CreditBooks
  <2>3. Book(ledger, k) \in Int
    BY CountedRows DEF CreditInv, CreditShapes
  <2>4. CASE balance[k] + Earned(k) > I64_MAX
    <3>1. balance'[k] = I64_MAX /\ k \in capped'
      BY <1>2, <2>4
    <3>2. QED
      BY <1>1, <2>1, <2>2, <2>3, <2>4, <3>1
  <2>5. CASE ~ (balance[k] + Earned(k) > I64_MAX)
    <3>1. balance'[k] = balance[k] + Earned(k) /\ (k \in capped' <=> k \in capped)
      BY <1>2, <2>5
    <3>2. QED
      BY <2>1, <2>2, <2>3, <3>1
  <2>6. QED
    BY <2>4, <2>5
<1>4. DOMAIN balance' = DOMAIN balance /\ capped' \subseteq DOMAIN balance'
  BY <1>2 DEF Balanced
<1>5. ASSUME NEW i \in DOMAIN ledger' PROVE ledger'[i].key \in DOMAIN balance
  <2> DEFINE size == Cardinality(Paid)
             n == i - Len(ledger)
  <2>1. /\ DOMAIN ledger = 1..Len(ledger) /\ Len(ledger) \in Nat /\ size \in Nat
        /\ DOMAIN ledger' = 1..Len(ledger) + size
        /\ \A j \in DOMAIN ledger : ledger'[j] = ledger[j]
    BY CreditAdds
  <2>2. CASE i \in DOMAIN ledger
    BY <2>1, <2>2 DEF Balanced
  <2>3. CASE i \notin DOMAIN ledger
    <3>1. n \in 1..size /\ i = Len(ledger) + n
      BY <2>1, <2>3
    <3> HIDE DEF n
    <3>2. ledger'[Len(ledger) + n].key = payments[Nth(Paid, n)].key /\ Nth(Paid, n) \in Paid
      BY <3>1, CreditAdds
    <3>3. Nth(Paid, n) \in Due
      BY <3>2, CreditAdds
    <3>4. payments[Nth(Paid, n)].key \in DOMAIN balance
      BY <3>3, CreditAdds
    <3>5. QED
      BY <3>1, <3>2, <3>4
  <2>4. QED
    BY <2>2, <2>3
<1>6. QED
  BY <1>3, <1>4, <1>5 DEF Balanced

LEMMA BalancedStep ==
  CreditInv /\ Balanced /\ [CreditsNext]_creditsVars => Balanced'
<1> SUFFICES ASSUME CreditInv, Balanced, [CreditsNext]_creditsVars PROVE Balanced'
  OBVIOUS
<1>1. ledger \in Seq(CreditRows)
  BY DEF CreditInv, CreditShapes
<1>2. ASSUME NEW k \in ApiKeys, CreateClient(k) PROVE Balanced'
  <2>1. /\ k \notin DOMAIN balance /\ ledger' = ledger /\ capped' = capped
        /\ DOMAIN balance' = DOMAIN balance \cup {k}
        /\ balance'[k] = 0 /\ \A c \in DOMAIN balance : balance'[c] = balance[c]
    BY <1>2 DEF CreateClient
  <2>2. Book(ledger, k) = 0 /\ k \notin capped
    BY <1>1, <2>1, NothingBooked DEF Balanced
  <2>3. QED
    BY <2>1, <2>2 DEF Balanced
<1>3. ASSUME NEW k \in ApiKeys, NEW c \in Changes, ChangeCredits(k, c) PROVE Balanced'
  <2> DEFINE n == Len(ledger) + 1
  <2>1. /\ ledger' \in Seq(CreditRows) /\ DOMAIN ledger = 1..Len(ledger) /\ Len(ledger) \in Nat
        /\ DOMAIN ledger' = 1..n
        /\ \A i \in DOMAIN ledger : ledger'[i] = ledger[i]
        /\ ledger'[n].key = k /\ ledger'[n].delta = Delta(c)
        /\ ledger'[n].reason \in {"admin_change", "manual_payment"}
        /\ k \in DOMAIN balance /\ Delta(c) \in Int /\ DOMAIN balance' = DOMAIN balance
        /\ balance' = [balance EXCEPT ![k] = balance[k] + Delta(c)]
    BY <1>3, ChangeAdds
  <2>2. n \in Nat /\ DOMAIN ledger' = DOMAIN ledger \cup {n}
    BY <2>1
  <2> HIDE DEF n
  <2>3. \A a : Book(ledger', a) = IF a = k THEN Book(ledger, a) + Delta(c) ELSE Book(ledger, a)
    <3>1. ledger'[n].reason # "usage"
      BY <2>1
    <3>2. \A a : Book(ledger', a) = IF a = ledger'[n].key THEN Book(ledger, a) + ledger'[n].delta ELSE Book(ledger, a)
      BY SMTT(30), <1>1, <2>1, <3>1, BookAppend DEF n
    <3>3. QED
      BY <2>1, <3>2
  <2>4. capped' = capped
    BY <1>3 DEF ChangeCredits
  <2>5. ASSUME NEW a \in DOMAIN balance
        PROVE  /\ balance'[a] \in Int
               /\ IF a \in capped THEN balance'[a] <= Book(ledger', a) ELSE balance'[a] = Book(ledger', a)
    <3>1. /\ balance[a] \in Int
          /\ IF a \in capped THEN balance[a] <= Book(ledger, a) ELSE balance[a] = Book(ledger, a)
      BY DEF Balanced
    <3>2. Book(ledger, a) \in Int /\ Delta(c) \in Int
      BY <1>1, <2>1, CountedRows
    <3>3. CASE a = k
      <4>1. balance'[a] = balance[a] + Delta(c) /\ Book(ledger', a) = Book(ledger, a) + Delta(c)
        BY <2>1, <2>3, <3>3
      <4>2. QED
        BY <3>1, <3>2, <4>1
    <3>4. CASE a # k
      BY <2>1, <2>3, <3>1, <3>4
    <3>5. QED
      BY <3>3, <3>4
  <2>6. \A i \in DOMAIN ledger' : ledger'[i].key \in DOMAIN balance'
    BY <2>1, <2>2 DEF Balanced
  <2>7. QED
    BY <2>1, <2>4, <2>5, <2>6 DEF Balanced
<1>4. ASSUME NEW k \in ApiKeys \cup Strangers, NEW b \in Batches, Pay(k, b)
      PROVE  ledger' = ledger /\ balance' = balance /\ capped' = capped
  BY <1>4 DEF Pay
<1>5. CASE ReadPrice
  BY <1>5 DEF ReadPrice, Balanced
<1>6. CASE CreditPayments
  <2>1. CASE ~ IsFresh(Copied)
    BY <1>6, <2>1 DEF CreditPayments, Balanced
  <2>2. QED
    BY <1>6, <2>1, BalancedCredits
<1>7. ASSUME NEW c \in Cents, RefreshPrice(c)
      PROVE  ledger' = ledger /\ balance' = balance /\ capped' = capped
  BY <1>7 DEF RefreshPrice
<1>8. CASE TimePasses
  BY <1>8 DEF TimePasses, Balanced
<1>9. CASE ReadPage
  BY <1>9 DEF ReadPage, Balanced
<1>10. CASE UNCHANGED creditsVars
  BY <1>10 DEF creditsVars, Balanced
<1>11. ASSUME ledger' = ledger, balance' = balance, capped' = capped PROVE Balanced'
  BY <1>11 DEF Balanced
<1>12. QED
  BY <1>2, <1>3, <1>4, <1>5, <1>6, <1>7, <1>8, <1>9, <1>10, <1>11 DEF CreditsNext

\* A balance is what the history adds up to, and less only for a client whom a tip has filled to
\* the largest balance: the rows that one run of the payment task adds for several payments of a
\* client are together what it adds to the balance (change_postpack_credits, credit_payments).
THEOREM BalancesAddUp ==
  CreditsInit /\ [][CreditsNext]_creditsVars => []BalanceIsLedger
<1>1. CreditInv /\ Balanced => BalanceIsLedger
  <2> SUFFICES ASSUME CreditInv, Balanced PROVE BalanceIsLedger
    OBVIOUS
  <2>1. ledger \in Seq(CreditRows)
    BY DEF CreditInv, CreditShapes
  <2>2. ASSUME NEW k PROVE Booked(k) = Book(ledger, k)
    BY <2>1, BookIs DEF Booked, Total, Counted
  <2>3. QED
    BY <2>2 DEF Balanced, BalanceIsLedger
<1>2. CreditsInit => CreditInv /\ Balanced
  BY CreditInvStart, BalancedStart
<1>3. CreditInv /\ Balanced /\ [CreditsNext]_creditsVars => (CreditInv /\ Balanced)'
  BY CreditInvKept, BalancedStep
<1>4. QED
  BY <1>1, <1>2, <1>3, PTL

BalancesWithin ==
    /\ \A k \in DOMAIN balance : balance[k] \in 0..I64_MAX
    /\ \A i \in DOMAIN payments : payments[i].key \in ApiKeys

\* What the payment task adds to a balance is not negative.
LEMMA EarnedNat ==
  ASSUME CreditInv, CreditPayments, IsFresh(Copied), NEW k
  PROVE  Earned(k) \in Nat
<1> DEFINE mine == {i \in Due : payments[i].key = k}
           W == [i \in mine |-> Worth(i)]
<1>1. /\ IsFiniteSet(DOMAIN payments) /\ Due \subseteq DOMAIN payments
      /\ \A i \in Due : Worth(i) \in Nat
  BY CreditAdds, SeqFinite DEF CreditInv, CreditShapes
<1>2. mine \in SUBSET DOMAIN payments /\ W \in [mine -> Nat]
  BY <1>1
<1>3. \A i \in mine : Worth(i) \in Int
  BY <1>1
<1>4. Earned(k) = MapThenSumSet(Worth, mine)
  BY DEF Earned, Total
<1> HIDE DEF mine
<1>5. IsFiniteSet(mine)
  BY <1>1, <1>2, FS_Subset
<1>6. Earned(k) = SumFunctionOnSet(W, mine)
  BY <1>3, <1>4, <1>5, EarnedIs
<1> HIDE DEF W
<1>7. QED
  BY <1>2, <1>5, <1>6, SumNat

LEMMA BalancesWithinStep ==
  CreditInv /\ BalancesWithin /\ [CreditsNext]_creditsVars => BalancesWithin'
<1> SUFFICES ASSUME CreditInv, BalancesWithin, [CreditsNext]_creditsVars PROVE BalancesWithin'
  OBVIOUS
<1>0. I64_MAX \in Nat
  BY PreconfCreditsAssumption
<1>1. ASSUME NEW k \in ApiKeys, CreateClient(k) PROVE BalancesWithin'
  BY <1>0, <1>1 DEF CreateClient, BalancesWithin
<1>2. ASSUME NEW k \in ApiKeys, NEW c \in Changes, ChangeCredits(k, c) PROVE BalancesWithin'
  <2>1. /\ balance' = [balance EXCEPT ![k] = balance[k] + Delta(c)] /\ Delta(c) \in Int
        /\ k \in DOMAIN balance /\ payments' = payments
    BY <1>2, ChangeAdds DEF ChangeCredits
  <2>2. Allowed(balance[k] + Delta(c)) /\ balance[k] \in 0..I64_MAX
    BY <1>2, <2>1 DEF ChangeCredits, BalancesWithin
  <2>3. balance[k] + Delta(c) \in 0..I64_MAX
    BY <1>0, <2>1, <2>2 DEF Allowed
  <2>4. QED
    BY <2>1, <2>3 DEF BalancesWithin
<1>3. ASSUME NEW k \in ApiKeys \cup Strangers, NEW b \in Batches, Pay(k, b) PROVE BalancesWithin'
  <2>1. balance' = balance /\ k \in ApiKeys
    BY <1>3 DEF Pay
  <2>2. /\ \A i \in DOMAIN payments : i \in DOMAIN payments' /\ payments'[i] = payments[i]
        /\ \A i \in DOMAIN payments' \ DOMAIN payments : payments'[i].key = k
    BY <1>3, PayAdds
  <2>3. QED
    BY <2>1, <2>2 DEF BalancesWithin
<1>4. CASE CreditPayments
  <2>1. CASE IsFresh(Copied)
    <3>1. balance' = [k \in DOMAIN balance |->
                          IF balance[k] + Earned(k) > I64_MAX THEN I64_MAX ELSE balance[k] + Earned(k)]
      BY <1>4, <2>1 DEF CreditPayments
    <3>2. ASSUME NEW k \in DOMAIN balance PROVE balance'[k] \in 0..I64_MAX
      <4> DEFINE sum == Earned(k)
      <4>1. balance[k] \in 0..I64_MAX /\ sum \in Nat
        BY <1>4, <2>1, EarnedNat DEF BalancesWithin
      <4>2. balance'[k] = IF balance[k] + sum > I64_MAX THEN I64_MAX ELSE balance[k] + sum
        BY <3>1
      <4> HIDE DEF sum
      <4>3. QED
        BY <1>0, <4>1, <4>2
    <3>3. /\ DOMAIN payments' = DOMAIN payments
          /\ \A i \in DOMAIN payments : payments'[i].key = payments[i].key
      BY <1>4, <2>1, CreditAdds
    <3>4. QED
      BY <3>1, <3>2, <3>3 DEF BalancesWithin
  <2>2. CASE ~ IsFresh(Copied)
    BY <1>4, <2>2 DEF CreditPayments, BalancesWithin
  <2>3. QED
    BY <2>1, <2>2
<1>5. ASSUME balance' = balance, payments' = payments PROVE BalancesWithin'
  BY <1>5 DEF BalancesWithin
<1>6. CASE ReadPrice \/ TimePasses \/ ReadPage \/ UNCHANGED creditsVars
  BY <1>5, <1>6 DEF ReadPrice, TimePasses, ReadPage, creditsVars
<1>7. ASSUME NEW c, RefreshPrice(c) PROVE BalancesWithin'
  BY <1>5, <1>7 DEF RefreshPrice
<1>8. QED
  BY <1>1, <1>2, <1>3, <1>4, <1>6, <1>7 DEF CreditsNext

\* Type correctness of the credits (preconf-admin-mock.rs): no balance is negative or more than an
\* i64 holds, every row of the history is of a client, every payment of an API key and of a tip.
THEOREM CreditsTypes ==
  CreditsInit /\ [][CreditsNext]_creditsVars => []CreditsTypeOK
<1>1. CreditsInit => BalancesWithin
  <2> SUFFICES ASSUME CreditsInit PROVE BalancesWithin
    OBVIOUS
  <2>1. /\ DOMAIN balance = {Seeded} /\ balance[Seeded] = StartingBalance /\ payments = <<>>
    BY DEF CreditsInit
  <2>2. StartingBalance \in 0..I64_MAX
    BY PreconfCreditsAssumption DEF StartingBalance
  <2>3. QED
    BY <2>1, <2>2 DEF BalancesWithin
<1>2. CreditInv /\ Balanced /\ BalancesWithin => CreditsTypeOK
  <2> SUFFICES ASSUME CreditInv, Balanced, BalancesWithin PROVE CreditsTypeOK
    OBVIOUS
  <2>1. ASSUME NEW i \in DOMAIN ledger PROVE ledger[i].reason \in Reasons
    <3>1. ledger[i] \in CreditRows
      BY DEF CreditInv, CreditShapes
    <3>2. QED
      BY <3>1 DEF CreditRows, Reasons
  <2>2. QED
    BY <2>1 DEF CreditInv, CreditShapes, PaymentsApart, Balanced, BalancesWithin, CreditsTypeOK
<1>3. QED
  BY CreditInvStart, BalancedStart, CreditInvKept, BalancedStep, BalancesWithinStep, <1>1, <1>2, PTL

-----------------------------------------------------------------------------
(* The credits of the admin mock: views. *)

\* Rows of usage are not of the future; a reader has all the rows between those it has read.
ViewsInv ==
    /\ \A i \in DOMAIN ledger : ledger[i].reason = "usage" => ledger[i].at \in Int /\ ledger[i].at <= time
    /\ paging \subseteq DOMAIN ledger
    /\ \A i \in paging : ledger[i].key = Seeded /\ ledger[i].reason # "usage"
    /\ \A i \in DOMAIN ledger : \A j, m \in paging :
           ledger[i].key = Seeded /\ ledger[i].reason # "usage" /\ j <= i /\ i <= m => i \in paging

\* Rows that are added come last, and are not of usage.
LEMMA ViewsGrow ==
  ASSUME CreditInv, ViewsInv, time' = time, paging' = paging, NEW old \in Nat, NEW all \in Nat,
         DOMAIN ledger = 1..old, DOMAIN ledger' = 1..old + all,
         \A i \in DOMAIN ledger : ledger'[i] = ledger[i],
         \A i \in DOMAIN ledger' \ DOMAIN ledger : ledger'[i].reason # "usage"
  PROVE  ViewsInv'
<1>1. DOMAIN ledger \subseteq DOMAIN ledger'
  OBVIOUS
<1>2. \A i \in DOMAIN ledger' : ledger'[i].reason = "usage" => ledger'[i].at \in Int /\ ledger'[i].at <= time
  BY DEF ViewsInv
<1>3. paging \subseteq DOMAIN ledger' /\ \A i \in paging : ledger'[i].key = Seeded /\ ledger'[i].reason # "usage"
  BY <1>1 DEF ViewsInv
<1>4. ASSUME NEW i \in DOMAIN ledger', ledger'[i].key = Seeded, ledger'[i].reason # "usage",
             NEW j \in paging, j <= i, NEW m \in paging, i <= m
      PROVE  i \in paging
  <2>1. m \in 1..old /\ i \in 1..old + all
    BY DEF ViewsInv
  <2>2. i \in DOMAIN ledger
    BY <1>4, <2>1
  <2>3. ledger[i].key = Seeded /\ ledger[i].reason # "usage"
    BY <1>4, <2>2
  <2>4. QED
    BY <1>4, <2>2, <2>3 DEF ViewsInv
<1>5. QED
  BY <1>2, <1>3, <1>4 DEF ViewsInv

LEMMA ViewsStart ==
  CreditsInit => ViewsInv
<1> SUFFICES ASSUME CreditsInit PROVE ViewsInv
  OBVIOUS
<1> DEFINE row1 == Row(Seeded, StartingBalance, "admin_change", Absent, Absent)
           row2 == UsageRow(Seeded, 1, -HOUR)
           row3 == UsageRow(Seeded, 2, 0)
<1>1. HOUR \in Nat
  BY PreconfCreditsAssumption
<1>2. row1.reason = "admin_change" /\ row2.at = -HOUR /\ row3.at = 0
  BY DEF Row, UsageRow
<1>3. ledger = <<row1, row2, row3>> /\ paging = {} /\ time = 0
  BY DEF CreditsInit
<1> HIDE DEF row1, row2, row3
<1>4. DOMAIN ledger = {1, 2, 3} /\ ledger[1] = row1 /\ ledger[2] = row2 /\ ledger[3] = row3
  BY <1>3
<1>5. -HOUR \in Int /\ -HOUR <= 0
  BY <1>1
<1>6. \A i \in DOMAIN ledger : ledger[i].reason = "usage" => ledger[i].at \in Int /\ ledger[i].at <= time
  BY <1>2, <1>3, <1>4, <1>5
<1>8. paging \subseteq DOMAIN ledger /\ \A i \in paging : ledger[i].key = Seeded /\ ledger[i].reason # "usage"
  BY <1>3
<1>9. QED
  BY <1>3, <1>6, <1>8 DEF ViewsInv

LEMMA ReadPageKeeps ==
  ASSUME CreditInv, ViewsInv, ReadPage PROVE ViewsInv'
<1> DEFINE page == Page(paging)
           next == Max(page)
<1>1. IsFiniteSet(DOMAIN ledger) /\ DOMAIN ledger \subseteq Int
  BY SeqFinite DEF CreditInv, CreditShapes
<1>2. page \subseteq DOMAIN ledger /\ page # {}
  BY DEF ReadPage, Page
<1>3. next \in page /\ \A i \in page : i <= next
  <2> HIDE DEF page
  <2>1. IsFiniteSet(page) /\ page \subseteq Int
    BY <1>1, <1>2, FS_Subset
  <2>2. QED
    BY <1>2, <2>1, MaxOfFinite
<1>4. /\ next \in DOMAIN ledger /\ ledger[next].key = Seeded /\ ledger[next].reason # "usage"
      /\ \A j \in paging : next < j
  BY <1>3 DEF Page
<1>5. \A i \in DOMAIN ledger : ledger[i].key = Seeded /\ ledger[i].reason # "usage"
                               /\ (\A j \in paging : i < j) => i <= next
  BY <1>3 DEF Page
<1>6. paging' = paging \cup {next} /\ ledger' = ledger /\ time' = time
  BY DEF ReadPage
<1> HIDE DEF page, next
<1>7. ASSUME NEW i \in DOMAIN ledger, ledger[i].key = Seeded, ledger[i].reason # "usage",
             NEW j \in paging', j <= i, NEW m \in paging', i <= m
      PROVE  i \in paging'
  <2>1. i \in Int /\ next \in Int /\ paging \subseteq Int
    BY <1>1, <1>4 DEF ViewsInv
  <2>2. CASE \E p \in paging : p <= i
    <3>1. \E p \in paging : i <= p
      BY <1>4, <1>6, <1>7, <2>1, <2>2
    <3>2. QED
      BY <1>6, <1>7, <2>2, <3>1 DEF ViewsInv
  <2>3. CASE ~ \E p \in paging : p <= i
    <3>1. \A p \in paging : i < p
      BY <2>1, <2>3
    <3>2. i <= next /\ j = next
      BY <1>5, <1>6, <1>7, <2>3, <3>1
    <3>3. i = next
      BY <1>7, <2>1, <3>2
    <3>4. QED
      BY <1>6, <3>3
  <2>4. QED
    BY <2>2, <2>3
<1>8. QED
  BY <1>4, <1>6, <1>7 DEF ViewsInv

LEMMA ViewsStep ==
  CreditInv /\ ViewsInv /\ [CreditsNext]_creditsVars => ViewsInv'
<1> SUFFICES ASSUME CreditInv, ViewsInv, [CreditsNext]_creditsVars PROVE ViewsInv'
  OBVIOUS
<1>1. ASSUME ledger' = ledger, paging' = paging, time' = time PROVE ViewsInv'
  BY <1>1 DEF ViewsInv
<1>2. ASSUME NEW k \in ApiKeys, CreateClient(k) PROVE ViewsInv'
  BY <1>1, <1>2 DEF CreateClient
<1>3. ASSUME NEW k \in ApiKeys, NEW c \in Changes, ChangeCredits(k, c) PROVE ViewsInv'
  <2> DEFINE old == Len(ledger)
  <2>1. /\ DOMAIN ledger = 1..old /\ old \in Nat /\ DOMAIN ledger' = 1..old + 1
        /\ \A i \in DOMAIN ledger : ledger'[i] = ledger[i]
        /\ ledger'[old + 1].reason \in {"admin_change", "manual_payment"}
    BY <1>3, ChangeAdds
  <2>2. time' = time /\ paging' = paging
    BY <1>3 DEF ChangeCredits
  <2> HIDE DEF old
  <2>3. \A i \in DOMAIN ledger' \ DOMAIN ledger : ledger'[i].reason # "usage"
    <3>1. \A i \in DOMAIN ledger' \ DOMAIN ledger : i = old + 1
      BY <2>1
    <3>2. QED
      BY <2>1, <3>1
  <2>4. QED
    BY <2>1, <2>2, <2>3, ViewsGrow
<1>4. ASSUME NEW k \in ApiKeys \cup Strangers, NEW b \in Batches, Pay(k, b) PROVE ViewsInv'
  BY <1>1, <1>4 DEF Pay
<1>5. CASE ReadPrice
  BY <1>1, <1>5 DEF ReadPrice
<1>6. CASE CreditPayments
  <2>1. CASE ~ IsFresh(Copied)
    BY <1>1, <1>6, <2>1 DEF CreditPayments
  <2>2. CASE IsFresh(Copied)
    <3> DEFINE old == Len(ledger)
               size == Cardinality(Paid)
    <3>1. /\ DOMAIN ledger = 1..old /\ old \in Nat /\ size \in Nat /\ DOMAIN ledger' = 1..old + size
          /\ \A i \in DOMAIN ledger : ledger'[i] = ledger[i]
          /\ \A n \in 1..size : ledger'[old + n].reason = "tip"
      BY <1>6, <2>2, CreditAdds
    <3>2. time' = time /\ paging' = paging
      BY <1>6 DEF CreditPayments
    <3> HIDE DEF old, size
    <3>3. ASSUME NEW i \in DOMAIN ledger' \ DOMAIN ledger PROVE ledger'[i].reason # "usage"
      <4>1. i - old \in 1..size /\ i = old + (i - old)
        BY <3>1
      <4>2. QED
        BY <3>1, <4>1
    <3>4. QED
      BY <3>1, <3>2, <3>3, ViewsGrow
  <2>3. QED
    BY <2>1, <2>2
<1>7. ASSUME NEW c \in Cents, RefreshPrice(c) PROVE ViewsInv'
  BY <1>1, <1>7 DEF RefreshPrice
<1>8. CASE TimePasses
  <2>1. time \in Int /\ time' = time + 1 /\ ledger' = ledger /\ paging' = paging
    BY <1>8, PreconfCreditsAssumption DEF TimePasses, CreditInv, CreditShapes
  <2>2. \A i \in DOMAIN ledger : ledger[i].reason = "usage" => ledger[i].at \in Int /\ ledger[i].at <= time'
    BY <2>1 DEF ViewsInv
  <2>3. QED
    BY <2>1, <2>2 DEF ViewsInv
<1>9. CASE ReadPage
  BY <1>9, ReadPageKeeps
<1>10. CASE UNCHANGED creditsVars
  BY <1>1, <1>10 DEF creditsVars
<1>11. QED
  BY <1>2, <1>3, <1>4, <1>5, <1>6, <1>7, <1>8, <1>9, <1>10 DEF CreditsNext

LEMMA QuotientInt ==
  ASSUME NEW a \in Int, NEW e \in Nat \ {0}
  PROVE  a \div e \in Int /\ (a \div e) * e <= a /\ a < (a \div e) * e + e
OBVIOUS

LEMMA Multiples ==
  ASSUME NEW e \in Nat \ {0}
  PROVE  /\ \A p, q \in Int : p <= q <=> p * e <= q * e
         /\ \A p, q \in Int : p < q <=> p * e < q * e
         /\ \A p, q \in Int : p * e = q * e => p = q
         /\ \A p, q \in Int : (p - q) * e = p * e - q * e /\ (p + q) * e = p * e + q * e
         /\ \A p \in Int : p * e \in Int
<1>1. \A p, q \in Int : (p - q) * e = p * e - q * e /\ (p + q) * e = p * e + q * e
  OBVIOUS
<1>2. \A p \in Int : p * e \in Int
  OBVIOUS
<1>3. ASSUME NEW p \in Int, NEW q \in Int, p < q PROVE p * e < q * e
  <2>1. q - p >= 1 /\ q - p \in Nat
    BY <1>3
  <2>2. ((q - p) * e) > 0
    BY <2>1
  <2>3. QED
    BY <1>1, <1>2, <2>2
<1>4. \A p, q \in Int : p < q <=> p * e < q * e
  <2>1. ASSUME NEW p \in Int, NEW q \in Int, p * e < q * e PROVE p < q
    <3>1. p = q \/ p < q \/ q < p
      OBVIOUS
    <3>2. QED
      BY <1>2, <1>3, <2>1, <3>1
  <2>2. QED
    BY <1>3, <2>1
<1>5. \A p, q \in Int : p <= q <=> p * e <= q * e
  <2>1. ASSUME NEW p \in Int, NEW q \in Int PROVE p <= q <=> p * e <= q * e
    <3>1. p <= q <=> ~ (q < p)
      OBVIOUS
    <3>2. p * e <= q * e <=> ~ (q * e < p * e)
      BY <1>2
    <3>3. QED
      BY <1>4, <3>1, <3>2
  <2>2. QED
    BY <2>1
<1>6. \A p, q \in Int : p * e = q * e => p = q
  <2>1. ASSUME NEW p \in Int, NEW q \in Int, p * e = q * e PROVE p = q
    <3>1. ~ (p < q) /\ ~ (q < p)
      BY <1>2, <1>4, <2>1
    <3>2. QED
      BY <3>1
  <2>2. QED
    BY <2>1
<1>7. QED
  BY <1>1, <1>2, <1>4, <1>5, <1>6

\* The hours of a day are those from its first one to the present, and a row of the past is of one
\* of them exactly when it is not before the first.
LEMMA HoursAre ==
  ASSUME CreditShapes, NEW s \in Int, (time \div HOUR) - ((DAY \div HOUR) - 1) <= s
  PROVE  /\ \A a \in Int : a <= time => (a >= s * HOUR <=> StartOfHour(a) \in HoursOfDay /\ StartOfHour(a) >= s * HOUR)
         /\ IsFiniteSet(HoursOfDay) /\ HoursOfDay \subseteq Int
<1> DEFINE e == HOUR
           t == time \div HOUR
           days == DAY \div HOUR
<1>1. e \in Nat \ {0} /\ time \in Int /\ days \in Int /\ t \in Int
  BY PreconfCreditsAssumption, QuotientInt DEF CreditShapes
<1>2. HoursOfDay = {t * e - n * e : n \in 0..days - 1}
  BY DEF HoursOfDay, StartOfHour
<1>3. ASSUME NEW a \in Int, a <= time
      PROVE  a >= s * e <=> StartOfHour(a) \in HoursOfDay /\ StartOfHour(a) >= s * e
  <2> DEFINE q == a \div e
  <2>1. q \in Int /\ q * e <= a /\ a < q * e + e /\ StartOfHour(a) = q * e
    BY <1>1, QuotientInt DEF StartOfHour
  <2>2. t * e <= time /\ time < t * e + e
    BY <1>1, QuotientInt
  <2> HIDE DEF e, t, q, days
  <2>3. q <= t
    <3>1. (q * e) < (t + 1) * e
      <4>1. (t + 1) * e = t * e + e /\ t * e \in Int /\ q * e \in Int
        BY <1>1, <2>1
      <4>2. QED
        BY <1>1, <1>3, <2>1, <2>2, <4>1
    <3>2. q < t + 1
      BY <1>1, <2>1, <3>1, Multiples
    <3>3. QED
      BY <1>1, <2>1, <3>2
  <2>4. a >= s * e <=> q >= s
    <3>1. CASE q >= s
      <4>1. s * e <= q * e /\ s * e \in Int /\ q * e \in Int
        BY <1>1, <2>1, <3>1, Multiples
      <4>2. QED
        BY <2>1, <3>1, <4>1
    <3>2. CASE ~ (q >= s)
      <4>1. q + 1 <= s
        BY <2>1, <3>2
      <4>2. (q + 1) * e <= s * e /\ (q + 1) * e = q * e + e /\ s * e \in Int /\ q * e \in Int
        BY <1>1, <2>1, <4>1, Multiples
      <4>3. QED
        BY <1>1, <2>1, <3>2, <4>2
    <3>3. QED
      BY <3>1, <3>2
  <2>5. q * e >= s * e <=> q >= s
    BY <1>1, <2>1, Multiples
  <2>6. q >= s => q * e \in HoursOfDay
    <3> SUFFICES ASSUME q >= s PROVE q * e \in HoursOfDay
      OBVIOUS
    <3> DEFINE n == t - q
    <3>1. n \in 0..days - 1
      BY <1>1, <2>1, <2>3 DEF t, days
    <3>2. q * e = t * e - n * e
      <4>1. q = t - n /\ n \in Int
        BY <1>1, <2>1
      <4>2. (t - n) * e = t * e - n * e
        BY <1>1, <4>1, Multiples
      <4>3. QED
        BY <4>1, <4>2
    <3> HIDE DEF n
    <3>3. QED
      BY <1>2, <3>1, <3>2
  <2>7. QED
    BY <2>1, <2>4, <2>5, <2>6
<1>4. IsFiniteSet(HoursOfDay) /\ HoursOfDay \subseteq Int
  <2> DEFINE f == [n \in 0..days - 1 |-> t * e - n * e]
  <2> HIDE DEF t, e, days
  <2>1. IsFiniteSet(0..days - 1) /\ DOMAIN f = 0..days - 1 /\ f = [n \in DOMAIN f |-> f[n]]
    BY <1>1, FS_Interval
  <2>2. HoursOfDay = {f[n] : n \in DOMAIN f}
    BY <1>2
  <2>3. Range(f) = HoursOfDay
    BY <2>2 DEF Range
  <2>4. \A n \in 0..days - 1 : t * e - n * e \in Int
    BY <1>1
  <2>5. HoursOfDay \subseteq Int
    BY <1>2, <2>4
  <2> HIDE DEF f
  <2>6. IsFiniteSet(Range(f))
    BY <2>1, ImageFinite
  <2>7. QED
    BY <2>3, <2>5, <2>6
<1>5. QED
  BY <1>3, <1>4

LEMMA UsedIs ==
  ASSUME NEW T, IsFiniteSet(T), \A i \in T : Used(i) \in Int
  PROVE  MapThenSumSet(Used, T) = SumFunctionOnSet([i \in T |-> Used(i)], T)
<1> DEFINE F == [i \in T |-> Used(i)]
           adds(q) == [s \in SUBSET T |-> IF s = {} THEN 0
                          ELSE Used(CHOOSE x \in s : TRUE) + q[s \ {CHOOSE x \in s : TRUE}]]
           g == CHOOSE q : q = adds(q)
<1>1. F \in [T -> Int]
  OBVIOUS
<1>2. MapThenSumSet(Used, T) = g[T]
  BY DEF MapThenSumSet, MapThenFoldSet
<1>3. \A s \in SUBSET T : s # {} => F[CHOOSE x \in s : TRUE] = Used(CHOOSE x \in s : TRUE)
  <2>1. \A s \in SUBSET T : s # {} => (CHOOSE x \in s : TRUE) \in T
    OBVIOUS
  <2>2. QED
    BY <2>1
<1>4. ASSUME NEW q PROVE Sums(q, F, T) <=> q = adds(q)
  <2> HIDE DEF F
  <2>1. adds(q) = [s \in SUBSET T |-> IF s = {} THEN 0
                       ELSE F[CHOOSE x \in s : TRUE] + q[s \ {CHOOSE x \in s : TRUE}]]
    BY <1>3
  <2>2. QED
    BY <2>1 DEF Sums
<1>5. Sums(g, F, T) /\ g[T] = SumFunctionOnSet(F, T)
  <2> HIDE DEF F, adds
  <2>1. g = adds(g)
    BY <1>1, <1>4, SumChosen
  <2> HIDE DEF g
  <2>2. QED
    BY <1>1, <1>4, <2>1, SumChosen
<1>6. QED
  BY <1>2, <1>5

LEMMA HourlyIs ==
  ASSUME NEW k, NEW T, IsFiniteSet(T), \A h \in T : HourlyUsage(k, h) \in Int
  PROVE  MapThenSumSet(LAMBDA h : HourlyUsage(k, h), T) = SumFunctionOnSet([h \in T |-> HourlyUsage(k, h)], T)
<1> DEFINE F == [i \in T |-> HourlyUsage(k, i)]
           adds(q) == [s \in SUBSET T |-> IF s = {} THEN 0
                          ELSE HourlyUsage(k, CHOOSE x \in s : TRUE) + q[s \ {CHOOSE x \in s : TRUE}]]
           g == CHOOSE q : q = adds(q)
<1>1. F \in [T -> Int]
  OBVIOUS
<1>2. MapThenSumSet(LAMBDA h : HourlyUsage(k, h), T) = g[T]
  BY DEF MapThenSumSet, MapThenFoldSet
<1>3. \A s \in SUBSET T : s # {} => F[CHOOSE x \in s : TRUE] = HourlyUsage(k, CHOOSE x \in s : TRUE)
  <2>1. \A s \in SUBSET T : s # {} => (CHOOSE x \in s : TRUE) \in T
    OBVIOUS
  <2>2. QED
    BY <2>1
<1>4. ASSUME NEW q PROVE Sums(q, F, T) <=> q = adds(q)
  <2> HIDE DEF F
  <2>1. adds(q) = [s \in SUBSET T |-> IF s = {} THEN 0
                       ELSE F[CHOOSE x \in s : TRUE] + q[s \ {CHOOSE x \in s : TRUE}]]
    BY <1>3
  <2>2. QED
    BY <2>1 DEF Sums
<1>5. Sums(g, F, T) /\ g[T] = SumFunctionOnSet(F, T)
  <2> HIDE DEF F, adds
  <2>1. g = adds(g)
    BY <1>1, <1>4, SumChosen
  <2> HIDE DEF g
  <2>2. QED
    BY <1>1, <1>4, <2>1, SumChosen
<1>6. QED
  BY <1>2, <1>5

\* The usage from some hour of the last day on is the sum of that of the hours.
LEMMA UsageByHour ==
  ASSUME CreditInv, ViewsInv, NEW k, NEW s \in Int, (time \div HOUR) - ((DAY \div HOUR) - 1) <= s
  PROVE  Total(Used, {i \in Usage(k) : ledger[i].at >= s * HOUR})
         = Total(LAMBDA h : HourlyUsage(k, h), {h \in HoursOfDay : h >= s * HOUR})
<1> DEFINE S == {i \in Usage(k) : ledger[i].at >= s * HOUR}
           F == [i \in S |-> Used(i)]
           H == {h \in HoursOfDay : h >= s * HOUR}
           E == [h \in H |-> HourlyUsage(k, h)]
           c == [i \in S |-> StartOfHour(ledger[i].at)]
           In(h) == {i \in Usage(k) : StartOfHour(ledger[i].at) = h}
<1>1. /\ IsFiniteSet(HoursOfDay)
      /\ \A a \in Int : a <= time => (a >= s * HOUR <=> StartOfHour(a) \in HoursOfDay /\ StartOfHour(a) >= s * HOUR)
  BY HoursAre DEF CreditInv
<1>2. ledger \in Seq(CreditRows) /\ IsFiniteSet(DOMAIN ledger) /\ \A i \in DOMAIN ledger : ledger[i] \in CreditRows
  BY SeqFinite DEF CreditInv, CreditShapes
<1>3. \A i \in Usage(k) : i \in DOMAIN ledger /\ ledger[i].at \in Int /\ ledger[i].at <= time /\ Used(i) \in Int
  <2>1. \A i \in DOMAIN ledger : ledger[i].delta \in Int
    BY <1>2 DEF CreditRows
  <2>2. QED
    BY <2>1 DEF Usage, Used, ViewsInv
<1>4. IsFiniteSet(Usage(k)) /\ S \in SUBSET Usage(k) /\ IsFiniteSet(S) /\ IsFiniteSet(H)
  <2>1. IsFiniteSet(Usage(k))
    BY <1>2, <1>3, FS_Subset
  <2>2. S \subseteq Usage(k) /\ H \subseteq HoursOfDay
    OBVIOUS
  <2>3. QED
    BY <1>1, <2>1, <2>2, FS_Subset
<1>5. F \in [S -> Int] /\ S \in SUBSET S
  BY <1>3
<1>6. \A i \in Usage(k) : i \in S <=> StartOfHour(ledger[i].at) \in H
  BY <1>1, <1>3
<1>7. c \in [S -> H]
  BY <1>6
<1>8. ASSUME NEW h \in H
      PROVE  HourlyUsage(k, h) \in Int /\ HourlyUsage(k, h) = SumFunctionOnSet(F, {x \in S : c[x] = h})
  <2> DEFINE P == {x \in S : c[x] = h}
             p == [i \in P |-> Used(i)]
  <2>1. In(h) = P
    BY <1>6
  <2>2. P \in SUBSET S /\ P \in SUBSET P /\ IsFiniteSet(P)
    BY <1>4, FS_Subset
  <2>3. \A i \in P : Used(i) \in Int /\ F[i] = p[i]
    BY <1>3
  <2>4. HourlyUsage(k, h) = MapThenSumSet(Used, In(h))
    BY DEF HourlyUsage, Total
  <2> HIDE DEF P, F, In
  <2>5. HourlyUsage(k, h) = MapThenSumSet(Used, P)
    BY <2>1, <2>4, Zenon
  <2>6. MapThenSumSet(Used, P) = SumFunctionOnSet(p, P)
    BY <2>2, <2>3, UsedIs
  <2>7. p \in [P -> Int]
    BY <2>3
  <2> HIDE DEF p
  <2>8. SumFunctionOnSet(F, P) = SumFunctionOnSet(p, P)
    BY <1>4, <1>5, <2>2, <2>3, <2>7, SumAgree
  <2>9. SumFunctionOnSet(p, P) \in Int
    BY <2>2, <2>7, SumBasics
  <2>10. HourlyUsage(k, h) \in Int /\ HourlyUsage(k, h) = SumFunctionOnSet(F, P)
    BY <2>5, <2>6, <2>8, <2>9
  <2>11. QED
    BY <2>10 DEF P
<1>9. E \in [H -> Int] /\ \A h \in H : E[h] = SumFunctionOnSet(F, {x \in S : c[x] = h})
  BY <1>8
<1>10. Total(Used, S) = SumFunctionOnSet(F, S)
  <2>1. \A i \in S : Used(i) \in Int
    BY <1>3
  <2>2. Total(Used, S) = MapThenSumSet(Used, S)
    BY DEF Total
  <2> HIDE DEF S
  <2>3. QED
    BY <1>4, <2>1, <2>2, UsedIs
<1>11. Total(LAMBDA h : HourlyUsage(k, h), H) = SumFunctionOnSet(E, H)
  <2>1. Total(LAMBDA h : HourlyUsage(k, h), H) = MapThenSumSet(LAMBDA h : HourlyUsage(k, h), H)
    BY DEF Total
  <2>2. \A h \in H : HourlyUsage(k, h) \in Int
    BY <1>8
  <2> HIDE DEF H
  <2>3. QED
    BY <1>4, <2>1, <2>2, HourlyIs
<1>12. SumFunctionOnSet(E, H) = SumFunctionOnSet(F, S)
  <2> HIDE DEF E, H, F, S, c
  <2> QED
    BY <1>4, <1>5, <1>7, <1>9, SumOfParts
<1>13. Total(Used, S) = Total(LAMBDA h : HourlyUsage(k, h), H)
  BY <1>10, <1>11, <1>12
<1>14. QED
  BY <1>13

\* The day began at a whole hour that is not before the last 24.
LEMMA DayBegins ==
  ASSUME CreditShapes
  PROVE  \E s \in Int : (time \div HOUR) - ((DAY \div HOUR) - 1) <= s /\ (time \div DAY) * DAY = s * HOUR
<1> DEFINE e == HOUR
           t == time \div HOUR
           n == DAY \div HOUR
           d == time \div DAY
<1>1. e \in Nat \ {0} /\ DAY \in Nat \ {0} /\ DAY % e = 0 /\ time \in Int
  BY PreconfCreditsAssumption DEF CreditShapes
<1>2. DAY = n * e /\ n \in Int
  BY <1>1, Quotient
<1>3. t \in Int /\ t * e <= time /\ d \in Int /\ time < d * DAY + DAY
  BY <1>1, QuotientInt
<1> HIDE DEF e, t, n, d
<1>4. d * DAY = (d * n) * e /\ d * n \in Int
  BY <1>1, <1>2, <1>3
<1>5. t < d * n + n
  <2> DEFINE m == d * n
  <2>1. m \in Int /\ d * DAY = m * e
    BY <1>4
  <2> HIDE DEF m
  <2>2. (m + n) * e = m * e + n * e
    BY <1>1, <1>2, <2>1, Multiples
  <2>3. t * e \in Int /\ m * e \in Int /\ n * e \in Int /\ (m + n) \in Int
    BY <1>1, <1>2, <1>3, <2>1, Multiples
  <2>4. (t * e) < (m + n) * e
    BY <1>1, <1>2, <1>3, <2>1, <2>2, <2>3
  <2>5. t < m + n
    BY <1>1, <1>3, <2>3, <2>4, Multiples
  <2>6. QED
    BY <2>5 DEF m
<1>6. t - (n - 1) <= d * n
  BY <1>2, <1>3, <1>4, <1>5
<1>7. QED
  BY <1>4, <1>6 DEF e, t, n, d

\* What a client is shown of its usage is the same by the hour, by the day and in sum, and who reads
\* the history page by page misses no row, although rows are added meanwhile (get_usage_summary,
\* get_hourly_usage, get_daily_usage, get_credit_history).
THEOREM ViewsAlwaysAgree ==
  CreditsInit /\ [][CreditsNext]_creditsVars => []ViewsAgree
<1>1. CreditInv /\ ViewsInv => ViewsAgree
  <2> SUFFICES ASSUME CreditInv, ViewsInv PROVE ViewsAgree
    OBVIOUS
  <2>1. CreditShapes
    BY DEF CreditInv
  <2>2. ASSUME NEW k PROVE UsageSummary(k) = Total(LAMBDA h : HourlyUsage(k, h), HoursOfDay)
    <3> DEFINE s == (time \div HOUR) - ((DAY \div HOUR) - 1)
               all == {h \in HoursOfDay : h >= s * HOUR}
               mine == {i \in Usage(k) : ledger[i].at >= s * HOUR}
               since == {i \in Usage(k) : ledger[i].at >= SummarySince}
    <3>1. HOUR \in Nat \ {0} /\ time \div HOUR \in Int /\ DAY \div HOUR \in Int /\ DAY = (DAY \div HOUR) * HOUR
          /\ time \in Int
      <4>1. HOUR \in Nat \ {0} /\ DAY \in Nat \ {0} /\ DAY % HOUR = 0 /\ time \in Int
        BY <2>1, PreconfCreditsAssumption DEF CreditShapes
      <4>2. QED
        BY <4>1, Quotient, QuotientInt
    <3>2. s \in Int /\ s * HOUR = SummarySince
      <4> DEFINE t == time \div HOUR
                 n == DAY \div HOUR
                 e == HOUR
      <4>1. SummarySince = t * e - (DAY - e)
        BY DEF SummarySince, StartOfHour
      <4>2. e \in Nat \ {0} /\ t \in Int /\ n \in Int /\ DAY = n * e /\ s = t - (n - 1)
        BY <3>1
      <4> HIDE DEF t, n, e, s
      <4>3. n - 1 \in Int /\ (n - 1) * e = n * e - 1 * e /\ (t - (n - 1)) * e = t * e - (n - 1) * e
        BY <4>2, Multiples
      <4>4. 1 * e = e /\ n * e \in Int /\ t * e \in Int
        BY <4>2, Multiples
      <4>5. s * e = t * e - (DAY - e)
        BY <4>2, <4>3, <4>4
      <4>6. QED
        BY <4>1, <4>2, <4>5 DEF e
    <3>3. all = HoursOfDay
      <4>1. IsFiniteSet(HoursOfDay) /\ HoursOfDay \subseteq Int
        BY <2>1, <3>1, <3>2, HoursAre
      <4>2. ASSUME NEW h \in HoursOfDay PROVE h >= s * HOUR
        <5> DEFINE t == time \div HOUR
                   n == DAY \div HOUR
                   e == HOUR
        <5>1. PICK m \in 0..n - 1 : h = t * e - m * e
          BY <4>2 DEF HoursOfDay, StartOfHour
        <5>2. e \in Nat \ {0} /\ t \in Int /\ n \in Int /\ s = t - (n - 1)
          BY <3>1
        <5> HIDE DEF t, n, e, s
        <5>3. m \in Int /\ t - m \in Int /\ s <= t - m /\ s \in Int
          BY <5>1, <5>2
        <5>4. (t - m) * e = t * e - m * e /\ s * e <= (t - m) * e /\ s * e \in Int /\ (t - m) * e \in Int
          BY <5>2, <5>3, Multiples
        <5>5. h >= s * e
          BY <5>1, <5>4
        <5>6. QED
          BY <5>5 DEF e
      <4>3. QED
        BY <4>2
    <3>4. Total(Used, mine) = Total(LAMBDA h : HourlyUsage(k, h), all)
      <4>1. (time \div HOUR) - ((DAY \div HOUR) - 1) <= s
        BY <3>2
      <4> HIDE DEF s
      <4>2. QED
        BY <3>2, <4>1, UsageByHour
    <3>5. UsageSummary(k) = Total(Used, since)
      BY DEF UsageSummary
    <3>6. since = mine
      BY <3>2
    <3> HIDE DEF all, mine, since
    <3>7. Total(Used, since) = Total(Used, mine)
      BY <3>6, Zenon
    <3>8. Total(LAMBDA h : HourlyUsage(k, h), all) = Total(LAMBDA h : HourlyUsage(k, h), HoursOfDay)
      BY <3>3, Zenon
    <3>9. QED
      BY <3>4, <3>5, <3>7, <3>8
  <2>3. ASSUME NEW k
        PROVE  DailyUsage(k) =
                   Total(LAMBDA h : HourlyUsage(k, h), {h \in HoursOfDay : h >= (time \div DAY) * DAY})
    <3>1. PICK s \in Int : (time \div HOUR) - ((DAY \div HOUR) - 1) <= s /\ (time \div DAY) * DAY = s * HOUR
      BY <2>1, DayBegins
    <3>2. Total(Used, {i \in Usage(k) : ledger[i].at >= s * HOUR})
          = Total(LAMBDA h : HourlyUsage(k, h), {h \in HoursOfDay : h >= s * HOUR})
      BY <3>1, UsageByHour
    <3> DEFINE today == {i \in Usage(k) : ledger[i].at >= (time \div DAY) * DAY}
               mine == {i \in Usage(k) : ledger[i].at >= s * HOUR}
               hours == {h \in HoursOfDay : h >= (time \div DAY) * DAY}
               ours == {h \in HoursOfDay : h >= s * HOUR}
    <3>3. today = mine /\ hours = ours
      BY <3>1
    <3>4. DailyUsage(k) = Total(Used, today)
      BY DEF DailyUsage
    <3>5. Total(Used, mine) = Total(LAMBDA h : HourlyUsage(k, h), ours)
      BY <3>2
    <3> HIDE DEF today, mine, hours, ours
    <3>6. Total(Used, today) = Total(Used, mine)
      BY <3>3, Zenon
    <3>7. Total(LAMBDA h : HourlyUsage(k, h), ours) = Total(LAMBDA h : HourlyUsage(k, h), hours)
      BY <3>3, Zenon
    <3>8. DailyUsage(k) = Total(LAMBDA h : HourlyUsage(k, h), hours)
      BY <3>4, <3>5, <3>6, <3>7
    <3>9. QED
      BY <3>8 DEF hours
  <2>4. ASSUME paging # {}, Page(paging) = {}
        PROVE  paging = {i \in 1..Max(paging) : ledger[i].key = Seeded /\ ledger[i].reason # "usage"}
    <3>1. DOMAIN ledger = 1..Len(ledger) /\ Len(ledger) \in Nat /\ IsFiniteSet(DOMAIN ledger)
      BY <2>1, SeqFinite DEF CreditShapes
    <3>2. /\ paging \subseteq DOMAIN ledger
          /\ \A i \in paging : ledger[i].key = Seeded /\ ledger[i].reason # "usage"
      BY DEF ViewsInv
    <3>3. IsFiniteSet(paging) /\ paging \subseteq Int
      BY <3>1, <3>2, FS_Subset
    <3>4. Max(paging) \in paging /\ \A i \in paging : i <= Max(paging)
      BY <2>4, <3>3, MaxOfFinite
    <3> DEFINE m == Max(paging)
    <3> HIDE DEF m
    <3>5. m \in 1..Len(ledger) /\ m \in paging /\ \A i \in paging : i \in 1..m
      BY <3>1, <3>2, <3>4 DEF m
    <3>6. ASSUME NEW i \in 1..m, ledger[i].key = Seeded, ledger[i].reason # "usage" PROVE i \in paging
      <4>1. i \in DOMAIN ledger /\ i <= m /\ i \in Int
        BY <3>1, <3>5
      <4>2. ~ \A j \in paging : i < j
        BY <2>4, <3>6, <4>1 DEF Page
      <4>3. PICK j \in paging : j <= i
        BY <3>3, <4>1, <4>2
      <4>4. QED
        BY <3>5, <3>6, <4>1, <4>3 DEF ViewsInv
    <3>7. paging = {i \in 1..m : ledger[i].key = Seeded /\ ledger[i].reason # "usage"}
      BY <3>2, <3>5, <3>6
    <3>8. QED
      BY <3>7 DEF m
  <2>5. QED
    BY <2>2, <2>3, <2>4 DEF ViewsAgree
<1>2. CreditInv /\ ViewsInv /\ [CreditsNext]_creditsVars => (CreditInv /\ ViewsInv)'
  BY CreditInvKept, ViewsStep
<1>3. CreditsInit => CreditInv /\ ViewsInv
  BY CreditInvStart, ViewsStart
<1>4. QED
  BY <1>1, <1>2, <1>3, PTL

-----------------------------------------------------------------------------
(* The rotation of filter bundles. *)

Subscriptions == [bundle : {Runs[j] : j \in DOMAIN Runs}, secs : MIN_ROTATION_SECS..rotation.max_secs]

\* Of the bundles in turn, those that are out of the bag have run once more than those in it.
EvenRuns(n) ==
    \A j \in DOMAIN Runs :
        TimesRun(Runs[j].name) = IF bag # <<>> /\ j \notin Range(bag) THEN n + 1 ELSE n

RotationInv ==
    /\ rotation \in Rotations /\ ValidRotation(rotation)
    /\ bag \in Seq(DOMAIN Runs) /\ IsInjective(bag)
    /\ subscriptions \in Seq(Subscriptions)
    /\ \E n \in Nat : EvenRuns(n)

\* A source that rotates has bundles to subscribe with, which no two share a name.
LEMMA RunsAre ==
  ASSUME rotation \in Rotations, ValidRotation(rotation)
  PROVE  /\ DOMAIN Runs = 1..Len(Runs) /\ Len(Runs) \in Nat /\ Len(Runs) > 0
         /\ \A i, j \in DOMAIN Runs : Runs[i].name = Runs[j].name => i = j
         /\ rotation.deshred => \A i \in DOMAIN Runs : FitsDeshred(Runs[i])
<1> DEFINE B == rotation.bundles
           fit == {i \in DOMAIN B : rotation.deshred => FitsDeshred(B[i])}
           size == Cardinality(fit)
<1>1. B \in Seq(Range(B)) /\ rotation.deshred \in BOOLEAN
  BY FilterRotationAssumption
<1>2. IsFiniteSet(DOMAIN B) /\ DOMAIN B \subseteq Int /\ DOMAIN B = 1..Len(B) /\ Len(B) \in Nat
  BY <1>1, SeqFinite
<1>3. ValidBundles(B, rotation.deshred)
  BY DEF ValidRotation
<1>4. IsFiniteSet(fit) /\ fit \subseteq Int /\ fit \subseteq DOMAIN B
  BY <1>2, FS_Subset
<1>5. fit # {}
  <2>1. CASE rotation.deshred
    BY <1>3, <2>1 DEF ValidBundles
  <2>2. CASE ~ rotation.deshred
    <3>1. B # <<>>
      BY <1>3 DEF ValidBundles
    <3>2. 1 \in DOMAIN B
      BY <1>1, <1>2, <3>1, EmptySeq
    <3>3. QED
      BY <2>2, <3>2
  <2>3. QED
    BY <1>1, <2>1, <2>2
<1>6. /\ \A n \in 1..size : Nth(fit, n) \in fit
      /\ \A n, m \in 1..size : Nth(fit, n) = Nth(fit, m) => n = m
      /\ size \in Nat
  <2> HIDE DEF fit
  <2> QED
    BY <1>4, NthRanks, FS_CardinalityType
<1>7. size > 0
  <2> HIDE DEF fit
  <2> QED
    BY <1>4, <1>5, <1>6, FS_EmptySet
<1>8. Runs = [n \in 1..size |-> B[Nth(fit, n)]]
  BY DEF Runs, ForMode, Nth, Rank
<1>9. DOMAIN Runs = 1..size /\ \A n \in 1..size : Runs[n] = B[Nth(fit, n)]
  BY <1>8
<1>10. Len(Runs) = size
  <2> DEFINE V == {B[i] : i \in DOMAIN B}
  <2>1. \A n \in 1..size : B[Nth(fit, n)] \in V
    BY <1>4, <1>6
  <2>2. Runs \in [1..size -> V]
    BY <1>8, <2>1
  <2> HIDE DEF V, size
  <2>3. Runs \in Seq(V)
    BY <1>6, <2>2, SeqDef
  <2>4. QED
    BY <1>6, <2>2, <2>3
<1>11. \A i, j \in DOMAIN B : B[i].name = B[j].name => i = j
  BY <1>3 DEF ValidBundles
<1>12. ASSUME NEW i \in DOMAIN Runs, NEW j \in DOMAIN Runs, Runs[i].name = Runs[j].name PROVE i = j
  <2>1. i \in 1..size /\ j \in 1..size /\ Runs[i] = B[Nth(fit, i)] /\ Runs[j] = B[Nth(fit, j)]
    BY <1>9
  <2>2. Nth(fit, i) \in DOMAIN B /\ Nth(fit, j) \in DOMAIN B
    BY <1>4, <1>6, <2>1
  <2>3. Nth(fit, i) = Nth(fit, j)
    BY <1>11, <1>12, <2>1, <2>2
  <2> HIDE DEF fit, size
  <2>4. QED
    BY <1>6, <2>1, <2>3
<1>13. rotation.deshred => \A i \in DOMAIN Runs : FitsDeshred(Runs[i])
  <2> SUFFICES ASSUME rotation.deshred, NEW i \in DOMAIN Runs PROVE FitsDeshred(Runs[i])
    OBVIOUS
  <2>1. Runs[i] = B[Nth(fit, i)] /\ Nth(fit, i) \in fit
    BY <1>6, <1>9
  <2>2. QED
    BY <2>1
<1> HIDE DEF fit, size, B
<1>14. QED
  BY <1>6, <1>7, <1>9, <1>10, <1>12, <1>13

\* A shuffled order has every bundle.
LEMMA ShuffledAll ==
  ASSUME rotation \in Rotations, ValidRotation(rotation), NEW order \in Shuffled
  PROVE  /\ order \in Seq(DOMAIN Runs) /\ IsInjective(order) /\ Len(order) = Len(Runs)
         /\ Range(order) = DOMAIN Runs
<1> DEFINE m == Len(Runs)
<1>1. DOMAIN Runs = 1..m /\ m \in Nat
  BY RunsAre
<1>2. order \in [1..m -> 1..m] /\ IsInjective(order)
  BY DEF Shuffled
<1>3. order \in Seq(1..m) /\ Len(order) = m
  BY <1>1, <1>2, SeqDef
<1>4. IsFiniteSet(1..m) /\ Cardinality(1..m) = m
  <2>1. 1 \in Int /\ m \in Int
    BY <1>1
  <2> HIDE DEF m
  <2>2. IsFiniteSet(1..m) /\ Cardinality(1..m) = IF 1 > m THEN 0 ELSE m - 1 + 1
    BY <2>1, FS_Interval
  <2>3. QED
    BY <1>1, <2>1, <2>2
<1>5. Range(order) = {order[x] : x \in 1..m} /\ Range(order) \in SUBSET (1..m)
  BY <1>2 DEF Range
<1>6. Cardinality(Range(order)) = Cardinality(1..m)
  <2>1. \A x, y \in DOMAIN order : order[x] = order[y] => x = y
    BY <1>2 DEF IsInjective
  <2>2. order = [x \in DOMAIN order |-> order[x]] /\ DOMAIN order = 1..m
    BY <1>2
  <2>3. QED
    BY <1>4, <1>5, <2>1, <2>2, ImageSize
<1>7. Range(order) = 1..m
  BY <1>4, <1>5, <1>6, FS_Subset
<1>8. QED
  BY <1>1, <1>2, <1>3, <1>7

\* A subscription: the bundle that is last in the order, or in what is left of it.
LEMMA SubscribeIs ==
  ASSUME RotationInv, NEW order, NEW secs \in rotation.min_secs..rotation.max_secs, Subscribe(order, secs)
  PROVE  \E from \in Seq(DOMAIN Runs), n \in Nat :
             /\ IsInjective(from) /\ Len(from) > 0
             /\ \A j \in DOMAIN Runs : TimesRun(Runs[j].name) = IF j \notin Range(from) THEN n + 1 ELSE n
             /\ bag' = SubSeq(from, 1, Len(from) - 1)
             /\ subscriptions' = Append(subscriptions, [bundle |-> Runs[from[Len(from)]], secs |-> secs])
             /\ rotation' = rotation
<1> DEFINE from == IF Refills THEN order ELSE bag
<1>1. /\ DOMAIN Runs = 1..Len(Runs) /\ Len(Runs) \in Nat /\ Len(Runs) > 0
  BY RunsAre DEF RotationInv
<1>2. PICK n \in Nat : EvenRuns(n)
  BY DEF RotationInv
<1>3. /\ bag' = SubSeq(from, 1, Len(from) - 1) /\ rotation' = rotation
      /\ subscriptions' = Append(subscriptions, [bundle |-> Runs[from[Len(from)]], secs |-> secs])
  BY DEF Subscribe
<1>4. CASE Refills
  <2>1. order \in Shuffled /\ from = order
    BY <1>4 DEF Subscribe
  <2>2. /\ from \in Seq(DOMAIN Runs) /\ IsInjective(from) /\ Len(from) > 0
        /\ Range(from) = DOMAIN Runs
    BY <1>1, <2>1, ShuffledAll DEF RotationInv
  <2>3. \A j \in DOMAIN Runs : TimesRun(Runs[j].name) = n
    BY <1>2, <1>4 DEF EvenRuns, Refills
  <2> HIDE DEF from
  <2>4. QED
    BY <1>3, <2>2, <2>3
<1>5. CASE ~ Refills
  <2>1. from = bag /\ bag # <<>>
    BY <1>5 DEF Refills
  <2>2. from \in Seq(DOMAIN Runs) /\ IsInjective(from)
    BY <2>1 DEF RotationInv
  <2>3. Len(from) > 0
    <3> HIDE DEF from
    <3> QED
      BY <2>1, <2>2, EmptySeq
  <2>4. \A j \in DOMAIN Runs : TimesRun(Runs[j].name) = IF j \notin Range(from) THEN n + 1 ELSE n
    BY <1>2, <2>1 DEF EvenRuns
  <2> HIDE DEF from
  <2>5. QED
    BY <1>3, <2>2, <2>3, <2>4
<1>6. QED
  BY <1>4, <1>5

LEMMA RotationStep ==
  RotationInv /\ [RotationNext]_rotationVars => RotationInv'
<1> SUFFICES ASSUME RotationInv, [RotationNext]_rotationVars PROVE RotationInv'
  OBVIOUS
<1>1. ASSUME NEW order, NEW secs \in rotation.min_secs..rotation.max_secs, Subscribe(order, secs)
      PROVE  RotationInv'
  <2>1. PICK from \in Seq(DOMAIN Runs), n \in Nat :
             /\ IsInjective(from) /\ Len(from) > 0
             /\ \A j \in DOMAIN Runs : TimesRun(Runs[j].name) = IF j \notin Range(from) THEN n + 1 ELSE n
             /\ bag' = SubSeq(from, 1, Len(from) - 1)
             /\ subscriptions' = Append(subscriptions, [bundle |-> Runs[from[Len(from)]], secs |-> secs])
             /\ rotation' = rotation
    BY <1>1, SubscribeIs
  <2>2. rotation \in Rotations /\ ValidRotation(rotation) /\ subscriptions \in Seq(Subscriptions)
    BY DEF RotationInv
  <2>3. /\ DOMAIN Runs = 1..Len(Runs) /\ Len(Runs) \in Nat
        /\ \A i, j \in DOMAIN Runs : Runs[i].name = Runs[j].name => i = j
    BY <2>2, RunsAre
  <2>4. Runs' = Runs /\ Subscriptions' = Subscriptions
    BY <2>1 DEF Runs, Subscriptions
  <2> DEFINE l == Len(from)
             k == from[l]
             new == [bundle |-> Runs[k], secs |-> secs]
  <2>5. l \in Nat /\ l > 0 /\ DOMAIN from = 1..l /\ k \in DOMAIN Runs
    BY <2>1
  <2>6. new \in Subscriptions
    <3>1. MIN_ROTATION_SECS \in Nat /\ rotation.min_secs \in Nat /\ rotation.max_secs \in Nat
      BY <2>2, FilterRotationAssumption
    <3>2. rotation.min_secs >= MIN_ROTATION_SECS
      BY <2>2 DEF ValidRotation
    <3>3. secs \in MIN_ROTATION_SECS..rotation.max_secs
      BY <3>1, <3>2
    <3>4. QED
      BY <2>5, <3>3 DEF Subscriptions
  <2>7. /\ bag' \in Seq(DOMAIN Runs) /\ Len(bag') = l - 1 /\ DOMAIN bag' = 1..l - 1
        /\ \A i \in 1..l - 1 : bag'[i] = from[i]
    <3> HIDE DEF k, new
    <3>1. bag' = SubSeq(from, 1, l - 1)
      BY <2>1
    <3>2. l - 1 \in Nat /\ 1..l - 1 \subseteq 1..l
      BY <2>5
    <3>3. \A i \in 1..l - 1 : from[i] \in DOMAIN Runs
      BY <2>1, <2>5, <3>2
    <3>4. bag' = [i \in 1..l - 1 |-> from[i]]
      BY <2>1, <2>5, <3>1
    <3>5. bag' \in [1..l - 1 -> DOMAIN Runs]
      BY <3>3, <3>4
    <3>6. bag' \in Seq(DOMAIN Runs)
      BY <3>2, <3>5, SeqDef
    <3> HIDE DEF l
    <3>7. QED
      BY <3>2, <3>4, <3>5, <3>6
  <2>8. \A i, j \in 1..l : from[i] = from[j] => i = j
    BY <2>1, <2>5 DEF IsInjective
  <2>9. IsInjective(bag')
    <3>1. 1..l - 1 \subseteq 1..l
      BY <2>5
    <3>2. QED
      BY <2>7, <2>8, <3>1 DEF IsInjective
  \* What was in the order and is no longer is the bundle that was taken.
  <2>10. ASSUME NEW j \in DOMAIN Runs
         PROVE  j \notin Range(bag') <=> j \notin Range(from) \/ j = k
    <3>1. Range(bag') = {from[i] : i \in 1..l - 1} /\ Range(from) = {from[i] : i \in 1..l}
      BY <2>5, <2>7 DEF Range
    <3>2. \A i \in 1..l : i \in 1..l - 1 \/ i = l
      <4> HIDE DEF l, k
      <4> QED
        BY <2>5
    <3>3. l \in 1..l /\ l \notin 1..l - 1 /\ 1..l - 1 \subseteq 1..l
      BY <2>5
    <3> HIDE DEF l
    <3>4. k \in Range(from) /\ k \notin Range(bag')
      BY <2>8, <3>1, <3>3
    <3>5. Range(from) = Range(bag') \cup {k}
      BY <3>1, <3>2, <3>3
    <3> HIDE DEF k
    <3>6. QED
      BY <3>4, <3>5
  <2>11. /\ subscriptions' \in Seq(Subscriptions)
         /\ \A j \in DOMAIN Runs :
                TimesRun(Runs[j].name)' = IF j = k THEN TimesRun(Runs[j].name) + 1 ELSE TimesRun(Runs[j].name)
    <3> DEFINE last == Len(subscriptions) + 1
               Ran(j) == {i \in DOMAIN subscriptions : subscriptions[i].bundle.name = Runs[j].name}
               RanNow(j) == {i \in DOMAIN subscriptions' : subscriptions'[i].bundle.name = Runs[j].name}
    <3>0. subscriptions' = Append(subscriptions, new)
      BY <2>1
    <3> HIDE DEF new
    <3>1. /\ subscriptions' \in Seq(Subscriptions) /\ Len(subscriptions') = Len(subscriptions) + 1
          /\ subscriptions'[Len(subscriptions) + 1] = new
      BY <2>2, <2>6, <3>0, AppendProperties
    <3>2. \A i \in 1..Len(subscriptions) : subscriptions'[i] = subscriptions[i]
      BY <2>2, <2>6, <3>0, AppendProperties
    <3>3. /\ DOMAIN subscriptions = 1..Len(subscriptions) /\ Len(subscriptions) \in Nat
          /\ DOMAIN subscriptions' = DOMAIN subscriptions \cup {last} /\ last \notin DOMAIN subscriptions
          /\ IsFiniteSet(DOMAIN subscriptions)
      BY <2>2, <3>1, SeqFinite
    <3>4. /\ \A i \in DOMAIN subscriptions : subscriptions'[i] = subscriptions[i]
          /\ subscriptions'[last] = new /\ new.bundle = Runs[k]
      BY <3>1, <3>2, <3>3 DEF new
    <3>5. ASSUME NEW j \in DOMAIN Runs
          PROVE  TimesRun(Runs[j].name)' = IF j = k THEN TimesRun(Runs[j].name) + 1 ELSE TimesRun(Runs[j].name)
      <4>1. TimesRun(Runs[j].name) = Cardinality(Ran(j)) /\ TimesRun(Runs[j].name)' = Cardinality(RanNow(j))
        BY <2>4 DEF TimesRun
      <4>2. IsFiniteSet(Ran(j)) /\ last \notin Ran(j)
        BY <3>3, FS_Subset
      <4>3. RanNow(j) = IF j = k THEN Ran(j) \cup {last} ELSE Ran(j)
        <5> HIDE DEF last, k
        <5>1. Runs[k].name = Runs[j].name <=> j = k
          BY <2>3, <2>5
        <5>2. QED
          BY <3>3, <3>4, <5>1
      <4> HIDE DEF Ran, RanNow
      <4>4. CASE j = k
        <5>1. RanNow(j) = Ran(j) \cup {last}
          BY <4>3, <4>4
        <5>2. Cardinality(Ran(j) \cup {last}) = Cardinality(Ran(j)) + 1
          BY <4>2, FS_AddElement
        <5>3. QED
          BY <4>1, <4>4, <5>1, <5>2
      <4>5. CASE j # k
        BY <4>1, <4>3, <4>5
      <4>6. QED
        BY <4>4, <4>5
    <3>6. QED
      BY <3>1, <3>5
  <2>12. \E i \in Nat : EvenRuns(i)'
    <3> HIDE DEF k, l, new
    <3>1. \A j \in DOMAIN Runs : TimesRun(Runs[j].name)' = IF j \notin Range(bag') THEN n + 1 ELSE n
      <4>1. k \in Range(from)
        BY <2>5 DEF Range, k
      <4>2. QED
        BY <2>1, <2>10, <2>11, <4>1
    <3>2. CASE bag' = <<>>
      <4>1. Range(bag') = {}
        BY <3>2 DEF Range
      <4>2. \A j \in DOMAIN Runs : TimesRun(Runs[j].name)' = n + 1
        BY <3>1, <4>1
      <4>3. EvenRuns(n + 1)'
        BY <2>4, <3>2, <4>2 DEF EvenRuns, TimesRun
      <4>4. QED
        BY <4>3
    <3>3. CASE bag' # <<>>
      <4>1. EvenRuns(n)'
        BY <2>4, <3>1, <3>3 DEF EvenRuns, TimesRun
      <4>2. QED
        BY <4>1
    <3>4. QED
      BY <3>2, <3>3
  <2>13. (rotation \in Rotations /\ ValidRotation(rotation))'
    BY <2>1, <2>2 DEF ValidRotation
  <2>14. (bag \in Seq(DOMAIN Runs) /\ IsInjective(bag))'
    <3> HIDE DEF l
    <3>1. bag' \in Seq(DOMAIN Runs)
      BY <2>7
    <3>2. QED
      BY <2>4, <2>9, <3>1
  <2>15. (subscriptions \in Seq(Subscriptions))'
    BY <2>4, <2>11
  <2> HIDE DEF l, k, new
  <2>16. QED
    BY <2>12, <2>13, <2>14, <2>15 DEF RotationInv
<1>2. CASE UNCHANGED rotationVars
  <2>1. rotation' = rotation /\ bag' = bag /\ subscriptions' = subscriptions
    BY <1>2 DEF rotationVars
  <2>2. Runs' = Runs /\ Subscriptions' = Subscriptions
    BY <2>1 DEF Runs, Subscriptions
  <2>3. (rotation \in Rotations /\ ValidRotation(rotation))'
    BY <2>1 DEF RotationInv, ValidRotation
  <2>4. (bag \in Seq(DOMAIN Runs) /\ IsInjective(bag) /\ subscriptions \in Seq(Subscriptions))'
    BY <2>1, <2>2 DEF RotationInv
  <2>5. PICK n \in Nat : EvenRuns(n)
    BY DEF RotationInv
  <2>6. EvenRuns(n)'
    BY <2>1, <2>2, <2>5 DEF EvenRuns, TimesRun
  <2>7. QED
    BY <2>3, <2>4, <2>5, <2>6 DEF RotationInv
<1>3. QED
  BY <1>1, <1>2 DEF RotationNext, RotationDone

LEMMA RotationStart ==
  RotationInit => RotationInv
<1> SUFFICES ASSUME RotationInit PROVE RotationInv
  OBVIOUS
<1>1. rotation \in Rotations /\ ValidRotation(rotation) /\ bag = <<>> /\ subscriptions = <<>>
  BY DEF RotationInit
<1>2. IsInjective(bag) /\ bag \in Seq(DOMAIN Runs) /\ subscriptions \in Seq(Subscriptions)
  BY <1>1 DEF IsInjective
<1>3. EvenRuns(0)
  <2>1. ASSUME NEW j \in DOMAIN Runs PROVE TimesRun(Runs[j].name) = 0
    <3>1. {i \in DOMAIN subscriptions : subscriptions[i].bundle.name = Runs[j].name} = {}
      BY <1>1
    <3>2. QED
      BY <3>1, FS_EmptySet DEF TimesRun
  <2>2. QED
    BY <1>1, <2>1 DEF EvenRuns
<1>4. QED
  BY <1>1, <1>2, <1>3 DEF RotationInv

\* Whatever the shuffles are and however many bundles there are, each of them that fits the source
\* has run as often as each other, or once more (Rotation::next).
THEOREM RotationIsFair ==
  RotationInit /\ [][RotationNext]_rotationVars => []RotationFair
<1>1. RotationInv => RotationFair
  <2> SUFFICES ASSUME RotationInv PROVE RotationFair
    OBVIOUS
  <2>1. rotation \in Rotations /\ ValidRotation(rotation) /\ subscriptions \in Seq(Subscriptions)
    BY DEF RotationInv
  <2>2. /\ Len(Runs) > 0 /\ rotation.deshred => \A i \in DOMAIN Runs : FitsDeshred(Runs[i])
    BY <2>1, RunsAre
  <2>3. PICK n \in Nat : EvenRuns(n)
    BY DEF RotationInv
  <2>4. Runs # <<>>
    <3>1. 1 \in DOMAIN Runs
      BY <2>1, RunsAre
    <3>2. QED
      BY <3>1
  <2>5. \A i, j \in DOMAIN Runs : TimesRun(Runs[i].name) <= TimesRun(Runs[j].name) + 1
    BY <2>3 DEF EvenRuns
  <2>6. \A i \in DOMAIN subscriptions : subscriptions[i] \in Subscriptions
    BY <2>1, SeqFinite
  <2>7. rotation.deshred => \A i \in DOMAIN subscriptions : FitsDeshred(subscriptions[i].bundle)
    BY <2>1, <2>6, RunsAre DEF Subscriptions
  <2>8. \A i \in DOMAIN subscriptions : subscriptions[i].secs \in MIN_ROTATION_SECS..rotation.max_secs
    BY <2>6 DEF Subscriptions
  <2>9. QED
    BY <2>4, <2>5, <2>7, <2>8 DEF RotationFair
<1>2. QED
  BY <1>1, RotationStart, RotationStep, PTL

RotationBounded == Len(bag) < Len(Runs) /\ Len(subscriptions) <= MaxSubscriptions

LEMMA RotationBoundedStep ==
  RotationInv /\ RotationBounded /\ [RotationNext]_rotationVars => RotationBounded'
<1> SUFFICES ASSUME RotationInv, RotationBounded, [RotationNext]_rotationVars PROVE RotationBounded'
  OBVIOUS
<1>1. ASSUME NEW order, NEW secs, Subscribe(order, secs) PROVE RotationBounded'
  <2> DEFINE from == IF Refills THEN order ELSE bag
             m == Len(Runs)
  <2>1. m \in Nat /\ m > 0 /\ DOMAIN Runs = 1..m
    BY RunsAre DEF RotationInv
  <2>2. from \in Seq(1..m) /\ Len(from) <= m /\ Len(from) > 0
    <3>1. CASE Refills
      <4>1. order \in [1..m -> 1..m] /\ from = order
        BY <1>1, <3>1 DEF Subscribe, Shuffled
      <4> HIDE DEF from, m
      <4>2. order \in Seq(1..m)
        BY <2>1, <4>1, SeqDef
      <4>3. Len(order) = m
        BY <2>1, <4>1, <4>2
      <4>4. QED
        BY <2>1, <4>1, <4>2, <4>3
    <3>2. CASE ~ Refills
      <4>1. from = bag /\ bag # <<>> /\ bag \in Seq(1..m) /\ Len(bag) < m
        BY <2>1, <3>2 DEF Refills, RotationInv, RotationBounded
      <4> HIDE DEF from, m
      <4>2. Len(bag) \in Nat /\ Len(bag) # 0
        BY <4>1, EmptySeq
      <4>3. QED
        BY <2>1, <4>1, <4>2
    <3>3. QED
      BY <3>1, <3>2
  <2>3. /\ bag' = SubSeq(from, 1, Len(from) - 1) /\ rotation' = rotation
        /\ Len(subscriptions) < MaxSubscriptions
        /\ \E s : subscriptions' = Append(subscriptions, s)
    BY <1>1 DEF Subscribe
  <2>4. Len(bag') < m
    <3> HIDE DEF from, m
    <3>1. Len(SubSeq(from, 1, Len(from) - 1)) = Len(from) - 1
      <4> DEFINE l == Len(from)
      <4>0. \A i \in 1..l : from[i] \in 1..m
        <5> DEFINE R == 1..m
        <5>1. from \in Seq(R)
          BY <2>2
        <5> HIDE DEF R
        <5>2. \A i \in 1..l : from[i] \in R
          BY ONLY <5>1, ElementOfSeq
        <5>3. QED
          BY <5>2 DEF R
      <4>1. l \in Nat /\ l > 0 /\ \A i \in 1..l - 1 : from[i] \in 1..m
        <5>1. l \in Nat /\ l > 0
          BY <2>2
        <5> HIDE DEF l
        <5>2. QED
          BY <4>0, <5>1
      <4> HIDE DEF l
      <4>2. 1 \in Int /\ l - 1 \in Int
        BY <4>1
      <4>3. Len(SubSeq(from, 1, l - 1)) = IF 1 <= l - 1 THEN l - 1 - 1 + 1 ELSE 0
        BY <4>1, <4>2, SubSeqProperties
      <4>4. Len(SubSeq(from, 1, l - 1)) = l - 1
        BY <4>1, <4>3
      <4>5. QED
        BY <4>4 DEF l
    <3>2. QED
      BY <2>1, <2>2, <2>3, <3>1
  <2>5. Len(Runs') = m
    BY <2>3 DEF Runs
  <2>6. Len(subscriptions') = Len(subscriptions) + 1 /\ Len(subscriptions) \in Nat
    <3>1. subscriptions \in Seq(Subscriptions)
      BY DEF RotationInv
    <3>2. PICK s : subscriptions' = Append(subscriptions, s)
      BY <2>3
    <3> DEFINE w == subscriptions
    <3>3. w \in Seq(Subscriptions \cup {s})
      BY <3>1
    <3> HIDE DEF w
    <3>4. Len(Append(w, s)) = Len(w) + 1 /\ Len(w) \in Nat
      BY ONLY <3>3
    <3>5. QED
      BY <3>2, <3>4 DEF w
  <2>7. QED
    BY <2>3, <2>4, <2>5, <2>6, FilterRotationAssumption DEF RotationBounded
<1>2. CASE UNCHANGED rotationVars
  BY <1>2 DEF rotationVars, RotationBounded, Runs
<1>3. QED
  BY <1>1, <1>2 DEF RotationNext, RotationDone

\* Type correctness of the rotation (Rotation::next of filters/mod.rs): what is left of a cycle
\* are numbers of bundles the source can subscribe with, and fewer than a cycle has.
THEOREM RotationTypes ==
  RotationInit /\ [][RotationNext]_rotationVars => []RotationTypeOK
<1>1. RotationInit => RotationBounded
  <2> SUFFICES ASSUME RotationInit PROVE RotationBounded
    OBVIOUS
  <2>1. rotation \in Rotations /\ ValidRotation(rotation) /\ bag = <<>> /\ subscriptions = <<>>
    BY DEF RotationInit
  <2>2. Len(Runs) \in Nat /\ Len(Runs) > 0
    BY <2>1, RunsAre
  <2>3. QED
    BY <2>1, <2>2, FilterRotationAssumption DEF RotationBounded
<1>2. RotationInv /\ RotationBounded => RotationTypeOK
  <2> SUFFICES ASSUME RotationInv, RotationBounded PROVE RotationTypeOK
    OBVIOUS
  <2>1. DOMAIN Runs = 1..Len(Runs)
    BY RunsAre DEF RotationInv
  <2>2. QED
    BY <2>1 DEF RotationInv, RotationBounded, RotationTypeOK
<1>3. QED
  BY RotationStart, RotationStep, RotationBoundedStep, <1>1, <1>2, PTL

-----------------------------------------------------------------------------
(* The settings of the admin mock. *)

LastOf(R, T) == IF T = {} THEN Unset ELSE R[Max(T)]

OfTier(r, k) == r.op \in {"tier", "off"} /\ r.key = k
OfGrant(r, k) == r.op \in {"tier", "off"} /\ r.key = k /\ (r.op = "tier" => r.override # Unset)
OfEnabled(r, k) == r.op = "enabled" /\ r.key = k
OfPrice(r, p) == r.op = "settings" /\ p \in DOMAIN r.update.prices
OfInterval(r) == r.op = "settings" /\ r.update.interval # Unset

LastTier(R, k) == LastOf(R, {i \in DOMAIN R : OfTier(R[i], k)})
LastGrant(R, k) == LastOf(R, {i \in DOMAIN R : OfGrant(R[i], k)})
LastEnabled(R, k) == LastOf(R, {i \in DOMAIN R : OfEnabled(R[i], k)})
LastPrice(R, p) == LastOf(R, {i \in DOMAIN R : OfPrice(R[i], p)})
LastInterval(R) == LastOf(R, {i \in DOMAIN R : OfInterval(R[i])})

ClientFields(c) ==
    c = [tier |-> c.tier, override_tier |-> c.override_tier,
         override_expires_at |-> c.override_expires_at, credits_enabled |-> c.credits_enabled]

\* The record of a client against the last requests about it.
ClientAsked(c, tier, grant, enabled) ==
    /\ tier # Unset /\ c.tier = IF tier.op = "off" THEN "off" ELSE tier.tier
    /\ IF grant = Unset \/ grant.op = "off" THEN c.override_tier = Unset
       ELSE /\ grant.override \in Overrides /\ grant.at \in 0..MaxClock
            /\ c.override_tier = grant.override.tier
            /\ c.override_expires_at = grant.at + grant.override.duration
    /\ c.credits_enabled = IF enabled = Unset THEN Unset ELSE enabled.enabled

SettingsShapes ==
    /\ clock \in 0..MaxClock /\ requests \in Seq(Requests)
    /\ \A k \in DOMAIN client : ClientFields(client[k])
    /\ \A i \in DOMAIN requests : requests[i].op # "settings" => requests[i].key \in DOMAIN client

ClientsAsked ==
    \A k \in DOMAIN client :
        ClientAsked(client[k], LastTier(requests, k), LastGrant(requests, k), LastEnabled(requests, k))

PriceAsked(R, p) ==
    LET set == LastPrice(R, p) IN
    IF set # Unset THEN p \in DOMAIN settings.prices /\ settings.prices[p] = set.update.prices[p]
    ELSE p \in DOMAIN settings.prices => settings.prices[p] = StartingPrice

IntervalAsked(R) ==
    LET set == LastInterval(R) IN
    settings.interval = IF set = Unset THEN StartingInterval ELSE set.update.interval

SettingsAsked == (\A p \in MessageTypes \X Units : PriceAsked(requests, p)) /\ IntervalAsked(requests)

SettingsInv == SettingsShapes /\ ClientsAsked /\ SettingsAsked

Adds(M, R, r) == R \in Seq(Requests) /\ r \in Requests /\ M = Append(R, r)

Indices(T, R) == T \in SUBSET DOMAIN R

\* The last of some requests, after one that is among them or is not.
LEMMA LastAppends ==
  ASSUME NEW M, NEW R, NEW r, Adds(M, R, r), NEW T, Indices(T, R)
  PROVE  /\ LastOf(M, T) = LastOf(R, T)
         /\ LastOf(M, T \cup {Len(R) + 1}) = r
<1> DEFINE n == Len(R) + 1
           U == T \cup {n}
<1>1. /\ DOMAIN R = 1..Len(R) /\ Len(R) \in Nat /\ IsFiniteSet(T) /\ T \subseteq Int
      /\ T \subseteq DOMAIN R
      /\ \A i \in T : M[i] = R[i]
      /\ M[n] = r
  <2>1. DOMAIN R = 1..Len(R) /\ Len(R) \in Nat /\ IsFiniteSet(DOMAIN R)
    BY SeqFinite DEF Adds
  <2>2. IsFiniteSet(T)
    BY <2>1, FS_Subset DEF Indices
  <2>3. \A i \in 1..Len(R) : M[i] = R[i]
    BY AppendProperties DEF Adds
  <2>4. M[n] = r
    BY AppendProperties DEF Adds
  <2>5. QED
    BY <2>1, <2>2, <2>3, <2>4 DEF Indices
<1>2. LastOf(M, T) = LastOf(R, T)
  <2>1. T # {} => Max(T) \in T
    BY <1>1, MaxOfFinite
  <2>2. QED
    BY <1>1, <2>1 DEF LastOf
<1>3. Max(U) = n
  <2>1. IsFiniteSet(U) /\ U \subseteq Int /\ n \in U /\ \A i \in T : i < n
    <3>1. IsFiniteSet(U)
      BY <1>1, FS_AddElement
    <3>2. n \in Int /\ \A i \in T : i \in 1..Len(R)
      BY <1>1
    <3>3. \A i \in T : i < n
      BY <1>1, <3>2
    <3>4. QED
      BY <1>1, <3>1, <3>2, <3>3
  <2> HIDE DEF U
  <2>2. Max(U) \in U /\ n <= Max(U)
    BY <2>1, MaxOfFinite
  <2>3. QED
    BY <1>1, <2>1, <2>2 DEF U
<1>4. LastOf(M, U) = r
  <2>1. U # {}
    OBVIOUS
  <2>2. LastOf(M, U) = M[Max(U)]
    BY <2>1 DEF LastOf
  <2>3. QED
    BY <1>1, <1>3, <2>2
<1>5. QED
  BY <1>2, <1>4

\* One more request.
LEMMA RequestAdds ==
  ASSUME NEW M, NEW R, NEW r, Adds(M, R, r)
  PROVE  /\ \A k : LastTier(M, k) = IF OfTier(r, k) THEN r ELSE LastTier(R, k)
         /\ \A k : LastGrant(M, k) = IF OfGrant(r, k) THEN r ELSE LastGrant(R, k)
         /\ \A k : LastEnabled(M, k) = IF OfEnabled(r, k) THEN r ELSE LastEnabled(R, k)
         /\ \A p : LastPrice(M, p) = IF OfPrice(r, p) THEN r ELSE LastPrice(R, p)
         /\ LastInterval(M) = IF OfInterval(r) THEN r ELSE LastInterval(R)
         /\ M \in Seq(Requests) /\ DOMAIN M = DOMAIN R \cup {Len(R) + 1}
         /\ \A i \in DOMAIN R : M[i] = R[i]
         /\ M[Len(R) + 1] = r
<1> DEFINE n == Len(R) + 1
<1>1. /\ M \in Seq(Requests) /\ DOMAIN M = DOMAIN R \cup {n} /\ n \notin DOMAIN R
      /\ (\A i \in DOMAIN R : M[i] = R[i]) /\ M[n] = r
  <2>1. DOMAIN R = 1..Len(R) /\ Len(R) \in Nat
    BY SeqFinite DEF Adds
  <2>2. M \in Seq(Requests) /\ Len(M) = Len(R) + 1
    BY AppendProperties DEF Adds
  <2>3. \A i \in 1..Len(R) : M[i] = R[i]
    BY AppendProperties DEF Adds
  <2>4. M[n] = r
    BY AppendProperties DEF Adds
  <2>5. DOMAIN M = 1..Len(R) + 1
    BY <2>2, SeqFinite DEF Adds
  <2>6. QED
    BY <2>1, <2>2, <2>3, <2>4, <2>5
<1>2. ASSUME NEW T \in SUBSET DOMAIN R PROVE LastOf(M, T) = LastOf(R, T) /\ LastOf(M, T \cup {n}) = r
  <2>1. Indices(T, R)
    BY DEF Indices
  <2>2. QED
    BY <2>1, LastAppends
<1> HIDE DEF n
<1>3. ASSUME NEW k PROVE LastTier(M, k) = IF OfTier(r, k) THEN r ELSE LastTier(R, k)
  <2> DEFINE T == {i \in DOMAIN R : OfTier(R[i], k)}
             U == {i \in DOMAIN M : OfTier(M[i], k)}
  <2>1. T \in SUBSET DOMAIN R /\ U = IF OfTier(r, k) THEN T \cup {n} ELSE T
    BY <1>1
  <2>2. LastTier(M, k) = LastOf(M, U) /\ LastTier(R, k) = LastOf(R, T)
    BY DEF LastTier
  <2> HIDE DEF T, U
  <2>3. QED
    BY <1>2, <2>1, <2>2
<1>4. ASSUME NEW k PROVE LastGrant(M, k) = IF OfGrant(r, k) THEN r ELSE LastGrant(R, k)
  <2> DEFINE T == {i \in DOMAIN R : OfGrant(R[i], k)}
             U == {i \in DOMAIN M : OfGrant(M[i], k)}
  <2>1. T \in SUBSET DOMAIN R /\ U = IF OfGrant(r, k) THEN T \cup {n} ELSE T
    BY <1>1
  <2>2. LastGrant(M, k) = LastOf(M, U) /\ LastGrant(R, k) = LastOf(R, T)
    BY DEF LastGrant
  <2> HIDE DEF T, U
  <2>3. QED
    BY <1>2, <2>1, <2>2
<1>5. ASSUME NEW k PROVE LastEnabled(M, k) = IF OfEnabled(r, k) THEN r ELSE LastEnabled(R, k)
  <2> DEFINE T == {i \in DOMAIN R : OfEnabled(R[i], k)}
             U == {i \in DOMAIN M : OfEnabled(M[i], k)}
  <2>1. T \in SUBSET DOMAIN R /\ U = IF OfEnabled(r, k) THEN T \cup {n} ELSE T
    BY <1>1
  <2>2. LastEnabled(M, k) = LastOf(M, U) /\ LastEnabled(R, k) = LastOf(R, T)
    BY DEF LastEnabled
  <2> HIDE DEF T, U
  <2>3. QED
    BY <1>2, <2>1, <2>2
<1>6. ASSUME NEW p PROVE LastPrice(M, p) = IF OfPrice(r, p) THEN r ELSE LastPrice(R, p)
  <2> DEFINE T == {i \in DOMAIN R : OfPrice(R[i], p)}
             U == {i \in DOMAIN M : OfPrice(M[i], p)}
  <2>1. T \in SUBSET DOMAIN R /\ U = IF OfPrice(r, p) THEN T \cup {n} ELSE T
    BY <1>1
  <2>2. LastPrice(M, p) = LastOf(M, U) /\ LastPrice(R, p) = LastOf(R, T)
    BY DEF LastPrice
  <2> HIDE DEF T, U
  <2>3. QED
    BY <1>2, <2>1, <2>2
<1>7. LastInterval(M) = IF OfInterval(r) THEN r ELSE LastInterval(R)
  <2> DEFINE T == {i \in DOMAIN R : OfInterval(R[i])}
             U == {i \in DOMAIN M : OfInterval(M[i])}
  <2>1. T \in SUBSET DOMAIN R /\ U = IF OfInterval(r) THEN T \cup {n} ELSE T
    BY <1>1
  <2>2. LastInterval(M) = LastOf(M, U) /\ LastInterval(R) = LastOf(R, T)
    BY DEF LastInterval
  <2> HIDE DEF T, U
  <2>3. QED
    BY <1>2, <2>1, <2>2
<1>8. QED
  BY <1>1, <1>3, <1>4, <1>5, <1>6, <1>7 DEF n

LEMMA SetTierKeeps ==
  ASSUME SettingsInv, NEW k \in Clients, NEW tier \in Tiers, NEW override \in {Unset} \cup Overrides,
         SetTier(k, tier, override)
  PROVE  SettingsInv'
<1> DEFINE r == [op |-> "tier", key |-> k, tier |-> tier, override |-> override, at |-> clock]
           c == ClientOf(k)
<1>1. /\ clock \in 0..MaxClock /\ requests \in Seq(Requests) /\ ClientsAsked /\ SettingsAsked
      /\ \A i \in DOMAIN client : ClientFields(client[i])
      /\ \A i \in DOMAIN requests : requests[i].op # "settings" => requests[i].key \in DOMAIN client
  BY DEF SettingsInv, SettingsShapes
<1>2. r \in Requests
  BY <1>1 DEF Requests
<1>3. requests' = Append(requests, r) /\ clock' = clock /\ settings' = settings
  BY DEF SetTier, Log
<1>4. /\ r.op = "tier" /\ r.key = k /\ r.tier = tier /\ r.override = override /\ r.at = clock
      /\ r # Unset
  BY <1>2, PostpackSettingsAssumption
<1> HIDE DEF r
<1>5. /\ \A j : LastTier(requests', j) = IF j = k THEN r ELSE LastTier(requests, j)
      /\ \A j : LastGrant(requests', j) = IF j = k /\ override # Unset THEN r ELSE LastGrant(requests, j)
      /\ \A j : LastEnabled(requests', j) = LastEnabled(requests, j)
      /\ \A p : LastPrice(requests', p) = LastPrice(requests, p)
      /\ LastInterval(requests') = LastInterval(requests)
      /\ requests' \in Seq(Requests) /\ DOMAIN requests' = DOMAIN requests \cup {Len(requests) + 1}
      /\ \A i \in DOMAIN requests : requests'[i] = requests[i]
      /\ requests'[Len(requests) + 1] = r
  <2>1. /\ \A j : LastTier(requests', j) = IF OfTier(r, j) THEN r ELSE LastTier(requests, j)
        /\ \A j : LastGrant(requests', j) = IF OfGrant(r, j) THEN r ELSE LastGrant(requests, j)
        /\ \A j : LastEnabled(requests', j) = IF OfEnabled(r, j) THEN r ELSE LastEnabled(requests, j)
        /\ \A p : LastPrice(requests', p) = IF OfPrice(r, p) THEN r ELSE LastPrice(requests, p)
        /\ LastInterval(requests') = IF OfInterval(r) THEN r ELSE LastInterval(requests)
        /\ requests' \in Seq(Requests) /\ DOMAIN requests' = DOMAIN requests \cup {Len(requests) + 1}
        /\ \A i \in DOMAIN requests : requests'[i] = requests[i]
        /\ requests'[Len(requests) + 1] = r
    <3>1. Adds(requests', requests, r)
      BY <1>1, <1>2, <1>3 DEF Adds
    <3>2. QED
      BY <3>1, RequestAdds
  <2>2. /\ \A j : OfTier(r, j) <=> j = k
        /\ \A j : OfGrant(r, j) <=> j = k /\ override # Unset
        /\ (\A j : ~ OfEnabled(r, j)) /\ (\A p : ~ OfPrice(r, p)) /\ ~ OfInterval(r)
    BY <1>4 DEF OfTier, OfGrant, OfEnabled, OfPrice, OfInterval
  <2>3. QED
    BY <2>1, <2>2
\* The record of the client.
<1>6. /\ DOMAIN client' = DOMAIN client \cup {k}
      /\ \A j \in DOMAIN client : j # k => client'[j] = client[j]
      /\ client'[k] = IF override = Unset THEN [c EXCEPT !.tier = tier]
                      ELSE [c EXCEPT !.tier = tier, !.override_tier = override.tier,
                                     !.override_expires_at = clock + override.duration]
  BY DEF SetTier, SetClient
<1>7. ClientFields(c)
  BY <1>1 DEF ClientOf, ClientFields, NewClient
<1>8. client'[k] = [tier |-> tier,
                    override_tier |-> IF override = Unset THEN c.override_tier ELSE override.tier,
                    override_expires_at |-> IF override = Unset THEN c.override_expires_at
                                            ELSE clock + override.duration,
                    credits_enabled |-> c.credits_enabled]
  <2> DEFINE ot == c.override_tier
             oe == c.override_expires_at
             ce == c.credits_enabled
             ti == c.tier
  <2>1. c = [tier |-> ti, override_tier |-> ot, override_expires_at |-> oe, credits_enabled |-> ce]
    BY <1>7 DEF ClientFields
  <2> HIDE DEF c, ot, oe, ce, ti
  <2>2. CASE override = Unset
    <3>1. client'[k] = [tier |-> tier, override_tier |-> ot, override_expires_at |-> oe, credits_enabled |-> ce]
      BY <1>6, <2>1, <2>2
    <3>2. QED
      BY <2>2, <3>1 DEF ot, oe, ce
  <2>3. CASE override # Unset
    <3>1. client'[k] = [tier |-> tier, override_tier |-> override.tier,
                        override_expires_at |-> clock + override.duration, credits_enabled |-> ce]
      BY <1>6, <2>1, <2>3
    <3>2. QED
      BY <2>3, <3>1 DEF ce
  <2>4. QED
    BY <2>2, <2>3
\* What was asked about it before.
<1>9. /\ IF LastGrant(requests, k) = Unset \/ LastGrant(requests, k).op = "off" THEN c.override_tier = Unset
         ELSE /\ LastGrant(requests, k).override \in Overrides /\ LastGrant(requests, k).at \in 0..MaxClock
              /\ c.override_tier = LastGrant(requests, k).override.tier
              /\ c.override_expires_at = LastGrant(requests, k).at + LastGrant(requests, k).override.duration
      /\ c.credits_enabled = IF LastEnabled(requests, k) = Unset THEN Unset ELSE LastEnabled(requests, k).enabled
  <2>1. CASE k \in DOMAIN client
    <3>1. c = client[k]
      BY <2>1 DEF ClientOf
    <3>2. ClientAsked(client[k], LastTier(requests, k), LastGrant(requests, k), LastEnabled(requests, k))
      BY <1>1, <2>1 DEF ClientsAsked
    <3> HIDE DEF c
    <3>3. QED
      BY <3>1, <3>2 DEF ClientAsked
  <2>2. CASE k \notin DOMAIN client
    <3>1. c.override_tier = Unset /\ c.credits_enabled = Unset
      BY <2>2 DEF ClientOf, NewClient
    <3>2. {i \in DOMAIN requests : OfGrant(requests[i], k)} = {}
      BY <1>1, <2>2 DEF OfGrant
    <3>3. {i \in DOMAIN requests : OfEnabled(requests[i], k)} = {}
      BY <1>1, <2>2 DEF OfEnabled
    <3>4. LastGrant(requests, k) = Unset /\ LastEnabled(requests, k) = Unset
      BY <3>2, <3>3 DEF LastGrant, LastEnabled, LastOf
    <3> HIDE DEF c
    <3>5. QED
      BY <3>1, <3>4
  <2>3. QED
    BY <2>1, <2>2
<1> HIDE DEF c
<1>10. ClientFields(client'[k])
  BY <1>8 DEF ClientFields
<1>11. /\ client'[k].tier = tier /\ client'[k].credits_enabled = c.credits_enabled
       /\ client'[k].override_tier = IF override = Unset THEN c.override_tier ELSE override.tier
       /\ client'[k].override_expires_at =
              IF override = Unset THEN c.override_expires_at ELSE clock + override.duration
  BY <1>8
<1>12. ClientAsked(client'[k], LastTier(requests', k), LastGrant(requests', k), LastEnabled(requests', k))
  <2>1. LastTier(requests', k) = r /\ LastEnabled(requests', k) = LastEnabled(requests, k)
    BY <1>5
  <2>2. CASE override = Unset
    <3>1. LastGrant(requests', k) = LastGrant(requests, k)
      BY <1>5, <2>2
    <3>2. QED
      BY <1>4, <1>9, <1>11, <2>1, <2>2, <3>1 DEF ClientAsked
  <2>3. CASE override # Unset
    <3>1. LastGrant(requests', k) = r /\ override \in Overrides
      BY <1>5, <2>3
    <3>2. QED
      BY <1>1, <1>4, <1>9, <1>11, <2>1, <2>3, <3>1 DEF ClientAsked
  <2>4. QED
    BY <2>2, <2>3
<1>13. ClientsAsked'
  <2> SUFFICES ASSUME NEW j \in DOMAIN client'
               PROVE  ClientAsked(client'[j], LastTier(requests', j), LastGrant(requests', j), LastEnabled(requests', j))
    BY DEF ClientsAsked, ClientAsked
  <2>1. CASE j = k
    BY <1>12, <2>1
  <2>2. CASE j # k
    <3>1. j \in DOMAIN client /\ client'[j] = client[j]
      BY <1>6, <2>2
    <3>2. ClientAsked(client[j], LastTier(requests, j), LastGrant(requests, j), LastEnabled(requests, j))
      BY <1>1, <3>1 DEF ClientsAsked
    <3>3. /\ LastTier(requests', j) = LastTier(requests, j) /\ LastGrant(requests', j) = LastGrant(requests, j)
          /\ LastEnabled(requests', j) = LastEnabled(requests, j)
      BY <1>5, <2>2
    <3>4. QED
      BY <3>1, <3>2, <3>3
  <2>3. QED
    BY <2>1, <2>2
<1>14. SettingsAsked'
  BY <1>1, <1>3, <1>5 DEF SettingsAsked, PriceAsked, IntervalAsked
<1>15. SettingsShapes'
  <2>1. \A j \in DOMAIN client' : ClientFields(client'[j])
    BY <1>1, <1>6, <1>10
  <2>2. \A i \in DOMAIN requests' : requests'[i].op # "settings" => requests'[i].key \in DOMAIN client'
    BY <1>1, <1>4, <1>5, <1>6
  <2>3. QED
    BY <1>1, <1>3, <1>5, <2>1, <2>2 DEF SettingsShapes, ClientFields
<1>16. QED
  BY <1>13, <1>14, <1>15 DEF SettingsInv

\* Of the parts of the invariant, what a request about a client that is there already needs.
LEMMA ClientRequestKeeps ==
  ASSUME SettingsInv, NEW k \in DOMAIN client, NEW r \in Requests, r.op # "settings", r.op # "tier", r.key = k,
         requests' = Append(requests, r), clock' = clock, settings' = settings,
         NEW record, ClientFields(record), SetClient(k, record),
         ClientAsked(record, IF OfTier(r, k) THEN r ELSE LastTier(requests, k),
                             IF OfGrant(r, k) THEN r ELSE LastGrant(requests, k),
                             IF OfEnabled(r, k) THEN r ELSE LastEnabled(requests, k))
  PROVE  SettingsInv'
<1>1. /\ clock \in 0..MaxClock /\ requests \in Seq(Requests) /\ ClientsAsked /\ SettingsAsked
      /\ \A i \in DOMAIN client : ClientFields(client[i])
      /\ \A i \in DOMAIN requests : requests[i].op # "settings" => requests[i].key \in DOMAIN client
  BY DEF SettingsInv, SettingsShapes
<1>2. /\ \A j : LastTier(requests', j) = IF OfTier(r, j) THEN r ELSE LastTier(requests, j)
      /\ \A j : LastGrant(requests', j) = IF OfGrant(r, j) THEN r ELSE LastGrant(requests, j)
      /\ \A j : LastEnabled(requests', j) = IF OfEnabled(r, j) THEN r ELSE LastEnabled(requests, j)
      /\ \A p : LastPrice(requests', p) = IF OfPrice(r, p) THEN r ELSE LastPrice(requests, p)
      /\ LastInterval(requests') = IF OfInterval(r) THEN r ELSE LastInterval(requests)
      /\ requests' \in Seq(Requests) /\ DOMAIN requests' = DOMAIN requests \cup {Len(requests) + 1}
      /\ \A i \in DOMAIN requests : requests'[i] = requests[i]
      /\ requests'[Len(requests) + 1] = r
  <2>1. Adds(requests', requests, r)
    BY <1>1 DEF Adds
  <2>2. QED
    BY ONLY <2>1, RequestAdds
<1>3. /\ \A j : j # k => ~ OfTier(r, j) /\ ~ OfGrant(r, j) /\ ~ OfEnabled(r, j)
      /\ (\A p : ~ OfPrice(r, p)) /\ ~ OfInterval(r)
  BY DEF OfTier, OfGrant, OfEnabled, OfPrice, OfInterval
<1>4. /\ DOMAIN client' = DOMAIN client
      /\ \A j \in DOMAIN client : j # k => client'[j] = client[j]
      /\ client'[k] = record
  BY DEF SetClient
<1>5. ClientsAsked'
  <2> SUFFICES ASSUME NEW j \in DOMAIN client'
               PROVE  ClientAsked(client'[j], LastTier(requests', j), LastGrant(requests', j), LastEnabled(requests', j))
    BY DEF ClientsAsked, ClientAsked
  <2>1. CASE j = k
    BY <1>2, <1>4, <2>1
  <2>2. CASE j # k
    <3>1. j \in DOMAIN client /\ client'[j] = client[j]
      BY <1>4, <2>2
    <3>2. ClientAsked(client[j], LastTier(requests, j), LastGrant(requests, j), LastEnabled(requests, j))
      BY <1>1, <3>1 DEF ClientsAsked
    <3>3. /\ LastTier(requests', j) = LastTier(requests, j) /\ LastGrant(requests', j) = LastGrant(requests, j)
          /\ LastEnabled(requests', j) = LastEnabled(requests, j)
      BY <1>2, <1>3, <2>2
    <3>4. QED
      BY <3>1, <3>2, <3>3
  <2>3. QED
    BY <2>1, <2>2
<1>6. SettingsAsked'
  <2>1. LastInterval(requests') = LastInterval(requests) /\ \A p : LastPrice(requests', p) = LastPrice(requests, p)
    BY <1>2, <1>3
  <2>2. QED
    BY <1>1, <2>1 DEF SettingsAsked, PriceAsked, IntervalAsked
<1>7. SettingsShapes'
  <2>1. \A j \in DOMAIN client' : ClientFields(client'[j])
    BY <1>1, <1>4
  <2>2. \A i \in DOMAIN requests' : requests'[i].op # "settings" => requests'[i].key \in DOMAIN client'
    BY <1>1, <1>2, <1>4
  <2>3. QED
    BY <1>1, <1>2, <2>1, <2>2 DEF SettingsShapes, ClientFields
<1>8. QED
  BY <1>5, <1>6, <1>7 DEF SettingsInv

LEMMA SetCreditsKeeps ==
  ASSUME SettingsInv, NEW k \in Clients, NEW enabled \in BOOLEAN \cup {Unset}, SetCreditsEnabled(k, enabled)
  PROVE  SettingsInv'
<1> DEFINE r == [op |-> "enabled", key |-> k, enabled |-> enabled]
           c == client[k]
           new == [c EXCEPT !.credits_enabled = enabled]
<1>1. k \in DOMAIN client /\ ClientFields(c)
  BY DEF SettingsInv, SettingsShapes, SetCreditsEnabled
<1>2. ClientAsked(c, LastTier(requests, k), LastGrant(requests, k), LastEnabled(requests, k))
  BY <1>1 DEF SettingsInv, ClientsAsked
<1>3. /\ requests' = Append(requests, r) /\ clock' = clock /\ settings' = settings /\ SetClient(k, new)
  BY DEF SetCreditsEnabled, Log
<1>4. r \in Requests /\ r.op = "enabled" /\ r.key = k /\ r.enabled = enabled
  BY DEF Requests
<1>5. r # Unset
  BY <1>4, PostpackSettingsAssumption
<1> HIDE DEF r, c
<1>6. new = [tier |-> c.tier, override_tier |-> c.override_tier,
             override_expires_at |-> c.override_expires_at, credits_enabled |-> enabled]
  <2> DEFINE ot == c.override_tier
             oe == c.override_expires_at
             ce == c.credits_enabled
             ti == c.tier
  <2>1. c = [tier |-> ti, override_tier |-> ot, override_expires_at |-> oe, credits_enabled |-> ce]
    BY <1>1 DEF ClientFields
  <2> HIDE DEF ot, oe, ce, ti
  <2>2. new = [tier |-> ti, override_tier |-> ot, override_expires_at |-> oe, credits_enabled |-> enabled]
    BY <2>1
  <2> HIDE DEF new
  <2>3. QED
    BY <2>2 DEF ot, oe, ti
<1> HIDE DEF new
<1>7. ClientFields(new)
  BY <1>6 DEF ClientFields
<1>8. /\ new.tier = c.tier /\ new.override_tier = c.override_tier
      /\ new.override_expires_at = c.override_expires_at /\ new.credits_enabled = enabled
  BY <1>6
<1>9. ClientAsked(new, LastTier(requests, k), LastGrant(requests, k), r)
  BY <1>2, <1>4, <1>5, <1>8 DEF ClientAsked
<1>10. ~ OfTier(r, k) /\ ~ OfGrant(r, k) /\ OfEnabled(r, k)
  BY <1>4 DEF OfTier, OfGrant, OfEnabled
<1>11. ClientAsked(new, IF OfTier(r, k) THEN r ELSE LastTier(requests, k),
                        IF OfGrant(r, k) THEN r ELSE LastGrant(requests, k),
                        IF OfEnabled(r, k) THEN r ELSE LastEnabled(requests, k))
  BY <1>9, <1>10
<1>12. QED
  BY <1>1, <1>3, <1>4, <1>7, <1>11, ClientRequestKeeps

LEMMA SwitchOffKeeps ==
  ASSUME SettingsInv, NEW k \in Clients, SwitchOff(k)
  PROVE  SettingsInv'
<1> DEFINE r == [op |-> "off", key |-> k]
           c == client[k]
           new == SwitchedOff(c)
<1>1. k \in DOMAIN client /\ ClientFields(c)
  BY DEF SettingsInv, SettingsShapes, SwitchOff
<1>2. ClientAsked(c, LastTier(requests, k), LastGrant(requests, k), LastEnabled(requests, k))
  BY <1>1 DEF SettingsInv, ClientsAsked
<1>3. /\ requests' = Append(requests, r) /\ clock' = clock /\ settings' = settings /\ SetClient(k, new)
  BY DEF SwitchOff, Log
<1>4. r \in Requests /\ r.op = "off" /\ r.key = k
  BY DEF Requests
<1>5. r # Unset
  BY <1>4, PostpackSettingsAssumption
<1> HIDE DEF r, c
<1>6. new = [tier |-> "off", override_tier |-> Unset,
             override_expires_at |-> Unset, credits_enabled |-> c.credits_enabled]
  <2> DEFINE ot == c.override_tier
             oe == c.override_expires_at
             ce == c.credits_enabled
             ti == c.tier
  <2>1. c = [tier |-> ti, override_tier |-> ot, override_expires_at |-> oe, credits_enabled |-> ce]
    BY <1>1 DEF ClientFields
  <2> HIDE DEF ot, oe, ce, ti
  <2>2. new = [tier |-> "off", override_tier |-> Unset, override_expires_at |-> Unset, credits_enabled |-> ce]
    <3>1. new = [c EXCEPT !.tier = "off", !.override_tier = Unset, !.override_expires_at = Unset]
      BY DEF SwitchedOff
    <3> HIDE DEF new
    <3>2. QED
      BY <2>1, <3>1
  <2> HIDE DEF new
  <2>3. QED
    BY <2>2 DEF ce
<1> HIDE DEF new
<1>7. ClientFields(new)
  BY <1>6 DEF ClientFields
<1>8. new.tier = "off" /\ new.override_tier = Unset /\ new.credits_enabled = c.credits_enabled
  BY <1>6
<1>9. ClientAsked(new, r, r, LastEnabled(requests, k))
  BY <1>2, <1>4, <1>5, <1>8 DEF ClientAsked
<1>10. OfTier(r, k) /\ OfGrant(r, k) /\ ~ OfEnabled(r, k)
  BY <1>4 DEF OfTier, OfGrant, OfEnabled
<1>11. ClientAsked(new, IF OfTier(r, k) THEN r ELSE LastTier(requests, k),
                        IF OfGrant(r, k) THEN r ELSE LastGrant(requests, k),
                        IF OfEnabled(r, k) THEN r ELSE LastEnabled(requests, k))
  BY <1>9, <1>10
<1>12. QED
  BY <1>1, <1>3, <1>4, <1>7, <1>11, ClientRequestKeeps

LEMMA UpdateKeeps ==
  ASSUME SettingsInv, NEW u \in Updates, UpdateSettings(u)
  PROVE  SettingsInv'
<1> DEFINE r == [op |-> "settings", update |-> u]
<1>1. /\ clock \in 0..MaxClock /\ requests \in Seq(Requests) /\ ClientsAsked /\ SettingsAsked
      /\ \A i \in DOMAIN client : ClientFields(client[i])
      /\ \A i \in DOMAIN requests : requests[i].op # "settings" => requests[i].key \in DOMAIN client
  BY DEF SettingsInv, SettingsShapes
<1>2. requests' = Append(requests, r) /\ clock' = clock /\ client' = client
  BY DEF UpdateSettings, Log
<1>3. r \in Requests /\ r.op = "settings" /\ r.update = u
  BY DEF Requests
<1>4. r # Unset
  BY <1>3, PostpackSettingsAssumption
<1> HIDE DEF r
<1>5. /\ \A j : LastTier(requests', j) = IF OfTier(r, j) THEN r ELSE LastTier(requests, j)
      /\ \A j : LastGrant(requests', j) = IF OfGrant(r, j) THEN r ELSE LastGrant(requests, j)
      /\ \A j : LastEnabled(requests', j) = IF OfEnabled(r, j) THEN r ELSE LastEnabled(requests, j)
      /\ \A p : LastPrice(requests', p) = IF OfPrice(r, p) THEN r ELSE LastPrice(requests, p)
      /\ LastInterval(requests') = IF OfInterval(r) THEN r ELSE LastInterval(requests)
      /\ requests' \in Seq(Requests) /\ DOMAIN requests' = DOMAIN requests \cup {Len(requests) + 1}
      /\ \A i \in DOMAIN requests : requests'[i] = requests[i]
      /\ requests'[Len(requests) + 1] = r
  <2>1. Adds(requests', requests, r)
    BY <1>1, <1>2, <1>3 DEF Adds
  <2>2. QED
    BY <2>1, RequestAdds
<1>6. /\ \A j : ~ OfTier(r, j) /\ ~ OfGrant(r, j) /\ ~ OfEnabled(r, j)
      /\ \A p : OfPrice(r, p) <=> p \in DOMAIN u.prices
      /\ OfInterval(r) <=> u.interval # Unset
  BY <1>3 DEF OfTier, OfGrant, OfEnabled, OfPrice, OfInterval
<1>7. /\ settings'.interval = IF u.interval = Unset THEN settings.interval ELSE u.interval
      /\ settings'.prices = [p \in DOMAIN settings.prices \cup DOMAIN u.prices |->
                                IF p \in DOMAIN u.prices THEN u.prices[p] ELSE settings.prices[p]]
  BY DEF UpdateSettings, Applied
<1>8. ClientsAsked'
  <2>1. \A j : /\ LastTier(requests', j) = LastTier(requests, j) /\ LastGrant(requests', j) = LastGrant(requests, j)
               /\ LastEnabled(requests', j) = LastEnabled(requests, j)
    BY <1>5, <1>6
  <2>2. QED
    BY <1>1, <1>2, <2>1 DEF ClientsAsked, ClientAsked
<1>9. SettingsAsked'
  <2>1. ASSUME NEW p \in MessageTypes \X Units PROVE PriceAsked(requests, p)'
    <3>1. PriceAsked(requests, p)
      BY <1>1 DEF SettingsAsked
    <3>2. CASE p \in DOMAIN u.prices
      <4>1. LastPrice(requests', p) = r
        BY <1>5, <1>6, <3>2
      <4>2. p \in DOMAIN settings'.prices /\ settings'.prices[p] = u.prices[p]
        BY <1>7, <3>2
      <4>3. QED
        BY <1>3, <1>4, <4>1, <4>2 DEF PriceAsked
    <3>3. CASE p \notin DOMAIN u.prices
      <4>1. LastPrice(requests', p) = LastPrice(requests, p)
        BY <1>5, <1>6, <3>3
      <4>2. /\ p \in DOMAIN settings'.prices <=> p \in DOMAIN settings.prices
            /\ p \in DOMAIN settings.prices => settings'.prices[p] = settings.prices[p]
        BY <1>7, <3>3
      <4>3. QED
        BY <3>1, <4>1, <4>2 DEF PriceAsked
    <3>4. QED
      BY <3>2, <3>3
  <2>2. IntervalAsked(requests)'
    <3>1. IntervalAsked(requests)
      BY <1>1 DEF SettingsAsked
    <3>2. CASE u.interval = Unset
      <4>1. LastInterval(requests') = LastInterval(requests) /\ settings'.interval = settings.interval
        BY <1>5, <1>6, <1>7, <3>2
      <4>2. QED
        BY <3>1, <4>1 DEF IntervalAsked
    <3>3. CASE u.interval # Unset
      <4>1. LastInterval(requests') = r /\ settings'.interval = u.interval
        BY <1>5, <1>6, <1>7, <3>3
      <4>2. QED
        BY <1>3, <1>4, <4>1 DEF IntervalAsked
    <3>4. QED
      BY <3>2, <3>3
  <2>3. QED
    BY <2>1, <2>2 DEF SettingsAsked
<1>10. SettingsShapes'
  <2>1. \A i \in DOMAIN requests' : requests'[i].op # "settings" => requests'[i].key \in DOMAIN client
    BY <1>1, <1>3, <1>5
  <2>2. QED
    BY <1>1, <1>2, <1>5, <2>1 DEF SettingsShapes, ClientFields
<1>11. QED
  BY <1>8, <1>9, <1>10 DEF SettingsInv

LEMMA SettingsStep ==
  SettingsInv /\ [SettingsNext]_settingsVars => SettingsInv'
<1> SUFFICES ASSUME SettingsInv, [SettingsNext]_settingsVars PROVE SettingsInv'
  OBVIOUS
<1>1. CASE ClockTicks
  <2>1. clock' \in 0..MaxClock
    BY <1>1, PostpackSettingsAssumption DEF ClockTicks, SettingsInv, SettingsShapes
  <2>2. client' = client /\ settings' = settings /\ requests' = requests
    BY <1>1 DEF ClockTicks
  <2>3. QED
    BY <2>1, <2>2 DEF SettingsInv, SettingsShapes, ClientsAsked, SettingsAsked, PriceAsked, IntervalAsked,
                      ClientFields, ClientAsked
<1>2. CASE UNCHANGED settingsVars
  <2>1. clock' = clock /\ client' = client /\ settings' = settings /\ requests' = requests
    BY <1>2 DEF settingsVars
  <2>2. QED
    BY <2>1 DEF SettingsInv, SettingsShapes, ClientsAsked, SettingsAsked, PriceAsked, IntervalAsked,
                ClientFields, ClientAsked
<1>3. QED
  BY <1>1, <1>2, SetTierKeeps, SetCreditsKeeps, SwitchOffKeeps, UpdateKeeps DEF SettingsNext, AllServed

LEMMA SettingsStart ==
  SettingsInit => SettingsInv
<1> SUFFICES ASSUME SettingsInit PROVE SettingsInv
  OBVIOUS
<1>1. clock = 0 /\ requests = <<>> /\ DOMAIN client = {} /\ DOMAIN requests = {} /\ MaxClock \in Nat
  BY PostpackSettingsAssumption DEF SettingsInit
<1>2. /\ settings.interval = StartingInterval
      /\ settings.prices = [p \in MessageTypes \X {"message"} |-> StartingPrice]
  BY DEF SettingsInit
<1>3. (\A p : LastPrice(requests, p) = Unset) /\ LastInterval(requests) = Unset
  BY <1>1 DEF LastPrice, LastInterval, LastOf
<1>4. SettingsShapes
  BY <1>1 DEF SettingsShapes
<1>5. ClientsAsked
  BY <1>1 DEF ClientsAsked
<1>6. SettingsAsked
  BY <1>2, <1>3 DEF SettingsAsked, PriceAsked, IntervalAsked
<1>7. QED
  BY <1>4, <1>5, <1>6 DEF SettingsInv

\* What an override that was asked for still gives.
LEMMA GrantLeft ==
  ASSUME NEW c, NEW tier, NEW grant, NEW enabled, ClientAsked(c, tier, grant, enabled), NEW now \in 0..MaxClock
  PROVE  (IF c.override_tier # Unset /\ c.override_expires_at > now
          THEN [tier |-> c.override_tier, time_left |-> c.override_expires_at - now] ELSE Unset)
         = (IF grant = Unset \/ grant.op = "off" \/ grant.at + grant.override.duration - now <= 0 THEN Unset
            ELSE [tier |-> grant.override.tier, time_left |-> grant.at + grant.override.duration - now])
<1>1. MaxClock \in Nat /\ Durations \subseteq Int /\ Unset \notin Tiers
  BY PostpackSettingsAssumption
<1>2. CASE grant = Unset \/ grant.op = "off"
  BY <1>2 DEF ClientAsked
<1>3. CASE ~ (grant = Unset \/ grant.op = "off")
  <2> DEFINE at == grant.at
             for == grant.override.duration
             expires == c.override_expires_at
  <2>1. /\ grant.override \in Overrides /\ at \in 0..MaxClock
        /\ c.override_tier = grant.override.tier /\ expires = at + for
    BY <1>3 DEF ClientAsked
  <2>2. grant.override.tier \in Tiers /\ for \in Int
    BY <1>1, <2>1 DEF Overrides
  <2>3. c.override_tier # Unset
    BY <1>1, <2>1, <2>2
  <2> HIDE DEF at, for, expires
  <2>4. expires - now = at + for - now /\ (expires > now <=> ~ (at + for - now <= 0))
    BY <1>1, <2>1, <2>2
  <2>5. (IF c.override_tier # Unset /\ expires > now
         THEN [tier |-> c.override_tier, time_left |-> expires - now] ELSE Unset)
        = (IF grant = Unset \/ grant.op = "off" \/ at + for - now <= 0 THEN Unset
           ELSE [tier |-> grant.override.tier, time_left |-> at + for - now])
    BY <1>3, <2>1, <2>3, <2>4
  <2>6. QED
    BY <2>5 DEF at, for, expires
<1>4. QED
  BY <1>2, <1>3

\* Whatever the requests are, the tier, the override and the flag of a client and each setting are
\* what the last request about them asked for (set_postpack_tier, delete_postpack_client,
\* set_postpack_credits_enabled, PostpackSettingsUpdate::apply).
THEOREM LatestHold ==
  SettingsInit /\ [][SettingsNext]_settingsVars => []LatestRequestsHold
<1>1. SettingsInv => LatestRequestsHold
  <2> SUFFICES ASSUME SettingsInv PROVE LatestRequestsHold
    OBVIOUS
  <2>1. clock \in 0..MaxClock /\ ClientsAsked /\ SettingsAsked
    BY DEF SettingsInv, SettingsShapes
  <2>2. MaxClock \in Nat /\ Durations \subseteq Int /\ Unset \notin Tiers
    BY PostpackSettingsAssumption
  <2>3. ASSUME NEW k \in DOMAIN client
        PROVE  LET tier == LastRequest(LAMBDA r : r.op \in {"tier", "off"} /\ r.key = k)
                   grant == LastRequest(LAMBDA r :
                       r.op \in {"tier", "off"} /\ r.key = k /\ (r.op = "tier" => r.override # Unset))
                   enabled == LastRequest(LAMBDA r : r.op = "enabled" /\ r.key = k)
                   left == grant.at + grant.override.duration - clock
               IN  /\ client[k].tier = IF tier.op = "off" THEN "off" ELSE tier.tier
                   /\ OverrideView(k) =
                          IF grant = Unset \/ grant.op = "off" \/ left <= 0 THEN Unset
                          ELSE [tier |-> grant.override.tier, time_left |-> left]
                   /\ client[k].credits_enabled = IF enabled = Unset THEN Unset ELSE enabled.enabled
    <3> DEFINE tier == LastRequest(LAMBDA r : r.op \in {"tier", "off"} /\ r.key = k)
               grant == LastRequest(LAMBDA r :
                   r.op \in {"tier", "off"} /\ r.key = k /\ (r.op = "tier" => r.override # Unset))
               enabled == LastRequest(LAMBDA r : r.op = "enabled" /\ r.key = k)
               left == grant.at + grant.override.duration - clock
               c == client[k]
    <3>1. tier = LastTier(requests, k) /\ grant = LastGrant(requests, k) /\ enabled = LastEnabled(requests, k)
      BY DEF LastRequest, LastTier, LastGrant, LastEnabled, LastOf, OfTier, OfGrant, OfEnabled
    <3>2. ClientAsked(c, LastTier(requests, k), LastGrant(requests, k), LastEnabled(requests, k))
      BY <2>1 DEF ClientsAsked
    <3>3. OverrideView(k) = IF c.override_tier # Unset /\ c.override_expires_at > clock
                            THEN [tier |-> c.override_tier, time_left |-> c.override_expires_at - clock] ELSE Unset
      BY DEF OverrideView
    <3>0. left = grant.at + grant.override.duration - clock
      OBVIOUS
    <3> HIDE DEF tier, grant, enabled, c, left
    <3>4. ClientAsked(c, tier, grant, enabled)
      BY <3>1, <3>2
    <3>5. OverrideView(k) = IF grant = Unset \/ grant.op = "off" \/ left <= 0 THEN Unset
                            ELSE [tier |-> grant.override.tier, time_left |-> left]
      BY <2>1, <3>0, <3>3, <3>4, GrantLeft
    <3>6. QED
      BY <3>4, <3>5 DEF ClientAsked, c, tier, grant, enabled, left
  <2>4. ASSUME NEW p \in MessageTypes \X Units
        PROVE  LET set == LastRequest(LAMBDA r : r.op = "settings" /\ p \in DOMAIN r.update.prices) IN
               IF set # Unset THEN p \in DOMAIN settings.prices /\ settings.prices[p] = set.update.prices[p]
               ELSE p \in DOMAIN settings.prices => settings.prices[p] = StartingPrice
    <3>1. PriceAsked(requests, p)
      BY <2>1 DEF SettingsAsked
    <3>2. LastRequest(LAMBDA r : r.op = "settings" /\ p \in DOMAIN r.update.prices) = LastPrice(requests, p)
      BY DEF LastRequest, LastPrice, LastOf, OfPrice
    <3>3. QED
      BY <3>1, <3>2 DEF PriceAsked
  <2>5. LET set == LastRequest(LAMBDA r : r.op = "settings" /\ r.update.interval # Unset) IN
        settings.interval = IF set = Unset THEN StartingInterval ELSE set.update.interval
    <3>1. IntervalAsked(requests)
      BY <2>1 DEF SettingsAsked
    <3>2. LastRequest(LAMBDA r : r.op = "settings" /\ r.update.interval # Unset) = LastInterval(requests)
      BY DEF LastRequest, LastInterval, LastOf, OfInterval
    <3>3. QED
      BY <3>1, <3>2 DEF IntervalAsked
  <2>6. QED
    BY <2>3, <2>4, <2>5 DEF LatestRequestsHold
<1>2. QED
  BY <1>1, SettingsStart, SettingsStep, PTL

\* The record of a client: an override has a tier and an end, or neither.
OverrideWhole(c) == (c.override_tier = Unset) = (c.override_expires_at = Unset)

\* A handler that keeps both fields of the override, sets both or takes both away.
LEMMA SetClientTyped ==
  ASSUME SettingsTypeOK, NEW k \in Clients, NEW record, OverrideWhole(record), SetClient(k, record),
         settings' = settings
  PROVE  SettingsTypeOK'
<1>1. /\ DOMAIN client' = DOMAIN client \cup {k} /\ client'[k] = record
      /\ \A c \in DOMAIN client : c # k => client'[c] = client[c]
  BY DEF SetClient
<1>2. ASSUME NEW c \in DOMAIN client' PROVE OverrideWhole(client'[c])
  BY <1>1 DEF SettingsTypeOK, OverrideWhole
<1>3. ValidSettings(settings')
  BY DEF SettingsTypeOK
<1>4. QED
  BY <1>1, <1>2, <1>3 DEF SettingsTypeOK, OverrideWhole

LEMMA SettingsTypesStep ==
  SettingsInv /\ SettingsTypeOK /\ [SettingsNext]_settingsVars => SettingsTypeOK'
<1> SUFFICES ASSUME SettingsInv, SettingsTypeOK, [SettingsNext]_settingsVars PROVE SettingsTypeOK'
  OBVIOUS
<1>1. ASSUME NEW k \in DOMAIN client PROVE ClientFields(client[k]) /\ OverrideWhole(client[k]) /\ k \in Clients
  BY DEF SettingsInv, SettingsShapes, SettingsTypeOK, OverrideWhole
<1>2. ASSUME NEW k \in Clients, NEW tier \in Tiers, NEW override \in {Unset} \cup Overrides, SetTier(k, tier, override)
      PROVE  SettingsTypeOK'
  <2> DEFINE c == ClientOf(k)
             kept == [c EXCEPT !.tier = tier]
             granted == [c EXCEPT !.tier = tier, !.override_tier = override.tier,
                                  !.override_expires_at = clock + override.duration]
  <2>1. ClientFields(c) /\ OverrideWhole(c)
    BY <1>1 DEF ClientOf, NewClient, ClientFields, OverrideWhole
  <2>2. SetClient(k, IF override = Unset THEN kept ELSE granted) /\ settings' = settings
    BY <1>2 DEF SetTier
  <2> HIDE DEF c
  <2>3. CASE override = Unset
    <3>1. OverrideWhole(kept)
      BY <2>1 DEF ClientFields, OverrideWhole
    <3>2. QED
      BY <2>2, <2>3, <3>1, SetClientTyped
  <2>4. CASE override # Unset
    <3>1. override.tier # Unset /\ override.duration \in Durations /\ clock \in 0..MaxClock
      BY <2>4, PostpackSettingsAssumption DEF Overrides, SettingsInv, SettingsShapes
    <3>2. clock + override.duration # Unset
      BY <3>1, PostpackSettingsAssumption
    <3>3. granted.override_tier = override.tier /\ granted.override_expires_at = clock + override.duration
      BY <2>1 DEF ClientFields
    <3>4. OverrideWhole(granted)
      BY <3>1, <3>2, <3>3 DEF OverrideWhole
    <3>5. QED
      BY <2>2, <2>4, <3>4, SetClientTyped
  <2>5. QED
    BY <2>3, <2>4
<1>3. ASSUME NEW k \in Clients, NEW enabled, SetCreditsEnabled(k, enabled) PROVE SettingsTypeOK'
  <2> DEFINE c == client[k]
             new == [c EXCEPT !.credits_enabled = enabled]
  <2>1. ClientFields(c) /\ OverrideWhole(c) /\ SetClient(k, new) /\ settings' = settings
    BY <1>1, <1>3 DEF SetCreditsEnabled
  <2> HIDE DEF c
  <2>2. OverrideWhole(new)
    BY <2>1 DEF ClientFields, OverrideWhole
  <2>3. QED
    BY <2>1, <2>2, SetClientTyped
<1>4. ASSUME NEW k \in Clients, SwitchOff(k) PROVE SettingsTypeOK'
  <2> DEFINE c == client[k]
  <2>1. ClientFields(c) /\ SetClient(k, SwitchedOff(c)) /\ settings' = settings
    BY <1>1, <1>4 DEF SwitchOff
  <2> HIDE DEF c
  <2>2. OverrideWhole(SwitchedOff(c))
    BY <2>1 DEF ClientFields, OverrideWhole, SwitchedOff
  <2>3. QED
    BY <2>1, <2>2, SetClientTyped
<1>5. ASSUME NEW u \in Updates, UpdateSettings(u) PROVE SettingsTypeOK'
  <2>1. ValidSettings(settings') /\ client' = client
    BY <1>5 DEF UpdateSettings
  <2>2. QED
    BY <2>1 DEF SettingsTypeOK
<1>6. CASE ClockTicks \/ AllServed \/ UNCHANGED settingsVars
  <2>1. client' = client /\ settings' = settings
    BY <1>6 DEF ClockTicks, AllServed, settingsVars
  <2>2. QED
    BY <2>1 DEF SettingsTypeOK
<1>7. QED
  BY <1>2, <1>3, <1>4, <1>5, <1>6 DEF SettingsNext

\* Type correctness of the settings (preconf-admin-mock.rs): an override has a tier and an end or
\* neither, and no request leaves a message type without a price or a price that is not positive.
THEOREM SettingsTypes ==
  SettingsInit /\ [][SettingsNext]_settingsVars => []SettingsTypeOK
<1>1. SettingsInit => SettingsTypeOK
  BY DEF SettingsInit, SettingsTypeOK, ValidSettings, StartingInterval, StartingPrice
<1>2. QED
  BY SettingsStart, SettingsStep, SettingsTypesStep, <1>1, PTL

-----------------------------------------------------------------------------
(* The judgement of a server. *)

Update == [tx : Transactions, tags : SUBSET (1..Len(Filters) + 1), is_vote : BOOLEAN]
WindowRecord ==
    [bundle : Bundles, untagged : Nat, unknown_tags : Nat, tag_false_positive : Nat, tag_missing : Nat,
     vote_flag_mismatch : Nat, duplicates : Nat]

\* What the source sees of the transaction of an update.
Seen(u) == View(u.tx, ~source_mode.deshred)

\* An update nothing is wrong with: its tags are those of the local match, and so is its vote flag.
TaggedRight(u) ==
    /\ ~ Inferred(u.tags) /\ u.tags \subseteq DOMAIN Filters
    /\ Mask(u.tags, Seen(u)) = Local(Seen(u))
    /\ u.is_vote = Seen(u).vote

AllTaggedRight == \A n \in DOMAIN updates : TaggedRight(updates[n])

SampledOnce ==
    \A m, n \in DOMAIN updates :
        Samples(Seen(updates[m])) /\ Samples(Seen(updates[n])) /\ updates[m].tx.sig = updates[n].tx.sig => m = n

NothingCounted == \A c \in DOMAIN audit_window \ {"bundle"} : audit_window[c] = 0

\* The deliveries kept for the check are those sampled, and of each signature one mask.
SampledTrue ==
    /\ \A s \in DOMAIN sampled : \E n \in DOMAIN updates :
           /\ Samples(Seen(updates[n])) /\ updates[n].tx.sig = s
           /\ sampled[s] = Mask(updates[n].tags, Seen(updates[n]))
    /\ \A n \in DOMAIN updates : Samples(Seen(updates[n])) => updates[n].tx.sig \in DOMAIN sampled

TagsTyped ==
    /\ source_mode \in [deshred : BOOLEAN] /\ skip_votes \in BOOLEAN
    /\ block \in (SUBSET Transactions) \cup {NoBlock}
    /\ audit_window \in WindowRecord /\ updates \in Seq(Update)
    /\ source_mode.deshred => FitsDeshred(audit_window.bundle)

TagsInv ==
    /\ TagsTyped /\ SampledTrue
    /\ NothingCounted <=> AllTaggedRight /\ SampledOnce
    /\ verdict # NoBlock => verdict = [i \in DOMAIN Filters |-> Totals(i)]

LEMMA FiltersAre ==
  ASSUME TagsTyped
  PROVE  /\ audit_window.bundle \in Bundles /\ Filters = audit_window.bundle.filters
         /\ DOMAIN Filters = 1..Len(Filters) /\ Len(Filters) \in Nat \ {0}
<1>1. audit_window.bundle \in Bundles
  BY DEF TagsTyped, WindowRecord
<1>2. Filters \in Seq({Filters[i] : i \in DOMAIN Filters}) /\ Filters # <<>>
  BY <1>1, FilterTagsAssumption DEF Filters
<1> DEFINE F == Filters
<1>3. PICK R : F \in Seq(R)
  BY <1>2
<1> HIDE DEF F
<1>4. DOMAIN F = 1..Len(F) /\ Len(F) \in Nat
  BY <1>3
<1>5. Len(F) # 0
  BY <1>2, <1>3, EmptySeq DEF F
<1>6. QED
  BY <1>1, <1>4, <1>5 DEF F, Filters

\* A transaction matches locally, with or without its meta, if and only if the server's filter is to accept it.
LEMMA MatchesIs ==
  ASSUME TagsTyped, NEW tx \in Transactions, NEW i \in DOMAIN Filters, NEW meta \in {TRUE, ~source_mode.deshred}
  PROVE  Matches(Filters[i], View(tx, meta)) <=> Accepts(Filters[i], tx)
<1> DEFINE f == Filters[i]
           v == View(tx, meta)
           keys == tx.static \cup tx.loaded
<1>1. v.vote = IsSimpleVote(tx) /\ v.keys = keys /\ v.failed = IF meta THEN tx.failed ELSE Unstated
  BY DEF View
<1>2. tx.failed \in BOOLEAN /\ tx.failed # Unstated
  BY FilterTagsAssumption, FilterBundlesAssumption
<1>3. ~ meta => f.failed = Unstated
  <2>1. source_mode.deshred \in BOOLEAN
    BY DEF TagsTyped
  <2>2. ~ meta => source_mode.deshred
    BY <2>1
  <2>3. QED
    BY <2>2 DEF TagsTyped, FitsDeshred, UsesFailed, Filters
<1> HIDE DEF f, v
<1>4. (f.vote # Unstated /\ v.vote # f.vote) <=> f.vote \notin {Unstated, IsSimpleVote(tx)}
  BY <1>1
<1>5. (f.failed # Unstated /\ v.failed # Unstated /\ v.failed # f.failed) <=> f.failed \notin {Unstated, tx.failed}
  BY <1>1, <1>2, <1>3
<1>6. (f.include = {} \/ f.include \cap v.keys # {}) <=> (f.include = {} \/ \E k \in f.include : k \in keys)
  BY <1>1
<1>7. (f.exclude \cap v.keys # {}) <=> ~(\A k \in f.exclude : k \notin keys)
  BY <1>1
<1>8. (f.required \subseteq v.keys) <=> \A k \in f.required : k \in keys
  BY <1>1
<1>9. Matches(f, v) <=>
          /\ ~ (f.vote # Unstated /\ v.vote # f.vote)
          /\ ~ (f.failed # Unstated /\ v.failed # Unstated /\ v.failed # f.failed)
          /\ f.include = {} \/ f.include \cap v.keys # {}
          /\ ~ (f.exclude \cap v.keys # {})
          /\ f.required \subseteq v.keys
  BY FilterBundlesAssumption DEF Matches, Mismatch
<1>10. QED
  BY <1>4, <1>5, <1>6, <1>7, <1>8, <1>9 DEF Accepts, f, v

\* An update whose transaction is known and whose tags are any the server can send.
LEMMA UpdateFacts ==
  ASSUME TagsTyped, NEW u \in Update
  PROVE  /\ u.tx \in Transactions /\ u.is_vote \in BOOLEAN
         /\ Seen(u).sig = u.tx.sig /\ Seen(u).vote = IsSimpleVote(u.tx)
         /\ Samples(Seen(u)) <=> ~ (skip_votes /\ IsSimpleVote(u.tx))
         /\ Local(Seen(u)) = AcceptedBy(u.tx)
         /\ Mask(u.tags, Seen(u)) \subseteq DOMAIN Filters
<1>1. u.tx \in Transactions /\ u.is_vote \in BOOLEAN
  BY DEF Update
<1>2. Seen(u).sig = u.tx.sig /\ Seen(u).vote = IsSimpleVote(u.tx)
  BY DEF Seen, View
<1>3. Samples(Seen(u)) <=> ~ (skip_votes /\ IsSimpleVote(u.tx))
  BY <1>2 DEF Samples
<1>4. \A i \in DOMAIN Filters : Matches(Filters[i], Seen(u)) <=> Accepts(Filters[i], u.tx)
  BY <1>1, MatchesIs DEF Seen
<1>5. Local(Seen(u)) = AcceptedBy(u.tx)
  BY <1>4 DEF Local, AcceptedBy
<1>6. 1 \in DOMAIN Filters /\ Local(Seen(u)) \subseteq DOMAIN Filters
  BY FiltersAre DEF Local
<1>7. Mask(u.tags, Seen(u)) \subseteq DOMAIN Filters
  BY <1>6 DEF Mask
<1>8. QED
  BY <1>1, <1>2, <1>3, <1>5, <1>7

\* An update nothing is wrong with is one as the subscription promises it.
PromisedUpdate(u) ==
    /\ u.is_vote = IsSimpleVote(u.tx)
    /\ \/ u.tags = AcceptedBy(u.tx) /\ u.tags # {}
       \/ u.tags = {} /\ Len(Filters) = 1 /\ AcceptedBy(u.tx) = {1}

LEMMA TaggedIsPromised ==
  ASSUME TagsTyped, NEW u \in Update
  PROVE  /\ TaggedRight(u) <=> PromisedUpdate(u)
         /\ TaggedRight(u) => /\ Mask(u.tags, Seen(u)) = AcceptedBy(u.tx)
                              /\ AcceptedBy(u.tx) # {}
<1>1. /\ Seen(u).vote = IsSimpleVote(u.tx) /\ Local(Seen(u)) = AcceptedBy(u.tx)
      /\ AcceptedBy(u.tx) \subseteq DOMAIN Filters
  BY UpdateFacts DEF AcceptedBy
<1>2. Len(Filters) \in Nat \ {0} /\ DOMAIN Filters = 1..Len(Filters)
  BY FiltersAre
<1>3. CASE u.tags = {}
  <2>1. Inferred(u.tags) <=> Len(Filters) # 1
    BY <1>2, <1>3 DEF Inferred
  <2>2. ~ Inferred(u.tags) => Mask(u.tags, Seen(u)) = {1}
    BY <1>3 DEF Mask
  <2>3. TaggedRight(u) <=> Len(Filters) = 1 /\ AcceptedBy(u.tx) = {1} /\ u.is_vote = IsSimpleVote(u.tx)
    BY <1>1, <1>3, <2>1, <2>2 DEF TaggedRight
  <2>4. QED
    BY <1>1, <1>3, <2>2, <2>3 DEF PromisedUpdate, TaggedRight
<1>4. CASE u.tags # {}
  <2>1. ~ Inferred(u.tags) /\ Mask(u.tags, Seen(u)) = u.tags \cap DOMAIN Filters
    BY <1>4 DEF Inferred, Mask
  <2>2. TaggedRight(u) <=> u.tags = AcceptedBy(u.tx) /\ u.is_vote = IsSimpleVote(u.tx)
    BY <1>1, <2>1 DEF TaggedRight
  <2>3. QED
    BY <1>1, <1>4, <2>1, <2>2 DEF PromisedUpdate
<1>5. QED
  BY <1>3, <1>4

\* What an update adds to the counters of its window.
Blamed(u) == IF Inferred(u.tags) THEN {} ELSE DOMAIN Filters
Wrong(u) ==
    [untagged |-> IF Inferred(u.tags) THEN 1 ELSE 0,
     unknown_tags |-> Cardinality(u.tags \ DOMAIN Filters),
     tag_false_positive |-> Cardinality((Mask(u.tags, Seen(u)) \ Local(Seen(u))) \cap Blamed(u)),
     tag_missing |-> Cardinality((Local(Seen(u)) \ Mask(u.tags, Seen(u))) \cap Blamed(u)),
     vote_flag_mismatch |-> IF u.is_vote # Seen(u).vote THEN 1 ELSE 0,
     duplicates |-> IF Samples(Seen(u)) /\ Seen(u).sig \in DOMAIN sampled THEN 1 ELSE 0]

Faults == {"untagged", "unknown_tags", "tag_false_positive", "tag_missing", "vote_flag_mismatch", "duplicates"}

LEMMA NoneCounts ==
  ASSUME NEW S, IsFiniteSet(S)
  PROVE  Cardinality(S) \in Nat /\ (Cardinality(S) = 0 <=> S = {})
BY FS_CardinalityType, FS_EmptySet

LEMMA WrongIs ==
  ASSUME TagsTyped, NEW u \in Update
  PROVE  /\ Wrong(u) \in [{"untagged", "unknown_tags", "tag_false_positive", "tag_missing",
                            "vote_flag_mismatch", "duplicates"} -> Nat]
         /\ (\A c \in Faults : Wrong(u)[c] = 0) <=>
                TaggedRight(u) /\ ~ (Samples(Seen(u)) /\ Seen(u).sig \in DOMAIN sampled)
<1> DEFINE mask == Mask(u.tags, Seen(u))
           mine == Local(Seen(u))
           N == Len(Filters)
<1>1. N \in Nat \ {0} /\ DOMAIN Filters = 1..N /\ u.tags \subseteq 1..(N + 1)
  BY FiltersAre DEF Update
<1>2. mask \subseteq 1..N /\ mine \subseteq 1..N
  BY <1>1, UpdateFacts DEF Local
<1>3. IsFiniteSet(1..N) /\ IsFiniteSet(1..(N + 1))
  BY <1>1, FS_Interval
<1> DEFINE tagged == (mask \ mine) \cap Blamed(u)
           left == (mine \ mask) \cap Blamed(u)
           strange == u.tags \ DOMAIN Filters
<1>4. IsFiniteSet(strange) /\ IsFiniteSet(tagged) /\ IsFiniteSet(left)
  <2>1. strange \subseteq 1..(N + 1) /\ tagged \subseteq 1..N /\ left \subseteq 1..N
    BY <1>1, <1>2
  <2> HIDE DEF strange, tagged, left, N
  <2>2. QED
    BY <2>1, <1>3, FS_Subset
<1>5. Inferred(u.tags) \in BOOLEAN /\ (~ Inferred(u.tags) => (tagged = {} /\ left = {} <=> mask = mine))
  BY <1>1, <1>2 DEF Blamed, Inferred
<1> HIDE DEF strange, tagged, left, mask, mine, N
<1>6. /\ Cardinality(strange) \in Nat /\ (Cardinality(strange) = 0 <=> strange = {})
      /\ Cardinality(tagged) \in Nat /\ (Cardinality(tagged) = 0 <=> tagged = {})
      /\ Cardinality(left) \in Nat /\ (Cardinality(left) = 0 <=> left = {})
  BY <1>4, NoneCounts
<1> DEFINE W == Wrong(u)
<1>7. /\ W.untagged = (IF Inferred(u.tags) THEN 1 ELSE 0) /\ W.unknown_tags = Cardinality(strange)
      /\ W.tag_false_positive = Cardinality(tagged) /\ W.tag_missing = Cardinality(left)
      /\ W.vote_flag_mismatch = (IF u.is_vote # Seen(u).vote THEN 1 ELSE 0)
      /\ W.duplicates = (IF Samples(Seen(u)) /\ Seen(u).sig \in DOMAIN sampled THEN 1 ELSE 0)
      /\ W = [c \in {"untagged", "unknown_tags", "tag_false_positive", "tag_missing",
                     "vote_flag_mismatch", "duplicates"} |-> W[c]]
  BY DEF Wrong, strange, tagged, left, mask, mine
<1> HIDE DEF W
<1>8. \A c \in Faults : W[c] \in Nat
  BY <1>6, <1>7 DEF Faults
<1>9. (\A c \in Faults : W[c] = 0) <=>
          /\ ~ Inferred(u.tags) /\ strange = {} /\ tagged = {} /\ left = {}
          /\ u.is_vote = Seen(u).vote
          /\ ~ (Samples(Seen(u)) /\ Seen(u).sig \in DOMAIN sampled)
  BY <1>6, <1>7 DEF Faults
<1>10. TaggedRight(u) <=> ~ Inferred(u.tags) /\ strange = {} /\ mask = mine /\ u.is_vote = Seen(u).vote
  BY DEF TaggedRight, strange, mask, mine
<1>11. QED
  BY <1>5, <1>7, <1>8, <1>9, <1>10 DEF W, Faults

LEMMA WindowCounts ==
  ASSUME TagsTyped
  PROVE  /\ audit_window.bundle \in Bundles /\ \A c \in Faults : audit_window[c] \in Nat
         /\ DOMAIN audit_window \ {"bundle"} = Faults
BY DEF TagsTyped, WindowRecord, Faults

LEMMA UpdateCounts ==
  ASSUME TagsTyped, NEW tx \in Transactions, NEW tags \in SUBSET (1..Len(Filters) + 1),
         NEW is_vote \in BOOLEAN, OnUpdate(tx, tags, is_vote)
  PROVE  LET u == [tx |-> tx, tags |-> tags, is_vote |-> is_vote] IN
         /\ u \in Update
         /\ audit_window' \in WindowRecord /\ audit_window'.bundle = audit_window.bundle
         /\ \A c \in Faults : audit_window'[c] = audit_window[c] + Wrong(u)[c]
<1> DEFINE u == [tx |-> tx, tags |-> tags, is_vote |-> is_vote]
           W == Wrong(u)
<1>1. u \in Update
  BY DEF Update
<1>2. audit_window \in WindowRecord /\ W \in [{"untagged", "unknown_tags", "tag_false_positive", "tag_missing",
                            "vote_flag_mismatch", "duplicates"} -> Nat]
  BY <1>1, WrongIs DEF TagsTyped
<1>3. audit_window' =
         [audit_window EXCEPT
           !.untagged = @ + W.untagged, !.unknown_tags = @ + W.unknown_tags,
           !.tag_false_positive = @ + W.tag_false_positive, !.tag_missing = @ + W.tag_missing,
           !.vote_flag_mismatch = @ + W.vote_flag_mismatch, !.duplicates = @ + W.duplicates]
  BY DEF OnUpdate, Wrong, Blamed, Seen
<1>4. audit_window' =
         [bundle |-> audit_window.bundle,
          untagged |-> audit_window.untagged + W.untagged,
          unknown_tags |-> audit_window.unknown_tags + W.unknown_tags,
          tag_false_positive |-> audit_window.tag_false_positive + W.tag_false_positive,
          tag_missing |-> audit_window.tag_missing + W.tag_missing,
          vote_flag_mismatch |-> audit_window.vote_flag_mismatch + W.vote_flag_mismatch,
          duplicates |-> audit_window.duplicates + W.duplicates]
  <2> HIDE DEF W
  <2>1. QED
    BY <1>2, <1>3 DEF WindowRecord
<1>5. \A c \in Faults : audit_window[c] \in Nat /\ W[c] \in Nat
  <2> HIDE DEF W
  <2>1. QED
    BY <1>2 DEF Faults, WindowRecord
<1>6. audit_window.bundle \in Bundles
  BY <1>2 DEF WindowRecord
<1>7. audit_window' \in WindowRecord
  <2>1. \A c \in Faults : audit_window[c] + W[c] \in Nat
    <3> HIDE DEF W
    <3>1. QED
      BY <1>5
  <2> HIDE DEF W
  <2>2. QED
    BY <1>4, <1>6, <2>1 DEF WindowRecord, Faults
<1>8. audit_window'.bundle = audit_window.bundle /\ \A c \in Faults : audit_window'[c] = audit_window[c] + W[c]
  <2> HIDE DEF W
  <2>1. QED
    BY <1>4 DEF Faults
<1>9. QED
  BY <1>1, <1>7, <1>8

\* Which filters accept a transaction depends on the bundle alone.
LEMMA JudgementStays ==
  ASSUME UNCHANGED <<source_mode, skip_votes>>, audit_window'.bundle = audit_window.bundle
  PROVE  /\ Filters' = Filters /\ (FitsDeshred(audit_window.bundle))' = FitsDeshred(audit_window.bundle)
         /\ \A view : Samples(view)' <=> Samples(view)
         /\ \A view : Local(view)' = Local(view)
         /\ \A tags, view : Mask(tags, view)' = Mask(tags, view)
         /\ \A u : Seen(u)' = Seen(u)
         /\ \A u : TaggedRight(u)' <=> TaggedRight(u)
<1>1. Filters' = Filters
  BY DEF Filters
<1>2. \A view : Samples(view)' <=> Samples(view)
  BY DEF Samples
<1>3. \A view : Local(view)' = Local(view)
  BY <1>1 DEF Local
<1>4. \A tags : Inferred(tags)' <=> Inferred(tags)
  BY <1>1 DEF Inferred
<1>5. \A tags, view : Mask(tags, view)' = Mask(tags, view)
  BY <1>1, <1>3, <1>4 DEF Mask
<1>6. \A u : Seen(u)' = Seen(u)
  BY DEF Seen
<1>7. \A u : TaggedRight(u)' <=> TaggedRight(u)
  <2> SUFFICES ASSUME NEW u PROVE TaggedRight(u)' <=> TaggedRight(u)
    OBVIOUS
  <2>1. Mask(u.tags, Seen(u))' = Mask(u.tags, Seen(u)) /\ Local(Seen(u))' = Local(Seen(u))
    BY <1>3, <1>5, <1>6
  <2>2. QED
    BY <1>1, <1>4, <1>6, <2>1 DEF TaggedRight
<1>8. QED
  BY <1>1, <1>2, <1>3, <1>5, <1>6, <1>7 DEF FitsDeshred

\* The history of updates grows by one, which is judged by what is there.
LEMMA UpdateStep ==
  ASSUME TagsInv, NEW tx \in Transactions, NEW tags \in SUBSET (1..Len(Filters) + 1),
         NEW is_vote \in BOOLEAN, OnUpdate(tx, tags, is_vote)
  PROVE  TagsInv'
<1> DEFINE u == [tx |-> tx, tags |-> tags, is_vote |-> is_vote]
<1>0. PICK N : N = Len(updates)
  OBVIOUS
<1>1. TagsTyped /\ SampledTrue /\ verdict = NoBlock /\ verdict' = NoBlock
  BY DEF TagsInv, OnUpdate
<1>2. /\ u \in Update /\ audit_window' \in WindowRecord /\ audit_window'.bundle = audit_window.bundle
      /\ \A c \in Faults : audit_window'[c] = audit_window[c] + Wrong(u)[c]
  BY <1>1, UpdateCounts
<1>3. UNCHANGED <<source_mode, skip_votes, block>> /\ updates' = Append(updates, u)
  BY DEF OnUpdate
<1>4. /\ updates \in Seq(Update) /\ updates' \in Seq(Update) /\ N \in Nat /\ Len(updates') = N + 1
      /\ DOMAIN updates = 1..N /\ DOMAIN updates' = DOMAIN updates \cup {N + 1} /\ N + 1 \notin DOMAIN updates
      /\ updates'[N + 1] = u /\ \A n \in DOMAIN updates : updates'[n] = updates[n] /\ updates[n] \in Update
  <2>1. updates \in Seq(Update) /\ N \in Nat /\ DOMAIN updates = 1..N
    BY <1>0, <1>1 DEF TagsTyped
  <2> HIDE DEF u
  <2>2. QED
    BY <1>0, <1>2, <1>3, <2>1
<1>5. /\ \A view : Samples(view)' <=> Samples(view)
      /\ \A view : Local(view)' = Local(view)
      /\ \A t, view : Mask(t, view)' = Mask(t, view)
      /\ \A x : Seen(x)' = Seen(x)
      /\ \A x : TaggedRight(x)' <=> TaggedRight(x)
      /\ Filters' = Filters /\ (FitsDeshred(audit_window.bundle))' = FitsDeshred(audit_window.bundle)
  BY <1>2, <1>3, JudgementStays
<1>6. TagsTyped'
  <2>1. /\ source_mode \in [deshred : BOOLEAN] /\ skip_votes \in BOOLEAN
        /\ block \in (SUBSET Transactions) \cup {NoBlock}
        /\ source_mode.deshred => FitsDeshred(audit_window.bundle)
    BY <1>1 DEF TagsTyped
  <2>2. source_mode'.deshred => FitsDeshred(audit_window'.bundle)
    BY <1>2, <1>3, <2>1
  <2> HIDE DEF u
  <2>3. /\ source_mode' \in [deshred : BOOLEAN] /\ skip_votes' \in BOOLEAN
        /\ block' \in (SUBSET Transactions) \cup {NoBlock}
    BY <1>3, <2>1
  <2>4. audit_window' \in WindowRecord /\ updates' \in Seq(Update)
    BY <1>2, <1>4
  <2>5. Update' = Update
    BY <1>5 DEF Update
  <2>6. QED
    BY <2>2, <2>3, <2>4, <2>5 DEF TagsTyped
<1>7. /\ Seen(u).sig = tx.sig /\ Seen(u) = View(tx, ~ source_mode.deshred)
      /\ Wrong(u) \in [{"untagged", "unknown_tags", "tag_false_positive", "tag_missing",
                            "vote_flag_mismatch", "duplicates"} -> Nat]
      /\ (\A c \in Faults : Wrong(u)[c] = 0) <=>
                TaggedRight(u) /\ ~ (Samples(Seen(u)) /\ tx.sig \in DOMAIN sampled)
  <2>1. Seen(u).sig = tx.sig /\ Seen(u) = View(tx, ~ source_mode.deshred)
    BY DEF Seen, View
  <2>2. QED
    BY <1>1, <1>2, <2>1, WrongIs
<1>8. sampled' = IF ~ Samples(Seen(u)) THEN sampled
                 ELSE [s \in DOMAIN sampled \cup {tx.sig} |-> IF s = tx.sig THEN Mask(tags, Seen(u)) ELSE sampled[s]]
  BY <1>7 DEF OnUpdate
<1> HIDE DEF u
<1>u. u.tx = tx /\ u.tags = tags
  BY DEF u
<1>9. \A n \in DOMAIN updates' :
          /\ (Samples(Seen(updates[n])))' <=> Samples(Seen(updates'[n]))
          /\ (Mask(updates[n].tags, Seen(updates[n])))' = Mask(updates'[n].tags, Seen(updates'[n]))
          /\ (TaggedRight(updates[n]))' <=> TaggedRight(updates'[n])
  BY <1>5
<1>10. SampledTrue'
  <2>1. \A s \in DOMAIN sampled' : \E n \in DOMAIN updates' :
            /\ Samples(Seen(updates'[n])) /\ updates'[n].tx.sig = s
            /\ sampled'[s] = Mask(updates'[n].tags, Seen(updates'[n]))
    <3> SUFFICES ASSUME NEW s \in DOMAIN sampled'
                 PROVE  \E n \in DOMAIN updates' :
                            /\ Samples(Seen(updates'[n])) /\ updates'[n].tx.sig = s
                            /\ sampled'[s] = Mask(updates'[n].tags, Seen(updates'[n]))
      OBVIOUS
    <3>1. CASE Samples(Seen(u)) /\ s = tx.sig
      <4>1. sampled'[s] = Mask(u.tags, Seen(u))
        BY <1>8, <1>u, <3>1
      <4>2. QED
        BY <1>4, <1>u, <3>1, <4>1
    <3>2. CASE ~ (Samples(Seen(u)) /\ s = tx.sig)
      <4>1. s \in DOMAIN sampled /\ sampled'[s] = sampled[s]
        BY <1>8, <3>2
      <4>2. PICK n \in DOMAIN updates :
                /\ Samples(Seen(updates[n])) /\ updates[n].tx.sig = s
                /\ sampled[s] = Mask(updates[n].tags, Seen(updates[n]))
        BY <1>1, <4>1 DEF SampledTrue
      <4>3. n \in DOMAIN updates' /\ updates'[n] = updates[n]
        BY <1>4
      <4>4. QED
        BY <4>1, <4>2, <4>3
    <3>3. QED
      BY <3>1, <3>2
  <2>2. \A n \in DOMAIN updates' : Samples(Seen(updates'[n])) => updates'[n].tx.sig \in DOMAIN sampled'
    <3> SUFFICES ASSUME NEW n \in DOMAIN updates', Samples(Seen(updates'[n]))
                 PROVE  updates'[n].tx.sig \in DOMAIN sampled'
      OBVIOUS
    <3>1. CASE n \in DOMAIN updates
      <4>1. updates[n].tx.sig \in DOMAIN sampled /\ updates'[n] = updates[n]
        BY <1>1, <1>4, <3>1 DEF SampledTrue
      <4>2. DOMAIN sampled \subseteq DOMAIN sampled'
        BY <1>8
      <4>3. QED
        BY <4>1, <4>2
    <3>2. CASE n = N + 1
      BY <1>4, <1>8, <1>u, <3>2
    <3>3. QED
      BY <1>4, <3>1, <3>2
  <2>3. QED
    BY <1>9, <2>1, <2>2 DEF SampledTrue
<1>11. NothingCounted' <=> NothingCounted /\ \A c \in Faults : Wrong(u)[c] = 0
  <2>1. \A c \in Faults : audit_window[c] \in Nat /\ Wrong(u)[c] \in Nat
    BY <1>1, <1>7, WindowCounts DEF Faults
  <2>2. DOMAIN audit_window \ {"bundle"} = Faults /\ DOMAIN audit_window' \ {"bundle"} = Faults
    BY <1>1, <1>2, WindowCounts DEF WindowRecord, Faults
  <2>3. \A c \in Faults : audit_window'[c] = 0 <=> audit_window[c] = 0 /\ Wrong(u)[c] = 0
    BY <1>2, <2>1
  <2>4. QED
    BY <2>2, <2>3 DEF NothingCounted
<1>12. AllTaggedRight' <=> AllTaggedRight /\ TaggedRight(u)
  <2>1. AllTaggedRight' <=> \A n \in DOMAIN updates' : TaggedRight(updates'[n])
    BY <1>9 DEF AllTaggedRight
  <2>2. (\A n \in DOMAIN updates' : TaggedRight(updates'[n])) <=>
            (\A n \in DOMAIN updates : TaggedRight(updates[n])) /\ TaggedRight(u)
    BY <1>4
  <2>3. QED
    BY <2>1, <2>2 DEF AllTaggedRight
<1>13. SampledOnce' <=> SampledOnce /\ ~ (Samples(Seen(u)) /\ tx.sig \in DOMAIN sampled)
  <2>1. SampledOnce' <=>
            \A m, n \in DOMAIN updates' :
                Samples(Seen(updates'[m])) /\ Samples(Seen(updates'[n])) /\ updates'[m].tx.sig = updates'[n].tx.sig => m = n
    BY <1>9 DEF SampledOnce
  <2>2. tx.sig \in DOMAIN sampled <=>
            \E n \in DOMAIN updates : Samples(Seen(updates[n])) /\ updates[n].tx.sig = tx.sig
    BY <1>1 DEF SampledTrue
  <2>3. (\A m, n \in DOMAIN updates' :
             Samples(Seen(updates'[m])) /\ Samples(Seen(updates'[n])) /\ updates'[m].tx.sig = updates'[n].tx.sig => m = n)
        <=> /\ SampledOnce
            /\ ~ (Samples(Seen(u)) /\ \E n \in DOMAIN updates : Samples(Seen(updates[n])) /\ updates[n].tx.sig = tx.sig)
    BY <1>4, <1>u DEF SampledOnce
  <2>4. QED
    BY <2>1, <2>2, <2>3
<1>14. QED
  BY <1>1, <1>6, <1>7, <1>10, <1>11, <1>12, <1>13 DEF TagsInv

\* What the window has counted, and what the check counts, in terms of the transactions.
Unskipped(tx) == ~ (skip_votes /\ IsSimpleVote(tx))
SentAs(tx) == {n \in DOMAIN updates : updates[n].tx = tx}
DueNow(tx) == block # NoBlock /\ tx \in block /\ AcceptedBy(tx) # {}
NothingFound ==
    \A i \in DOMAIN Filters :
        Totals(i).missed = 0 /\ Totals(i).extra_in_block = 0 /\ Totals(i).extra_not_in_block = 0

LEMMA SampledAre ==
  ASSUME TagsTyped, SampledTrue, AllTaggedRight, NEW tx \in Transactions
  PROVE  /\ tx.sig \in DOMAIN sampled <=> Unskipped(tx) /\ SentAs(tx) # {}
         /\ tx.sig \in DOMAIN sampled => sampled[tx.sig] = AcceptedBy(tx) /\ AcceptedBy(tx) # {}
<1>1. \A n \in DOMAIN updates : updates[n] \in Update /\ TaggedRight(updates[n])
  BY DEF TagsTyped, AllTaggedRight
<1>2. \A n \in DOMAIN updates :
          /\ updates[n].tx \in Transactions /\ (Samples(Seen(updates[n])) <=> Unskipped(updates[n].tx))
          /\ Mask(updates[n].tags, Seen(updates[n])) = AcceptedBy(updates[n].tx) /\ AcceptedBy(updates[n].tx) # {}
  BY <1>1, UpdateFacts, TaggedIsPromised DEF Unskipped
<1>3. \A n \in DOMAIN updates : updates[n].tx.sig = tx.sig <=> updates[n].tx = tx
  BY <1>2, FilterTagsAssumption
<1>4. QED
  BY <1>2, <1>3 DEF SampledTrue, SentAs

\* Every signature sampled is one of a transaction.
LEMMA SampledSigs ==
  ASSUME TagsTyped, SampledTrue, NEW s \in DOMAIN sampled
  PROVE  \E tx \in Transactions : tx.sig = s
<1>1. PICK n \in DOMAIN updates : updates[n].tx.sig = s
  BY DEF SampledTrue
<1>2. updates[n] \in Update
  BY DEF TagsTyped
<1>3. QED
  BY <1>1, <1>2, UpdateFacts

LEMMA ViewsAre ==
  ASSUME TagsTyped, block # NoBlock
  PROVE  /\ IsFiniteSet(BlockViews)
         /\ \A tx \in Transactions : tx \in block /\ Unskipped(tx) => View(tx, TRUE) \in BlockViews
         /\ \A v \in BlockViews : \E tx \in Transactions :
                /\ tx \in block /\ Unskipped(tx) /\ v = View(tx, TRUE) /\ v.sig = tx.sig
                /\ \A i \in DOMAIN Filters : Matches(Filters[i], v) <=> i \in AcceptedBy(tx)
<1> DEFINE B == {t \in block : skip_votes => ~ IsSimpleVote(t)}
           f == [t \in B |-> View(t, TRUE)]
<1>1. block \in SUBSET Transactions /\ IsFiniteSet(B)
  <2>1. block \in SUBSET Transactions /\ B \subseteq Transactions
    BY DEF TagsTyped
  <2>2. QED
    BY <2>1, FS_Subset, FilterTagsAssumption
<1>2. BlockViews = Range(f)
  BY DEF BlockViews, Range
<1>3. IsFiniteSet(Range(f))
  BY <1>1, ImageFinite
<1>4. \A tx \in Transactions : tx \in block /\ Unskipped(tx) => View(tx, TRUE) \in BlockViews
  BY DEF BlockViews, Unskipped
<1>5. ASSUME NEW v \in BlockViews
      PROVE  \E tx \in Transactions :
                /\ tx \in block /\ Unskipped(tx) /\ v = View(tx, TRUE) /\ v.sig = tx.sig
                /\ \A i \in DOMAIN Filters : Matches(Filters[i], v) <=> i \in AcceptedBy(tx)
  <2>1. PICK tx \in block : v = View(tx, TRUE) /\ Unskipped(tx)
    BY <1>5 DEF BlockViews, Unskipped
  <2>2. tx \in Transactions /\ v.sig = tx.sig
    BY <1>1, <2>1 DEF View
  <2>3. \A i \in DOMAIN Filters : Matches(Filters[i], View(tx, TRUE)) <=> Accepts(Filters[i], tx)
    BY <2>2, MatchesIs
  <2>4. QED
    BY <2>1, <2>2, <2>3 DEF AcceptedBy
<1>6. QED
  BY <1>2, <1>3, <1>4, <1>5

LEMMA SampledFinite ==
  ASSUME TagsTyped, SampledTrue
  PROVE  IsFiniteSet(DOMAIN sampled)
<1> DEFINE f == [tx \in Transactions |-> tx.sig]
<1>1. IsFiniteSet(Range(f))
  BY ImageFinite, FilterTagsAssumption
<1>2. DOMAIN sampled \subseteq Range(f)
  BY SampledSigs DEF Range
<1>3. QED
  BY <1>1, <1>2, FS_Subset

\* Given right tags, the check finds nothing exactly if what was sampled is what was due.
LEMMA FoundNothing ==
  ASSUME TagsTyped, SampledTrue, AllTaggedRight
  PROVE  NothingFound <=> \A tx \in Transactions : Unskipped(tx) => (SentAs(tx) # {} <=> DueNow(tx))
<1> DEFINE Expect == \A tx \in Transactions : Unskipped(tx) => (SentAs(tx) # {} <=> DueNow(tx))
           delivered(i) == {s \in DOMAIN sampled : i \in sampled[s]}
           rejected(i) == {v \in BlockViews : v.sig \in delivered(i) /\ ~ Matches(Filters[i], v)}
           listed == {v.sig : v \in BlockViews}
<1>1. \A tx \in Transactions :
          /\ tx.sig \in DOMAIN sampled <=> Unskipped(tx) /\ SentAs(tx) # {}
          /\ tx.sig \in DOMAIN sampled => sampled[tx.sig] = AcceptedBy(tx) /\ AcceptedBy(tx) # {}
  BY SampledAre
<1>2. \A s \in DOMAIN sampled : \E tx \in Transactions : tx.sig = s
  BY SampledSigs
<1>3. \A tx : AcceptedBy(tx) \subseteq DOMAIN Filters
  BY DEF AcceptedBy
<1>4. IsFiniteSet(DOMAIN sampled)
  BY SampledFinite
<1>5. \A i : IsFiniteSet(delivered(i)) /\ IsFiniteSet(delivered(i) \ listed)
  <2> SUFFICES ASSUME NEW i PROVE IsFiniteSet(delivered(i)) /\ IsFiniteSet(delivered(i) \ listed)
    OBVIOUS
  <2>1. delivered(i) \subseteq DOMAIN sampled /\ delivered(i) \ listed \subseteq DOMAIN sampled
    OBVIOUS
  <2>2. QED
    BY <1>4, <2>1, FS_Subset
<1>6. CASE block = NoBlock
  <2>1. \A i : Totals(i) = [expected |-> 0, matched |-> 0, missed |-> 0, extra_in_block |-> 0,
                            extra_not_in_block |-> Cardinality(delivered(i))]
    BY <1>6 DEF Totals
  <2>2. \A i : Cardinality(delivered(i)) = 0 <=> delivered(i) = {}
    BY <1>5, NoneCounts
  <2>3. NothingFound <=> \A i \in DOMAIN Filters : delivered(i) = {}
    BY <2>1, <2>2 DEF NothingFound
  <2>4. (\A i \in DOMAIN Filters : delivered(i) = {}) <=> DOMAIN sampled = {}
    <3>1. \A s \in DOMAIN sampled : \E i \in DOMAIN Filters : i \in sampled[s]
      BY <1>1, <1>2, <1>3
    <3>2. QED
      BY <3>1
  <2>5. DOMAIN sampled = {} <=> Expect
    BY <1>1, <1>2, <1>6 DEF DueNow
  <2>6. QED
    BY <2>3, <2>4, <2>5
<1>7. CASE block # NoBlock
  <2>1. /\ IsFiniteSet(BlockViews)
        /\ \A tx \in Transactions : tx \in block /\ Unskipped(tx) => View(tx, TRUE) \in BlockViews
        /\ \A v \in BlockViews : \E tx \in Transactions :
                /\ tx \in block /\ Unskipped(tx) /\ v = View(tx, TRUE) /\ v.sig = tx.sig
                /\ \A i \in DOMAIN Filters : Matches(Filters[i], v) <=> i \in AcceptedBy(tx)
    BY <1>7, ViewsAre
  <2>2. \A i : /\ Totals(i).missed = Cardinality(Missed(i))
               /\ Totals(i).extra_in_block = Cardinality(rejected(i))
               /\ Totals(i).extra_not_in_block = Cardinality(delivered(i) \ listed)
    BY <1>7 DEF Totals
  <2>3. \A i : IsFiniteSet(Missed(i)) /\ IsFiniteSet(rejected(i))
    <3> SUFFICES ASSUME NEW i PROVE IsFiniteSet(Missed(i)) /\ IsFiniteSet(rejected(i))
      OBVIOUS
    <3>1. Missed(i) \subseteq BlockViews /\ rejected(i) \subseteq BlockViews
      BY DEF Missed
    <3>2. QED
      BY <2>1, <3>1, FS_Subset
  <2>4. \A i \in DOMAIN Filters : rejected(i) = {}
    BY <1>1, <2>1
  <2>5. \A i \in DOMAIN Filters :
            Missed(i) = {} <=> \A tx \in Transactions :
                tx \in block /\ Unskipped(tx) /\ i \in AcceptedBy(tx) => tx.sig \in DOMAIN sampled
    <3> SUFFICES ASSUME NEW i \in DOMAIN Filters
                 PROVE  Missed(i) = {} <=> \A tx \in Transactions :
                            tx \in block /\ Unskipped(tx) /\ i \in AcceptedBy(tx) => tx.sig \in DOMAIN sampled
      OBVIOUS
    <3>1. ASSUME NEW v \in BlockViews, NEW tx \in Transactions, v = View(tx, TRUE)
          PROVE  v.sig = tx.sig /\ (Matches(Filters[i], v) <=> i \in AcceptedBy(tx))
      BY <3>1, MatchesIs DEF View, AcceptedBy
    <3>2. ASSUME Missed(i) = {}, NEW tx \in Transactions, tx \in block, Unskipped(tx), i \in AcceptedBy(tx)
          PROVE  tx.sig \in DOMAIN sampled
      <4>1. View(tx, TRUE) \in BlockViews /\ View(tx, TRUE) \notin Missed(i)
        BY <2>1, <3>2
      <4>2. QED
        BY <3>1, <3>2, <4>1 DEF Missed
    <3>3. ASSUME NEW v \in Missed(i)
          PROVE  \E tx \in Transactions :
                     tx \in block /\ Unskipped(tx) /\ i \in AcceptedBy(tx) /\ tx.sig \notin DOMAIN sampled
      <4>1. v \in BlockViews /\ Matches(Filters[i], v) /\ ~ (v.sig \in DOMAIN sampled /\ i \in sampled[v.sig])
        BY <3>3 DEF Missed
      <4>2. PICK tx \in Transactions :
                /\ tx \in block /\ Unskipped(tx) /\ v = View(tx, TRUE) /\ v.sig = tx.sig
                /\ i \in AcceptedBy(tx)
        BY <2>1, <4>1
      <4>3. QED
        BY <1>1, <4>1, <4>2
    <3>4. QED
      BY <3>2, <3>3
  <2>6. \A i \in DOMAIN Filters :
            delivered(i) \ listed = {} <=> \A tx \in Transactions :
                tx.sig \in DOMAIN sampled /\ i \in AcceptedBy(tx) => tx \in block
    <3> SUFFICES ASSUME NEW i \in DOMAIN Filters
                 PROVE  delivered(i) \ listed = {} <=> \A tx \in Transactions :
                            tx.sig \in DOMAIN sampled /\ i \in AcceptedBy(tx) => tx \in block
      OBVIOUS
    <3>1. \A tx \in Transactions : Unskipped(tx) => (tx.sig \in listed <=> tx \in block)
      <4> SUFFICES ASSUME NEW tx \in Transactions, Unskipped(tx)
                   PROVE  tx.sig \in listed <=> tx \in block
        OBVIOUS
      <4>1. tx \in block => tx.sig \in listed
        BY <2>1 DEF View
      <4>2. ASSUME tx.sig \in listed PROVE tx \in block
        <5>1. PICK v \in BlockViews : v.sig = tx.sig
          BY <4>2
        <5>2. PICK t \in Transactions : t \in block /\ v.sig = t.sig
          BY <2>1, <5>1
        <5>3. QED
          BY <5>1, <5>2, FilterTagsAssumption
      <4>3. QED
        BY <4>1, <4>2
    <3> HIDE DEF listed
    <3>2. \A tx \in Transactions : tx.sig \in delivered(i) <=> tx.sig \in DOMAIN sampled /\ i \in AcceptedBy(tx)
      BY <1>1
    <3>3. \A s \in delivered(i) : \E tx \in Transactions : tx.sig = s
      BY <1>2
    <3>4. \A tx \in Transactions : tx.sig \in DOMAIN sampled => Unskipped(tx)
      BY <1>1
    <3> HIDE DEF delivered
    <3>5. QED
      BY <3>1, <3>2, <3>3, <3>4
  <2>7. NothingFound <=> \A i \in DOMAIN Filters : Missed(i) = {} /\ delivered(i) \ listed = {}
    <3>1. \A i \in DOMAIN Filters :
              /\ Cardinality(Missed(i)) = 0 <=> Missed(i) = {}
              /\ Cardinality(rejected(i)) = 0
              /\ Cardinality(delivered(i) \ listed) = 0 <=> delivered(i) \ listed = {}
      BY <1>5, <2>3, <2>4, NoneCounts
    <3> HIDE DEF delivered, rejected, listed
    <3>2. QED
      BY <2>2, <3>1 DEF NothingFound
  <2>8. Expect <=>
            /\ \A tx \in Transactions : tx \in block /\ Unskipped(tx) /\ AcceptedBy(tx) # {} => tx.sig \in DOMAIN sampled
            /\ \A tx \in Transactions : tx.sig \in DOMAIN sampled => tx \in block
    BY <1>1, <1>7 DEF DueNow
  <2> HIDE DEF delivered, rejected, listed, Expect
  <2>9. (\A i \in DOMAIN Filters : Missed(i) = {}) <=>
            \A tx \in Transactions : tx \in block /\ Unskipped(tx) /\ AcceptedBy(tx) # {} => tx.sig \in DOMAIN sampled
    BY <1>3, <2>5
  <2>10. (\A i \in DOMAIN Filters : delivered(i) \ listed = {}) <=>
            \A tx \in Transactions : tx.sig \in DOMAIN sampled => tx \in block
    BY <1>1, <1>3, <2>6
  <2>11. NothingFound <=> Expect
    BY <2>7, <2>8, <2>9, <2>10
  <2>12. QED
    BY <2>11 DEF Expect
<1>8. QED
  BY <1>6, <1>7

\* With right tags, every unskipped transaction was sent at most once exactly if no delivery of one repeats another.
LEMMA SentOnce ==
  ASSUME TagsTyped
  PROVE  SampledOnce <=> \A tx \in Transactions : Unskipped(tx) => \A m, n \in SentAs(tx) : m = n
<1>1. \A n \in DOMAIN updates :
          updates[n].tx \in Transactions /\ (Samples(Seen(updates[n])) <=> Unskipped(updates[n].tx))
  <2> SUFFICES ASSUME NEW n \in DOMAIN updates
               PROVE  updates[n].tx \in Transactions /\ (Samples(Seen(updates[n])) <=> Unskipped(updates[n].tx))
    OBVIOUS
  <2>1. updates[n] \in Update
    BY DEF TagsTyped
  <2>2. QED
    BY <2>1, UpdateFacts DEF Unskipped
<1>2. \A m, n \in DOMAIN updates : updates[m].tx.sig = updates[n].tx.sig <=> updates[m].tx = updates[n].tx
  BY <1>1, FilterTagsAssumption
<1>3. QED
  BY <1>1, <1>2 DEF SampledOnce, SentAs

LEMMA AtMostOne ==
  ASSUME NEW S, IsFiniteSet(S)
  PROVE  Cardinality(S) = 1 <=> S # {} /\ \A m, n \in S : m = n
<1>1. ASSUME S # {}, \A m, n \in S : m = n PROVE Cardinality(S) = 1
  <2>1. PICK m : S = {m}
    BY <1>1
  <2>2. QED
    BY <2>1, FS_Singleton
<1>2. ASSUME Cardinality(S) = 1 PROVE S # {} /\ \A m, n \in S : m = n
  <2>1. \E m : S = {m}
    BY <1>2, FS_Singleton
  <2>2. QED
    BY <2>1
<1>3. QED
  BY <1>1, <1>2

LEMMA SentFinite ==
  ASSUME TagsTyped, NEW tx
  PROVE  IsFiniteSet(SentAs(tx))
<1>1. DOMAIN updates = 1..Len(updates) /\ Len(updates) \in Nat
  BY DEF TagsTyped
<1>2. SentAs(tx) \subseteq DOMAIN updates
  BY DEF SentAs
<1>3. IsFiniteSet(DOMAIN updates)
  BY <1>1, FS_Interval
<1>4. QED
  BY <1>2, <1>3, FS_Subset

LEMMA FaithfulIs ==
  ASSUME TagsTyped
  PROVE  Faithful <=>
             /\ \A n \in DOMAIN updates : PromisedUpdate(updates[n])
             /\ \A tx \in Transactions : Unskipped(tx) =>
                    /\ SentAs(tx) # {} <=> DueNow(tx)
                    /\ \A m, n \in SentAs(tx) : m = n
<1>1. Faithful <=>
          /\ \A n \in DOMAIN updates : PromisedUpdate(updates[n])
          /\ \A tx \in Transactions : Unskipped(tx) => Cardinality(SentAs(tx)) = IF DueNow(tx) THEN 1 ELSE 0
  BY DEF Faithful, PromisedUpdate, Unskipped, SentAs, DueNow
<1>2. ASSUME NEW tx \in Transactions
      PROVE  Cardinality(SentAs(tx)) = (IF DueNow(tx) THEN 1 ELSE 0) <=>
                    /\ SentAs(tx) # {} <=> DueNow(tx)
                    /\ \A m, n \in SentAs(tx) : m = n
  <2>1. Cardinality(SentAs(tx)) = 0 <=> SentAs(tx) = {}
    BY SentFinite, NoneCounts
  <2>2. Cardinality(SentAs(tx)) = 1 <=> SentAs(tx) # {} /\ \A m, n \in SentAs(tx) : m = n
    BY SentFinite, AtMostOne
  <2>3. CASE DueNow(tx)
    BY <2>2, <2>3
  <2>4. CASE ~ DueNow(tx)
    BY <2>1, <2>4
  <2>5. QED
    BY <2>3, <2>4
<1>3. QED
  BY <1>1, <1>2

LEMMA JudgedRight == TagsInv => ServerJudgedFairly
<1> SUFFICES ASSUME TagsInv, verdict # NoBlock
             PROVE  Clean <=> Faithful
  BY DEF ServerJudgedFairly
<1>1. TagsTyped /\ SampledTrue /\ (NothingCounted <=> AllTaggedRight /\ SampledOnce)
      /\ verdict = [i \in DOMAIN Filters |-> Totals(i)]
  BY DEF TagsInv
<1>2. Clean <=> NothingCounted /\ NothingFound
  <2>1. DOMAIN verdict = DOMAIN Filters /\ \A i \in DOMAIN Filters : verdict[i] = Totals(i)
    BY <1>1
  <2>2. QED
    BY <2>1 DEF Clean, NothingCounted, NothingFound
<1>3. AllTaggedRight <=> \A n \in DOMAIN updates : PromisedUpdate(updates[n])
  <2>1. \A n \in DOMAIN updates : updates[n] \in Update
    BY <1>1 DEF TagsTyped
  <2>2. \A n \in DOMAIN updates : TaggedRight(updates[n]) <=> PromisedUpdate(updates[n])
    BY <1>1, <2>1, TaggedIsPromised
  <2>3. QED
    BY <2>2 DEF AllTaggedRight
<1>4. AllTaggedRight =>
          (NothingFound <=> \A tx \in Transactions : Unskipped(tx) => (SentAs(tx) # {} <=> DueNow(tx)))
  BY <1>1, FoundNothing
<1>5. SampledOnce <=> \A tx \in Transactions : Unskipped(tx) => \A m, n \in SentAs(tx) : m = n
  BY <1>1, SentOnce
<1>6. QED
  BY <1>1, <1>2, <1>3, <1>4, <1>5, FaithfulIs

LEMMA TagsStart == TagsInit => TagsInv
<1> SUFFICES ASSUME TagsInit PROVE TagsInv
  OBVIOUS
<1>1. PICK b \in Bundles :
          /\ source_mode.deshred => FitsDeshred(b)
          /\ audit_window =
                  [bundle |-> b, untagged |-> 0, unknown_tags |-> 0, tag_false_positive |-> 0,
                   tag_missing |-> 0, vote_flag_mismatch |-> 0, duplicates |-> 0]
  BY DEF TagsInit
<1>2. sampled = <<>> /\ updates = <<>> /\ verdict = NoBlock /\ DOMAIN updates = {} /\ DOMAIN sampled = {}
  BY DEF TagsInit
<1>3. TagsTyped
  <2>1. audit_window \in WindowRecord /\ (source_mode.deshred => FitsDeshred(audit_window.bundle))
    BY <1>1 DEF WindowRecord
  <2>2. updates \in Seq(Update)
    BY <1>2
  <2>3. QED
    BY <2>1, <2>2 DEF TagsInit, TagsTyped
<1>4. SampledTrue /\ AllTaggedRight /\ SampledOnce
  BY <1>2 DEF SampledTrue, AllTaggedRight, SampledOnce
<1>5. NothingCounted
  BY <1>1 DEF NothingCounted
<1>6. QED
  BY <1>2, <1>3, <1>4, <1>5 DEF TagsInv

LEMMA TagsStep == TagsInv /\ [TagsNext]_tagsVars => TagsInv'
<1> SUFFICES ASSUME TagsInv, [TagsNext]_tagsVars PROVE TagsInv'
  OBVIOUS
<1>1. ASSUME NEW tx \in Transactions, NEW tags \in SUBSET (1..Len(Filters) + 1),
             OnUpdate(tx, tags, IsSimpleVote(tx)) \/ OnUpdate(tx, tags, ~ IsSimpleVote(tx))
      PROVE  TagsInv'
  <2>1. IsSimpleVote(tx) \in BOOLEAN /\ (~ IsSimpleVote(tx)) \in BOOLEAN
    BY DEF IsSimpleVote
  <2>2. PICK is_vote \in BOOLEAN : OnUpdate(tx, tags, is_vote)
    BY <1>1, <2>1
  <2>3. QED
    BY <2>2, UpdateStep
<1>2. ASSUME UNCHANGED <<source_mode, skip_votes, block, audit_window, sampled, updates>>,
             verdict' = verdict \/ verdict' = [i \in DOMAIN Filters |-> Totals(i)]
      PROVE  TagsInv'
  <2>1. /\ Filters' = Filters /\ \A u : TaggedRight(u)' <=> TaggedRight(u)
        /\ \A view : Samples(view)' <=> Samples(view)
        /\ \A tags, view : Mask(tags, view)' = Mask(tags, view)
        /\ \A u : Seen(u)' = Seen(u)
    BY <1>2, JudgementStays
  <2>2. TagsTyped'
    BY <1>2, <2>1 DEF TagsInv, TagsTyped, Update
  <2>3. SampledTrue'
    BY <1>2, <2>1 DEF TagsInv, SampledTrue
  <2>4. NothingCounted' <=> NothingCounted
    BY <1>2 DEF NothingCounted
  <2>5. AllTaggedRight' <=> AllTaggedRight
    BY <1>2, <2>1 DEF AllTaggedRight
  <2>6. SampledOnce' <=> SampledOnce
    BY <1>2 DEF SampledOnce, Samples, Seen
  <2>7. BlockViews' = BlockViews
    BY <1>2 DEF BlockViews
  <2>8. \A i : Missed(i)' = Missed(i)
    BY <1>2, <2>1, <2>7 DEF Missed
  <2>9. \A i : Totals(i)' = Totals(i)
    BY <1>2, <2>1, <2>7, <2>8 DEF Totals
  <2>10. QED
    BY <1>2, <2>1, <2>2, <2>3, <2>4, <2>5, <2>6, <2>9 DEF TagsInv
<1>3. QED
  BY <1>1, <1>2 DEF TagsNext, CompareBlock, Judged, tagsVars

\* The judgement of a server is fair (on_delivery in filters/audit.rs, compare in
\* filters/check.rs): whatever it sends, with any tags, and whatever the block holds, the counters
\* of the window and the totals of the check are all clean if and only if it kept what the filters
\* of the bundle promise.
THEOREM JudgedFairly == TagsInit /\ [][TagsNext]_tagsVars => []ServerJudgedFairly
<1>1. TagsInv => ServerJudgedFairly
  BY JudgedRight
<1>2. QED
  BY TagsStart, TagsStep, <1>1, PTL

UpdatesBounded == Len(updates) <= MaxUpdates

\* A mask has only filters of the bundle.
LEMMA MaskWithin ==
  ASSUME TagsTyped, NEW tags, NEW view
  PROVE  Mask(tags, view) \subseteq DOMAIN Filters
<1>1. 1 \in DOMAIN Filters
  BY FiltersAre
<1>2. QED
  BY <1>1 DEF Mask, Local

\* Type correctness of the judgement (filters/audit.rs, filters/check.rs): a delivery is of filters
\* of the bundle, and the verdict is about each of them.
THEOREM TagsTypes == TagsInit /\ [][TagsNext]_tagsVars => []TagsTypeOK
<1>1. TagsInit => UpdatesBounded
  BY FilterTagsAssumption DEF TagsInit, UpdatesBounded
<1>2. TagsInv /\ UpdatesBounded /\ [TagsNext]_tagsVars => UpdatesBounded'
  <2> SUFFICES ASSUME TagsInv, UpdatesBounded, [TagsNext]_tagsVars PROVE UpdatesBounded'
    OBVIOUS
  <2>1. ASSUME NEW tx, NEW tags, NEW is_vote, OnUpdate(tx, tags, is_vote) PROVE UpdatesBounded'
    <3> DEFINE u == [tx |-> tx, tags |-> tags, is_vote |-> is_vote]
               w == updates
    <3>1. updates' = Append(w, u) /\ Len(w) < MaxUpdates /\ w \in Seq(Update)
      BY <2>1 DEF OnUpdate, TagsInv, TagsTyped
    <3> HIDE DEF u, w
    <3>2. w \in Seq(Update \cup {u})
      BY <3>1
    <3>3. Len(Append(w, u)) = Len(w) + 1 /\ Len(w) \in Nat
      BY ONLY <3>2
    <3>4. QED
      BY <3>1, <3>3, FilterTagsAssumption DEF UpdatesBounded
  <2>2. CASE CompareBlock \/ Judged \/ UNCHANGED tagsVars
    BY <2>2 DEF CompareBlock, Judged, tagsVars, UpdatesBounded
  <2>3. QED
    BY <2>1, <2>2 DEF TagsNext
<1>3. TagsInv /\ UpdatesBounded => TagsTypeOK
  <2> SUFFICES ASSUME TagsInv, UpdatesBounded PROVE TagsTypeOK
    OBVIOUS
  <2>1. audit_window.bundle \in Bundles
    BY FiltersAre DEF TagsInv
  <2>2. ASSUME NEW s \in DOMAIN sampled PROVE sampled[s] \subseteq DOMAIN Filters
    <3>1. PICK n \in DOMAIN updates : sampled[s] = Mask(updates[n].tags, Seen(updates[n]))
      BY DEF TagsInv, SampledTrue
    <3>2. QED
      BY <3>1, MaskWithin DEF TagsInv
  <2>3. verdict = NoBlock \/ DOMAIN verdict = DOMAIN Filters
    BY DEF TagsInv
  <2>4. QED
    BY <2>1, <2>2, <2>3 DEF TagsTypeOK, UpdatesBounded
<1>4. QED
  BY TagsStart, TagsStep, <1>1, <1>2, <1>3, PTL

-----------------------------------------------------------------------------
(* The database writer. *)

Ascends(s) == \A i, j \in DOMAIN s : i < j => s[i] < s[j]

\* What is in the queue was sent after what is in the batch or in the table, and what the batch has
\* and the table has not after what is in the table.
DbOrder ==
    /\ Ascends(db_queue) /\ Ascends(db_pending) /\ Ascends(db_table)
    /\ \A r \in ToSet(db_queue) : \A q \in ToSet(db_pending) \cup ToSet(db_table) : q < r
    /\ \A r \in ToSet(db_pending) \ ToSet(db_table) : \A q \in ToSet(db_table) : q < r

DbHeld == ToSet(db_queue) \cup ToSet(db_pending) \cup ToSet(db_table) = (1..db_sent) \ db_dropped

\* The channel is seen closed when nobody sends any more and nothing is left in it.
DbShutdown ==
    /\ SendersGone => db_checker = "exited"
    /\ db_closed => db_queue = <<>> /\ SendersGone

\* Without an outage no connection dies and no attempt to connect fails.
DbUndisturbed ==
    db_outages = 0 =>
        /\ db_up /\ db_client # "stale" /\ (db_client = "none" => ~ db_cooling)
        /\ db_writer = "done" => db_pending = <<>>

DbInv == DbTypeOK /\ DbOrder /\ DbHeld /\ DbShutdown /\ DbUndisturbed

LEMMA SeqSets ==
  ASSUME NEW R, NEW s \in Seq(R)
  PROVE  /\ DOMAIN s = 1..Len(s) /\ Len(s) \in Nat
         /\ ToSet(s) = {s[i] : i \in 1..Len(s)} /\ ToSet(s) \subseteq R
         /\ s = <<>> <=> ToSet(s) = {}
         /\ \A r : Contains(s, r) <=> r \in ToSet(s)
<1>1. DOMAIN s = 1..Len(s) /\ Len(s) \in Nat /\ \A i \in 1..Len(s) : s[i] \in R
  OBVIOUS
<1>2. ToSet(s) = {s[i] : i \in 1..Len(s)}
  BY <1>1 DEF ToSet
<1>3. s = <<>> <=> Len(s) = 0
  BY EmptySeq
<1>4. ToSet(s) = {} <=> Len(s) = 0
  <2>1. Len(s) # 0 => 1 \in 1..Len(s)
    BY <1>1
  <2>2. Len(s) = 0 => 1..Len(s) = {}
    BY <1>1
  <2>3. QED
    BY <1>2, <2>1, <2>2
<1>5. \A r : Contains(s, r) <=> r \in ToSet(s)
  BY <1>2 DEF Contains
<1>6. QED
  BY <1>1, <1>2, <1>3, <1>4, <1>5

LEMMA AppendSets ==
  ASSUME NEW s \in Seq(Int), NEW r \in Int
  PROVE  /\ Append(s, r) \in Seq(Int) /\ ToSet(Append(s, r)) = ToSet(s) \cup {r}
         /\ Ascends(s) /\ (\A q \in ToSet(s) : q < r) => Ascends(Append(s, r))
<1> DEFINE t == Append(s, r)
           N == Len(s)
<1>1. /\ t \in Seq(Int) /\ N \in Nat /\ Len(t) = N + 1 /\ DOMAIN s = 1..N /\ DOMAIN t = 1..(N + 1)
      /\ t[N + 1] = r /\ \A i \in 1..N : t[i] = s[i] /\ s[i] \in Int
  OBVIOUS
<1>2. ToSet(s) = {s[i] : i \in 1..N} /\ ToSet(t) = {t[i] : i \in 1..(N + 1)}
  BY <1>1 DEF ToSet
<1> HIDE DEF t, N
<1>3. ToSet(t) = ToSet(s) \cup {r}
  <2>1. 1..(N + 1) = (1..N) \cup {N + 1}
    BY <1>1
  <2>2. QED
    BY <1>1, <1>2, <2>1
<1>4. ASSUME Ascends(s), \A q \in ToSet(s) : q < r PROVE Ascends(t)
  <2> SUFFICES ASSUME NEW i \in 1..(N + 1), NEW j \in 1..(N + 1), i < j PROVE t[i] < t[j]
    BY <1>1 DEF Ascends
  <2>1. i \in 1..N /\ t[i] = s[i] /\ s[i] \in ToSet(s)
    BY <1>1, <1>2
  <2>2. CASE j = N + 1
    BY <1>1, <1>4, <2>1, <2>2
  <2>3. CASE j \in 1..N
    BY <1>1, <1>4, <2>1, <2>3 DEF Ascends
  <2>4. QED
    BY <1>1, <2>2, <2>3
<1>5. QED
  BY <1>1, <1>3, <1>4 DEF t

\* The head of an ascending sequence is below all of its tail.
LEMMA TailSets ==
  ASSUME NEW s \in Seq(Int), s # <<>>
  PROVE  /\ Head(s) \in Int /\ Tail(s) \in Seq(Int) /\ ToSet(s) = ToSet(Tail(s)) \cup {Head(s)}
         /\ Ascends(s) => Ascends(Tail(s)) /\ \A q \in ToSet(Tail(s)) : Head(s) < q
<1> DEFINE t == Tail(s)
           N == Len(s)
<1>1. /\ t \in Seq(Int) /\ N \in Nat /\ N > 0 /\ Len(t) = N - 1 /\ DOMAIN s = 1..N /\ DOMAIN t = 1..(N - 1)
      /\ Head(s) = s[1] /\ \A i \in 1..(N - 1) : t[i] = s[i + 1]
      /\ \A i \in 1..N : s[i] \in Int
  BY EmptySeq
<1>2. ToSet(s) = {s[i] : i \in 1..N} /\ ToSet(t) = {t[i] : i \in 1..(N - 1)}
  BY <1>1 DEF ToSet
<1> HIDE DEF t, N
<1>3. ToSet(s) = ToSet(t) \cup {s[1]}
  <2>1. ASSUME NEW x \in ToSet(s) PROVE x \in ToSet(t) \cup {s[1]}
    <3>1. PICK i \in 1..N : x = s[i]
      BY <1>2
    <3>2. CASE i = 1
      BY <3>1, <3>2
    <3>3. CASE i # 1
      <4>1. i - 1 \in 1..(N - 1) /\ t[i - 1] = s[(i - 1) + 1] /\ (i - 1) + 1 = i
        BY <1>1, <3>3
      <4>2. QED
        BY <1>2, <3>1, <4>1
    <3>4. QED
      BY <3>2, <3>3
  <2>2. ToSet(t) \subseteq ToSet(s) /\ s[1] \in ToSet(s)
    <3>1. \A i \in 1..(N - 1) : i + 1 \in 1..N
      BY <1>1
    <3>2. 1 \in 1..N
      BY <1>1
    <3>3. QED
      BY <1>1, <1>2, <3>1, <3>2
  <2>3. QED
    BY <2>1, <2>2
<1>4. ASSUME Ascends(s) PROVE Ascends(t) /\ \A q \in ToSet(t) : s[1] < q
  <2>1. \A i \in 1..(N - 1) : i + 1 \in 1..N /\ 1 \in 1..N /\ 1 < i + 1
    BY <1>1
  <2>2. \A i, j \in 1..(N - 1) : i < j => i + 1 < j + 1
    BY <1>1
  <2>3. Ascends(t)
    BY <1>1, <1>4, <2>1, <2>2 DEF Ascends
  <2>4. \A i \in 1..(N - 1) : s[1] < t[i]
    BY <1>1, <1>4, <2>1 DEF Ascends
  <2>5. QED
    BY <1>2, <2>3, <2>4
<1>5. 1 \in 1..N
  BY <1>1
<1>6. QED
  BY <1>1, <1>3, <1>4, <1>5 DEF t

\* A batch that ascends is inserted after what is there, in its order and without what is there.
LEMMA InsertIs ==
  ASSUME NEW rows \in Seq(Rows), db_table \in Seq(Rows), Ascends(rows), Ascends(db_table),
         \A r \in ToSet(rows) \ ToSet(db_table) : \A q \in ToSet(db_table) : q < r
  PROVE  /\ Insert(rows) \in Seq(Rows) /\ Ascends(Insert(rows))
         /\ ToSet(Insert(rows)) = ToSet(db_table) \cup ToSet(rows)
<1> DEFINE new == {i \in DOMAIN rows : ~ Contains(db_table, rows[i])}
           size == Cardinality(new)
           tail == [n \in 1..size |-> rows[Nth(new, n)]]
           N == Len(db_table)
           t == Insert(rows)
<1>1. /\ DOMAIN rows = 1..Len(rows) /\ Len(rows) \in Nat /\ DOMAIN db_table = 1..N /\ N \in Nat
      /\ ToSet(rows) = {rows[i] : i \in 1..Len(rows)} /\ ToSet(db_table) = {db_table[i] : i \in 1..N}
      /\ ToSet(rows) \subseteq Rows /\ ToSet(db_table) \subseteq Rows
      /\ \A r : Contains(db_table, r) <=> r \in ToSet(db_table)
      /\ Rows \subseteq Int
  <2>1. /\ DOMAIN rows = 1..Len(rows) /\ Len(rows) \in Nat
        /\ ToSet(rows) = {rows[i] : i \in 1..Len(rows)} /\ ToSet(rows) \subseteq Rows
    BY SeqSets
  <2>2. /\ DOMAIN db_table = 1..N /\ N \in Nat
        /\ ToSet(db_table) = {db_table[i] : i \in 1..N} /\ ToSet(db_table) \subseteq Rows
        /\ \A r : Contains(db_table, r) <=> r \in ToSet(db_table)
    BY SeqSets
  <2>3. Rows \subseteq Int
    BY DEF Rows
  <2>4. QED
    BY <2>1, <2>2, <2>3
<1>2. new \subseteq Int /\ new \subseteq DOMAIN rows /\ IsFiniteSet(new)
  <2>1. new \subseteq 1..Len(rows) /\ 1..Len(rows) \subseteq Int /\ DOMAIN rows = 1..Len(rows)
    BY <1>1
  <2> HIDE DEF new
  <2>2. IsFiniteSet(1..Len(rows))
    BY <1>1, FS_Interval
  <2>3. IsFiniteSet(new)
    BY <2>1, <2>2, FS_Subset
  <2>4. QED
    BY <2>1, <2>3
<1>3. new = {i \in DOMAIN rows : rows[i] \notin ToSet(db_table)}
  BY <1>1
<1> HIDE DEF new
<1>4. /\ \A n \in 1..size : Nth(new, n) \in new /\ Rank(new, Nth(new, n)) = n
      /\ \A i \in new : Rank(new, i) \in 1..size /\ Nth(new, Rank(new, i)) = i
      /\ size \in Nat
  BY <1>2, NthRanks
<1>5. \A n, m \in 1..size : n < m => Nth(new, n) < Nth(new, m)
  <2> SUFFICES ASSUME NEW n \in 1..size, NEW m \in 1..size, n < m, ~ (Nth(new, n) < Nth(new, m)) PROVE FALSE
    OBVIOUS
  <2>1. Nth(new, n) \in new /\ Nth(new, m) \in new /\ Rank(new, Nth(new, n)) = n /\ Rank(new, Nth(new, m)) = m
    BY <1>4
  <2> DEFINE a == Nth(new, n)
             b == Nth(new, m)
  <2> HIDE DEF a, b
  <2>a. a \in new /\ b \in new /\ a \in Int /\ b \in Int /\ ~ (a < b) /\ Rank(new, a) = n /\ Rank(new, b) = m
    BY <1>2, <2>1 DEF a, b
  <2>2. a = b \/ b < a
    BY <2>a
  <2>b. \A i, k \in new : i < k => Rank(new, i) < Rank(new, k)
    BY <1>2, Ranks
  <2>3. b < a => m < n
    BY <2>a, <2>b
  <2>4. n \in Int /\ m \in Int
    BY <1>4
  <2>5. QED
    BY <2>a, <2>2, <2>3, <2>4
<1>6. t = db_table \o tail
  BY DEF Insert, new, Nth, Rank
<1>7. \A n \in 1..size : tail[n] = rows[Nth(new, n)] /\ tail[n] \in ToSet(rows) \ ToSet(db_table)
  BY <1>1, <1>2, <1>3, <1>4
<1>8. tail \in Seq(Rows) /\ Len(tail) = size /\ DOMAIN tail = 1..size
  <2>1. \A n \in 1..size : tail[n] \in Rows
    BY <1>1, <1>7
  <2>2. tail = [n \in 1..size |-> tail[n]]
    OBVIOUS
  <2> HIDE DEF tail, size
  <2>3. tail \in [1..size -> Rows]
    BY <2>1, <2>2
  <2>4. tail \in Seq(Rows)
    BY <1>4, <2>3, SeqDef
  <2>5. QED
    BY <1>4, <2>3, <2>4
<1>9. /\ t \in Seq(Rows) /\ Len(t) = N + size /\ DOMAIN t = 1..(N + size)
      /\ \A i \in 1..N : t[i] = db_table[i]
      /\ \A n \in 1..size : t[N + n] = tail[n]
  <2> HIDE DEF tail, size, t
  <2>1. t \in Seq(Rows) /\ Len(t) = N + size
    <3>1. t \in Seq(Rows) /\ Len(t) = Len(db_table) + Len(tail)
      BY <1>6, <1>8, ConcatProperties
    <3>2. QED
      BY <1>8, <3>1
  <2>2. DOMAIN t = 1..(N + size)
    BY <2>1
  <2>3. \A i \in 1..N : t[i] = db_table[i]
    BY <1>1, <1>4, <1>6, <1>8
  <2>4. \A n \in 1..size : t[N + n] = tail[n]
    BY <1>1, <1>4, <1>6, <1>8
  <2>5. QED
    BY <2>1, <2>2, <2>3, <2>4
<1>10. \A n, m \in 1..size : n < m => tail[n] < tail[m]
  <2> SUFFICES ASSUME NEW n \in 1..size, NEW m \in 1..size, n < m PROVE tail[n] < tail[m]
    OBVIOUS
  <2>1. Nth(new, n) \in DOMAIN rows /\ Nth(new, m) \in DOMAIN rows /\ Nth(new, n) < Nth(new, m)
    BY <1>2, <1>4, <1>5
  <2>2. QED
    BY <1>7, <2>1 DEF Ascends
<1> HIDE DEF tail, size, N, t
<1>a. \A i \in 1..(N + size) : i \in 1..N \/ (i - N \in 1..size /\ i = N + (i - N))
  BY <1>1, <1>4
<1>11. Ascends(t)
  <2> SUFFICES ASSUME NEW i \in 1..(N + size), NEW j \in 1..(N + size), i < j PROVE t[i] < t[j]
    BY <1>9 DEF Ascends
  <2>1. CASE i \in 1..N /\ j \in 1..N
    BY <1>1, <1>9, <2>1 DEF Ascends
  <2>2. CASE i \in 1..N /\ j \notin 1..N
    <3>1. t[i] \in ToSet(db_table)
      BY <1>1, <1>9, <2>2
    <3>2. t[j] = tail[j - N] /\ tail[j - N] \in ToSet(rows) \ ToSet(db_table)
      BY <1>7, <1>9, <1>a, <2>2
    <3>3. QED
      BY <3>1, <3>2
  <2>3. CASE i \notin 1..N
    <3>1. j \notin 1..N /\ i - N < j - N
      BY <1>1, <1>4, <2>3
    <3>2. i - N \in 1..size /\ j - N \in 1..size /\ t[i] = tail[i - N] /\ t[j] = tail[j - N]
      BY <1>9, <1>a, <2>3, <3>1
    <3>3. QED
      BY <1>10, <3>1, <3>2
  <2>4. QED
    BY <2>1, <2>2, <2>3
<1>12. ToSet(t) = ToSet(db_table) \cup ToSet(rows)
  <2>1. ToSet(t) = {t[i] : i \in 1..(N + size)}
    BY <1>9 DEF ToSet
  <2>2. ToSet(t) \subseteq ToSet(db_table) \cup ToSet(rows)
    <3> SUFFICES ASSUME NEW i \in 1..(N + size) PROVE t[i] \in ToSet(db_table) \cup ToSet(rows)
      BY <2>1
    <3>1. CASE i \in 1..N
      BY <1>1, <1>9, <3>1
    <3>2. CASE i \notin 1..N
      BY <1>7, <1>9, <1>a, <3>2
    <3>3. QED
      BY <3>1, <3>2
  <2>3. ToSet(db_table) \subseteq ToSet(t)
    <3>1. 1..N \subseteq 1..(N + size)
      BY <1>1, <1>4
    <3>2. QED
      BY <1>1, <1>9, <2>1, <3>1
  <2>4. ToSet(rows) \subseteq ToSet(t)
    <3> SUFFICES ASSUME NEW i \in 1..Len(rows), rows[i] \notin ToSet(db_table) PROVE rows[i] \in ToSet(t)
      BY <1>1, <2>3
    <3>1. i \in new
      BY <1>1, <1>3
    <3>2. Rank(new, i) \in 1..size /\ tail[Rank(new, i)] = rows[i]
      BY <1>4, <1>7, <3>1
    <3>3. N + Rank(new, i) \in 1..(N + size) /\ t[N + Rank(new, i)] = rows[i]
      BY <1>1, <1>4, <1>9, <3>2
    <3>4. QED
      BY <2>1, <3>3
  <2>5. QED
    BY <2>2, <2>3, <2>4
<1>13. QED
  BY <1>9, <1>11, <1>12 DEF t

LEMMA RowSeqs ==
  ASSUME NEW s \in Seq(Rows)
  PROVE  s \in Seq(Int) /\ ToSet(s) \subseteq Rows /\ Rows \subseteq Int
<1>1. Rows \subseteq Int
  BY DEF Rows
<1>2. DOMAIN s = 1..Len(s) /\ Len(s) \in Nat /\ \A i \in 1..Len(s) : s[i] \in Rows
  OBVIOUS
<1>3. s \in [1..Len(s) -> Int]
  <2>1. s = [i \in 1..Len(s) |-> s[i]] /\ \A i \in 1..Len(s) : s[i] \in Int
    BY <1>1, <1>2
  <2>2. QED
    BY <2>1
<1>4. s \in Seq(Int)
  BY <1>2, <1>3, SeqDef
<1>5. QED
  BY <1>1, <1>4, SeqSets

LEMMA DbFacts ==
  ASSUME DbInv
  PROVE  /\ db_queue \in Seq(Rows) /\ db_queue \in Seq(Int) /\ Len(db_queue) \in Nat /\ Len(db_queue) <= DB_QUEUE_DEPTH
         /\ db_pending \in Seq(Rows) /\ db_pending \in Seq(Int) /\ Len(db_pending) \in Nat /\ Len(db_pending) <= BATCH_MAX
         /\ db_table \in Seq(Rows) /\ db_table \in Seq(Int)
         /\ ToSet(db_queue) \subseteq Int /\ ToSet(db_pending) \subseteq Int /\ ToSet(db_table) \subseteq Int
         /\ Rows \subseteq Int /\ db_sent \in Nat /\ db_sent <= MaxSent /\ db_dropped \subseteq 1..db_sent
<1>1. /\ db_queue \in Seq(Rows) /\ Len(db_queue) <= DB_QUEUE_DEPTH
      /\ db_pending \in Seq(Rows) /\ Len(db_pending) <= BATCH_MAX
      /\ db_sent \in 0..MaxSent /\ db_dropped \subseteq 1..db_sent /\ db_table \in Seq(Rows)
  BY DEF DbInv, DbTypeOK
<1>2. Len(db_queue) \in Nat /\ Len(db_pending) \in Nat
  BY <1>1
<1>3. db_sent \in Nat /\ db_sent <= MaxSent
  BY <1>1, FilterDbAssumption
<1>4. Rows \subseteq Int
  BY DEF Rows
<1>5. /\ db_queue \in Seq(Int) /\ ToSet(db_queue) \subseteq Rows
      /\ db_pending \in Seq(Int) /\ ToSet(db_pending) \subseteq Rows
      /\ db_table \in Seq(Int) /\ ToSet(db_table) \subseteq Rows
  BY <1>1, RowSeqs
<1>6. QED
  BY <1>1, <1>2, <1>3, <1>4, <1>5

\* A batch never reaches the cap on what is retried.
LEMMA CapNotReached ==
  ASSUME DbInv
  PROVE  Capped(db_pending) = db_pending
<1>1. Len(db_pending) \in Nat /\ Len(db_pending) <= BATCH_MAX
  BY DbFacts
<1>2. Len(db_pending) <= RETRY_CAP
  BY <1>1, FilterDbAssumption
<1>3. QED
  BY <1>1, <1>2, FilterDbAssumption DEF Capped

\* The checker sends a row.
LEMMA SendKeeps ==
  ASSUME DbInv, DbSend
  PROVE  DbInv'
<1> DEFINE row == db_sent + 1
           H == ToSet(db_queue) \cup ToSet(db_pending) \cup ToSet(db_table)
<1>0. /\ db_queue \in Seq(Rows) /\ db_queue \in Seq(Int) /\ Len(db_queue) \in Nat /\ Len(db_queue) <= DB_QUEUE_DEPTH
      /\ db_sent \in Nat /\ db_dropped \subseteq 1..db_sent
  BY DbFacts
<1>1. /\ db_checker # "exited" /\ db_sent < MaxSent /\ db_sent' = row
      /\ UNCHANGED <<db_checker, db_finisher, db_writer, db_pending, db_closed, db_client, db_cooling, db_up, db_outages, db_table>>
      /\ \/ Len(db_queue) < DB_QUEUE_DEPTH /\ db_queue' = Append(db_queue, row) /\ db_dropped' = db_dropped
         \/ db_dropped' = db_dropped \cup {row} /\ db_queue' = db_queue
  BY DEF DbSend, writerVars, dbVars
<1>2. row \in Rows /\ row \in Int /\ row \notin 1..db_sent /\ row \in 0..MaxSent /\ 1..row = (1..db_sent) \cup {row}
  BY <1>0, <1>1, FilterDbAssumption DEF Rows
<1>3. H = (1..db_sent) \ db_dropped
  BY DEF DbInv, DbHeld
<1>4. \A q \in H : q \in Int /\ q < row
  BY <1>0, <1>3
<1>5. db_queue' \in Seq(Rows) /\ Len(db_queue') <= DB_QUEUE_DEPTH /\ Len(db_queue') \in Nat
  <2>1. Append(db_queue, row) \in Seq(Rows) /\ Len(Append(db_queue, row)) = Len(db_queue) + 1
    BY <1>0, <1>2
  <2>2. QED
    BY SMTT(30), <1>0, <1>1, <2>1, FilterDbAssumption
<1>6. db_dropped' \subseteq 1..row
  BY <1>0, <1>1, <1>2
<1>7. DbTypeOK'
  BY <1>1, <1>2, <1>5, <1>6 DEF DbInv, DbTypeOK, SendersGone
<1>8. /\ Ascends(db_queue')
      /\ \/ ToSet(db_queue') = ToSet(db_queue) \cup {row} /\ db_dropped' = db_dropped
         \/ ToSet(db_queue') = ToSet(db_queue) /\ db_dropped' = db_dropped \cup {row}
  <2>1. Ascends(db_queue)
    BY DEF DbInv, DbOrder
  <2>2. CASE db_queue' = Append(db_queue, row) /\ db_dropped' = db_dropped
    BY <1>0, <1>2, <1>4, <2>1, <2>2, AppendSets
  <2>3. CASE db_queue' = db_queue /\ db_dropped' = db_dropped \cup {row}
    BY <2>1, <2>3
  <2>4. QED
    BY <1>1, <2>2, <2>3
<1>9. DbOrder'
  <2>1. \A r \in ToSet(db_queue') : \A q \in ToSet(db_pending) \cup ToSet(db_table) : q < r
    <3> SUFFICES ASSUME NEW r \in ToSet(db_queue'), NEW q \in ToSet(db_pending) \cup ToSet(db_table) PROVE q < r
      OBVIOUS
    <3>1. CASE r \in ToSet(db_queue)
      BY <3>1 DEF DbInv, DbOrder
    <3>2. CASE r = row
      BY <1>4, <3>2
    <3>3. QED
      BY <1>8, <3>1, <3>2
  <2>2. QED
    BY <1>1, <1>8, <2>1 DEF DbInv, DbOrder
<1>10. DbHeld'
  <2>1. ToSet(db_queue') \cup ToSet(db_pending) \cup ToSet(db_table) = (1..row) \ db_dropped'
    BY <1>0, <1>2, <1>3, <1>8
  <2>2. QED
    BY <1>1, <2>1 DEF DbHeld
<1>11. DbShutdown'
  <2>1. ~ SendersGone /\ ~ db_closed
    BY <1>1 DEF DbInv, DbShutdown
  <2>2. QED
    BY <1>1, <2>1 DEF DbShutdown, SendersGone
<1>12. DbUndisturbed'
  BY <1>1 DEF DbInv, DbUndisturbed
<1>13. QED
  BY <1>7, <1>9, <1>10, <1>11, <1>12 DEF DbInv

\* The checker and finish end their parts.
LEMMA FinishKeeps ==
  ASSUME DbInv, DbCancel \/ CheckerExit \/ DropHandle \/ DbJoin
  PROVE  DbInv'
<1>1. UNCHANGED <<db_queue, db_sent, db_dropped, db_writer, db_pending, db_closed, db_client, db_cooling, db_up, db_outages, db_table>>
  BY DEF DbCancel, CheckerExit, DropHandle, DbJoin, writerVars, dbVars
<1>2. /\ db_checker' \in {"running", "cancelled", "exited"} /\ db_finisher' \in {"idle", "checker", "writer", "returned"}
      /\ SendersGone => SendersGone'
      /\ SendersGone' => db_checker' = "exited"
  BY DEF DbInv, DbTypeOK, DbShutdown, SendersGone, DbCancel, CheckerExit, DropHandle, DbJoin
<1>3. DbTypeOK'
  BY <1>1, <1>2 DEF DbInv, DbTypeOK
<1>4. DbOrder' /\ DbHeld' /\ DbUndisturbed'
  BY <1>1 DEF DbInv, DbOrder, DbHeld, DbUndisturbed
<1>5. DbShutdown'
  BY <1>1, <1>2 DEF DbInv, DbShutdown
<1>6. QED
  BY <1>3, <1>4, <1>5 DEF DbInv

\* The writer receives a row.
LEMMA ReceiveKeeps ==
  ASSUME DbInv, DbReceive
  PROVE  DbInv'
<1> DEFINE row == Head(db_queue)
<1>0. /\ db_queue \in Seq(Rows) /\ db_queue \in Seq(Int) /\ Len(db_queue) \in Nat /\ Len(db_queue) <= DB_QUEUE_DEPTH
      /\ db_pending \in Seq(Rows) /\ db_pending \in Seq(Int) /\ Len(db_pending) \in Nat
  BY DbFacts
<1>1. /\ db_writer = "gathering" /\ Len(db_pending) < BATCH_MAX /\ ~ db_closed /\ db_queue # <<>>
      /\ db_pending' = Append(db_pending, row) /\ db_queue' = Tail(db_queue)
      /\ UNCHANGED <<db_sent, db_dropped, db_checker, db_finisher, db_writer, db_closed, db_client, db_cooling,
                     db_up, db_outages, db_table>>
  BY DEF DbReceive, Gathering, dbVars
<1>2. /\ Ascends(db_queue) /\ Ascends(db_pending) /\ Ascends(db_table)
      /\ \A r \in ToSet(db_queue) : \A q \in ToSet(db_pending) \cup ToSet(db_table) : q < r
      /\ \A r \in ToSet(db_pending) \ ToSet(db_table) : \A q \in ToSet(db_table) : q < r
  BY DEF DbInv, DbOrder
<1>3. /\ row \in Int /\ ToSet(db_queue) = ToSet(db_queue') \cup {row}
      /\ Ascends(db_queue') /\ \A q \in ToSet(db_queue') : row < q
  BY <1>0, <1>1, <1>2, TailSets
<1>4. \A q \in ToSet(db_pending) \cup ToSet(db_table) : q < row
  BY <1>2, <1>3
<1>5. ToSet(db_pending') = ToSet(db_pending) \cup {row} /\ Ascends(db_pending')
  BY <1>0, <1>1, <1>2, <1>3, <1>4, AppendSets
<1>6. DbTypeOK'
  <2>1. db_queue' \in Seq(Rows) /\ Len(db_queue') = Len(db_queue) - 1 /\ row \in Rows
    BY <1>0, <1>1, EmptySeq
  <2>2. Len(db_queue') <= DB_QUEUE_DEPTH
    BY <1>0, <2>1, FilterDbAssumption
  <2>3. db_pending' \in Seq(Rows) /\ Len(db_pending') = Len(db_pending) + 1
    BY <1>0, <1>1, <2>1
  <2>4. Len(db_pending') <= BATCH_MAX
    BY <1>0, <1>1, <2>3, FilterDbAssumption
  <2>5. QED
    BY <1>1, <2>1, <2>2, <2>3, <2>4 DEF DbInv, DbTypeOK, SendersGone
<1>7. DbOrder'
  <2>1. \A r \in ToSet(db_queue') : \A q \in ToSet(db_pending') \cup ToSet(db_table) : q < r
    BY <1>2, <1>3, <1>5
  <2>2. \A r \in ToSet(db_pending') \ ToSet(db_table) : \A q \in ToSet(db_table) : q < r
    BY <1>2, <1>4, <1>5
  <2>3. QED
    BY <1>1, <1>2, <1>3, <1>5, <2>1, <2>2 DEF DbOrder
<1>8. DbHeld'
  <2>1. ToSet(db_queue') \cup ToSet(db_pending') \cup ToSet(db_table) = ToSet(db_queue) \cup ToSet(db_pending) \cup ToSet(db_table)
    BY <1>3, <1>5
  <2>2. QED
    BY <1>1, <2>1 DEF DbInv, DbHeld
<1>9. DbShutdown' /\ DbUndisturbed'
  BY <1>1 DEF DbInv, DbShutdown, DbUndisturbed, SendersGone
<1>10. QED
  BY <1>6, <1>7, <1>8, <1>9 DEF DbInv

\* What the writer does with a batch: the rows of the batch and the table are the same afterwards.
LEMMA WriterKeeps ==
  ASSUME DbInv, UNCHANGED <<db_queue, db_sent, db_dropped, db_checker, db_finisher>>,
         db_pending' = db_pending \/ (db_pending' = <<>> /\ db_table' = Insert(db_pending)),
         db_table' = db_table \/ db_table' = Insert(db_pending),
         db_writer' \in {"gathering", "writing", "done"}, db_closed' \in BOOLEAN,
         db_writer' = "done" => db_closed',
         db_closed' => db_queue = <<>> /\ SendersGone,
         db_client' \in {"none", "live", "stale"}, db_cooling' \in BOOLEAN,
         db_up' \in BOOLEAN, db_outages' \in 0..MaxOutages,
         DbUndisturbed'
  PROVE  DbInv'
<1>0. /\ db_pending \in Seq(Rows) /\ db_table \in Seq(Rows) /\ Len(db_pending) <= BATCH_MAX
  BY DbFacts
<1>1. /\ Ascends(db_queue) /\ Ascends(db_pending) /\ Ascends(db_table)
      /\ \A r \in ToSet(db_queue) : \A q \in ToSet(db_pending) \cup ToSet(db_table) : q < r
      /\ \A r \in ToSet(db_pending) \ ToSet(db_table) : \A q \in ToSet(db_table) : q < r
  BY DEF DbInv, DbOrder
<1>2. /\ Insert(db_pending) \in Seq(Rows) /\ Ascends(Insert(db_pending))
      /\ ToSet(Insert(db_pending)) = ToSet(db_table) \cup ToSet(db_pending)
  BY <1>0, <1>1, InsertIs
<1>3. db_table' \in Seq(Rows) /\ Ascends(db_table')
  BY <1>0, <1>1, <1>2
<1>4. db_pending' \in Seq(Rows) /\ Len(db_pending') <= BATCH_MAX /\ Ascends(db_pending')
  <2>1. Len(<<>>) = 0 /\ <<>> \in Seq(Rows) /\ DOMAIN <<>> = {}
    OBVIOUS
  <2>2. Ascends(<<>>)
    BY <2>1 DEF Ascends
  <2>3. CASE db_pending' = db_pending
    BY <1>0, <1>1, <2>3
  <2>4. CASE db_pending' = <<>>
    <3>1. 0 <= BATCH_MAX
      BY FilterDbAssumption
    <3>2. QED
      BY <2>1, <2>2, <2>4, <3>1
  <2>5. QED
    BY <2>3, <2>4
<1>5. ToSet(<<>>) = {}
  BY DEF ToSet
<1>6. /\ ToSet(db_pending') \cup ToSet(db_table') = ToSet(db_pending) \cup ToSet(db_table)
      /\ \/ ToSet(db_table') = ToSet(db_table) /\ ToSet(db_pending') = ToSet(db_pending)
         \/ ToSet(db_pending') \subseteq ToSet(db_table')
  BY <1>2, <1>5
<1>7. DbTypeOK'
  BY <1>3, <1>4 DEF DbInv, DbTypeOK, SendersGone
<1>8. DbOrder'
  <2>1. \A r \in ToSet(db_queue) : \A q \in ToSet(db_pending') \cup ToSet(db_table') : q < r
    BY <1>1, <1>6
  <2>2. \A r \in ToSet(db_pending') \ ToSet(db_table') : \A q \in ToSet(db_table') : q < r
    BY <1>1, <1>6
  <2>3. QED
    BY <1>1, <1>3, <1>4, <2>1, <2>2 DEF DbOrder
<1>9. DbHeld'
  <2>1. ToSet(db_queue) \cup ToSet(db_pending) \cup ToSet(db_table) = (1..db_sent) \ db_dropped
    BY DEF DbInv, DbHeld
  <2>2. ToSet(db_queue) \cup ToSet(db_pending') \cup ToSet(db_table') = (1..db_sent) \ db_dropped
    BY <1>6, <2>1
  <2>3. QED
    BY <2>2 DEF DbHeld
<1>10. DbShutdown'
  BY DEF DbInv, DbShutdown, SendersGone
<1>11. QED
  BY <1>7, <1>8, <1>9, <1>10 DEF DbInv

LEMMA DbStep == DbInv /\ [DbNext]_dbPartVars => DbInv'
<1> SUFFICES ASSUME DbInv, [DbNext]_dbPartVars PROVE DbInv'
  OBVIOUS
<1> USE FilterDbAssumption
<1>0. /\ db_writer \in {"gathering", "writing", "done"} /\ db_closed \in BOOLEAN
      /\ db_writer = "done" => db_closed
      /\ db_closed => db_queue = <<>> /\ SendersGone
      /\ db_client \in {"none", "live", "stale"} /\ db_cooling \in BOOLEAN
      /\ db_up \in BOOLEAN /\ db_outages \in 0..MaxOutages
      /\ db_outages = 0 =>
             /\ db_up /\ db_client # "stale" /\ (db_client = "none" => ~ db_cooling)
             /\ db_writer = "done" => db_pending = <<>>
  BY DEF DbInv, DbTypeOK, DbShutdown, DbUndisturbed
<1>a. db_outages < MaxOutages => db_outages + 1 \in 0..MaxOutages /\ db_outages + 1 # 0
  BY <1>0
<1>1. CASE DbSend
  BY <1>1, SendKeeps
<1>2. CASE DbCancel \/ CheckerExit \/ DropHandle \/ DbJoin
  BY <1>2, FinishKeeps
<1>3. CASE DbReceive
  BY <1>3, ReceiveKeeps
<1>4. CASE DbDisconnected \/ BatchWait \/ BatchFull
  <2>1. Capped(db_pending) = db_pending
    BY CapNotReached
  <2>2. /\ UNCHANGED <<db_queue, db_sent, db_dropped, db_checker, db_finisher, db_client, db_cooling, db_up, db_outages, db_table>>
        /\ db_pending' = db_pending
        /\ db_writer' \in {"writing", "done"} /\ (db_writer' = "done" => db_pending = <<>> /\ db_closed')
        /\ db_closed' \in BOOLEAN /\ (db_closed' => db_queue = <<>> /\ SendersGone)
    <3>1. CASE DbDisconnected
      BY <1>0, <2>1, <3>1 DEF DbDisconnected, Gathering, producerVars, dbVars
    <3>2. CASE BatchWait
      BY <1>0, <2>1, <3>2 DEF BatchWait, Gathering, producerVars, dbVars
    <3>3. CASE BatchFull
      BY <1>0, <2>1, <3>3 DEF BatchFull, producerVars, dbVars
    <3>4. QED
      BY <1>4, <3>1, <3>2, <3>3
  <2>3. DbUndisturbed'
    BY <1>0, <2>2 DEF DbUndisturbed
  <2>4. QED
    BY <1>0, <2>2, <2>3, WriterKeeps
<1>5. CASE DbHold \/ DbConnect
  <2>1. /\ UNCHANGED <<db_queue, db_sent, db_dropped, db_checker, db_finisher, db_closed, db_up, db_outages, db_table>>
        /\ db_pending' = db_pending /\ db_writer = "writing" /\ db_client = "none"
        /\ \/ db_cooling /\ db_writer' = AfterAttempt /\ db_client' = db_client /\ db_cooling' = db_cooling
           \/ db_up /\ ~ db_cooling /\ db_client' = "live" /\ db_writer' = db_writer /\ db_cooling' = TRUE
           \/ ~ db_up /\ db_writer' = AfterAttempt /\ db_client' = db_client /\ db_cooling' = TRUE
    BY <1>5 DEF DbHold, DbConnect, producerVars, dbVars
  <2>2. /\ db_writer' \in {"gathering", "writing", "done"} /\ (db_writer' = "done" => db_closed)
        /\ db_client' \in {"none", "live", "stale"} /\ db_cooling' \in BOOLEAN
    BY <1>0, <2>1 DEF AfterAttempt
  <2>3. DbUndisturbed'
    BY <1>0, <2>1 DEF DbUndisturbed
  <2>4. QED
    BY <1>0, <2>1, <2>2, <2>3, WriterKeeps
<1>6. CASE WriteOk
  <2>1. /\ UNCHANGED <<db_queue, db_sent, db_dropped, db_checker, db_finisher, db_closed, db_client, db_cooling, db_up, db_outages>>
        /\ db_pending' = <<>> /\ db_table' = Insert(db_pending) /\ db_writer' = AfterAttempt
    BY <1>6 DEF WriteOk, producerVars
  <2>2. db_writer' \in {"gathering", "done"} /\ (db_writer' = "done" => db_closed)
    BY <2>1 DEF AfterAttempt
  <2>3. DbUndisturbed'
    BY <1>0, <2>1 DEF DbUndisturbed
  <2>4. QED
    BY <1>0, <2>1, <2>2, <2>3, WriterKeeps
<1>7. CASE WriteErr
  <2>1. /\ UNCHANGED <<db_queue, db_sent, db_dropped, db_checker, db_finisher, db_closed>>
        /\ db_pending' = db_pending /\ db_client' = "none" /\ db_cooling' = TRUE /\ db_writer' = AfterAttempt
        /\ \/ db_client = "stale" /\ UNCHANGED <<db_up, db_outages, db_table>>
           \/ /\ db_outages < MaxOutages /\ db_outages' = db_outages + 1 /\ db_up' = FALSE
              /\ db_table' = db_table \/ db_table' = Insert(db_pending)
    BY <1>7 DEF WriteErr, Unwritten, producerVars, dbVars
  <2>2. db_writer' \in {"gathering", "done"} /\ (db_writer' = "done" => db_closed)
    BY <2>1 DEF AfterAttempt
  <2>3. db_up' \in BOOLEAN /\ db_outages' \in 0..MaxOutages /\ (db_table' = db_table \/ db_table' = Insert(db_pending))
    BY <1>0, <1>a, <2>1
  <2>4. DbUndisturbed'
    BY <1>0, <1>a, <2>1 DEF DbUndisturbed
  <2>5. QED
    BY <1>0, <2>1, <2>2, <2>3, <2>4, WriterKeeps
<1>8. CASE Cooled \/ GoDown \/ ComeUp
  <2>1. /\ UNCHANGED <<db_queue, db_sent, db_dropped, db_checker, db_finisher, db_writer, db_pending, db_closed, db_table>>
        /\ db_client' \in {"none", "live", "stale"} /\ db_cooling' \in BOOLEAN /\ db_up' \in BOOLEAN
        /\ db_outages' \in 0..MaxOutages /\ DbUndisturbed'
    <3>1. CASE Cooled
      BY <1>0, <3>1 DEF Cooled, producerVars, dbVars, DbUndisturbed
    <3>2. CASE GoDown
      <4>1. db_outages' \in 0..MaxOutages /\ db_outages' # 0
        BY <1>a, <3>2 DEF GoDown
      <4>2. DbUndisturbed'
        BY <4>1 DEF DbUndisturbed
      <4>3. QED
        BY <1>0, <3>2, <4>1, <4>2 DEF GoDown, producerVars
    <3>3. CASE ComeUp
      BY <1>0, <3>3 DEF ComeUp, producerVars, writerVars, DbUndisturbed
    <3>4. QED
      BY <1>8, <3>1, <3>2, <3>3
  <2>2. QED
    BY <1>0, <2>1, WriterKeeps
<1>9. CASE UNCHANGED dbPartVars
  <2>1. UNCHANGED <<db_queue, db_sent, db_dropped, db_checker, db_finisher, db_writer, db_pending, db_closed, db_table,
                    db_client, db_cooling, db_up, db_outages>>
    BY <1>9 DEF dbPartVars, producerVars, writerVars, dbVars
  <2>2. DbUndisturbed'
    BY <1>0, <2>1 DEF DbUndisturbed
  <2>3. QED
    BY <1>0, <2>1, <2>2, WriterKeeps
<1>10. QED
  BY <1>1, <1>2, <1>3, <1>4, <1>5, <1>6, <1>7, <1>8, <1>9 DEF DbNext, DbWriter

LEMMA DbStart == DbInit => DbInv
<1> SUFFICES ASSUME DbInit PROVE DbInv
  OBVIOUS
<1> USE FilterDbAssumption
<1>1. ToSet(<<>>) = {} /\ <<>> \in Seq(Rows) /\ Len(<<>>) = 0 /\ DOMAIN <<>> = {}
  BY DEF ToSet
<1>2. DbTypeOK
  <2>1. db_outages \in 0..MaxOutages
    BY DEF DbInit
  <2>2. 0 \in 0..MaxSent /\ 0 <= DB_QUEUE_DEPTH /\ 0 <= BATCH_MAX
    OBVIOUS
  <2>3. QED
    BY <1>1, <2>1, <2>2 DEF DbInit, DbTypeOK, SendersGone
<1>3. DbOrder
  BY <1>1 DEF DbInit, DbOrder, Ascends
<1>4. DbHeld
  BY <1>1 DEF DbInit, DbHeld
<1>5. DbShutdown /\ DbUndisturbed
  BY DEF DbInit, DbShutdown, DbUndisturbed, SendersGone
<1>6. QED
  BY <1>2, <1>3, <1>4, <1>5 DEF DbInv

LEMMA RowsThere == DbInv => RowsAccounted
<1> SUFFICES ASSUME DbInv PROVE RowsAccounted
  OBVIOUS
<1>0. /\ db_table \in Seq(Rows) /\ ToSet(db_queue) \subseteq Int /\ ToSet(db_pending) \subseteq Int
      /\ ToSet(db_table) \subseteq Int /\ db_sent \in Nat
  BY DbFacts
<1>1. ToSet(db_queue) \cup ToSet(db_pending) \cup ToSet(db_table) = (1..db_sent) \ db_dropped
  BY DEF DbInv, DbHeld
<1>2. RowsSurviveOutages
  BY <1>1 DEF RowsSurviveOutages, DbInv, DbTypeOK, DbShutdown, DbUndisturbed
<1>3. ASSUME NEW i \in DOMAIN db_table, NEW r \in 1..db_table[i], r \notin db_dropped
      PROVE  Contains(db_table, r)
  <2>1. db_table[i] \in ToSet(db_table) /\ db_table[i] \in 1..db_sent
    BY <1>1 DEF ToSet
  <2>2. r \in 1..db_sent /\ r \in Int /\ ~ (db_table[i] < r)
    BY <1>0, <2>1
  <2>3. r \in ToSet(db_table)
    BY <1>1, <1>3, <2>1, <2>2 DEF DbInv, DbOrder
  <2>4. QED
    BY <1>0, <2>3, SeqSets
<1>4. StoredOnceInOrder
  BY <1>3 DEF StoredOnceInOrder, DbInv, DbOrder, Ascends
<1>5. QED
  BY <1>2, <1>4 DEF RowsAccounted

\* The rows of the filter audit's database (writer_loop in filters/db.rs): whatever the database
\* does, each row the queue took is in the queue, in the batch or in the table, the table has each
\* row once and in order although batches are written again, and without an outage a shutdown
\* leaves none behind.
THEOREM RowsSurvive == DbInit /\ [][DbNext]_dbPartVars => []RowsAccounted
BY DbStart, DbStep, RowsThere, PTL

\* Type correctness of the database writer (filters/db.rs): its queue and its batch stay within
\* their bounds, and it is done only after it saw the channel closed.
THEOREM DbTypes == DbInit /\ [][DbNext]_dbPartVars => []DbTypeOK
<1>1. DbInv => DbTypeOK
  BY DEF DbInv
<1>2. QED
  BY DbStart, DbStep, <1>1, PTL

-----------------------------------------------------------------------------
(* The streams of the provider mocks. *)

StreamMessages == {Lagged, Beat} \cup {Message(batch, position) : batch \in Nat, position \in Nat}

Postings == [to : Streams, message : StreamMessages]

StreamsTyped ==
    /\ mock \in {"bam", "gravity", "rakurai"} /\ repeat \in BOOLEAN /\ produced \in Nat
    /\ sessions \in [nonce : Nat, challenges : [Pubkeys -> SUBSET Nat], tokens : SUBSET Nat]
    /\ task \in [state : {"off", "connected", "receiving", "ended"}, next : Nat, from : Nat, pending : Seq(Postings)]
    /\ streams \in [Streams -> [connected : BOOLEAN, channel : Seq(StreamMessages)]]
    /\ seen_by_peer \in [Streams -> Seq(StreamMessages)]
    /\ noticed \in [skipped : SUBSET Nat, beats : Nat,
                    issued : Seq([pubkey : Pubkeys, challenge : Nat, signer : Pubkeys])]

\* Nothing is sent before there is a subscription, and none of its streams has a peer.
Unopened ==
    task.state \in {"off", "connected"} =>
        /\ task.pending = <<>> /\ noticed.skipped = {} /\ task.from = task.next
        /\ \A s \in Streams : Carried(s) = <<>> /\ ~ streams[s].connected

Within ==
    /\ task.from <= task.next /\ task.next <= produced
    /\ \A s \in Streams : Len(streams[s].channel) <= STREAM_CAPACITY

\* A challenge stands for one key and is answered once.
Grants ==
    /\ sessions.tokens \subseteq 0..sessions.nonce
    /\ sessions.tokens # {} => noticed.issued # <<>>
    /\ \A k \in Pubkeys : \A c \in sessions.challenges[k] :
           /\ c < sessions.nonce
           /\ \A l \in Pubkeys : c \in sessions.challenges[l] => k = l
           /\ \A i \in DOMAIN noticed.issued : noticed.issued[i].challenge # c
    /\ \A i \in DOMAIN noticed.issued : noticed.issued[i].challenge < sessions.nonce
    /\ Granted

LEMMA MessageIs ==
  ASSUME NEW m \in StreamMessages
  PROVE  \/ m = Lagged /\ m.kind = "lagged"
         \/ m = Beat /\ m.kind = "heartbeat"
         \/ /\ m.kind = "batch" /\ m.index \in Nat /\ m.position \in Nat
            /\ m.transactions = TransactionsOf(m.index) /\ m = Message(m.index, m.position)
  BY DEF StreamMessages, Lagged, Beat, Message

LEMMA MessageHas ==
  ASSUME NEW batch, NEW position
  PROVE  /\ Message(batch, position).kind = "batch" /\ Message(batch, position).index = batch
         /\ Message(batch, position).position = position
         /\ Message(batch, position).transactions = TransactionsOf(batch)
         /\ batch \in Nat /\ position \in Nat => Message(batch, position) \in StreamMessages
         /\ Lagged \in StreamMessages /\ Beat \in StreamMessages
         /\ Message(batch, position) # Lagged /\ Message(batch, position) # Beat /\ Beat # Lagged
  BY DEF StreamMessages, Lagged, Beat, Message

LEMMA StreamsAre ==
  ASSUME StreamsTyped
  PROVE  /\ mock = "bam" => Streams = {"preconf"}
         /\ mock = "gravity" => Streams = {"bundles"}
         /\ mock = "rakurai" => Streams = {"astralane", "block_engine"}
         /\ Streams # {}
<1>1. mock = "bam" => Streams = {"preconf"}
  BY DEF Streams, StreamsOf
<1>2. mock = "gravity" => Streams = {"bundles"}
  BY DEF Streams, StreamsOf
<1>3. mock = "rakurai" => Streams = {"astralane", "block_engine"}
  BY DEF Streams, StreamsOf
<1>4. QED
  BY <1>1, <1>2, <1>3 DEF StreamsTyped

LEMMA MessagesTyped ==
  ASSUME StreamsTyped, NEW batch \in Nat
  PROVE  Messages(batch) \in Seq(Postings)
<1>1. CASE mock = "bam"
  <2>1. Messages(batch) = [i \in 1..BATCH_SIZE |-> [to |-> "preconf", message |-> Message(batch, i - 1)]]
    BY <1>1 DEF Messages
  <2>2. \A i \in 1..BATCH_SIZE : [to |-> "preconf", message |-> Message(batch, i - 1)] \in Postings
    BY <1>1, StreamsAre, MessageHas, PostpackStreamsAssumption DEF Postings
  <2>3. QED
    BY <2>1, <2>2, PostpackStreamsAssumption
<1>2. CASE mock = "gravity"
  <2>1. Messages(batch) = <<[to |-> "bundles", message |-> Message(batch, 0)]>>
    BY <1>2 DEF Messages
  <2>2. QED
    BY <1>2, <2>1, StreamsAre, MessageHas DEF Postings
<1>3. CASE mock = "rakurai"
  <2>1. Messages(batch) = <<[to |-> "astralane", message |-> Message(batch, 0)],
                            [to |-> "block_engine", message |-> Message(batch, 0)]>>
    BY <1>3 DEF Messages
  <2>2. QED
    BY <1>3, <2>1, StreamsAre, MessageHas DEF Postings
<1>4. QED
  BY <1>1, <1>2, <1>3 DEF StreamsTyped

LEMMA OnLagTyped ==
  ASSUME StreamsTyped
  PROVE  OnLag \in Seq(Postings)
<1>1. CASE mock = "rakurai"
  BY <1>1 DEF OnLag
<1>2. CASE mock # "rakurai"
  <2>1. (CHOOSE s \in Streams : TRUE) \in Streams
    BY StreamsAre
  <2>2. QED
    BY <1>2, <2>1, MessageHas DEF OnLag, Postings
<1>3. QED
  BY <1>1, <1>2

SessionRecords == [nonce : Nat, challenges : [Pubkeys -> SUBSET Nat], tokens : SUBSET Nat]
TaskRecords == [state : {"off", "connected", "receiving", "ended"}, next : Nat, from : Nat, pending : Seq(Postings)]
StreamRecords == [connected : BOOLEAN, channel : Seq(StreamMessages)]
NoticedRecords == [skipped : SUBSET Nat, beats : Nat, issued : Seq([pubkey : Pubkeys, challenge : Nat, signer : Pubkeys])]

\* What an update of a field leaves of the records.
LEMMA RecordsStay ==
  /\ \A r \in SessionRecords, c \in [Pubkeys -> SUBSET Nat], n \in Nat, t \in SUBSET Nat :
         /\ [r EXCEPT !.nonce = n, !.challenges = c] \in SessionRecords
         /\ [r EXCEPT !.challenges = c] \in SessionRecords
         /\ [r EXCEPT !.challenges = c, !.nonce = n, !.tokens = t] \in SessionRecords
  /\ \A r \in TaskRecords, n \in Nat, p \in Seq(Postings) :
         /\ [r EXCEPT !.next = n, !.pending = p] \in TaskRecords
         /\ [r EXCEPT !.pending = p] \in TaskRecords
  /\ \A r \in StreamRecords, c \in Seq(StreamMessages) : [r EXCEPT !.channel = c] \in StreamRecords
  /\ \A r \in NoticedRecords, n \in Nat : [r EXCEPT !.beats = n] \in NoticedRecords
<1>1. \A r \in SessionRecords, c \in [Pubkeys -> SUBSET Nat], n \in Nat, t \in SUBSET Nat :
         /\ [r EXCEPT !.nonce = n, !.challenges = c] \in SessionRecords
         /\ [r EXCEPT !.challenges = c] \in SessionRecords
         /\ [r EXCEPT !.challenges = c, !.nonce = n, !.tokens = t] \in SessionRecords
  BY DEF SessionRecords
<1>2. \A r \in TaskRecords, n \in Nat, p \in Seq(Postings) :
         /\ [r EXCEPT !.next = n, !.pending = p] \in TaskRecords
         /\ [r EXCEPT !.pending = p] \in TaskRecords
  BY DEF TaskRecords
<1>3. \A r \in StreamRecords, c \in Seq(StreamMessages) : [r EXCEPT !.channel = c] \in StreamRecords
  BY DEF StreamRecords
<1>4. \A r \in NoticedRecords, n \in Nat : [r EXCEPT !.beats = n] \in NoticedRecords
  BY DEF NoticedRecords
<1>5. QED
  BY <1>1, <1>2, <1>3, <1>4

LEMMA StreamsTypedStep == StreamsTyped /\ [StreamsNext]_streamsVars => StreamsTyped'
<1> SUFFICES ASSUME StreamsTyped, [StreamsNext]_streamsVars PROVE StreamsTyped'
  OBVIOUS
<1> USE DEF StreamsTyped
<1>r. sessions \in SessionRecords /\ task \in TaskRecords /\ noticed \in NoticedRecords
  BY DEF SessionRecords, TaskRecords, NoticedRecords
<1>a. ASSUME mock' = mock, repeat' = repeat
      PROVE  Streams' = Streams /\ StreamMessages' = StreamMessages /\ Postings' = Postings
  BY <1>a DEF Streams, StreamMessages, Message, TransactionsOf, Postings
<1>b. Oldest \in Nat
  BY PostpackStreamsAssumption DEF Oldest
<1>1. CASE Tick
  BY <1>1, <1>a DEF Tick
<1>2. ASSUME NEW pubkey \in Pubkeys, Challenge(pubkey) PROVE StreamsTyped'
  <2>1. sessions' = [sessions EXCEPT !.nonce = sessions.nonce + 1,
                                     !.challenges = [sessions.challenges EXCEPT ![pubkey] = {sessions.nonce}]]
    BY <1>2 DEF Challenge
  <2>2. [sessions.challenges EXCEPT ![pubkey] = {sessions.nonce}] \in [Pubkeys -> SUBSET Nat]
    OBVIOUS
  <2>3. sessions' \in SessionRecords
    <3>1. sessions.nonce + 1 \in Nat
      OBVIOUS
    <3>2. QED
      BY ONLY RecordsStay, <1>r, <2>1, <2>2, <3>1
  <2>4. QED
    BY <1>2, <1>a, <2>3 DEF Challenge, SessionRecords
<1>3. ASSUME NEW pubkey \in Pubkeys, NEW signer \in Pubkeys, NEW c \in 0..MaxNonce, Answer(pubkey, c, signer)
      PROVE  StreamsTyped'
  <2>1. c \in Nat
    BY PostpackStreamsAssumption
  <2>2. noticed' \in [skipped : SUBSET Nat, beats : Nat,
                      issued : Seq([pubkey : Pubkeys, challenge : Nat, signer : Pubkeys])]
    <3>1. [pubkey |-> pubkey, challenge |-> c, signer |-> signer] \in [pubkey : Pubkeys, challenge : Nat, signer : Pubkeys]
      BY <2>1
    <3>2. Append(noticed.issued, [pubkey |-> pubkey, challenge |-> c, signer |-> signer])
            \in Seq([pubkey : Pubkeys, challenge : Nat, signer : Pubkeys])
      BY <3>1
    <3>3. \/ noticed' = noticed
          \/ noticed' = [noticed EXCEPT !.issued = Append(noticed.issued,
                                              [pubkey |-> pubkey, challenge |-> c, signer |-> signer])]
      BY <1>3 DEF Answer
    <3>4. QED
      BY <3>2, <3>3
  <2>3. sessions' \in SessionRecords
    <3> DEFINE ch == [sessions.challenges EXCEPT ![pubkey] = {}]
               n == sessions.nonce + 2
               t == sessions.tokens \cup {sessions.nonce}
    <3>1. ch \in [Pubkeys -> SUBSET Nat] /\ n \in Nat /\ t \in SUBSET Nat
      OBVIOUS
    <3>2. \/ sessions' = [sessions EXCEPT !.challenges = ch]
          \/ sessions' = [sessions EXCEPT !.challenges = ch, !.nonce = n, !.tokens = t]
      BY <1>3 DEF Answer
    <3> HIDE DEF ch, n, t
    <3>3. [sessions EXCEPT !.challenges = ch] \in SessionRecords
      BY ONLY RecordsStay, <1>r, <3>1
    <3>4. [sessions EXCEPT !.challenges = ch, !.nonce = n, !.tokens = t] \in SessionRecords
      BY ONLY RecordsStay, <1>r, <3>1
    <3>5. QED
      BY ONLY <3>2, <3>3, <3>4
  <2>4. QED
    BY <1>3, <2>2, <2>3, <1>a DEF Answer, SessionRecords
<1>4. ASSUME Opened PROVE StreamsTyped'
  BY <1>4, <1>a DEF Opened
<1>5. CASE ConnectRakurai \/ Refused
  BY <1>5, <1>a DEF ConnectRakurai, Refused
<1>6. CASE RecvLagged
  <2>1. \A n \in task.next..Oldest - 1 : n \in Nat
    BY <1>b
  <2>2. QED
    BY <1>6, <1>a, <1>b, <2>1, OnLagTyped DEF RecvLagged
<1>7. CASE RecvBatch
  <2>1. Messages(task.next) \in Seq(Postings)
    BY MessagesTyped
  <2>2. task' = [task EXCEPT !.next = task.next + 1, !.pending = Messages(task.next)]
    BY <1>7 DEF RecvBatch
  <2>3. task' \in TaskRecords
    <3>1. task.next + 1 \in Nat
      OBVIOUS
    <3>2. QED
      BY ONLY RecordsStay, <1>r, <2>1, <2>2, <3>1
  <2>4. QED
    BY <1>7, <1>a, <2>3 DEF RecvBatch, TaskRecords
<1>8. CASE Heartbeat
  <2>1. "bundles" \in Streams
    BY <1>8, StreamsAre DEF Heartbeat
  <2>2. <<[to |-> "bundles", message |-> Beat]>> \in Seq(Postings)
    BY <2>1, MessageHas DEF Postings
  <2>3. task' = [task EXCEPT !.pending = <<[to |-> "bundles", message |-> Beat]>>]
    BY <1>8 DEF Heartbeat
  <2>4. task' \in TaskRecords
    BY ONLY RecordsStay, <1>r, <2>2, <2>3
  <2>5. noticed' \in NoticedRecords
    <3>1. noticed' = [noticed EXCEPT !.beats = noticed.beats + 1] /\ noticed.beats + 1 \in Nat
      BY <1>8 DEF Heartbeat
    <3>2. QED
      BY ONLY RecordsStay, <1>r, <3>1
  <2>6. QED
    BY <1>8, <1>a, <2>4, <2>5 DEF Heartbeat, TaskRecords, NoticedRecords
<1>9. CASE Send
  <2>1. Head(task.pending) \in Postings /\ Tail(task.pending) \in Seq(Postings)
    BY <1>9 DEF Send
  <2>2. Head(task.pending).to \in Streams /\ Head(task.pending).message \in StreamMessages
    BY <2>1 DEF Postings
  <2>3. task' \in [state : {"off", "connected", "receiving", "ended"}, next : Nat, from : Nat, pending : Seq(Postings)]
    BY <1>9, <2>1 DEF Send
  <2>4. streams' \in [Streams -> [connected : BOOLEAN, channel : Seq(StreamMessages)]]
    <3> DEFINE to == Head(task.pending).to
               longer == Append(streams[to].channel, Head(task.pending).message)
    <3>1. streams[to] \in StreamRecords /\ longer \in Seq(StreamMessages)
      BY <2>2 DEF StreamRecords
    <3>2. [streams[to] EXCEPT !.channel = longer] \in StreamRecords
      BY ONLY <3>1, RecordsStay
    <3>3. \/ streams' = streams
          \/ streams' = [streams EXCEPT ![to] = [streams[to] EXCEPT !.channel = longer]]
      BY <1>9 DEF Send
    <3> HIDE DEF to, longer
    <3>4. QED
      BY <2>2, <3>2, <3>3 DEF StreamRecords
  <2>5. QED
    BY <1>9, <1>a, <2>3, <2>4 DEF Send
<1>10. ASSUME NEW s \in Streams, Read(s) PROVE StreamsTyped'
  <2>1. Head(streams[s].channel) \in StreamMessages /\ Tail(streams[s].channel) \in Seq(StreamMessages)
    BY <1>10 DEF Read
  <2>2. streams' \in [Streams -> [connected : BOOLEAN, channel : Seq(StreamMessages)]]
    <3>1. [streams[s] EXCEPT !.channel = Tail(streams[s].channel)] \in [connected : BOOLEAN, channel : Seq(StreamMessages)]
      BY <2>1
    <3>2. streams' = [streams EXCEPT ![s].channel = Tail(@)]
      BY <1>10 DEF Read
    <3>3. QED
      BY <3>1, <3>2
  <2>3. seen_by_peer' \in [Streams -> Seq(StreamMessages)]
    <3>1. Append(seen_by_peer[s], Head(streams[s].channel)) \in Seq(StreamMessages)
      BY <2>1
    <3>2. QED
      BY <1>10, <3>1 DEF Read
  <2>4. QED
    BY <1>10, <1>a, <2>2, <2>3 DEF Read
<1>11. ASSUME NEW s \in Streams, Disconnect(s) PROVE StreamsTyped'
  <2>1. [connected |-> FALSE, channel |-> <<>>] \in [connected : BOOLEAN, channel : Seq(StreamMessages)]
    OBVIOUS
  <2>2. streams' \in [Streams -> [connected : BOOLEAN, channel : Seq(StreamMessages)]]
    BY <1>11, <2>1 DEF Disconnect
  <2>3. QED
    BY <1>11, <1>a, <2>2 DEF Disconnect
<1>12. CASE UNCHANGED streamsVars
  BY <1>12, <1>a DEF streamsVars
<1>13. QED
  BY <1>1, <1>2, <1>3, <1>4, <1>5, <1>6, <1>7, <1>8, <1>9, <1>10, <1>11, <1>12
     DEF StreamsNext, SubscribeBam, SubscribeGravity, SubscribeRakurai, SubscriptionTask, StreamsIdle

LEMMA GrantsStep == StreamsTyped /\ Grants /\ [StreamsNext]_streamsVars => Grants'
<1> SUFFICES ASSUME StreamsTyped, Grants, [StreamsNext]_streamsVars PROVE Grants'
  OBVIOUS
<1>0. /\ sessions \in SessionRecords /\ sessions.nonce \in Nat
      /\ noticed.issued \in Seq([pubkey : Pubkeys, challenge : Nat, signer : Pubkeys])
      /\ noticed \in NoticedRecords
      /\ DOMAIN sessions.challenges = Pubkeys
  BY DEF StreamsTyped, SessionRecords, NoticedRecords
<1>i. \A i \in DOMAIN noticed.issued : noticed.issued[i].challenge \in Nat
  <2> DEFINE IssuedRows == [pubkey : Pubkeys, challenge : Nat, signer : Pubkeys]
             rows == noticed.issued
  <2>1. rows \in Seq(IssuedRows) /\ \A row \in IssuedRows : row.challenge \in Nat
    BY <1>0
  <2> HIDE DEF IssuedRows, rows
  <2>2. \A i \in DOMAIN rows : rows[i] \in IssuedRows
    BY ONLY <2>1
  <2>3. QED
    BY <2>1, <2>2 DEF rows
<1>1. ASSUME sessions' = sessions, noticed'.issued = noticed.issued,
             mock' = mock, mock = "gravity" /\ task'.state # "off" => task.state # "off" \/ sessions.tokens # {}
      PROVE  Grants'
  BY <1>1 DEF Grants, Granted
<1>2. ASSUME NEW pubkey \in Pubkeys, Challenge(pubkey) PROVE Grants'
  <2>1. /\ sessions'.nonce = sessions.nonce + 1 /\ sessions'.tokens = sessions.tokens
        /\ \A k \in Pubkeys : sessions'.challenges[k] = IF k = pubkey THEN {sessions.nonce} ELSE sessions.challenges[k]
        /\ noticed' = noticed /\ mock' = mock /\ task' = task
    BY <1>0, <1>2 DEF Challenge, SessionRecords
  <2>2. sessions'.tokens \subseteq 0..sessions'.nonce
    BY <1>0, <2>1 DEF Grants
  <2>3. ASSUME NEW k \in Pubkeys, NEW c \in sessions'.challenges[k]
        PROVE  /\ c < sessions'.nonce
               /\ \A l \in Pubkeys : c \in sessions'.challenges[l] => k = l
               /\ \A i \in DOMAIN noticed.issued : noticed.issued[i].challenge # c
    <3>1. sessions.challenges[k] \subseteq Nat
      BY DEF StreamsTyped
    <3>2. CASE k = pubkey
      BY <1>0, <2>1, <2>3, <3>1, <3>2 DEF Grants
    <3>3. CASE k # pubkey
      BY <1>0, <2>1, <2>3, <3>1, <3>3 DEF Grants
    <3>4. QED
      BY <3>2, <3>3
  <2>4. \A i \in DOMAIN noticed.issued : noticed.issued[i].challenge \in Nat /\ noticed.issued[i].challenge < sessions'.nonce
    BY <1>0, <1>i, <2>1 DEF Grants
  <2>5. QED
    BY <2>1, <2>2, <2>3, <2>4 DEF Grants, Granted
<1>3. ASSUME NEW pubkey \in Pubkeys, NEW signer \in Pubkeys, NEW c \in 0..MaxNonce, Answer(pubkey, c, signer)
      PROVE  Grants'
  <2>1. /\ \A k \in Pubkeys : sessions'.challenges[k] = IF k = pubkey THEN {} ELSE sessions.challenges[k]
        /\ mock' = mock /\ task' = task
    BY <1>0, <1>3 DEF Answer, SessionRecords
  <2>2. CASE ~ (c \in sessions.challenges[pubkey] /\ signer = pubkey)
    <3>1. sessions'.nonce = sessions.nonce /\ sessions'.tokens = sessions.tokens /\ noticed' = noticed
      BY <1>0, <1>3, <2>2 DEF Answer, SessionRecords
    <3>2. QED
      BY <2>1, <3>1 DEF Grants, Granted
  <2>3. CASE c \in sessions.challenges[pubkey] /\ signer = pubkey
    <3> DEFINE row == [pubkey |-> pubkey, challenge |-> c, signer |-> signer]
    <3>1. /\ sessions'.nonce = sessions.nonce + 2 /\ sessions'.tokens = sessions.tokens \cup {sessions.nonce}
          /\ noticed'.issued = Append(noticed.issued, row)
      BY <1>0, <1>3, <2>3 DEF Answer, SessionRecords, NoticedRecords
    <3>2. /\ DOMAIN noticed'.issued = DOMAIN noticed.issued \cup {Len(noticed.issued) + 1}
          /\ \A i \in DOMAIN noticed.issued : noticed'.issued[i] = noticed.issued[i]
          /\ noticed'.issued[Len(noticed.issued) + 1] = row
          /\ noticed'.issued # <<>>
      BY SMTT(30), <1>0, <3>1
    <3>3. row.challenge = c /\ row.signer = row.pubkey
      BY <2>3
    <3> HIDE DEF row
    <3>4. c \in Nat /\ c < sessions.nonce /\ \A i \in DOMAIN noticed.issued : noticed.issued[i].challenge # c
      BY <2>3, PostpackStreamsAssumption DEF Grants
    <3>5. sessions'.tokens \subseteq 0..sessions'.nonce
      BY <1>0, <3>1 DEF Grants
    <3>6. ASSUME NEW k \in Pubkeys, NEW d \in sessions'.challenges[k]
          PROVE  /\ d < sessions'.nonce
                 /\ \A l \in Pubkeys : d \in sessions'.challenges[l] => k = l
                 /\ \A i \in DOMAIN noticed'.issued : noticed'.issued[i].challenge # d
      <4>1. k # pubkey /\ d \in sessions.challenges[k] /\ d \in Nat
        BY <2>1, <3>6 DEF StreamsTyped
      <4>2. d # c
        BY <2>3, <4>1 DEF Grants
      <4>3. d < sessions'.nonce
        BY <1>0, <3>1, <4>1 DEF Grants
      <4>4. \A l \in Pubkeys : d \in sessions'.challenges[l] => k = l
        BY <2>1, <4>1 DEF Grants
      <4>5. \A i \in DOMAIN noticed'.issued : noticed'.issued[i].challenge # d
        BY <3>2, <3>3, <4>1, <4>2 DEF Grants
      <4>6. QED
        BY <4>3, <4>4, <4>5
    <3>7. \A i \in DOMAIN noticed'.issued : noticed'.issued[i].challenge < sessions'.nonce
      <4>1. \A i \in DOMAIN noticed.issued : noticed.issued[i].challenge \in Nat /\ noticed.issued[i].challenge < sessions.nonce
        BY <1>i DEF Grants
      <4>2. QED
        BY <1>0, <3>1, <3>2, <3>3, <3>4, <4>1
    <3>8. /\ \A i \in DOMAIN noticed'.issued : noticed'.issued[i].signer = noticed'.issued[i].pubkey
          /\ \A i, j \in DOMAIN noticed'.issued : noticed'.issued[i].challenge = noticed'.issued[j].challenge => i = j
      BY <3>2, <3>3, <3>4 DEF Grants, Granted
    <3>9. QED
      BY <2>1, <3>2, <3>5, <3>6, <3>7, <3>8 DEF Grants, Granted
  <2>4. QED
    BY <2>2, <2>3
<1>4. CASE Tick
  BY <1>1, <1>4 DEF Tick
<1>5. ASSUME NEW pubkey \in Pubkeys, NEW signer \in Pubkeys, SubscribeBam(pubkey, signer) PROVE Grants'
  BY <1>1, <1>5 DEF SubscribeBam, Opened
<1>6. ASSUME NEW token \in 0..MaxNonce, SubscribeGravity(token) PROVE Grants'
  BY <1>1, <1>6 DEF SubscribeGravity, Opened
<1>7. CASE ConnectRakurai \/ Refused \/ SubscribeRakurai
  BY <1>1, <1>7 DEF ConnectRakurai, Refused, SubscribeRakurai, Opened
<1>8. CASE SubscriptionTask
  <2>1. noticed'.issued = noticed.issued
    BY <1>0, <1>8 DEF SubscriptionTask, RecvLagged, RecvBatch, Heartbeat, Send, NoticedRecords
  <2>2. QED
    BY <1>1, <1>8, <2>1 DEF SubscriptionTask, RecvLagged, RecvBatch, Heartbeat, Send
<1>9. CASE \E s \in Streams : Read(s) \/ Disconnect(s)
  BY <1>1, <1>9 DEF Read, Disconnect
<1>10. CASE UNCHANGED streamsVars
  BY <1>1, <1>10 DEF streamsVars
<1>11. QED
  BY <1>2, <1>3, <1>4, <1>5, <1>6, <1>7, <1>8, <1>9, <1>10 DEF StreamsNext, StreamsIdle

\* Only a message that is sent and a peer that goes change what a stream carried.
LEMMA CarriedStays ==
  ASSUME StreamsTyped
  PROVE  /\ mock' = mock /\ UNCHANGED <<streams, seen_by_peer>> =>
                Streams' = Streams /\ \A s \in Streams : Carried(s)' = Carried(s) /\ BatchPlaces(s)' = BatchPlaces(s)
         /\ \A s \in Streams : Read(s) =>
                Streams' = Streams /\ \A t \in Streams : Carried(t)' = Carried(t) /\ BatchPlaces(t)' = BatchPlaces(t)
         /\ Opened /\ mock' = mock =>
                Streams' = Streams /\ \A s \in Streams : Carried(s)' = Carried(s) /\ BatchPlaces(s)' = BatchPlaces(s)
<1>1. ASSUME mock' = mock, UNCHANGED <<streams, seen_by_peer>>
      PROVE  Streams' = Streams /\ \A s \in Streams : Carried(s)' = Carried(s) /\ BatchPlaces(s)' = BatchPlaces(s)
  BY <1>1 DEF Streams, Carried, BatchPlaces
<1>2. ASSUME NEW s \in Streams, Read(s)
      PROVE  Streams' = Streams /\ \A t \in Streams : Carried(t)' = Carried(t) /\ BatchPlaces(t)' = BatchPlaces(t)
  <2> DEFINE q == seen_by_peer[s]
             c == streams[s].channel
  <2>1. q \in Seq(StreamMessages) /\ c \in Seq(StreamMessages) /\ c # <<>>
    BY <1>2 DEF StreamsTyped, Read
  <2>2. seen_by_peer'[s] = Append(q, Head(c)) /\ streams'[s].channel = Tail(c)
    BY <1>2 DEF StreamsTyped, Read
  <2>3. \A t \in Streams : t # s => seen_by_peer'[t] = seen_by_peer[t] /\ streams'[t] = streams[t]
    BY <1>2 DEF StreamsTyped, Read
  <2> HIDE DEF q, c
  <2>4. Append(q, Head(c)) \o Tail(c) = q \o c
    BY <2>1
  <2>5. Streams' = Streams
    BY <1>2 DEF Read, Streams
  <2>6. \A t \in Streams : Carried(t)' = Carried(t)
    BY <2>2, <2>3, <2>4 DEF Carried, q, c
  <2>7. QED
    BY <2>5, <2>6 DEF BatchPlaces
<1>3. ASSUME Opened, mock' = mock
      PROVE  Streams' = Streams /\ \A s \in Streams : Carried(s)' = Carried(s) /\ BatchPlaces(s)' = BatchPlaces(s)
  <2>1. \A s \in Streams : streams'[s].channel = streams[s].channel /\ seen_by_peer' = seen_by_peer
    BY <1>3 DEF Opened, StreamsTyped
  <2>2. QED
    BY <1>3, <2>1 DEF Streams, Carried, BatchPlaces
<1>4. QED
  BY <1>1, <1>2, <1>3

\* A peer that goes leaves of its stream what it read.
LEMMA CarriedRest ==
  ASSUME StreamsTyped, NEW s \in Streams, Disconnect(s)
  PROVE  /\ Streams' = Streams /\ \A t \in Streams \ {s} : Carried(t)' = Carried(t)
         /\ Carried(s)' = seen_by_peer[s]
         /\ streams' = [streams EXCEPT ![s] = [connected |-> FALSE, channel |-> <<>>]]
         /\ UNCHANGED <<mock, repeat, task, noticed, seen_by_peer>>
<1>1. /\ streams'[s].channel = <<>> /\ seen_by_peer' = seen_by_peer /\ mock' = mock
      /\ \A t \in Streams \ {s} : streams'[t].channel = streams[t].channel
  BY DEF Disconnect, StreamsTyped
<1>2. seen_by_peer[s] \in Seq(StreamMessages)
  BY DEF StreamsTyped
<1>3. seen_by_peer[s] \o <<>> = seen_by_peer[s]
  BY <1>2
<1>4. QED
  BY <1>1, <1>3 DEF Disconnect, Streams, Carried

LEMMA CarriedGrows ==
  ASSUME StreamsTyped, Send, NEW to, to = Head(task.pending).to
  PROVE  LET next == Head(task.pending) IN
         /\ Streams' = Streams /\ to \in Streams /\ next.message \in StreamMessages
         /\ \/ /\ ~ streams[to].connected /\ streams' = streams /\ task' = [task EXCEPT !.state = "ended"]
               /\ \A t \in Streams : Carried(t)' = Carried(t)
            \/ /\ streams[to].connected
               /\ \A t \in Streams \ {to} : Carried(t)' = Carried(t)
               /\ Carried(to)' = Append(Carried(to), next.message)
               /\ \A t \in Streams : streams'[t].connected = streams[t].connected
               /\ \A t \in Streams \ {to} : streams'[t] = streams[t]
               /\ Len(streams'[to].channel) = Len(streams[to].channel) + 1
               /\ Len(streams[to].channel) < STREAM_CAPACITY
               /\ task' = [task EXCEPT !.pending = Tail(@), !.state = IF next.message = Lagged THEN "ended" ELSE @]
         /\ seen_by_peer' = seen_by_peer
<1> DEFINE next == Head(task.pending)
<1>1. task.pending \in Seq(Postings) /\ task.pending # <<>>
  BY DEF StreamsTyped, Send
<1>2. to \in Streams /\ next.message \in StreamMessages
  <2>1. next \in Postings
    BY <1>1
  <2>2. QED
    BY <2>1 DEF Postings
<1>3. Streams' = Streams
  BY DEF Send, Streams
<1>4. CASE ~ streams[to].connected
  <2>1. streams' = streams /\ task' = [task EXCEPT !.state = "ended"] /\ seen_by_peer' = seen_by_peer
    BY <1>4 DEF Send
  <2>2. QED
    BY <1>2, <1>3, <1>4, <2>1 DEF Carried
<1>5. CASE streams[to].connected
  <2>1. /\ streams' = [streams EXCEPT ![to].channel = Append(@, next.message)]
        /\ task' = [task EXCEPT !.pending = Tail(@), !.state = IF next.message = Lagged THEN "ended" ELSE @]
        /\ seen_by_peer' = seen_by_peer
        /\ Len(streams[to].channel) < STREAM_CAPACITY
    BY <1>5 DEF Send
  <2>2. /\ streams \in [Streams -> [connected : BOOLEAN, channel : Seq(StreamMessages)]]
        /\ seen_by_peer[to] \in Seq(StreamMessages) /\ streams[to].channel \in Seq(StreamMessages)
    BY <1>2 DEF StreamsTyped
  <2> HIDE DEF next
  <2>3. /\ streams'[to].channel = Append(streams[to].channel, next.message)
        /\ \A t \in Streams \ {to} : streams'[t] = streams[t]
        /\ \A t \in Streams : streams'[t].connected = streams[t].connected
    BY <1>2, <2>1, <2>2
  <2>4. Carried(to)' = seen_by_peer[to] \o Append(streams[to].channel, next.message)
    BY <2>1, <2>3 DEF Carried
  <2>5. seen_by_peer[to] \o Append(streams[to].channel, next.message) = Append(Carried(to), next.message)
    <3> DEFINE q == seen_by_peer[to]
               c == streams[to].channel
               m == next.message
    <3>1. q \in Seq(StreamMessages) /\ c \in Seq(StreamMessages) /\ m \in StreamMessages
      BY <1>2, <2>2 DEF next
    <3> HIDE DEF q, c, m
    <3>2. q \o Append(c, m) = Append(q \o c, m)
      BY ONLY <3>1
    <3>3. QED
      BY ONLY <3>2 DEF Carried, q, c, m
  <2>6. \A t \in Streams \ {to} : Carried(t)' = Carried(t)
    BY <2>1, <2>3 DEF Carried
  <2>7. Len(streams'[to].channel) = Len(streams[to].channel) + 1
    <3> DEFINE c == streams[to].channel
               m == next.message
    <3>1. c \in Seq(StreamMessages) /\ m \in StreamMessages
      BY <1>2, <2>2 DEF next
    <3> HIDE DEF c, m
    <3>2. Len(Append(c, m)) = Len(c) + 1
      BY ONLY <3>1
    <3>3. QED
      BY ONLY <2>3, <3>2 DEF c, m
  <2>8. QED
    BY <1>2, <1>3, <1>5, <2>1, <2>3, <2>4, <2>5, <2>6, <2>7 DEF next
<1>6. QED
  BY <1>4, <1>5

LEMMA UnopenedStep == StreamsTyped /\ Unopened /\ [StreamsNext]_streamsVars => Unopened'
<1> SUFFICES ASSUME StreamsTyped, Unopened, [StreamsNext]_streamsVars PROVE Unopened'
  OBVIOUS
<1>t. task \in [state : {"off", "connected", "receiving", "ended"}, next : Nat, from : Nat, pending : Seq(Postings)]
  BY DEF StreamsTyped
<1>1. ASSUME task' = task, noticed'.skipped = noticed.skipped, mock' = mock,
             UNCHANGED <<streams, seen_by_peer>>
      PROVE  Unopened'
  BY <1>1, CarriedStays DEF Unopened
<1>2. ASSUME task'.state \in {"receiving", "ended"} PROVE Unopened'
  BY <1>2 DEF Unopened
<1>3. CASE Tick
  BY <1>1, <1>3 DEF Tick
<1>4. CASE \E pubkey \in Pubkeys : Challenge(pubkey)
  BY <1>1, <1>4 DEF Challenge
<1>5. CASE \E pubkey \in Pubkeys, signer \in Pubkeys, c \in 0..MaxNonce : Answer(pubkey, c, signer)
  <2>1. noticed'.skipped = noticed.skipped
    BY <1>5 DEF Answer, StreamsTyped
  <2>2. QED
    BY <1>1, <1>5, <2>1 DEF Answer
<1>6. CASE Opened
  BY <1>2, <1>6, <1>t DEF Opened
<1>7. CASE ConnectRakurai
  <2>1. /\ task'.pending = task.pending /\ task'.next = task.next /\ task'.from = task.from
        /\ task.state = "off" /\ noticed' = noticed /\ mock' = mock /\ UNCHANGED <<streams, seen_by_peer>>
    BY <1>7, <1>t DEF ConnectRakurai
  <2>2. QED
    BY <2>1, CarriedStays DEF Unopened
<1>8. CASE Refused
  BY <1>2, <1>8, <1>t DEF Refused
<1>9. CASE SubscriptionTask
  <2>1. task'.state \in {"receiving", "ended"}
    BY <1>9, <1>t DEF SubscriptionTask, RecvLagged, RecvBatch, Heartbeat, Send
  <2>2. QED
    BY <1>2, <2>1
<1>10. CASE \E s \in Streams : Read(s) \/ Disconnect(s)
  <2>1. PICK s \in Streams : streams[s].connected
    BY <1>10 DEF Read, Disconnect
  <2>2. task' = task /\ task.state \notin {"off", "connected"}
    BY <1>10, <2>1 DEF Unopened, Read, Disconnect
  <2>3. QED
    BY <1>t, <1>2, <2>2
<1>11. CASE UNCHANGED streamsVars
  BY <1>1, <1>11 DEF streamsVars
<1>12. QED
  BY <1>3, <1>4, <1>5, <1>6, <1>7, <1>8, <1>9, <1>10, <1>11
     DEF StreamsNext, SubscribeBam, SubscribeGravity, SubscribeRakurai, StreamsIdle

LEMMA WithinStep == StreamsTyped /\ Within /\ [StreamsNext]_streamsVars => Within'
<1> SUFFICES ASSUME StreamsTyped, Within, [StreamsNext]_streamsVars PROVE Within'
  OBVIOUS
<1>t. /\ task \in [state : {"off", "connected", "receiving", "ended"}, next : Nat, from : Nat, pending : Seq(Postings)]
      /\ produced \in Nat /\ task.from \in Nat /\ task.next \in Nat /\ task.from <= task.next /\ task.next <= produced
      /\ \A s \in Streams : Len(streams[s].channel) \in Nat
      /\ streams \in [Streams -> [connected : BOOLEAN, channel : Seq(StreamMessages)]]
  BY DEF StreamsTyped, Within
<1>1. ASSUME task'.from \in Nat, task'.next \in Nat, produced' \in Nat, task'.from <= task'.next, task'.next <= produced', mock' = mock,
             \A s \in Streams : streams'[s].channel = streams[s].channel
      PROVE  Within'
  BY <1>1 DEF Within, Streams
<1>2. CASE Tick
  BY <1>1, <1>2, <1>t DEF Tick
<1>3. CASE Opened /\ mock' = mock
  BY <1>1, <1>3, <1>t DEF Opened
<1>4. CASE ConnectRakurai \/ Refused
  BY <1>1, <1>4, <1>t DEF ConnectRakurai, Refused
<1>5. CASE RecvLagged
  <2>1. Oldest \in Nat /\ Oldest <= produced
    BY <1>t, PostpackStreamsAssumption DEF Oldest
  <2>2. task'.from = task.from /\ task'.next = Oldest /\ task.next < Oldest /\ UNCHANGED <<mock, streams, produced>>
    BY <1>5, <1>t DEF RecvLagged
  <2>3. QED
    BY <1>1, <1>t, <2>1, <2>2
<1>6. CASE RecvBatch
  <2>1. task'.from = task.from /\ task'.next = task.next + 1 /\ task.next < produced /\ UNCHANGED <<mock, streams, produced>>
    BY <1>6, <1>t DEF RecvBatch
  <2>2. QED
    BY <1>1, <1>t, <2>1
<1>7. CASE Heartbeat
  BY <1>1, <1>7, <1>t DEF Heartbeat
<1>8. CASE Send
  <2> DEFINE to == Head(task.pending).to
  <2>1. task'.from = task.from /\ task'.next = task.next /\ produced' = produced
    BY <1>8, <1>t DEF Send
  <2>2. /\ Streams' = Streams /\ to \in Streams
        /\ \A t \in Streams \ {to} : streams'[t] = streams[t]
        /\ Len(streams'[to].channel) <= STREAM_CAPACITY
    <3>1. Len(streams[to].channel) < STREAM_CAPACITY => Len(streams[to].channel) + 1 <= STREAM_CAPACITY
      <4>1. to \in Streams
        BY <1>8, CarriedGrows
      <4>2. QED
        BY <1>t, <4>1, PostpackStreamsAssumption
    <3>2. QED
      BY <1>8, <3>1, CarriedGrows DEF Within
  <2> HIDE DEF to
  <2>3. QED
    BY <1>t, <2>1, <2>2 DEF Within
<1>9. ASSUME NEW s \in Streams, Read(s) PROVE Within'
  <2>1. /\ streams[s].channel \in Seq(StreamMessages) /\ streams[s].channel # <<>>
        /\ streams'[s].channel = Tail(streams[s].channel)
        /\ \A t \in Streams \ {s} : streams'[t] = streams[t]
        /\ UNCHANGED <<mock, task, produced>>
    BY <1>9, <1>t DEF Read
  <2>2. Len(streams'[s].channel) <= Len(streams[s].channel)
    BY <2>1
  <2>3. Len(streams'[s].channel) <= STREAM_CAPACITY
    BY <1>t, <2>1, <2>2, PostpackStreamsAssumption DEF Within
  <2>4. QED
    BY <2>1, <2>3 DEF Within, Streams
<1>10. ASSUME NEW s \in Streams, Disconnect(s) PROVE Within'
  <2>1. /\ streams'[s].channel = <<>>
        /\ \A t \in Streams \ {s} : streams'[t] = streams[t]
        /\ UNCHANGED <<mock, task, produced>>
    BY <1>10, <1>t DEF Disconnect
  <2>2. Len(streams'[s].channel) <= STREAM_CAPACITY
    BY <2>1, PostpackStreamsAssumption
  <2>3. QED
    BY <2>1, <2>2 DEF Within, Streams
<1>11. CASE UNCHANGED <<mock, produced, task, streams>>
  BY <1>1, <1>11, <1>t
<1>12. QED
  BY <1>2, <1>3, <1>4, <1>5, <1>6, <1>7, <1>8, <1>9, <1>10, <1>11
     DEF StreamsNext, SubscribeBam, SubscribeGravity, SubscribeRakurai, SubscriptionTask, StreamsIdle, Challenge, Answer, Opened, streamsVars

\* The batch messages of a sequence, and how many of them precede a place.
BatchesAt(q) == {i \in DOMAIN q : q[i].kind = "batch"}
BeforeAt(q, i) == Cardinality({j \in BatchesAt(q) : j < i})

LEMMA BatchesAre ==
  ASSUME NEW s
  PROVE  BatchPlaces(s) = BatchesAt(Carried(s)) /\ \A i : Before(s, i) = BeforeAt(Carried(s), i)
BY DEF BatchPlaces, Before, BatchesAt, BeforeAt

LEMMA BatchesFinite ==
  ASSUME NEW S, NEW q \in Seq(S)
  PROVE  /\ BatchesAt(q) \subseteq 1..Len(q) /\ IsFiniteSet(BatchesAt(q)) /\ Cardinality(BatchesAt(q)) \in Nat
         /\ \A i : BeforeAt(q, i) \in Nat
<1>1. BatchesAt(q) \subseteq 1..Len(q)
  BY DEF BatchesAt
<1>2. IsFiniteSet(1..Len(q))
  BY FS_Interval
<1>3. \A T \in SUBSET (1..Len(q)) : IsFiniteSet(T) /\ Cardinality(T) \in Nat
  BY <1>2, FS_Subset, FS_CardinalityType
<1>4. \A i : {j \in BatchesAt(q) : j < i} \in SUBSET (1..Len(q))
  BY <1>1
<1>5. QED
  BY <1>1, <1>3, <1>4 DEF BeforeAt

\* One more message.
LEMMA BatchesGrow ==
  ASSUME NEW S, NEW q \in Seq(S), NEW m \in S
  PROVE  LET r == Append(q, m) IN
         /\ r \in Seq(S) /\ Len(r) = Len(q) + 1 /\ r[Len(q) + 1] = m
         /\ DOMAIN r = DOMAIN q \cup {Len(q) + 1} /\ Len(q) + 1 \notin DOMAIN q
         /\ \A i \in DOMAIN q : r[i] = q[i] /\ i < Len(q) + 1
         /\ \A i \in BatchesAt(q) : BeforeAt(r, i) = BeforeAt(q, i)
         /\ m.kind # "batch" => BatchesAt(r) = BatchesAt(q)
         /\ m.kind = "batch" =>
                /\ BatchesAt(r) = BatchesAt(q) \cup {Len(q) + 1}
                /\ BeforeAt(r, Len(q) + 1) = Cardinality(BatchesAt(q))
                /\ Cardinality(BatchesAt(r)) = Cardinality(BatchesAt(q)) + 1
<1> DEFINE r == Append(q, m)
<1>1. /\ r \in Seq(S) /\ Len(r) = Len(q) + 1 /\ r[Len(q) + 1] = m /\ Len(q) \in Nat
      /\ DOMAIN r = DOMAIN q \cup {Len(q) + 1} /\ Len(q) + 1 \notin DOMAIN q
      /\ \A i \in DOMAIN q : r[i] = q[i] /\ i < Len(q) + 1 /\ i \in Nat
  OBVIOUS
<1> HIDE DEF r
<1>2. BatchesAt(r) = IF m.kind = "batch" THEN BatchesAt(q) \cup {Len(q) + 1} ELSE BatchesAt(q)
  BY <1>1 DEF BatchesAt
<1>3. BatchesAt(q) \subseteq DOMAIN q /\ Len(q) + 1 \notin BatchesAt(q)
  BY <1>1 DEF BatchesAt
<1>4. ASSUME NEW i \in BatchesAt(q) PROVE BeforeAt(r, i) = BeforeAt(q, i)
  <2>1. {j \in BatchesAt(r) : j < i} = {j \in BatchesAt(q) : j < i}
    BY <1>1, <1>2, <1>3, <1>4
  <2>2. QED
    BY <2>1 DEF BeforeAt
<1>5. ASSUME m.kind = "batch"
      PROVE  /\ BeforeAt(r, Len(q) + 1) = Cardinality(BatchesAt(q))
             /\ Cardinality(BatchesAt(r)) = Cardinality(BatchesAt(q)) + 1
  <2>1. {j \in BatchesAt(r) : j < Len(q) + 1} = BatchesAt(q)
    BY <1>1, <1>2, <1>3, <1>5
  <2>2. IsFiniteSet(BatchesAt(q))
    BY BatchesFinite
  <2>3. QED
    BY <1>2, <1>3, <1>5, <2>1, <2>2, FS_AddElement DEF BeforeAt
<1>6. QED
  BY <1>1, <1>2, <1>4, <1>5 DEF r

\* Without the last messages.
LEMMA BatchesShrink ==
  ASSUME NEW S, NEW q \in Seq(S), NEW c \in Seq(S)
  PROVE  /\ DOMAIN q \subseteq DOMAIN (q \o c) /\ \A i \in DOMAIN q : (q \o c)[i] = q[i]
         /\ BatchesAt(q) \subseteq BatchesAt(q \o c)
         /\ \A i \in BatchesAt(q) : BeforeAt(q \o c, i) = BeforeAt(q, i)
<1> DEFINE r == q \o c
<1>1. /\ DOMAIN q \subseteq DOMAIN r /\ DOMAIN r \subseteq Nat /\ DOMAIN q = 1..Len(q) /\ Len(q) \in Nat
      /\ \A i \in DOMAIN q : r[i] = q[i]
  OBVIOUS
<1> HIDE DEF r
<1>2. BatchesAt(q) = BatchesAt(r) \cap DOMAIN q
  BY <1>1 DEF BatchesAt
<1>3. ASSUME NEW i \in BatchesAt(q) PROVE BeforeAt(r, i) = BeforeAt(q, i)
  <2>1. \A j \in DOMAIN r : j < i => j \in DOMAIN q
    <3>1. i \in 1..Len(q)
      BY <1>1, <1>2
    <3>2. \A j \in DOMAIN r : j \in 1..Len(r) /\ Len(r) \in Nat
      BY DEF r
    <3>3. QED
      BY <1>1, <3>1, <3>2
  <2>2. {j \in BatchesAt(r) : j < i} = {j \in BatchesAt(q) : j < i}
    BY <1>2, <2>1 DEF BatchesAt
  <2>3. QED
    BY <2>2 DEF BeforeAt
<1>4. QED
  BY <1>1, <1>2, <1>3 DEF r

LEMMA NextQuotient ==
  ASSUME NEW c \in Nat, NEW d \in Nat \ {0}
  PROVE  /\ c \div d \in Nat /\ c % d \in 0..d - 1
         /\ (c % d) + 1 < d => (c + 1) \div d = c \div d /\ (c + 1) % d = (c % d) + 1
         /\ (c % d) + 1 = d => (c + 1) \div d = (c \div d) + 1 /\ (c + 1) % d = 0
         /\ 0 \div d = 0 /\ 0 % d = 0
OBVIOUS

-----------------------------------------------------------------------------
(* BAM and Gravity: one stream, whose batches have no gap. *)

\* How many batch messages a stream carried.
Sent(s) == Cardinality(BatchPlaces(s))

\* The batches before the next one were sent whole.
Whole(s) == Sent(s) \div PerBatch = task.next - task.from /\ Sent(s) % PerBatch = 0

\* The last batch that was taken from the feed is being sent.
UnderWay(s) ==
    /\ task.pending # <<>> /\ task.from < task.next
    /\ Sent(s) \div PerBatch = task.next - 1 - task.from
    /\ (Sent(s) % PerBatch) + Len(task.pending) = PerBatch
    /\ \A i \in DOMAIN task.pending :
           task.pending[i] = [to |-> s, message |-> Message(task.next - 1, (Sent(s) % PerBatch) + i - 1)]

Regular(s) ==
    \A i \in BatchPlaces(s) :
        /\ Carried(s)[i].index = task.from + (Before(s, i) \div PerBatch)
        /\ Carried(s)[i].position = Before(s, i) % PerBatch

LagIsLast(s) ==
    \A i \in DOMAIN Carried(s) : Carried(s)[i] = Lagged =>
        i = Len(Carried(s)) /\ noticed.skipped # {} /\ task.state = "ended"

Continues(s) ==
    task.state = "receiving" /\ streams[s].connected =>
        \/ task.pending = <<>> /\ Whole(s)
        \/ task.pending = <<[to |-> s, message |-> Beat]>> /\ Whole(s)
        \/ task.pending = <<[to |-> s, message |-> Lagged]>> /\ noticed.skipped # {}
        \/ UnderWay(s)

Flows == mock # "rakurai" => \A s \in Streams : Regular(s) /\ LagIsLast(s) /\ Continues(s)

LEMMA FlowsContiguous ==
  ASSUME StreamsTyped, Flows, mock # "rakurai"
  PROVE  Contiguous
<1> SUFFICES ASSUME NEW s \in Streams
             PROVE  \A i \in DOMAIN seen_by_peer[s] : seen_by_peer[s][i] = Lagged =>
                        i = Len(seen_by_peer[s]) /\ streams[s].channel = <<>> /\ noticed.skipped # {}
  BY DEF Contiguous, Flows, Regular
<1> SUFFICES ASSUME NEW i \in DOMAIN seen_by_peer[s], seen_by_peer[s][i] = Lagged
             PROVE  i = Len(seen_by_peer[s]) /\ streams[s].channel = <<>> /\ noticed.skipped # {}
  OBVIOUS
<1> DEFINE q == seen_by_peer[s]
           c == streams[s].channel
<1>1. q \in Seq(StreamMessages) /\ c \in Seq(StreamMessages)
  BY DEF StreamsTyped
<1>2. Carried(s) = q \o c /\ i \in DOMAIN q /\ q[i] = Lagged
  BY DEF Carried
<1> HIDE DEF q, c
<1>3. i \in DOMAIN (q \o c) /\ (q \o c)[i] = q[i] /\ Len(q \o c) = Len(q) + Len(c) /\ i \in 1..Len(q)
  BY <1>1, <1>2
<1>4. i = Len(q) + Len(c) /\ noticed.skipped # {}
  BY <1>2, <1>3 DEF Flows, LagIsLast
<1>5. i = Len(q) /\ c = <<>>
  BY <1>1, <1>3, <1>4, EmptySeq
<1>6. QED
  BY <1>4, <1>5 DEF q, c

\* What a step leaves that touches neither the stream nor the task.
LEMMA FlowsStay ==
  ASSUME StreamsTyped, Flows, mock' = mock, repeat' = repeat, Streams' = Streams,
         \A s \in Streams : Carried(s)' = Carried(s) /\ streams'[s].connected = streams[s].connected,
         task' = task, noticed'.skipped = noticed.skipped
  PROVE  Flows'
<1> SUFFICES ASSUME mock # "rakurai", NEW s \in Streams PROVE Regular(s)' /\ LagIsLast(s)' /\ Continues(s)'
  BY DEF Flows
<1>1. Carried(s)' = Carried(s) /\ streams'[s].connected = streams[s].connected
  OBVIOUS
<1>2. PerBatch' = PerBatch /\ \A batch, position : Message(batch, position)' = Message(batch, position)
  BY DEF PerBatch, Message, TransactionsOf
<1>3. BatchPlaces(s)' = BatchPlaces(s) /\ \A i : Before(s, i)' = Before(s, i)
  BY <1>1 DEF BatchPlaces, Before
<1>4. Sent(s)' = Sent(s)
  BY <1>3 DEF Sent
<1>5. Regular(s)'
  BY <1>1, <1>2, <1>3 DEF Flows, Regular
<1>6. LagIsLast(s)'
  BY <1>1 DEF Flows, LagIsLast
<1>7. Continues(s)'
  BY <1>1, <1>2, <1>4 DEF Flows, Continues, Whole, UnderWay
<1>8. QED
  BY <1>5, <1>6, <1>7

\* A stream that carried nothing new, under a task that changed.
LEMMA FlowsTask ==
  ASSUME StreamsTyped, Flows, mock' = mock, repeat' = repeat, UNCHANGED <<streams, seen_by_peer>>,
         task'.from = task.from, task.state = "receiving", task'.state = "receiving",
         mock # "rakurai" => \A s \in Streams : Continues(s)'
  PROVE  Flows'
<1> SUFFICES ASSUME mock # "rakurai", NEW s \in Streams PROVE Regular(s)' /\ LagIsLast(s)'
  BY CarriedStays DEF Flows
<1>1. Carried(s)' = Carried(s) /\ BatchPlaces(s)' = BatchPlaces(s) /\ PerBatch' = PerBatch
  BY CarriedStays DEF PerBatch
<1>2. \A i : Before(s, i)' = Before(s, i)
  BY <1>1 DEF Before
<1>3. Regular(s)'
  BY <1>1, <1>2 DEF Flows, Regular
<1>4. \A i \in DOMAIN Carried(s) : Carried(s)[i] # Lagged
  BY DEF Flows, LagIsLast
<1>5. LagIsLast(s)'
  BY <1>1, <1>4 DEF LagIsLast, Lagged
<1>6. QED
  BY <1>3, <1>5

LEMMA FlowsOpened ==
  ASSUME StreamsTyped, Unopened, Flows, Opened
  PROVE  Flows'
<1> SUFFICES ASSUME mock # "rakurai", NEW s \in Streams PROVE Regular(s)' /\ LagIsLast(s)' /\ Continues(s)'
  BY CarriedStays DEF Flows, Opened
<1>1. Carried(s) = <<>> /\ task.pending = <<>>
  BY DEF Opened, Unopened
<1>2. Carried(s)' = <<>> /\ DOMAIN <<>> = {}
  BY <1>1, CarriedStays DEF Opened
<1>3. BatchPlaces(s)' = {}
  BY <1>2 DEF BatchPlaces
<1>4. Regular(s)' /\ LagIsLast(s)'
  BY <1>2, <1>3 DEF Regular, LagIsLast
<1>5. PerBatch' = PerBatch /\ PerBatch \in Nat \ {0}
  BY PostpackStreamsAssumption DEF Opened, PerBatch
<1>6. Sent(s)' = 0
  BY <1>3, FS_EmptySet DEF Sent
<1>7. 0 \div PerBatch = 0 /\ 0 % PerBatch = 0
  BY <1>5, NextQuotient
<1>8. task'.pending = <<>> /\ task'.next = produced /\ task'.from = produced
  BY <1>1 DEF Opened, StreamsTyped
<1>9. produced - produced = 0
  BY DEF StreamsTyped
<1>10. Whole(s)'
  BY <1>5, <1>6, <1>7, <1>8, <1>9 DEF Whole
<1>11. QED
  BY <1>4, <1>8, <1>10 DEF Continues

\* The messages of a batch are its transactions, or the batch whole.
LEMMA MessagesAre ==
  ASSUME StreamsTyped, mock # "rakurai", NEW batch \in Nat, NEW s \in Streams
  PROVE  /\ Messages(batch) \in Seq(Postings) /\ Len(Messages(batch)) = PerBatch
         /\ \A i \in DOMAIN Messages(batch) : Messages(batch)[i] = [to |-> s, message |-> Message(batch, 0 + i - 1)]
<1>0. Messages(batch) \in Seq(Postings)
  BY MessagesTyped
<1>1. CASE mock = "bam"
  <2>1. Messages(batch) = [i \in 1..BATCH_SIZE |-> [to |-> "preconf", message |-> Message(batch, i - 1)]]
    BY <1>1 DEF Messages
  <2>2. s = "preconf" /\ PerBatch = BATCH_SIZE /\ BATCH_SIZE \in Nat
    BY <1>1, StreamsAre, PostpackStreamsAssumption DEF PerBatch
  <2>3. \A i \in 1..BATCH_SIZE : 0 + i - 1 = i - 1
    BY <2>2
  <2>4. DOMAIN Messages(batch) = 1..BATCH_SIZE /\ Len(Messages(batch)) = BATCH_SIZE
    BY <1>0, <2>1, <2>2
  <2>5. QED
    BY <1>0, <2>1, <2>2, <2>3, <2>4
<1>2. CASE mock = "gravity"
  <2>1. Messages(batch) = <<[to |-> "bundles", message |-> Message(batch, 0)]>>
    BY <1>2 DEF Messages
  <2>2. s = "bundles" /\ PerBatch = 1
    BY <1>2, StreamsAre DEF PerBatch
  <2>3. DOMAIN Messages(batch) = {1} /\ Len(Messages(batch)) = 1 /\ 0 + 1 - 1 = 0
    BY <2>1
  <2>4. QED
    BY <1>0, <2>1, <2>2, <2>3
<1>3. QED
  BY <1>1, <1>2 DEF StreamsTyped

LEMMA FlowsSend ==
  ASSUME StreamsTyped, Flows, Send
  PROVE  Flows'
<1> SUFFICES ASSUME mock # "rakurai", NEW s \in Streams PROVE Regular(s)' /\ LagIsLast(s)' /\ Continues(s)'
  BY CarriedGrows DEF Flows, Send
<1> DEFINE first == Head(task.pending)
           m == first.message
           q == Carried(s)
<1>0. /\ task.state = "receiving" /\ task.pending # <<>> /\ task.pending \in Seq(Postings)
      /\ UNCHANGED <<mock, repeat, noticed>> /\ task.next \in Nat /\ task.from \in Nat
      /\ task \in [state : {"off", "connected", "receiving", "ended"}, next : Nat, from : Nat, pending : Seq(Postings)]
  BY DEF Send, StreamsTyped
<1>1. first \in Postings /\ first.to \in Streams /\ m \in StreamMessages
  <2>1. first \in Postings
    BY <1>0
  <2>2. QED
    BY <2>1 DEF Postings
<1>2. first.to = s
  BY <1>1, StreamsAre DEF StreamsTyped
<1>3. q \in Seq(StreamMessages)
  <2>1. seen_by_peer[s] \in Seq(StreamMessages) /\ streams[s].channel \in Seq(StreamMessages)
    BY DEF StreamsTyped
  <2>2. QED
    BY <2>1 DEF Carried
<1>4. /\ PerBatch' = PerBatch /\ PerBatch \in Nat \ {0}
      /\ \A batch, position : Message(batch, position)' = Message(batch, position)
  BY <1>0, PostpackStreamsAssumption DEF PerBatch, Message, TransactionsOf
<1>5. \A i \in DOMAIN q : q[i] # Lagged
  BY <1>0 DEF Flows, LagIsLast
<1>6. task'.from = task.from /\ task'.next = task.next
  BY <1>0 DEF Send
<1>7. CASE ~ streams[s].connected
  <2>1. Carried(s)' = Carried(s) /\ task'.state = "ended"
    BY <1>0, <1>2, <1>7, CarriedGrows
  <2>2. BatchPlaces(s)' = BatchPlaces(s) /\ \A i : Before(s, i)' = Before(s, i)
    BY <2>1 DEF BatchPlaces, Before
  <2>3. QED
    BY <1>4, <1>5, <1>6, <2>1, <2>2 DEF Flows, Regular, LagIsLast, Continues, Lagged
<1>8. CASE streams[s].connected
  <2>1. /\ Carried(s)' = Append(q, m)
        /\ task'.pending = Tail(task.pending)
        /\ task'.state = IF m = Lagged THEN "ended" ELSE "receiving"
        /\ streams'[s].connected = streams[s].connected
    BY <1>0, <1>2, <1>8, CarriedGrows
  <2> DEFINE r == Append(q, m)
  <2>2. /\ Len(r) = Len(q) + 1 /\ r[Len(q) + 1] = m
        /\ DOMAIN r = DOMAIN q \cup {Len(q) + 1} /\ Len(q) + 1 \notin DOMAIN q
        /\ \A i \in DOMAIN q : r[i] = q[i]
        /\ \A i \in BatchesAt(q) : BeforeAt(r, i) = BeforeAt(q, i)
        /\ m.kind # "batch" => BatchesAt(r) = BatchesAt(q)
        /\ m.kind = "batch" =>
               /\ BatchesAt(r) = BatchesAt(q) \cup {Len(q) + 1}
               /\ BeforeAt(r, Len(q) + 1) = Cardinality(BatchesAt(q))
               /\ Cardinality(BatchesAt(r)) = Cardinality(BatchesAt(q)) + 1
    <3> HIDE DEF q, m
    <3>1. q \in Seq(StreamMessages) /\ m \in StreamMessages
      BY <1>1, <1>3
    <3>2. QED
      BY ONLY <3>1, BatchesGrow
  <2>3. /\ BatchPlaces(s) = BatchesAt(q) /\ BatchPlaces(s)' = BatchesAt(r)
        /\ \A i : Before(s, i) = BeforeAt(q, i) /\ Before(s, i)' = BeforeAt(r, i)
        /\ Sent(s) = Cardinality(BatchesAt(q)) /\ Sent(s)' = Cardinality(BatchesAt(r))
    BY <2>1 DEF BatchPlaces, Before, BatchesAt, BeforeAt, Sent
  <2>4. BatchesAt(q) \subseteq DOMAIN q /\ Sent(s) \in Nat
    BY <1>3, <2>3, BatchesFinite DEF BatchesAt
  <2> HIDE DEF r
  <2>5. \A i \in BatchesAt(q) :
            /\ r[i].index = task.from + (BeforeAt(r, i) \div PerBatch)
            /\ r[i].position = BeforeAt(r, i) % PerBatch
    BY <2>2, <2>3, <2>4 DEF Flows, Regular
  <2>6. ASSUME m.kind = "batch" => m.index = task.from + (Sent(s) \div PerBatch) /\ m.position = Sent(s) % PerBatch
        PROVE  Regular(s)'
    <3>1. \A i \in BatchesAt(r) :
              /\ r[i].index = task.from + (BeforeAt(r, i) \div PerBatch)
              /\ r[i].position = BeforeAt(r, i) % PerBatch
      BY <2>2, <2>3, <2>5, <2>6
    <3>2. Carried(s)' = r
      BY <2>1 DEF r
    <3>3. QED
      BY <1>4, <1>6, <2>3, <3>1, <3>2 DEF Regular
  <2>7. ASSUME m = Lagged => noticed.skipped # {} PROVE LagIsLast(s)'
    <3>1. \A i \in DOMAIN r : r[i] = Lagged => i = Len(r) /\ m = Lagged
      BY <1>5, <2>2
    <3>2. Carried(s)' = r /\ Lagged' = Lagged
      BY <2>1 DEF r, Lagged
    <3>3. QED
      BY <1>0, <2>1, <2>7, <3>1, <3>2 DEF LagIsLast
  <2>8. CASE task.pending = <<[to |-> s, message |-> Beat]>> /\ Whole(s)
    <3>1. m = Beat /\ m.kind # "batch" /\ m # Lagged /\ task'.pending = <<>>
      BY <2>1, <2>8 DEF Beat, Lagged
    <3>2. Sent(s)' = Sent(s)
      BY <2>2, <2>3, <3>1
    <3>3. Whole(s)'
      BY <1>4, <1>6, <2>8, <3>2 DEF Whole
    <3>4. QED
      BY <2>6, <2>7, <3>1, <3>3 DEF Continues
  <2>9. CASE task.pending = <<[to |-> s, message |-> Lagged]>> /\ noticed.skipped # {}
    <3>1. m = Lagged /\ m.kind # "batch"
      BY <2>9 DEF Lagged
    <3>2. QED
      BY <2>1, <2>6, <2>7, <2>9, <3>1 DEF Continues
  <2>10. CASE UnderWay(s)
    <3> DEFINE c == Sent(s)
               d == PerBatch
               k == Len(task.pending)
    <3>1. /\ task.from < task.next /\ c \div d = task.next - 1 - task.from /\ (c % d) + k = d
          /\ \A i \in DOMAIN task.pending : task.pending[i] = [to |-> s, message |-> Message(task.next - 1, (c % d) + i - 1)]
      BY <2>10 DEF UnderWay
    <3>2. /\ c \in Nat /\ d \in Nat \ {0} /\ k \in Nat \ {0} /\ c \div d \in Nat /\ c % d \in 0..d - 1
          /\ (c % d) + 1 < d => (c + 1) \div d = c \div d /\ (c + 1) % d = (c % d) + 1
          /\ (c % d) + 1 = d => (c + 1) \div d = (c \div d) + 1 /\ (c + 1) % d = 0
      <4>1. k \in Nat \ {0}
        BY <1>0, EmptySeq
      <4>2. QED
        BY <1>4, <2>4, <4>1, NextQuotient
    <3>3. first = task.pending[1] /\ 1 \in DOMAIN task.pending
      BY <1>0, <3>2
    <3>4. m = Message(task.next - 1, c % d)
      <4>1. (c % d) + 1 - 1 = c % d
        BY <3>2
      <4>2. task.pending[1] = [to |-> s, message |-> Message(task.next - 1, (c % d) + 1 - 1)]
        BY <3>1, <3>3
      <4>3. m = task.pending[1].message
        BY <3>3
      <4>4. QED
        BY <4>1, <4>2, <4>3
    <3>5. m.kind = "batch" /\ m.index = task.next - 1 /\ m.position = c % d /\ m # Lagged
      BY <3>4, MessageHas
    <3> HIDE DEF c, d, k, m, q
    <3>6. task.next - 1 = task.from + (c \div d)
      BY <1>0, <3>1, <3>2
    <3>7. Sent(s)' = c + 1
      BY <2>2, <2>3, <3>5 DEF c
    <3>8. Regular(s)' /\ LagIsLast(s)'
      BY <2>6, <2>7, <3>5, <3>6 DEF c, d
    <3>9. CASE k = 1
      <4>1. task'.pending = <<>>
        <5> DEFINE p == task.pending
        <5>1. p \in Seq(Postings) /\ Len(p) = 1 /\ task'.pending = Tail(p)
          BY <1>0, <2>1, <3>9 DEF k
        <5> HIDE DEF p
        <5>2. Tail(p) = <<>>
          BY ONLY <5>1
        <5>3. QED
          BY ONLY <5>1, <5>2
      <4>2. (c % d) + 1 = d
        BY <3>1, <3>9
      <4>3. (c + 1) \div d = task.next - task.from /\ (c + 1) % d = 0
        <5> DEFINE e == c \div d
        <5>1. (c + 1) \div d = e + 1 /\ (c + 1) % d = 0 /\ e = task.next - 1 - task.from
          BY <3>1, <3>2, <4>2
        <5> HIDE DEF e
        <5>2. QED
          BY <1>0, <5>1
      <4>4. Whole(s)'
        BY <1>4, <1>6, <3>7, <4>3 DEF Whole, d
      <4>5. QED
        BY <3>8, <4>1, <4>4 DEF Continues
    <3>10. CASE k # 1
      <4>1. /\ task'.pending # <<>> /\ Len(task'.pending) = k - 1
            /\ \A i \in DOMAIN task'.pending : i + 1 \in DOMAIN task.pending /\ task'.pending[i] = task.pending[i + 1] /\ i \in Nat
        <5> DEFINE p == task.pending
        <5>1. p \in Seq(Postings) /\ Len(p) = k /\ k > 1 /\ task'.pending = Tail(p)
          <6>1. k > 1
            BY <3>2, <3>10
          <6>2. QED
            BY <1>0, <2>1, <6>1 DEF k
        <5> HIDE DEF p
        <5>2. /\ Tail(p) # <<>> /\ Len(Tail(p)) = k - 1
              /\ \A i \in DOMAIN Tail(p) : i + 1 \in DOMAIN p /\ Tail(p)[i] = p[i + 1] /\ i \in Nat
          BY ONLY <5>1
        <5>3. QED
          BY <5>1, <5>2 DEF p
      <4>2. (c % d) + 1 < d
        BY <3>1, <3>2, <3>10
      <4>3. (c + 1) \div d = c \div d /\ (c + 1) % d = (c % d) + 1 /\ ((c + 1) % d) + (k - 1) = d
        BY <3>1, <3>2, <4>2
      <4>4. \A i \in DOMAIN task'.pending :
                task'.pending[i] = [to |-> s, message |-> Message(task.next - 1, ((c + 1) % d) + i - 1)]
        <5>1. ASSUME NEW i \in DOMAIN task'.pending PROVE (c % d) + (i + 1) - 1 = ((c + 1) % d) + i - 1
          <6> DEFINE u == c % d
                     w == (c + 1) % d
          <6>1. i \in Nat /\ u \in Int /\ w = u + 1
            BY <3>2, <4>1, <4>3, <5>1
          <6> HIDE DEF u, w
          <6>2. u + (i + 1) - 1 = w + i - 1
            BY ONLY <6>1
          <6>3. QED
            BY ONLY <6>2 DEF u, w
        <5>2. QED
          BY <3>1, <4>1, <5>1
      <4>5. UnderWay(s)'
        BY <1>4, <1>6, <3>1, <3>7, <4>1, <4>3, <4>4 DEF UnderWay, d
      <4>6. QED
        BY <3>8, <4>5 DEF Continues
    <3>11. QED
      BY <3>9, <3>10
  <2>11. QED
    BY <1>0, <1>8, <2>8, <2>9, <2>10 DEF Flows, Continues
<1>9. QED
  BY <1>7, <1>8

LEMMA FlowsLeave ==
  ASSUME StreamsTyped, Flows, NEW s \in Streams, Disconnect(s)
  PROVE  Flows'
<1> SUFFICES ASSUME mock # "rakurai" PROVE Regular(s)' /\ LagIsLast(s)' /\ Continues(s)'
  <2>1. mock # "rakurai" => Streams = {s}
    BY StreamsAre DEF StreamsTyped
  <2>2. QED
    BY <2>1, CarriedRest DEF Flows
<1> DEFINE q == seen_by_peer[s]
           c == streams[s].channel
<1>1. q \in Seq(StreamMessages) /\ c \in Seq(StreamMessages) /\ Carried(s) = q \o c /\ Carried(s)' = q
  BY CarriedRest DEF StreamsTyped, Carried
<1>2. /\ ~ streams'[s].connected /\ task' = task /\ noticed' = noticed /\ PerBatch' = PerBatch /\ Lagged' = Lagged
  <2>1. streams' = [streams EXCEPT ![s] = [connected |-> FALSE, channel |-> <<>>]]
    BY CarriedRest
  <2>2. QED
    BY <2>1, CarriedRest DEF PerBatch, StreamsTyped, Lagged
<1>3. /\ BatchPlaces(s) = BatchesAt(q \o c) /\ BatchPlaces(s)' = BatchesAt(q)
      /\ \A i : Before(s, i) = BeforeAt(q \o c, i) /\ Before(s, i)' = BeforeAt(q, i)
  BY <1>1 DEF BatchPlaces, Before, BatchesAt, BeforeAt
<1> HIDE DEF q, c
<1>4. /\ DOMAIN q \subseteq DOMAIN (q \o c) /\ \A i \in DOMAIN q : (q \o c)[i] = q[i]
      /\ BatchesAt(q) \subseteq BatchesAt(q \o c) /\ BatchesAt(q) \subseteq DOMAIN q
      /\ \A i \in BatchesAt(q) : BeforeAt(q \o c, i) = BeforeAt(q, i)
  BY <1>1, BatchesShrink DEF BatchesAt
<1>5. Regular(s)'
  BY <1>1, <1>2, <1>3, <1>4 DEF Flows, Regular
<1>6. LagIsLast(s)'
  <2>1. ASSUME NEW i \in DOMAIN q, q[i] = Lagged PROVE i = Len(q) /\ noticed.skipped # {} /\ task.state = "ended"
    <3>1. i = Len(q \o c) /\ noticed.skipped # {} /\ task.state = "ended"
      BY <1>1, <1>4, <2>1 DEF Flows, LagIsLast
    <3>2. i \in 1..Len(q) /\ Len(q \o c) = Len(q) + Len(c) /\ Len(c) \in Nat /\ Len(q) \in Nat
      BY <1>1, <2>1
    <3>3. QED
      BY <3>1, <3>2
  <2>2. QED
    BY <1>1, <1>2, <2>1 DEF LagIsLast
<1>7. QED
  BY <1>2, <1>5, <1>6 DEF Continues

LEMMA FlowsStep ==
  StreamsTyped /\ Unopened /\ Within /\ Flows /\ [StreamsNext]_streamsVars => Flows'
<1> SUFFICES ASSUME StreamsTyped, Unopened, Within, Flows, [StreamsNext]_streamsVars PROVE Flows'
  OBVIOUS
<1>t. /\ task \in [state : {"off", "connected", "receiving", "ended"}, next : Nat, from : Nat, pending : Seq(Postings)]
      /\ PerBatch \in Nat \ {0} /\ task.from <= task.next /\ task.next \in Nat /\ task.from \in Nat
  BY PostpackStreamsAssumption DEF StreamsTyped, PerBatch, Within
<1>1. ASSUME task' = task, noticed'.skipped = noticed.skipped, mock' = mock, repeat' = repeat,
             UNCHANGED <<streams, seen_by_peer>>
      PROVE  Flows'
  BY <1>1, CarriedStays, FlowsStay
<1>2. CASE Tick
  BY <1>1, <1>2 DEF Tick
<1>3. CASE \E pubkey \in Pubkeys : Challenge(pubkey)
  BY <1>1, <1>3 DEF Challenge
<1>4. CASE \E pubkey \in Pubkeys, signer \in Pubkeys, c \in 0..MaxNonce : Answer(pubkey, c, signer)
  <2>1. noticed'.skipped = noticed.skipped
    BY <1>4 DEF Answer, StreamsTyped
  <2>2. QED
    BY <1>1, <1>4, <2>1 DEF Answer
<1>5. CASE Opened
  BY <1>5, FlowsOpened
<1>6. CASE ConnectRakurai \/ Refused
  BY <1>6 DEF ConnectRakurai, Refused, Flows
<1>7. CASE RecvLagged
  <2>1. /\ task.state = "receiving" /\ task'.state = "receiving" /\ task'.from = task.from /\ task'.pending = OnLag
        /\ task.next < Oldest /\ noticed'.skipped = noticed.skipped \cup task.next..Oldest - 1
        /\ UNCHANGED <<mock, repeat, streams, seen_by_peer>>
    BY <1>7, <1>t DEF RecvLagged, StreamsTyped
  <2>2. ASSUME mock # "rakurai", NEW s \in Streams PROVE Continues(s)'
    <3>1. (CHOOSE t \in Streams : TRUE) = s
      BY <2>2, StreamsAre DEF StreamsTyped
    <3>2. OnLag = <<[to |-> s, message |-> Lagged]>>
      BY <2>2, <3>1 DEF OnLag
    <3>3. Oldest \in Int
      BY PostpackStreamsAssumption DEF Oldest, StreamsTyped
    <3>4. task.next \in task.next..Oldest - 1
      BY <1>t, <2>1, <3>3
    <3>5. task'.pending = <<[to |-> s, message |-> Lagged']>> /\ noticed'.skipped # {}
      BY <2>1, <3>2, <3>4 DEF Lagged
    <3>6. QED
      BY <3>5 DEF Continues
  <2>3. QED
    BY <2>1, <2>2, FlowsTask
<1>8. CASE RecvBatch
  <2>1. /\ task.state = "receiving" /\ task'.state = "receiving" /\ task'.from = task.from
        /\ task.pending = <<>> /\ task'.pending = Messages(task.next) /\ task'.next = task.next + 1
        /\ UNCHANGED <<mock, repeat, streams, seen_by_peer>>
    BY <1>8, <1>t DEF RecvBatch
  <2>2. ASSUME mock # "rakurai", NEW s \in Streams PROVE Continues(s)'
    <3> SUFFICES ASSUME streams[s].connected PROVE UnderWay(s)'
      BY <2>1 DEF Continues
    <3>1. Whole(s)
      BY <2>1, <2>2 DEF Flows, Continues, UnderWay
    <3>2. /\ Len(Messages(task.next)) = PerBatch /\ Messages(task.next) \in Seq(Postings)
          /\ \A i \in DOMAIN Messages(task.next) : Messages(task.next)[i] = [to |-> s, message |-> Message(task.next, 0 + i - 1)]
      BY <1>t, <2>2, MessagesAre
    <3>3. Sent(s)' = Sent(s) /\ PerBatch' = PerBatch /\ \A batch, position : Message(batch, position)' = Message(batch, position)
      BY <2>1, CarriedStays DEF Sent, PerBatch, Message, TransactionsOf
    <3>4. Messages(task.next) # <<>>
      BY <1>t, <3>2
    <3>5. /\ task.from < task.next + 1 /\ task.next + 1 - 1 = task.next /\ 0 + PerBatch = PerBatch
      BY <1>t
    <3>6. Sent(s)' \div PerBatch' = task.next - task.from /\ Sent(s)' % PerBatch' = 0
      BY <3>1, <3>3 DEF Whole
    <3>a. /\ task'.next = task.next + 1 /\ task'.from = task.from /\ task'.pending = Messages(task.next)
          /\ task.next \in Nat /\ task.from \in Nat
      BY <1>t, <2>1
    <3>7. /\ task'.pending # <<>> /\ task'.from < task'.next
          /\ Sent(s)' \div PerBatch' = task'.next - 1 - task'.from
          /\ (Sent(s)' % PerBatch') + Len(task'.pending) = PerBatch'
      BY ONLY <3>2, <3>3, <3>4, <3>5, <3>6, <3>a
    <3>8. task'.next - 1 = task.next
      BY ONLY <3>a
    <3>9. \A i \in DOMAIN task'.pending : task'.pending[i] = [to |-> s, message |-> Message(task.next, 0 + i - 1)]
      BY <2>1, <3>2
    <3>10. QED
      BY <3>3, <3>6, <3>7, <3>8, <3>9 DEF UnderWay
  <2>3. QED
    BY <2>1, <2>2, FlowsTask
<1>9. CASE Heartbeat
  <2>1. /\ task.state = "receiving" /\ task'.state = "receiving" /\ task'.from = task.from /\ task'.next = task.next
        /\ task.pending = <<>> /\ task'.pending = <<[to |-> "bundles", message |-> Beat]>> /\ mock = "gravity"
        /\ UNCHANGED <<mock, repeat, streams, seen_by_peer>>
    BY <1>9, <1>t DEF Heartbeat
  <2>2. ASSUME mock # "rakurai", NEW s \in Streams PROVE Continues(s)'
    <3> SUFFICES ASSUME streams[s].connected PROVE task'.pending = <<[to |-> s, message |-> Beat']>> /\ Whole(s)'
      BY <2>1 DEF Continues
    <3>1. Whole(s)
      BY <2>1, <2>2 DEF Flows, Continues, UnderWay
    <3>2. s = "bundles"
      BY <2>1, StreamsAre
    <3>3. Sent(s)' = Sent(s) /\ PerBatch' = PerBatch
      BY <2>1, CarriedStays DEF Sent, PerBatch
    <3>4. QED
      BY <2>1, <3>1, <3>2, <3>3 DEF Whole, Beat
  <2>3. QED
    BY <2>1, <2>2, FlowsTask
<1>10. CASE Send
  BY <1>10, FlowsSend
<1>11. ASSUME NEW s \in Streams, Read(s) PROVE Flows'
  <2>1. \A t \in Streams : streams'[t].connected = streams[t].connected
    BY <1>11 DEF Read, StreamsTyped
  <2>2. QED
    BY <1>11, <2>1, CarriedStays, FlowsStay DEF Read
<1>12. ASSUME NEW s \in Streams, Disconnect(s) PROVE Flows'
  BY <1>12, FlowsLeave
<1>13. CASE UNCHANGED streamsVars
  BY <1>1, <1>13 DEF streamsVars
<1>14. QED
  BY <1>2, <1>3, <1>4, <1>5, <1>6, <1>7, <1>8, <1>9, <1>10, <1>11, <1>12, <1>13
     DEF StreamsNext, SubscribeBam, SubscribeGravity, SubscribeRakurai, SubscriptionTask, StreamsIdle

-----------------------------------------------------------------------------
(* Rakurai: two streams that go on in step. *)

IndicesAt(q) == {q[i].index : i \in BatchesAt(q)}
RisingAt(q) == \A i, j \in BatchesAt(q) : i < j => q[i].index < q[j].index

First == "astralane"
Second == "block_engine"
ForFirst(batch) == [to |-> First, message |-> Message(batch, 0)]
ForSecond(batch) == [to |-> Second, message |-> Message(batch, 0)]

BatchIndices(s) == IndicesAt(Carried(s))

BothThere == \A s \in Streams : streams[s].connected

\* What a relay that kept both streams knows of the batches before n: all but the skipped ones.
Knows(n) ==
    /\ BatchIndices(Second) \cup noticed.skipped = task.from..n - 1
    /\ BatchIndices(Second) \cap noticed.skipped = {}

BetweenBatches == task.pending = <<>> /\ (BothThere => BatchIndices(First) = BatchIndices(Second) /\ Knows(task.next))

BeforeFirst ==
    /\ task.from < task.next /\ task.pending = <<ForFirst(task.next - 1), ForSecond(task.next - 1)>>
    /\ \A s \in Streams : \A n \in BatchIndices(s) : n < task.next - 1
    /\ BothThere => BatchIndices(First) = BatchIndices(Second) /\ Knows(task.next - 1)

BeforeSecond ==
    /\ task.from < task.next /\ task.pending = <<ForSecond(task.next - 1)>>
    /\ \A n \in BatchIndices(Second) : n < task.next - 1
    /\ BothThere => BatchIndices(First) = BatchIndices(Second) \cup {task.next - 1} /\ Knows(task.next - 1)

Pairs == mock = "rakurai" =>
    /\ \A s \in Streams : RisingAt(Carried(s)) /\ \A n \in BatchIndices(s) : n \in Nat /\ n < task.next
    /\ BothThere => task.state # "ended"
    /\ task.state = "receiving" => BetweenBatches \/ BeforeFirst \/ BeforeSecond

LEMMA IndicesGrow ==
  ASSUME NEW S, NEW q \in Seq(S), NEW m \in S, m.kind = "batch"
  PROVE  /\ IndicesAt(Append(q, m)) = IndicesAt(q) \cup {m.index}
         /\ RisingAt(q) /\ (\A n \in IndicesAt(q) : n < m.index) => RisingAt(Append(q, m))
<1> DEFINE r == Append(q, m)
<1>1. /\ r[Len(q) + 1] = m /\ Len(q) + 1 \notin DOMAIN q
      /\ \A i \in DOMAIN q : r[i] = q[i] /\ i < Len(q) + 1
      /\ BatchesAt(r) = BatchesAt(q) \cup {Len(q) + 1}
  BY BatchesGrow
<1>2. BatchesAt(q) \subseteq DOMAIN q /\ DOMAIN q \subseteq Nat /\ Len(q) \in Nat
  BY DEF BatchesAt
<1> HIDE DEF r
<1>3. IndicesAt(r) = IndicesAt(q) \cup {m.index}
  BY <1>1, <1>2 DEF IndicesAt
<1>4. ASSUME RisingAt(q), \A n \in IndicesAt(q) : n < m.index, NEW i \in BatchesAt(r), NEW j \in BatchesAt(r), i < j
      PROVE  r[i].index < r[j].index
  <2>1. i \in BatchesAt(q) /\ r[i] = q[i]
    <3>1. i # Len(q) + 1
      BY <1>1, <1>2, <1>4
    <3>2. QED
      BY <1>1, <1>2, <3>1
  <2>2. q[i].index \in IndicesAt(q)
    BY <2>1 DEF IndicesAt
  <2>3. CASE j = Len(q) + 1
    BY <1>1, <1>4, <2>1, <2>2, <2>3
  <2>4. CASE j \in BatchesAt(q)
    BY <1>1, <1>2, <1>4, <2>1, <2>4 DEF RisingAt
  <2>5. QED
    BY <1>1, <2>3, <2>4
<1>5. QED
  BY <1>3, <1>4 DEF r, RisingAt

LEMMA IndicesShrink ==
  ASSUME NEW S, NEW q \in Seq(S), NEW c \in Seq(S)
  PROVE  IndicesAt(q) \subseteq IndicesAt(q \o c) /\ (RisingAt(q \o c) => RisingAt(q))
<1>1. /\ \A i \in DOMAIN q : (q \o c)[i] = q[i]
      /\ BatchesAt(q) \subseteq BatchesAt(q \o c) /\ BatchesAt(q) \subseteq DOMAIN q
  BY BatchesShrink DEF BatchesAt
<1>2. QED
  BY <1>1 DEF IndicesAt, RisingAt

\* The messages of a batch, for each relay connection one.
LEMMA PairIs ==
  ASSUME mock = "rakurai", NEW batch
  PROVE  Messages(batch) = <<ForFirst(batch), ForSecond(batch)>> /\ OnLag = <<>>
BY DEF Messages, OnLag, ForFirst, ForSecond, First, Second

LEMMA PairsPaired ==
  ASSUME StreamsTyped, Unopened, Within, Pairs, mock = "rakurai"
  PROVE  Paired
<1>0. /\ Streams = {First, Second} /\ task.next \in Nat /\ task.from \in Nat /\ task.pending \in Seq(Postings)
  BY StreamsAre DEF StreamsTyped, First, Second
<1>1. \A s : {Carried(s)[i].index : i \in BatchPlaces(s)} = BatchIndices(s)
  BY DEF BatchIndices, IndicesAt, BatchPlaces, BatchesAt
<1>2. \A s \in Streams : \A i, j \in BatchPlaces(s) : i < j => Carried(s)[i].index < Carried(s)[j].index
  BY DEF Pairs, RisingAt, BatchPlaces, BatchesAt
<1> DEFINE pending == {task.pending[i].message.index : i \in DOMAIN task.pending}
           al == BatchIndices(First)
           be == BatchIndices(Second)
           n == task.next - 1
<1>3. ASSUME BothThere
      PROVE  /\ be \subseteq al /\ Cardinality(al \ be) <= 1
             /\ be \cup pending \cup noticed.skipped = task.from..n
             /\ (al \cup pending) \cap noticed.skipped = {}
  <2>1. task.state = "receiving"
    BY <1>0, <1>3 DEF Unopened, Pairs, BothThere, StreamsTyped
  <2>2. CASE BetweenBatches
    <3>1. pending = {}
      BY <2>2 DEF BetweenBatches
    <3>2. al \ be = {} /\ Cardinality({}) = 0
      BY <1>3, <2>2, FS_EmptySet DEF BetweenBatches
    <3>3. be \cup noticed.skipped = task.from..n /\ be \cap noticed.skipped = {} /\ al = be
      BY <1>3, <2>2 DEF BetweenBatches, Knows
    <3> HIDE DEF pending, al, be, n
    <3>4. Cardinality(al \ be) <= 1
      BY ONLY <3>2
    <3>5. QED
      BY ONLY <3>1, <3>3, <3>4
  <2>3. CASE BeforeFirst
    <3>1. pending = {n}
      <4>1. /\ DOMAIN task.pending = {1, 2} /\ task.pending[1].message.index = n /\ task.pending[2].message.index = n
        BY <2>3, MessageHas DEF BeforeFirst, ForFirst, ForSecond
      <4>2. QED
        BY <4>1
    <3>2. al \ be = {} /\ Cardinality({}) = 0
      BY <1>3, <2>3, FS_EmptySet DEF BeforeFirst
    <3>3. be \cup noticed.skipped = task.from..n - 1 /\ be \cap noticed.skipped = {} /\ al = be /\ task.from < task.next
      BY <1>3, <2>3 DEF BeforeFirst, Knows
    <3>4. (task.from..n - 1) \cup {n} = task.from..n /\ n \notin task.from..n - 1
      BY <1>0, <3>3
    <3> HIDE DEF pending, al, be, n
    <3>5. Cardinality(al \ be) <= 1
      BY ONLY <3>2
    <3>6. be \cup pending \cup noticed.skipped = task.from..n
      <4>1. be \cup pending \cup noticed.skipped = (be \cup noticed.skipped) \cup {n}
        BY ONLY <3>1
      <4>2. QED
        BY ONLY <3>3, <3>4, <4>1
    <3>7. n \notin noticed.skipped
      BY ONLY <3>3, <3>4
    <3>8. QED
      BY ONLY <3>1, <3>3, <3>5, <3>6, <3>7
  <2>4. CASE BeforeSecond
    <3>1. pending = {n}
      <4>1. DOMAIN task.pending = {1} /\ task.pending[1].message.index = n
        BY <2>4, MessageHas DEF BeforeSecond, ForSecond
      <4>2. QED
        BY <4>1
    <3>2. be \cup noticed.skipped = task.from..n - 1 /\ be \cap noticed.skipped = {} /\ al = be \cup {n} /\ task.from < task.next
      BY <1>3, <2>4 DEF BeforeSecond, Knows
    <3>3. (task.from..n - 1) \cup {n} = task.from..n /\ n \notin task.from..n - 1
      BY <1>0, <3>2
    <3> HIDE DEF pending, al, be, n
    <3>4. n \notin be /\ n \notin noticed.skipped
      BY ONLY <3>2, <3>3
    <3>5. Cardinality(al \ be) <= 1
      <4>1. al \ be = {n}
        BY ONLY <3>2, <3>4
      <4>2. QED
        BY <4>1, FS_Singleton
    <3>6. be \cup pending \cup noticed.skipped = task.from..n
      <4>1. be \cup pending \cup noticed.skipped = (be \cup noticed.skipped) \cup {n}
        BY ONLY <3>1
      <4>2. QED
        BY ONLY <3>2, <3>3, <4>1
    <3>7. QED
      BY ONLY <3>1, <3>2, <3>4, <3>5, <3>6
  <2>5. QED
    BY <2>1, <2>2, <2>3, <2>4 DEF Pairs
<1> HIDE DEF pending
<1>4. QED
  BY <1>0, <1>1, <1>2, <1>3 DEF Paired, BothThere, pending, First, Second

\* What a step leaves that touches neither the streams nor the task.
LEMMA PairsStay ==
  ASSUME Pairs, mock' = mock, repeat' = repeat, Streams' = Streams, StreamsTyped,
         \A s \in Streams : Carried(s)' = Carried(s) /\ streams'[s].connected = streams[s].connected,
         task' = task, noticed'.skipped = noticed.skipped
  PROVE  Pairs'
<1> SUFFICES ASSUME mock = "rakurai" PROVE Pairs'
  BY DEF Pairs
<1>0. Streams = {First, Second} /\ First' = First /\ Second' = Second
  BY StreamsAre DEF First, Second
<1>1. /\ \A s \in Streams : Carried(s)' = Carried(s) /\ BatchIndices(s)' = BatchIndices(s)
      /\ Carried(First)' = Carried(First) /\ Carried(Second)' = Carried(Second)
      /\ BatchIndices(First)' = BatchIndices(First) /\ BatchIndices(Second)' = BatchIndices(Second)
      /\ BothThere' = BothThere
  BY <1>0 DEF BatchIndices, BothThere
<1>2. \A n : Message(n, 0)' = Message(n, 0)
  BY DEF Message, TransactionsOf
<1>3. \A n : Knows(n)' = Knows(n)
  BY <1>1 DEF Knows
<1>4. BetweenBatches' = BetweenBatches /\ BeforeFirst' = BeforeFirst /\ BeforeSecond' = BeforeSecond
  BY <1>1, <1>2, <1>3 DEF BetweenBatches, BeforeFirst, BeforeSecond, ForFirst, ForSecond
<1>5. QED
  BY <1>1, <1>4 DEF Pairs

LEMMA RakuraiFacts ==
  ASSUME StreamsTyped, mock = "rakurai"
  PROVE  /\ Streams = {First, Second} /\ First # Second /\ First' = First /\ Second' = Second
         /\ task \in [state : {"off", "connected", "receiving", "ended"}, next : Nat, from : Nat, pending : Seq(Postings)]
         /\ task.next \in Nat /\ task.from \in Nat
         /\ \A s \in Streams : Carried(s) \in Seq(StreamMessages)
         /\ <<>> \in Seq(Postings)
<1>1. Streams = {First, Second} /\ First # Second /\ First' = First /\ Second' = Second
  BY StreamsAre DEF First, Second
<1>2. \A s \in Streams : Carried(s) \in Seq(StreamMessages)
  <2>1. \A s \in Streams : seen_by_peer[s] \in Seq(StreamMessages) /\ streams[s].channel \in Seq(StreamMessages)
    BY DEF StreamsTyped
  <2>2. QED
    BY <2>1 DEF Carried
<1>3. QED
  BY <1>1, <1>2 DEF StreamsTyped

LEMMA PairsOpened ==
  ASSUME StreamsTyped, Unopened, Pairs, Opened
  PROVE  Pairs'
<1> SUFFICES ASSUME mock = "rakurai" PROVE Pairs'
  BY DEF Pairs, Opened
<1>0. Streams = {First, Second} /\ First' = First /\ Second' = Second
  BY RakuraiFacts
<1>1. /\ Streams' = Streams /\ \A s \in Streams : Carried(s)' = Carried(s)
      /\ task.state = "connected" /\ task' = [task EXCEPT !.state = "receiving", !.next = produced, !.from = produced]
      /\ noticed' = noticed
  BY CarriedStays DEF Opened
<1>2. noticed.skipped = {} /\ task.pending = <<>> /\ \A s \in Streams : Carried(s) = <<>>
  BY <1>1 DEF Unopened
<1>3. IndicesAt(<<>>) = {} /\ RisingAt(<<>>)
  BY DEF IndicesAt, RisingAt, BatchesAt
<1>4. /\ \A s \in Streams : BatchIndices(s)' = {} /\ RisingAt(Carried(s))'
      /\ BatchIndices(First)' = {} /\ BatchIndices(Second)' = {}
  BY <1>0, <1>1, <1>2, <1>3 DEF BatchIndices
<1>5. /\ task'.state = "receiving" /\ task'.next = produced /\ task'.from = produced /\ task'.pending = <<>>
      /\ produced \in Nat
  BY <1>1, <1>2, RakuraiFacts DEF StreamsTyped
<1>6. produced..produced - 1 = {}
  BY <1>5
<1>7. Knows(task.next)'
  BY <1>1, <1>2, <1>4, <1>5, <1>6 DEF Knows
<1>8. BetweenBatches'
  BY <1>4, <1>5, <1>7 DEF BetweenBatches
<1>9. QED
  BY <1>1, <1>4, <1>5, <1>8 DEF Pairs

LEMMA PairsSend ==
  ASSUME StreamsTyped, Within, Pairs, Send
  PROVE  Pairs'
<1> SUFFICES ASSUME mock = "rakurai" PROVE Pairs'
  BY DEF Pairs, Send
<1> DEFINE first == Head(task.pending)
<1>p. PICK to, m, n : to = first.to /\ m = first.message /\ n = task.next - 1
  OBVIOUS
<1>0. /\ Streams = {First, Second} /\ First # Second /\ First' = First /\ Second' = Second
      /\ task.next \in Nat /\ task.from \in Nat
      /\ task \in [state : {"off", "connected", "receiving", "ended"}, next : Nat, from : Nat, pending : Seq(Postings)]
      /\ \A s \in Streams : Carried(s) \in Seq(StreamMessages)
  BY RakuraiFacts
<1>1. /\ task.state = "receiving" /\ task.pending # <<>>
      /\ UNCHANGED <<mock, repeat, noticed>> /\ Streams' = Streams
      /\ task'.next = task.next /\ task'.from = task.from
  BY <1>0, CarriedGrows DEF Send
<1>2. BeforeFirst \/ BeforeSecond
  BY <1>1 DEF Pairs, BetweenBatches
<1>3. /\ task.from < task.next /\ n \in Nat /\ m.kind = "batch" /\ m.index = n /\ m # Lagged
      /\ to \in Streams /\ m \in StreamMessages
      /\ \A b \in BatchIndices(to) : b < n
  <2>1. m = Message(n, 0) /\ task.from < task.next /\ to \in Streams /\ \A b \in BatchIndices(to) : b < n
    <3>1. CASE BeforeFirst
      <4>1. first = ForFirst(n)
        BY <1>p, <3>1 DEF BeforeFirst
      <4>2. QED
        BY <1>0, <1>p, <3>1, <4>1 DEF BeforeFirst, ForFirst
    <3>2. CASE BeforeSecond
      <4>1. first = ForSecond(n)
        BY <1>p, <3>2 DEF BeforeSecond
      <4>2. QED
        BY <1>0, <1>p, <3>2, <4>1 DEF BeforeSecond, ForSecond
    <3>3. QED
      BY <1>2, <3>1, <3>2
  <2>2. n \in Nat /\ 0 \in Nat
    BY <1>0, <1>p, <2>1
  <2>3. QED
    BY <2>1, <2>2, MessageHas
<1>4. /\ \A s \in Streams : RisingAt(Carried(s)) /\ \A b \in BatchIndices(s) : b \in Nat /\ b < task.next
      /\ BothThere => task.state # "ended"
  BY DEF Pairs
<1>5. CASE ~ streams[to].connected
  <2>1. streams' = streams /\ task'.state = "ended" /\ \A s \in Streams : Carried(s)' = Carried(s)
    BY <1>0, <1>5, <1>p, CarriedGrows
  <2>2. ~ BothThere'
    BY <1>1, <1>3, <1>5, <2>1 DEF BothThere
  <2>3. \A s \in Streams : RisingAt(Carried(s))' /\ BatchIndices(s)' = BatchIndices(s)
    BY <1>4, <2>1 DEF BatchIndices
  <2>4. QED
    BY <1>1, <1>4, <2>1, <2>2, <2>3 DEF Pairs
<1>6. CASE streams[to].connected
  <2>1. /\ \A s \in Streams \ {to} : Carried(s)' = Carried(s)
        /\ Carried(to)' = Append(Carried(to), m)
        /\ \A s \in Streams : streams'[s].connected = streams[s].connected
        /\ task'.pending = Tail(task.pending) /\ task'.state = "receiving"
    BY <1>0, <1>1, <1>3, <1>6, <1>p, CarriedGrows
  <2>2. BothThere' = BothThere
    BY <1>1, <2>1 DEF BothThere
  <2>3. BatchIndices(to)' = BatchIndices(to) \cup {n} /\ RisingAt(Carried(to))'
    <3> DEFINE q == Carried(to)
    <3>1. q \in Seq(StreamMessages) /\ m \in StreamMessages /\ m.kind = "batch" /\ m.index = n /\ RisingAt(q)
          /\ \A b \in IndicesAt(q) : b < m.index
      BY <1>0, <1>3, <1>4 DEF BatchIndices
    <3> HIDE DEF q
    <3>2. IndicesAt(Append(q, m)) = IndicesAt(q) \cup {n} /\ RisingAt(Append(q, m))
      BY ONLY <3>1, IndicesGrow
    <3>3. QED
      BY <2>1, <3>2 DEF q, BatchIndices
  <2>4. \A s \in Streams \ {to} : BatchIndices(s)' = BatchIndices(s) /\ RisingAt(Carried(s))'
    BY <1>4, <2>1 DEF BatchIndices
  <2>5. \A s \in Streams : RisingAt(Carried(s))' /\ \A b \in BatchIndices(s)' : b \in Nat /\ b < task'.next
    <3>1. n < task.next
      BY <1>0, <1>p
    <3>2. QED
      BY <1>1, <1>3, <1>4, <2>3, <2>4, <3>1
  <2>6. CASE BeforeFirst
    <3>1. to = First /\ task'.pending = <<ForSecond(n)>>
      <4>1. first = ForFirst(n) /\ Tail(task.pending) = <<ForSecond(n)>>
        BY <1>p, <2>6 DEF BeforeFirst
      <4>2. QED
        BY <1>p, <2>1, <4>1 DEF ForFirst
    <3>2. BatchIndices(First)' = BatchIndices(First) \cup {n} /\ BatchIndices(Second)' = BatchIndices(Second)
      BY <1>0, <2>3, <2>4, <3>1
    <3>3. ForSecond(n)' = ForSecond(n)
      BY <1>0, <1>1 DEF ForSecond, Message, TransactionsOf, Second
    <3>4. \A b \in BatchIndices(Second) : b < n
      BY <1>0, <1>p, <2>6 DEF BeforeFirst
    <3>5. BothThere => BatchIndices(First)' = BatchIndices(Second)' \cup {n} /\ Knows(n)'
      BY <1>1, <1>p, <2>6, <3>2 DEF BeforeFirst, Knows
    <3>6. BeforeSecond'
      BY <1>0, <1>1, <1>3, <1>p, <2>2, <3>1, <3>2, <3>3, <3>4, <3>5 DEF BeforeSecond
    <3>7. QED
      BY <1>1, <2>1, <2>5, <3>6 DEF Pairs
  <2>7. CASE BeforeSecond
    <3>1. to = Second /\ task'.pending = <<>>
      <4>1. first = ForSecond(n) /\ Tail(task.pending) = <<>>
        BY <1>p, <2>7 DEF BeforeSecond
      <4>2. QED
        BY <1>p, <2>1, <4>1 DEF ForSecond
    <3>2. BatchIndices(Second)' = BatchIndices(Second) \cup {n} /\ BatchIndices(First)' = BatchIndices(First)
      BY <1>0, <2>3, <2>4, <3>1
    <3>3. ASSUME BothThere PROVE BatchIndices(First)' = BatchIndices(Second)' /\ Knows(task.next)'
      <4>1. BatchIndices(First) = BatchIndices(Second) \cup {n} /\ Knows(n)
        BY <1>p, <2>7, <3>3 DEF BeforeSecond
      <4>2. (task.from..n - 1) \cup {n} = task.from..task.next - 1 /\ n \notin task.from..n - 1
        BY <1>0, <1>3, <1>p
      <4> DEFINE be == BatchIndices(Second)
                 sk == noticed.skipped
                 lo == task.from
      <4>3. be \cup sk = lo..n - 1 /\ be \cap sk = {}
        BY <4>1 DEF Knows
      <4> HIDE DEF be, sk
      <4>4. (be \cup {n}) \cup sk = lo..task.next - 1
        <5>1. (be \cup {n}) \cup sk = (be \cup sk) \cup {n}
          OBVIOUS
        <5>2. QED
          BY ONLY <4>2, <4>3, <5>1
      <4>5. n \notin sk
        BY ONLY <4>2, <4>3
      <4>6. (be \cup {n}) \cap sk = {}
        BY ONLY <4>3, <4>5
      <4>7. Knows(task.next)'
        BY <1>1, <3>2, <4>4, <4>6 DEF Knows, be, sk
      <4>8. QED
        BY <3>2, <4>1, <4>7
    <3>4. BetweenBatches'
      BY <1>1, <2>2, <3>1, <3>3 DEF BetweenBatches
    <3>5. QED
      BY <1>1, <2>1, <2>5, <3>4 DEF Pairs
  <2>8. QED
    BY <1>2, <2>6, <2>7
<1>7. QED
  BY <1>5, <1>6

LEMMA PairsLeave ==
  ASSUME StreamsTyped, Pairs, NEW s \in Streams, Disconnect(s)
  PROVE  Pairs'
<1> SUFFICES ASSUME mock = "rakurai" PROVE Pairs'
  BY CarriedRest DEF Pairs
<1>0. Streams' = Streams /\ Streams = {First, Second} /\ First' = First /\ Second' = Second
  BY RakuraiFacts, CarriedRest
<1>1. /\ \A t \in Streams \ {s} : Carried(t)' = Carried(t)
      /\ Carried(s)' = seen_by_peer[s] /\ UNCHANGED <<mock, repeat, task, noticed>>
      /\ streams' = [streams EXCEPT ![s] = [connected |-> FALSE, channel |-> <<>>]]
  BY CarriedRest
<1>2. ~ BothThere'
  BY <1>0, <1>1 DEF BothThere, StreamsTyped
<1>3. BatchIndices(s)' \subseteq BatchIndices(s) /\ (RisingAt(Carried(s)) => RisingAt(Carried(s))')
  <2> DEFINE q == seen_by_peer[s]
             c == streams[s].channel
  <2>1. q \in Seq(StreamMessages) /\ c \in Seq(StreamMessages) /\ Carried(s) = q \o c /\ Carried(s)' = q
    BY <1>1 DEF StreamsTyped, Carried
  <2> HIDE DEF q, c
  <2>2. IndicesAt(q) \subseteq IndicesAt(q \o c) /\ (RisingAt(q \o c) => RisingAt(q))
    BY ONLY <2>1, IndicesShrink
  <2>3. QED
    BY <2>1, <2>2 DEF BatchIndices
<1>4. \A t \in Streams : BatchIndices(t)' \subseteq BatchIndices(t) /\ (RisingAt(Carried(t)) => RisingAt(Carried(t))')
  BY <1>1, <1>3 DEF BatchIndices
<1>5. \A n : Message(n, 0)' = Message(n, 0)
  BY <1>1 DEF Message, TransactionsOf
<1>6. task.state = "receiving" => BetweenBatches' \/ BeforeFirst' \/ BeforeSecond'
  <2>1. BetweenBatches => BetweenBatches'
    BY <1>1, <1>2 DEF BetweenBatches
  <2>2. BeforeFirst => BeforeFirst'
    BY <1>0, <1>1, <1>2, <1>4, <1>5 DEF BeforeFirst, ForFirst, ForSecond
  <2>3. BeforeSecond => BeforeSecond'
    BY <1>0, <1>1, <1>2, <1>4, <1>5 DEF BeforeSecond, ForSecond
  <2>4. QED
    BY <2>1, <2>2, <2>3 DEF Pairs
<1>7. QED
  BY <1>0, <1>1, <1>2, <1>4, <1>6 DEF Pairs

LEMMA PairsStep ==
  StreamsTyped /\ Unopened /\ Within /\ Pairs /\ [StreamsNext]_streamsVars => Pairs'
<1>m. [StreamsNext]_streamsVars => mock' = mock
  <2>1. SubscriptionTask => mock' = mock
    BY DEF SubscriptionTask, RecvLagged, RecvBatch, Heartbeat, Send
  <2>2. Tick \/ ConnectRakurai \/ Refused \/ Opened => mock' = mock
    BY DEF Tick, ConnectRakurai, Refused, Opened
  <2>3. \A pubkey, signer, c : Challenge(pubkey) \/ Answer(pubkey, c, signer) => mock' = mock
    BY DEF Challenge, Answer
  <2>4. \A s : Read(s) \/ Disconnect(s) => mock' = mock
    BY DEF Read, Disconnect
  <2>5. UNCHANGED streamsVars => mock' = mock
    BY DEF streamsVars
  <2>6. QED
    BY <2>1, <2>2, <2>3, <2>4, <2>5 DEF StreamsNext, SubscribeBam, SubscribeGravity, SubscribeRakurai, StreamsIdle
<1> SUFFICES ASSUME StreamsTyped, Unopened, Within, Pairs, [StreamsNext]_streamsVars, mock = "rakurai" PROVE Pairs'
  BY <1>m DEF Pairs
<1>0. /\ Streams = {First, Second} /\ First' = First /\ Second' = Second
      /\ task.next \in Nat /\ task.from \in Nat /\ task.from <= task.next
      /\ task \in [state : {"off", "connected", "receiving", "ended"}, next : Nat, from : Nat, pending : Seq(Postings)]
  BY RakuraiFacts DEF Within
<1>1. ASSUME task' = task, noticed'.skipped = noticed.skipped, mock' = mock, repeat' = repeat,
             UNCHANGED <<streams, seen_by_peer>>
      PROVE  Pairs'
  BY <1>1, CarriedStays, PairsStay
<1>2. CASE Tick
  BY <1>1, <1>2 DEF Tick
<1>3. CASE \E pubkey \in Pubkeys : Challenge(pubkey)
  BY <1>1, <1>3 DEF Challenge
<1>4. CASE \E pubkey \in Pubkeys, signer \in Pubkeys, c \in 0..MaxNonce : Answer(pubkey, c, signer)
  BY <1>4 DEF Answer
<1>5. CASE Opened
  BY <1>5, PairsOpened
<1>6. CASE ConnectRakurai \/ Refused
  <2>1. /\ task.state = "off" /\ task'.state # "receiving" /\ task'.next = task.next
        /\ UNCHANGED <<mock, streams, seen_by_peer>>
    BY <1>0, <1>6 DEF ConnectRakurai, Refused
  <2>2. ~ BothThere'
    BY <1>0, <2>1, CarriedStays DEF BothThere, Unopened
  <2>3. \A s \in Streams : RisingAt(Carried(s))' /\ BatchIndices(s)' = BatchIndices(s)
    BY <2>1, CarriedStays DEF Pairs, BatchIndices
  <2>4. QED
    BY <2>1, <2>2, <2>3, CarriedStays DEF Pairs
<1>7. CASE RecvLagged
  <2>1. /\ task.state = "receiving" /\ task'.state = "receiving" /\ task'.from = task.from /\ task.pending = <<>>
        /\ task'.pending = <<>> /\ task'.next = Oldest /\ task.next < Oldest
        /\ noticed'.skipped = noticed.skipped \cup task.next..Oldest - 1
        /\ UNCHANGED <<mock, streams, seen_by_peer>>
    BY <1>0, <1>7, PairIs DEF RecvLagged, StreamsTyped
  <2>2. Oldest \in Nat
    BY PostpackStreamsAssumption DEF Oldest, StreamsTyped
  <2>3. /\ Streams' = Streams /\ \A s \in Streams : Carried(s)' = Carried(s) /\ BatchIndices(s)' = BatchIndices(s)
        /\ BothThere' = BothThere
    BY <2>1, CarriedStays DEF BatchIndices, BothThere
  <2>4. BothThere => BatchIndices(First) = BatchIndices(Second) /\ Knows(task.next)
    BY <2>1 DEF Pairs, BetweenBatches, BeforeFirst, BeforeSecond
  <2>5. ASSUME Knows(task.next) PROVE Knows(task.next)'
    <3> DEFINE be == BatchIndices(Second)
               sk == noticed.skipped
               next == task.next
    <3>1. be \cup sk = task.from..next - 1 /\ be \cap sk = {}
      BY <2>5 DEF Knows
    <3>2. be \cap (next..Oldest - 1) = {}
      <4>1. \A n \in be : n \in Nat /\ n < next
        BY <1>0 DEF Pairs
      <4> HIDE DEF be
      <4>2. QED
        BY <1>0, <2>2, <4>1
    <3>3. (task.from..next - 1) \cup (next..Oldest - 1) = task.from..Oldest - 1
      BY <1>0, <2>1, <2>2
    <3>4. Knows(task.next)' <=>
              /\ be \cup (sk \cup next..Oldest - 1) = task.from..Oldest - 1
              /\ be \cap (sk \cup next..Oldest - 1) = {}
      BY <1>0, <2>1, <2>3 DEF Knows
    <3> HIDE DEF be, sk, next
    <3>5. be \cup (sk \cup next..Oldest - 1) = (be \cup sk) \cup next..Oldest - 1
      OBVIOUS
    <3>6. QED
      BY <3>1, <3>2, <3>3, <3>4, <3>5
  <2>6. BetweenBatches'
    BY <1>0, <2>1, <2>3, <2>4, <2>5 DEF BetweenBatches
  <2>7. \A s \in Streams : RisingAt(Carried(s))' /\ \A n \in BatchIndices(s)' : n \in Nat /\ n < task'.next
    BY <1>0, <2>1, <2>2, <2>3 DEF Pairs
  <2>8. QED
    BY <2>1, <2>3, <2>6, <2>7 DEF Pairs
<1>8. CASE RecvBatch
  <2>1. /\ task.state = "receiving" /\ task'.state = "receiving" /\ task'.from = task.from /\ task.pending = <<>>
        /\ task'.pending = <<ForFirst(task.next), ForSecond(task.next)>> /\ task'.next = task.next + 1
        /\ UNCHANGED <<mock, repeat, streams, seen_by_peer, noticed>>
    BY <1>0, <1>8, PairIs DEF RecvBatch
  <2>2. /\ Streams' = Streams /\ \A s \in Streams : Carried(s)' = Carried(s) /\ BatchIndices(s)' = BatchIndices(s)
        /\ BothThere' = BothThere
    BY <2>1, CarriedStays DEF BatchIndices, BothThere
  <2>3. BothThere => BatchIndices(First) = BatchIndices(Second) /\ Knows(task.next)
    BY <2>1 DEF Pairs, BetweenBatches, BeforeFirst, BeforeSecond
  <2>4. task'.next - 1 = task.next /\ task'.from < task'.next
    BY <1>0, <2>1
  <2>5. \A n : ForFirst(n)' = ForFirst(n) /\ ForSecond(n)' = ForSecond(n)
    BY <2>1 DEF ForFirst, ForSecond, Message, TransactionsOf
  <2>6. Knows(task.next) => Knows(task.next - 1)'
    BY <1>0, <2>1, <2>2, <2>4 DEF Knows
  <2>7. \A s \in Streams : \A n \in BatchIndices(s)' : n \in Nat /\ n < task'.next - 1
    BY <2>2, <2>4 DEF Pairs
  <2>8. BeforeFirst'
    BY <1>0, <2>1, <2>2, <2>3, <2>4, <2>5, <2>6, <2>7 DEF BeforeFirst
  <2>9. \A s \in Streams : RisingAt(Carried(s))' /\ \A n \in BatchIndices(s)' : n \in Nat /\ n < task'.next
    BY <1>0, <2>1, <2>2, <2>4, <2>7 DEF Pairs
  <2>10. QED
    BY <2>1, <2>2, <2>8, <2>9 DEF Pairs
<1>9. CASE Heartbeat
  BY <1>9 DEF Heartbeat
<1>10. CASE Send
  BY <1>10, PairsSend
<1>11. ASSUME NEW s \in Streams, Read(s) PROVE Pairs'
  <2>1. \A t \in Streams : streams'[t].connected = streams[t].connected
    BY <1>11 DEF Read, StreamsTyped
  <2>2. QED
    BY <1>11, <2>1, CarriedStays, PairsStay DEF Read
<1>12. ASSUME NEW s \in Streams, Disconnect(s) PROVE Pairs'
  BY <1>12, PairsLeave
<1>13. CASE UNCHANGED streamsVars
  BY <1>1, <1>13 DEF streamsVars
<1>14. QED
  BY <1>2, <1>3, <1>4, <1>5, <1>6, <1>7, <1>8, <1>9, <1>10, <1>11, <1>12, <1>13
     DEF StreamsNext, SubscribeBam, SubscribeGravity, SubscribeRakurai, SubscriptionTask, StreamsIdle

StreamsInv == StreamsTyped /\ Unopened /\ Within /\ Grants /\ Flows /\ Pairs

LEMMA StreamsStart == StreamsInit => StreamsInv
<1> SUFFICES ASSUME StreamsInit PROVE StreamsInv
  OBVIOUS
<1>1. StreamsTyped
  BY DEF StreamsInit, StreamsTyped, StreamsOf, Streams
<1>2. \A s \in Streams : Carried(s) = <<>>
  <2>1. <<>> \o <<>> = <<>>
    OBVIOUS
  <2>2. QED
    BY <2>1 DEF StreamsInit, Carried
<1>3. Unopened
  BY <1>2 DEF StreamsInit, Unopened
<1>4. Within
  BY PostpackStreamsAssumption DEF StreamsInit, Within
<1>5. Grants
  BY DEF StreamsInit, Grants, Granted
<1>6. \A s \in Streams : BatchPlaces(s) = {}
  BY <1>2 DEF BatchPlaces
<1>7. Flows
  BY <1>2, <1>6 DEF StreamsInit, Flows, Regular, LagIsLast, Continues
<1>8. \A s \in Streams : BatchIndices(s) = {} /\ RisingAt(Carried(s))
  BY <1>2 DEF BatchIndices, IndicesAt, RisingAt, BatchesAt
<1>9. Pairs
  BY <1>8 DEF StreamsInit, Pairs
<1>10. QED
  BY <1>1, <1>3, <1>4, <1>5, <1>7, <1>9 DEF StreamsInv

LEMMA StreamsRepeat ==
  ASSUME StreamsTyped
  PROVE  Repeats
<1> SUFFICES ASSUME NEW s \in Streams, NEW i \in BatchPlaces(s), NEW j \in BatchPlaces(s),
                    Carried(s)[i].transactions = Carried(s)[j].transactions, Carried(s)[i].index < Carried(s)[j].index
             PROVE  repeat /\ Carried(s)[j].index = Carried(s)[i].index + 1
  BY DEF Repeats
<1>1. Carried(s) \in Seq(StreamMessages)
  <2>1. seen_by_peer[s] \in Seq(StreamMessages) /\ streams[s].channel \in Seq(StreamMessages)
    BY DEF StreamsTyped
  <2>2. QED
    BY <2>1 DEF Carried
<1>2. \A k \in BatchPlaces(s) : Carried(s)[k] \in StreamMessages /\ Carried(s)[k].kind = "batch"
  BY <1>1 DEF BatchPlaces
<1>3. \A k \in BatchPlaces(s) : Carried(s)[k].index \in Nat /\ Carried(s)[k].transactions = TransactionsOf(Carried(s)[k].index)
  BY <1>2, MessageIs
<1>4. QED
  <2> DEFINE a == Carried(s)[i].index
             b == Carried(s)[j].index
  <2>1. a \in Nat /\ b \in Nat /\ a < b /\ TransactionsOf(a) = TransactionsOf(b)
    BY <1>3
  <2> HIDE DEF a, b
  <2>2. repeat /\ b = a + 1
    BY <2>1 DEF TransactionsOf
  <2>3. QED
    BY <2>2 DEF a, b

\* The invariant of the streams: what was taken from the feed is in a stream, about to be sent or told
\* of as skipped.
THEOREM StreamsInvariant == StreamsInit /\ [][StreamsNext]_streamsVars => []StreamsInv
<1>1. StreamsInv /\ [StreamsNext]_streamsVars => StreamsInv'
  BY StreamsTypedStep, UnopenedStep, WithinStep, GrantsStep, FlowsStep, PairsStep DEF StreamsInv
<1>2. QED
  BY StreamsStart, <1>1, PTL

\* A subscriber of BAM or Gravity sees the batches without a gap until it is told that it lags, the
\* relay both streams of Rakurai in step, and no token was granted without the signature asked for.
THEOREM StreamsWithoutGaps == StreamsInit /\ [][StreamsNext]_streamsVars => []StreamsContiguous
<1>1. StreamsInv => StreamsContiguous
  BY FlowsContiguous, PairsPaired, StreamsRepeat DEF StreamsInv, Grants, StreamsContiguous
<1>2. QED
  BY StreamsInvariant, <1>1, PTL

\* The types of the streams, and the bound of every channel.
THEOREM StreamsTypes == StreamsInit /\ [][StreamsNext]_streamsVars => []StreamsTypeOK
<1>1. StreamsInv => StreamsTypeOK
  BY DEF StreamsInv, StreamsTyped, Within, Grants, StreamsTypeOK
<1>2. QED
  BY StreamsInvariant, <1>1, PTL
=============================================================================
