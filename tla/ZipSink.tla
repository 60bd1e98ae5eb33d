------------------------------- MODULE ZipSink -------------------------------
(***************************************************************************)
(* The archive sink of shreds-audit (out/archive.rs): the rows of a window *)
(* go to files in a work directory, which a rotation, or the close at the  *)
(* end of the run, packs into a zip named for the second the window began; *)
(* live.zip is replaced by a snapshot of the window from time to time.     *)
(* A step that fails ends the run, but for a snapshot's, and the process   *)
(* may crash between any two; the next run finds what is on the disk.      *)
(*                                                                         *)
(* The zip's members are one file here.  Rows in a file that was not       *)
(* closed cannot be read.  A run starts a second after the last at least.  *)
(***************************************************************************)
EXTENDS Integers, FiniteSets

CONSTANTS
    ROTATE_SECS,
    MaxRecords,         \* bound: rows
    MaxSecond,          \* bound
    Nothing

ASSUME ZipSinkAssumption ==
    ROTATE_SECS \in Nat \ {0} /\ MaxRecords \in Nat /\ MaxSecond \in Nat

VARIABLES
    second,
    window,         \* the open archive: the second it began, its rows; Nothing if no run is on
    packing,        \* the archive that is being finished: pc, its zip's name, whether the run ends
    work,           \* disk: work directories with closed files, by the second they began
    zips,           \* disk: the zips, by name
    live,           \* disk: live.zip and its .tmp
    records         \* histories: how many rows were written, which rows' files were closed

zipVars == <<second, window, packing, work, zips, live, records>>

-----------------------------------------------------------------------------

Packed(rows, whole) == [rows |-> rows, whole |-> whole]

With(dir, name, file) == [n \in DOMAIN dir \cup {name} |-> IF n = name THEN file ELSE dir[n]]

Without(dir, name) == [n \in DOMAIN dir \ {name} |-> dir[n]]

NewWindow == [since |-> second, rows |-> {}]

Running == window # Nothing /\ packing = Nothing

\* ZipSink::open.
StartRun ==
    /\ window = Nothing /\ packing = Nothing
    /\ \A n \in DOMAIN zips \cup DOMAIN work : n < second
    /\ window' = NewWindow
    /\ UNCHANGED <<second, packing, work, zips, live, records>>

\* write_sets, write_shreds and write_txns.
WriteRow ==
    /\ Running /\ records.count < MaxRecords
    /\ records' = [records EXCEPT !.count = @ + 1]
    /\ window' = [window EXCEPT !.rows = @ \cup {records.count + 1}]
    /\ UNCHANGED <<second, packing, work, zips, live>>

\* rotate: the next archive is there before the last is finished; the window begins anew after.
Rotate ==
    /\ Running /\ second >= window.since + ROTATE_SECS
    /\ packing' = [pc |-> "close", name |-> window.since, rows |-> window.rows, last |-> FALSE]
    /\ window' = NewWindow
    /\ UNCHANGED <<second, work, zips, live, records>>

CloseSink ==
    /\ Running
    /\ packing' = [pc |-> "close", name |-> window.since, rows |-> window.rows, last |-> TRUE]
    /\ window' = Nothing
    /\ UNCHANGED <<second, work, zips, live, records>>

-----------------------------------------------------------------------------
(* Archive::finish. *)

At(pc) == packing # Nothing /\ packing.pc = pc

CloseFiles ==
    /\ At("close") /\ packing' = [packing EXCEPT !.pc = "create"]
    /\ work' = With(work, packing.name, packing.rows)
    /\ records' = [records EXCEPT !.closed = @ \cup packing.rows]
    /\ UNCHANGED <<second, window, zips, live>>

\* File::create empties a file of the same name.
CreateZip ==
    /\ At("create") /\ packing' = [packing EXCEPT !.pc = "copy"]
    /\ zips' = With(zips, packing.name, Packed({}, FALSE))
    /\ UNCHANGED <<second, window, work, live, records>>

FinishZip ==
    /\ At("copy") /\ packing' = [packing EXCEPT !.pc = "remove"]
    /\ zips' = With(zips, packing.name, Packed(packing.rows, TRUE))
    /\ UNCHANGED <<second, window, work, live, records>>

\* Mutant of Removable: the files go as soon as the zip is there.
RemovableEarly == At("copy") \/ At("remove")

Removable == At("remove")

RemoveWork ==
    /\ Removable /\ packing' = Nothing
    /\ work' = Without(work, packing.name)
    /\ window' = IF packing.last THEN Nothing ELSE [window EXCEPT !.since = second]
    /\ UNCHANGED <<second, zips, live, records>>

-----------------------------------------------------------------------------
(* write_live. *)

\* A tmp that a crash or a failure left is written over.
LiveBegins ==
    /\ Running
    /\ packing' = [pc |-> "live"] /\ live' = [live EXCEPT !.tmp = Packed({}, FALSE)]
    /\ UNCHANGED <<second, window, work, zips, records>>

LiveFinishes ==
    /\ At("live") /\ packing' = [pc |-> "rename"]
    /\ live' = [live EXCEPT !.tmp = Packed(window.rows, TRUE)]
    /\ UNCHANGED <<second, window, work, zips, records>>

LiveRenames ==
    /\ At("rename") /\ packing' = Nothing
    /\ live' = [zip |-> live.tmp, tmp |-> Nothing]
    /\ UNCHANGED <<second, window, work, zips, records>>

LiveFails ==
    /\ At("live") \/ At("rename")
    /\ packing' = Nothing
    /\ UNCHANGED <<second, window, work, zips, live, records>>

-----------------------------------------------------------------------------

\* A crash, or a step of finish that fails and ends the run.
RunEnds ==
    /\ window # Nothing \/ packing # Nothing
    /\ window' = Nothing /\ packing' = Nothing
    /\ UNCHANGED <<second, work, zips, live, records>>

SecondPasses ==
    /\ second < MaxSecond /\ second' = second + 1
    /\ UNCHANGED <<window, packing, work, zips, live, records>>

\* At the bound.
TimeIsUp == second = MaxSecond /\ UNCHANGED zipVars

ZipInit ==
    /\ second = 0 /\ window = Nothing /\ packing = Nothing
    /\ work = [n \in {} |-> {}] /\ zips = [n \in {} |-> Nothing]
    /\ live = [zip |-> Nothing, tmp |-> Nothing]
    /\ records = [count |-> 0, closed |-> {}]

ZipNext ==
    \/ StartRun \/ WriteRow \/ Rotate \/ CloseSink
    \/ CloseFiles \/ CreateZip \/ FinishZip \/ RemoveWork
    \/ LiveBegins \/ LiveFinishes \/ LiveRenames \/ LiveFails
    \/ RunEnds \/ SecondPasses \/ TimeIsUp

-----------------------------------------------------------------------------
(* Correctness. *)

WholeWith(row) == {n \in DOMAIN zips : zips[n].whole /\ row \in zips[n].rows}

ZipTypeOK ==
    /\ DOMAIN work \subseteq 0..MaxSecond /\ DOMAIN zips \subseteq 0..MaxSecond
    /\ packing # Nothing => packing.pc \in {"close", "create", "copy", "remove", "live", "rename"}

\* A row whose file was closed is in one whole zip, or its file is still in a work directory,
\* wherever a rotation, the close or a snapshot was cut off; a run started later touches neither;
\* and live.zip, when there is one, is whole.
ArchivesKeepRows ==
    /\ \A row \in records.closed :
           /\ Cardinality(WholeWith(row)) <= 1
           /\ WholeWith(row) = {} => \E n \in DOMAIN work : row \in work[n]
    /\ live.zip # Nothing => live.zip.whole
=============================================================================
