----------------------------- MODULE LiveStats -----------------------------
(***************************************************************************)
(* The running race of shreds-audit (live.rs): who decoded a FEC set       *)
(* first.  LiveIngest grades one batch of rows, the rows of one harvest.   *)
(***************************************************************************)
EXTENDS Integers, FiniteSets, FiniteSetsExt

CONSTANTS Racers

LiveNew ==
    [total_sets |-> 0, contested_sets |-> 0,
     per_provider |-> [p \in Racers |-> [present |-> 0, valid |-> 0, races |-> 0, wins |-> 0,
                                         behind |-> 0, behind_max |-> 0]]]

SetsOf(rows) == {r.set : r \in rows}

\* The rows of FEC set f that take part in its race.
Decoded(rows, f) == {r \in rows : r.set = f /\ r.is_valid}

Contested(rows) == {f \in SetsOf(rows) : Cardinality(Decoded(rows, f)) >= 2}

WinTime(rows, f) == CHOOSE t \in {r.decode : r \in Decoded(rows, f)} :
                        \A r \in Decoded(rows, f) : t <= r.decode

\* Mutant of LiveIngest: a set only one provider decoded counts as a race it won.
LiveIngestSolo(live, rows) ==
    LET raced(p) == {r \in rows : r.provider = p /\ r.is_valid}
        won(p) == {r \in raced(p) : r.decode = WinTime(rows, r.set)}
    IN  [live EXCEPT
            !.total_sets = @ + Cardinality(SetsOf(rows)),
            !.contested_sets = @ + Cardinality(Contested(rows)),
            !.per_provider = [p \in Racers |->
                [@[p] EXCEPT !.races = @ + Cardinality(raced(p)), !.wins = @ + Cardinality(won(p))]]]

\* LiveStats::ingest.
LiveIngest(live, rows) ==
    LET of(p) == {r \in rows : r.provider = p}
        raced(p) == {r \in of(p) : r.is_valid /\ r.set \in Contested(rows)}
        behind(r) == r.decode - WinTime(rows, r.set)
        graded(p, l) ==
            [present |-> l.present + Cardinality(of(p)),
             valid |-> l.valid + Cardinality({r \in of(p) : r.is_valid}),
             races |-> l.races + Cardinality(raced(p)),
             wins |-> l.wins + Cardinality({r \in raced(p) : behind(r) = 0}),
             behind |-> l.behind + MapThenSumSet(behind, raced(p)),
             behind_max |-> Max({l.behind_max} \cup {behind(r) : r \in raced(p)})]
    IN  [total_sets |-> live.total_sets + Cardinality(SetsOf(rows)),
         contested_sets |-> live.contested_sets + Cardinality(Contested(rows)),
         per_provider |-> [p \in Racers |-> graded(p, live.per_provider[p])]]
=============================================================================
