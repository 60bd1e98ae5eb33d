----------------------------- MODULE Aggregator -----------------------------
(***************************************************************************)
(* FEC-set aggregation of shreds-audit (agg.rs): one state per provider    *)
(* and FEC set, fed one verified shred at a time, emitted as a row once    *)
(* its slot has fallen max_wait_slots behind the newest slot seen, or when *)
(* everything is drained.                                                  *)
(*                                                                         *)
(* A FEC set stands for its (slot, fec_set_index) pair and a payload for   *)
(* the bytes of one datagram: the position it claims and the copy it is.   *)
(* Copies differ in what a signature check and a comparison of the block   *)
(* data tell apart.  Times are the kernel's receive stamps, one per        *)
(* provider and payload; packets are ingested in any order.                *)
(***************************************************************************)
EXTENDS Integers, FiniteSets, Functions

CONSTANTS
    Providers,
    FecSets,
    SlotOf,        \* slot of each FEC set
    NumData,       \* data shreds of each FEC set
    NumCoding,     \* coding shreds of each FEC set
    DataComplete,  \* FEC sets whose last data shred carries DATA_COMPLETE
    LastInSlot,    \* FEC sets whose last data shred carries LAST_IN_SLOT
    Copies,        \* what the payload of a shred can be
    DataHash,      \* hash of the block data of each copy, or None
    Payloads,      \* the payloads that can arrive
    RxTime,        \* receive time of each payload from each provider
    MaxWaitSlots,  \* fec_max_wait_slots
    None

Key == Providers \X FecSets

ASSUME AggregatorAssumption ==
    /\ SlotOf \in [FecSets -> Nat]
    /\ NumData \in [FecSets -> Nat \ {0}]
    /\ NumCoding \in [FecSets -> Nat]
    /\ DataComplete \subseteq FecSets /\ LastInSlot \subseteq FecSets
    /\ Payloads \subseteq [set : FecSets, code : BOOLEAN, position : Nat, copy : Copies]
    /\ DOMAIN DataHash = Copies
    /\ RxTime \in [Providers -> [Payloads -> Nat]]
    /\ MaxWaitSlots \in Nat
    /\ None \notin Nat

VARIABLES
    sets,                 \* SetState of each pending (provider, FEC set)
    truth,                \* block data of the leader-signed copy of each position
    max_slot,
    latest_slot,          \* newest leader-signed slot of each provider
    evicted_upto,
    shreds_after_window

aggVars == <<sets, truth, max_slot, latest_slot, evicted_upto, shreds_after_window>>

-----------------------------------------------------------------------------
(* Ingest. *)

Larger(a, b) == IF a >= b THEN a ELSE b
Smaller(a, b) == IF a <= b THEN a ELSE b

\* SetState::new.  data_pos, code_pos and arrivals together are the arrival time of each
\* accepted position.
NewSetState(time) ==
    [seen |-> {}, arrivals |-> [position \in {} |-> 0], num_data |-> None, num_coding |-> None,
     created |-> time, first |-> None, last |-> None, invalid |-> {},
     duplicated |-> 0, unverifiable |-> 0, last_in_slot |-> FALSE]

IsLastData(d) == ~d.code /\ d.position = NumData[d.set] - 1

\* Mutant of TruthKey: the coding and data index spaces share their keys.
TruthKeyIndex(d) == <<d.set, FALSE, d.position>>

TruthKey(d) == <<d.set, d.code, d.position>>

\* A shred whose merkle proof and leader signature verified.
Accept(st, d, time) ==
    LET position == <<d.code, d.position>>
        reveals == st.num_data = None /\ (d.code \/ (IsLastData(d) /\ d.set \in DataComplete))
    IN  [st EXCEPT
            !.seen = @ \cup {d},
            !.num_data = IF reveals THEN NumData[d.set] ELSE @,
            !.num_coding = IF reveals /\ d.code THEN NumCoding[d.set] ELSE @,
            !.last_in_slot = @ \/ (IsLastData(d) /\ d.set \in LastInSlot),
            !.arrivals = IF position \in DOMAIN @ THEN @
                         ELSE [q \in DOMAIN @ \cup {position} |->
                                  IF q = position THEN time ELSE st.arrivals[q]],
            !.first = IF @ = None THEN time ELSE Smaller(@, time),
            !.last = IF @ = None THEN time ELSE Larger(@, time)]

\* Mutant of AfterWindow: the cutoff slot itself still counts as open.
AfterWindowStrict(slot) == slot < evicted_upto

AfterWindow(slot) == slot <= evicted_upto

\* Aggregator::ingest of payload d from provider p, found authentic, invalid or unverifiable.
Ingest(p, d, verdict) ==
    LET slot == SlotOf[d.set]
        key == <<p, d.set>>
        time == RxTime[p][d]
        st == IF key \in DOMAIN sets THEN sets[key] ELSE NewSetState(time)
        duplicate == d \in st.seen
        next == IF duplicate THEN [st EXCEPT !.duplicated = @ + 1]
                ELSE IF verdict = "invalid"
                THEN [st EXCEPT !.seen = @ \cup {d}, !.invalid = @ \cup {d}]
                ELSE IF verdict = "unverifiable"
                THEN [st EXCEPT !.seen = @ \cup {d}, !.unverifiable = @ + 1]
                ELSE Accept(st, d, time)
    IN  /\ max_slot' = Larger(max_slot, slot)
        /\ latest_slot' = IF verdict = "authentic"
                          THEN [latest_slot EXCEPT ![p] = Larger(@, slot)] ELSE latest_slot
        /\ IF AfterWindow(slot)
           THEN /\ shreds_after_window' = shreds_after_window + 1
                /\ UNCHANGED <<sets, truth>>
           ELSE /\ sets' = [k \in DOMAIN sets \cup {key} |-> IF k = key THEN next ELSE sets[k]]
                /\ truth' = IF ~duplicate /\ verdict = "authentic" /\ DataHash[d.copy] # None
                            THEN [t \in DOMAIN truth \cup {TruthKey(d)} |->
                                     IF t = TruthKey(d) THEN DataHash[d.copy] ELSE truth[t]]
                            ELSE truth
                /\ UNCHANGED shreds_after_window
        /\ UNCHANGED evicted_upto

-----------------------------------------------------------------------------
(* Rows. *)

\* The time by which k of the positions had arrived.
KthArrival(arrivals, k) ==
    CHOOSE t \in Range(arrivals) :
        /\ Cardinality({q \in DOMAIN arrivals : arrivals[q] <= t}) >= k
        /\ Cardinality({q \in DOMAIN arrivals : arrivals[q] < t}) < k

\* Mutant of DecodeTime: the last arrival for the k-th.
DecodeTimeLast(st) ==
    IF st.num_data # None /\ Cardinality(DOMAIN st.arrivals) >= st.num_data
    THEN st.last ELSE None

DecodeTime(st) ==
    IF st.num_data # None /\ Cardinality(DOMAIN st.arrivals) >= st.num_data
    THEN KthArrival(st.arrivals, st.num_data) ELSE None

\* A bad shred compared with the leader-signed copy of the same position, of any provider.
Compared(d) ==
    IF DataHash[d.copy] = None \/ TruthKey(d) \notin DOMAIN truth THEN "unknown"
    ELSE IF truth[TruthKey(d)] = DataHash[d.copy] THEN "sig"
    ELSE "data"

\* finalize: the row of a set.
SetRow(key) ==
    LET st == sets[key]
        invalid(kind) == Cardinality({d \in st.invalid : Compared(d) = kind})
        count(code) == Cardinality({q \in DOMAIN st.arrivals : q[1] = code})
        delivered == Cardinality(DOMAIN st.arrivals)
        total == IF st.num_coding = None THEN None ELSE st.num_data + st.num_coding
        decode == DecodeTime(st)
    IN  [provider |-> key[1], set |-> key[2],
         first |-> IF st.first = None THEN st.created ELSE st.first,
         last |-> IF st.last = None THEN st.created ELSE st.last,
         decode |-> decode, n_data |-> count(FALSE), n_code |-> count(TRUE),
         expected_total |-> total,
         missed |-> IF total = None THEN 0 ELSE Larger(total - delivered, 0),
         invalid_sig |-> invalid("sig"), invalid_data |-> invalid("data"),
         invalid_unknown |-> invalid("unknown"),
         duplicated |-> st.duplicated, sig_unverifiable |-> st.unverifiable,
         is_valid |-> st.invalid = {} /\ st.unverifiable = 0 /\ decode # None,
         last_in_slot |-> st.last_in_slot]

\* Mutant of Cutoff: the subtraction does not saturate.
CutoffUnsaturated == max_slot - MaxWaitSlots

Cutoff == Larger(max_slot - MaxWaitSlots, 0)

Ready(drain) == {key \in DOMAIN sets : drain \/ SlotOf[key[2]] <= Cutoff}

\* The rows a harvest emits.
HarvestRows(drain) == {SetRow(key) : key \in Ready(drain)}

\* Aggregator::harvest, its effect on the aggregator.
Harvest(drain) ==
    /\ sets' = Restrict(sets, DOMAIN sets \ Ready(drain))
    /\ IF drain
       THEN /\ truth' = [t \in {} |-> None]
            /\ evicted_upto' = Cutoff
       ELSE IF Cutoff > evicted_upto
       THEN /\ truth' = Restrict(truth, {t \in DOMAIN truth : SlotOf[t[1]] > Cutoff})
            /\ evicted_upto' = Cutoff
       ELSE UNCHANGED <<truth, evicted_upto>>
    /\ UNCHANGED <<max_slot, latest_slot, shreds_after_window>>

AggInit ==
    /\ sets = [key \in {} |-> None]
    /\ truth = [t \in {} |-> None]
    /\ max_slot = 0
    /\ latest_slot = [p \in Providers |-> 0]
    /\ evicted_upto = 0
    /\ shreds_after_window = 0
=============================================================================
