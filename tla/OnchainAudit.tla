---------------------------- MODULE OnchainAudit ----------------------------
(***************************************************************************)
(* The audit of every source against the chain                             *)
(* (shreds-audit/src/verification/onchain_signatures.rs): the index of     *)
(* what each source delivered in each slot, which lives in the signature   *)
(* registry, and the comparison of one slot with its block.  Operators     *)
(* only; TxnCompare has the worker that calls them.                        *)
(***************************************************************************)
EXTENDS Integers, FiniteSets

CONSTANTS
    Sources,
    Rotating,           \* sources that do not subscribe to everything
    LagSlots,           \* onchain_lag_slots
    RETAIN_MARGIN_SLOTS

ASSUME OnchainAuditAssumption ==
    /\ Rotating \subseteq Sources
    /\ LagSlots \in Nat /\ RETAIN_MARGIN_SLOTS \in Nat

Larger(a, b) == IF a >= b THEN a ELSE b
Monus(a, b) == Larger(a - b, 0)

-----------------------------------------------------------------------------
(* SlotSigIndex. *)

NewIndex == [slots |-> [s \in {} |-> {}], tip |-> 0]

NewSourceSlot == [sigs |-> {}, duplicated |-> 0]

IsEmpty(s) == s.sigs = {} /\ s.duplicated = 0

Oldest(tip) == Monus(tip, LagSlots + RETAIN_MARGIN_SLOTS)

Retained(slots, tip) == {s \in slots : s >= Oldest(tip)}

Delivered(s, sig) == [sigs |-> s.sigs \cup {sig},
                      duplicated |-> s.duplicated + IF sig \in s.sigs THEN 1 ELSE 0]

\* A higher slot raises the tip and prunes; a delivery of a pruned slot is not kept.
IndexRecord(index, sid, slot, sig) ==
    LET tip == Larger(index.tip, slot)
        kept == Retained(DOMAIN index.slots, tip)
        at(s) == IF s \in DOMAIN index.slots THEN index.slots[s] ELSE [q \in Sources |-> NewSourceSlot]
    IN  IF slot = 0 THEN index
        ELSE [tip |-> tip,
              slots |-> [s \in kept \cup (IF slot >= Oldest(tip) THEN {slot} ELSE {}) |->
                  IF s = slot THEN [at(s) EXCEPT ![sid] = Delivered(@, sig)] ELSE at(s)]]

\* take: the slot's entry leaves the index.
IndexWithout(index, slot) ==
    [index EXCEPT !.slots = [s \in DOMAIN index.slots \ {slot} |-> index.slots[s]]]

-----------------------------------------------------------------------------
(* OnchainAudit. *)

NewSourceAudit == [slots_checked |-> 0, slots_absent |-> 0, onchain_txns |-> 0,
                   missed |-> 0, corrupted |-> 0, duplicated |-> 0]

\* The counts of slots without a block and of failed calls are left out.
NewAudit == [sources |-> [s \in Sources |-> NewSourceAudit], slots_checked |-> 0]

\* One source's part of compare_slot, for a source that delivered something of the slot.
Scored(a, s, block) ==
    [slots_checked |-> a.slots_checked + 1,
     slots_absent |-> a.slots_absent,
     onchain_txns |-> a.onchain_txns + Cardinality(block),
     missed |-> a.missed + Cardinality(block \ s.sigs),
     corrupted |-> a.corrupted + Cardinality(s.sigs \ block),
     duplicated |-> a.duplicated + s.duplicated]

CompareSlot(audit, taken, block) ==
    [audit EXCEPT !.slots_checked = @ + 1,
                  !.sources = [s \in Sources |->
                      CASE s \in Rotating -> audit.sources[s]
                        [] s \notin Rotating /\ IsEmpty(taken[s]) ->
                               [audit.sources[s] EXCEPT !.slots_absent = @ + 1]
                        [] OTHER -> Scored(audit.sources[s], taken[s], block)]]
=============================================================================
