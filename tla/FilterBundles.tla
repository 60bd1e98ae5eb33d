---------------------------- MODULE FilterBundles ---------------------------
(***************************************************************************)
(* The filters of shreds-audit and the bundles they are subscribed with    *)
(* (filters/spec.rs, filters/bundles.rs), as operators.                    *)
(*                                                                         *)
(* A transaction is a record: its signatures are counted, its programs are *)
(* those of its instructions in order, its keys are split in those of the  *)
(* message and those loaded from lookup tables.  A filter is a record too, *)
(* with Unstated for a clause that is not set; a bundle is a sequence of   *)
(* filters, in the order of their names.  What a parser refuses (keys that *)
(* are no keys, transactions without a signature) is not here.             *)
(***************************************************************************)
EXTENDS Integers, Sequences, FiniteSets

CONSTANTS
    VOTE_PROGRAM_ID,
    MAX_FILTERS_PER_BUNDLE,
    Unstated,
    Fits                \* no reason for a mismatch

ASSUME FilterBundlesAssumption ==
    /\ Unstated \notin BOOLEAN
    /\ Fits \notin {"vote", "failed", "account_include", "account_exclude", "account_required"}

\* The rule of the validator's own vote filter.
IsSimpleVote(tx) ==
    /\ tx.signatures < 3 /\ tx.legacy
    /\ tx.programs = <<VOTE_PROGRAM_ID>>

\* What is known of a delivered transaction or of one of a block: whether it failed only where
\* its meta is there.
View(tx, meta) ==
    [sig |-> tx.sig, vote |-> IsSimpleVote(tx), failed |-> IF meta THEN tx.failed ELSE Unstated,
     keys |-> tx.static \cup tx.loaded]

\* The first clause the transaction does not meet.
Mismatch(filter, tx) ==
    LET vote == filter.vote # Unstated /\ tx.vote # filter.vote
        failed == filter.failed # Unstated /\ tx.failed # Unstated /\ tx.failed # filter.failed
        included == filter.include = {} \/ filter.include \cap tx.keys # {}
    IN  IF vote THEN "vote"
        ELSE IF failed THEN "failed"
        ELSE IF ~included THEN "account_include"
        ELSE IF filter.exclude \cap tx.keys # {} THEN "account_exclude"
        ELSE IF ~(filter.required \subseteq tx.keys) THEN "account_required"
        ELSE Fits

Matches(filter, tx) == Mismatch(filter, tx) = Fits

UsesFailed(filter) == filter.failed # Unstated

FitsDeshred(bundle) == \A i \in DOMAIN bundle.filters : ~UsesFailed(bundle.filters[i])

\* bundles::validate
ValidBundles(bundles, deshred) ==
    /\ bundles # <<>>
    /\ \A i, j \in DOMAIN bundles : bundles[i].name = bundles[j].name => i = j
    /\ \A i \in DOMAIN bundles : Len(bundles[i].filters) \in 1..MAX_FILTERS_PER_BUNDLE
    /\ deshred => \E i \in DOMAIN bundles : FitsDeshred(bundles[i])

\* The bundles a source can subscribe with, in their order.
ForMode(bundles, deshred) ==
    LET fit == {i \in DOMAIN bundles : deshred => FitsDeshred(bundles[i])} IN
    [n \in 1..Cardinality(fit) |-> bundles[CHOOSE i \in fit : Cardinality({j \in fit : j <= i}) = n]]
=============================================================================
