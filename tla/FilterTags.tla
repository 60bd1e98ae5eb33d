----------------------------- MODULE FilterTags -----------------------------
(***************************************************************************)
(* How shreds-audit judges what a server delivers in a filter window       *)
(* (on_delivery in filters/audit.rs, compare and parse_block in            *)
(* filters/check.rs, the requests and views of grpc.rs): the tags of each  *)
(* update against the filters evaluated here, then the deliveries of a     *)
(* sampled slot against the block of the cluster.                          *)
(*                                                                         *)
(* One window and one slot that it covers whole and samples; which slots   *)
(* those are is in FilterAudit.  The server sends any transaction, with    *)
(* any tags; a tag that is no filter of the bundle is the number past the  *)
(* last.  The cluster made any block, or none.                             *)
(***************************************************************************)
EXTENDS FilterBundles, FiniteSetsExt

CONSTANTS
    Transactions,
    Bundles,
    MaxUpdates,         \* bound
    NoBlock

ASSUME FilterTagsAssumption ==
    /\ MaxUpdates \in Nat
    /\ IsFiniteSet(Transactions)
    /\ \A t \in Transactions : t.sig # NoBlock /\ t.failed \in BOOLEAN
    /\ \A t, u \in Transactions : t.sig = u.sig => t = u
    /\ \A b \in Bundles : b.filters \in Seq({b.filters[i] : i \in DOMAIN b.filters}) /\ b.filters # <<>>

VARIABLES
    source_mode,        \* deshred: updates say nothing of failure
    skip_votes,         \* the RPC leaves votes out of its blocks
    block,              \* what getBlock answers: the transactions of the slot, or NoBlock
    audit_window,       \* the bundle and the counters of the window
    sampled,            \* the deliveries of the slot: of each signature its mask, a set of filters
    verdict,            \* CheckTotals of each filter, or NoBlock before the check
    updates             \* history

tagsVars == <<source_mode, skip_votes, block, audit_window, sampled, verdict, updates>>

Filters == audit_window.bundle.filters

-----------------------------------------------------------------------------
(* on_delivery. *)

Local(view) == {i \in DOMAIN Filters : Matches(Filters[i], view)}

\* The mask of an update.  Without tags a bundle of several filters falls back on the local match.
Inferred(tags) == tags = {} /\ Len(Filters) > 1

Mask(tags, view) ==
    IF Inferred(tags) THEN Local(view)
    ELSE IF tags = {} THEN {1}
    ELSE tags \cap DOMAIN Filters

\* Mutant of Samples: votes are kept although the block will have none.
SamplesVotes(view) == TRUE

Samples(view) == ~(skip_votes /\ view.vote)

\* transaction_view and deshred_view, then on_delivery.
OnUpdate(tx, tags, is_vote) ==
    LET view == View(tx, ~source_mode.deshred)
        mask == Mask(tags, view)
        blamed == IF Inferred(tags) THEN {} ELSE DOMAIN Filters
    IN
    /\ verdict = NoBlock /\ Len(updates) < MaxUpdates
    /\ audit_window' = [audit_window EXCEPT
           !.untagged = @ + IF Inferred(tags) THEN 1 ELSE 0,
           !.unknown_tags = @ + Cardinality(tags \ DOMAIN Filters),
           !.tag_false_positive = @ + Cardinality((mask \ Local(view)) \cap blamed),
           !.tag_missing = @ + Cardinality((Local(view) \ mask) \cap blamed),
           !.vote_flag_mismatch = @ + IF is_vote # view.vote THEN 1 ELSE 0,
           !.duplicates = @ + IF Samples(view) /\ view.sig \in DOMAIN sampled THEN 1 ELSE 0]
    /\ sampled' = IF ~Samples(view) THEN sampled
                  ELSE [s \in DOMAIN sampled \cup {view.sig} |->
                           IF s = view.sig THEN mask ELSE sampled[s]]
    /\ updates' = Append(updates, [tx |-> tx, tags |-> tags, is_vote |-> is_vote])
    /\ UNCHANGED <<source_mode, skip_votes, block, verdict>>

-----------------------------------------------------------------------------
(* The check. *)

\* parse_block of what the RPC gives.
BlockViews == {View(tx, TRUE) : tx \in {t \in block : skip_votes => ~IsSimpleVote(t)}}

\* Transactions of the block that filter i accepts and that were not delivered with its tag.
Missed(i) ==
    {v \in BlockViews :
        Matches(Filters[i], v) /\ ~(v.sig \in DOMAIN sampled /\ i \in sampled[v.sig])}

Totals(i) ==
    LET delivered == {s \in DOMAIN sampled : i \in sampled[s]}
        expected == {v \in BlockViews : Matches(Filters[i], v)}
        listed == {v.sig : v \in BlockViews}
        rejected == {v \in BlockViews : v.sig \in delivered /\ ~Matches(Filters[i], v)}
    IN  IF block = NoBlock
        THEN [expected |-> 0, matched |-> 0, missed |-> 0, extra_in_block |-> 0,
              extra_not_in_block |-> Cardinality(delivered)]
        ELSE [expected |-> Cardinality(expected),
              matched |-> Cardinality(expected \ Missed(i)),
              missed |-> Cardinality(Missed(i)),
              extra_in_block |-> Cardinality(rejected),
              extra_not_in_block |-> Cardinality(delivered \ listed)]

CompareBlock ==
    /\ verdict = NoBlock
    /\ verdict' = [i \in DOMAIN Filters |-> Totals(i)]
    /\ UNCHANGED <<source_mode, skip_votes, block, audit_window, sampled, updates>>

Judged == verdict # NoBlock /\ UNCHANGED tagsVars

TagsInit ==
    /\ source_mode \in [deshred : BOOLEAN] /\ skip_votes \in BOOLEAN
    /\ block \in (SUBSET Transactions) \cup {NoBlock}
    /\ \E b \in Bundles :
           /\ source_mode.deshred => FitsDeshred(b)
           /\ audit_window =
                  [bundle |-> b, untagged |-> 0, unknown_tags |-> 0, tag_false_positive |-> 0,
                   tag_missing |-> 0, vote_flag_mismatch |-> 0, duplicates |-> 0]
    /\ sampled = <<>> /\ verdict = NoBlock /\ updates = <<>>

TagsNext ==
    \/ \E tx \in Transactions, tags \in SUBSET (1..Len(Filters) + 1) :
           \/ OnUpdate(tx, tags, IsSimpleVote(tx))
           \/ tags = {} /\ OnUpdate(tx, tags, ~IsSimpleVote(tx))
    \/ CompareBlock
    \/ Judged

-----------------------------------------------------------------------------
(* Correctness. *)

TagsTypeOK ==
    /\ audit_window.bundle \in Bundles /\ Len(updates) <= MaxUpdates
    /\ \A s \in DOMAIN sampled : sampled[s] \subseteq DOMAIN Filters
    /\ verdict = NoBlock \/ DOMAIN verdict = DOMAIN Filters

\* The server's side: a filter accepts what meets all its clauses.
Accepts(filter, tx) ==
    /\ filter.vote \in {Unstated, IsSimpleVote(tx)}
    /\ filter.failed \in {Unstated, tx.failed}
    /\ filter.include = {} \/ \E k \in filter.include : k \in tx.static \cup tx.loaded
    /\ \A k \in filter.exclude : k \notin tx.static \cup tx.loaded
    /\ \A k \in filter.required : k \in tx.static \cup tx.loaded

AcceptedBy(tx) == {i \in DOMAIN Filters : Accepts(Filters[i], tx)}

\* What a subscription promises: each transaction of the block that a filter accepts is sent
\* once, and no other, with the tags of the filters that accept it and the right vote flag.  A
\* bundle of one filter may leave the tag out, and votes are judged by their tags alone where the
\* blocks come without them.
Faithful ==
    LET sent(tx) == {n \in DOMAIN updates : updates[n].tx = tx}
        due(tx) == block # NoBlock /\ tx \in block /\ AcceptedBy(tx) # {}
    IN  /\ \A n \in DOMAIN updates :
               LET u == updates[n] IN
               /\ u.is_vote = IsSimpleVote(u.tx)
               /\ \/ u.tags = AcceptedBy(u.tx) /\ u.tags # {}
                  \/ u.tags = {} /\ Len(Filters) = 1 /\ AcceptedBy(u.tx) = {1}
        /\ \A tx \in Transactions :
               ~(skip_votes /\ IsSimpleVote(tx)) =>
                   Cardinality(sent(tx)) = IF due(tx) THEN 1 ELSE 0

Clean ==
    /\ \A c \in DOMAIN audit_window \ {"bundle"} : audit_window[c] = 0
    /\ \A i \in DOMAIN verdict :
           verdict[i].missed = 0 /\ verdict[i].extra_in_block = 0 /\ verdict[i].extra_not_in_block = 0

\* The two checks together neither blame a server that keeps what the filters promise nor clear
\* one that does not.
ServerJudgedFairly == verdict # NoBlock => (Clean <=> Faithful)
=============================================================================
