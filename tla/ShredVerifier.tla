---------------------------- MODULE ShredVerifier ----------------------------
(***************************************************************************)
(* The shred verifier of the deshred crate (deshred/src/verify.rs): a      *)
(* schedule of leaders by epoch, refreshed from an RPC node, and a cache   *)
(* of the verdict on each Merkle root.  Threads that verify share both     *)
(* with the one that refreshes; each has a lock of its own, which is let   *)
(* go between looking a root up, asking for the leader and caching the     *)
(* verdict.                                                                *)
(*                                                                         *)
(* A shred is its slot, its root and the key that signed the root; shreds  *)
(* of one root may carry different signatures.  The schedule of an epoch   *)
(* is one and the same whenever a node gives it.                           *)
(***************************************************************************)
EXTENDS Integers, FiniteSets, FiniteSetsExt

CONSTANTS
    Verifiers,          \* threads
    Shreds,             \* [slot, root, signer]; root is NoRoot if the bytes hold none
    LeaderOf,           \* the cluster's leader of each slot
    Epochs, EpochLen,   \* bound: epochs, of so many slots
    EPOCHS_KEPT, SLOTS_CACHED, MAX_ROOTS_PER_SLOT,
    NoRoot, Unknown

ASSUME ShredVerifierAssumption ==
    /\ EpochLen \in Nat \ {0} /\ EPOCHS_KEPT \in Nat \ {0}
    /\ SLOTS_CACHED \in Nat \ {0} /\ MAX_ROOTS_PER_SLOT \in Nat
    /\ Epochs \in Nat /\ DOMAIN LeaderOf = 0..Epochs * EpochLen - 1
    /\ \A p \in Shreds : p.slot \in DOMAIN LeaderOf

FirstSlots == {s \in DOMAIN LeaderOf : s % EpochLen = 0}

VARIABLES
    epochs,         \* LeaderSchedule: first slot -> the leaders from it on
    roots,          \* slot -> root -> whether the leader signed it
    refresh,        \* the refreshing thread: the first slots it still has to see to
    verifier,       \* of each thread: where it is in verify
    verdicts        \* history: what was called valid or invalid, as <<shred, verdict>>

verifierVars == <<epochs, roots, refresh, verifier, verdicts>>

-----------------------------------------------------------------------------
(* LeaderSchedule. *)

\* leaders_by_slot: a leader for each slot of the epoch; one with a gap is refused, see RefreshFails.
LeadersBySlot(first) == [i \in 0..EpochLen - 1 |-> LeaderOf[first + i]]

\* insert_epoch.
WithEpoch(first) ==
    LET all == DOMAIN epochs \cup {first}
        kept == IF Cardinality(all) > EPOCHS_KEPT THEN all \ {Min(all)} ELSE all
    IN  [f \in kept |-> IF f = first THEN LeadersBySlot(f) ELSE epochs[f]]

\* Mutant of Leader: a slot past the end of an epoch's leaders is looked up in it again.
LeaderWrapped(slot) ==
    LET below == {f \in DOMAIN epochs : f <= slot} IN
    IF below = {} THEN Unknown ELSE epochs[Max(below)][(slot - Max(below)) % EpochLen]

\* The last epoch that starts by the slot, if the slot is in it.
Leader(slot) ==
    LET below == {f \in DOMAIN epochs : f <= slot} IN
    IF below # {} /\ slot - Max(below) \in DOMAIN epochs[Max(below)]
    THEN epochs[Max(below)][slot - Max(below)] ELSE Unknown

\* refresh_from_rpc: getEpochInfo answers with the epoch the node is in.
AskEpoch(first) ==
    /\ refresh = {} /\ first \in FirstSlots
    /\ refresh' = {first, first + EpochLen} \cap FirstSlots
    /\ UNCHANGED <<epochs, roots, verifier, verdicts>>

\* One epoch, the earlier first: known already, or getLeaderSchedule gives it, or has none yet.
SeeToEpoch ==
    /\ refresh # {}
    /\ LET first == Min(refresh) IN
       /\ epochs' = epochs \/ (first \notin DOMAIN epochs /\ epochs' = WithEpoch(first))
       /\ refresh' = refresh \ {first}
    /\ UNCHANGED <<roots, verifier, verdicts>>

\* An error leaves the rest for the next refresh.
RefreshFails ==
    /\ refresh # {} /\ refresh' = {}
    /\ UNCHANGED <<epochs, roots, verifier, verdicts>>

-----------------------------------------------------------------------------
(* verify. *)

Idle == [pc |-> "idle"]

Say(t, p, verdict) ==
    /\ verifier' = [verifier EXCEPT ![t] = Idle]
    /\ verdicts' = IF verdict = "UnknownLeader" THEN verdicts ELSE verdicts \cup {<<p, verdict>>}

Verdict(valid) == IF valid THEN "Valid" ELSE "Invalid"

Cached(p) == p.slot \in DOMAIN roots /\ p.root \in DOMAIN roots[p.slot]

\* The lookup, under the cache's read lock.
LookUp(t, p) ==
    /\ verifier[t].pc = "idle"
    /\ CASE p.root = NoRoot -> Say(t, p, "Invalid")
         [] p.root # NoRoot /\ Cached(p) -> Say(t, p, Verdict(roots[p.slot][p.root]))
         [] OTHER -> /\ verifier' = [verifier EXCEPT ![t] = [pc |-> "missed", shred |-> p]]
                     /\ UNCHANGED verdicts
    /\ UNCHANGED <<epochs, roots, refresh>>

\* The leader, under the schedule's read lock, and the signature.
CheckSignature(t) ==
    /\ verifier[t].pc = "missed"
    /\ LET p == verifier[t].shred
           leader == Leader(p.slot)
       IN  IF leader = Unknown THEN Say(t, p, "UnknownLeader")
           ELSE /\ verifier' = [verifier EXCEPT ![t] =
                       [pc |-> "checked", shred |-> p, valid |-> p.signer = leader]]
                /\ UNCHANGED verdicts
    /\ UNCHANGED <<epochs, roots, refresh>>

RootsOf(slot) == IF slot \in DOMAIN roots THEN roots[slot] ELSE [r \in {} |-> TRUE]

\* Mutant of WithRoot: one root too many.
WithRootLate(of, root, valid) ==
    IF Cardinality(DOMAIN of) > MAX_ROOTS_PER_SLOT THEN of
    ELSE [r \in DOMAIN of \cup {root} |-> IF r = root THEN valid ELSE of[r]]

WithRoot(of, root, valid) ==
    IF Cardinality(DOMAIN of) >= MAX_ROOTS_PER_SLOT THEN of
    ELSE [r \in DOMAIN of \cup {root} |-> IF r = root THEN valid ELSE of[r]]

\* Under the cache's write lock: the slot may be the newest, and prune the others, or too old
\* to be kept itself.
CacheVerdict(t) ==
    LET p == verifier[t].shred
        slots == DOMAIN roots \cup {p.slot}
        kept == {s \in slots : s >= Max(slots) - (SLOTS_CACHED - 1)}
    IN  /\ verifier[t].pc = "checked"
        /\ roots' = [s \in kept |-> IF s = p.slot THEN WithRoot(RootsOf(s), p.root, verifier[t].valid)
                                    ELSE roots[s]]
        /\ Say(t, p, Verdict(verifier[t].valid))
        /\ UNCHANGED <<epochs, refresh>>

-----------------------------------------------------------------------------

VerifierInit ==
    /\ epochs = [f \in {} |-> Unknown]
    /\ roots = [s \in {} |-> Unknown]
    /\ refresh = {}
    /\ verifier = [t \in Verifiers |-> Idle]
    /\ verdicts = {}

VerifierNext ==
    \/ \E first \in FirstSlots : AskEpoch(first)
    \/ SeeToEpoch \/ RefreshFails
    \/ \E t \in Verifiers :
           \/ \E p \in Shreds : LookUp(t, p)
           \/ CheckSignature(t) \/ CacheVerdict(t)

VerifierSpec == VerifierInit /\ [][VerifierNext]_verifierVars

-----------------------------------------------------------------------------
(* Correctness. *)

SameRoot(p, q) == p.slot = q.slot /\ p.root = q.root

SignedByLeader(p) == p.signer = LeaderOf[p.slot]

\* The cache holds at most SLOTS_CACHED slots of MAX_ROOTS_PER_SLOT roots, and the schedule
\* EPOCHS_KEPT epochs, whatever slots the shreds name and however many threads cache at once.
CachesBounded ==
    /\ Cardinality(DOMAIN epochs) <= EPOCHS_KEPT
    /\ \A s, q \in DOMAIN roots : s - q < SLOTS_CACHED
    /\ \A s \in DOMAIN roots : Cardinality(DOMAIN roots[s]) <= MAX_ROOTS_PER_SLOT

VerifierTypeOK ==
    /\ CachesBounded
    /\ DOMAIN epochs \subseteq FirstSlots
    /\ refresh \subseteq FirstSlots
    /\ DOMAIN roots \subseteq DOMAIN LeaderOf
    /\ \A t \in Verifiers : verifier[t].pc \in {"idle", "missed", "checked"}

\* A shred is called valid only if the leader of its slot signed its root, and invalid only if
\* it has no root or somebody else signed it, in this shred or in one of the same root judged
\* before: whatever the epochs known when it was asked, replaced or forgotten since, and
\* whatever other threads cached in between.
VerdictSound ==
    \A v \in verdicts :
        LET judged(verdict) == {w[1] : w \in {x \in verdicts : x[2] = verdict /\ SameRoot(x[1], v[1])}} IN
        /\ v[2] = "Valid" => \E q \in judged("Valid") : SignedByLeader(q)
        /\ v[2] = "Invalid" =>
               v[1].root = NoRoot \/ \E q \in judged("Invalid") : ~SignedByLeader(q)
=============================================================================
