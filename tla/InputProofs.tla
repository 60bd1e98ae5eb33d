----------------------------- MODULE InputProofs -----------------------------
(***************************************************************************)
(* Proofs about what comes in and who vouches for it.  ShredVerifier: for  *)
(* every number of threads, every schedule of leaders, every set of shreds *)
(* and every size of the two caches.  PacketReceiver: for every set of     *)
(* configurations and of datagrams, every finite set of ports, every size  *)
(* of a batch and of the channel, every modulus of the kernel's counter    *)
(* and every number of arrivals.                                           *)
(***************************************************************************)
EXTENDS ShredVerifier, PacketReceiver, IntegerSets

Slots == DOMAIN LeaderOf

-----------------------------------------------------------------------------
(* The slots of the model. *)

\* The slots of the model are finitely many numbers.
LEMMA SlotSets ==
  ASSUME NEW S \in SUBSET Slots
  PROVE  S \subseteq Int /\ IsFiniteSet(S) /\ Cardinality(S) \in Nat
<1>1. Epochs * EpochLen - 1 \in Int
  BY ShredVerifierAssumption
<1>2. Slots \subseteq Int /\ IsFiniteSet(Slots)
  BY <1>1, ShredVerifierAssumption, FS_Interval DEF Slots
<1>3. QED
  BY <1>2, FS_Subset, FS_CardinalityType

-----------------------------------------------------------------------------
(* The inductive invariant. *)

Threads ==
    verifier \in [Verifiers -> {Idle} \cup [pc : {"missed"}, shred : Shreds]
                                      \cup [pc : {"checked"}, shred : Shreds, valid : BOOLEAN]]

\* What is known of an epoch is its schedule.
EpochsTrue ==
    /\ DOMAIN epochs \subseteq FirstSlots /\ refresh \subseteq FirstSlots
    /\ Cardinality(DOMAIN epochs) <= EPOCHS_KEPT
    /\ \A f \in DOMAIN epochs : epochs[f] = LeadersBySlot(f)

\* A signature that was checked was checked against the leader of the slot.
CheckedTrue ==
    \A t \in Verifiers : verifier[t].pc = "checked" =>
        (verifier[t].valid <=> SignedByLeader(verifier[t].shred))

\* Somebody was told the verdict about a shred of the root that deserved it.
Deserved(slot, root, verdict) ==
    \E q \in Shreds :
        /\ q.slot = slot /\ q.root = root /\ <<q, verdict>> \in verdicts
        /\ SignedByLeader(q) <=> verdict = "Valid"

\* What is cached was deserved.
RootsTrue ==
    /\ DOMAIN roots \subseteq Slots
    /\ \A s \in DOMAIN roots : \A r \in DOMAIN roots[s] : Deserved(s, r, Verdict(roots[s][r]))

RootsBounded ==
    /\ \A s, q \in DOMAIN roots : s - q < SLOTS_CACHED
    /\ \A s \in DOMAIN roots : /\ IsFiniteSet(DOMAIN roots[s])
                               /\ Cardinality(DOMAIN roots[s]) <= MAX_ROOTS_PER_SLOT

JudgedTrue ==
    /\ verdicts \subseteq Shreds \X {"Valid", "Invalid"}
    /\ \A p \in Shreds :
           /\ <<p, "Valid">> \in verdicts => Deserved(p.slot, p.root, "Valid")
           /\ <<p, "Invalid">> \in verdicts =>
                  p.root = NoRoot \/ Deserved(p.slot, p.root, "Invalid")

VerifierInv ==
    Threads /\ EpochsTrue /\ CheckedTrue /\ RootsTrue /\ RootsBounded /\ JudgedTrue

LEMMA InvInit == VerifierInit => VerifierInv
<1> SUFFICES ASSUME VerifierInit PROVE VerifierInv
  OBVIOUS
<1> USE DEF VerifierInit
<1>1. Threads /\ CheckedTrue /\ JudgedTrue
  BY DEF Threads, CheckedTrue, JudgedTrue, Idle
<1>2. EpochsTrue
  BY FS_EmptySet, ShredVerifierAssumption DEF EpochsTrue
<1>3. RootsTrue /\ RootsBounded
  BY DEF RootsTrue, RootsBounded
<1>4. QED
  BY <1>1, <1>2, <1>3 DEF VerifierInv

-----------------------------------------------------------------------------
(* The schedule. *)

LEMMA LeaderKnown ==
  ASSUME EpochsTrue, NEW slot \in Slots, Leader(slot) # Unknown
  PROVE  Leader(slot) = LeaderOf[slot]
<1> DEFINE below == {f \in DOMAIN epochs : f <= slot}
           first == Max(below)
<1>1. below # {} /\ slot - first \in DOMAIN epochs[first]
      /\ Leader(slot) = epochs[first][slot - first]
  BY DEF Leader
<1>2. below \subseteq Slots
  BY DEF EpochsTrue, FirstSlots, Slots
<1>3. first \in below /\ first \in Int /\ slot \in Int
  BY <1>1, <1>2, SlotSets, MaxOfFinite
<1>4. epochs[first] = LeadersBySlot(first)
  BY <1>3 DEF EpochsTrue
<1>5. first + (slot - first) = slot
  BY <1>3
<1>6. QED
  BY <1>1, <1>4, <1>5 DEF LeadersBySlot

\* A new epoch may push out the oldest one.
LEMMA WithEpochTrue ==
  ASSUME EpochsTrue, NEW first \in FirstSlots, epochs' = WithEpoch(first)
  PROVE  /\ DOMAIN epochs' \subseteq FirstSlots
         /\ Cardinality(DOMAIN epochs') <= EPOCHS_KEPT
         /\ \A f \in DOMAIN epochs' : epochs'[f] = LeadersBySlot(f)
<1> DEFINE all == DOMAIN epochs \cup {first}
           kept == IF Cardinality(all) > EPOCHS_KEPT THEN all \ {Min(all)} ELSE all
<1>1. /\ DOMAIN epochs' = kept
      /\ \A f \in kept : epochs'[f] = IF f = first THEN LeadersBySlot(f) ELSE epochs[f]
  BY DEF WithEpoch
<1>2. all \subseteq FirstSlots /\ kept \subseteq all /\ all # {}
  BY DEF EpochsTrue
<1>3. all \subseteq Slots /\ DOMAIN epochs \subseteq Slots
  BY <1>2 DEF FirstSlots, Slots
<1>4. /\ all \subseteq Int /\ IsFiniteSet(all) /\ Cardinality(all) \in Nat
      /\ IsFiniteSet(DOMAIN epochs) /\ Cardinality(DOMAIN epochs) \in Nat
  BY <1>3, SlotSets
<1>5. Cardinality(all) <= EPOCHS_KEPT + 1
  <2>1. Cardinality(all) = IF first \in DOMAIN epochs THEN Cardinality(DOMAIN epochs)
                           ELSE Cardinality(DOMAIN epochs) + 1
    BY <1>4, FS_AddElement
  <2>2. Cardinality(DOMAIN epochs) <= EPOCHS_KEPT /\ EPOCHS_KEPT \in Nat
    BY ShredVerifierAssumption DEF EpochsTrue
  <2>3. QED
    BY <1>4, <2>1, <2>2
<1>6. Cardinality(kept) <= EPOCHS_KEPT
  <2>1. Min(all) \in all
    BY <1>2, <1>4, MinOfFinite
  <2>2. Cardinality(all \ {Min(all)}) = Cardinality(all) - 1
    BY <1>4, <2>1, FS_RemoveElement
  <2>3. QED
    BY <1>4, <1>5, <2>2, ShredVerifierAssumption
<1>7. \A f \in kept : epochs'[f] = LeadersBySlot(f)
  BY <1>1 DEF EpochsTrue
<1>8. QED
  BY <1>1, <1>2, <1>6, <1>7

-----------------------------------------------------------------------------
(* The verdicts. *)

\* More verdicts take no backing away.
LEMMA StillDeserved ==
  ASSUME verdicts \subseteq verdicts', NEW s, NEW r, NEW verdict, Deserved(s, r, verdict)
  PROVE  Deserved(s, r, verdict)'
BY DEF Deserved, SignedByLeader

\* A thread says a verdict that is deserved, or has been before.
LEMMA SayTrue ==
  ASSUME Threads, CheckedTrue, JudgedTrue, NEW t \in Verifiers, NEW p \in Shreds,
         NEW verdict \in {"Valid", "Invalid", "UnknownLeader"}, Say(t, p, verdict),
         \/ verdict = "UnknownLeader"
         \/ verdict = "Invalid" /\ p.root = NoRoot
         \/ Deserved(p.slot, p.root, verdict)
         \/ SignedByLeader(p) <=> verdict = "Valid"
  PROVE  /\ Threads' /\ CheckedTrue' /\ JudgedTrue'
         /\ verdicts \subseteq verdicts'
         /\ verdict = "UnknownLeader" \/ <<p, verdict>> \in verdicts'
<1>1. Threads' /\ CheckedTrue'
  BY DEF Threads, CheckedTrue, Say, Idle, SignedByLeader
<1>2. /\ verdicts \subseteq verdicts'
      /\ verdict = "UnknownLeader" \/ verdicts' = verdicts \cup {<<p, verdict>>}
      /\ verdict = "UnknownLeader" => verdicts' = verdicts
  BY DEF Say
<1>3. verdicts' \subseteq Shreds \X {"Valid", "Invalid"}
  BY <1>2 DEF JudgedTrue
<1>4. verdict = "UnknownLeader" \/ (verdict = "Invalid" /\ p.root = NoRoot)
      \/ Deserved(p.slot, p.root, verdict)'
  <2>1. CASE Deserved(p.slot, p.root, verdict)
    BY <1>2, <2>1, StillDeserved
  <2>2. CASE verdict # "UnknownLeader" /\ (SignedByLeader(p) <=> verdict = "Valid")
    BY <1>2, <2>2 DEF Deserved, SignedByLeader
  <2>3. QED
    BY <2>1, <2>2
<1>5. ASSUME NEW q \in Shreds, <<q, "Valid">> \in verdicts'
      PROVE  Deserved(q.slot, q.root, "Valid")'
  <2>1. CASE <<q, "Valid">> \in verdicts
    BY <1>2, <2>1, StillDeserved DEF JudgedTrue
  <2>2. CASE q = p /\ verdict = "Valid"
    BY <1>4, <2>2
  <2>3. QED
    BY <1>2, <1>5, <2>1, <2>2
<1>6. ASSUME NEW q \in Shreds, <<q, "Invalid">> \in verdicts'
      PROVE  q.root = NoRoot \/ Deserved(q.slot, q.root, "Invalid")'
  <2>1. CASE <<q, "Invalid">> \in verdicts
    BY <1>2, <2>1, StillDeserved DEF JudgedTrue
  <2>2. CASE q = p /\ verdict = "Invalid"
    BY <1>4, <2>2
  <2>3. QED
    BY <1>2, <1>6, <2>1, <2>2
<1>7. QED
  BY <1>1, <1>2, <1>3, <1>5, <1>6 DEF JudgedTrue

LEMMA RootsStillTrue ==
  ASSUME RootsTrue, RootsBounded, UNCHANGED roots, verdicts \subseteq verdicts'
  PROVE  RootsTrue' /\ RootsBounded'
<1>1. ASSUME NEW s \in DOMAIN roots', NEW r \in DOMAIN roots'[s]
      PROVE  Deserved(s, r, Verdict(roots[s][r]))'
  BY <1>1, StillDeserved DEF RootsTrue, Verdict
<1>2. RootsTrue'
  BY <1>1 DEF RootsTrue, Slots
<1>3. QED
  BY <1>2 DEF RootsBounded

-----------------------------------------------------------------------------
(* The steps. *)

LEMMA ShredSlots == \A p \in Shreds : p.slot \in Slots
BY ShredVerifierAssumption DEF Slots

LEMMA RefreshTrue ==
  ASSUME VerifierInv, (\E first \in FirstSlots : AskEpoch(first)) \/ SeeToEpoch \/ RefreshFails
  PROVE  VerifierInv'
<1> USE DEF VerifierInv
<1>1. UNCHANGED <<roots, verifier, verdicts>>
  BY DEF AskEpoch, SeeToEpoch, RefreshFails
<1>2. EpochsTrue'
  <2>1. CASE (\E first \in FirstSlots : AskEpoch(first)) \/ RefreshFails
    BY <2>1 DEF AskEpoch, RefreshFails, EpochsTrue
  <2>2. CASE SeeToEpoch
    <3> DEFINE first == Min(refresh)
    <3>1. refresh \subseteq FirstSlots /\ refresh # {} /\ refresh \subseteq Slots
      BY <2>2 DEF EpochsTrue, SeeToEpoch, FirstSlots, Slots
    <3>2. first \in FirstSlots
      BY <3>1, SlotSets, MinOfFinite
    <3>3. refresh' \subseteq FirstSlots /\ (epochs' = epochs \/ epochs' = WithEpoch(first))
      BY <2>2, <3>1 DEF SeeToEpoch
    <3>4. CASE epochs' = epochs
      BY <3>3, <3>4 DEF EpochsTrue
    <3>5. CASE epochs' = WithEpoch(first)
      BY <3>2, <3>3, <3>5, WithEpochTrue DEF EpochsTrue
    <3>6. QED
      BY <3>3, <3>4, <3>5
  <2>3. QED
    BY <2>1, <2>2
<1>3. RootsTrue' /\ RootsBounded'
  BY <1>1, RootsStillTrue
<1>4. Threads' /\ CheckedTrue' /\ JudgedTrue'
  BY <1>1 DEF Threads, CheckedTrue, JudgedTrue, Deserved, SignedByLeader
<1>5. QED
  BY <1>2, <1>3, <1>4

LEMMA LookUpTrue ==
  ASSUME VerifierInv, NEW t \in Verifiers, NEW p \in Shreds, LookUp(t, p)
  PROVE  VerifierInv'
<1> USE DEF VerifierInv
<1>1. UNCHANGED <<epochs, roots, refresh>>
  BY DEF LookUp
<1>2. Threads' /\ CheckedTrue' /\ JudgedTrue' /\ verdicts \subseteq verdicts'
  <2>1. CASE p.root = NoRoot
    <3>1. Say(t, p, "Invalid")
      BY <2>1 DEF LookUp
    <3>2. QED
      BY <2>1, <3>1, SayTrue
  <2>2. CASE p.root # NoRoot /\ Cached(p)
    <3> DEFINE verdict == Verdict(roots[p.slot][p.root])
    <3>1. Say(t, p, verdict)
      BY <2>2 DEF LookUp
    <3>2. Deserved(p.slot, p.root, verdict)
      BY <2>2 DEF Cached, RootsTrue
    <3>3. verdict \in {"Valid", "Invalid", "UnknownLeader"}
      BY DEF Verdict
    <3> HIDE DEF verdict
    <3>4. QED
      BY <3>1, <3>2, <3>3, SayTrue
  <2>3. CASE p.root # NoRoot /\ ~Cached(p)
    <3>1. /\ verifier' = [verifier EXCEPT ![t] = [pc |-> "missed", shred |-> p]]
          /\ UNCHANGED verdicts
      BY <2>3 DEF LookUp
    <3>2. QED
      BY <3>1 DEF Threads, CheckedTrue, JudgedTrue, Deserved, SignedByLeader
  <2>4. QED
    BY <2>1, <2>2, <2>3
<1>3. RootsTrue' /\ RootsBounded'
  BY <1>1, <1>2, RootsStillTrue
<1>4. EpochsTrue'
  BY <1>1 DEF EpochsTrue
<1>5. QED
  BY <1>2, <1>3, <1>4

LEMMA CheckSignatureTrue ==
  ASSUME VerifierInv, NEW t \in Verifiers, CheckSignature(t)
  PROVE  VerifierInv'
<1> USE DEF VerifierInv
<1> DEFINE p == verifier[t].shred
           leader == Leader(p.slot)
<1>1. UNCHANGED <<epochs, roots, refresh>>
  BY DEF CheckSignature
<1>2. p \in Shreds
  BY DEF CheckSignature, Threads, Idle
<1>3. Threads' /\ CheckedTrue' /\ JudgedTrue' /\ verdicts \subseteq verdicts'
  <2>1. CASE leader = Unknown
    <3>1. Say(t, p, "UnknownLeader")
      BY <2>1 DEF CheckSignature
    <3>2. QED
      BY <1>2, <3>1, SayTrue
  <2>2. CASE leader # Unknown
    <3>1. /\ verifier' = [verifier EXCEPT ![t] =
                 [pc |-> "checked", shred |-> p, valid |-> p.signer = leader]]
          /\ UNCHANGED verdicts
      BY <2>2 DEF CheckSignature
    <3>2. leader = LeaderOf[p.slot]
      BY <1>2, <2>2, ShredSlots, LeaderKnown
    <3>3. Threads' /\ CheckedTrue'
      BY <1>2, <3>1, <3>2 DEF Threads, CheckedTrue, SignedByLeader
    <3>4. QED
      BY <3>1, <3>3 DEF JudgedTrue, Deserved, SignedByLeader
  <2>3. QED
    BY <2>1, <2>2
<1>4. RootsTrue' /\ RootsBounded'
  BY <1>1, <1>3, RootsStillTrue
<1>5. EpochsTrue'
  BY <1>1 DEF EpochsTrue
<1>6. QED
  BY <1>3, <1>4, <1>5

\* What is cached of a slot after a verdict: what was, and the root if there was room.
LEMMA WithRootTrue ==
  ASSUME NEW of, NEW root, NEW valid \in BOOLEAN,
         IsFiniteSet(DOMAIN of), Cardinality(DOMAIN of) <= MAX_ROOTS_PER_SLOT
  PROVE  LET new == WithRoot(of, root, valid) IN
         /\ IsFiniteSet(DOMAIN new) /\ Cardinality(DOMAIN new) <= MAX_ROOTS_PER_SLOT
         /\ \A r \in DOMAIN new : \/ r = root /\ new[r] = valid
                                  \/ r \in DOMAIN of /\ new[r] = of[r]
<1> DEFINE new == WithRoot(of, root, valid)
<1>1. Cardinality(DOMAIN of) \in Nat /\ MAX_ROOTS_PER_SLOT \in Nat
  BY FS_CardinalityType, ShredVerifierAssumption
<1>2. CASE Cardinality(DOMAIN of) >= MAX_ROOTS_PER_SLOT
  BY <1>2 DEF WithRoot
<1>3. CASE ~ (Cardinality(DOMAIN of) >= MAX_ROOTS_PER_SLOT)
  <2>1. new = [r \in DOMAIN of \cup {root} |-> IF r = root THEN valid ELSE of[r]]
    BY <1>3 DEF WithRoot
  <2>2. IsFiniteSet(DOMAIN of \cup {root})
        /\ Cardinality(DOMAIN of \cup {root}) =
               IF root \in DOMAIN of THEN Cardinality(DOMAIN of) ELSE Cardinality(DOMAIN of) + 1
    BY FS_AddElement
  <2>3. Cardinality(DOMAIN of \cup {root}) <= MAX_ROOTS_PER_SLOT
    BY <1>1, <1>3, <2>2
  <2>4. DOMAIN new = DOMAIN of \cup {root}
    BY <2>1
  <2>5. QED
    BY <2>1, <2>2, <2>3, <2>4
<1>4. QED
  BY <1>2, <1>3

LEMMA CacheVerdictTrue ==
  ASSUME VerifierInv, NEW t \in Verifiers, CacheVerdict(t)
  PROVE  VerifierInv'
<1> USE DEF VerifierInv
<1>1. PICK p \in Shreds, valid \in BOOLEAN :
          /\ verifier[t].pc = "checked"
          /\ verifier[t].shred = p /\ verifier[t].valid = valid
          /\ valid <=> SignedByLeader(p)
  BY DEF CacheVerdict, Threads, CheckedTrue, Idle
<1> DEFINE slots == DOMAIN roots \cup {p.slot}
           kept == {s \in slots : s >= Max(slots) - (SLOTS_CACHED - 1)}
<1>2. /\ UNCHANGED <<epochs, refresh>>
      /\ Say(t, p, Verdict(valid))
      /\ DOMAIN roots' = kept
      /\ \A s \in kept : roots'[s] = IF s = p.slot THEN WithRoot(RootsOf(s), p.root, valid)
                                     ELSE roots[s]
  BY <1>1 DEF CacheVerdict
<1>3. Threads' /\ CheckedTrue' /\ JudgedTrue' /\ verdicts \subseteq verdicts'
      /\ <<p, Verdict(valid)>> \in verdicts'
  <2>1. Verdict(valid) \in {"Valid", "Invalid"} /\ (SignedByLeader(p) <=> Verdict(valid) = "Valid")
    BY <1>1 DEF Verdict
  <2>2. QED
    BY <1>1, <1>2, <2>1, SayTrue
<1>4. Deserved(p.slot, p.root, Verdict(valid))'
  BY <1>1, <1>3 DEF Deserved, SignedByLeader, Verdict
<1>5. slots \subseteq Slots /\ slots # {}
  BY ShredSlots DEF RootsTrue
<1>6. /\ slots \subseteq Int /\ kept \subseteq slots
      /\ Max(slots) \in Int /\ \A s \in slots : s <= Max(slots)
  BY <1>5, SlotSets, MaxOfFinite
<1>7. ASSUME NEW s, NEW q, s \in kept, q \in kept PROVE s - q < SLOTS_CACHED
  <2>1. s \in Int /\ q \in Int /\ s <= Max(slots) /\ q >= Max(slots) - (SLOTS_CACHED - 1)
    BY <1>6, <1>7
  <2>2. QED
    BY <1>6, <2>1, ShredVerifierAssumption
<1>8. ASSUME NEW s \in kept
      PROVE  /\ IsFiniteSet(DOMAIN roots'[s]) /\ Cardinality(DOMAIN roots'[s]) <= MAX_ROOTS_PER_SLOT
             /\ \A r \in DOMAIN roots'[s] : Deserved(s, r, Verdict(roots[s][r]))'
  <2>1. ASSUME NEW r, NEW v \in {"Valid", "Invalid"},
               s \in DOMAIN roots, r \in DOMAIN roots[s], v = Verdict(roots[s][r])
        PROVE  Deserved(s, r, v)'
    <3>1. Deserved(s, r, v)
      BY <2>1 DEF RootsTrue
    <3>2. QED
      BY <1>3, <3>1, StillDeserved
  <2>2. CASE s # p.slot
    <3>1. s \in DOMAIN roots /\ roots'[s] = roots[s]
      BY <1>2, <2>2
    <3>2. ASSUME NEW r \in DOMAIN roots'[s] PROVE Deserved(s, r, Verdict(roots[s][r]))'
      <4>1. PICK v \in {"Valid", "Invalid"} : v = Verdict(roots[s][r])
        BY DEF Verdict
      <4>2. v = Verdict(roots[s][r])'
        BY <3>1, <4>1 DEF Verdict
      <4>3. QED
        BY <2>1, <3>1, <4>1, <4>2
    <3>3. QED
      BY <3>1, <3>2 DEF RootsBounded
  <2>3. CASE s = p.slot
    <3> DEFINE of == RootsOf(s)
    <3>1. roots'[s] = WithRoot(of, p.root, valid)
      BY <1>2, <2>3
    <3>2. /\ IsFiniteSet(DOMAIN of) /\ Cardinality(DOMAIN of) <= MAX_ROOTS_PER_SLOT
          /\ \A r \in DOMAIN of : s \in DOMAIN roots /\ r \in DOMAIN roots[s] /\ of[r] = roots[s][r]
      <4>1. CASE s \in DOMAIN roots
        BY <4>1 DEF RootsOf, RootsBounded
      <4>2. CASE s \notin DOMAIN roots
        BY <4>2, FS_EmptySet, ShredVerifierAssumption DEF RootsOf
      <4>3. QED
        BY <4>1, <4>2
    <3> HIDE DEF of
    <3>3. /\ IsFiniteSet(DOMAIN roots'[s]) /\ Cardinality(DOMAIN roots'[s]) <= MAX_ROOTS_PER_SLOT
          /\ \A r \in DOMAIN roots'[s] : \/ r = p.root /\ roots'[s][r] = valid
                                         \/ r \in DOMAIN of /\ roots'[s][r] = of[r]
      BY <3>1, <3>2, WithRootTrue
    <3>4. ASSUME NEW r \in DOMAIN roots'[s] PROVE Deserved(s, r, Verdict(roots[s][r]))'
      <4>1. CASE r = p.root /\ roots'[s][r] = valid
        <5>1. Verdict(valid) = Verdict(roots[s][r])'
          BY <4>1 DEF Verdict
        <5>2. QED
          BY <1>4, <2>3, <4>1, <5>1
      <4>2. CASE r \in DOMAIN of /\ roots'[s][r] = of[r]
        <5>1. PICK v \in {"Valid", "Invalid"} : v = Verdict(roots[s][r])
          BY DEF Verdict
        <5>2. v = Verdict(roots[s][r])'
          BY <3>2, <4>2, <5>1 DEF Verdict
        <5>3. QED
          BY <2>1, <3>2, <4>2, <5>1, <5>2
      <4>3. QED
        BY <3>3, <4>1, <4>2
    <3>5. QED
      BY <3>3, <3>4
  <2>4. QED
    BY <2>2, <2>3
<1>9. RootsBounded'
  BY <1>2, <1>7, <1>8 DEF RootsBounded
<1>10. RootsTrue'
  BY <1>2, <1>5, <1>6, <1>8 DEF RootsTrue, Slots
<1>11. EpochsTrue'
  BY <1>2 DEF EpochsTrue
<1>12. QED
  BY <1>3, <1>9, <1>10, <1>11

LEMMA InvStep == VerifierInv /\ [VerifierNext]_verifierVars => VerifierInv'
<1> SUFFICES ASSUME VerifierInv, [VerifierNext]_verifierVars PROVE VerifierInv'
  OBVIOUS
<1>1. CASE (\E first \in FirstSlots : AskEpoch(first)) \/ SeeToEpoch \/ RefreshFails
  BY <1>1, RefreshTrue
<1>2. ASSUME NEW t \in Verifiers, NEW p \in Shreds, LookUp(t, p) PROVE VerifierInv'
  BY <1>2, LookUpTrue
<1>3. ASSUME NEW t \in Verifiers, CheckSignature(t) PROVE VerifierInv'
  BY <1>3, CheckSignatureTrue
<1>4. ASSUME NEW t \in Verifiers, CacheVerdict(t) PROVE VerifierInv'
  BY <1>4, CacheVerdictTrue
<1>5. CASE UNCHANGED verifierVars
  <2>1. UNCHANGED <<epochs, roots, refresh, verifier, verdicts>>
    BY <1>5 DEF verifierVars
  <2>2. RootsTrue' /\ RootsBounded'
    BY <2>1, RootsStillTrue DEF VerifierInv
  <2>3. EpochsTrue'
    BY <2>1 DEF VerifierInv, EpochsTrue
  <2>4. Threads' /\ CheckedTrue' /\ JudgedTrue'
    BY <2>1 DEF VerifierInv, Threads, CheckedTrue, JudgedTrue, Deserved, SignedByLeader
  <2>5. QED
    BY <2>2, <2>3, <2>4 DEF VerifierInv
<1>6. QED
  BY <1>1, <1>2, <1>3, <1>4, <1>5 DEF VerifierNext

\* What every reachable state satisfies.
THEOREM VerifierInvariant == VerifierSpec => []VerifierInv
BY InvInit, InvStep, PTL DEF VerifierSpec

-----------------------------------------------------------------------------
(* What follows from it. *)

\* The two caches of the verifier stay within their bounds, whatever slots the shreds name and
\* however many threads cache verdicts at once, and its state keeps its type.
THEOREM VerifierTypes == VerifierSpec => []VerifierTypeOK
<1>1. VerifierInv => VerifierTypeOK
  <2> SUFFICES ASSUME VerifierInv PROVE VerifierTypeOK
    OBVIOUS
  <2>1. CachesBounded
    BY DEF VerifierInv, CachesBounded, EpochsTrue, RootsBounded
  <2>2. \A t \in Verifiers : verifier[t].pc \in {"idle", "missed", "checked"}
    BY DEF VerifierInv, Threads, Idle
  <2>3. QED
    BY <2>1, <2>2 DEF VerifierInv, VerifierTypeOK, EpochsTrue, RootsTrue, Slots
<1>2. QED
  BY <1>1, VerifierInvariant, PTL

\* A verdict is the leader's signature on the root, or its absence, of the shred asked about or
\* of one of the same root judged before: no refresh, eviction or race of threads changes it.
THEOREM VerdictsSound == VerifierSpec => []VerdictSound
<1>1. VerifierInv => VerdictSound
  <2> SUFFICES ASSUME VerifierInv, NEW v \in verdicts
               PROVE  LET judged(verdict) == {w[1] : w \in {x \in verdicts :
                                                  x[2] = verdict /\ SameRoot(x[1], v[1])}} IN
                      /\ v[2] = "Valid" => \E q \in judged("Valid") : SignedByLeader(q)
                      /\ v[2] = "Invalid" =>
                             v[1].root = NoRoot \/ \E q \in judged("Invalid") : ~SignedByLeader(q)
    BY DEF VerdictSound
  <2> DEFINE judged(verdict) == {w[1] : w \in {x \in verdicts :
                                                 x[2] = verdict /\ SameRoot(x[1], v[1])}}
  <2>1. PICK p \in Shreds, said \in {"Valid", "Invalid"} : v = <<p, said>>
    BY DEF VerifierInv, JudgedTrue
  <2>2. ASSUME NEW verdict \in {"Valid", "Invalid"}, Deserved(p.slot, p.root, verdict)
        PROVE  \E q \in judged(verdict) : SignedByLeader(q) <=> verdict = "Valid"
    <3>1. PICK q \in Shreds : /\ q.slot = p.slot /\ q.root = p.root /\ <<q, verdict>> \in verdicts
                              /\ SignedByLeader(q) <=> verdict = "Valid"
      BY <2>2 DEF Deserved
    <3>2. <<q, verdict>> \in {x \in verdicts : x[2] = verdict /\ SameRoot(x[1], v[1])}
      BY <2>1, <3>1 DEF SameRoot
    <3>3. <<q, verdict>>[1] \in judged(verdict)
      BY <3>2
    <3>4. QED
      BY <3>1, <3>3
  <2>3. /\ said = "Valid" => Deserved(p.slot, p.root, "Valid")
        /\ said = "Invalid" => p.root = NoRoot \/ Deserved(p.slot, p.root, "Invalid")
    BY <2>1 DEF VerifierInv, JudgedTrue
  <2> HIDE DEF judged
  <2>4. /\ v[2] = "Valid" => \E q \in judged("Valid") : SignedByLeader(q)
        /\ v[2] = "Invalid" => v[1].root = NoRoot \/ \E q \in judged("Invalid") : ~SignedByLeader(q)
    BY <2>1, <2>2, <2>3
  <2>5. QED
    BY <2>4 DEF judged
<1>2. QED
  BY <1>1, VerifierInvariant, PTL

-----------------------------------------------------------------------------
(* The receivers: what one datagram does. *)

Ips == {x.ip : x \in Arrivals}

Datagrams == [no : Nat, ip : Ips, kind : Kinds, dropped : Nat]

Packets == [no : Nat, provider : Nat, ip : Ips, port : Ports]

Sightings == Nat \X Ips

RxCounters ==
    [received : Nat, unmatched : Nat, no_timestamp : Nat, channel_full : Nat, kernel_dropped : Nat,
     truncated : Nat]

ScanRecords ==
    [counters : RxCounters, last : 0..COUNTER - 1, batch : Seq(Packets), senders : SUBSET Sightings,
     told : Nat, turns : Int, empty : Nat]

ReceiverTyped ==
    /\ config \in Configs /\ Validates(config)
    /\ sockets \in [Ports -> [queue : Seq(Datagrams), dropped : Nat]]
    /\ rx \in [Ports -> {"deciding", "receiving", "ended"}]
    /\ last_ovfl \in [Ports -> 0..COUNTER - 1]
    /\ reported_ips \in [Ports -> SUBSET Sightings] /\ observed \in SUBSET Sightings
    /\ counters \in RxCounters
    /\ channel \in Seq(Seq(Packets)) /\ ingested \in Seq(Packets)
    /\ exit \in BOOLEAN /\ rx_main \in {"running", "joining", "draining", "done"}
    /\ fate \in [arrivals : Nat, refused : Nat, empty : Nat, told : [Ports -> Nat], turns : Int,
                 asked : BOOLEAN]

\* The drops the datagrams queued on a port tell of never go down; those told of are the earlier ones.
DropsGrow(p) ==
    LET q == sockets[p].queue IN
    /\ fate.told[p] <= sockets[p].dropped /\ last_ovfl[p] = fate.told[p] % COUNTER
    /\ \A i \in DOMAIN q : fate.told[p] <= q[i].dropped /\ q[i].dropped <= sockets[p].dropped
    /\ \A i, j \in DOMAIN q : i < j => q[i].dropped <= q[j].dropped

\* A rule is the number of a provider that is entered under the key.
LEMMA RuleIs ==
  ASSUME ReceiverTyped, NEW key
  PROVE  \/ Rule(key) = Nobody /\ \A j \in DOMAIN config.providers : key \notin Keys(config.providers[j])
         \/ /\ Rule(key) \in DOMAIN config.providers /\ Rule(key) \in Nat
            /\ key \in Keys(config.providers[Rule(key)])
<1> DEFINE those == {i \in DOMAIN config.providers : key \in Keys(config.providers[i])}
           rows == {config.providers[i] : i \in DOMAIN config.providers}
<1>1. config.providers \in Seq(rows)
  BY PacketReceiverAssumption DEF ReceiverTyped
<1>2. IsFiniteSet(DOMAIN config.providers) /\ DOMAIN config.providers = 1..Len(config.providers) /\ Len(config.providers) \in Nat
  <2> HIDE DEF rows
  <2> QED
    BY <1>1, SeqFinite
<1>3. IsFiniteSet(those) /\ those \in SUBSET Int
  BY <1>2, FS_Subset
<1>4. those # {} => Max(those) \in those
  <2> HIDE DEF those
  <2> QED
    BY <1>3, MaxOfFinite
<1>5. Rule(key) = IF those = {} THEN Nobody ELSE Max(those)
  BY DEF Rule
<1>6. QED
  BY <1>2, <1>4, <1>5

\* The provider a datagram is attributed to has the narrowest rule.
LEMMA ResolveIs ==
  ASSUME ReceiverTyped, NEW port \in Ports, NEW ip, NEW no
  PROVE  \/ Resolve(ip, port) = Nobody
         \/ /\ Resolve(ip, port) \in Nat
            /\ Narrowest([no |-> no, provider |-> Resolve(ip, port), ip |-> ip, port |-> port])
<1> DEFINE both == <<{ip}, port>>
           plain == <<{}, port>>
           alone == <<{ip}, NoPort>>
           ps == config.providers
           packet == [no |-> no, provider |-> Resolve(ip, port), ip |-> ip, port |-> port]
<1>0. port # NoPort /\ Nobody \notin Nat
  BY PacketReceiverAssumption
<1>1. \A j \in DOMAIN ps : /\ both \in Keys(ps[j]) <=> ps[j].port = port /\ ip \in ps[j].ips
                           /\ plain \in Keys(ps[j]) <=> ps[j].port = port /\ ps[j].ips = {}
                           /\ alone \in Keys(ps[j]) <=> ps[j].port = NoPort /\ ip \in ps[j].ips
  <2> SUFFICES ASSUME NEW j \in DOMAIN ps
               PROVE  /\ both \in Keys(ps[j]) <=> ps[j].port = port /\ ip \in ps[j].ips
                      /\ plain \in Keys(ps[j]) <=> ps[j].port = port /\ ps[j].ips = {}
                      /\ alone \in Keys(ps[j]) <=> ps[j].port = NoPort /\ ip \in ps[j].ips
    OBVIOUS
  <2>1. CASE ps[j].ips = {}
    <3>1. Keys(ps[j]) = {<<{}, ps[j].port>>}
      BY <2>1 DEF Keys
    <3>2. {ip} # {}
      OBVIOUS
    <3>3. QED
      BY <2>1, <3>1, <3>2
  <2>2. CASE ps[j].ips # {}
    <3>1. Keys(ps[j]) = {<<{x}, ps[j].port>> : x \in ps[j].ips}
      BY <2>2 DEF Keys
    <3>2. \A x : {x} # {} /\ ({x} = {ip} <=> x = ip)
      OBVIOUS
    <3> HIDE DEF ps
    <3>3. QED
      BY <2>2, <3>1, <3>2
  <2>3. QED
    BY <2>1, <2>2
<1> HIDE DEF ps
<1>2. \/ Rule(both) = Nobody /\ \A j \in DOMAIN ps : both \notin Keys(ps[j])
      \/ Rule(both) \in DOMAIN ps /\ Rule(both) \in Nat /\ both \in Keys(ps[Rule(both)])
  BY RuleIs DEF ps
<1>3. \/ Rule(plain) = Nobody /\ \A j \in DOMAIN ps : plain \notin Keys(ps[j])
      \/ Rule(plain) \in DOMAIN ps /\ Rule(plain) \in Nat /\ plain \in Keys(ps[Rule(plain)])
  BY RuleIs DEF ps
<1>4. \/ Rule(alone) = Nobody
      \/ Rule(alone) \in DOMAIN ps /\ Rule(alone) \in Nat /\ alone \in Keys(ps[Rule(alone)])
  BY RuleIs DEF ps
<1>5. /\ Rule(both) # Nobody => Resolve(ip, port) = Rule(both)
      /\ Rule(both) = Nobody /\ Rule(plain) # Nobody => Resolve(ip, port) = Rule(plain)
      /\ Rule(both) = Nobody /\ Rule(plain) = Nobody => Resolve(ip, port) = Rule(alone)
  BY DEF Resolve
<1>6. packet.provider = Resolve(ip, port) /\ packet.port = port /\ packet.ip = ip
  OBVIOUS
<1> HIDE DEF both, plain, alone, packet
<1>7. SUFFICES ASSUME Resolve(ip, port) # Nobody
               PROVE  Resolve(ip, port) \in Nat /\ Narrowest(packet)
  BY DEF packet
<1>8. CASE Rule(both) # Nobody
  <2>1. ps[packet.provider].port = port /\ ip \in ps[packet.provider].ips /\ packet.provider \in DOMAIN ps
    BY <1>1, <1>2, <1>5, <1>6, <1>8
  <2>2. QED
    BY <1>0, <1>2, <1>5, <1>6, <1>8, <2>1 DEF Narrowest, ps
<1>9. CASE Rule(both) = Nobody /\ Rule(plain) # Nobody
  <2>1. ps[packet.provider].port = port /\ ps[packet.provider].ips = {} /\ packet.provider \in DOMAIN ps
    BY <1>1, <1>3, <1>5, <1>6, <1>9
  <2>2. \A j \in DOMAIN ps : ~ (port = ps[j].port /\ ip \in ps[j].ips)
    BY <1>0, <1>1, <1>2, <1>9
  <2>3. QED
    BY <1>0, <1>3, <1>5, <1>6, <1>9, <2>1, <2>2 DEF Narrowest, ps
<1>10. CASE Rule(both) = Nobody /\ Rule(plain) = Nobody
  <2>1. ps[packet.provider].port = NoPort /\ ip \in ps[packet.provider].ips /\ packet.provider \in DOMAIN ps
    BY <1>1, <1>4, <1>5, <1>6, <1>7, <1>10
  <2>2. /\ \A j \in DOMAIN ps : ~ (port = ps[j].port /\ ip \in ps[j].ips)
        /\ \A j \in DOMAIN ps : ps[j].ips = {} => ps[j].port # port
    BY <1>0, <1>1, <1>2, <1>3, <1>10
  <2>3. QED
    BY <1>0, <1>4, <1>5, <1>6, <1>7, <1>10, <2>1, <2>2 DEF Narrowest, ps
<1>11. QED
  BY <1>8, <1>9, <1>10

\* What Hear changes, field by field.
LEMMA HearIs ==
  ASSUME NEW s \in ScanRecords, NEW d \in Datagrams
  PROVE  /\ Hear(s, d) \in ScanRecords
         /\ Hear(s, d).batch = s.batch /\ Hear(s, d).senders = s.senders /\ Hear(s, d).empty = s.empty
         /\ \A f \in {"received", "unmatched", "no_timestamp", "channel_full", "truncated"} :
                Hear(s, d).counters[f] = s.counters[f]
         /\ Hear(s, d).told = IF Ovfl(d) = 0 THEN s.told ELSE d.dropped
         /\ Hear(s, d).turns = IF Ovfl(d) = 0 THEN s.turns ELSE s.turns + (d.dropped - s.told) \div COUNTER
         /\ Hear(s, d).last = IF Tells(d, s.last) THEN Ovfl(d) ELSE s.last
         /\ Hear(s, d).counters.kernel_dropped =
                IF Tells(d, s.last) THEN s.counters.kernel_dropped + Wrapping(Ovfl(d), s.last)
                ELSE s.counters.kernel_dropped
<1>1. COUNTER \in Nat \ {0} /\ d.dropped \in Nat /\ s.told \in Nat /\ s.turns \in Int /\ s.last \in 0..COUNTER - 1
  BY PacketReceiverAssumption DEF ScanRecords, Datagrams
<1>2. Ovfl(d) \in 0..COUNTER - 1
  BY <1>1 DEF Ovfl
<1>3. Wrapping(Ovfl(d), s.last) \in Nat
  BY <1>1, <1>2 DEF Wrapping
<1>4. (d.dropped - s.told) \div COUNTER \in Int
  <2>1. d.dropped - s.told \in Int
    BY <1>1
  <2>2. QED
    BY <1>1, <2>1
<1> DEFINE turn == (d.dropped - s.told) \div COUNTER
           new == Wrapping(Ovfl(d), s.last)
           heard == IF Ovfl(d) = 0 THEN s ELSE [s EXCEPT !.turns = @ + turn, !.told = d.dropped]
<1>5. /\ heard \in ScanRecords /\ heard.batch = s.batch /\ heard.senders = s.senders /\ heard.empty = s.empty
      /\ heard.counters = s.counters /\ heard.last = s.last
      /\ heard.told = IF Ovfl(d) = 0 THEN s.told ELSE d.dropped
      /\ heard.turns = IF Ovfl(d) = 0 THEN s.turns ELSE s.turns + turn
  <2>1. turn \in Int
    BY <1>4
  <2> HIDE DEF turn
  <2> DEFINE up == [s EXCEPT !.turns = @ + turn, !.told = d.dropped]
  <2>2. s.turns + turn \in Int
    BY <1>1, <2>1
  <2>3. /\ up \in ScanRecords /\ up.batch = s.batch /\ up.senders = s.senders /\ up.empty = s.empty
        /\ up.counters = s.counters /\ up.last = s.last /\ up.told = d.dropped /\ up.turns = s.turns + turn
    BY <1>1, <2>2 DEF ScanRecords
  <2> HIDE DEF up
  <2>4. heard = IF Ovfl(d) = 0 THEN s ELSE up
    BY DEF up
  <2> HIDE DEF heard
  <2>5. QED
    BY <2>3, <2>4
<1>6. Hear(s, d) = IF ~Tells(d, s.last) THEN heard
                   ELSE [heard EXCEPT !.counters.kernel_dropped = @ + new, !.last = Ovfl(d)]
  BY DEF Hear
<1>7. heard.counters \in RxCounters
  BY <1>5 DEF ScanRecords
<1> HIDE DEF heard, turn, new
<1>8. CASE ~ Tells(d, s.last)
  BY <1>5, <1>6, <1>8 DEF turn
<1>9. CASE Tells(d, s.last)
  <2>1. new \in Nat
    BY <1>3 DEF new
  <2>2. Hear(s, d) = [heard EXCEPT !.counters.kernel_dropped = @ + new, !.last = Ovfl(d)]
    BY <1>6, <1>9
  <2>3. Hear(s, d).counters = [heard.counters EXCEPT !.kernel_dropped = @ + new] /\ Hear(s, d).last = Ovfl(d)
    BY <1>5, <2>2 DEF ScanRecords
  <2>4. Hear(s, d).counters \in RxCounters
    BY <1>7, <2>1, <2>3 DEF RxCounters
  <2>5. Hear(s, d) \in ScanRecords
    BY <1>2, <1>5, <2>2, <2>4 DEF ScanRecords
  <2>6. QED
    BY <1>5, <1>7, <1>9, <2>2, <2>3, <2>5 DEF ScanRecords, RxCounters, turn, new
<1>10. QED
  BY <1>8, <1>9

\* The packet of a datagram.
PacketOf(datagram, port) ==
    [no |-> datagram.no, provider |-> Resolve(datagram.ip, port), ip |-> datagram.ip, port |-> port]

\* How many datagrams a scan counted.
Handled(s) == s.counters.received + s.counters.truncated + s.counters.no_timestamp + s.empty

\* A datagram leaves a packet, or is counted otherwise; the drops are those heard of.
Scanned(r, s, h, d, port) ==
    /\ r \in ScanRecords /\ r.told = h.told /\ r.turns = h.turns /\ r.last = h.last
    /\ r.counters.kernel_dropped = h.counters.kernel_dropped
    /\ r.counters.channel_full = s.counters.channel_full
    /\ Handled(r) = Handled(s) + 1
    /\ \/ /\ r.batch = s.batch /\ r.senders = s.senders
          /\ r.counters.received - r.counters.unmatched = s.counters.received - s.counters.unmatched
       \/ /\ Resolve(d.ip, port) \in Nat /\ PacketOf(d, port) \in Packets /\ Narrowest(PacketOf(d, port))
          /\ r.batch = Append(s.batch, PacketOf(d, port))
          /\ r.senders = s.senders \cup {<<Resolve(d.ip, port), d.ip>>}
          /\ r.counters.received - r.counters.unmatched = s.counters.received - s.counters.unmatched + 1

LEMMA ScanIs ==
  ASSUME ReceiverTyped, NEW s \in ScanRecords, NEW d \in Datagrams, NEW port \in Ports
  PROVE  Scanned(Scan(s, d, port), s, Hear(s, d), d, port)
<1> DEFINE h == Hear(s, d)
           r == Scan(s, d, port)
           prov == Resolve(d.ip, port)
           pk == PacketOf(d, port)
           Counting(f) == [h EXCEPT !.counters[f] = @ + 1]
<1>1. /\ h \in ScanRecords /\ h.batch = s.batch /\ h.senders = s.senders /\ h.empty = s.empty
      /\ \A f \in {"received", "unmatched", "no_timestamp", "channel_full", "truncated"} : h.counters[f] = s.counters[f]
  BY HearIs
<1>2. d.kind \in Kinds /\ d.no \in Nat /\ d.ip \in Ips
  BY DEF Datagrams
<1>3. /\ d.kind = "truncated" => r = Counting("truncated")
      /\ d.kind = "empty" => r = [h EXCEPT !.empty = @ + 1]
      /\ d.kind = "unstamped" => r = Counting("no_timestamp")
      /\ d.kind = "whole" /\ prov = Nobody => r = [Counting("received") EXCEPT !.counters.unmatched = @ + 1]
      /\ d.kind = "whole" /\ prov # Nobody =>
             r = [Counting("received") EXCEPT !.senders = @ \cup {<<prov, d.ip>>}, !.batch = Append(@, pk)]
  BY DEF Scan, PacketOf
<1>4. prov # Nobody => prov \in Nat /\ Narrowest(pk) /\ pk \in Packets
  <2>1. prov = Nobody \/ (prov \in Nat /\ Narrowest(pk))
    BY ResolveIs DEF PacketOf
  <2>2. QED
    BY <1>2, <2>1 DEF PacketOf, Packets
<1>5. h.counters \in RxCounters /\ s.counters \in RxCounters /\ h.empty \in Nat /\ s.empty \in Nat /\ h.batch \in Seq(Packets)
      /\ h.senders \in SUBSET Sightings
  BY <1>1 DEF ScanRecords
<1>6. ASSUME NEW f \in {"received", "no_timestamp", "truncated"}
      PROVE  /\ Counting(f) \in ScanRecords
             /\ Counting(f).counters = [h.counters EXCEPT ![f] = @ + 1]
             /\ Counting(f).told = h.told /\ Counting(f).turns = h.turns /\ Counting(f).last = h.last
             /\ Counting(f).batch = h.batch /\ Counting(f).senders = h.senders /\ Counting(f).empty = h.empty
  <2> HIDE DEF h
  <2> DEFINE c == h.counters
  <2>c. c \in RxCounters
    BY <1>5
  <2>1. [c EXCEPT ![f] = @ + 1] \in RxCounters
    <3> HIDE DEF c
    <3>1. CASE f = "received"
      BY <2>c, <3>1 DEF RxCounters
    <3>2. CASE f = "no_timestamp"
      BY <2>c, <3>2 DEF RxCounters
    <3>3. CASE f = "truncated"
      BY <2>c, <3>3 DEF RxCounters
    <3>4. QED
      BY <3>1, <3>2, <3>3
  <2>2. Counting(f) = [h EXCEPT !.counters = [h.counters EXCEPT ![f] = @ + 1]]
    BY <1>1 DEF ScanRecords
  <2>3. QED
    BY <1>1, <2>1, <2>2 DEF ScanRecords
<1> HIDE DEF h, r, prov, pk
<1>c. /\ h.counters.received = s.counters.received /\ h.counters.unmatched = s.counters.unmatched
      /\ h.counters.no_timestamp = s.counters.no_timestamp /\ h.counters.truncated = s.counters.truncated
      /\ h.counters.channel_full = s.counters.channel_full
      /\ s.counters.received \in Nat /\ s.counters.unmatched \in Nat /\ s.counters.no_timestamp \in Nat
      /\ s.counters.truncated \in Nat
  BY <1>1, <1>5 DEF RxCounters
<1>e. /\ Handled(s) = s.counters.received + s.counters.truncated + s.counters.no_timestamp + s.empty
      /\ Handled(r) = r.counters.received + r.counters.truncated + r.counters.no_timestamp + r.empty
      /\ s.empty \in Nat
  BY <1>5 DEF Handled
<1>s. SUFFICES Scanned(r, s, h, d, port)
  BY DEF h, r
<1>7. CASE d.kind = "truncated"
  <2>1. r = Counting("truncated")
    BY <1>3, <1>7
  <2>2. /\ r.counters = [h.counters EXCEPT !.truncated = @ + 1] /\ r \in ScanRecords /\ r.told = h.told
        /\ r.turns = h.turns /\ r.last = h.last /\ r.batch = s.batch /\ r.senders = s.senders /\ r.empty = s.empty
    BY <1>1, <1>6, <2>1
  <2>3. /\ r.counters.truncated = s.counters.truncated + 1 /\ r.counters.received = s.counters.received
        /\ r.counters.unmatched = s.counters.unmatched /\ r.counters.no_timestamp = s.counters.no_timestamp
        /\ r.counters.channel_full = s.counters.channel_full
        /\ r.counters.kernel_dropped = h.counters.kernel_dropped
    BY <1>5, <1>c, <2>2 DEF RxCounters
  <2>e. r.empty = s.empty
    BY <2>2
  <2>4. Handled(r) = Handled(s) + 1
    BY ONLY <1>e, <1>c, <2>e, <2>3
  <2>5. QED
    BY <2>2, <2>3, <2>4 DEF Scanned
<1>8. CASE d.kind = "unstamped"
  <2>1. r = Counting("no_timestamp")
    BY <1>3, <1>8
  <2>2. /\ r.counters = [h.counters EXCEPT !.no_timestamp = @ + 1] /\ r \in ScanRecords /\ r.told = h.told
        /\ r.turns = h.turns /\ r.last = h.last /\ r.batch = s.batch /\ r.senders = s.senders /\ r.empty = s.empty
    BY <1>1, <1>6, <2>1
  <2>3. /\ r.counters.no_timestamp = s.counters.no_timestamp + 1 /\ r.counters.received = s.counters.received
        /\ r.counters.unmatched = s.counters.unmatched /\ r.counters.truncated = s.counters.truncated
        /\ r.counters.channel_full = s.counters.channel_full
        /\ r.counters.kernel_dropped = h.counters.kernel_dropped
    BY <1>5, <1>c, <2>2 DEF RxCounters
  <2>e. r.empty = s.empty
    BY <2>2
  <2>4. Handled(r) = Handled(s) + 1
    BY ONLY <1>e, <1>c, <2>e, <2>3
  <2>5. QED
    BY <2>2, <2>3, <2>4 DEF Scanned
<1>9. CASE d.kind = "empty"
  <2>1. r = [h EXCEPT !.empty = @ + 1]
    BY <1>3, <1>9
  <2>2. r \in ScanRecords /\ r.counters = h.counters /\ r.empty = h.empty + 1 /\ r.told = h.told /\ r.turns = h.turns
        /\ r.last = h.last /\ r.batch = h.batch /\ r.senders = h.senders
    BY <1>1, <1>5, <2>1 DEF ScanRecords
  <2>e. r.empty = s.empty + 1 /\ r.counters = h.counters
    BY <1>1, <2>2
  <2>3. Handled(r) = Handled(s) + 1
    BY ONLY <1>e, <1>c, <2>e
  <2>4. QED
    BY <1>1, <1>c, <2>2, <2>3 DEF Scanned
<1>10. CASE d.kind = "whole" /\ prov = Nobody
  <2> DEFINE g == Counting("received")
  <2>1. /\ g \in ScanRecords /\ g.counters = [h.counters EXCEPT !.received = @ + 1]
        /\ g.told = h.told /\ g.turns = h.turns /\ g.last = h.last
        /\ g.batch = h.batch /\ g.senders = h.senders /\ g.empty = h.empty
    BY <1>6
  <2>2. r = [g EXCEPT !.counters.unmatched = @ + 1]
    BY <1>3, <1>10
  <2> HIDE DEF g
  <2>3. r.counters = [g.counters EXCEPT !.unmatched = @ + 1] /\ g.counters \in RxCounters
    BY <2>1, <2>2 DEF ScanRecords
  <2>4. r.counters \in RxCounters
    BY <2>3 DEF RxCounters
  <2>5. r \in ScanRecords /\ r.empty = h.empty /\ r.told = h.told /\ r.turns = h.turns
        /\ r.last = h.last /\ r.batch = h.batch /\ r.senders = h.senders
    BY <2>1, <2>2, <2>4 DEF ScanRecords
  <2>6. /\ r.counters.received = s.counters.received + 1 /\ r.counters.unmatched = s.counters.unmatched + 1
        /\ r.counters.truncated = s.counters.truncated /\ r.counters.no_timestamp = s.counters.no_timestamp
        /\ r.counters.channel_full = s.counters.channel_full
        /\ r.counters.kernel_dropped = h.counters.kernel_dropped
    BY <1>5, <1>c, <2>1, <2>3 DEF RxCounters
  <2>e. r.empty = s.empty
    BY <1>1, <2>5
  <2>7. Handled(r) = Handled(s) + 1
    BY ONLY <1>e, <1>c, <2>e, <2>6
  <2>8. r.counters.received - r.counters.unmatched = s.counters.received - s.counters.unmatched
    BY <1>c, <2>6
  <2>9. QED
    BY <1>1, <2>5, <2>6, <2>7, <2>8 DEF Scanned
<1>11. CASE d.kind = "whole" /\ prov # Nobody
  <2> DEFINE g == Counting("received")
             sighting == <<prov, d.ip>>
  <2>1. /\ g \in ScanRecords /\ g.counters = [h.counters EXCEPT !.received = @ + 1]
        /\ g.told = h.told /\ g.turns = h.turns /\ g.last = h.last
        /\ g.batch = h.batch /\ g.senders = h.senders /\ g.empty = h.empty
    BY <1>6
  <2>2. r = [g EXCEPT !.senders = @ \cup {sighting}, !.batch = Append(@, pk)]
    BY <1>3, <1>11
  <2>3. prov \in Nat /\ pk \in Packets /\ Narrowest(pk) /\ sighting \in Sightings
    BY <1>2, <1>4, <1>11 DEF Sightings
  <2>4. Append(h.batch, pk) \in Seq(Packets)
    BY <1>5, <2>3
  <2> HIDE DEF g, sighting
  <2>5. /\ r.senders = h.senders \cup {sighting} /\ r.batch = Append(h.batch, pk) /\ r.counters = g.counters
        /\ r.empty = h.empty /\ r.told = h.told /\ r.turns = h.turns /\ r.last = h.last
    BY <2>1, <2>2 DEF ScanRecords
  <2>6. h.senders \cup {sighting} \in SUBSET Sightings
    BY <1>5, <2>3
  <2>7. r \in ScanRecords
    BY <2>1, <2>2, <2>4, <2>6 DEF ScanRecords
  <2>8. /\ r.counters.received = s.counters.received + 1 /\ r.counters.unmatched = s.counters.unmatched
        /\ r.counters.truncated = s.counters.truncated /\ r.counters.no_timestamp = s.counters.no_timestamp
        /\ r.counters.channel_full = s.counters.channel_full
        /\ r.counters.kernel_dropped = h.counters.kernel_dropped
    BY <1>5, <1>c, <2>1, <2>5 DEF RxCounters
  <2>e. r.empty = s.empty
    BY <1>1, <2>5
  <2>9. Handled(r) = Handled(s) + 1
    BY ONLY <1>e, <1>c, <2>e, <2>8
  <2>10. r.counters.received - r.counters.unmatched = s.counters.received - s.counters.unmatched + 1
    BY <1>c, <2>8
  <2>11. r.batch = Append(s.batch, PacketOf(d, port)) /\ r.senders = s.senders \cup {<<Resolve(d.ip, port), d.ip>>}
    BY <1>1, <2>5 DEF pk, prov, sighting
  <2>12. Resolve(d.ip, port) \in Nat /\ PacketOf(d, port) \in Packets /\ Narrowest(PacketOf(d, port))
    BY <2>3 DEF pk, prov
  <2>13. QED
    BY <2>5, <2>7, <2>8, <2>9, <2>10, <2>11, <2>12 DEF Scanned
<1>12. QED
  BY <1>2, <1>7, <1>8, <1>9, <1>10, <1>11 DEF Kinds

\* Where a scan of the datagrams of a port begins.
Begin(p) ==
    [counters |-> counters, last |-> last_ovfl[p], batch |-> <<>>, senders |-> {},
     told |-> fate.told[p], turns |-> fate.turns, empty |-> fate.empty]

LEMMA BeginIs == ASSUME ReceiverTyped, NEW p \in Ports PROVE Begin(p) \in ScanRecords
<1>1. last_ovfl[p] \in 0..COUNTER - 1 /\ fate.told[p] \in Nat /\ counters \in RxCounters /\ fate.turns \in Int /\ fate.empty \in Nat
  BY DEF ReceiverTyped
<1>2. <<>> \in Seq(Packets) /\ {} \in SUBSET Sightings
  OBVIOUS
<1>3. QED
  BY <1>1, <1>2 DEF Begin, ScanRecords

\* A batch is scanned from its first datagram to its last.
LEMMA ScansAre ==
  ASSUME ReceiverTyped, NEW p \in Ports, NEW n \in Nat, n <= Len(sockets[p].queue)
  PROVE  /\ Scans(p, n) \in [0..n -> ScanRecords] /\ Scans(p, n)[0] = Begin(p)
         /\ \A i \in 1..n : /\ sockets[p].queue[i] \in Datagrams
                            /\ Scans(p, n)[i] = Scan(Scans(p, n)[i - 1], sockets[p].queue[i], p)
<1> DEFINE q == sockets[p].queue
           h == [i \in 1..n |-> [s \in ScanRecords |-> Scan(s, q[i], p)]]
           b == Begin(p)
           Loops(g) == g = [i \in 0..n |-> IF i = 0 THEN b ELSE Scan(g[i - 1], q[i], p)]
           f == Scans(p, n)
<1>1. q \in Seq(Datagrams)
  BY DEF ReceiverTyped
<1>2. \A i \in 1..n : q[i] \in Datagrams
  <2> HIDE DEF q
  <2>1. n <= Len(q)
    BY DEF q
  <2>2. QED
    BY <1>1, <2>1
<1> HIDE DEF q, b
<1>3. ASSUME NEW i \in 1..n, NEW s \in ScanRecords PROVE Scan(s, q[i], p) \in ScanRecords
  BY <1>2, ScanIs DEF Scanned
<1>4. h \in [1..n -> [ScanRecords -> ScanRecords]]
  BY <1>3
<1>5. b \in ScanRecords
  BY BeginIs DEF b
<1>6. \E g \in [0..n -> ScanRecords] : Loops(g)
  <2>0. \E g \in [0..n -> ScanRecords] : Iterates(g, b, h, n)
    <3> HIDE DEF h
    <3> QED
      BY <1>4, <1>5, IterationExists
  <2>1. PICK g \in [0..n -> ScanRecords] : g[0] = b /\ \A i \in 1..n : g[i] = h[i][g[i - 1]]
    BY <2>0 DEF Iterates
  <2>2. \A i \in 1..n : h[i][g[i - 1]] = Scan(g[i - 1], q[i], p)
    OBVIOUS
  <2> HIDE DEF h
  <2>3. Loops(g)
    BY <2>1, <2>2
  <2>4. QED
    BY <2>3
<1>7. f = CHOOSE g : Loops(g)
  BY DEF Scans, q, b, Begin
<1>8. Loops(f)
  <2> HIDE DEF f, Loops
  <2> QED
    BY <1>6, <1>7
<1> HIDE DEF h, f
<1>9. f[0] = b /\ \A i \in 1..n : f[i] = Scan(f[i - 1], q[i], p)
  <2>1. \A i \in 0..n : f[i] = IF i = 0 THEN b ELSE Scan(f[i - 1], q[i], p)
    BY <1>8
  <2>2. QED
    BY <2>1
<1>10. \A i \in 0..n : f[i] \in ScanRecords
  <2> DEFINE G == {i \in 0..n : f[i] \in ScanRecords}
  <2>1. 0 \in G /\ \A i \in 1..n : i - 1 \in G => i \in G
    BY <1>3, <1>5, <1>9
  <2>2. \A i \in 0..n : i \in G
    <3> HIDE DEF G
    <3> QED
      BY <2>1, StepByStep
  <2>3. QED
    BY <2>2
<1>11. f \in [0..n -> ScanRecords]
  BY <1>8, <1>10
<1>12. QED
  BY <1>2, <1>9, <1>11 DEF f, q, b

\* What was counted and the turns that were lost move as the drops that were told of do.
LEMMA HearTells ==
  ASSUME NEW s \in ScanRecords, NEW d \in Datagrams, s.last = s.told % COUNTER, s.told <= d.dropped
  PROVE  LET h == Hear(s, d) IN
         /\ h.told \in {s.told, d.dropped} /\ h.last = h.told % COUNTER
         /\ h.counters.kernel_dropped + COUNTER * h.turns =
                s.counters.kernel_dropped + COUNTER * s.turns + (h.told - s.told)
<1> DEFINE h == Hear(s, d)
           turn == (d.dropped - s.told) \div COUNTER
           new == Wrapping(Ovfl(d), s.last)
           ks == s.counters.kernel_dropped
           kh == h.counters.kernel_dropped
<1>1. COUNTER \in Nat \ {0} /\ d.dropped \in Nat /\ s.told \in Nat /\ s.turns \in Int /\ ks \in Nat
  BY PacketReceiverAssumption DEF ScanRecords, Datagrams, RxCounters
<1>2. /\ h.told = IF Ovfl(d) = 0 THEN s.told ELSE d.dropped
      /\ h.turns = IF Ovfl(d) = 0 THEN s.turns ELSE s.turns + turn
      /\ h.last = IF Tells(d, s.last) THEN Ovfl(d) ELSE s.last
      /\ kh = IF Tells(d, s.last) THEN ks + new ELSE ks
  BY HearIs
<1>3. new = (d.dropped - s.told) - COUNTER * turn /\ (new = 0 => Ovfl(d) = s.last) /\ new \in Nat
  <2>1. new = ((d.dropped % COUNTER) - (s.told % COUNTER)) % COUNTER
    BY DEF Wrapping, Ovfl
  <2>2. /\ ((d.dropped % COUNTER) - (s.told % COUNTER)) % COUNTER = (d.dropped - s.told) - COUNTER * turn
        /\ ((d.dropped % COUNTER) - (s.told % COUNTER)) % COUNTER = 0 => d.dropped % COUNTER = s.told % COUNTER
    BY <1>1, WrappedDifference
  <2>3. d.dropped % COUNTER \in Int /\ s.told % COUNTER \in Int
    BY <1>1
  <2>4. new \in Nat
    BY <1>1, <2>1, <2>3
  <2> HIDE DEF new, turn
  <2>5. QED
    BY <2>1, <2>2, <2>4 DEF Ovfl
<1>4. Tells(d, s.last) <=> Ovfl(d) # 0 /\ new > 0
  BY DEF Tells
<1>5. turn \in Int
  BY <1>1
<1>6. COUNTER * (s.turns + turn) = COUNTER * s.turns + COUNTER * turn /\ COUNTER * s.turns \in Int /\ COUNTER * turn \in Int
  <2> HIDE DEF turn
  <2> QED
    BY <1>1, <1>5
<1>t. Ovfl(d) = d.dropped % COUNTER
  BY DEF Ovfl
<1>q. SUFFICES /\ h.told \in {s.told, d.dropped} /\ h.last = h.told % COUNTER
               /\ kh + COUNTER * h.turns = ks + COUNTER * s.turns + (h.told - s.told)
  OBVIOUS
<1> HIDE DEF h, turn, new, ks, kh
<1>7. CASE Ovfl(d) = 0
  <2>1. h.told = s.told /\ h.turns = s.turns /\ h.last = s.last /\ kh = ks
    BY <1>2, <1>4, <1>7
  <2>2. QED
    BY <1>1, <1>6, <2>1
<1>8. CASE Ovfl(d) # 0 /\ new = 0
  <2>1. h.told = d.dropped /\ h.turns = s.turns + turn /\ h.last = s.last /\ kh = ks /\ Ovfl(d) = s.last
    BY <1>2, <1>3, <1>4, <1>8
  <2>2. d.dropped - s.told = COUNTER * turn
    <3>1. COUNTER * turn \in Int /\ d.dropped - s.told \in Int /\ 0 = (d.dropped - s.told) - COUNTER * turn
      BY <1>1, <1>3, <1>6, <1>8
    <3>2. QED
      BY ONLY <3>1
  <2>3. QED
    BY <1>1, <1>6, <1>t, <2>1, <2>2
<1>9. CASE Ovfl(d) # 0 /\ new > 0
  <2>1. h.told = d.dropped /\ h.turns = s.turns + turn /\ h.last = Ovfl(d) /\ kh = ks + new
    BY <1>2, <1>4, <1>9
  <2>2. QED
    BY <1>1, <1>3, <1>6, <1>t, <2>1
<1>10. QED
  BY <1>3, <1>7, <1>8, <1>9

\* So they do over a batch.
LEMMA ScanTells ==
  ASSUME ReceiverTyped, NEW p \in Ports, DropsGrow(p), NEW n \in Nat, n <= Len(sockets[p].queue)
  PROVE  LET s == Scans(p, n)[n] IN
         /\ s.last = s.told % COUNTER /\ fate.told[p] <= s.told /\ s.told <= sockets[p].dropped
         /\ \A j \in DOMAIN sockets[p].queue : j > n => s.told <= sockets[p].queue[j].dropped
         /\ s.counters.kernel_dropped + COUNTER * s.turns =
                counters.kernel_dropped + COUNTER * fate.turns + (s.told - fate.told[p])
<1> DEFINE q == sockets[p].queue
           f == Scans(p, n)
           told == fate.told[p]
           all == sockets[p].dropped
           sum == counters.kernel_dropped + COUNTER * fate.turns
           Good(i) ==
               /\ f[i].last = f[i].told % COUNTER /\ told <= f[i].told /\ f[i].told <= all
               /\ \A j \in DOMAIN q : j > i => f[i].told <= q[j].dropped
               /\ f[i].counters.kernel_dropped + COUNTER * f[i].turns = sum + (f[i].told - told)
           G == {i \in 0..n : Good(i)}
<1>1. /\ f \in [0..n -> ScanRecords] /\ f[0] = Begin(p)
      /\ \A i \in 1..n : q[i] \in Datagrams /\ f[i] = Scan(f[i - 1], q[i], p)
  BY ScansAre
<1>2. q \in Seq(Datagrams) /\ told \in Nat /\ all \in Nat /\ COUNTER \in Nat \ {0}
      /\ counters.kernel_dropped \in Nat /\ fate.turns \in Int
  BY PacketReceiverAssumption DEF ReceiverTyped, RxCounters
<1>3. /\ told <= all /\ last_ovfl[p] = told % COUNTER
      /\ \A i \in DOMAIN q : told <= q[i].dropped /\ q[i].dropped <= all
      /\ \A i, j \in DOMAIN q : i < j => q[i].dropped <= q[j].dropped
  BY DEF DropsGrow
<1>4. COUNTER * fate.turns \in Int /\ sum \in Int
  BY <1>2
<1>d. DOMAIN q = 1..Len(q) /\ Len(q) \in Nat /\ n <= Len(q) /\ \A j \in DOMAIN q : q[j] \in Datagrams
  <2>1. n <= Len(q)
    OBVIOUS
  <2> HIDE DEF q
  <2>2. QED
    BY <1>2, <2>1
<1>5. Good(0)
  <2>1. f[0].last = last_ovfl[p] /\ f[0].told = told /\ f[0].counters = counters /\ f[0].turns = fate.turns
    BY <1>1 DEF Begin
  <2> HIDE DEF f, told, all, q
  <2>2. f[0].counters.kernel_dropped + COUNTER * f[0].turns = sum + (f[0].told - told)
    BY <1>2, <1>4, <2>1
  <2> HIDE DEF sum
  <2>3. QED
    BY <1>2, <1>3, <2>1, <2>2
<1>6. ASSUME NEW i \in 1..n, Good(i - 1) PROVE Good(i)
  <2> DEFINE s == f[i - 1]
             d == q[i]
             h == Hear(s, d)
             r == f[i]
  <2>1. i \in DOMAIN q /\ i > i - 1 /\ i - 1 \in 0..n /\ i \in 0..n
    BY <1>d
  <2>2. s \in ScanRecords /\ d \in Datagrams /\ r \in ScanRecords /\ Scanned(r, s, h, d, p)
    BY <1>1, <1>d, <2>1, ScanIs
  <2>3. s.last = s.told % COUNTER /\ s.told <= d.dropped /\ told <= s.told /\ s.told <= all
    BY <1>6, <2>1
  <2>4. /\ h.told \in {s.told, d.dropped} /\ h.last = h.told % COUNTER
        /\ h.counters.kernel_dropped + COUNTER * h.turns = s.counters.kernel_dropped + COUNTER * s.turns + (h.told - s.told)
    BY <2>2, <2>3, HearTells
  <2>5. r.told = h.told /\ r.turns = h.turns /\ r.last = h.last /\ r.counters.kernel_dropped = h.counters.kernel_dropped
    BY <2>2 DEF Scanned
  <2>6. s.told \in Nat /\ d.dropped \in Nat
    BY <2>2 DEF ScanRecords, Datagrams
  <2>7. s.counters.kernel_dropped + COUNTER * s.turns = sum + (s.told - told)
    BY <1>6
  <2>8. \A j \in DOMAIN q : j > i => r.told <= q[j].dropped
    <3> SUFFICES ASSUME NEW j \in DOMAIN q, j > i PROVE h.told <= q[j].dropped
      BY <2>5
    <3>1. q[i].dropped <= q[j].dropped
      BY <1>3, <2>1
    <3>2. j > i - 1 /\ s.told <= q[j].dropped
      <4>1. j > i - 1
        BY <1>d
      <4>2. QED
        BY <1>6, <4>1
    <3>3. QED
      BY <2>4, <3>1, <3>2
  <2>9. told <= d.dropped /\ d.dropped <= all
    BY <1>3, <2>1
  <2> HIDE DEF s, d, h, r, told, all, sum, f, q
  <2>10. told <= r.told /\ r.told <= all /\ r.last = r.told % COUNTER
    BY <2>3, <2>4, <2>5, <2>9
  <2>11. r.counters.kernel_dropped + COUNTER * r.turns = sum + (r.told - told)
    BY <1>2, <1>4, <2>4, <2>5, <2>6, <2>7
  <2>12. QED
    BY <2>8, <2>10, <2>11 DEF r
<1>7. 0 \in G /\ \A i \in 1..n : i - 1 \in G => i \in G
  <2> HIDE DEF Good
  <2> QED
    BY <1>5, <1>6
<1>8. \A i \in 0..n : i \in G
  <2> HIDE DEF G
  <2> QED
    BY <1>7, StepByStep
<1>9. Good(n)
  <2> HIDE DEF Good
  <2> QED
    BY <1>8
<1>10. QED
  BY <1>9

\* Every datagram of a batch is counted, and every packet of it was received for a provider.
LEMMA ScanCounts ==
  ASSUME ReceiverTyped, NEW p \in Ports, NEW n \in Nat, n <= Len(sockets[p].queue)
  PROVE  LET s == Scans(p, n)[n] IN
         /\ s.counters.channel_full = counters.channel_full
         /\ Handled(s) = Handled(Begin(p)) + n
         /\ s.counters.received - s.counters.unmatched = counters.received - counters.unmatched + Len(s.batch)
         /\ Len(s.batch) \in 0..n
<1> DEFINE q == sockets[p].queue
           f == Scans(p, n)
           base == counters.received - counters.unmatched
           Good(i) ==
               /\ f[i].counters.channel_full = counters.channel_full
               /\ Handled(f[i]) = Handled(Begin(p)) + i
               /\ f[i].counters.received - f[i].counters.unmatched = base + Len(f[i].batch)
               /\ Len(f[i].batch) \in 0..i
           G == {i \in 0..n : Good(i)}
<1>1. /\ f \in [0..n -> ScanRecords] /\ f[0] = Begin(p)
      /\ \A i \in 1..n : q[i] \in Datagrams /\ f[i] = Scan(f[i - 1], q[i], p)
  BY ScansAre
<1>2. counters.received \in Nat /\ counters.unmatched \in Nat /\ base \in Int
  BY DEF ReceiverTyped, RxCounters
<1>3. Handled(Begin(p)) \in Int
  BY BeginIs DEF ScanRecords, RxCounters, Handled
<1>4. Good(0)
  <2>1. f[0].counters = counters /\ f[0].batch = <<>>
    BY <1>1 DEF Begin
  <2>2. Len(f[0].batch) = 0
    BY <2>1
  <2> HIDE DEF f
  <2>3. QED
    BY <1>1, <1>2, <1>3, <2>1, <2>2
<1>5. ASSUME NEW i \in 1..n, Good(i - 1) PROVE Good(i)
  <2> DEFINE s == f[i - 1]
             d == q[i]
             r == f[i]
  <2>1. i - 1 \in 0..n /\ i \in 0..n /\ i \in Nat
    OBVIOUS
  <2>2. s \in ScanRecords /\ d \in Datagrams /\ r \in ScanRecords /\ Scanned(r, s, Hear(s, d), d, p)
    BY <1>1, <2>1, ScanIs
  <2>3. /\ s.counters.channel_full = counters.channel_full
        /\ Handled(s) = Handled(Begin(p)) + (i - 1)
        /\ s.counters.received - s.counters.unmatched = base + Len(s.batch)
        /\ Len(s.batch) \in 0..i - 1
    BY <1>5
  <2>4. s.batch \in Seq(Packets)
    BY <2>2 DEF ScanRecords
  <2> HIDE DEF s, d, r, base
  <2>5. r.counters.channel_full = counters.channel_full /\ Handled(r) = Handled(Begin(p)) + i
    BY <1>3, <2>1, <2>2, <2>3 DEF Scanned
  <2>6. CASE r.batch = s.batch /\ r.counters.received - r.counters.unmatched = s.counters.received - s.counters.unmatched
    BY <1>2, <2>1, <2>3, <2>5, <2>6 DEF r
  <2>7. CASE /\ r.batch = Append(s.batch, PacketOf(d, p))
             /\ r.counters.received - r.counters.unmatched = s.counters.received - s.counters.unmatched + 1
    <3>1. Len(r.batch) = Len(s.batch) + 1
      BY <2>4, <2>7
    <3>2. r.counters.received - r.counters.unmatched = base + Len(r.batch)
      BY <1>2, <2>3, <2>7, <3>1
    <3>3. Len(r.batch) \in 0..i
      BY <2>1, <2>3, <3>1
    <3>4. QED
      BY <2>5, <3>2, <3>3 DEF r
  <2>8. QED
    BY <2>2, <2>6, <2>7 DEF Scanned
<1>7. 0 \in G /\ \A i \in 1..n : i - 1 \in G => i \in G
  <2> HIDE DEF Good
  <2> QED
    BY <1>4, <1>5
<1>8. \A i \in 0..n : i \in G
  <2> HIDE DEF G
  <2> QED
    BY <1>7, StepByStep
<1>9. Good(n)
  <2> HIDE DEF Good
  <2> QED
    BY <1>8
<1>10. QED
  BY <1>9

\* Datagrams of a port are queued as they arrived.
Numbered(p) ==
    LET q == sockets[p].queue IN
    /\ \A i \in DOMAIN q : q[i].no <= fate.arrivals
    /\ \A i, j \in DOMAIN q : i < j => q[i].no < q[j].no

\* The packets of a scan are those of the datagrams of a port, each with the narrowest rule, in order.
LEMMA ScanPackets ==
  ASSUME ReceiverTyped, NEW p \in Ports, Numbered(p), NEW n \in Nat, n <= Len(sockets[p].queue)
  PROVE  LET s == Scans(p, n)[n] IN
         /\ InOrder(s.batch)
         /\ \A k \in DOMAIN s.batch :
                /\ s.batch[k].port = p /\ Narrowest(s.batch[k])
                /\ <<s.batch[k].provider, s.batch[k].ip>> \in s.senders
                /\ \E j \in 1..n : s.batch[k].no = sockets[p].queue[j].no
<1> DEFINE q == sockets[p].queue
           f == Scans(p, n)
           Fits(x, i) ==
               /\ x.port = p /\ Narrowest(x) /\ <<x.provider, x.ip>> \in f[i].senders
               /\ \E j \in 1..i : x.no = q[j].no
           Good(i) == InOrder(f[i].batch) /\ \A k \in DOMAIN f[i].batch : Fits(f[i].batch[k], i)
           G == {i \in 0..n : Good(i)}
<1>1. /\ f \in [0..n -> ScanRecords] /\ f[0] = Begin(p)
      /\ \A i \in 1..n : q[i] \in Datagrams /\ f[i] = Scan(f[i - 1], q[i], p)
  BY ScansAre
<1>2. q \in Seq(Datagrams)
  BY DEF ReceiverTyped
<1>3. \A i, j \in DOMAIN q : i < j => q[i].no < q[j].no
  BY DEF Numbered
<1>d. DOMAIN q = 1..Len(q) /\ Len(q) \in Nat /\ n <= Len(q)
  <2>1. n <= Len(q)
    OBVIOUS
  <2> HIDE DEF q
  <2>2. QED
    BY <1>2, <2>1
<1>4. Good(0)
  <2>1. f[0].batch = <<>>
    BY <1>1 DEF Begin
  <2> HIDE DEF f
  <2>2. QED
    BY <2>1 DEF InOrder
<1>5. ASSUME NEW i \in 1..n, Good(i - 1) PROVE Good(i)
  <2> DEFINE s == f[i - 1]
             d == q[i]
             r == f[i]
             x == PacketOf(d, p)
  <2>1. i - 1 \in 0..n /\ i \in 0..n /\ i \in Nat /\ i \in DOMAIN q
    BY <1>d
  <2>2. s \in ScanRecords /\ d \in Datagrams /\ r \in ScanRecords /\ Scanned(r, s, Hear(s, d), d, p)
    BY <1>1, <2>1, ScanIs
  <2>3. s.batch \in Seq(Packets) /\ s.senders \subseteq r.senders
    BY <2>2 DEF ScanRecords, Scanned
  <2>4. ASSUME NEW y, Fits(y, i - 1) PROVE Fits(y, i)
    <3>1. PICK j \in 1..i - 1 : y.no = q[j].no
      BY <2>4
    <3>2. j \in 1..i
      BY <2>1
    <3> HIDE DEF f, q
    <3>3. QED
      BY <2>3, <2>4, <3>1, <3>2
  <2>5. CASE r.batch = s.batch
    <3>1. InOrder(r.batch)
      BY <1>5, <2>5
    <3>2. \A k \in DOMAIN r.batch : Fits(r.batch[k], i - 1)
      BY <1>5, <2>5
    <3>3. \A k \in DOMAIN r.batch : Fits(r.batch[k], i)
      <4> HIDE DEF Fits
      <4> QED
        BY <2>4, <3>2
    <3>4. QED
      BY <3>1, <3>3
  <2>6. CASE /\ Narrowest(x) /\ x \in Packets
             /\ r.batch = Append(s.batch, x)
             /\ r.senders = s.senders \cup {<<Resolve(d.ip, p), d.ip>>}
    <3>x. x.port = p /\ x.no = d.no /\ x.provider = Resolve(d.ip, p) /\ x.ip = d.ip
      BY DEF PacketOf
    <3>1. Fits(x, i)
      <4>1. i \in 1..i
        BY <2>1
      <4>2. QED
        BY <2>6, <3>x, <4>1
    <3>2. /\ DOMAIN r.batch = 1..Len(s.batch) + 1 /\ r.batch[Len(s.batch) + 1] = x
          /\ DOMAIN s.batch = 1..Len(s.batch) /\ Len(s.batch) \in Nat
          /\ \A k \in DOMAIN s.batch : r.batch[k] = s.batch[k]
      <4> HIDE DEF s, r, x
      <4> QED
        BY <2>3, <2>6
    <3>3. ASSUME NEW k \in DOMAIN r.batch PROVE Fits(r.batch[k], i)
      <4>1. CASE k = Len(s.batch) + 1
        BY <3>1, <3>2, <4>1
      <4>2. CASE k # Len(s.batch) + 1
        <5>1. k \in DOMAIN s.batch
          BY <3>2, <4>2
        <5>2. Fits(s.batch[k], i - 1)
          BY <1>5, <5>1
        <5> HIDE DEF Fits
        <5>3. QED
          BY <2>4, <3>2, <5>1, <5>2
      <4>3. QED
        BY <4>1, <4>2
    <3>4. \A k \in DOMAIN s.batch : s.batch[k].no < x.no /\ s.batch[k].no = r.batch[k].no
      <4> SUFFICES ASSUME NEW k \in DOMAIN s.batch PROVE s.batch[k].no < x.no
        BY <3>2
      <4>1. PICK j \in 1..i - 1 : s.batch[k].no = q[j].no
        BY <1>5
      <4>2. j \in DOMAIN q /\ j < i
        BY <1>d, <2>1
      <4>3. q[j].no < q[i].no
        BY <1>3, <2>1, <4>2
      <4>4. QED
        BY <3>x, <4>1, <4>3
    <3>5. InOrder(r.batch)
      <4>1. InOrder(s.batch)
        BY <1>5
      <4> HIDE DEF s, r, x
      <4> SUFFICES ASSUME NEW a \in DOMAIN r.batch, NEW b \in DOMAIN r.batch, a < b, r.batch[a].port = r.batch[b].port
                   PROVE  r.batch[a].no < r.batch[b].no
        BY DEF InOrder
      <4>2. a \in DOMAIN s.batch
        BY <3>2
      <4>3. CASE b = Len(s.batch) + 1
        BY <3>2, <3>4, <4>2, <4>3
      <4>4. CASE b # Len(s.batch) + 1
        <5>1. b \in DOMAIN s.batch
          BY <3>2, <4>4
        <5>2. QED
          BY <3>2, <4>1, <4>2, <5>1 DEF InOrder
      <4>5. QED
        BY <4>3, <4>4
    <3>6. QED
      BY <3>3, <3>5
  <2>7. QED
    <3>1. r.batch = s.batch \/ /\ Narrowest(x) /\ x \in Packets
                               /\ r.batch = Append(s.batch, x)
                               /\ r.senders = s.senders \cup {<<Resolve(d.ip, p), d.ip>>}
      BY <2>2 DEF Scanned
    <3>2. QED
      BY <2>5, <2>6, <3>1
<1>7. 0 \in G /\ \A i \in 1..n : i - 1 \in G => i \in G
  <2> HIDE DEF Good
  <2> QED
    BY <1>4, <1>5
<1>8. \A i \in 0..n : i \in G
  <2> HIDE DEF G
  <2> QED
    BY <1>7, StepByStep
<1>9. Good(n)
  <2> HIDE DEF Good
  <2> QED
    BY <1>8
<1>10. QED
  BY <1>9

-----------------------------------------------------------------------------
(* The receivers: the inductive invariant. *)

QueuesInv == \A p \in Ports : DropsGrow(p) /\ Numbered(p) /\ reported_ips[p] \subseteq observed

\* A packet that was received arrived before what is still queued on its port.
Older(batch, arrivals, queued) ==
    \A i \in DOMAIN batch :
        /\ batch[i].no <= arrivals
        /\ \A j \in DOMAIN queued[batch[i].port].queue : batch[i].no < queued[batch[i].port].queue[j].no

BatchesInv ==
    /\ Older(ingested, fate.arrivals, sockets) /\ Len(channel) <= CHANNEL
    /\ \A i \in DOMAIN channel : Older(channel[i], fate.arrivals, sockets) /\ Len(channel[i]) \in 1..BATCH

\* The rx threads end, and the main loop ends, because main was asked to.
AskedInv ==
    /\ exit => fate.asked
    /\ rx_main # "running" => exit
    /\ \A p \in Listening(config) : rx[p] = "ended" => exit

ReceiverInv ==
    /\ ReceiverTyped /\ QueuesInv /\ BatchesInv /\ AskedInv
    /\ DropsTold /\ DatagramsCounted /\ PacketsAttributed

LEMMA ListeningPorts == ASSUME ReceiverTyped PROVE Listening(config) \subseteq Ports
<1>1. config.listen_ports \subseteq Ports /\ \A i \in DOMAIN config.providers : config.providers[i].port \in Ports \cup {NoPort}
  BY PacketReceiverAssumption DEF ReceiverTyped
<1>2. {config.providers[i].port : i \in DOMAIN config.providers} \ {NoPort} \subseteq Ports
  BY <1>1
<1>3. QED
  BY <1>1, <1>2 DEF Listening

\* What a thread does with a batch.
LEMMA ReceiveIs ==
  ASSUME ReceiverTyped, NEW p \in Ports, NEW n \in 1..BATCH, ReceiveBatch(p, n)
  PROVE  LET s == Scans(p, n)[n]
             refused == s.batch # <<>> /\ Len(channel) >= CHANNEL
         IN
         /\ n \in Nat /\ n <= Len(sockets[p].queue) /\ s \in ScanRecords
         /\ rx' = [rx EXCEPT ![p] = "deciding"]
         /\ \A o \in Ports : sockets'[o].dropped = sockets[o].dropped
         /\ sockets'[p].queue = SubSeq(sockets[p].queue, n + 1, Len(sockets[p].queue))
         /\ \A o \in Ports \ {p} : /\ sockets'[o].queue = sockets[o].queue /\ last_ovfl'[o] = last_ovfl[o]
                                   /\ fate'.told[o] = fate.told[o] /\ reported_ips'[o] = reported_ips[o]
         /\ last_ovfl'[p] = s.last /\ fate'.told[p] = s.told
         /\ reported_ips'[p] = reported_ips[p] \cup s.senders
         /\ observed' = observed \cup (s.senders \ reported_ips[p])
         /\ fate'.arrivals = fate.arrivals /\ fate'.turns = s.turns /\ fate'.empty = s.empty /\ fate'.asked = fate.asked
         /\ fate'.refused = IF refused THEN fate.refused + Len(s.batch) ELSE fate.refused
         /\ counters'.channel_full = IF refused THEN s.counters.channel_full + 1 ELSE s.counters.channel_full
         /\ \A f \in {"received", "unmatched", "no_timestamp", "kernel_dropped", "truncated"} :
                counters'[f] = s.counters[f]
         /\ channel' = IF s.batch = <<>> \/ refused THEN channel ELSE Append(channel, s.batch)
         /\ config' = config /\ exit' = exit /\ rx_main' = rx_main /\ ingested' = ingested
         /\ ReceiverTyped'
<1> DEFINE s == Scans(p, n)[n]
           refused == s.batch # <<>> /\ Len(channel) >= CHANNEL
           rest == SubSeq(sockets[p].queue, n + 1, Len(sockets[p].queue))
<1>1. n \in Nat /\ n <= Len(sockets[p].queue) /\ BATCH \in Nat
  BY PacketReceiverAssumption DEF ReceiveBatch
<1>2. s \in ScanRecords
  <2>1. Scans(p, n) \in [0..n -> ScanRecords]
    BY <1>1, ScansAre
  <2>2. n \in 0..n
    BY <1>1
  <2>3. QED
    BY <2>1, <2>2
<1>3. /\ s.counters \in RxCounters /\ s.last \in 0..COUNTER - 1 /\ s.batch \in Seq(Packets) /\ s.senders \in SUBSET Sightings
      /\ s.told \in Nat /\ s.turns \in Int /\ s.empty \in Nat
  BY <1>2 DEF ScanRecords
<1>4. /\ rx' = [rx EXCEPT ![p] = "deciding"]
      /\ sockets' = [sockets EXCEPT ![p].queue = rest]
      /\ last_ovfl' = [last_ovfl EXCEPT ![p] = s.last]
      /\ reported_ips' = [reported_ips EXCEPT ![p] = @ \cup s.senders]
      /\ observed' = observed \cup (s.senders \ reported_ips[p])
      /\ counters' = IF refused THEN [s.counters EXCEPT !.channel_full = @ + 1] ELSE s.counters
      /\ channel' = IF s.batch = <<>> \/ refused THEN channel ELSE Append(channel, s.batch)
      /\ fate' = [fate EXCEPT !.refused = IF refused THEN @ + Len(s.batch) ELSE @,
                              !.told[p] = s.told, !.turns = s.turns, !.empty = s.empty]
      /\ config' = config /\ exit' = exit /\ rx_main' = rx_main /\ ingested' = ingested
  BY DEF ReceiveBatch
<1>5. rest \in Seq(Datagrams)
  <2>1. sockets[p].queue \in Seq(Datagrams)
    BY DEF ReceiverTyped
  <2>2. QED
    BY <1>1, <2>1
<1>6. /\ sockets \in [Ports -> [queue : Seq(Datagrams), dropped : Nat]]
      /\ rx \in [Ports -> {"deciding", "receiving", "ended"}]
      /\ last_ovfl \in [Ports -> 0..COUNTER - 1]
      /\ reported_ips \in [Ports -> SUBSET Sightings] /\ observed \in SUBSET Sightings
      /\ channel \in Seq(Seq(Packets)) /\ ingested \in Seq(Packets)
      /\ fate \in [arrivals : Nat, refused : Nat, empty : Nat, told : [Ports -> Nat], turns : Int, asked : BOOLEAN]
  BY DEF ReceiverTyped
<1> HIDE DEF s, refused, rest
<1>7. /\ sockets' \in [Ports -> [queue : Seq(Datagrams), dropped : Nat]] /\ sockets'[p].queue = rest
      /\ \A o \in Ports : sockets'[o].dropped = sockets[o].dropped
      /\ \A o \in Ports \ {p} : sockets'[o].queue = sockets[o].queue
  <2> DEFINE one == [sockets[p] EXCEPT !.queue = rest]
  <2>0. sockets[p] \in [queue : Seq(Datagrams), dropped : Nat]
    BY <1>6
  <2>1. one \in [queue : Seq(Datagrams), dropped : Nat] /\ one.queue = rest /\ one.dropped = sockets[p].dropped
    BY <1>5, <2>0
  <2>2. sockets' = [sockets EXCEPT ![p] = one]
    BY <1>4
  <2> HIDE DEF one
  <2>3. QED
    BY <1>6, <2>1, <2>2
<1>8. /\ last_ovfl' \in [Ports -> 0..COUNTER - 1] /\ last_ovfl'[p] = s.last
      /\ \A o \in Ports \ {p} : last_ovfl'[o] = last_ovfl[o]
      /\ rx' \in [Ports -> {"deciding", "receiving", "ended"}]
  BY SMTT(30), <1>3, <1>4, <1>6
<1>9. /\ reported_ips' \in [Ports -> SUBSET Sightings] /\ reported_ips'[p] = reported_ips[p] \cup s.senders
      /\ \A o \in Ports \ {p} : reported_ips'[o] = reported_ips[o]
      /\ observed' \in SUBSET Sightings
  BY SMTT(30), <1>3, <1>4, <1>6
<1>10. /\ fate' \in [arrivals : Nat, refused : Nat, empty : Nat, told : [Ports -> Nat], turns : Int, asked : BOOLEAN]
       /\ fate'.told[p] = s.told /\ \A o \in Ports \ {p} : fate'.told[o] = fate.told[o]
       /\ fate'.arrivals = fate.arrivals /\ fate'.turns = s.turns /\ fate'.empty = s.empty /\ fate'.asked = fate.asked
       /\ fate'.refused = IF refused THEN fate.refused + Len(s.batch) ELSE fate.refused
  <2>1. Len(s.batch) \in Nat
    BY <1>3
  <2>2. (IF refused THEN fate.refused + Len(s.batch) ELSE fate.refused) \in Nat
    BY <1>6, <2>1
  <2> DEFINE much == IF refused THEN fate.refused + Len(s.batch) ELSE fate.refused
             told == [fate.told EXCEPT ![p] = s.told]
  <2>3. told \in [Ports -> Nat] /\ told[p] = s.told /\ \A o \in Ports \ {p} : told[o] = fate.told[o]
    BY <1>3, <1>6
  <2>4. fate' = [fate EXCEPT !.refused = much, !.told = told, !.turns = s.turns, !.empty = s.empty]
    BY <1>4
  <2> HIDE DEF much, told
  <2>5. much \in Nat
    BY <2>2 DEF much
  <2>6. /\ fate' \in [arrivals : Nat, refused : Nat, empty : Nat, told : [Ports -> Nat], turns : Int, asked : BOOLEAN]
        /\ fate'.told = told /\ fate'.arrivals = fate.arrivals /\ fate'.turns = s.turns /\ fate'.empty = s.empty
        /\ fate'.asked = fate.asked /\ fate'.refused = much
    BY <1>3, <1>6, <2>3, <2>4, <2>5
  <2>7. QED
    BY <2>3, <2>6 DEF much
<1>11. /\ counters' \in RxCounters
       /\ counters'.channel_full = IF refused THEN s.counters.channel_full + 1 ELSE s.counters.channel_full
       /\ \A f \in {"received", "unmatched", "no_timestamp", "kernel_dropped", "truncated"} : counters'[f] = s.counters[f]
  <2> DEFINE c == s.counters
  <2>1. c \in RxCounters
    BY <1>3
  <2>2. counters' = IF refused THEN [c EXCEPT !.channel_full = @ + 1] ELSE c
    BY <1>4
  <2> HIDE DEF c
  <2>3. CASE refused
    BY <2>1, <2>2, <2>3 DEF RxCounters, c
  <2>4. CASE ~ refused
    BY <2>1, <2>2, <2>4 DEF RxCounters, c
  <2>5. QED
    BY <2>3, <2>4
<1>12. channel' \in Seq(Seq(Packets))
  BY <1>3, <1>4, <1>6
<1>13. ReceiverTyped'
  <2>1. (Validates(config) <=> Validates(config')) /\ config \in Configs /\ Validates(config) /\ exit \in BOOLEAN
        /\ rx_main \in {"running", "joining", "draining", "done"}
    BY <1>4 DEF ReceiverTyped
  <2>2. QED
    BY <1>4, <1>6, <1>7, <1>8, <1>9, <1>10, <1>11, <1>12, <2>1 DEF ReceiverTyped
<1>14. QED
  BY <1>1, <1>2, <1>4, <1>7, <1>8, <1>9, <1>10, <1>11, <1>13 DEF s, refused, rest

\* A step that moves no datagram.
Quiet ==
    /\ UNCHANGED <<config, sockets, last_ovfl, reported_ips, observed, counters, channel, ingested>>
    /\ fate'.arrivals = fate.arrivals /\ fate'.refused = fate.refused /\ fate'.empty = fate.empty
    /\ fate'.told = fate.told /\ fate'.turns = fate.turns

LEMMA ReceiverSteps ==
  ASSUME ReceiverTyped, [ReceiverNext]_receiverVars
  PROVE  \/ Quiet /\ ReceiverTyped'
         \/ \E x \in Arrivals : Arrive(x)
         \/ \E p \in Ports, n \in 1..BATCH : ReceiveBatch(p, n)
         \/ TakeBatch
<1>0. /\ rx \in [Ports -> {"deciding", "receiving", "ended"}] /\ (Validates(config) <=> Validates(config))
      /\ fate \in [arrivals : Nat, refused : Nat, empty : Nat, told : [Ports -> Nat], turns : Int, asked : BOOLEAN]
      /\ Listening(config) \subseteq Ports
  BY ListeningPorts DEF ReceiverTyped
<1>1. ASSUME Quiet, rx' \in [Ports -> {"deciding", "receiving", "ended"}], exit' \in BOOLEAN,
             rx_main' \in {"running", "joining", "draining", "done"}, fate'.asked \in BOOLEAN,
             fate' = [fate EXCEPT !.asked = fate'.asked]
      PROVE  ReceiverTyped'
  <2>1. fate' \in [arrivals : Nat, refused : Nat, empty : Nat, told : [Ports -> Nat], turns : Int, asked : BOOLEAN]
    BY <1>0, <1>1
  <2>2. Validates(config)'
    BY <1>1 DEF ReceiverTyped, Quiet
  <2>3. QED
    BY <1>1, <2>1, <2>2 DEF ReceiverTyped, Quiet
<1>2. ASSUME UNCHANGED receiverVars PROVE Quiet /\ ReceiverTyped'
  <2>1. Quiet /\ fate' = fate /\ fate = [fate EXCEPT !.asked = fate.asked]
    BY <1>0, <1>2 DEF Quiet, receiverVars
  <2>2. QED
    BY <1>0, <1>1, <1>2, <2>1 DEF ReceiverTyped, receiverVars
<1>3. ASSUME NEW p \in Ports, Look(p) \/ Interrupted(p) PROVE Quiet /\ ReceiverTyped'
  <2>1. Quiet /\ fate' = fate /\ fate = [fate EXCEPT !.asked = fate.asked]
    BY <1>0, <1>3 DEF Quiet, Look, Interrupted
  <2>2. rx' \in [Ports -> {"deciding", "receiving", "ended"}] /\ exit' = exit /\ rx_main' = rx_main
    BY <1>0, <1>3 DEF Look, Interrupted
  <2>3. QED
    BY <1>0, <1>1, <2>1, <2>2 DEF ReceiverTyped
<1>4. ASSUME Asked \/ DeadlineHit PROVE Quiet /\ ReceiverTyped'
  <2>1. fate' = [fate EXCEPT !.asked = TRUE] /\ rx' = rx /\ exit' = TRUE
        /\ rx_main' \in {"running", "joining", "draining", "done"}
    BY <1>4 DEF Asked, DeadlineHit, ReceiverTyped
  <2>2. Quiet /\ fate'.asked = TRUE
    BY <1>0, <1>4, <2>1 DEF Quiet, Asked, DeadlineHit
  <2>3. QED
    BY <1>0, <1>1, <2>1, <2>2
<1>5. ASSUME Stop \/ JoinReceivers \/ Drained PROVE Quiet /\ ReceiverTyped'
  <2>1. Quiet /\ fate' = fate /\ fate = [fate EXCEPT !.asked = fate.asked]
    BY <1>0, <1>5 DEF Quiet, Stop, JoinReceivers, Drained
  <2>2. rx' = rx /\ exit' \in BOOLEAN /\ rx_main' \in {"running", "joining", "draining", "done"}
    BY <1>5 DEF Stop, JoinReceivers, Drained, ReceiverTyped
  <2>3. QED
    BY <1>0, <1>1, <2>1, <2>2
<1>6. QED
  BY <1>0, <1>2, <1>3, <1>4, <1>5 DEF ReceiverNext, RxThread, ReceiverMain, ReceiverDone

\* What an arrival does.
LEMMA ArriveIs ==
  ASSUME ReceiverTyped, NEW x \in Arrivals, Arrive(x)
  PROVE  LET p == x.port
             q == sockets[p].queue
             d == [no |-> fate.arrivals + 1, ip |-> x.ip, kind |-> x.kind, dropped |-> sockets[p].dropped + x.drops]
         IN
         /\ p \in Ports /\ d \in Datagrams /\ x.drops \in Nat
         /\ sockets'[p].queue = Append(q, d) /\ sockets'[p].dropped = d.dropped
         /\ \A o \in Ports \ {p} : sockets'[o] = sockets[o]
         /\ fate'.arrivals = fate.arrivals + 1 /\ fate'.refused = fate.refused /\ fate'.empty = fate.empty
         /\ fate'.told = fate.told /\ fate'.turns = fate.turns /\ fate'.asked = fate.asked
         /\ UNCHANGED <<config, rx, last_ovfl, reported_ips, observed, counters, channel, exit, rx_main, ingested>>
         /\ ReceiverTyped'
<1> DEFINE p == x.port
           q == sockets[p].queue
           d == [no |-> fate.arrivals + 1, ip |-> x.ip, kind |-> x.kind, dropped |-> sockets[p].dropped + x.drops]
           one == [queue |-> Append(q, d), dropped |-> d.dropped]
<1>1. /\ fate \in [arrivals : Nat, refused : Nat, empty : Nat, told : [Ports -> Nat], turns : Int, asked : BOOLEAN]
      /\ sockets \in [Ports -> [queue : Seq(Datagrams), dropped : Nat]]
      /\ p \in Ports /\ x.drops \in 0..COUNTER - 1 /\ x.kind \in Kinds /\ x.ip \in Ips /\ COUNTER \in Nat
  BY PacketReceiverAssumption DEF ReceiverTyped, Ips
<1>2. d \in Datagrams /\ q \in Seq(Datagrams) /\ x.drops \in Nat
  <2>1. sockets[p] \in [queue : Seq(Datagrams), dropped : Nat] /\ x.drops \in Nat
    BY <1>1
  <2>2. sockets[p].dropped + x.drops \in Nat /\ q \in Seq(Datagrams)
    BY <2>1
  <2>3. fate.arrivals + 1 \in Nat
    BY <1>1
  <2>4. QED
    BY <1>1, <2>1, <2>2, <2>3 DEF Datagrams
<1>3. one \in [queue : Seq(Datagrams), dropped : Nat] /\ one.queue = Append(q, d) /\ one.dropped = d.dropped
  <2>1. d.dropped \in Nat
    BY <1>2 DEF Datagrams
  <2> HIDE DEF q, d
  <2>2. QED
    BY <1>2, <2>1
<1>4. /\ sockets' = [sockets EXCEPT ![p] = one] /\ fate' = [fate EXCEPT !.arrivals = @ + 1]
      /\ UNCHANGED <<config, rx, last_ovfl, reported_ips, observed, counters, channel, exit, rx_main, ingested>>
  BY DEF Arrive
<1> HIDE DEF p, q, d, one
<1>5. /\ sockets' \in [Ports -> [queue : Seq(Datagrams), dropped : Nat]] /\ sockets'[p] = one
      /\ \A o \in Ports \ {p} : sockets'[o] = sockets[o]
  BY <1>1, <1>3, <1>4
<1>6. /\ fate' \in [arrivals : Nat, refused : Nat, empty : Nat, told : [Ports -> Nat], turns : Int, asked : BOOLEAN]
      /\ fate'.arrivals = fate.arrivals + 1 /\ fate'.refused = fate.refused /\ fate'.empty = fate.empty
      /\ fate'.told = fate.told /\ fate'.turns = fate.turns /\ fate'.asked = fate.asked
  <2>1. fate.arrivals + 1 \in Nat /\ fate' = [fate EXCEPT !.arrivals = fate.arrivals + 1]
    BY <1>1, <1>4
  <2>2. QED
    BY <1>1, <2>1
<1>7. Validates(config)'
  BY <1>4 DEF ReceiverTyped
<1>8. ReceiverTyped'
  BY <1>4, <1>5, <1>6, <1>7 DEF ReceiverTyped
<1>9. QED
  BY <1>1, <1>2, <1>3, <1>4, <1>5, <1>6, <1>8 DEF p, q, d, one

\* What the main loop does with a batch.
LEMMA TakeBatchIs ==
  ASSUME ReceiverTyped, TakeBatch
  PROVE  /\ channel # <<>> /\ Head(channel) \in Seq(Packets)
         /\ ingested' = ingested \o Head(channel) /\ channel' = Tail(channel)
         /\ Len(channel') = Len(channel) - 1 /\ Len(channel) \in Nat
         /\ \A i \in DOMAIN channel' : i \in Nat /\ i + 1 \in DOMAIN channel /\ channel'[i] = channel[i + 1]
         /\ 1 \in DOMAIN channel /\ Head(channel) = channel[1]
         /\ UNCHANGED <<config, sockets, rx, last_ovfl, reported_ips, observed, counters, exit, rx_main, fate>>
         /\ ReceiverTyped'
<1>1. /\ channel # <<>> /\ ingested' = ingested \o Head(channel) /\ channel' = Tail(channel)
      /\ UNCHANGED <<config, sockets, rx, last_ovfl, reported_ips, observed, counters, exit, rx_main, fate>>
  BY DEF TakeBatch
<1>2. channel \in Seq(Seq(Packets)) /\ ingested \in Seq(Packets)
  BY DEF ReceiverTyped
<1> DEFINE B == Seq(Packets)
<1>3. channel \in Seq(B) /\ channel # <<>> /\ channel' = Tail(channel)
  BY <1>1, <1>2
<1> HIDE DEF B
<1>4. /\ Head(channel) \in B /\ channel' \in Seq(B) /\ Len(channel') = Len(channel) - 1 /\ Len(channel) \in Nat
      /\ 1 \in DOMAIN channel /\ Head(channel) = channel[1] /\ DOMAIN channel = 1..Len(channel)
      /\ DOMAIN channel' = 1..Len(channel')
      /\ \A i \in 1..Len(channel) - 1 : channel'[i] = channel[i + 1]
  BY <1>3
<1>5. ingested' \in Seq(Packets)
  BY <1>1, <1>2, <1>4 DEF B
<1>6. \A i \in DOMAIN channel' : i \in Nat /\ i + 1 \in DOMAIN channel /\ channel'[i] = channel[i + 1]
  BY <1>4
<1>7. Validates(config)'
  BY <1>1 DEF ReceiverTyped
<1>8. ReceiverTyped'
  BY <1>1, <1>4, <1>5, <1>7 DEF ReceiverTyped, B
<1>9. QED
  BY <1>1, <1>4, <1>6, <1>8 DEF B

-----------------------------------------------------------------------------
(* The receivers: its steps. *)

LEMMA QueuesStep ==
  ASSUME ReceiverInv, [ReceiverNext]_receiverVars
  PROVE  QueuesInv'
<1>0. /\ ReceiverTyped /\ \A p \in Ports : DropsGrow(p) /\ Numbered(p) /\ reported_ips[p] \subseteq observed
      /\ \A p \in Ports : /\ sockets[p].queue \in Seq(Datagrams) /\ sockets[p].dropped \in Nat /\ fate.told[p] \in Nat
      /\ fate.arrivals \in Nat
  BY DEF ReceiverInv, QueuesInv, ReceiverTyped
<1>1. CASE Quiet \/ TakeBatch
  <2>1. /\ sockets' = sockets /\ fate'.told = fate.told /\ last_ovfl' = last_ovfl /\ fate'.arrivals = fate.arrivals
        /\ reported_ips' = reported_ips /\ observed' = observed
    BY <1>0, <1>1, TakeBatchIs DEF Quiet
  <2>2. QED
    BY <1>0, <2>1 DEF QueuesInv, DropsGrow, Numbered
<1>2. ASSUME NEW x \in Arrivals, Arrive(x) PROVE QueuesInv'
  <2> DEFINE p == x.port
             q == sockets[p].queue
             d == [no |-> fate.arrivals + 1, ip |-> x.ip, kind |-> x.kind, dropped |-> sockets[p].dropped + x.drops]
             q1 == sockets'[p].queue
  <2>1. /\ p \in Ports /\ x.drops \in Nat /\ d \in Datagrams
        /\ q1 = Append(q, d) /\ sockets'[p].dropped = d.dropped
        /\ \A o \in Ports \ {p} : sockets'[o] = sockets[o]
        /\ fate'.arrivals = fate.arrivals + 1 /\ fate'.told = fate.told
        /\ last_ovfl' = last_ovfl /\ reported_ips' = reported_ips /\ observed' = observed
    BY <1>0, <1>2, ArriveIs
  <2>2. d.no = fate.arrivals + 1 /\ d.dropped = sockets[p].dropped + x.drops
    OBVIOUS
  <2>3. q \in Seq(Datagrams) /\ sockets[p].dropped \in Nat /\ fate.told[p] \in Nat /\ DropsGrow(p) /\ Numbered(p)
    BY <1>0, <2>1
  <2>4. /\ fate.told[p] <= sockets[p].dropped /\ last_ovfl[p] = fate.told[p] % COUNTER
        /\ \A i \in DOMAIN q : fate.told[p] <= q[i].dropped /\ q[i].dropped <= sockets[p].dropped /\ q[i].no <= fate.arrivals
        /\ \A i, j \in DOMAIN q : i < j => q[i].dropped <= q[j].dropped /\ q[i].no < q[j].no
    BY <2>3 DEF DropsGrow, Numbered
  <2>n. \A i \in DOMAIN q : q[i].no \in Nat /\ q[i].dropped \in Nat
    <3> HIDE DEF q, d
    <3>1. \A i \in DOMAIN q : q[i] \in Datagrams
      BY <2>3
    <3>2. QED
      BY <3>1 DEF Datagrams
  <2>5. /\ DOMAIN q1 = 1..Len(q) + 1 /\ q1[Len(q) + 1] = d /\ Len(q) \in Nat /\ DOMAIN q = 1..Len(q)
        /\ \A i \in DOMAIN q : q1[i] = q[i]
    <3> HIDE DEF q, d, q1
    <3> QED
      BY <2>1, <2>3
  <2>s. sockets[p].dropped <= d.dropped /\ fate.told[p] <= d.dropped
    BY SMTT(30), <2>1, <2>2, <2>3, <2>4
  <2> HIDE DEF q, d, q1, p
  <2>6. \A i \in DOMAIN q1 : fate.told[p] <= q1[i].dropped /\ q1[i].dropped <= d.dropped /\ q1[i].no <= fate.arrivals + 1
    <3> SUFFICES ASSUME NEW i \in DOMAIN q1
                 PROVE  fate.told[p] <= q1[i].dropped /\ q1[i].dropped <= d.dropped /\ q1[i].no <= fate.arrivals + 1
      OBVIOUS
    <3>1. CASE i = Len(q) + 1
      BY <1>0, <2>1, <2>2, <2>5, <2>s, <3>1 DEF Datagrams
    <3>2. CASE i # Len(q) + 1
      <4>1. i \in DOMAIN q /\ q1[i] = q[i]
        BY <2>5, <3>2
      <4>2. QED
        BY <1>0, <2>2, <2>3, <2>4, <2>n, <2>s, <4>1, <2>1
    <3>3. QED
      BY <3>1, <3>2
  <2>7. \A i, j \in DOMAIN q1 : i < j => q1[i].dropped <= q1[j].dropped /\ q1[i].no < q1[j].no
    <3> SUFFICES ASSUME NEW i \in DOMAIN q1, NEW j \in DOMAIN q1, i < j
                 PROVE  q1[i].dropped <= q1[j].dropped /\ q1[i].no < q1[j].no
      OBVIOUS
    <3>1. i \in DOMAIN q /\ q1[i] = q[i]
      BY <2>5
    <3>2. CASE j = Len(q) + 1
      BY <1>0, <2>2, <2>3, <2>4, <2>5, <2>n, <2>s, <3>1, <3>2, <2>1
    <3>3. CASE j # Len(q) + 1
      BY <2>4, <2>5, <3>1, <3>3
    <3>4. QED
      BY <3>2, <3>3
  <2>8. DropsGrow(p)' /\ Numbered(p)' /\ (reported_ips[p] \subseteq observed)'
    <3>1. (reported_ips[p] \subseteq observed)'
      BY <1>0, <2>1
    <3>p. p' = p
      BY DEF p
    <3>2. fate'.told[p] <= sockets'[p].dropped /\ last_ovfl'[p] = fate'.told[p] % COUNTER
      BY <2>1, <2>4, <2>s
    <3>3. DropsGrow(p)'
      BY <2>1, <2>6, <2>7, <3>2, <3>p DEF DropsGrow, q1
    <3>4. Numbered(p)'
      BY <2>1, <2>6, <2>7, <3>p DEF Numbered, q1
    <3>5. QED
      BY <3>1, <3>3, <3>4
  <2>9. ASSUME NEW o \in Ports \ {p}
        PROVE  DropsGrow(o)' /\ Numbered(o)' /\ (reported_ips[o] \subseteq observed)'
    <3>1. DropsGrow(o) /\ Numbered(o) /\ reported_ips[o] \subseteq observed /\ sockets'[o] = sockets[o]
          /\ fate'.told = fate.told /\ last_ovfl' = last_ovfl
      BY <1>0, <2>1
    <3>2. \A i \in DOMAIN sockets[o].queue : sockets[o].queue[i].no \in Nat
      <4> DEFINE r == sockets[o].queue
      <4>1. r \in Seq(Datagrams)
        BY <1>0
      <4> HIDE DEF r
      <4>2. \A i \in DOMAIN r : r[i] \in Datagrams
        BY <4>1
      <4>3. QED
        BY <4>2 DEF r, Datagrams
    <3>3. DropsGrow(o)'
      BY <3>1 DEF DropsGrow
    <3>4. Numbered(o)'
      BY <1>0, <2>1, <3>1, <3>2 DEF Numbered
    <3>5. QED
      BY <2>1, <3>1, <3>3, <3>4
  <2>10. QED
    BY <2>8, <2>9 DEF QueuesInv, p
<1>3. ASSUME NEW p \in Ports, NEW n \in 1..BATCH, ReceiveBatch(p, n) PROVE QueuesInv'
  <2> DEFINE q == sockets[p].queue
             s == Scans(p, n)[n]
             q1 == sockets'[p].queue
  <2>1. /\ n \in Nat /\ n <= Len(q) /\ s \in ScanRecords
        /\ \A o \in Ports : sockets'[o].dropped = sockets[o].dropped
        /\ q1 = SubSeq(q, n + 1, Len(q))
        /\ \A o \in Ports \ {p} : /\ sockets'[o].queue = sockets[o].queue /\ last_ovfl'[o] = last_ovfl[o]
                                  /\ fate'.told[o] = fate.told[o] /\ reported_ips'[o] = reported_ips[o]
        /\ last_ovfl'[p] = s.last /\ fate'.told[p] = s.told
        /\ reported_ips'[p] = reported_ips[p] \cup s.senders
        /\ observed' = observed \cup (s.senders \ reported_ips[p])
        /\ fate'.arrivals = fate.arrivals
    BY <1>0, <1>3, ReceiveIs
  <2>2. /\ s.last = s.told % COUNTER /\ s.told <= sockets[p].dropped
        /\ \A j \in DOMAIN q : j > n => s.told <= q[j].dropped
    BY <1>0, <2>1, ScanTells
  <2>3. q \in Seq(Datagrams) /\ DropsGrow(p) /\ Numbered(p) /\ reported_ips[p] \subseteq observed
    BY <1>0
  <2>4. \A i \in DOMAIN q1 : i + n \in DOMAIN q /\ i + n > n /\ q1[i] = q[i + n] /\ i \in Nat
    <3> HIDE DEF q, s, q1
    <3> QED
      BY <2>1, <2>3
  <2>5. /\ \A i \in DOMAIN q : q[i].dropped <= sockets[p].dropped /\ q[i].no <= fate.arrivals
        /\ \A i, j \in DOMAIN q : i < j => q[i].dropped <= q[j].dropped /\ q[i].no < q[j].no
    BY <2>3 DEF DropsGrow, Numbered
  <2> HIDE DEF q, s, q1
  <2>6. \A i, j \in DOMAIN q1 : i < j => q1[i].dropped <= q1[j].dropped /\ q1[i].no < q1[j].no
    <3> SUFFICES ASSUME NEW i \in DOMAIN q1, NEW j \in DOMAIN q1, i < j
                 PROVE  q1[i].dropped <= q1[j].dropped /\ q1[i].no < q1[j].no
      OBVIOUS
    <3>1. i + n < j + n
      BY <2>1, <2>4
    <3>2. QED
      BY <2>4, <2>5, <3>1
  <2>7. DropsGrow(p)'
    BY <2>1, <2>2, <2>4, <2>5, <2>6 DEF DropsGrow, q1
  <2>8. Numbered(p)'
    BY <2>1, <2>4, <2>5, <2>6 DEF Numbered, q1
  <2>9. reported_ips'[p] \subseteq observed'
    BY <2>1, <2>3
  <2>10. ASSUME NEW o \in Ports \ {p}
         PROVE  DropsGrow(o)' /\ Numbered(o)' /\ reported_ips'[o] \subseteq observed'
    <3>1. DropsGrow(o) /\ Numbered(o) /\ reported_ips[o] \subseteq observed
      BY <1>0
    <3>2. QED
      BY <2>1, <3>1 DEF DropsGrow, Numbered
  <2>11. QED
    BY <2>7, <2>8, <2>9, <2>10 DEF QueuesInv
<1>4. QED
  BY <1>0, <1>1, <1>2, <1>3, ReceiverSteps

\* No datagram is queued that was not, but ones that just arrived; no sighting is forgotten.
Onwards ==
    /\ fate.arrivals <= fate'.arrivals
    /\ \A p \in Ports : \A j \in DOMAIN sockets'[p].queue :
           \/ \E i \in DOMAIN sockets[p].queue : sockets'[p].queue[j].no = sockets[p].queue[i].no
           \/ sockets'[p].queue[j].no > fate.arrivals
    /\ config' = config /\ observed \subseteq observed'

LEMMA GoesOnwards ==
  ASSUME ReceiverTyped, [ReceiverNext]_receiverVars
  PROVE  Onwards
<1>0. \A p \in Ports : sockets[p].queue \in Seq(Datagrams) /\ fate.arrivals \in Nat
  BY DEF ReceiverTyped
<1> DEFINE Known(o) ==
               \A j \in DOMAIN sockets'[o].queue :
                   \/ \E i \in DOMAIN sockets[o].queue : sockets'[o].queue[j].no = sockets[o].queue[i].no
                   \/ sockets'[o].queue[j].no > fate.arrivals
<1>s. \A o : sockets'[o].queue = sockets[o].queue => Known(o)
  OBVIOUS
<1>1. CASE Quiet \/ TakeBatch
  <2>1. fate'.arrivals = fate.arrivals /\ sockets' = sockets /\ config' = config /\ observed' = observed
    BY <1>1, TakeBatchIs DEF Quiet
  <2>2. fate.arrivals <= fate'.arrivals /\ observed \subseteq observed'
    BY <1>0, <2>1 DEF ReceiverTyped
  <2>3. \A o \in Ports : Known(o)
    BY <1>s, <2>1
  <2>4. QED
    BY <2>1, <2>2, <2>3 DEF Onwards
<1>2. ASSUME NEW x \in Arrivals, Arrive(x) PROVE Onwards
  <2> DEFINE p == x.port
             q == sockets[p].queue
             d == [no |-> fate.arrivals + 1, ip |-> x.ip, kind |-> x.kind, dropped |-> sockets[p].dropped + x.drops]
             q1 == sockets'[p].queue
  <2>1. /\ p \in Ports /\ q1 = Append(q, d) /\ d \in Datagrams
        /\ \A o \in Ports \ {p} : sockets'[o] = sockets[o]
        /\ fate'.arrivals = fate.arrivals + 1 /\ config' = config /\ observed' = observed
    BY <1>2, ArriveIs
  <2>2. d.no > fate.arrivals
    BY <1>0, <2>1
  <2>3. q \in Seq(Datagrams)
    BY <1>0, <2>1
  <2>4. \A j \in DOMAIN q1 : (j \in DOMAIN q /\ q1[j] = q[j]) \/ q1[j] = d
    <3> HIDE DEF q, d, q1
    <3> QED
      BY <2>1, <2>3
  <2>5. \A j \in DOMAIN q1 : (\E i \in DOMAIN q : q1[j].no = q[i].no) \/ q1[j].no > fate.arrivals
    <3> HIDE DEF q, d, q1
    <3> QED
      BY <2>2, <2>4
  <2>6. \A o \in Ports : Known(o)
    <3>1. Known(p)
      BY <2>5
    <3>2. \A o \in Ports \ {p} : Known(o)
      BY <1>s, <2>1
    <3> HIDE DEF Known
    <3>3. QED
      BY <3>1, <3>2
  <2>7. fate.arrivals <= fate'.arrivals
    BY <1>0, <2>1
  <2>8. QED
    BY <2>1, <2>6, <2>7 DEF Onwards
<1>3. ASSUME NEW p \in Ports, NEW n \in 1..BATCH, ReceiveBatch(p, n) PROVE Onwards
  <2> DEFINE q == sockets[p].queue
             q1 == sockets'[p].queue
  <2>1. /\ n \in Nat /\ n <= Len(q) /\ q1 = SubSeq(q, n + 1, Len(q))
        /\ \A o \in Ports \ {p} : sockets'[o].queue = sockets[o].queue
        /\ fate'.arrivals = fate.arrivals /\ config' = config /\ observed \subseteq observed'
    BY <1>3, ReceiveIs
  <2>2. q \in Seq(Datagrams)
    BY <1>0
  <2>3. \A j \in DOMAIN q1 : j + n \in DOMAIN q /\ q1[j] = q[j + n]
    <3> HIDE DEF q, q1
    <3> QED
      BY <2>1, <2>2
  <2>4. \A j \in DOMAIN q1 : \E i \in DOMAIN q : q1[j].no = q[i].no
    <3> HIDE DEF q, q1
    <3> QED
      BY <2>3
  <2>5. \A o \in Ports : Known(o)
    <3>1. Known(p)
      BY <2>4
    <3>2. \A o \in Ports \ {p} : Known(o)
      BY <1>s, <2>1
    <3> HIDE DEF Known
    <3>3. QED
      BY <3>1, <3>2
  <2>6. fate.arrivals <= fate'.arrivals
    BY <1>0, <2>1
  <2>7. QED
    BY <2>1, <2>5, <2>6 DEF Onwards
<1>4. QED
  BY <1>1, <1>2, <1>3, ReceiverSteps

\* What was received stays what it was.
LEMMA OlderStays ==
  ASSUME ReceiverTyped, Onwards, ReceiverTyped',
         NEW batch \in Seq(Packets), Older(batch, fate.arrivals, sockets)
  PROVE  Older(batch, fate'.arrivals, sockets')
<1>0. \A k \in DOMAIN batch : batch[k].port \in Ports /\ batch[k].no \in Nat
  <2>1. \A k \in DOMAIN batch : batch[k] \in Packets
    OBVIOUS
  <2>2. QED
    BY <2>1 DEF Packets
<1>1. fate.arrivals \in Nat /\ fate'.arrivals \in Nat
  BY DEF ReceiverTyped
<1>2. SUFFICES ASSUME NEW k \in DOMAIN batch
               PROVE  /\ batch[k].no <= fate'.arrivals
                      /\ \A j \in DOMAIN sockets'[batch[k].port].queue : batch[k].no < sockets'[batch[k].port].queue[j].no
  BY DEF Older
<1> DEFINE p == batch[k].port
           q == sockets[p].queue
           q1 == sockets'[p].queue
<1>3. batch[k].no <= fate.arrivals /\ \A j \in DOMAIN q : batch[k].no < q[j].no
  BY DEF Older
<1>4. \A j \in DOMAIN q1 : (\E i \in DOMAIN q : q1[j].no = q[i].no) \/ q1[j].no > fate.arrivals
  BY <1>0 DEF Onwards
<1>5. batch[k].no <= fate'.arrivals
  BY <1>0, <1>1, <1>3 DEF Onwards
<1>6. \A j \in DOMAIN q1 : q1[j].no \in Nat
  <2>1. q1 \in Seq(Datagrams)
    BY <1>0 DEF ReceiverTyped
  <2> HIDE DEF q1
  <2>2. \A j \in DOMAIN q1 : q1[j] \in Datagrams
    BY <2>1
  <2>3. QED
    BY <2>2 DEF Datagrams
<1>7. \A j \in DOMAIN q1 : batch[k].no < q1[j].no
  <2> HIDE DEF p, q, q1
  <2> QED
    BY <1>0, <1>1, <1>3, <1>4, <1>6
<1>8. QED
  BY <1>5, <1>7

LEMMA AttributedStays ==
  ASSUME Onwards, NEW batch, Attributed(batch)
  PROVE  Attributed(batch)'
  BY DEF Onwards, Attributed, Narrowest

\* The batch that is offered to the channel is attributed, in order and newer than what was received before.
LEMMA BatchReceived ==
  ASSUME ReceiverInv, NEW p \in Ports, NEW n \in 1..BATCH, ReceiveBatch(p, n), Scans(p, n)[n].batch # <<>>
  PROVE  LET b == Scans(p, n)[n].batch IN
         /\ b \in Seq(Packets) /\ Len(b) \in 1..BATCH /\ InOrder(b)
         /\ Older(b, fate'.arrivals, sockets')
         /\ \A i \in DOMAIN b : Narrowest(b[i]) /\ <<b[i].provider, b[i].ip>> \in observed'
         /\ \A early \in Seq(Packets) : Older(early, fate.arrivals, sockets) => Precedes(early, b)
<1> DEFINE q == sockets[p].queue
           s == Scans(p, n)[n]
           b == s.batch
           q1 == sockets'[p].queue
<1>0. ReceiverTyped /\ q \in Seq(Datagrams) /\ Numbered(p) /\ reported_ips[p] \subseteq observed
  BY DEF ReceiverInv, ReceiverTyped, QueuesInv
<1>1. /\ n \in Nat /\ n <= Len(q) /\ s \in ScanRecords /\ q1 = SubSeq(q, n + 1, Len(q))
      /\ observed' = observed \cup (s.senders \ reported_ips[p]) /\ fate'.arrivals = fate.arrivals
  BY <1>0, ReceiveIs
<1>2. /\ InOrder(b)
      /\ \A k \in DOMAIN b : /\ b[k].port = p /\ Narrowest(b[k]) /\ <<b[k].provider, b[k].ip>> \in s.senders
                             /\ \E j \in 1..n : b[k].no = q[j].no
  BY <1>0, <1>1, ScanPackets
<1>3. Len(b) \in 0..n
  BY <1>0, <1>1, ScanCounts
<1>4. b \in Seq(Packets) /\ b # <<>>
  BY <1>1 DEF ScanRecords
<1>5. /\ \A i \in DOMAIN q : q[i].no <= fate.arrivals
      /\ \A i, j \in DOMAIN q : i < j => q[i].no < q[j].no
  BY <1>0 DEF Numbered
<1>q. DOMAIN q = 1..Len(q) /\ Len(q) \in Nat
  <2> HIDE DEF q
  <2> QED
    BY <1>0
<1> HIDE DEF q, s, q1
<1>6. \A j \in DOMAIN q1 : j \in Nat /\ j + n \in DOMAIN q /\ j + n > n /\ q1[j] = q[j + n]
  BY <1>0, <1>1
<1> HIDE DEF b
<1>7. Len(b) \in 1..BATCH
  <2>1. Len(b) \in Nat /\ Len(b) # 0
    BY <1>4
  <2>2. BATCH \in Nat
    BY PacketReceiverAssumption
  <2>3. QED
    BY <1>3, <2>1, <2>2
<1>8. Older(b, fate'.arrivals, sockets')
  <2> SUFFICES ASSUME NEW k \in DOMAIN b
               PROVE  b[k].no <= fate.arrivals /\ \A j \in DOMAIN q1 : b[k].no < q1[j].no
    BY <1>1, <1>2 DEF Older, q1
  <2>1. PICK j \in 1..n : b[k].no = q[j].no
    BY <1>2
  <2>2. j \in DOMAIN q
    BY <1>1, <1>q
  <2>3. b[k].no <= fate.arrivals
    BY <1>5, <2>1, <2>2
  <2>4. ASSUME NEW l \in DOMAIN q1 PROVE b[k].no < q1[l].no
    <3>1. l + n \in DOMAIN q /\ j < l + n /\ q1[l] = q[l + n]
      BY <1>1, <1>6
    <3>2. QED
      BY <1>5, <2>1, <2>2, <3>1
  <2>5. QED
    BY <2>3, <2>4
<1>9. \A i \in DOMAIN b : <<b[i].provider, b[i].ip>> \in observed'
  BY <1>0, <1>1, <1>2
<1>10. ASSUME NEW early \in Seq(Packets), Older(early, fate.arrivals, sockets) PROVE Precedes(early, b)
  <2> SUFFICES ASSUME NEW i \in DOMAIN early, NEW k \in DOMAIN b, early[i].port = b[k].port
               PROVE  early[i].no < b[k].no
    BY DEF Precedes
  <2>1. PICK j \in 1..n : b[k].no = q[j].no
    BY <1>2
  <2>2. j \in DOMAIN q /\ early[i].port = p
    <3>1. b[k].port = p
      BY <1>2
    <3>2. QED
      BY <1>1, <1>q, <3>1
  <2>3. early[i].no < q[j].no
    BY <1>10, <2>2 DEF Older, q
  <2>4. QED
    BY <2>1, <2>3
<1>11. QED
  BY <1>2, <1>4, <1>7, <1>8, <1>9, <1>10 DEF b, s

LEMMA BatchesStep ==
  ASSUME ReceiverInv, [ReceiverNext]_receiverVars
  PROVE  BatchesInv' /\ PacketsAttributed'
<1>0. /\ ReceiverTyped /\ Onwards /\ ReceiverTyped'
      /\ channel \in Seq(Seq(Packets)) /\ ingested \in Seq(Packets) /\ Len(channel) \in Nat
  <2>1. ReceiverTyped /\ Onwards
    BY GoesOnwards DEF ReceiverInv
  <2>2. ReceiverTyped'
    BY <2>1, ReceiverSteps, ArriveIs, ReceiveIs, TakeBatchIs
  <2>3. channel \in Seq(Seq(Packets)) /\ ingested \in Seq(Packets)
    BY <2>1 DEF ReceiverTyped
  <2> DEFINE B == Seq(Packets)
  <2>4. channel \in Seq(B)
    BY <2>3
  <2> HIDE DEF B
  <2>5. Len(channel) \in Nat
    BY <2>4
  <2>6. QED
    BY <2>1, <2>2, <2>3, <2>5
<1>1. /\ Older(ingested, fate.arrivals, sockets) /\ Len(channel) <= CHANNEL /\ Attributed(ingested) /\ InOrder(ingested)
      /\ \A i \in DOMAIN channel :
             /\ Older(channel[i], fate.arrivals, sockets) /\ Len(channel[i]) \in 1..BATCH
             /\ Attributed(channel[i]) /\ InOrder(channel[i]) /\ Precedes(ingested, channel[i])
             /\ \A j \in 1..i - 1 : Precedes(channel[j], channel[i])
  BY DEF ReceiverInv, BatchesInv, PacketsAttributed
<1>2. \A i \in DOMAIN channel : channel[i] \in Seq(Packets)
  BY <1>0
<1>3. /\ Older(ingested, fate'.arrivals, sockets')
      /\ \A i \in DOMAIN channel : Older(channel[i], fate'.arrivals, sockets')
  BY <1>0, <1>1, <1>2, OlderStays
<1>o. config' = config /\ observed \subseteq observed'
  BY <1>0 DEF Onwards
<1>4. CASE ingested' = ingested /\ channel' = channel
  <2>1. BatchesInv'
    BY <1>1, <1>3, <1>4 DEF BatchesInv
  <2>2. Attributed(ingested)' /\ \A i \in DOMAIN channel' : Attributed(channel[i])'
    BY <1>1, <1>4, <1>o DEF Attributed, Narrowest
  <2>3. PacketsAttributed'
    BY <1>1, <1>4, <2>2 DEF PacketsAttributed
  <2>4. QED
    BY <2>1, <2>3
<1>5. ASSUME NEW p \in Ports, NEW n \in 1..BATCH, ReceiveBatch(p, n) PROVE BatchesInv' /\ PacketsAttributed'
  <2>0. PICK b : b = Scans(p, n)[n].batch
    OBVIOUS
  <2>1. /\ ingested' = ingested
        /\ channel' = IF b = <<>> \/ Len(channel) >= CHANNEL THEN channel ELSE Append(channel, b)
    BY <1>0, <1>5, <2>0, ReceiveIs
  <2> SUFFICES ASSUME b # <<>>, Len(channel) < CHANNEL, channel' = Append(channel, b)
               PROVE  BatchesInv' /\ PacketsAttributed'
    BY <1>0, <1>4, <2>1, PacketReceiverAssumption
  <2>2. /\ b \in Seq(Packets) /\ Len(b) \in 1..BATCH /\ InOrder(b) /\ Older(b, fate'.arrivals, sockets')
        /\ \A i \in DOMAIN b : Narrowest(b[i]) /\ <<b[i].provider, b[i].ip>> \in observed'
        /\ \A early \in Seq(Packets) : Older(early, fate.arrivals, sockets) => Precedes(early, b)
    BY <1>5, <2>0, BatchReceived
  <2>3. /\ Len(channel') = Len(channel) + 1 /\ DOMAIN channel' = 1..Len(channel) + 1 /\ DOMAIN channel = 1..Len(channel)
        /\ channel'[Len(channel) + 1] = b /\ \A i \in DOMAIN channel : channel'[i] = channel[i]
    <3> DEFINE B == Seq(Packets)
    <3>1. channel \in Seq(B) /\ b \in B
      BY <1>0, <2>2
    <3> HIDE DEF B
    <3>2. QED
      BY <3>1
  <2>4. /\ Precedes(ingested, b) /\ \A i \in DOMAIN channel : Precedes(channel[i], b)
    BY <1>0, <1>1, <1>2, <2>2
  <2>5. BatchesInv'
    <3>1. Len(channel') <= CHANNEL
      BY <1>0, <2>3, PacketReceiverAssumption
    <3>2. ASSUME NEW i \in DOMAIN channel'
          PROVE  Older(channel'[i], fate'.arrivals, sockets') /\ Len(channel'[i]) \in 1..BATCH
      <4>1. CASE i = Len(channel) + 1
        BY <2>2, <2>3, <4>1
      <4>2. CASE i # Len(channel) + 1
        BY <1>0, <1>1, <1>3, <2>3, <4>2
      <4>3. QED
        BY <4>1, <4>2
    <3>3. QED
      BY <1>3, <2>1, <3>1, <3>2 DEF BatchesInv
  <2>6. Attributed(ingested)'
    BY <1>1, <2>1, <1>o DEF Attributed, Narrowest
  <2>7. ASSUME NEW i \in DOMAIN channel'
        PROVE  /\ Attributed(channel[i])' /\ InOrder(channel'[i]) /\ Precedes(ingested', channel'[i])
               /\ \A j \in 1..i - 1 : Precedes(channel'[j], channel'[i])
    <3>1. CASE i = Len(channel) + 1
      <4>1. channel'[i] = b
        BY <2>3, <3>1
      <4>2. Attributed(channel[i])'
        <5>1. \A k \in DOMAIN channel'[i] : Narrowest(channel'[i][k])
          BY <2>2, <4>1
        <5>2. \A k \in DOMAIN channel'[i] : Narrowest(channel[i][k])'
          BY <5>1, <1>o DEF Narrowest
        <5>3. \A k \in DOMAIN channel'[i] : <<channel'[i][k].provider, channel'[i][k].ip>> \in observed'
          BY <2>2, <4>1
        <5>4. QED
          BY <5>2, <5>3 DEF Attributed
      <4>3. \A j \in 1..i - 1 : j \in DOMAIN channel /\ channel'[j] = channel[j]
        BY <1>0, <2>3, <3>1
      <4>4. QED
        BY <2>1, <2>2, <2>4, <4>1, <4>2, <4>3
    <3>2. CASE i # Len(channel) + 1
      <4>1. i \in DOMAIN channel /\ channel'[i] = channel[i] /\ \A j \in 1..i - 1 : channel'[j] = channel[j]
        BY <1>0, <2>3, <3>2
      <4>2. Attributed(channel[i])'
        <5>1. \A k \in DOMAIN channel'[i] :
                  Narrowest(channel'[i][k]) /\ <<channel'[i][k].provider, channel'[i][k].ip>> \in observed
          BY <1>1, <4>1 DEF Attributed
        <5>2. \A k \in DOMAIN channel'[i] : Narrowest(channel[i][k])'
          BY <5>1, <1>o DEF Narrowest
        <5>3. QED
          BY <1>o, <5>1, <5>2 DEF Attributed
      <4>3. QED
        BY <1>1, <2>1, <4>1, <4>2
    <3>3. QED
      BY <3>1, <3>2
  <2>8. PacketsAttributed'
    BY <1>1, <2>1, <2>6, <2>7 DEF PacketsAttributed
  <2>9. QED
    BY <2>5, <2>8
<1>6. CASE TakeBatch
  <2> DEFINE h == Head(channel)
  <2>1. /\ channel # <<>> /\ h \in Seq(Packets) /\ ingested' = ingested \o h /\ Len(channel') = Len(channel) - 1
        /\ \A i \in DOMAIN channel' : i \in Nat /\ i + 1 \in DOMAIN channel /\ channel'[i] = channel[i + 1]
        /\ 1 \in DOMAIN channel /\ h = channel[1]
    BY <1>0, <1>6, TakeBatchIs
  <2>2. /\ Older(h, fate'.arrivals, sockets') /\ Attributed(h) /\ InOrder(h) /\ Precedes(ingested, h)
    BY <1>1, <1>3, <2>1
  <2>3. \A i \in DOMAIN channel' : Precedes(h, channel[i + 1])
    <3> SUFFICES ASSUME NEW i \in DOMAIN channel' PROVE Precedes(h, channel[i + 1])
      OBVIOUS
    <3>1. i \in DOMAIN channel' => i >= 1
      BY <1>0 DEF ReceiverTyped
    <3>2. 1 \in 1..(i + 1) - 1
      BY <2>1, <3>1
    <3>3. QED
      BY <1>1, <2>1, <3>2
  <2> HIDE DEF h
  <2>4. /\ DOMAIN ingested = 1..Len(ingested) /\ Len(ingested) \in Nat /\ DOMAIN h = 1..Len(h) /\ Len(h) \in Nat
        /\ DOMAIN ingested' = 1..Len(ingested) + Len(h)
        /\ \A i \in DOMAIN ingested : ingested'[i] = ingested[i]
        /\ \A i \in DOMAIN h : ingested'[Len(ingested) + i] = h[i]
    BY <1>0, <2>1
  <2>5. ASSUME NEW i \in DOMAIN ingested'
        PROVE  \/ i \in DOMAIN ingested /\ ingested'[i] = ingested[i]
               \/ \E k \in DOMAIN h : i = Len(ingested) + k /\ ingested'[i] = h[k]
    <3>1. CASE i <= Len(ingested)
      BY <2>4, <3>1
    <3>2. CASE i > Len(ingested)
      <4>1. i - Len(ingested) \in DOMAIN h /\ i = Len(ingested) + (i - Len(ingested))
        BY <2>4, <3>2
      <4>2. QED
        BY <2>4, <4>1
    <3>3. QED
      BY <2>4, <3>1, <3>2
  <2>6. Older(ingested', fate'.arrivals, sockets')
    BY <1>3, <2>2, <2>5 DEF Older
  <2>7. Attributed(ingested)'
    <3>1. \A k \in DOMAIN h : Narrowest(h[k]) /\ <<h[k].provider, h[k].ip>> \in observed
      BY <2>2 DEF Attributed
    <3>2. \A k \in DOMAIN ingested : Narrowest(ingested[k]) /\ <<ingested[k].provider, ingested[k].ip>> \in observed
      BY <1>1 DEF Attributed
    <3>3. \A i \in DOMAIN ingested' : Narrowest(ingested'[i]) /\ <<ingested'[i].provider, ingested'[i].ip>> \in observed
      BY <2>5, <3>1, <3>2
    <3>4. \A i \in DOMAIN ingested' : Narrowest(ingested[i])'
      BY <3>3, <1>o DEF Narrowest
    <3>5. QED
      BY <1>o, <3>3, <3>4 DEF Attributed
  <2>8. InOrder(ingested')
    <3> SUFFICES ASSUME NEW i \in DOMAIN ingested', NEW j \in DOMAIN ingested', i < j,
                        ingested'[i].port = ingested'[j].port
                 PROVE  ingested'[i].no < ingested'[j].no
      BY DEF InOrder
    <3>1. CASE j \in DOMAIN ingested
      <4>1. i \in DOMAIN ingested
        BY <2>4, <3>1
      <4>2. QED
        BY <1>1, <2>4, <3>1, <4>1 DEF InOrder
    <3>2. CASE j \notin DOMAIN ingested
      <4>1. PICK k \in DOMAIN h : j = Len(ingested) + k /\ ingested'[j] = h[k]
        BY <2>5, <3>2
      <4>2. CASE i \in DOMAIN ingested
        <5>1. ingested'[i] = ingested[i]
          BY <2>4, <4>2
        <5>2. QED
          BY <2>2, <4>1, <4>2, <5>1 DEF Precedes
      <4>3. CASE i \notin DOMAIN ingested
        <5>1. PICK l \in DOMAIN h : i = Len(ingested) + l /\ ingested'[i] = h[l]
          BY <2>5, <4>3
        <5>2. l < k
          BY <2>4, <4>1, <5>1
        <5>3. QED
          BY <2>2, <4>1, <5>1, <5>2 DEF InOrder
      <4>4. QED
        BY <4>2, <4>3
    <3>3. QED
      BY <3>1, <3>2
  <2>9. \A i \in DOMAIN channel' : Precedes(ingested', channel'[i])
    <3> SUFFICES ASSUME NEW i \in DOMAIN channel' PROVE Precedes(ingested', channel[i + 1])
      BY <2>1
    <3>1. Precedes(ingested, channel[i + 1]) /\ Precedes(h, channel[i + 1])
      BY <1>1, <2>1, <2>3
    <3>2. QED
      BY <2>5, <3>1 DEF Precedes
  <2>10. BatchesInv'
    <3>1. Len(channel') <= CHANNEL
      BY <1>0, <1>1, <2>1, PacketReceiverAssumption
    <3>2. QED
      BY <1>1, <1>3, <2>1, <2>6, <3>1 DEF BatchesInv
  <2>11. ASSUME NEW i \in DOMAIN channel'
         PROVE  /\ Attributed(channel[i])' /\ InOrder(channel'[i])
                /\ \A j \in 1..i - 1 : Precedes(channel'[j], channel'[i])
    <3>1. i + 1 \in DOMAIN channel /\ channel'[i] = channel[i + 1] /\ i \in Nat
      BY <2>1
    <3>2. Attributed(channel[i + 1])
      BY <1>1, <3>1
    <3>3. Attributed(channel[i])'
      BY <3>1, <3>2, <1>o DEF Attributed, Narrowest
    <3>4. ASSUME NEW j \in 1..i - 1 PROVE Precedes(channel'[j], channel'[i])
      <4>1. j \in DOMAIN channel' /\ j + 1 \in 1..(i + 1) - 1
        <5>1. DOMAIN channel' = 1..Len(channel') /\ Len(channel') \in Nat
          BY <1>0 DEF ReceiverTyped
        <5>2. QED
          BY <3>1, <5>1
      <4>2. channel'[j] = channel[j + 1]
        BY <2>1, <4>1
      <4>3. QED
        BY <1>1, <3>1, <4>1, <4>2
    <3>5. QED
      BY <1>1, <3>1, <3>3, <3>4
  <2>12. PacketsAttributed'
    BY <2>7, <2>8, <2>9, <2>11 DEF PacketsAttributed
  <2>13. QED
    BY <2>10, <2>12
<1>7. CASE Quiet \/ \E x \in Arrivals : Arrive(x)
  <2>1. ingested' = ingested /\ channel' = channel
    BY <1>0, <1>7, ArriveIs DEF Quiet
  <2>2. QED
    BY <1>4, <2>1
<1>8. QED
  BY <1>0, <1>5, <1>6, <1>7, ReceiverSteps

LEMMA AskedStep ==
  ASSUME ReceiverInv, [ReceiverNext]_receiverVars
  PROVE  AskedInv'
<1>0. /\ ReceiverTyped /\ (exit => fate.asked) /\ (rx_main # "running" => exit)
      /\ \A p \in Listening(config) : rx[p] = "ended" => exit
      /\ rx \in [Ports -> {"deciding", "receiving", "ended"}] /\ exit \in BOOLEAN
      /\ fate \in [arrivals : Nat, refused : Nat, empty : Nat, told : [Ports -> Nat], turns : Int, asked : BOOLEAN]
      /\ Listening(config) \subseteq Ports
  BY ListeningPorts DEF ReceiverInv, AskedInv, ReceiverTyped
<1>c. config' = config
  BY <1>0, GoesOnwards DEF Onwards
<1>1. ASSUME exit' = exit, rx_main' = rx_main, fate'.asked = fate.asked,
             \A p \in Listening(config) : rx'[p] = "ended" => rx[p] = "ended" \/ exit
      PROVE  AskedInv'
  BY <1>0, <1>1, <1>c DEF AskedInv, Listening
<1>2. ASSUME exit', fate'.asked PROVE AskedInv'
  BY <1>2 DEF AskedInv
<1>3. CASE UNCHANGED receiverVars
  BY <1>0, <1>1, <1>3 DEF receiverVars
<1>4. ASSUME NEW p \in Ports, Look(p) \/ Interrupted(p) PROVE AskedInv'
  <2>1. exit' = exit /\ rx_main' = rx_main /\ fate' = fate
    BY <1>4 DEF Look, Interrupted
  <2>2. \A o \in Ports : rx'[o] = "ended" => rx[o] = "ended" \/ exit
    BY <1>0, <1>4 DEF Look, Interrupted
  <2>3. QED
    BY <1>0, <1>1, <2>1, <2>2
<1>5. ASSUME NEW p \in Ports, NEW n \in 1..BATCH, ReceiveBatch(p, n) PROVE AskedInv'
  <2>1. exit' = exit /\ rx_main' = rx_main /\ fate'.asked = fate.asked /\ rx' = [rx EXCEPT ![p] = "deciding"]
    BY <1>0, <1>5, ReceiveIs
  <2>2. \A o \in Ports : rx'[o] = "ended" => rx[o] = "ended"
    BY <1>0, <2>1
  <2>3. QED
    BY <1>0, <1>1, <2>1, <2>2
<1>6. ASSUME NEW x \in Arrivals, Arrive(x) PROVE AskedInv'
  BY <1>0, <1>1, <1>6, ArriveIs
<1>7. CASE Asked \/ DeadlineHit
  <2>1. exit' = TRUE /\ fate' = [fate EXCEPT !.asked = TRUE]
    BY <1>7 DEF Asked, DeadlineHit
  <2>2. QED
    BY <1>0, <1>2, <2>1
<1>8. CASE Stop
  <2>1. exit \/ Disconnects
    BY <1>8 DEF Stop
  <2>2. Disconnects => exit
    <3> SUFFICES ASSUME Disconnects, ~ exit PROVE FALSE
      OBVIOUS
    <3>1. \A p \in Listening(config) : rx[p] = "ended"
      BY DEF Disconnects, Senders
    <3>2. Listening(config) # {}
      BY <1>8 DEF Stop, Disconnects, KeepsSender
    <3>3. QED
      BY <1>0, <3>1, <3>2
  <2>3. exit' = TRUE /\ fate' = fate
    BY <1>8 DEF Stop
  <2>4. QED
    BY <1>0, <1>2, <2>1, <2>2, <2>3
<1>9. CASE JoinReceivers \/ Drained
  <2>1. exit' = exit /\ fate' = fate /\ rx' = rx /\ rx_main # "running"
    BY <1>9 DEF JoinReceivers, Drained
  <2>2. QED
    BY <1>0, <1>2, <2>1
<1>10. CASE TakeBatch
  BY <1>0, <1>1, <1>10, TakeBatchIs
<1>11. QED
  BY <1>0, <1>3, <1>4, <1>5, <1>6, <1>7, <1>8, <1>9, <1>10 DEF ReceiverNext, RxThread, ReceiverMain, ReceiverDone

LEMMA DropsStep ==
  ASSUME ReceiverInv, [ReceiverNext]_receiverVars
  PROVE  DropsTold'
<1>0. /\ ReceiverTyped /\ IsFiniteSet(Ports) /\ fate.told \in [Ports -> Int]
      /\ counters.kernel_dropped + COUNTER * fate.turns = SumFunctionOnSet(fate.told, Ports)
  BY PacketReceiverAssumption DEF ReceiverInv, ReceiverTyped, DropsTold
<1>1. ASSUME fate'.told = fate.told, fate'.turns = fate.turns, counters' = counters PROVE DropsTold'
  BY <1>0, <1>1 DEF DropsTold
<1>2. ASSUME NEW p \in Ports, NEW n \in 1..BATCH, ReceiveBatch(p, n) PROVE DropsTold'
  <2> DEFINE s == Scans(p, n)[n]
  <2>1. /\ n \in Nat /\ n <= Len(sockets[p].queue) /\ fate'.told[p] = s.told /\ fate'.turns = s.turns
        /\ counters'.kernel_dropped = s.counters.kernel_dropped
        /\ \A o \in Ports \ {p} : fate.told[o] = fate'.told[o]
        /\ ReceiverTyped'
    BY <1>0, <1>2, ReceiveIs
  <2>2. s.counters.kernel_dropped + COUNTER * s.turns =
            counters.kernel_dropped + COUNTER * fate.turns + (s.told - fate.told[p])
    <3>1. DropsGrow(p)
      BY DEF ReceiverInv, QueuesInv
    <3>2. QED
      BY <1>0, <2>1, <3>1, ScanTells
  <2> HIDE DEF s
  <2>3. fate'.told \in [Ports -> Int]
    BY <2>1 DEF ReceiverTyped
  <2>4. SumFunctionOnSet(fate'.told, Ports) = SumFunctionOnSet(fate.told, Ports) + (s.told - fate.told[p])
    BY <1>0, <2>1, <2>3, SumChanged
  <2>5. counters'.kernel_dropped + COUNTER * fate'.turns = SumFunctionOnSet(fate'.told, Ports)
    BY <1>0, <2>1, <2>2, <2>4
  <2>6. QED
    BY <2>5 DEF DropsTold
<1>3. CASE Quiet
  BY <1>1, <1>3 DEF Quiet
<1>4. ASSUME NEW x \in Arrivals, Arrive(x) PROVE DropsTold'
  BY <1>0, <1>1, <1>4, ArriveIs
<1>5. CASE TakeBatch
  BY <1>0, <1>1, <1>5, TakeBatchIs
<1>6. QED
  BY <1>0, <1>2, <1>3, <1>4, <1>5, ReceiverSteps

-----------------------------------------------------------------------------
(* The receivers: every datagram is counted. *)

\* How many datagrams wait on each port, and how many packets there are in each batch.
QueueLengths == [p \in Ports |-> Len(sockets[p].queue)]

BatchLengths == [i \in DOMAIN channel |-> Len(channel[i])]

LEMMA SumsTyped ==
  ASSUME ReceiverTyped
  PROVE  /\ QueueLengths \in [Ports -> Int] /\ IsFiniteSet(Ports) /\ SumFunctionOnSet(QueueLengths, Ports) \in Int
         /\ BatchLengths \in Seq(Int) /\ Len(BatchLengths) = Len(channel) /\ SeqSum(BatchLengths) \in Int
         /\ SeqSum(BatchLengths) = SumFunctionOnSet(BatchLengths, DOMAIN channel)
         /\ Len(channel) \in Nat /\ DOMAIN channel = 1..Len(channel)
         /\ Len(ingested) \in Nat
<1>1. \A p \in Ports : sockets[p].queue \in Seq(Datagrams)
  BY DEF ReceiverTyped
<1>2. \A p \in Ports : Len(sockets[p].queue) \in Int
  BY <1>1
<1>3. QueueLengths \in [Ports -> Int] /\ IsFiniteSet(Ports)
  BY <1>2, PacketReceiverAssumption DEF QueueLengths
<1>4. SumFunctionOnSet(QueueLengths, Ports) \in Int
  BY <1>3, SumBasics
<1>5. channel \in Seq(Seq(Packets)) /\ ingested \in Seq(Packets)
  BY DEF ReceiverTyped
<1>6. Len(channel) \in Nat /\ DOMAIN channel = 1..Len(channel) /\ \A i \in DOMAIN channel : channel[i] \in Seq(Packets)
  <2> DEFINE B == Seq(Packets)
  <2>1. channel \in Seq(B)
    BY <1>5
  <2> HIDE DEF B
  <2>2. Len(channel) \in Nat /\ DOMAIN channel = 1..Len(channel) /\ \A i \in DOMAIN channel : channel[i] \in B
    BY <2>1
  <2>3. QED
    BY <2>2 DEF B
<1>7. \A i \in DOMAIN channel : Len(channel[i]) \in Int
  BY <1>6
<1>8. BatchLengths \in [1..Len(channel) -> Int] /\ DOMAIN BatchLengths = 1..Len(channel)
  BY <1>6, <1>7 DEF BatchLengths
<1>9. BatchLengths \in Seq(Int) /\ Len(BatchLengths) = Len(channel)
  <2> HIDE DEF BatchLengths
  <2> QED
    BY <1>6, <1>8
<1>10. SeqSum(BatchLengths) \in Int /\ SeqSum(BatchLengths) = SumFunctionOnSet(BatchLengths, DOMAIN channel)
  <2>1. DOMAIN BatchLengths = DOMAIN channel
    BY <1>6, <1>8
  <2>2. QED
    BY <1>9, <2>1, SeqSumBasics DEF SeqSum
<1>11. QED
  BY <1>3, <1>4, <1>5, <1>6, <1>9, <1>10

\* The places of the datagrams, added up.
Accounted(waiting, batches, taken, f, c) ==
    /\ c.received = c.unmatched + (batches + taken + f.refused)
    /\ f.arrivals = waiting + c.received + c.truncated + c.no_timestamp + f.empty
    /\ c.channel_full <= f.refused /\ f.refused <= BATCH * c.channel_full

LEMMA CountedIs ==
  ASSUME ReceiverTyped
  PROVE  DatagramsCounted <=>
             Accounted(SumFunctionOnSet(QueueLengths, Ports), SeqSum(BatchLengths), Len(ingested), fate, counters)
<1>1. SeqSum(BatchLengths) = SumFunctionOnSet(BatchLengths, DOMAIN channel)
  BY SumsTyped
<1>2. DatagramsCounted <=>
          Accounted(SumFunctionOnSet(QueueLengths, Ports), SumFunctionOnSet(BatchLengths, DOMAIN channel), Len(ingested), fate, counters)
  BY DEF DatagramsCounted, Accounted, QueueLengths, BatchLengths
<1>3. QED
  BY <1>1, <1>2

LEMMA CountersTyped ==
  ASSUME ReceiverTyped
  PROVE  /\ counters.received \in Nat /\ counters.unmatched \in Nat /\ counters.truncated \in Nat
         /\ counters.no_timestamp \in Nat /\ counters.channel_full \in Nat
         /\ fate.empty \in Nat /\ fate.refused \in Nat /\ fate.arrivals \in Nat
  BY DEF ReceiverTyped, RxCounters

\* A batch joins the channel, or leaves it.
LEMMA BatchesJoin ==
  ASSUME NEW c \in Seq(Int), NEW x \in Int
  PROVE  /\ SeqSum(Append(c, x)) = SeqSum(c) + x
         /\ c # <<>> => SeqSum(c) = Head(c) + SeqSum(Tail(c))
<1>1. <<x>> \in Seq(Int) /\ Len(<<x>>) = 1 /\ <<x>>[1] = x
  OBVIOUS
<1>2. SeqSum(Append(c, x)) = SeqSum(c) + x
  <2> DEFINE r == Append(c, x)
             q == <<x>>
  <2>1. r \in Seq(Int) /\ Len(r) = Len(c) + 1 /\ (\A i \in 1..Len(c) : r[i] = c[i]) /\ r[Len(c) + 1] = x
    OBVIOUS
  <2>2. q \in Seq(Int) /\ Len(q) = 1 /\ q[1] = x /\ SeqSum(q) = x
    BY <1>1, SeqSumBasics
  <2> HIDE DEF r, q
  <2>3. Joins(r, c, q)
    BY <2>1, <2>2 DEF Joins
  <2>4. SeqSum(r) = SeqSum(c) + SeqSum(q)
    BY <1>1, <2>1, <2>2, <2>3, SeqSumJoins
  <2>5. QED
    BY <2>2, <2>4 DEF r
<1>3. ASSUME c # <<>> PROVE SeqSum(c) = Head(c) + SeqSum(Tail(c))
  <2> DEFINE q == <<Head(c)>>
             t == Tail(c)
  <2>1. /\ Head(c) \in Int /\ t \in Seq(Int) /\ Len(c) = 1 + Len(t) /\ c[1] = Head(c)
        /\ \A i \in 1..Len(t) : c[1 + i] = t[i]
    BY <1>3
  <2>2. q \in Seq(Int) /\ Len(q) = 1 /\ q[1] = Head(c) /\ SeqSum(q) = Head(c)
    BY <2>1, SeqSumBasics
  <2> HIDE DEF q, t
  <2>3. Joins(c, q, t)
    BY <2>1, <2>2 DEF Joins
  <2>4. SeqSum(c) = SeqSum(q) + SeqSum(t)
    BY <1>1, <2>1, <2>2, <2>3, SeqSumJoins
  <2>5. QED
    BY <2>2, <2>4 DEF t
<1>4. QED
  BY <1>2, <1>3

LEMMA CountsStep ==
  ASSUME ReceiverInv, [ReceiverNext]_receiverVars
  PROVE  DatagramsCounted'
<1> DEFINE waiting == SumFunctionOnSet(QueueLengths, Ports)
           batches == SeqSum(BatchLengths)
<1>0. /\ ReceiverTyped /\ Accounted(waiting, batches, Len(ingested), fate, counters)
      /\ waiting \in Int /\ batches \in Int /\ Len(ingested) \in Nat /\ BATCH \in Nat \ {0}
  BY CountedIs, SumsTyped, PacketReceiverAssumption DEF ReceiverInv
<1>1. ASSUME ReceiverTyped', Accounted(waiting', batches', Len(ingested'), fate', counters') PROVE DatagramsCounted'
  <2>1. (ReceiverTyped => (DatagramsCounted <=>
             Accounted(SumFunctionOnSet(QueueLengths, Ports), SeqSum(BatchLengths), Len(ingested), fate, counters)))'
    BY CountedIs, PTL
  <2>2. QED
    BY <1>1, <2>1
<1>2. ASSUME ReceiverTyped'
      PROVE  /\ QueueLengths' \in [Ports -> Int] /\ waiting' \in Int
             /\ BatchLengths' \in Seq(Int) /\ Len(BatchLengths') = Len(channel') /\ batches' \in Int
             /\ Len(channel') \in Nat /\ DOMAIN channel' = 1..Len(channel') /\ Len(ingested') \in Nat
  <2>1. (ReceiverTyped =>
             /\ QueueLengths \in [Ports -> Int] /\ SumFunctionOnSet(QueueLengths, Ports) \in Int
             /\ BatchLengths \in Seq(Int) /\ Len(BatchLengths) = Len(channel) /\ SeqSum(BatchLengths) \in Int
             /\ Len(channel) \in Nat /\ DOMAIN channel = 1..Len(channel) /\ Len(ingested) \in Nat)'
    BY SumsTyped, PTL
  <2>2. QED
    BY <1>2, <2>1
<1>3. CASE Quiet /\ ReceiverTyped'
  <2>1. sockets' = sockets /\ channel' = channel /\ ingested' = ingested /\ counters' = counters
    BY <1>3 DEF Quiet
  <2>2. QueueLengths' = QueueLengths /\ BatchLengths' = BatchLengths
    BY <2>1 DEF QueueLengths, BatchLengths
  <2>3. Accounted(waiting', batches', Len(ingested'), fate', counters')
    BY <1>0, <1>3, <2>1, <2>2 DEF Quiet, Accounted
  <2>4. QED
    BY <1>1, <1>3, <2>3
<1>4. ASSUME NEW x \in Arrivals, Arrive(x) PROVE DatagramsCounted'
  <2> DEFINE p == x.port
  <2>1. /\ p \in Ports /\ (\A o \in Ports \ {p} : sockets'[o] = sockets[o])
        /\ fate'.arrivals = fate.arrivals + 1 /\ fate'.refused = fate.refused /\ fate'.empty = fate.empty
        /\ counters' = counters /\ channel' = channel /\ ingested' = ingested /\ ReceiverTyped'
    BY <1>0, <1>4, ArriveIs
  <2>2. Len(sockets'[p].queue) = Len(sockets[p].queue) + 1
    <3> DEFINE d == [no |-> fate.arrivals + 1, ip |-> x.ip, kind |-> x.kind, dropped |-> sockets[p].dropped + x.drops]
    <3>1. sockets'[p].queue = Append(sockets[p].queue, d) /\ d \in Datagrams
      BY <1>0, <1>4, ArriveIs
    <3>2. sockets[p].queue \in Seq(Datagrams)
      BY <1>0, <2>1 DEF ReceiverTyped
    <3> HIDE DEF d
    <3>3. QED
      BY <3>1, <3>2
  <2> HIDE DEF p
  <2>3. waiting' = waiting + 1
    <3>1. QueueLengths'[p] = QueueLengths[p] + 1 /\ \A o \in Ports \ {p} : QueueLengths[o] = QueueLengths'[o]
      BY <2>1, <2>2 DEF QueueLengths
    <3>2. QueueLengths \in [Ports -> Int] /\ QueueLengths' \in [Ports -> Int] /\ IsFiniteSet(Ports) /\ QueueLengths[p] \in Int
      BY <1>0, <1>2, <2>1, SumsTyped
    <3>3. waiting' = waiting + (QueueLengths'[p] - QueueLengths[p])
      BY <2>1, <3>1, <3>2, SumChanged
    <3>4. QED
      BY <1>0, <3>1, <3>2, <3>3
  <2>4. BatchLengths' = BatchLengths
    BY <2>1 DEF BatchLengths
  <2>5. Accounted(waiting', batches', Len(ingested'), fate', counters')
    <3>1. /\ counters.received \in Nat /\ counters.truncated \in Nat /\ counters.no_timestamp \in Nat /\ fate.empty \in Nat
          /\ fate.arrivals \in Nat
      BY <1>0, CountersTyped
    <3>2. batches' = batches
      BY <2>4
    <3> HIDE DEF waiting, batches
    <3>3. QED
      BY SMTT(30), <1>0, <2>1, <2>3, <3>1, <3>2 DEF Accounted
  <2>6. QED
    BY <1>1, <2>1, <2>5
<1>5. ASSUME NEW p \in Ports, NEW n \in 1..BATCH, ReceiveBatch(p, n) PROVE DatagramsCounted'
  <2>0. PICK s : s = Scans(p, n)[n]
    OBVIOUS
  <2> DEFINE refused == s.batch # <<>> /\ Len(channel) >= CHANNEL
  <2>1. /\ n \in Nat /\ n <= Len(sockets[p].queue) /\ s \in ScanRecords /\ ReceiverTyped'
        /\ sockets'[p].queue = SubSeq(sockets[p].queue, n + 1, Len(sockets[p].queue))
        /\ \A o \in Ports \ {p} : sockets'[o].queue = sockets[o].queue
        /\ fate'.arrivals = fate.arrivals /\ fate'.empty = s.empty
        /\ fate'.refused = IF refused THEN fate.refused + Len(s.batch) ELSE fate.refused
        /\ counters'.channel_full = IF refused THEN s.counters.channel_full + 1 ELSE s.counters.channel_full
        /\ \A f \in {"received", "unmatched", "no_timestamp", "kernel_dropped", "truncated"} :
                counters'[f] = s.counters[f]
        /\ channel' = IF s.batch = <<>> \/ refused THEN channel ELSE Append(channel, s.batch)
        /\ ingested' = ingested
    BY <1>0, <1>5, <2>0, ReceiveIs
  <2>2. /\ s.counters.channel_full = counters.channel_full
        /\ s.counters.received + s.counters.truncated + s.counters.no_timestamp + s.empty =
               counters.received + counters.truncated + counters.no_timestamp + fate.empty + n
        /\ s.counters.received - s.counters.unmatched = counters.received - counters.unmatched + Len(s.batch)
        /\ Len(s.batch) \in 0..n
    BY <1>0, <2>0, <2>1, ScanCounts DEF Handled, Begin
  <2>3. waiting' = waiting - n
    <3>1. sockets[p].queue \in Seq(Datagrams)
      BY <1>0 DEF ReceiverTyped
    <3>2. Len(sockets'[p].queue) = Len(sockets[p].queue) - n /\ Len(sockets[p].queue) \in Nat
      BY <2>1, <3>1
    <3>3. QueueLengths'[p] = QueueLengths[p] - n /\ \A o \in Ports \ {p} : QueueLengths[o] = QueueLengths'[o]
      BY <2>1, <3>2 DEF QueueLengths
    <3>4. QueueLengths \in [Ports -> Int] /\ QueueLengths' \in [Ports -> Int] /\ IsFiniteSet(Ports) /\ QueueLengths[p] \in Int
      BY <1>0, <1>2, <2>1, SumsTyped
    <3>5. waiting' = waiting + (QueueLengths'[p] - QueueLengths[p])
      BY <3>3, <3>4, SumChanged
    <3>6. QED
      BY <1>0, <2>1, <3>3, <3>4, <3>5
  <2>4. IF s.batch = <<>> \/ refused THEN batches' = batches ELSE batches' = batches + Len(s.batch)
    <3>1. CASE s.batch = <<>> \/ refused
      <4>1. BatchLengths' = BatchLengths
        BY <2>1, <3>1 DEF BatchLengths
      <4>2. QED
        BY <3>1, <4>1
    <3>2. CASE ~ (s.batch = <<>> \/ refused)
      <4>1. channel' = Append(channel, s.batch)
        BY <2>1, <3>2
      <4>2. s.batch \in Seq(Packets) /\ channel \in Seq(Seq(Packets)) /\ Len(s.batch) \in Int
        BY <1>0, <2>1, <2>2 DEF ReceiverTyped, ScanRecords
      <4>3. /\ Len(channel') = Len(channel) + 1 /\ channel'[Len(channel) + 1] = s.batch
            /\ \A i \in 1..Len(channel) : channel'[i] = channel[i]
        <5> DEFINE B == Seq(Packets)
        <5>1. channel \in Seq(B) /\ s.batch \in B
          BY <4>2
        <5> HIDE DEF B
        <5>2. QED
          BY <4>1, <5>1
      <4>4. /\ BatchLengths \in Seq(Int) /\ Len(BatchLengths) = Len(channel) /\ DOMAIN channel = 1..Len(channel) /\ Len(channel) \in Nat
            /\ BatchLengths' \in Seq(Int) /\ Len(BatchLengths') = Len(channel') /\ DOMAIN channel' = 1..Len(channel')
        BY <1>0, <1>2, <2>1, SumsTyped
      <4>5. /\ \A i \in 1..Len(channel) : BatchLengths[i] = Len(channel[i]) /\ BatchLengths'[i] = Len(channel[i])
            /\ BatchLengths'[Len(channel) + 1] = Len(s.batch)
        BY <4>3, <4>4 DEF BatchLengths
      <4>6. BatchLengths' = Append(BatchLengths, Len(s.batch))
        <5> DEFINE r == Append(BatchLengths, Len(s.batch))
        <5>1. r \in Seq(Int) /\ Len(r) = Len(BatchLengths) + 1 /\ (\A i \in 1..Len(BatchLengths) : r[i] = BatchLengths[i])
              /\ r[Len(BatchLengths) + 1] = Len(s.batch)
          BY <4>2, <4>4
        <5>2. \A i \in 1..Len(r) : r[i] = BatchLengths'[i]
          BY <4>3, <4>4, <4>5, <5>1
        <5> HIDE DEF r
        <5>3. r = BatchLengths'
          BY <4>3, <4>4, <5>1, <5>2
        <5>4. QED
          BY <5>3 DEF r
      <4>7. batches' = SeqSum(Append(BatchLengths, Len(s.batch)))
        BY <4>6
      <4>8. batches' = batches + Len(s.batch)
        BY <4>2, <4>4, <4>7, BatchesJoin
      <4>9. QED
        BY <3>2, <4>8
    <3>3. QED
      BY <3>1, <3>2
  <2>5. Accounted(waiting', batches', Len(ingested'), fate', counters')
    <3>1. /\ counters.received \in Nat /\ counters.truncated \in Nat /\ counters.no_timestamp \in Nat /\ fate.empty \in Nat
          /\ fate.arrivals \in Nat /\ fate.refused \in Nat /\ counters.channel_full \in Nat /\ counters.unmatched \in Nat
      BY <1>0, CountersTyped
    <3>2. /\ s.counters.received \in Nat /\ s.counters.truncated \in Nat /\ s.counters.no_timestamp \in Nat /\ s.empty \in Nat
          /\ s.counters.unmatched \in Nat
      BY <2>1 DEF ScanRecords, RxCounters
    <3>3. s.batch = <<>> => Len(s.batch) = 0
      OBVIOUS
    <3>4. s.batch # <<>> => Len(s.batch) >= 1
      <4>1. s.batch \in Seq(Packets)
        BY <2>1 DEF ScanRecords
      <4>2. QED
        BY <4>1
    <3>5. /\ counters'.received = s.counters.received /\ counters'.unmatched = s.counters.unmatched
          /\ counters'.truncated = s.counters.truncated /\ counters'.no_timestamp = s.counters.no_timestamp
      BY <2>1
    <3> HIDE DEF waiting, batches, refused
    <3>a. waiting \in Int /\ batches \in Int /\ Len(ingested) \in Int /\ n \in Int /\ Len(s.batch) \in Int /\ waiting' = waiting - n
      BY <1>0, <2>1, <2>2, <2>3
    <3>b. fate'.arrivals = fate.arrivals /\ fate'.empty = s.empty /\ Len(ingested') = Len(ingested)
      BY <2>1
    <3>c. /\ s.counters.received + s.counters.truncated + s.counters.no_timestamp + s.empty =
                 counters.received + counters.truncated + counters.no_timestamp + fate.empty + n
          /\ s.counters.received - s.counters.unmatched = counters.received - counters.unmatched + Len(s.batch)
      BY <2>2
    <3>d. /\ counters.received = counters.unmatched + (batches + Len(ingested) + fate.refused)
          /\ fate.arrivals = waiting + counters.received + counters.truncated + counters.no_timestamp + fate.empty
      BY <1>0 DEF Accounted
    <3>6. fate'.arrivals = waiting' + counters'.received + counters'.truncated + counters'.no_timestamp + fate'.empty
      <4> DEFINE X == counters.received + counters.truncated + counters.no_timestamp + fate.empty
                 Y == s.counters.received + s.counters.truncated + s.counters.no_timestamp + s.empty
      <4>1. X \in Int /\ fate.arrivals = waiting + X
        <5>1. PICK w \in Int, a \in Int, b \in Int, c \in Int, d \in Int :
                  w = waiting /\ a = counters.received /\ b = counters.truncated /\ c = counters.no_timestamp /\ d = fate.empty
          BY <3>a, <3>1
        <5>2. w + a + b + c + d = w + (a + b + c + d) /\ a + b + c + d \in Int
          OBVIOUS
        <5>3. QED
          BY <3>d, <5>1, <5>2
      <4>2. Y \in Int /\ waiting' + s.counters.received + s.counters.truncated + s.counters.no_timestamp + s.empty = waiting' + Y
        BY ONLY <3>a, <3>2
      <4>3. Y = X + n
        BY <3>c
      <4> HIDE DEF X, Y
      <4>4. fate.arrivals = waiting' + Y
        BY ONLY <3>a, <4>1, <4>2, <4>3
      <4>5. QED
        BY <3>b, <3>5, <4>2, <4>4
    <3>e. /\ batches' \in Int /\ fate'.refused \in Int
          /\ batches' + fate'.refused = batches + fate.refused + Len(s.batch)
      <4>1. CASE refused
        <5>1. batches' = batches /\ fate'.refused = fate.refused + Len(s.batch)
          BY <2>1, <2>4, <4>1
        <5>2. QED
          BY ONLY <3>a, <3>1, <5>1
      <4>2. CASE ~ refused /\ s.batch = <<>>
        <5>1. batches' = batches /\ fate'.refused = fate.refused
          BY <2>1, <2>4, <4>2
        <5>2. QED
          BY ONLY <3>a, <3>1, <3>3, <4>2, <5>1
      <4>3. CASE ~ refused /\ s.batch # <<>>
        <5>1. batches' = batches + Len(s.batch) /\ fate'.refused = fate.refused
          BY <2>1, <2>4, <4>3
        <5>2. QED
          BY ONLY <3>a, <3>1, <5>1
      <4>4. QED
        BY <4>1, <4>2, <4>3
    <3>7. counters'.received = counters'.unmatched + (batches' + Len(ingested') + fate'.refused)
      <4>0. /\ s.counters.received \in Int /\ s.counters.unmatched \in Int /\ counters.unmatched \in Int
            /\ counters.received \in Int /\ fate.refused \in Int
        BY <3>1, <3>2
      <4>1. PICK a \in Int, b \in Int, u \in Int, r \in Int :
                a = s.counters.received /\ b = s.counters.unmatched /\ u = counters.unmatched /\ r = counters.received
        BY ONLY <4>0, Zenon
      <4>2. PICK o \in Int, f \in Int, g \in Int, m \in Int, x \in Int, y \in Int :
                o = batches /\ f = fate.refused /\ g = batches' /\ m = fate'.refused /\ x = Len(s.batch) /\ y = Len(ingested)
        BY ONLY <3>a, <3>e, <4>0, Zenon
      <4>3. a - b = r - u + x /\ r = u + (o + y + f) /\ g + m = o + f + x
        BY <3>c, <3>d, <3>e, <4>1, <4>2
      <4>4. a = b + (g + y + m)
        BY ONLY <4>3
      <4>5. QED
        BY <3>b, <3>5, <4>1, <4>2, <4>4
    <3>8. counters'.channel_full <= fate'.refused /\ fate'.refused <= BATCH * counters'.channel_full
      <4>0. counters.channel_full <= fate.refused /\ fate.refused <= BATCH * counters.channel_full
        BY <1>0 DEF Accounted
      <4>1. CASE ~ refused
        BY <2>1, <2>2, <4>0, <4>1
      <4>2. CASE refused
        <5>1. counters'.channel_full = counters.channel_full + 1 /\ fate'.refused = fate.refused + Len(s.batch)
          BY <2>1, <2>2, <4>2
        <5>2. Len(s.batch) >= 1 /\ Len(s.batch) <= BATCH
          BY <1>0, <2>2, <3>4, <4>2 DEF refused
        <5>3. BATCH * (counters.channel_full + 1) = BATCH * counters.channel_full + BATCH
          BY <1>0, <3>1
        <5>4. BATCH * counters.channel_full \in Int /\ BATCH \in Int
          BY <1>0, <3>1
        <5> DEFINE product == BATCH * counters.channel_full
        <5>5. counters'.channel_full <= fate'.refused
          BY ONLY <3>a, <3>1, <4>0, <5>1, <5>2
        <5>6. fate.refused + Len(s.batch) <= product + BATCH
          <6> HIDE DEF product
          <6>1. product \in Int /\ fate.refused <= product
            BY <4>0, <5>4 DEF product
          <6>2. QED
            BY ONLY <3>a, <3>1, <5>2, <5>4, <6>1
        <5>7. BATCH * counters'.channel_full = product + BATCH
          BY <5>1, <5>3
        <5> HIDE DEF product
        <5>8. QED
          BY <5>1, <5>5, <5>6, <5>7
      <4>3. QED
        BY <4>1, <4>2
    <3>9. QED
      BY <3>6, <3>7, <3>8 DEF Accounted
  <2>6. QED
    BY <1>1, <2>1, <2>5
<1>6. CASE TakeBatch
  <2>1. /\ channel # <<>> /\ Head(channel) \in Seq(Packets) /\ ingested' = ingested \o Head(channel)
        /\ Len(channel') = Len(channel) - 1 /\ Len(channel) \in Nat
        /\ \A i \in DOMAIN channel' : i + 1 \in DOMAIN channel /\ channel'[i] = channel[i + 1]
        /\ 1 \in DOMAIN channel /\ Head(channel) = channel[1]
        /\ sockets' = sockets /\ counters' = counters /\ fate' = fate /\ ReceiverTyped'
    BY <1>0, <1>6, TakeBatchIs
  <2>2. QueueLengths' = QueueLengths
    BY <2>1 DEF QueueLengths
  <2>3. Len(ingested') = Len(ingested) + Len(Head(channel)) /\ Len(Head(channel)) \in Nat
    <3>1. ingested \in Seq(Packets)
      BY <1>0 DEF ReceiverTyped
    <3>2. QED
      BY <2>1, <3>1
  <2>4. /\ BatchLengths \in Seq(Int) /\ Len(BatchLengths) = Len(channel) /\ DOMAIN channel = 1..Len(channel)
        /\ BatchLengths' \in Seq(Int) /\ Len(BatchLengths') = Len(channel') /\ DOMAIN channel' = 1..Len(channel')
    BY <1>0, <1>2, <2>1, SumsTyped
  <2>5. BatchLengths[1] = Len(Head(channel)) /\ \A i \in 1..Len(channel') : BatchLengths'[i] = BatchLengths[i + 1]
    BY <2>1, <2>4 DEF BatchLengths
  <2>6. BatchLengths # <<>> /\ Head(BatchLengths) = Len(Head(channel)) /\ BatchLengths' = Tail(BatchLengths)
    <3> DEFINE t == Tail(BatchLengths)
    <3>1. BatchLengths # <<>> /\ Len(BatchLengths) >= 1
      BY <2>1, <2>4
    <3>2. t \in Seq(Int) /\ Len(t) = Len(BatchLengths) - 1 /\ (\A i \in 1..Len(t) : t[i] = BatchLengths[i + 1]) /\ Head(BatchLengths) = BatchLengths[1]
      BY <2>4, <3>1
    <3>3. \A i \in 1..Len(t) : t[i] = BatchLengths'[i]
      BY <2>1, <2>4, <2>5, <3>2
    <3> HIDE DEF t
    <3>4. t \in Seq(Int) /\ BatchLengths' \in Seq(Int) /\ Len(t) = Len(BatchLengths')
      BY <2>1, <2>4, <3>2
    <3>5. t = BatchLengths'
      <4>1. PICK u : u = BatchLengths'
        OBVIOUS
      <4>2. t \in Seq(Int) /\ u \in Seq(Int) /\ Len(t) = Len(u) /\ \A i \in 1..Len(t) : t[i] = u[i]
        BY <3>3, <3>4, <4>1
      <4>3. t = u
        BY ONLY SMTT(30), <4>2
      <4>4. QED
        BY <4>1, <4>3
    <3>6. QED
      BY <2>5, <3>1, <3>2, <3>5 DEF t
  <2>7. batches = Len(Head(channel)) + batches'
    <3>1. SeqSum(BatchLengths) = Head(BatchLengths) + SeqSum(Tail(BatchLengths))
      BY <2>4, <2>6, BatchesJoin
    <3>2. QED
      BY <2>6, <3>1
  <2>8. batches' \in Int /\ waiting' = waiting
    BY <1>2, <2>1, <2>2
  <2>9. Accounted(waiting', batches', Len(ingested'), fate', counters')
    <3>1. counters.unmatched \in Nat /\ fate.refused \in Nat
      BY <1>0, CountersTyped
    <3> HIDE DEF waiting, batches
    <3>2. batches' + Len(ingested') = batches + Len(ingested)
      BY <1>0, <2>3, <2>7, <2>8
    <3>3. QED
      BY <1>0, <2>1, <2>3, <2>8, <3>1, <3>2 DEF Accounted
  <2>10. QED
    BY <1>1, <2>1, <2>9
<1>7. QED
  BY <1>0, <1>3, <1>4, <1>5, <1>6, ReceiverSteps

-----------------------------------------------------------------------------
(* The receivers: what follows. *)

LEMMA ReceiverStart == ReceiverInit => ReceiverInv
<1> SUFFICES ASSUME ReceiverInit PROVE ReceiverInv
  OBVIOUS
<1>0. /\ COUNTER \in Nat \ {0} /\ CHANNEL \in Nat \ {0} /\ BATCH \in Nat \ {0} /\ IsFiniteSet(Ports)
  BY PacketReceiverAssumption
<1>1. /\ counters.received = 0 /\ counters.unmatched = 0 /\ counters.no_timestamp = 0 /\ counters.channel_full = 0
      /\ counters.kernel_dropped = 0 /\ counters.truncated = 0 /\ counters \in RxCounters
  BY DEF ReceiverInit, RxCounters
<1>2. /\ fate.arrivals = 0 /\ fate.refused = 0 /\ fate.empty = 0 /\ fate.turns = 0 /\ ~ fate.asked
      /\ fate.told = [p \in Ports |-> 0]
      /\ fate \in [arrivals : Nat, refused : Nat, empty : Nat, told : [Ports -> Nat], turns : Int, asked : BOOLEAN]
  BY DEF ReceiverInit
<1>3. /\ channel = <<>> /\ ingested = <<>> /\ channel \in Seq(Seq(Packets)) /\ ingested \in Seq(Packets)
      /\ Len(channel) = 0 /\ Len(ingested) = 0 /\ DOMAIN channel = {} /\ DOMAIN ingested = {}
  BY DEF ReceiverInit
<1>4. /\ sockets \in [Ports -> [queue : Seq(Datagrams), dropped : Nat]]
      /\ \A p \in Ports : sockets[p].queue = <<>> /\ sockets[p].dropped = 0
      /\ \A p \in Ports : Len(sockets[p].queue) = 0 /\ DOMAIN sockets[p].queue = {}
  <2>1. sockets = [p \in Ports |-> [queue |-> <<>>, dropped |-> 0]]
    BY DEF ReceiverInit
  <2>2. \A p \in Ports : sockets[p].queue = <<>> /\ sockets[p].dropped = 0
    BY <2>1
  <2>3. <<>> \in Seq(Datagrams) /\ Len(<<>>) = 0 /\ DOMAIN <<>> = {}
    OBVIOUS
  <2>4. QED
    BY <2>1, <2>2, <2>3
<1>5. ReceiverTyped
  <2>1. config \in Configs /\ Validates(config) /\ rx \in [Ports -> {"deciding", "receiving", "ended"}]
    BY DEF ReceiverInit
  <2>2. last_ovfl \in [Ports -> 0..COUNTER - 1]
    BY <1>0 DEF ReceiverInit
  <2>3. /\ reported_ips \in [Ports -> SUBSET Sightings] /\ observed \in SUBSET Sightings
        /\ exit \in BOOLEAN /\ rx_main \in {"running", "joining", "draining", "done"}
    BY DEF ReceiverInit
  <2>4. QED
    BY <1>1, <1>2, <1>3, <1>4, <2>1, <2>2, <2>3 DEF ReceiverTyped
<1>6. QueuesInv
  <2> SUFFICES ASSUME NEW p \in Ports PROVE DropsGrow(p) /\ Numbered(p) /\ reported_ips[p] \subseteq observed
    BY DEF QueuesInv
  <2>1. last_ovfl[p] = 0 /\ fate.told[p] = 0 /\ 0 % COUNTER = 0 /\ reported_ips[p] = {}
    BY <1>0, <1>2 DEF ReceiverInit
  <2>2. QED
    BY <1>4, <2>1 DEF DropsGrow, Numbered
<1>7. BatchesInv
  BY <1>0, <1>3 DEF BatchesInv, Older
<1>8. AskedInv
  <2>1. ~ exit /\ rx_main = "running" /\ \A p \in Ports : rx[p] = "deciding"
    BY DEF ReceiverInit
  <2>2. Listening(config) \subseteq Ports
    BY <1>5, ListeningPorts
  <2>3. QED
    BY <2>1, <2>2 DEF AskedInv
<1>9. DropsTold
  <2>1. fate.told \in [Ports -> Nat] /\ Ports \in SUBSET Ports /\ \A p \in Ports : fate.told[p] = 0
    BY <1>2
  <2>2. SumFunctionOnSet(fate.told, Ports) = 0
    BY <1>0, <2>1, SumNat
  <2>3. QED
    BY <1>0, <1>1, <1>2, <2>2 DEF DropsTold
<1>10. DatagramsCounted
  <2>1. QueueLengths \in [Ports -> Nat] /\ Ports \in SUBSET Ports /\ \A p \in Ports : QueueLengths[p] = 0
    BY <1>4 DEF QueueLengths
  <2>2. SumFunctionOnSet(QueueLengths, Ports) = 0
    BY <1>0, <2>1, SumNat
  <2>3. SeqSum(BatchLengths) = 0
    <3>1. BatchLengths \in Seq(Int) /\ Len(BatchLengths) = 0
      BY <1>3, <1>5, SumsTyped
    <3>2. BatchLengths = <<>>
      BY <3>1
    <3>3. QED
      BY <3>2, SeqSumBasics
  <2>4. Accounted(SumFunctionOnSet(QueueLengths, Ports), SeqSum(BatchLengths), Len(ingested), fate, counters)
    BY <1>0, <1>1, <1>2, <1>3, <2>2, <2>3 DEF Accounted
  <2>5. QED
    BY <1>5, <2>4, CountedIs
<1>11. PacketsAttributed
  BY <1>3 DEF PacketsAttributed, Attributed, InOrder
<1>12. QED
  BY <1>5, <1>6, <1>7, <1>8, <1>9, <1>10, <1>11 DEF ReceiverInv

\* What every reachable state of the receivers satisfies.
THEOREM ReceiverInvariant ==
  ReceiverInit /\ [][ReceiverNext]_receiverVars => []ReceiverInv
<1>1. ReceiverInv /\ [ReceiverNext]_receiverVars => ReceiverInv'
  <2> SUFFICES ASSUME ReceiverInv, [ReceiverNext]_receiverVars PROVE ReceiverInv'
    OBVIOUS
  <2>1. ReceiverTyped'
    <3>1. ReceiverTyped
      BY DEF ReceiverInv
    <3>2. QED
      BY <3>1, ReceiverSteps, ArriveIs, ReceiveIs, TakeBatchIs
  <2>2. QED
    BY <2>1, QueuesStep, BatchesStep, AskedStep, DropsStep, CountsStep DEF ReceiverInv
<1>2. QED
  BY ReceiverStart, <1>1, PTL

\* However the rx threads and the main loop take turns (rx_loop in rx.rs, main.rs): every datagram
\* is on its socket, in the channel, ingested or in one of the counts, every drop a datagram told
\* of is counted once, the turns of the counter that none told of apart, and every packet bears the
\* provider with the narrowest rule and keeps its place among those of its port.
THEOREM DatagramsAccounted ==
  ReceiverInit /\ [][ReceiverNext]_receiverVars => []PacketsAccounted
<1>1. ReceiverInv => PacketsAccounted
  BY DEF ReceiverInv, AskedInv, PacketsAccounted, LeavesWhenAsked
<1>2. QED
  BY ReceiverInvariant, <1>1, PTL

\* Type correctness of the receivers (rx.rs, main.rs): the channel stays within its bound, and so
\* does every batch in it.
THEOREM ReceiverTypes ==
  ReceiverInit /\ [][ReceiverNext]_receiverVars => []ReceiverTypeOK
<1>1. ReceiverInv => ReceiverTypeOK
  BY DEF ReceiverInv, ReceiverTyped, BatchesInv, ReceiverTypeOK
<1>2. QED
  BY ReceiverInvariant, <1>1, PTL
=============================================================================
