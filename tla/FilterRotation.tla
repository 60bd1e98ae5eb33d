--------------------------- MODULE FilterRotation ---------------------------
(***************************************************************************)
(* The rotation of a gRPC source through filter bundles (filters/mod.rs,   *)
(* the checks of config.rs, supervise_grpc_source in txncmp.rs): a bag of  *)
(* bundles in a shuffled order, one taken for each subscription, filled    *)
(* again when it is empty.  A subscription that fails takes its bundle     *)
(* with it all the same.                                                   *)
(*                                                                         *)
(* The shuffle and the duration come from a generator that is seeded with  *)
(* the source: any order and any duration of the range.                    *)
(***************************************************************************)
EXTENDS FilterBundles, SequencesExt

CONSTANTS
    Rotations,          \* configurations: bundles, mode of the source, min_secs, max_secs
    MIN_ROTATION_SECS,  \* 10
    MaxSubscriptions    \* bound

ASSUME FilterRotationAssumption ==
    /\ MIN_ROTATION_SECS \in Nat \ {0} /\ MaxSubscriptions \in Nat
    /\ \A r \in Rotations :
           /\ r.bundles \in Seq(Range(r.bundles)) /\ r.deshred \in BOOLEAN
           /\ r.min_secs \in Nat /\ r.max_secs \in Nat

VARIABLES
    rotation,           \* the configuration it runs with
    bag,                \* what is left of the cycle, taken from its end
    subscriptions       \* history: bundle and duration of each

rotationVars == <<rotation, bag, subscriptions>>

\* Config::validate, where a source rotates.
ValidRotation(r) ==
    /\ r.min_secs >= MIN_ROTATION_SECS /\ r.max_secs >= r.min_secs
    /\ ValidBundles(r.bundles, r.deshred)

Runs == ForMode(rotation.bundles, rotation.deshred)

Shuffled == {s \in [1..Len(Runs) -> 1..Len(Runs)] : IsInjective(s)}

\* Mutant of Refills: the last bundle of a cycle is not waited for.
RefillsEarly == Len(bag) <= 1

Refills == bag = <<>>

\* Rotation::next, for the subscription that begins.
Subscribe(order, secs) ==
    LET from == IF Refills THEN order ELSE bag IN
    /\ Len(subscriptions) < MaxSubscriptions
    /\ order \in (IF Refills THEN Shuffled ELSE {bag})
    /\ bag' = SubSeq(from, 1, Len(from) - 1)
    /\ subscriptions' = Append(subscriptions, [bundle |-> Runs[from[Len(from)]], secs |-> secs])
    /\ UNCHANGED rotation

\* The bound is reached.
RotationDone == Len(subscriptions) = MaxSubscriptions /\ UNCHANGED rotationVars

RotationInit ==
    /\ rotation \in {r \in Rotations : ValidRotation(r)}
    /\ bag = <<>> /\ subscriptions = <<>>

RotationNext ==
    \/ \E order \in Shuffled \cup {bag}, secs \in rotation.min_secs..rotation.max_secs :
           Subscribe(order, secs)
    \/ RotationDone

-----------------------------------------------------------------------------
(* Correctness. *)

RotationTypeOK ==
    /\ rotation \in Rotations /\ ValidRotation(rotation)
    /\ bag \in Seq(1..Len(Runs)) /\ Len(bag) < Len(Runs)
    /\ Len(subscriptions) <= MaxSubscriptions

\* How often a bundle has run.
TimesRun(name) == Cardinality({i \in DOMAIN subscriptions : subscriptions[i].bundle.name = name})

\* At every moment each bundle the source can subscribe with has run as often as each other, or
\* once more; the others never run, and the source is never without a bundle.
RotationFair ==
    /\ Runs # <<>>
    /\ \A i, j \in DOMAIN Runs : TimesRun(Runs[i].name) <= TimesRun(Runs[j].name) + 1
    /\ rotation.deshred =>
           \A i \in DOMAIN subscriptions : FitsDeshred(subscriptions[i].bundle)
    /\ \A i \in DOMAIN subscriptions :
           subscriptions[i].secs \in MIN_ROTATION_SECS..rotation.max_secs
=============================================================================
