------------------------------ MODULE MCParts ------------------------------
(***************************************************************************)
(* TLC instance of ten parts of the repository that share no state: of     *)
(* shreds-audit the receivers, the PostgreSQL and the archive sink, and of *)
(* its filter audit the rotation, the judgement of a server and the        *)
(* database writer; the shred verifier; of the post-pack tools the credits *)
(* and the settings of the admin mock and the streams of the providers.  A *)
(* behaviour is one of a single part, chosen at the start; the others stay *)
(* as they began.  So the state space is the sum of theirs, and fairness   *)
(* of a part is asked of its own behaviours only.                          *)
(***************************************************************************)
EXTENDS ShredVerifier, PgSink, ZipSink, PreconfCredits, PostpackSettings, MCPacketReceiver,
        FilterRotation, FilterTags, FilterDb, PostpackStreams

CONSTANTS
    a, b, r1, r2, k1, k2, bam, rakurai, vote_program, t1, t2, t3

VARIABLE part

-----------------------------------------------------------------------------
(* The verifier: two slots to an epoch, one epoch kept; a leads slots 0 and 3. *)

MCLeaderOf == [s \in 0..3 |-> IF s \in {0, 3} THEN a ELSE b]

MCShreds ==
    {[slot |-> 1, root |-> r1, signer |-> b], [slot |-> 1, root |-> r1, signer |-> a],
     [slot |-> 1, root |-> NoRoot, signer |-> b],
     [slot |-> 3, root |-> r1, signer |-> b], [slot |-> 3, root |-> r2, signer |-> a]}

(* The credits: signatures a and b with tips of one and two, registered together, with one known
   already and twice in one request; an admin that takes two credits, one that adds what a
   payment buys, and one that may not. *)

MCTipOf == [s \in {a, b} |-> IF s = a THEN 1 ELSE 2]

MCBatches == {<<b, a>>, <<b, b>>}

MCChanges ==
    {[reason |-> "admin_change", delta |-> -2, payment |-> Absent],
     [reason |-> "manual_payment", delta |-> Absent, payment |-> [amount |-> 1, cents |-> 2]],
     [reason |-> "usage", delta |-> 1, payment |-> Absent]}

(* The settings: a price for each message, one for a slot, one that is refused, and the interval. *)

MCUpdates ==
    {[enabled |-> TRUE, interval |-> Unset, prices |-> (<<bam, "message">> :> 7)],
     [enabled |-> Unset, interval |-> 9, prices |-> (<<bam, "slot">> :> 8)],
     [enabled |-> FALSE, interval |-> Unset, prices |-> (<<rakurai, "message">> :> 0)]}

(* The filters: every clause; a bundle of one filter, one of two, and one of two that a deshred
   source cannot use. *)

LOCAL Clauses == [vote |-> Unstated, failed |-> Unstated, include |-> {}, exclude |-> {}, required |-> {}]

LOCAL Bundle(name, filters) == [name |-> name, filters |-> filters]

All == Bundle("all", <<Clauses>>)
Votes == Bundle("votes", <<[Clauses EXCEPT !.vote = TRUE],
                           [Clauses EXCEPT !.vote = FALSE, !.exclude = {k1}]>>)
Failed == Bundle("failed", <<[Clauses EXCEPT !.failed = TRUE, !.required = {k1, k2}],
                             [Clauses EXCEPT !.vote = FALSE, !.failed = FALSE, !.include = {k1, k2}]>>)

MCBundles == {All, Votes, Failed}

(* Rotations through three bundles, two of them fit for a deshred source; and configurations that
   are refused: without a bundle for the mode, too short, and with the bounds exchanged. *)

LOCAL Rotating(bundles, deshred, min, max) ==
    [bundles |-> bundles, deshred |-> deshred, min_secs |-> min, max_secs |-> max]

MCRotations ==
    {Rotating(<<All, Votes, Failed>>, FALSE, 2, 3), Rotating(<<All, Votes, Failed>>, TRUE, 2, 2),
     Rotating(<<Failed>>, TRUE, 2, 2), Rotating(<<All>>, FALSE, 1, 2), Rotating(<<All>>, FALSE, 3, 2)}

(* A vote, a failed transaction with a loaded key, and one that fits neither. *)

MCTransactions ==
    {[sig |-> t1, signatures |-> 1, legacy |-> TRUE, programs |-> <<vote_program>>,
      failed |-> FALSE, static |-> {}, loaded |-> {}],
     [sig |-> t2, signatures |-> 1, legacy |-> FALSE, programs |-> <<k2>>,
      failed |-> TRUE, static |-> {k2}, loaded |-> {k1}],
     [sig |-> t3, signatures |-> 1, legacy |-> TRUE, programs |-> <<k2>>,
      failed |-> FALSE, static |-> {k2}, loaded |-> {}]}

-----------------------------------------------------------------------------

shredVars == <<verifierVars, receiverVars, pgVars, zipVars>>
filterVars == <<rotationVars, tagsVars, dbPartVars>>
postpackVars == <<creditsVars, settingsVars, streamsVars>>

partsVars == <<part, shredVars, filterVars, postpackVars>>

\* finish has returned: the threads of the filter audit have ended.
DbEnded == db_finisher = "returned" /\ UNCHANGED dbPartVars

ShredParts ==
    \/ part = "verifier" /\ VerifierNext /\ UNCHANGED <<receiverVars, pgVars, zipVars>>
    \/ part = "receiver" /\ ReceiverNext /\ UNCHANGED <<verifierVars, pgVars, zipVars>>
    \/ part = "pg" /\ PgNext /\ UNCHANGED <<verifierVars, receiverVars, zipVars>>
    \/ part = "zip" /\ ZipNext /\ UNCHANGED <<verifierVars, receiverVars, pgVars>>

FilterParts ==
    \/ part = "rotation" /\ RotationNext /\ UNCHANGED <<tagsVars, dbPartVars>>
    \/ part = "tags" /\ TagsNext /\ UNCHANGED <<rotationVars, dbPartVars>>
    \/ part = "db" /\ (DbNext \/ DbEnded) /\ UNCHANGED <<rotationVars, tagsVars>>

PostpackParts ==
    \/ part = "credits" /\ CreditsNext /\ UNCHANGED <<settingsVars, streamsVars>>
    \/ part = "settings" /\ SettingsNext /\ UNCHANGED <<creditsVars, streamsVars>>
    \/ part = "streams" /\ StreamsNext /\ UNCHANGED <<creditsVars, settingsVars>>

\* One initial state of each part that does not run.
Init ==
    /\ part \in {"verifier", "receiver", "pg", "zip", "rotation", "tags", "db",
                 "credits", "settings", "streams"}
    /\ VerifierInit /\ PgInit /\ ZipInit /\ CreditsInit /\ SettingsInit
    /\ ReceiverInit /\ (part # "receiver" => config = CHOOSE c \in MCConfigs : Validates(c))
    /\ RotationInit /\ (part # "rotation" => rotation.deshred)
    /\ TagsInit /\ (part # "tags" => /\ ~source_mode.deshred /\ ~skip_votes /\ block = NoBlock
                                     /\ audit_window.bundle = All)
    /\ DbInit /\ (part # "db" => db_up)
    /\ StreamsInit /\ (part # "streams" => mock = "bam" /\ ~repeat)

Next ==
    /\ UNCHANGED part
    /\ \/ ShredParts /\ UNCHANGED <<filterVars, postpackVars>>
       \/ FilterParts /\ UNCHANGED <<shredVars, postpackVars>>
       \/ PostpackParts /\ UNCHANGED <<shredVars, filterVars>>

\* The fairness of each part.  ReceiversClose needs none of the rx threads; the
\* steps of the database writer's shutdown are never enabled together.
Fairness ==
    /\ WF_pgVars(part = "pg" /\ PgWriter)
    /\ WF_pgVars(part = "pg" /\ PgClose)
    /\ WF_creditsVars(part = "credits" /\ PaymentTask)
    /\ WF_receiverVars(part = "receiver" /\ ReceiverMain)
    /\ WF_dbPartVars(part = "db" /\ (CheckerExit \/ DropHandle \/ DbJoin))
    /\ WF_dbPartVars(part = "db" /\ DbWriter)
    /\ WF_dbPartVars(part = "db" /\ Cooled)

Spec == Init /\ [][Next]_partsVars /\ Fairness

-----------------------------------------------------------------------------

\* The types of the ten parts.
PartsTypeOK ==
    /\ VerifierTypeOK /\ PgTypeOK /\ ZipTypeOK /\ CreditsTypeOK /\ SettingsTypeOK
    /\ ReceiverTypeOK /\ RotationTypeOK /\ TagsTypeOK /\ StreamsTypeOK /\ DbTypeOK

\* The PostgreSQL sink closes, and the main loop ends once its receivers have.
ShutdownsEnd == PgCloses /\ ReceiversClose
=============================================================================
