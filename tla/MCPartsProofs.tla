---------------------------- MODULE MCPartsProofs ----------------------------
(***************************************************************************)
(* A behaviour of the composition MCParts is one of each of its parts: of  *)
(* the part that was chosen at the start, and of every other one that      *)
(* never takes a step.  So what is proved of the parts, for every value of *)
(* their constants, holds of the specification that TLC checks.            *)
(***************************************************************************)
EXTENDS MCParts, PartProofs, InputProofs

\* The state in which each part begins is one it can begin in by itself.
LEMMA PartsBegin ==
  Init => /\ VerifierInit /\ ReceiverInit /\ PgInit /\ ZipInit
          /\ RotationInit /\ TagsInit /\ DbInit
          /\ CreditsInit /\ SettingsInit /\ StreamsInit
BY DEF Init

\* A step of the composition is one of each part of shreds-audit, or leaves the part alone.
LEMMA ShredPartsStep ==
  [Next]_partsVars => /\ [VerifierNext]_verifierVars /\ [ReceiverNext]_receiverVars
                      /\ [PgNext]_pgVars /\ [ZipNext]_zipVars
<1> SUFFICES ASSUME [Next]_partsVars
             PROVE  /\ [VerifierNext]_verifierVars /\ [ReceiverNext]_receiverVars
                    /\ [PgNext]_pgVars /\ [ZipNext]_zipVars
  OBVIOUS
<1>1. CASE ShredParts
  BY <1>1 DEF ShredParts
<1>2. CASE UNCHANGED shredVars
  BY <1>2 DEF shredVars
<1>3. QED
  BY <1>1, <1>2 DEF Next, partsVars

\* The same of the parts of its filter audit.
LEMMA FilterPartsStep ==
  [Next]_partsVars => [RotationNext]_rotationVars /\ [TagsNext]_tagsVars /\ [DbNext]_dbPartVars
<1> SUFFICES ASSUME [Next]_partsVars
             PROVE  [RotationNext]_rotationVars /\ [TagsNext]_tagsVars /\ [DbNext]_dbPartVars
  OBVIOUS
<1>1. CASE FilterParts
  BY <1>1 DEF FilterParts, DbEnded
<1>2. CASE UNCHANGED filterVars
  BY <1>2 DEF filterVars
<1>3. QED
  BY <1>1, <1>2 DEF Next, partsVars

\* The same of the post-pack tools.
LEMMA PostpackPartsStep ==
  [Next]_partsVars => /\ [CreditsNext]_creditsVars /\ [SettingsNext]_settingsVars
                      /\ [StreamsNext]_streamsVars
<1> SUFFICES ASSUME [Next]_partsVars
             PROVE  /\ [CreditsNext]_creditsVars /\ [SettingsNext]_settingsVars
                    /\ [StreamsNext]_streamsVars
  OBVIOUS
<1>1. CASE PostpackParts
  BY <1>1 DEF PostpackParts
<1>2. CASE UNCHANGED postpackVars
  BY <1>2 DEF postpackVars
<1>3. QED
  BY <1>1, <1>2 DEF Next, partsVars

-----------------------------------------------------------------------------

\* Type correctness of the ten parts together, whichever of them runs.
THEOREM PartsTypes == Spec => []PartsTypeOK
<1>1. Spec => [](VerifierTypeOK /\ ReceiverTypeOK /\ PgTypeOK /\ ZipTypeOK)
  BY PartsBegin, ShredPartsStep, VerifierTypes, ReceiverTypes, PgTypes, ZipTypes, PTL
     DEF Spec, VerifierSpec
<1>2. Spec => [](RotationTypeOK /\ TagsTypeOK /\ DbTypeOK)
  BY PartsBegin, FilterPartsStep, RotationTypes, TagsTypes, DbTypes, PTL DEF Spec
<1>3. Spec => [](CreditsTypeOK /\ SettingsTypeOK /\ StreamsTypeOK)
  BY PartsBegin, PostpackPartsStep, CreditsTypes, SettingsTypes, StreamsTypes, PTL DEF Spec
<1>4. /\ VerifierTypeOK /\ ReceiverTypeOK /\ PgTypeOK /\ ZipTypeOK
      /\ RotationTypeOK /\ TagsTypeOK /\ DbTypeOK
      /\ CreditsTypeOK /\ SettingsTypeOK /\ StreamsTypeOK
      => PartsTypeOK
  BY DEF PartsTypeOK
<1>5. QED
  BY <1>1, <1>2, <1>3, <1>4, PTL

\* What each part promises, in the composition: the verdicts of the verifier, the accounts of the
\* receivers, of the sinks and of the database writer, the rotation and the judgement of the
\* filter audit, and the credits, the settings and the streams of the mocks.
THEOREM PartsSafe ==
  Spec => []( /\ VerdictSound /\ PacketsAccounted /\ IntervalsAddUp /\ ArchivesKeepRows
              /\ RotationFair /\ ServerJudgedFairly /\ RowsAccounted
              /\ BalanceIsLedger /\ PaymentsCreditedOnce /\ ViewsAgree
              /\ LatestRequestsHold /\ StreamsContiguous )
<1>1. Spec => [](VerdictSound /\ PacketsAccounted /\ IntervalsAddUp /\ ArchivesKeepRows)
  BY PartsBegin, ShredPartsStep, VerdictsSound, DatagramsAccounted, NothingCountedTwice,
     RowsKeptOnce, PTL DEF Spec, VerifierSpec
<1>2. Spec => [](RotationFair /\ ServerJudgedFairly /\ RowsAccounted)
  BY PartsBegin, FilterPartsStep, RotationIsFair, JudgedFairly, RowsSurvive, PTL DEF Spec
<1>3. Spec => [](BalanceIsLedger /\ PaymentsCreditedOnce /\ ViewsAgree)
  BY PartsBegin, PostpackPartsStep, BalancesAddUp, CreditedOnce, ViewsAlwaysAgree, PTL DEF Spec
<1>4. Spec => [](LatestRequestsHold /\ StreamsContiguous)
  BY PartsBegin, PostpackPartsStep, LatestHold, StreamsWithoutGaps, PTL DEF Spec
<1>5. QED
  BY <1>1, <1>2, <1>3, <1>4, PTL
=============================================================================
