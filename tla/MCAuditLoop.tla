---------------------------- MODULE MCAuditLoop ----------------------------
(* A small instance of AuditLoop. *)
EXTENDS AuditLoop, TLC

\* FEC set "A" of slot 2 has two data shreds and a coding shred; "B" of slot 3 has one data
\* shred and moves the window past slot 2.
MCSlotOf == [f \in FecSets |-> IF f = "A" THEN 2 ELSE 3]
MCNumData == [f \in FecSets |-> IF f = "A" THEN 2 ELSE 1]
MCNumCoding == [f \in FecSets |-> 1]

\* A broken proof over the leader's block data, another block, and bytes that are no shred
\* the merkle root can be computed for.
MCDataHash == [c \in Copies |-> IF c \in {"genuine", "broken"} THEN "block"
                                ELSE IF c = "altered" THEN "other" ELSE None]

Shred(f, code, i, c) == [set |-> f, code |-> code, position |-> i, copy |-> c]

Genuine == {Shred("A", FALSE, 0, "genuine"), Shred("A", FALSE, 1, "genuine"),
            Shred("A", TRUE, 0, "genuine"), Shred("B", FALSE, 0, "genuine")}

MCPayloads == Genuine \cup {Shred("A", FALSE, 0, "broken"), Shred("A", TRUE, 0, "altered")}

\* The second provider is ahead on the first data shred, and its packets are out of order.
MCRxTime ==
    [p \in Providers |-> [d \in MCPayloads |->
        IF p = "p1" THEN d.position + (IF d.code THEN 3 ELSE 1)
        ELSE 2 - d.position + (IF d.code THEN 2 ELSE 0)]]
=============================================================================
