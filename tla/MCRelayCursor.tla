---------------------------- MODULE MCRelayCursor ----------------------------
EXTENDS RelayCursor

CONSTANTS r1, r2, alice

MCRec == {r1, r2}
MCRefused == {r2}
MCKindOf == [r \in Rec |-> 1]
MCAuthorOf == [r \in Rec |-> alice]
MCRefsOf == [r \in Rec |-> {}]
NoKindDays == [k \in {} |-> 0]

=============================================================================
