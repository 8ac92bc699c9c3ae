----------------------------- MODULE MCFederation -----------------------------
EXTENDS Federation

CONSTANTS north, south, r1, r2

MCRelays == {north, south}
MCRec == {r1, r2}

\* north is configured with south.  What it pushes comes back on the same
\* connection, so this link is a cycle already.
MCLinks == {<<north, south>>}

\* Both relays may be given either record.
MCHomes == [r \in Rec |-> Relays]

=============================================================================
