---------------------------- MODULE MCGatewayIngest ----------------------------
EXTENDS GatewayIngest, TLC

CONSTANTS
  m, edit, forged, away,   \* a manifest, its author's edit and retraction, and a stranger's
  like, love, unlike,      \* two reactions of one author, the second taken back
  add, del,                \* batches 1 and 2 of a feed
  ours,                    \* a notice of this gateway
  ch,                      \* a channel's id
  alice, bob, org, gw,     \* identities
  f, p1, p2

MCRunSymmetry == Permutations(Run)

KindTable ==
  (m :> "manifest") @@ (edit :> "supersede") @@ (forged :> "retract")
    @@ (away :> "retract") @@ (like :> "reaction") @@ (love :> "reaction")
    @@ (unlike :> "retract") @@ (add :> "feed") @@ (del :> "feed")
    @@ (ours :> "notice")
AuthorTable ==
  (m :> alice) @@ (edit :> alice) @@ (forged :> bob) @@ (away :> alice)
    @@ (like :> bob) @@ (love :> bob) @@ (unlike :> bob)
    @@ (add :> org) @@ (del :> org) @@ (ours :> gw)
RefTable ==
  (m :> <<ch>>) @@ (edit :> <<m>>) @@ (forged :> <<m>>) @@ (away :> <<m>>)
    @@ (like :> <<m>>) @@ (love :> <<m>>) @@ (unlike :> <<love>>)
    @@ (add :> <<>>) @@ (del :> <<>>) @@ (ours :> <<ch>>)

MCKindOf == [r \in Rec |-> KindTable[r]]
MCAuthorOf == [r \in Rec |-> AuthorTable[r]]
MCRefsOf == [r \in Rec |-> RefTable[r]]
MCBatchOf ==
  (add :> [feed |-> f, seq |-> 1, add |-> {ch}, remove |-> {}])
    @@ (del :> [feed |-> f, seq |-> 2, add |-> {}, remove |-> {ch}])
MCTargetKind == (edit :> "manifest")

Open == [kinds |-> {}, identities |-> {}, hashes |-> {},
         feeds |-> {[feed |-> f, publisher |-> org]}]
Strict == [kinds |-> {}, identities |-> {bob}, hashes |-> {}, feeds |-> {}]
MCFiles == {Open, Strict}

=============================================================================
