----------------------------- MODULE MCRetention -----------------------------
EXTENDS Retention, TLC

CONSTANTS r1, r2, r3, a1, a2

MCRec == {r1, r2, r3}
MCKindOf == (r1 :> 0) @@ (r2 :> 1) @@ (r3 :> 5)
MCAuthorOf == (r1 :> a1) @@ (r2 :> a1) @@ (r3 :> a2)
MCRefsOf == (r1 :> {}) @@ (r2 :> {r1}) @@ (r3 :> {r1, r2})

Everything == [kinds |-> Absent, authors |-> Absent, ids |-> Absent, refs |-> Absent,
               since |-> Absent, limit |-> Absent]

\* One condition at a time, at and around its boundaries, and some together.
MCFilters ==
  {Everything}
  \cup {[Everything EXCEPT !.kinds = K] : K \in {{}, {0}, {1, 5}, {6}}}
  \cup {[Everything EXCEPT !.since = n] : n \in 0..6}
  \cup {[Everything EXCEPT !.refs = R] : R \in {{}, {r1}, {r2}}}
  \cup {[Everything EXCEPT !.authors = {a2}, !.refs = {r1}, !.since = 1],
        [Everything EXCEPT !.ids = {r1, r2}, !.kinds = {0}]}

\* Kind 1 is kept shorter than the default, kind 5 (MaxInt itself) longer.
MCKindDays == (1 :> 0) @@ (5 :> 2)

=============================================================================
