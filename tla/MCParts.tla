------------------------------- MODULE MCParts -------------------------------
EXTENDS Parts, TLC

CONSTANTS
  c1, c2, c3, e1, e2, alice,
  r1, r2, u1, u2, film, song, frame, art, banned, small, opus, init, part,
  p1, p2, g1, ones, twos

\* A film, of which there are one rendition and two segments, and a song.  Where the
\* film's frame is asked of the song, the program fails or gives something.
MCThumbOf == [c \in {film, song} |-> frame]
MCTargets == <<"480p">>
MCAudioTargets == <<"128k">>
MCRenditionOf == [c \in {film, song} |->
  [a \in {"480p", "128k"} |-> IF a = "480p" THEN small ELSE opus]]
MCSegmentsOf == [r \in {small} |-> <<init, part>>]

=============================================================================
