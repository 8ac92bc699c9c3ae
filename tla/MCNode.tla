-------------------------------- MODULE MCNode --------------------------------
EXTENDS Node, TLC

CONSTANTS t1, t2, video, mirror, clip, cover, small

\* One work with a thumbnail, and a second manifest that names the same media
\* and gets its chunk root wrong.
MCManifests == {video, mirror}
MCBlobs == {clip, cover}
MCMediaOf == [m \in Manifests |-> clip]
MCThumbOf == (video :> cover) @@ (mirror :> None)
MCRootOf == (video :> "right") @@ (mirror :> "wrong")

Interchangeable == Permutations(Tasks)

=============================================================================
