--------------------------- MODULE TerrainService ---------------------------
(***************************************************************************)
(* What TerrainTileSelection promises OctTile::BackgroundLoad as long as   *)
(* its tiles fit under its limit: once RequestTile answers true for a      *)
(* location it never answers false for it again, and terrain is made only  *)
(* for locations that were asked for and for those above them.             *)
(***************************************************************************)
CONSTANTS
    Locs,
    Above       \* the locations on the path from each location to the root

VARIABLES asked, available

ServiceInit == asked = {} /\ available = {}

Ask(l) ==
    /\ asked' = asked \cup {l}
    /\ UNCHANGED available

Supply(l) ==
    /\ \E k \in asked : l \in Above[k]
    /\ available' = available \cup {l}
    /\ UNCHANGED asked

ServiceNext == \E l \in Locs : Ask(l) \/ Supply(l)

ServiceSpec == ServiceInit /\ [][ServiceNext]_<<asked, available>>
=============================================================================
