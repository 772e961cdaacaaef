------------------------------ MODULE RawCache ------------------------------
(***************************************************************************)
(* The decoded voxels that a ray cast leaves in a tile (OctTile::m_rawdata *)
(* in core/OctTile.cpp, OctTileSelection::Intersects): made on the main    *)
(* thread from m_rledata, without a lock and whatever the ready state, and *)
(* freed by Draw once they have not been used for a while.                 *)
(*                                                                         *)
(* The main thread's frame is Update, AddTilesToGroup, Intersects and two  *)
(* drawing passes over the group; a paused frame leaves out the first two. *)
(* The loader thread fills m_rledata in between.  A read of it while it is *)
(* written is a data race: it finds no bytes, or some that are "torn".     *)
(***************************************************************************)
EXTENDS Integers

CONSTANTS
    Tiles,      \* tiles, numbered by the distance of their centres from the origin
    Limit       \* 60: draws after which unused voxels are freed

ASSUME TilesAssumption == Tiles \subseteq Nat \ {0}
ASSUME LimitAssumption == Limit \in Nat \ {0}

None == 0

VARIABLES
    rle,        \* m_rledata: "empty", "torn" (being written) or "full"
    loaded,     \* m_readyState >= 3
    solid,      \* m_voxelinst is set: there is something to draw
    raw,        \* m_rawdata: "none", decoded from "torn" or from "full" data
    lastUsed,   \* m_lastUsedRawData
    boxes,      \* g_showOctBoxes
    paused,     \* isPaused
    group,      \* the tiles that m_worldGroup holds
    pass,       \* the main thread is between two frames (0), before AddTilesToGroup
                \*   (1), before Intersects (2) or before a drawing pass (3, 4)
    cast        \* the tiles that the last ray cast has looked into

tiles == <<rle, loaded, solid, raw, lastUsed>>
switches == <<boxes, paused>>
vars == <<tiles, switches, group, pass, cast>>

TypeOK ==
    /\ rle \in [Tiles -> {"empty", "torn", "full"}]
    /\ loaded \in [Tiles -> BOOLEAN] /\ solid \in [Tiles -> BOOLEAN]
    /\ raw \in [Tiles -> {"none", "torn", "full"}]
    /\ lastUsed \in [Tiles -> 0..(Limit + 2)]
    /\ boxes \in BOOLEAN /\ paused \in BOOLEAN /\ pass \in 0..4
    /\ group \in SUBSET Tiles /\ cast \in SUBSET Tiles

Init ==
    /\ rle = [t \in Tiles |-> "empty"]
    /\ loaded = [t \in Tiles |-> FALSE] /\ solid = [t \in Tiles |-> FALSE]
    /\ raw = [t \in Tiles |-> "none"] /\ lastUsed = [t \in Tiles |-> 0]
    /\ boxes = FALSE /\ paused = FALSE /\ group = {} /\ pass = 0 /\ cast = {}

-----------------------------------------------------------------------------
(* The loader thread: BackgroundLoad, from the database or the terrain.    *)

StartRle(t) ==
    /\ rle[t] = "empty" /\ \A u \in Tiles : rle[u] # "torn"
    /\ rle' = [rle EXCEPT ![t] = "torn"]
    /\ UNCHANGED <<loaded, solid, raw, lastUsed, switches, group, pass, cast>>

EndRle(t) ==
    /\ rle[t] = "torn"
    /\ rle' = [rle EXCEPT ![t] = "full"]
    /\ UNCHANGED <<loaded, solid, raw, lastUsed, switches, group, pass, cast>>

\* LoadVB, and the ready state.
LoadVB(t) ==
    /\ rle[t] = "full" /\ ~loaded[t]
    /\ loaded' = [loaded EXCEPT ![t] = TRUE]
    /\ \E s \in BOOLEAN : solid' = [solid EXCEPT ![t] = s]
    /\ UNCHANGED <<rle, raw, lastUsed, switches, group, pass, cast>>

-----------------------------------------------------------------------------
(* The main thread.                                                        *)

\* The keys B and P.
ShowBoxes ==
    /\ pass = 0 /\ boxes' = ~boxes
    /\ UNCHANGED <<tiles, paused, group, pass, cast>>

TogglePause ==
    /\ pass = 0 /\ paused' = ~paused
    /\ UNCHANGED <<tiles, boxes, group, pass, cast>>

\* m_worldGroup->Clear(), and Update: it decommissions the tiles `gone`; the next
\* one at such a location is a new one.
Update(gone) ==
    /\ pass = 0 /\ ~paused /\ pass' = 1
    /\ rle' = [t \in Tiles |-> IF t \in gone THEN "empty" ELSE rle[t]]
    /\ loaded' = [t \in Tiles |-> loaded[t] /\ t \notin gone]
    /\ solid' = [t \in Tiles |-> solid[t] /\ t \notin gone]
    /\ raw' = [t \in Tiles |-> IF t \in gone THEN "none" ELSE raw[t]]
    /\ lastUsed' = [t \in Tiles |-> IF t \in gone THEN 0 ELSE lastUsed[t]]
    /\ cast' = cast \ gone /\ group' = {}
    /\ UNCHANGED switches

\* The tiles that are not empty go into the group; one that is being written may
\* seem empty.
AddTilesToGroup ==
    /\ pass = 1 /\ pass' = 2
    /\ \E skip \in SUBSET {t \in Tiles : rle[t] = "torn"} :
          group' = {t \in Tiles : rle[t] # "empty"} \ skip
    /\ UNCHANGED <<tiles, switches, cast>>

\* A paused frame keeps the tiles and the group of the last one that was not.
PausedFrame ==
    /\ pass = 0 /\ paused /\ pass' = 2
    /\ UNCHANGED <<tiles, switches, group, cast>>

\* OctTile::Intersect: a copy that is there is used as it is.
Decoded(t) == IF raw[t] = "none" THEN rle[t] ELSE raw[t]

\* Mutant of UsedNow: the counter is reset only when the copy is made.
UsedNowFilled(t) == IF raw[t] = "none" THEN 0 ELSE lastUsed[t]

UsedNow(t) == 0

\* OctTileSelection::Intersects looks into the tiles on the ray, by the distance
\* of their centres from the origin, until one is hit.
Intersects(onRay, hit) ==
    LET reached == {t \in onRay : rle[t] # "empty" /\ (hit = None \/ t <= hit)}
    IN  /\ pass = 2
        /\ hit # None => hit \in reached
        /\ raw' = [t \in Tiles |-> IF t \in reached THEN Decoded(t) ELSE raw[t]]
        /\ lastUsed' = [t \in Tiles |-> IF t \in reached THEN UsedNow(t) ELSE lastUsed[t]]
        /\ cast' = reached /\ pass' = 3
        /\ UNCHANGED <<rle, loaded, solid, switches, group>>

\* Mutant of Counts: the draws are counted only past the limit.
CountsOld(t) == ~boxes /\ loaded[t] /\ solid[t] /\ raw[t] # "none" /\ lastUsed[t] > Limit

Counts(t) == ~boxes /\ loaded[t] /\ solid[t] /\ raw[t] # "none"

\* A drawing pass: OctTile::Draw of the tiles `now` of the group, as far as it
\* concerns the copy.  The far pass leaves out what is near, and the near pass what
\* is far.
DrawPass(now) ==
    /\ pass \in {3, 4} /\ pass' = (pass + 1) % 5
    /\ now \subseteq group
    /\ lastUsed' = [t \in Tiles |-> IF t \in now /\ Counts(t) THEN lastUsed[t] + 1 ELSE lastUsed[t]]
    /\ raw' = [t \in Tiles |-> IF t \in now /\ Counts(t) /\ lastUsed[t] > Limit THEN "none" ELSE raw[t]]
    /\ UNCHANGED <<rle, loaded, solid, switches, group, cast>>

Main ==
    \/ \E gone \in SUBSET Tiles : Update(gone)
    \/ AddTilesToGroup \/ PausedFrame
    \/ \E onRay \in SUBSET Tiles, hit \in Tiles \cup {None} : Intersects(onRay, hit)
    \/ \E now \in SUBSET Tiles : DrawPass(now)

Next ==
    \/ \E t \in Tiles : StartRle(t) \/ EndRle(t) \/ LoadVB(t)
    \/ ShowBoxes \/ TogglePause \/ Main

\* The timer of the window makes the main thread go on, and no tile of the group
\* is left out of both passes: it is not both nearer and farther than the split.
Spec ==
    /\ Init /\ [][Next]_vars /\ WF_vars(Main)
    /\ \A t \in Tiles : SF_vars(\E now \in SUBSET Tiles : t \in now /\ DrawPass(now))

-----------------------------------------------------------------------------
(* Properties.                                                             *)

\* Voxels that the ray cast of this frame has decoded are not freed in it, so that
\* a tile that the camera points at is decoded once, not every Limit draws.
DecodedOnce == \A t \in cast : raw[t] # "none"

\* A copy made in the middle of a load does not stay for good: once the ray has
\* left a tile, the tile's copy is freed, provided that the tile has voxels to draw,
\* the boxes are off, the tile is kept and the program is not paused.  A pause keeps
\* it: what was loaded in the pause is not in the group, and not drawn.  As long as
\* the ray stays on the tile, the copy is used as it is.
TornIsDropped ==
    \A t \in Tiles :
       <>[](t \notin cast /\ loaded[t] /\ solid[t] /\ ~boxes /\ ~paused) => <>[](raw[t] = "none")
=============================================================================
