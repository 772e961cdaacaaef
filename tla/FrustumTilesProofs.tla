------------------------- MODULE FrustumTilesProofs -------------------------
(***************************************************************************)
(* FrustumTiles selects disjoint tiles that cover the view, in an octree   *)
(* of any depth and breadth and for all answers of the floating-point      *)
(* tests.                                                                  *)
(*                                                                         *)
(* The walk's invariant says what the state of a call implies for the      *)
(* calls below it: the open calls are the path to `cur`; nothing happened  *)
(* below a location that was not visited; a call that returned false has   *)
(* selected nothing below its location, and one that returned true has     *)
(* covered everything.                                                     *)
(***************************************************************************)
EXTENDS FrustumTiles, TLAPS

OpenIsPath ==
    \A l \in Locs : call[l] = "open" <=> cur # None /\ (l = cur \/ l \in Above[cur])

OpenIsCoarse == \A l \in Locs : call[l] = "open" => Level[l] < maxlod

UnseenBelow ==
    \A l \in Locs : call[l] \in {"no", "skip"} =>
      \A d \in Locs : l \in Above[d] => call[d] = "no"

SelectedReturned ==
    \A l \in locs : call[l] = "true" \/ (call[l] = "false" /\ l # Root /\ call[Parent[l]] = "true")

AboveSelected ==
    \A l \in locs : \A a \in Above[l] : call[a] \in {"open", "true"} /\ a \notin locs

FilledBelow ==
    \A l \in Locs : call[l] = "false" =>
      \A a \in Above[l] : call[a] = "true" => Covered(l)

TrueHasTile ==
    \A l \in Locs : call[l] = "true" =>
      l \in locs \/ \E c \in Children(l) : call[c] = "true"

WalkInv ==
    /\ TypeOK /\ OpenIsPath /\ OpenIsCoarse /\ UnseenBelow
    /\ SelectedReturned /\ AboveSelected /\ FilledBelow /\ TrueHasTile

AroundNotMissed == \A l \in Locs : Around(l) => call[l] \notin {"skip", "false"}

AroundSelected ==
    \A l \in Locs : Around(l) /\ call[l] = "true" =>
      \E s \in locs : Around(s) /\ Level[s] = maxlod

CameraInv == AroundNotMissed /\ AroundSelected

Walk == WalkInv /\ CameraInv

-----------------------------------------------------------------------------
\* The facts about the tree in the form the steps use them.
LEMMA Tree ==
    /\ Root \in Locs /\ None \notin Locs
    /\ \A l \in Locs : Above[l] \subseteq Locs /\ l \notin Above[l] /\ Level[l] \in Nat
    /\ \A l \in Locs : Parent[l] \in Locs \cup {None} /\ (Parent[l] = None <=> l = Root)
    /\ \A l \in Locs : Parent[l] \in Locs =>
         Above[l] = Above[Parent[l]] \cup {Parent[l]} /\ Level[l] = Level[Parent[l]] + 1
    /\ Above[Root] = {} /\ Level[Root] = 0
    /\ \A l \in Locs : l = Root \/ Root \in Above[l]
    /\ \A l \in Locs : \A a \in Above[l] : Above[a] \subseteq Above[l]
    /\ \A l \in Locs : \A a \in Above[l] : \E c \in Above[l] \cup {l} : Parent[c] = a
  BY TreeAssumption, AboveAssumption DEF None

\* Of the calls below the innermost open one, none is open.
LEMMA NoneOpenBelow ==
    ASSUME WalkInv, NEW c \in Locs, cur # None, Parent[c] = cur
    PROVE  call[c] # "open" /\ cur \in Above[c] /\ c # cur /\ c \notin Above[cur]
  BY Tree DEF WalkInv, OpenIsPath, TypeOK

\* The calls that are open when c is to be visited are those above c.
LEMMA PathToUpcoming ==
    ASSUME WalkInv, NEW c \in Locs, Upcoming(c)
    PROVE  /\ call[c] = "no"
           /\ \A a \in Locs : call[a] = "open" <=> a \in Above[c]
           /\ \A d \in Locs : c \in Above[d] => call[d] = "no"
           /\ Level[c] <= maxlod
           /\ c \notin locs /\ \A l \in locs : c \notin Above[l]
  <1>1. call[c] = "no" /\ Parent[c] = cur
    BY DEF Upcoming
  <1>2. \A a \in Locs : call[a] = "open" <=> a \in Above[c]
    BY <1>1, Tree DEF WalkInv, OpenIsPath, TypeOK
  <1>3. \A d \in Locs : c \in Above[d] => call[d] = "no"
    BY <1>1 DEF WalkInv, UnseenBelow
  <1>4. Level[c] <= maxlod
    <2>1. CASE cur = None
      <3>1. c = Root
        BY <1>1, <2>1, Tree
      <3>2. maxlod \in Nat
        BY Tree DEF WalkInv, TypeOK, MaxLods
      <3> QED  BY <3>1, <3>2, Tree
    <2>2. CASE cur # None
      <3>1. cur \in Locs /\ call[cur] = "open" /\ Level[c] = Level[cur] + 1
        BY <1>1, <2>2, Tree DEF WalkInv, OpenIsPath, TypeOK
      <3>2. Level[cur] < maxlod
        BY <3>1 DEF WalkInv, OpenIsCoarse
      <3>3. maxlod \in Nat /\ Level[cur] \in Nat
        BY <3>1, Tree DEF WalkInv, TypeOK, MaxLods
      <3> QED  BY <3>1, <3>2, <3>3
    <2> QED  BY <2>1, <2>2
  <1>5. c \notin locs /\ \A l \in locs : c \notin Above[l]
    BY <1>1 DEF WalkInv, SelectedReturned, AboveSelected
  <1> QED  BY <1>1, <1>2, <1>3, <1>4, <1>5

-----------------------------------------------------------------------------
\* Skip marks a location that is out of view; nothing else changes.
LEMMA SkipWalk ==
    ASSUME WalkInv, NEW c \in Locs, Skip(c)
    PROVE  WalkInv'
  <1> USE DEF Skip, Outside
  <1>1. call' = [call EXCEPT ![c] = "skip"] /\ Upcoming(c) /\ c # Root
        /\ UNCHANGED <<cur, behind, locs, maxlod, camera>>
    OBVIOUS
  <1> DEFINE new == call'
  <1>2. /\ new[c] = "skip" /\ \A l \in Locs : l # c => new[l] = call[l]
        /\ TypeOK'
    BY <1>1 DEF WalkInv, TypeOK
  <1>3. /\ call[c] = "no"
        /\ \A a \in Locs : call[a] = "open" <=> a \in Above[c]
        /\ \A d \in Locs : c \in Above[d] => call[d] = "no"
        /\ c \notin locs /\ \A l \in locs : c \notin Above[l]
    BY <1>1, PathToUpcoming
  <1>4. locs \subseteq Locs /\ cur \in Locs \cup {None}
    BY DEF WalkInv, TypeOK
  <1> HIDE DEF new, Skip, Outside
  <1>5. OpenIsPath'
    BY <1>1, <1>2, <1>3, Tree DEF WalkInv, OpenIsPath, new
  <1>6. OpenIsCoarse'
    BY <1>1, <1>2 DEF WalkInv, OpenIsCoarse, new
  <1>7. UnseenBelow'
    BY <1>1, <1>2, <1>3, Tree DEF WalkInv, UnseenBelow, new
  <1>8. SelectedReturned'
    BY <1>1, <1>2, <1>3, <1>4, Tree DEF WalkInv, SelectedReturned, new
  <1>9. AboveSelected'
    BY <1>1, <1>2, <1>3, <1>4, Tree DEF WalkInv, AboveSelected, new
  <1>10. FilledBelow'
    BY <1>1, <1>2, <1>3, Tree DEF WalkInv, FilledBelow, Covered, new
  <1>11. TrueHasTile'
    BY <1>1, <1>2, <1>3, Tree DEF WalkInv, TrueHasTile, Children, new
  <1> QED  BY <1>2, <1>5, <1>6, <1>7, <1>8, <1>9, <1>10, <1>11 DEF WalkInv

\* A call that returns at once.
LEMMA CallLeafWalk ==
    ASSUME WalkInv, NEW c \in Locs, NEW target \in Targets(c), CallLeaf(c, target)
    PROVE  WalkInv'
  <1>1. PICK answer \in {"true", "false"} :
          /\ call' = [call EXCEPT ![c] = answer] /\ Upcoming(c)
          /\ locs' = (IF answer = "true" THEN locs \cup {c} ELSE locs)
          /\ UNCHANGED <<cur, behind, maxlod, camera>>
    BY DEF CallLeaf
  <1> DEFINE new == call'
  <1>2. /\ new[c] = answer /\ \A l \in Locs : l # c => new[l] = call[l]
        /\ TypeOK'
    BY <1>1 DEF WalkInv, TypeOK
  <1>3. /\ call[c] = "no"
        /\ \A a \in Locs : call[a] = "open" <=> a \in Above[c]
        /\ \A d \in Locs : c \in Above[d] => call[d] = "no"
        /\ c \notin locs /\ \A l \in locs : c \notin Above[l]
    BY <1>1, PathToUpcoming
  <1>4. locs \subseteq Locs /\ cur \in Locs \cup {None}
    BY DEF WalkInv, TypeOK
  <1>5. \A a \in Above[c] : a \notin locs /\ a # c /\ a \in Locs /\ new[a] = "open"
    BY <1>2, <1>3, Tree DEF WalkInv, SelectedReturned
  <1>a. \A l \in locs : new[l] = call[l] /\ l # c
    BY <1>2, <1>3, <1>4
  <1> HIDE DEF new
  <1>6. OpenIsPath'
    BY <1>1, <1>2, <1>3, Tree DEF WalkInv, OpenIsPath, new
  <1>7. OpenIsCoarse'
    BY <1>1, <1>2 DEF WalkInv, OpenIsCoarse, new
  <1>8. UnseenBelow'
    BY <1>1, <1>2, <1>3, Tree DEF WalkInv, UnseenBelow, new
  <1>9. SelectedReturned'
    <2>1. ASSUME NEW l \in locs
          PROVE  new[l] = "true" \/ (new[l] = "false" /\ l # Root /\ new[Parent[l]] = "true")
      <3>1. CASE call[l] = "true"
        BY <1>a, <3>1
      <3>2. CASE call[l] = "false" /\ l # Root /\ call[Parent[l]] = "true"
        BY <1>a, <1>2, <1>3, <1>4, <3>2, Tree
      <3> QED  BY <3>1, <3>2 DEF WalkInv, SelectedReturned
    <2> QED  BY <1>1, <1>2, <2>1 DEF SelectedReturned, new
  <1>10. AboveSelected'
    <2>1. ASSUME NEW l \in locs, NEW a \in Above[l]
          PROVE  new[a] \in {"open", "true"} /\ a \notin locs /\ a # c
      BY <1>2, <1>3, <1>4, Tree DEF WalkInv, AboveSelected
    <2> QED  BY <1>1, <1>5, <2>1 DEF AboveSelected, new
  <1>11. FilledBelow'
    BY <1>1, <1>2, <1>3, <1>5, Tree DEF WalkInv, FilledBelow, Covered, new
  <1>12. TrueHasTile'
    BY <1>1, <1>2, <1>3, Tree DEF WalkInv, TrueHasTile, Children, new
  <1> QED  BY <1>2, <1>6, <1>7, <1>8, <1>9, <1>10, <1>11, <1>12 DEF WalkInv

\* A call that goes on to the children.
LEMMA DescendWalk ==
    ASSUME WalkInv, NEW c \in Locs, NEW target \in Targets(c), Descend(c, target)
    PROVE  WalkInv'
  <1>1. /\ call' = [call EXCEPT ![c] = "open"] /\ Upcoming(c) /\ cur' = c
        /\ Level[c] < maxlod
        /\ UNCHANGED <<locs, maxlod, camera>>
    BY DEF Descend
  <1> DEFINE new == call'
  <1>2. /\ new[c] = "open" /\ \A l \in Locs : l # c => new[l] = call[l]
        /\ TypeOK'
    BY <1>1 DEF WalkInv, TypeOK, Descend
  <1>3. /\ call[c] = "no"
        /\ \A a \in Locs : call[a] = "open" <=> a \in Above[c]
        /\ \A d \in Locs : c \in Above[d] => call[d] = "no"
        /\ c \notin locs /\ \A l \in locs : c \notin Above[l]
    BY <1>1, PathToUpcoming
  <1>4. locs \subseteq Locs
    BY DEF WalkInv, TypeOK
  <1> HIDE DEF new
  <1>5. OpenIsPath'
    BY <1>1, <1>2, <1>3, Tree DEF OpenIsPath, new
  <1>6. OpenIsCoarse'
    BY <1>1, <1>2 DEF WalkInv, OpenIsCoarse, new
  <1>7. UnseenBelow'
    BY <1>1, <1>2, <1>3, Tree DEF WalkInv, UnseenBelow, new
  <1>8. SelectedReturned'
    BY <1>1, <1>2, <1>3, <1>4, Tree DEF WalkInv, SelectedReturned, new
  <1>9. AboveSelected'
    BY <1>1, <1>2, <1>3, <1>4, Tree DEF WalkInv, AboveSelected, new
  <1>10. FilledBelow'
    BY <1>1, <1>2, <1>3, Tree DEF WalkInv, FilledBelow, Covered, new
  <1>11. TrueHasTile'
    BY <1>1, <1>2, <1>3, Tree DEF WalkInv, TrueHasTile, Children, new
  <1> QED  BY <1>2, <1>5, <1>6, <1>7, <1>8, <1>9, <1>10, <1>11 DEF WalkInv

\* The end of an open call.  A location below cur is reached through a child of
\* cur, whose call tells what happened below it.
LEMMA ReturnWalk ==
    ASSUME WalkInv, Return
    PROVE  WalkInv'
  <1> DEFINE has == HasChildren
             answer == IF has THEN "true" ELSE "false"
             fill == IF has THEN FillLocs ELSE {}
             new == call'
             more == locs'
  <1>1. /\ cur # None /\ \A c \in Children(cur) : call[c] # "no"
        /\ new = [call EXCEPT ![cur] = answer]
        /\ more = locs \cup fill
        /\ cur' = Parent[cur]
        /\ UNCHANGED <<maxlod, camera>>
    BY DEF Return
  <1>2. cur \in Locs /\ locs \subseteq Locs /\ call[cur] = "open" /\ cur \notin locs
    BY <1>1 DEF WalkInv, TypeOK, OpenIsPath, SelectedReturned
  <1>3. /\ new[cur] = answer /\ \A l \in Locs : l # cur => new[l] = call[l]
        /\ TypeOK'
    BY <1>1, <1>2, Tree DEF WalkInv, TypeOK, Return, FillLocs, Children
  <1>4. \A a \in Locs : call[a] = "open" <=> a = cur \/ a \in Above[cur]
    BY <1>1 DEF WalkInv, OpenIsPath
  <1>5. \A f \in fill :
          /\ f \in Locs /\ Parent[f] = cur /\ call[f] = "false" /\ f # cur /\ f # Root
          /\ \A l \in locs : f \notin Above[l]
    <2>1. \A f \in fill : f \in Locs /\ Parent[f] = cur /\ call[f] = "false"
      BY DEF FillLocs, Children
    <2> QED  BY <1>1, <1>2, <2>1, Tree DEF WalkInv, AboveSelected
  \* Where a location below cur hangs.
  <1>6. \A d \in Locs : cur \in Above[d] =>
          \E c \in Above[d] \cup {d} :
             /\ c \in Locs /\ Parent[c] = cur /\ call[c] \in {"skip", "true", "false"}
    <2> SUFFICES ASSUME NEW d \in Locs, cur \in Above[d]
                 PROVE  \E c \in Above[d] \cup {d} :
                          c \in Locs /\ Parent[c] = cur /\ call[c] \in {"skip", "true", "false"}
      OBVIOUS
    <2>1. PICK c \in Above[d] \cup {d} : Parent[c] = cur
      BY Tree
    <2>2. c \in Locs /\ call[c] # "open"
      BY <1>1, <2>1, Tree, NoneOpenBelow
    <2>3. call[c] # "no"
      BY <1>1, <2>1, <2>2 DEF Children
    <2> QED  BY <2>1, <2>2, <2>3 DEF WalkInv, TypeOK
  <1>7. has => \A d \in Locs : cur \in Above[d] /\ call[d] = "false" =>
          d \in more \/ \E a \in Above[d] : a \in more
    <2> SUFFICES ASSUME has, NEW d \in Locs, cur \in Above[d], call[d] = "false"
                 PROVE  d \in more \/ \E a \in Above[d] : a \in more
      OBVIOUS
    <2>1. PICK c \in Above[d] \cup {d} :
             c \in Locs /\ Parent[c] = cur /\ call[c] \in {"skip", "true", "false"}
      BY <1>6
    <2>2. CASE call[c] = "false"
      <3>1. c \in FillLocs
        BY <2>1, <2>2 DEF FillLocs, Children
      <3> QED  BY <1>1, <2>1, <3>1
    <2>3. CASE call[c] = "true"
      <3>1. c \in Above[d]
        BY <2>1, <2>3
      <3>2. d \in locs \/ \E a \in Above[d] : a \in locs
        BY <2>3, <3>1 DEF WalkInv, FilledBelow, Covered
      <3> QED  BY <1>1, <3>2
    <2>4. CASE call[c] = "skip"
      BY <2>1, <2>4 DEF WalkInv, UnseenBelow
    <2> QED  BY <2>1, <2>2, <2>3, <2>4
  <1>8. ~has => \A l \in locs : cur \notin Above[l]
    <2> SUFFICES ASSUME ~has, NEW l \in locs, cur \in Above[l]
                 PROVE  FALSE
      OBVIOUS
    <2>1. PICK c \in Above[l] \cup {l} :
             c \in Locs /\ Parent[c] = cur /\ call[c] \in {"skip", "true", "false"}
      BY <1>2, <1>6
    <2>2. call[c] # "true"
      BY <2>1 DEF HasChildren, Children
    <2>3. c = l
      BY <2>1, <2>2 DEF WalkInv, AboveSelected
    <2> QED  BY <1>2, <2>1, <2>2, <2>3 DEF WalkInv, SelectedReturned
  <1>9. has => \E c \in Children(cur) : call[c] = "true" /\ c # cur
    BY <1>2 DEF HasChildren
  <1>a. answer \in {"true", "false"} /\ (answer = "true" <=> has)
    OBVIOUS
  <1> HIDE DEF has, answer, fill, new, more
  <1>10. OpenIsPath'
    BY <1>1, <1>2, <1>3, <1>4, <1>a, Tree DEF OpenIsPath, new
  <1>11. OpenIsCoarse'
    BY <1>1, <1>3, <1>a DEF WalkInv, OpenIsCoarse, new
  <1>12. UnseenBelow'
    BY <1>2, <1>3, <1>a, Tree DEF WalkInv, UnseenBelow, new
  <1>13. SelectedReturned'
    <2>1. ASSUME NEW l \in locs
          PROVE  new[l] = "true" \/ (new[l] = "false" /\ l # Root /\ new[Parent[l]] = "true")
      <3>1. CASE call[l] = "true"
        BY <1>2, <1>3, <3>1
      <3>2. CASE call[l] = "false" /\ l # Root /\ call[Parent[l]] = "true"
        BY <1>2, <1>3, <3>2, Tree
      <3> QED  BY <3>1, <3>2 DEF WalkInv, SelectedReturned
    <2>2. ASSUME NEW l \in fill
          PROVE  new[l] = "false" /\ l # Root /\ new[Parent[l]] = "true"
      <3>1. has
        BY DEF fill
      <3> QED  BY <1>3, <1>5, <1>a, <3>1
    <2> QED  BY <1>1, <2>1, <2>2 DEF SelectedReturned, new, more
  <1>14. AboveSelected'
    <2>1. ASSUME NEW l \in locs, NEW a \in Above[l]
          PROVE  new[a] \in {"open", "true"} /\ a \notin more
      <3>1. a \in Locs /\ call[a] \in {"open", "true"} /\ a \notin locs
        BY <1>2, Tree DEF WalkInv, AboveSelected
      <3>2. a \notin more
        BY <1>1, <1>5, <3>1
      <3>3. CASE a = cur
        BY <1>3, <1>8, <1>a, <3>2, <3>3
      <3>4. CASE a # cur
        BY <1>3, <3>1, <3>2, <3>4
      <3> QED  BY <3>3, <3>4
    <2>2. ASSUME NEW l \in fill, NEW a \in Above[l]
          PROVE  new[a] \in {"open", "true"} /\ a \notin more
      <3>1. has
        BY DEF fill
      <3>2. a = cur \/ a \in Above[cur]
        BY <1>2, <1>5, Tree
      <3>3. a \in Locs /\ call[a] = "open"
        BY <1>2, <1>4, <3>2, Tree
      <3>4. a \notin locs /\ a \notin fill
        BY <1>5, <3>3 DEF WalkInv, SelectedReturned
      <3> QED  BY <1>1, <1>3, <1>a, <3>1, <3>3, <3>4
    <2> QED  BY <1>1, <2>1, <2>2 DEF AboveSelected, new, more
  <1>15. FilledBelow'
    <2> SUFFICES ASSUME NEW l \in Locs, new[l] = "false", NEW a \in Above[l], new[a] = "true"
                 PROVE  l \in more \/ \E b \in Above[l] : b \in more
      BY DEF FilledBelow, Covered, new, more
    <2>1. CASE l = cur
      BY <1>2, <1>3, <1>4, <2>1, Tree
    <2>2. CASE l # cur /\ a = cur
      BY <1>3, <1>7, <1>a, <2>2
    <2>3. CASE l # cur /\ a # cur
      <3>1. call[l] = "false" /\ call[a] = "true"
        BY <1>3, <2>3, Tree
      <3>2. l \in locs \/ \E b \in Above[l] : b \in locs
        BY <3>1 DEF WalkInv, FilledBelow, Covered
      <3> QED  BY <1>1, <3>2
    <2> QED  BY <2>1, <2>2, <2>3
  <1>16. TrueHasTile'
    <2> SUFFICES ASSUME NEW l \in Locs, new[l] = "true"
                 PROVE  l \in more \/ \E c \in Children(l) : new[c] = "true"
      BY DEF TrueHasTile, new, more, Children
    <2>1. CASE l = cur
      BY <1>3, <1>9, <1>a, <2>1 DEF Children
    <2>2. CASE l # cur
      <3>1. l \in locs \/ \E c \in Children(l) : call[c] = "true"
        BY <1>3, <2>2 DEF WalkInv, TrueHasTile
      <3> QED  BY <1>1, <1>2, <1>3, <3>1 DEF Children
    <2> QED  BY <2>1, <2>2
  <1> QED  BY <1>3, <1>10, <1>11, <1>12, <1>13, <1>14, <1>15, <1>16 DEF WalkInv

\* No call has been made.
LEMMA StartWalk ==
    ASSUME call = [l \in Locs |-> "no"], cur = None, behind = {}, locs = {},
           maxlod \in MaxLods, camera \in Finest \cup {None}
    PROVE  Walk
  BY DEF Walk, WalkInv, CameraInv, TypeOK, OpenIsPath, OpenIsCoarse, UnseenBelow,
         SelectedReturned, AboveSelected, FilledBelow, TrueHasTile,
         AroundNotMissed, AroundSelected

-----------------------------------------------------------------------------
\* The cells around the camera: their calls are never culled, and end in the
\* selection of one of them at the finest level.
LEMMA CameraStep ==
    ASSUME WalkInv, CameraInv, NEW c \in Locs, NEW target \in Targets(c),
           Skip(c) \/ CallLeaf(c, target) \/ Descend(c, target)
    PROVE  CameraInv'
  <1>1. UNCHANGED <<maxlod, camera>> /\ Upcoming(c)
    BY DEF Skip, Outside, CallLeaf, Descend
  <1>2. PICK answer \in {"skip", "open", "true", "false"} : call' = [call EXCEPT ![c] = answer]
    BY DEF Skip, Outside, CallLeaf, Descend
  <1>3. locs \subseteq locs' /\ \A l \in Locs : Around(l)' = Around(l)
    BY <1>1 DEF Skip, Outside, CallLeaf, Descend, Around
  <1>4. call'[c] = answer /\ \A l \in Locs : l # c => call'[l] = call[l]
    BY <1>2 DEF WalkInv, TypeOK
  <1>5. CASE ~Around(c)
    BY <1>1, <1>3, <1>4, <1>5 DEF CameraInv, AroundNotMissed, AroundSelected, WalkInv, TypeOK
  <1>6. CASE Around(c)
    <2>1. target = -1
      BY <1>6 DEF Targets
    <2>2. ~Skip(c) /\ ~Culled(c, target)
      BY <1>6, <2>1 DEF Skip, Outside, Culled
    <2>3. Level[c] <= maxlod /\ Level[c] \in Nat /\ maxlod \in Nat
      BY <1>1, PathToUpcoming, Tree DEF WalkInv, TypeOK, MaxLods
    <2>4. CASE CallLeaf(c, target)
      <3>1. Taken(c, target) /\ Level[c] = maxlod
        BY <2>1, <2>2, <2>3, <2>4 DEF CallLeaf, Taken
      <3>2. call'[c] = "true" /\ c \in locs'
        BY <1>4, <2>2, <2>4, <3>1 DEF CallLeaf, WalkInv, TypeOK
      <3> QED
        BY <1>1, <1>3, <1>4, <1>6, <3>1, <3>2
        DEF CameraInv, AroundNotMissed, AroundSelected, WalkInv, TypeOK
    <2>5. CASE Descend(c, target)
      <3>1. call'[c] = "open"
        BY <2>5 DEF Descend, WalkInv, TypeOK
      <3> QED
        BY <1>1, <1>3, <1>4, <3>1
        DEF CameraInv, AroundNotMissed, AroundSelected, WalkInv, TypeOK
    <2> QED  BY <2>2, <2>4, <2>5
  <1> QED  BY <1>5, <1>6

\* Return preserves CameraInv: a call around the camera returns true.
LEMMA CameraReturn ==
    ASSUME WalkInv, CameraInv, Return
    PROVE  CameraInv'
  <1>1. /\ cur \in Locs /\ call[cur] = "open" /\ Level[cur] < maxlod
        /\ UNCHANGED <<maxlod, camera>> /\ locs \subseteq locs'
    BY DEF Return, WalkInv, TypeOK, OpenIsPath, OpenIsCoarse
  <1>2. \A l \in Locs : Around(l)' = Around(l)
    BY <1>1 DEF Around
  <1>3. /\ call'[cur] = IF HasChildren THEN "true" ELSE "false"
        /\ \A l \in Locs : l # cur => call'[l] = call[l]
    BY <1>1 DEF Return, WalkInv, TypeOK
  <1>4. CASE ~Around(cur)
    BY <1>1, <1>2, <1>3, <1>4 DEF CameraInv, AroundNotMissed, AroundSelected, WalkInv, TypeOK
  <1>5. CASE Around(cur)
    <2>1. camera \in Locs /\ cur # camera
      <3>1. camera \in Locs /\ \A k \in Locs : Level[k] <= Level[camera]
        BY <1>5 DEF Around, WalkInv, TypeOK, Finest
      <3>2. PICK k \in Locs : maxlod = Level[k]
        BY DEF WalkInv, TypeOK, MaxLods
      <3>3. Level[cur] # Level[camera]
        BY <1>1, <3>1, <3>2, Tree
      <3> QED  BY <3>1, <3>3
    <2>2. PICK c \in Above[camera] \cup {camera} : Parent[c] = cur
      BY <1>5, <2>1, Tree DEF Around
    <2>3. c \in Locs /\ Around(c) /\ cur # None
      BY <1>1, <1>5, <2>1, <2>2, Tree DEF Around
    <2>4. call[c] = "true"
      <3>1. call[c] # "open"
        BY <2>2, <2>3, NoneOpenBelow
      <3>2. call[c] # "no"
        BY <2>2, <2>3 DEF Return, Children
      <3> QED  BY <2>3, <3>1, <3>2 DEF WalkInv, TypeOK, CameraInv, AroundNotMissed
    <2>5. HasChildren
      BY <2>2, <2>3, <2>4 DEF HasChildren, Children
    <2>6. \E s \in locs' : Around(s) /\ Level[s] = maxlod
      BY <1>1, <2>3, <2>4 DEF CameraInv, AroundSelected
    <2>7. locs' \subseteq Locs
      BY ReturnWalk DEF WalkInv, TypeOK
    <2> QED
      BY <1>1, <1>2, <1>3, <2>5, <2>6, <2>7 DEF CameraInv, AroundNotMissed, AroundSelected
  <1> QED  BY <1>4, <1>5

\* Walk is preserved by every step of the recursion.
LEMMA NextWalk == Walk /\ [Next]_vars => Walk'
  <1> SUFFICES ASSUME WalkInv, CameraInv, [Next]_vars PROVE Walk'
    BY DEF Walk
  <1>1. CASE Get
    <2>1. /\ call' = [l \in Locs |-> "no"] /\ cur' = None /\ behind' = {} /\ locs' = {}
          /\ maxlod' \in MaxLods /\ camera' \in Finest \cup {None}
      BY <1>1 DEF Get
    <2> QED
      BY <2>1 DEF Walk, WalkInv, CameraInv, TypeOK, OpenIsPath, OpenIsCoarse, UnseenBelow,
                  SelectedReturned, AboveSelected, FilledBelow, TrueHasTile,
                  AroundNotMissed, AroundSelected
  <1>2. CASE Return
    BY <1>2, ReturnWalk, CameraReturn DEF Walk
  <1>3. ASSUME NEW c \in Locs, Skip(c) PROVE Walk'
    <2>1. \E t : t \in Targets(c)
      BY TargetAssumption DEF Targets
    <2> QED  BY <1>3, <2>1, SkipWalk, CameraStep DEF Walk
  <1>4. ASSUME NEW c \in Locs, NEW target \in Targets(c), CallLeaf(c, target) PROVE Walk'
    BY <1>4, CallLeafWalk, CameraStep DEF Walk
  <1>5. ASSUME NEW c \in Locs, NEW target \in Targets(c), Descend(c, target) PROVE Walk'
    BY <1>5, DescendWalk, CameraStep DEF Walk
  <1>6. CASE UNCHANGED vars
    BY <1>6 DEF Walk, WalkInv, CameraInv, vars, TypeOK, OpenIsPath, OpenIsCoarse, UnseenBelow,
                SelectedReturned, AboveSelected, FilledBelow, TrueHasTile, Covered, Children,
                AroundNotMissed, AroundSelected, Around
  <1> QED  BY <1>1, <1>2, <1>3, <1>4, <1>5, <1>6 DEF Next

\* Walk holds from the first call of GetLocsInView to the last.
LEMMA WalkAlways == Spec => []Walk
  <1>1. Init => Walk
    BY StartWalk DEF Init
  <1> QED  BY <1>1, NextWalk, PTL DEF Spec

-----------------------------------------------------------------------------
\* GetLocsInView never selects a tile and one inside it.
THEOREM TilesDisjoint == Spec => []SelectedDisjoint
  <1>1. Walk => SelectedDisjoint
    BY DEF Walk, WalkInv, AboveSelected, SelectedDisjoint
  <1> QED  BY <1>1, WalkAlways, PTL

\* What Get returns covers the view, or is empty.
THEOREM ViewCovered == Spec => []NoHoles
  <1>1. Walk => NoHoles
    <2> SUFFICES ASSUME WalkInv, Done, NEW s \in locs, NEW l \in Locs, Ends(l)
                 PROVE  Covered(l)
      BY DEF Walk, NoHoles
    <2>1. locs \subseteq Locs /\ \A k \in Locs : call[k] # "open"
      BY DEF WalkInv, TypeOK, OpenIsPath, Done
    <2>2. CASE s = Root
      BY <2>2, Tree DEF Covered
    <2>3. CASE s # Root
      <3>1. call[Root] = "true"
        BY <2>1, <2>3, Tree DEF WalkInv, AboveSelected
      <3>2. CASE call[l] = "true"
        BY <3>2 DEF WalkInv, TrueHasTile, Ends, Called, Covered, Children
      <3>3. CASE call[l] = "false"
        BY <3>1, <3>3, Tree DEF WalkInv, FilledBelow
      <3> QED  BY <2>1, <3>2, <3>3 DEF Ends, Called
    <2> QED  BY <2>2, <2>3
  <1> QED  BY <1>1, WalkAlways, PTL

\* The cell of a camera inside the octree is selected at the finest level.
THEOREM CameraCovered == Spec => []CameraCellSelected
  <1>1. Walk => CameraCellSelected
    <2> SUFFICES ASSUME WalkInv, CameraInv, Done, camera # None
                 PROVE  \E l \in locs : Around(l) /\ Level[l] = maxlod
      BY DEF Walk, CameraCellSelected
    <2>1. Around(Root)
      BY Tree DEF Around, WalkInv, TypeOK, Finest
    <2>2. call[Root] = "true"
      BY <2>1, Tree DEF WalkInv, TypeOK, OpenIsPath, Done, CameraInv, AroundNotMissed
    <2> QED  BY <2>1, <2>2, Tree DEF CameraInv, AroundSelected
  <1> QED  BY <1>1, WalkAlways, PTL
=============================================================================
