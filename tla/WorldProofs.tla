---------------------------- MODULE WorldProofs -----------------------------
(* The velocity follows the keys, the debug camera leaves the view camera  *)
(* alone, and a restart brings back a recent frame: proved for any         *)
(* axes, poses and period.                                                 *)
EXTENDS World, TLAPS

\* 1 if k is one of the keys.
In(k, keys) == IF k \in keys THEN 1 ELSE 0

\* What the velocity is bounded by, for any held keys and buttons.
Bounded(vel, keys, btns) ==
    \A a \in Axes :
       /\ -(In(Neg[a], keys) + In(Neg[a], btns)) <= vel[a]
       /\ vel[a] <= In(Pos[a], keys) + In(Pos[a], btns)

\* The velocity is bounded by what is held.
VelInv == camVel \in [Axes -> Int] /\ Bounded(camVel, keystate, buttons)

\* Engine's flag follows World's mode.
ModeInv == inspect \in BOOLEAN /\ debugCam = inspect /\ (record # NoRecord => record.inspect \in BOOLEAN)

\* Key-downs and key-ups leave the velocity a vector of integers.
LEMMA PushTyped ==
    ASSUME NEW vel \in [Axes -> Int], NEW keys
    PROVE  Pushed(vel, keys) \in [Axes -> Int] /\ Released(vel, keys) \in [Axes -> Int]
  BY DEF Pushed, Released

\* A key that was not down goes down.
LEMMA PushKey ==
    ASSUME NEW vel \in [Axes -> Int], NEW keys, NEW btns, Bounded(vel, keys, btns),
           NEW k, k \notin keys
    PROVE  Bounded(Pushed(vel, {k}), keys \cup {k}, btns)
  <1> SUFFICES ASSUME NEW a \in Axes
               PROVE  /\ -(In(Neg[a], keys \cup {k}) + In(Neg[a], btns)) <= Pushed(vel, {k})[a]
                      /\ Pushed(vel, {k})[a] <= In(Pos[a], keys \cup {k}) + In(Pos[a], btns)
    BY DEF Bounded
  <1>1. Pushed(vel, {k})[a] = vel[a] + In(Pos[a], {k}) - In(Neg[a], {k})
    BY DEF Pushed, In
  <1>2. \A m : /\ In(m, keys \cup {k}) = In(m, keys) + In(m, {k})
              /\ In(m, keys) \in 0..1 /\ In(m, btns) \in 0..1 /\ In(m, {k}) \in 0..1
    BY DEF In
  <1>3. /\ -(In(Neg[a], keys) + In(Neg[a], btns)) <= vel[a]
        /\ vel[a] <= In(Pos[a], keys) + In(Pos[a], btns) /\ vel[a] \in Int
    BY DEF Bounded
  <1>a. \A m, S : In(m, S) \in Int /\ In(m, S) \in 0..1
    BY DEF In
  <1>4. PICK kp \in Int, kn \in Int, bp \in Int, bn \in Int, p \in 0..1, n \in 0..1 :
          /\ kp = In(Pos[a], keys) /\ bp = In(Pos[a], btns) /\ p = In(Pos[a], {k})
          /\ kn = In(Neg[a], keys) /\ bn = In(Neg[a], btns) /\ n = In(Neg[a], {k})
    BY <1>a, Zenon
  <1>5. In(Pos[a], keys \cup {k}) = kp + p /\ In(Neg[a], keys \cup {k}) = kn + n
    BY <1>2, <1>4
  <1>6. PICK v \in Int : v = vel[a] /\ -(kn + bn) <= v /\ v <= kp + bp
    BY <1>3, <1>4
  <1>7. -(kn + n + bn) <= v + p - n /\ v + p - n <= kp + p + bp
    BY <1>6
  <1> QED  BY <1>1, <1>4, <1>5, <1>6, <1>7

\* A key comes up.
LEMMA ReleaseKey ==
    ASSUME NEW vel \in [Axes -> Int], NEW keys, NEW btns, Bounded(vel, keys, btns), NEW k
    PROVE  Bounded(Released(vel, {k}), keys \ {k}, btns)
  <1> SUFFICES ASSUME NEW a \in Axes
               PROVE  /\ -(In(Neg[a], keys \ {k}) + In(Neg[a], btns)) <= Released(vel, {k})[a]
                      /\ Released(vel, {k})[a] <= In(Pos[a], keys \ {k}) + In(Pos[a], btns)
    BY DEF Bounded
  <1>1. \A m, S : In(m, S) \in 0..1
    BY DEF In
  <1>2. /\ -(In(Neg[a], keys) + In(Neg[a], btns)) <= vel[a]
        /\ vel[a] <= In(Pos[a], keys) + In(Pos[a], btns) /\ vel[a] \in Int
    BY DEF Bounded
  <1>3. CASE k \in {Pos[a], Neg[a]}
    <2>1. Released(vel, {k})[a] = 0
      BY <1>3 DEF Released
    <2> QED  BY <1>1, <2>1
  <1>4. CASE k \notin {Pos[a], Neg[a]}
    <2>1. Released(vel, {k})[a] = vel[a]
      BY <1>4 DEF Released
    <2>2. In(Neg[a], keys \ {k}) = In(Neg[a], keys) /\ In(Pos[a], keys \ {k}) = In(Pos[a], keys)
      BY <1>4 DEF In
    <2> QED  BY <1>2, <2>1, <2>2
  <1> QED  BY <1>3, <1>4

\* The buttons of a frame replace those of the frame before.
LEMMA ChangeButtons ==
    ASSUME NEW vel \in [Axes -> Int], NEW keys, NEW btns, Bounded(vel, keys, btns), NEW now
    PROVE  Bounded(Pushed(Released(vel, btns \ now), now \ btns), keys, now)
  <1> DEFINE rel == Released(vel, btns \ now)
             new == Pushed(rel, now \ btns)
  <1> SUFFICES ASSUME NEW a \in Axes
               PROVE  /\ -(In(Neg[a], keys) + In(Neg[a], now)) <= new[a]
                      /\ new[a] <= In(Pos[a], keys) + In(Pos[a], now)
    BY DEF Bounded
  <1>1. new[a] = rel[a] + In(Pos[a], now \ btns) - In(Neg[a], now \ btns)
    BY DEF Pushed, In
  <1>2. \A m : /\ In(m, now) = In(m, now \ btns) + In(m, now \cap btns)
              /\ In(m, keys) \in 0..1 /\ In(m, now \ btns) \in 0..1
              /\ In(m, now \cap btns) \in 0..1
    BY DEF In
  <1>3. /\ -(In(Neg[a], keys) + In(Neg[a], btns)) <= vel[a]
        /\ vel[a] <= In(Pos[a], keys) + In(Pos[a], btns) /\ vel[a] \in Int
    BY DEF Bounded
  <1>4. /\ -(In(Neg[a], keys) + In(Neg[a], now \cap btns)) <= rel[a]
        /\ rel[a] <= In(Pos[a], keys) + In(Pos[a], now \cap btns) /\ rel[a] \in Int
    <2>1. CASE {Pos[a], Neg[a]} \cap (btns \ now) # {}
      <3>1. rel[a] = 0
        BY <2>1 DEF Released
      <3>2. PICK kp \in 0..1, kn \in 0..1, bp \in 0..1, bn \in 0..1 :
              /\ kp = In(Pos[a], keys) /\ bp = In(Pos[a], now \cap btns)
              /\ kn = In(Neg[a], keys) /\ bn = In(Neg[a], now \cap btns)
        BY <1>2
      <3> QED  BY <3>1, <3>2
    <2>2. CASE {Pos[a], Neg[a]} \cap (btns \ now) = {}
      <3>1. rel[a] = vel[a]
        BY <2>2 DEF Released
      <3>2. In(Pos[a], now \cap btns) = In(Pos[a], btns) /\ In(Neg[a], now \cap btns) = In(Neg[a], btns)
        BY <2>2 DEF In
      <3> QED  BY <1>3, <3>1, <3>2
    <2> QED  BY <2>1, <2>2
  <1> HIDE DEF rel, new
  <1>a. \A m, S : In(m, S) \in Int /\ In(m, S) \in 0..1
    BY DEF In
  <1>5. PICK kp \in Int, kn \in Int, bp \in Int, bn \in Int, p \in 0..1, n \in 0..1 :
          /\ kp = In(Pos[a], keys) /\ bp = In(Pos[a], now \cap btns) /\ p = In(Pos[a], now \ btns)
          /\ kn = In(Neg[a], keys) /\ bn = In(Neg[a], now \cap btns) /\ n = In(Neg[a], now \ btns)
    BY <1>a, Zenon
  <1>6. In(Pos[a], now) = p + bp /\ In(Neg[a], now) = n + bn
    BY <1>2, <1>5
  <1>7. PICK v \in Int : v = rel[a] /\ -(kn + bn) <= v /\ v <= kp + bp
    BY <1>4, <1>5
  <1>8. -(kn + (n + bn)) <= v + p - n /\ v + p - n <= kp + (p + bp)
    BY <1>7
  <1> QED  BY <1>1, <1>5, <1>6, <1>7, <1>8

\* VelInv is inductive: each source of keys changes the velocity with what it holds.
LEMMA VelAlways == Spec => []VelInv
  <1>1. Init => VelInv
    BY DEF Init, VelInv, Bounded, In
  <1>2. VelInv /\ [Next]_vars => VelInv'
    <2> SUFFICES ASSUME VelInv, [Next]_vars PROVE VelInv'
      OBVIOUS
    <2>1. ASSUME NEW k \in Keys, WmKeyDown(k) PROVE VelInv'
      BY <2>1, PushTyped, PushKey DEF WmKeyDown, Fresh, KeyDown, VelInv
    <2>2. ASSUME NEW k \in Keys, WmKeyUp(k) PROVE VelInv'
      BY <2>2, PushTyped, ReleaseKey DEF WmKeyUp, VelInv
    <2>3. CASE TouchDown \/ TouchUp
      BY <2>3 DEF TouchDown, TouchUp, VelInv
    <2>4. ASSUME NEW pose \in Poses, TouchDrag(pose) PROVE VelInv'
      BY <2>4 DEF TouchDrag, controls, VelInv
    <2>5. CASE Draw
      <3>1. camVel' = ButtonVel(buttons') /\ UNCHANGED keystate
        BY <2>5 DEF Draw
      <3>2. ButtonVel(buttons') \in [Axes -> Int]
        BY DEF ButtonVel, Pushed, Released, VelInv
      <3>3. Bounded(ButtonVel(buttons'), keystate, buttons')
        BY ChangeButtons DEF VelInv, ButtonVel
      <3> QED  BY <3>1, <3>2, <3>3 DEF VelInv
    <2>6. CASE Restart
      BY <2>6 DEF Restart, VelInv, Bounded, In
    <2>7. CASE UNCHANGED vars
      BY <2>7 DEF vars, controls, VelInv
    <2> QED  BY <2>1, <2>2, <2>3, <2>4, <2>5, <2>6, <2>7 DEF Next
  <1> QED  BY <1>1, <1>2, PTL DEF Spec

\* ModeInv is inductive: every change of the mode goes with SetDbgCam.
LEMMA ModeAlways == Spec => []ModeInv
  <1>1. Init => ModeInv
    BY DEF Init, ModeInv
  <1>2. ModeInv /\ [Next]_vars => ModeInv'
    <2> SUFFICES ASSUME ModeInv, [Next]_vars PROVE ModeInv'
      OBVIOUS
    <2>1. ASSUME NEW k \in Keys, WmKeyDown(k) PROVE ModeInv'
      BY <2>1 DEF WmKeyDown, KeyDown, SetDbgCam, saved, ModeInv
    <2>2. ASSUME NEW k \in Keys, WmKeyUp(k) PROVE ModeInv'
      BY <2>2 DEF WmKeyUp, cameras, saved, ModeInv
    <2>3. CASE TouchDown \/ TouchUp
      BY <2>3 DEF TouchDown, TouchUp, cameras, saved, ModeInv
    <2>4. ASSUME NEW pose \in Poses, TouchDrag(pose) PROVE ModeInv'
      BY <2>4 DEF TouchDrag, saved, ModeInv
    <2>5. CASE Draw
      <3>1. PICK vel, pose, ready : Update(vel, pose, ready)
        BY <2>5 DEF Draw
      <3>2. Begin.inspect \in BOOLEAN /\ (started \/ record = NoRecord => Begin.inspect = inspect)
        BY DEF Begin, Restored, ModeInv
      <3>3. inspect' = Begin.inspect /\ debugCam' = Begin.inspect
        BY <3>1, <3>2 DEF Update, ModeInv
      <3>4. record' = record \/ record' = [Begin EXCEPT !.draw = pose]
        BY <3>1 DEF Update, SaveCamera
      <3>5. [Begin EXCEPT !.draw = pose].inspect = Begin.inspect
        BY DEF Begin, Restored
      <3> QED  BY <3>2, <3>3, <3>4, <3>5 DEF ModeInv
    <2>6. CASE Restart
      BY <2>6 DEF Restart, ModeInv
    <2>7. CASE UNCHANGED vars
      BY <2>7 DEF vars, cameras, saved, ModeInv
    <2> QED  BY <2>1, <2>2, <2>3, <2>4, <2>5, <2>6, <2>7 DEF Next
  <1> QED  BY <1>1, <1>2, PTL DEF Spec

-----------------------------------------------------------------------------
\* World::KeyDown and KeyUp never leave the camera pushed by more than is held.
THEOREM VelocityFollowsKeys == Spec => []VelocityWithinHeld
  <1>1. VelInv => VelocityWithinHeld
    BY DEF VelInv, Bounded, In, VelocityWithinHeld, Held
  <1> QED  BY <1>1, VelAlways, PTL

\* No step in inspect mode moves the camera that tiles are selected for.
THEOREM ViewFrozen == Spec => InspectFreezesView
  <1>1. ModeInv /\ [Next]_vars => [started /\ started' /\ inspect /\ inspect' => camera' = camera]_vars
    <2> SUFFICES ASSUME ModeInv, Next, started, inspect, inspect', started' PROVE camera' = camera
      OBVIOUS
    <2>0. debugCam
      BY DEF ModeInv
    <2>1. CASE \E k \in Keys : WmKeyDown(k) \/ WmKeyUp(k)
      BY <2>1 DEF WmKeyDown, WmKeyUp, KeyDown, cameras
    <2>2. CASE TouchDown \/ TouchUp
      BY <2>2 DEF TouchDown, TouchUp, cameras
    <2>3. CASE \E pose \in Poses : TouchDrag(pose)
      BY <2>0, <2>3 DEF TouchDrag, SetDrawCam
    <2>4. CASE Draw
      <3>1. PICK vel, pose, ready : Update(vel, pose, ready)
        BY <2>4 DEF Draw
      <3>2. camera' = Begin.view
        BY <2>0, <3>1 DEF Update
      <3> QED  BY <3>2 DEF Begin
    <2>5. CASE Restart
      BY <2>5 DEF Restart
    <2> QED  BY <2>1, <2>2, <2>3, <2>4, <2>5 DEF Next
  <1> QED  BY <1>1, ModeAlways, PTL DEF Spec, InspectFreezesView

-----------------------------------------------------------------------------
(* Types, and the age of the saved camera.                                 *)

\* A product of the period, as the age is bounded by.
LEMMA FailedPeriods ==
    ASSUME NEW f \in Nat
    PROVE  /\ f * Period \in Nat /\ Period * (f + 1) = f * Period + Period
           /\ (f + 1) * Period = f * Period + Period
  BY PeriodAssumption

\* The cameras and modes that an Update begins with, and the record it writes.
LEMMA BeginTyped ==
    ASSUME TypeOK, NEW pose \in Poses
    PROVE  /\ Begin \in CamPos /\ [Begin EXCEPT !.draw = pose] \in CamPos
           /\ Shown([Begin EXCEPT !.draw = pose]) \in CamPos
  <1>1. Begin \in CamPos
    BY PosesAssumption DEF TypeOK, Begin, Restored, CamPos
  <1>2. [Begin EXCEPT !.draw = pose] \in CamPos
    BY <1>1 DEF CamPos
  <1> QED  BY <1>1, <1>2 DEF Shown, CamPos

\* Types of the state of World, its cameras, its record and its history.
THEOREM WorldTyped == Spec => []TypeOK
  <1>1. Init => TypeOK
    <2>1. Period \in Nat \ {0} /\ MaxFails \in Nat
      BY PeriodAssumption
    <2> SUFFICES ASSUME Init PROVE TypeOK
      OBVIOUS
    <2>2. camVel \in [Axes -> Int] /\ frame \in 0..(Period - 1) /\ fails \in 0..MaxFails
      BY <2>1 DEF Init
    <2> QED  BY <2>2, PosesAssumption DEF Init, TypeOK
  <1>2. TypeOK /\ [Next]_vars => TypeOK'
    <2> SUFFICES ASSUME TypeOK, [Next]_vars PROVE TypeOK'
      OBVIOUS
    <2>1. ASSUME NEW k \in Keys, WmKeyDown(k) PROVE TypeOK'
      <3>1. camVel' \in [Axes -> Int]
        BY <2>1, PushTyped DEF WmKeyDown, KeyDown, TypeOK
      <3>2. debugCam' \in BOOLEAN /\ debugCamera' \in Poses /\ flymode' \in BOOLEAN /\ inspect' \in BOOLEAN
        BY <2>1 DEF WmKeyDown, KeyDown, SetDbgCam, TypeOK
      <3> QED  BY <2>1, <3>1, <3>2 DEF WmKeyDown, KeyDown, saved, TypeOK
    <2>2. ASSUME NEW k \in Keys, WmKeyUp(k) PROVE TypeOK'
      <3>1. camVel' \in [Axes -> Int]
        BY <2>2, PushTyped DEF WmKeyUp, TypeOK
      <3> QED  BY <2>2, <3>1 DEF WmKeyUp, cameras, saved, TypeOK
    <2>3. CASE TouchDown \/ TouchUp
      BY <2>3 DEF TouchDown, TouchUp, cameras, saved, TypeOK
    <2>4. ASSUME NEW pose \in Poses, TouchDrag(pose) PROVE TypeOK'
      BY <2>4 DEF TouchDrag, SetDrawCam, controls, saved, TypeOK
    <2>5. CASE Draw
      <3>1. PICK now \in ButtonsThisFrame, pose \in Poses, ready \in BOOLEAN :
              buttons' = now /\ camVel' = ButtonVel(now) /\ Update(ButtonVel(now), pose, ready)
        BY <2>5 DEF Draw
      <3>2. buttons' \in SUBSET MoveKeys /\ camVel' \in [Axes -> Int]
        BY <3>1 DEF ButtonsThisFrame, ButtonVel, Pushed, Released, TypeOK
      <3>3. Begin \in CamPos
        BY BeginTyped
      <3>4. flymode' \in BOOLEAN /\ inspect' \in BOOLEAN /\ falling' \in BOOLEAN
        BY <3>1, <3>3 DEF Update, GravityAfter, CamPos
      <3>5. camera' \in Poses /\ debugCamera' \in Poses /\ debugCam' \in BOOLEAN
        BY <3>1, <3>3 DEF Update, CamPos, TypeOK
      <3>6. record' \in CamPos \cup {NoRecord} /\ fails' \in 0..MaxFails
        BY <3>1, BeginTyped, PeriodAssumption DEF Update, SaveCamera, TypeOK
      <3>7. seen' \in CamPos \cup {NoRecord} /\ age' \in Nat
        BY <3>1, BeginTyped DEF Update, SaveCamera, TypeOK
      <3>8. frame' \in 0..(Period - 1) /\ started' \in BOOLEAN
        BY <2>5, PeriodAssumption DEF Draw, TypeOK
      <3> QED  BY <2>5, <3>2, <3>4, <3>5, <3>6, <3>7, <3>8 DEF Draw, TypeOK
    <2>6. CASE Restart
      <3>1. camVel' \in [Axes -> Int] /\ frame' \in 0..(Period - 1)
        BY <2>6, PeriodAssumption DEF Restart
      <3> QED  BY <2>6, <3>1, PosesAssumption DEF Restart, TypeOK
    <2>7. CASE UNCHANGED vars
      BY <2>7 DEF vars, controls, cameras, saved, TypeOK
    <2> QED  BY <2>1, <2>2, <2>3, <2>4, <2>5, <2>6, <2>7 DEF Next
  <1> QED  BY <1>1, <1>2, PTL DEF Spec

\* The frames since the last attempt to save, at most: the counter is 1 after it, and
\* 0 again Period frames later or after a restart.
SinceSave == IF frame = 0 THEN Period - 1 ELSE frame - 1

\* The record is what frame f showed.
Holds(r, f) ==
    /\ r.view = f.view /\ r.inspect = f.inspect /\ r.flymode = f.flymode
    /\ r.inspect => r.draw = f.draw

\* The age of the record: Period frames for each failed save and those since then.
AgeInv ==
    /\ ~started => frame = 0
    /\ age <= fails * Period + SinceSave + 1
    /\ record # NoRecord => Holds(record, seen)

\* What a frame does to the record and its history.
LEMMA DrawStep ==
    ASSUME TypeOK, Draw
    PROVE  \E pos \in CamPos : SaveCamera(pos)
  <1>1. PICK now \in ButtonsThisFrame, pose \in Poses, ready \in BOOLEAN :
          Update(ButtonVel(now), pose, ready)
    BY DEF Draw
  <1>2. SaveCamera([Begin EXCEPT !.draw = pose])
    BY <1>1 DEF Update
  <1> QED  BY <1>2, BeginTyped

\* AgeInv is inductive: a save makes the record as young as the frame, and a frame
\* without one makes it a frame older and the time to the next a frame shorter.
LEMMA AgeAlways == Spec => []AgeInv
  <1>1. Init => AgeInv
    BY PeriodAssumption DEF Init, AgeInv, SinceSave
  <1>2. TypeOK /\ AgeInv /\ [Next]_vars => AgeInv'
    <2> SUFFICES ASSUME TypeOK, AgeInv, [Next]_vars PROVE AgeInv'
      OBVIOUS
    <2>0. /\ frame \in 0..(Period - 1) /\ fails \in Nat /\ age \in Nat
          /\ Period \in Nat \ {0} /\ fails * Period \in Nat
      BY PeriodAssumption, FailedPeriods DEF TypeOK
    <2>1. CASE UNCHANGED <<started, frame, record, fails, seen, age>>
      BY <2>1 DEF AgeInv, SinceSave, Holds
    <2>2. CASE Restart
      <3>1. UNCHANGED <<record, fails, seen, age>> /\ frame' = 0
        BY <2>2 DEF Restart
      <3>2. SinceSave <= SinceSave' /\ SinceSave \in Nat /\ SinceSave' \in Nat
        BY <2>0, <3>1 DEF SinceSave
      <3>3. PICK F \in Nat : F = fails * Period
        BY <2>0
      <3>4. age <= F + SinceSave' + 1
        <4>1. age <= F + SinceSave + 1
          BY <3>3 DEF AgeInv
        <4>2. age \in Nat
          BY <2>0
        <4>3. \A a, f, s, t \in Nat : a <= f + s + 1 /\ s <= t => a <= f + t + 1
          OBVIOUS
        <4> QED  BY <3>2, <4>1, <4>2, <4>3
      <3> QED  BY <3>1, <3>3, <3>4 DEF AgeInv, Holds
    <2>3. CASE Draw
      <3>1. PICK pos \in CamPos : SaveCamera(pos)
        BY <2>3, DrawStep
      <3>2. /\ started' /\ frame' \in 0..(Period - 1)
            /\ frame # 0 => frame' = (frame + 1) % Period
        BY <2>0, <2>3 DEF Draw, AgeInv
      <3>3. SinceSave' \in Nat
        <4>1. \A f \in 0..(Period - 1) : (IF f = 0 THEN Period - 1 ELSE f - 1) \in Nat
          BY <2>0
        <4> QED  BY <3>2, <4>1 DEF SinceSave
      <3>a. PICK F \in Nat : F = fails * Period /\ age <= F + SinceSave + 1
        BY <2>0 DEF AgeInv
      <3>4. CASE frame = 0 /\ record' = pos /\ fails' = 0 /\ seen' = Shown(pos) /\ age' = 1
        <4>1. Holds(record', seen')
          BY <3>4 DEF Holds, Shown, CamPos
        <4>2. fails' * Period = 0
          BY <2>0, <3>4
        <4> QED  BY <3>2, <3>3, <3>4, <4>1, <4>2 DEF AgeInv
      <3>5. CASE /\ frame = 0 /\ fails' = fails + 1 /\ age' = age + 1
                 /\ UNCHANGED <<record, seen>>
        <4>1. fails' * Period = F + Period
          BY <2>0, <3>5, <3>a, FailedPeriods
        <4>2. SinceSave = Period - 1
          BY <3>5 DEF SinceSave
        <4>3. age' <= (F + Period) + SinceSave' + 1
          <5>1. age \in Nat /\ Period \in Nat
            BY <2>0
          <5>2. \A a, f, p, t \in Nat : a <= f + (p - 1) + 1 => a + 1 <= (f + p) + t + 1
            OBVIOUS
          <5> QED  BY <3>3, <3>5, <3>a, <4>2, <5>1, <5>2
        <4> QED  BY <3>2, <3>5, <4>1, <4>3 DEF AgeInv, Holds
      <3>6. CASE frame # 0 /\ age' = age + 1 /\ UNCHANGED <<record, fails, seen>>
        <4>1. SinceSave = frame - 1
          BY <3>6 DEF SinceSave
        <4>2. SinceSave' = frame
          <5>1. CASE frame = Period - 1
            <6>1. frame' = 0
              BY <2>0, <3>2, <3>6, <5>1
            <6> QED  BY <5>1, <6>1 DEF SinceSave
          <5>2. CASE frame # Period - 1
            <6>1. frame + 1 \in 1..(Period - 1)
              BY <2>0, <5>2
            <6>2. frame' = frame + 1
              BY <2>0, <3>2, <3>6, <6>1
            <6> QED  BY <2>0, <6>2 DEF SinceSave
          <5> QED  BY <5>1, <5>2
        <4>3. age' <= fails' * Period + SinceSave' + 1
          BY <2>0, <3>6, <3>a, <4>1, <4>2
        <4> QED  BY <3>2, <3>6, <4>3 DEF AgeInv, Holds
      <3> QED  BY <3>1, <3>4, <3>5, <3>6 DEF SaveCamera
    <2>4. Next => Draw \/ Restart \/ UNCHANGED <<started, frame, record, fails, seen, age>>
      BY DEF Next, WmKeyDown, WmKeyUp, TouchDown, TouchUp, TouchDrag, saved
    <2>5. UNCHANGED vars => UNCHANGED <<started, frame, record, fails, seen, age>>
      BY DEF vars, saved
    <2> QED  BY <2>1, <2>2, <2>3, <2>4, <2>5
  <1> QED  BY <1>1, <1>2, WorldTyped, PTL DEF Spec

\* ReadCameraPos at the first Update: cameras and modes come back as the frame of the
\* last save showed them, one of the last Period frames, or of Period more for each
\* WriteCameraPos that failed.
THEOREM RestoresRecent == Spec => RestoredIsRecent
  <1> DEFINE Recent ==
               ~started /\ started' /\ record # NoRecord =>
                 /\ age <= Period * (fails + 1)
                 /\ inspect' = seen.inspect /\ flymode' = seen.flymode
                 /\ inspect' \/ ~Moving(camVel') => camera' = seen.view
                 /\ inspect' /\ ~Moving(camVel') => debugCamera' = seen.draw
  <1>1. TypeOK /\ AgeInv /\ [Next]_vars => [Recent]_vars
    <2> SUFFICES ASSUME TypeOK, AgeInv, Next, ~started, started', record # NoRecord
                 PROVE  /\ age <= Period * (fails + 1)
                        /\ inspect' = seen.inspect /\ flymode' = seen.flymode
                        /\ inspect' \/ ~Moving(camVel') => camera' = seen.view
                        /\ inspect' /\ ~Moving(camVel') => debugCamera' = seen.draw
      OBVIOUS
    <2>1. Draw
      BY DEF Next, WmKeyDown, WmKeyUp, TouchDown, TouchUp, TouchDrag, Restart
    <2>2. Holds(record, seen)
      BY DEF AgeInv
    <2>3. age <= Period * (fails + 1)
      <3>1. SinceSave = Period - 1
        BY DEF AgeInv, SinceSave
      <3>2. fails \in Nat /\ age \in Nat /\ Period \in Nat
        BY PeriodAssumption DEF TypeOK
      <3>3. fails * Period \in Nat /\ Period * (fails + 1) = fails * Period + Period
        BY <3>2, FailedPeriods
      <3> QED  BY <3>1, <3>2, <3>3 DEF AgeInv
    <2>4. Begin = record /\ record \in CamPos
      BY DEF Begin, Restored, TypeOK
    <2>5. PICK now \in ButtonsThisFrame, pose \in Poses, ready \in BOOLEAN :
            camVel' = ButtonVel(now) /\ Update(ButtonVel(now), pose, ready)
      BY <2>1 DEF Draw
    <2>6. inspect' = record.inspect /\ flymode' = record.flymode
      BY <2>4, <2>5 DEF Update
    <2>7. /\ inspect' /\ ~Moving(camVel') => debugCamera' = record.draw
          /\ inspect' \/ ~Moving(camVel') => camera' = record.view
      BY <2>4, <2>5, <2>6 DEF Update
    <2> QED  BY <2>2, <2>3, <2>6, <2>7 DEF Holds
  <1> QED  BY <1>1, WorldTyped, AgeAlways, PTL DEF Spec, RestoredIsRecent
=============================================================================
