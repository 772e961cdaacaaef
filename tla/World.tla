------------------------------- MODULE World --------------------------------
(***************************************************************************)
(* Input, cameras and the saved camera: World (core/World.cpp) with the    *)
(* parts of UIManager, Engine, Level, Application and the window procedure *)
(* (win/map.cpp) through which a key, a touch or a frame reaches it.  All  *)
(* of it runs on the main thread: a step is a window message or a frame.   *)
(*                                                                         *)
(* A pose is a position and a direction of a camera; what the arithmetic   *)
(* of a drag or a move makes of it is any pose.  No control is ever added  *)
(* to UIManager, so that m_buttonDown and m_activeTouch are set and reset  *)
(* together: both are `touch`.  A lost key-up or button-up (the window has *)
(* no focus, or the mouse has left it) is a message that does not come.    *)
(* The keys P, B and 1 to 9 set isPaused, g_showOctBoxes and g_maxTileLod, *)
(* which nothing here reads.                                               *)
(***************************************************************************)
EXTENDS Integers

CONSTANTS
    Axes,           \* the components of m_camVel
    Poses,          \* poses of a camera
    Fly0,           \* Camera::Fly(), the pose of a new camera
    FlyDefault,     \* the pose without a saved camera
    Period,         \* frames from one save to the next (60 in the code)
    MaxFails,       \* bound on the failed saves in a row
    NoRecord        \* no "cam" entry in the database

ASSUME AxesAssumption == Axes \subseteq {"x", "y", "z"}
ASSUME PosesAssumption == Fly0 \in Poses /\ FlyDefault \in Poses
ASSUME PeriodAssumption == Period \in Nat \ {0} /\ MaxFails \in Nat

Neg == [x |-> "A", y |-> "Shift", z |-> "S"]
Pos == [x |-> "D", y |-> "Space", z |-> "W"]
MoveKeys == {Neg[a] : a \in Axes} \cup {Pos[a] : a \in Axes}
Keys == MoveKeys \cup {"F", "I"}

\* Level::CamPos
CamPos == [view : Poses, draw : Poses, flymode : BOOLEAN, inspect : BOOLEAN]

VARIABLES
    keystate,       \* the keys of the keyboard that are down (WndProc)
    buttons,        \* sButtonStates: the on-screen button that is held, if any
    touch,          \* m_buttonDown and m_activeTouch
    camVel,         \* m_camVel, in units of speed
    falling,        \* m_gravityVel is not 0
    flymode, inspect,
    camera,         \* Engine::m_camera, the one tiles are selected for
    debugCamera,    \* Engine::m_debugCamera
    debugCam,       \* Engine::m_debugCam: the debug camera is drawn with
    started,        \* the first Update has been (m_worldGroup)
    frame,          \* m_frameIdx % Period
    record,         \* the "cam" entry of the database
    fails,          \* history: the saves that failed since the record was written
    seen,           \* history: what the frame showed that wrote the record
    age             \* history: the frames from that one on

controls == <<keystate, buttons, touch, camVel>>
cameras == <<camera, debugCamera, debugCam>>
saved == <<frame, record, fails, seen, age>>
vars == <<controls, falling, flymode, inspect, cameras, started, saved>>

TypeOK ==
    /\ keystate \in SUBSET Keys /\ buttons \in SUBSET MoveKeys /\ touch \in BOOLEAN
    /\ camVel \in [Axes -> Int] /\ falling \in BOOLEAN
    /\ flymode \in BOOLEAN /\ inspect \in BOOLEAN
    /\ camera \in Poses /\ debugCamera \in Poses /\ debugCam \in BOOLEAN
    /\ started \in BOOLEAN /\ frame \in 0..(Period - 1)
    /\ record \in CamPos \cup {NoRecord} /\ fails \in 0..MaxFails
    /\ seen \in CamPos \cup {NoRecord} /\ age \in Nat

-----------------------------------------------------------------------------
\* The constructors of World, UIManager, Engine and Application.
Init ==
    /\ keystate = {} /\ buttons = {} /\ touch = FALSE
    /\ camVel = [a \in Axes |-> 0] /\ falling = FALSE
    /\ flymode = TRUE /\ inspect = FALSE
    /\ camera = Fly0 /\ debugCamera = Fly0 /\ debugCam = FALSE
    /\ started = FALSE /\ frame = 0
    /\ record = NoRecord /\ fails = 0 /\ seen = NoRecord /\ age = 0

\* The process ends and is started again: of its state the database is left.
Restart ==
    /\ started /\ started' = FALSE /\ frame' = 0
    /\ keystate' = {} /\ buttons' = {} /\ touch' = FALSE
    /\ camVel' = [a \in Axes |-> 0] /\ falling' = FALSE
    /\ flymode' = TRUE /\ inspect' = FALSE
    /\ camera' = Fly0 /\ debugCamera' = Fly0 /\ debugCam' = FALSE
    /\ UNCHANGED <<record, fails, seen, age>>

SetDbgCam(on) == debugCam' = on /\ debugCamera' = camera

\* World::KeyDown and World::KeyUp of the keys that move: the velocity.
Pushed(vel, keys) ==
    [a \in Axes |-> vel[a] + (IF Pos[a] \in keys THEN 1 ELSE 0)
                           - (IF Neg[a] \in keys THEN 1 ELSE 0)]

Released(vel, keys) == [a \in Axes |-> IF {Pos[a], Neg[a]} \cap keys # {} THEN 0 ELSE vel[a]]

KeyDown(k) ==
    /\ camVel' = Pushed(camVel, {k})
    /\ flymode' = (flymode # (k = "F"))
    /\ inspect' = (inspect # (k = "I"))
    /\ \/ k = "I" /\ SetDbgCam(inspect')
       \/ k # "I" /\ UNCHANGED <<debugCam, debugCamera>>
    /\ UNCHANGED camera

\* Mutant of Fresh: the repeated key-downs of a held key are not filtered.
FreshAlways(k) == TRUE

Fresh(k) == k \notin keystate

\* WM_KEYDOWN
WmKeyDown(k) ==
    /\ Fresh(k) /\ KeyDown(k) /\ keystate' = keystate \cup {k}
    /\ UNCHANGED <<buttons, touch, falling, started, saved>>

\* WM_KEYUP
WmKeyUp(k) ==
    /\ k \in keystate /\ keystate' = keystate \ {k}
    /\ camVel' = Released(camVel, {k})
    /\ UNCHANGED <<buttons, touch, falling, flymode, inspect, cameras, started, saved>>

\* WM_LBUTTONDOWN and WM_LBUTTONUP: a drag of the camera, and of an on-screen button.
TouchDown ==
    /\ ~touch /\ touch' = TRUE
    /\ UNCHANGED <<keystate, buttons, camVel, falling, flymode, inspect, cameras, started, saved>>

TouchUp ==
    /\ touch /\ touch' = FALSE
    /\ UNCHANGED <<keystate, buttons, camVel, falling, flymode, inspect, cameras, started, saved>>

\* e.DrawCam().SetFly(pose)
SetDrawCam(pose) ==
    IF debugCam THEN debugCamera' = pose /\ UNCHANGED camera
                ELSE camera' = pose /\ UNCHANGED debugCamera

\* Mutant of TouchDrag: the drag turns the view camera.
TouchDragView(pose) ==
    /\ touch /\ camera' = pose
    /\ UNCHANGED <<controls, falling, flymode, inspect, debugCamera, debugCam, started, saved>>

\* WM_MOUSEMOVE
TouchDrag(pose) ==
    /\ touch /\ SetDrawCam(pose)
    /\ UNCHANGED <<controls, falling, flymode, inspect, debugCam, started, saved>>

-----------------------------------------------------------------------------
(* A frame (Application::Draw): the on-screen buttons, then World::Update. *)

\* The on-screen buttons that ImGui may report: the one that the touch began on,
\* until the touch ends.
ButtonsThisFrame ==
    IF ~touch THEN {{}}
    ELSE IF buttons # {} THEN {buttons}
    ELSE {{}} \cup {{k} : k \in MoveKeys}

\* The key-downs and key-ups of the buttons that changed.
ButtonVel(now) == Pushed(Released(camVel, buttons \ now), now \ buttons)

\* Mutant of Restored: DrawCam is set last.
RestoredDrawLast ==
    IF record = NoRecord
    THEN [view |-> Fly0, draw |-> Fly0, flymode |-> flymode, inspect |-> inspect]
    ELSE [record EXCEPT !.view = IF record.inspect THEN @ ELSE record.draw]

\* The first Update: what becomes of cameras and modes.  DrawCam is set before
\* ViewCam, so that where they are one camera it is ViewCam's pose that stays.
Restored ==
    IF record = NoRecord
    THEN [view |-> FlyDefault, draw |-> Fly0, flymode |-> flymode, inspect |-> inspect]
    ELSE record

\* Cameras and modes at the start of an Update.
Begin ==
    IF started
    THEN [view |-> camera, draw |-> debugCamera, flymode |-> flymode, inspect |-> inspect]
    ELSE Restored

Moving(vel) == falling \/ \E a \in Axes : vel[a] # 0

\* Mutant of GravityAfter: a mode in which nothing falls leaves the velocity as it is.
GravityAfterKept(b, ready) == IF b.inspect \/ b.flymode THEN falling ELSE ready

\* m_gravityVel: `ready` says that the tile at the camera is loaded.
GravityAfter(b, ready) == ~b.inspect /\ ~b.flymode /\ ready

\* What there is to see of a frame: the modes, the view camera, and the debug camera
\* if it is used.
Shown(pos) == [pos EXCEPT !.draw = IF pos.inspect THEN pos.draw ELSE pos.view]

\* WriteCameraPos, every Period frames; the result of Put is not looked at.
SaveCamera(pos) ==
    \/ /\ frame = 0 /\ record' = pos
       /\ fails' = 0 /\ seen' = Shown(pos) /\ age' = 1
    \/ /\ frame = 0 /\ fails < MaxFails
       /\ fails' = fails + 1 /\ age' = age + 1 /\ UNCHANGED <<record, seen>>
    \/ /\ frame # 0 /\ age' = age + 1 /\ UNCHANGED <<record, fails, seen>>

\* World::Update, with the camera moved to `pose`.  While it is not drawn with,
\* the debug camera's pose does not matter: SetDbgCam sets it.
Update(vel, pose, ready) ==
    LET b == Begin
        on == IF started \/ record = NoRecord THEN debugCam ELSE b.inspect
        pos == [b EXCEPT !.draw = pose]
    IN  /\ ~Moving(vel) => pose = IF on THEN b.draw ELSE b.view
        /\ debugCam' = on
        /\ camera' = IF on THEN b.view ELSE pose
        /\ debugCamera' = IF on THEN pose ELSE debugCamera
        /\ flymode' = b.flymode /\ inspect' = b.inspect
        /\ falling' = GravityAfter(b, ready)
        /\ SaveCamera(pos)

\* The frame number goes on by one, after the first frame from where bgfx is.
Draw ==
    /\ \E now \in ButtonsThisFrame, pose \in Poses, ready \in BOOLEAN :
         /\ buttons' = now /\ camVel' = ButtonVel(now)
         /\ Update(ButtonVel(now), pose, ready)
    /\ started' = TRUE
    /\ IF started THEN frame' = (frame + 1) % Period ELSE frame' \in 0..(Period - 1)
    /\ UNCHANGED <<keystate, touch>>

Next ==
    \/ \E k \in Keys : WmKeyDown(k) \/ WmKeyUp(k)
    \/ TouchDown \/ TouchUp
    \/ \E pose \in Poses : TouchDrag(pose)
    \/ Draw \/ Restart

\* A timer of the window makes it draw.
Spec == Init /\ [][Next]_vars /\ WF_vars(Draw)

-----------------------------------------------------------------------------
(* Properties.                                                             *)

Held(k) == (IF k \in keystate THEN 1 ELSE 0) + (IF k \in buttons THEN 1 ELSE 0)

\* The camera is never pushed harder than the keys and on-screen buttons that are
\* held push it, however their key-downs and key-ups interleave: key-down adds to
\* the velocity and key-up of any of the axis' keys sets it to 0.
VelocityWithinHeld ==
    \A a \in Axes : -Held(Neg[a]) <= camVel[a] /\ camVel[a] <= Held(Pos[a])

\* While the debug camera is used the view camera, for which tiles are selected,
\* loaded and culled, stays where it is.
InspectFreezesView ==
    [][started /\ started' /\ inspect /\ inspect' => camera' = camera]_vars

\* A restart brings back the cameras and modes of the frame that saved them last, as
\* far as the first frame does not move them already; and that frame is one of the
\* last Period, or of Period more for each save that failed.
RestoredIsRecent ==
    [][~started /\ started' /\ record # NoRecord =>
         /\ age <= Period * (fails + 1)
         /\ inspect' = seen.inspect /\ flymode' = seen.flymode
         /\ inspect' \/ ~Moving(camVel') => camera' = seen.view
         /\ inspect' /\ ~Moving(camVel') => debugCamera' = seen.draw]_vars

AtRest == ~Moving(camVel)

\* With all keys and buttons released, in fly or inspect mode, the camera comes to
\* rest: nothing of an earlier push or fall goes on moving it.
ComesToRest ==
    <>[](keystate \cap MoveKeys = {} /\ ~touch /\ (flymode \/ inspect)) => <>[]AtRest
=============================================================================
