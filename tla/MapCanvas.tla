------------------------------- MODULE MapCanvas -------------------------------
(***************************************************************************)
(* The map the operator points at (src/src/components/RobotMap.tsx with     *)
(* src/src/lib/mapGeometry.ts): stations drawn through a zoomed, turned and *)
(* moved view, and pointer events taken back through it to a station, a     *)
(* world point or a pose with a direction.                                 *)
(*                                                                         *)
(* World points are in grid cells, pointer positions and the view's offset *)
(* in hundredths of a pixel, the zoom in hundredths.  The view is turned by *)
(* six presses at a time and a map by quarters, so that sine and cosine    *)
(* are whole numbers.                                                      *)
(***************************************************************************)
EXTENDS Integers, FiniteSets

CONSTANTS
    Purposes,              \* what the canvas is used for: "station", "point", "pose"
    Plans,                 \* the occupancy maps: columns, rows, origin, quarters
    Widths,                \* the widths of the container
    Places,                \* the stations' places, by name
    Spots,                 \* world points the operator aims at
    NoPlace, MaxLooks      \* MaxLooks bounds the changes of the view

Lower(a, b) == IF a < b THEN a ELSE b
Upper(a, b) == IF a > b THEN a ELSE b

\* updateCanvasSize(), for a window that allows the heights 360 to 580.
Height(width, plan) == Lower(580, Upper(360, (width * plan.rows) \div plan.columns))

\* Maps have cells, a cell is drawn at least one pixel wide, and some window is
\* the narrowest.
ASSUME CanvasAssumption ==
    /\ \A plan \in Plans :
         /\ plan.columns \in Nat \ {0} /\ plan.rows \in Nat \ {0}
         /\ plan.origin \in Int \X Int /\ plan.quarters \in 0..3
         /\ \A width \in Widths :
              plan.columns <= width - 36 /\ plan.rows <= Height(width, plan) - 36
    /\ Plans # {} /\ Widths \subseteq Nat
    /\ \E width \in Widths : \A other \in Widths : width <= other
    /\ Places \in [DOMAIN Places -> Int \X Int] /\ Spots \subseteq Int \X Int
    /\ NoPlace \notin DOMAIN Places

VARIABLES
    mcPurpose,             \* the properties the component is given
    mcPlan, mcWidth,       \* occupancyMap, canvasSize
    mcView,                \* zoom, quarter turns and offset
    mcAt,                  \* where the pointer is
    mcPan, mcGesture,      \* panGesture (with its pointer down), poseGesture
    mcHover, mcPick,       \* the station pointed at; parity of the picks, and the last
    mcPose,                \* the pose or point last handed to the page
    mcViews

mcVars == <<mcPurpose, mcPlan, mcWidth, mcView, mcAt, mcPan, mcGesture, mcHover,
            mcPick, mcPose, mcViews>>

NoPan == [down |-> FALSE, from |-> <<0, 0>>, start |-> <<0, 0>>, moved |-> FALSE]
NoPose == [at |-> <<0, 0>>, yaw |-> <<0, 0>>, set |-> FALSE]

Add(p, q)   == <<p[1] + q[1], p[2] + q[2]>>
Times(k, p) == <<k * p[1], k * p[2]>>
Square(p)   == p[1] * p[1] + p[2] * p[2]
Within(p, r) == p[1] \in -r..r /\ p[2] \in -r..r /\ Square(p) <= r * r

\* A turn by q quarters, with q taken modulo 4.
Turn(q, p) ==
    CASE q % 4 = 0 -> p
      [] q % 4 = 1 -> <<-p[2], p[1]>>
      [] q % 4 = 2 -> <<-p[1], -p[2]>>
      [] q % 4 = 3 -> <<p[2], -p[1]>>

Size == <<mcWidth, Height(mcWidth, mcPlan)>>
Centre == <<Size[1] \div 2, Size[2] \div 2>>

\* calculateMapViewport(): the map fits into the canvas with a margin of 18.
Scale == Lower((Size[1] - 36) \div mcPlan.columns, (Size[2] - 36) \div mcPlan.rows)
Corner == <<(Size[1] - mcPlan.columns * Scale) \div 2, (Size[2] - mcPlan.rows * Scale) \div 2>>

Inside(grid) ==
    grid[1] \in 0..(mcPlan.columns - 1) /\ grid[2] \in 0..(mcPlan.rows - 1)

\* worldToCanvas(): the grid's rows count upwards, the canvas's downwards.
GridOf(world) == Turn(-mcPlan.quarters, Add(world, Times(-1, mcPlan.origin)))
WorldToCanvas(world) ==
    LET grid == GridOf(world) IN
    <<Corner[1] + grid[1] * Scale, Corner[2] + (mcPlan.rows - 1 - grid[2]) * Scale>>

\* The canvas's transformation while it draws.
CanvasOf(world) ==
    Add(Add(Times(100, Centre), mcView.offset),
        Times(mcView.zoom,
              Turn(mcView.turns, Add(WorldToCanvas(world), Times(-1, Centre)))))

\* Seeded fault: the view is turned back the wrong way.
PointFromClient_Sine(at) ==
    Add(Turn(mcView.turns, Add(at, Times(-1, Add(Times(100, Centre), mcView.offset)))),
        Times(mcView.zoom, Centre))

\* canvasPointFromClient(), times the zoom.
PointFromClient(at) ==
    Add(Turn(-mcView.turns, Add(at, Times(-1, Add(Times(100, Centre), mcView.offset)))),
        Times(mcView.zoom, Centre))

\* canvasToWorld(), to the grid point; exact where the pointer aims at one.
CanvasToGrid(point) ==
    <<(point[1] - mcView.zoom * Corner[1]) \div (mcView.zoom * Scale),
      mcPlan.rows - 1 - (point[2] - mcView.zoom * Corner[2]) \div (mcView.zoom * Scale)>>
CanvasToWorld(point) ==
    Add(mcPlan.origin, Turn(mcPlan.quarters, CanvasToGrid(point)))
PointsInside(at) == Inside(CanvasToGrid(PointFromClient(at)))

\* nearestStation() at no more than 20 pixels of the unzoomed canvas.
OnMap == {name \in DOMAIN Places : Inside(GridOf(Places[name]))}
Away(at, name) ==
    Add(PointFromClient(at), Times(-mcView.zoom, WorldToCanvas(Places[name])))
Nearest(at) ==
    LET near == {name \in OnMap : Within(Away(at, name), 20 * mcView.zoom)} IN
    {name \in near : \A other \in near :
       Square(Away(at, name)) <= Square(Away(at, other))}

-----------------------------------------------------------------------------
\* The pointer goes down: a pose begins where it points, or the view is held.
MCDown ==
    /\ ~mcPan.down /\ ~mcGesture.set
    /\ IF mcPurpose # "pose"
       THEN /\ mcPan' = [down |-> TRUE, from |-> mcAt, start |-> mcView.offset,
                         moved |-> FALSE]
            /\ UNCHANGED <<mcGesture, mcPose>>
       ELSE /\ PointsInside(mcAt)
            /\ mcGesture' = [at |-> CanvasToWorld(PointFromClient(mcAt)),
                             yaw |-> mcPose.yaw, set |-> TRUE]
            /\ mcPose' = mcGesture' /\ UNCHANGED mcPan
    /\ UNCHANGED <<mcPurpose, mcPlan, mcWidth, mcView, mcAt, mcHover, mcPick, mcViews>>

\* Moving pans the view, turns the pose, or looks for a station to point out.
MCMove(to) ==
    LET shift == Add(to, Times(-1, mcPan.from))
        point == CanvasToWorld(PointFromClient(to))
    IN  /\ mcViews < MaxLooks /\ mcViews' = mcViews + 1 /\ to # mcAt
        /\ mcAt' = to
        /\ CASE mcPan.down ->
                  /\ mcPan' = [mcPan EXCEPT !.moved = @ \/ ~Within(shift, 400)]
                  /\ mcView' = [mcView EXCEPT !.offset = Add(mcPan.start, shift)]
                  /\ mcHover' = NoPlace /\ UNCHANGED mcPose
             [] ~mcPan.down /\ mcGesture.set ->
                  /\ mcPose' = IF PointsInside(to) /\ point # mcGesture.at
                               THEN [mcGesture EXCEPT !.yaw = Add(point, Times(-1, mcGesture.at))]
                               ELSE IF PointsInside(to) THEN mcGesture ELSE mcPose
                  /\ UNCHANGED <<mcPan, mcView, mcHover>>
             [] OTHER ->
                  /\ mcHover' \in IF Nearest(to) = {} THEN {NoPlace} ELSE Nearest(to)
                  /\ UNCHANGED <<mcPan, mcView, mcPose>>
        /\ UNCHANGED <<mcPurpose, mcPlan, mcWidth, mcGesture, mcPick>>

\* The pointer goes up and the click follows; a cancelled pointer has no click.
\* A pan of more than 4 pixels suppresses the click, a pose gesture ignores it.
MCUp(cancelled) ==
    /\ mcPan.down \/ mcGesture.set
    /\ mcPan' = NoPan /\ mcGesture' = NoPose
    /\ IF cancelled \/ mcPan.moved \/ mcPurpose = "pose"
       THEN UNCHANGED <<mcPick, mcPose>>
       ELSE IF mcPurpose = "point"
       THEN /\ mcPose' = IF PointsInside(mcAt)
                         THEN [at |-> CanvasToWorld(PointFromClient(mcAt)),
                               yaw |-> mcPose.yaw, set |-> TRUE] ELSE mcPose
            /\ UNCHANGED mcPick
       ELSE /\ mcPick' \in IF Nearest(mcAt) = {} THEN {mcPick}
                           ELSE {[count |-> 1 - mcPick.count, place |-> name]
                                   : name \in Nearest(mcAt)}
            /\ UNCHANGED mcPose
    /\ UNCHANGED <<mcPurpose, mcPlan, mcWidth, mcView, mcAt, mcHover, mcViews>>

\* The buttons and the wheel.
MCZoom(amount) ==
    /\ mcViews < MaxLooks /\ mcViews' = mcViews + 1
    /\ mcView' = [mcView EXCEPT !.zoom = Lower(400, Upper(60, @ + amount))]
    /\ UNCHANGED <<mcPurpose, mcPlan, mcWidth, mcAt, mcPan, mcGesture, mcHover, mcPick, mcPose>>

MCRotate ==
    /\ mcViews < MaxLooks /\ mcViews' = mcViews + 1
    /\ mcView' = [mcView EXCEPT !.turns = (@ + 1) % 4]
    /\ UNCHANGED <<mcPurpose, mcPlan, mcWidth, mcAt, mcPan, mcGesture, mcHover, mcPick, mcPose>>

MCReset ==
    /\ mcView' = [zoom |-> 100, turns |-> 0, offset |-> <<0, 0>>]
    /\ UNCHANGED <<mcPurpose, mcPlan, mcWidth, mcAt, mcPan, mcGesture, mcHover,
                   mcPick, mcPose, mcViews>>

\* The window is resized, or another map arrives.
MCResize(width, plan) ==
    /\ mcViews < MaxLooks /\ mcViews' = mcViews + 1
    /\ mcWidth' = width /\ mcPlan' = plan /\ <<width, plan>> # <<mcWidth, mcPlan>>
    /\ UNCHANGED <<mcPurpose, mcView, mcAt, mcPan, mcGesture, mcHover, mcPick, mcPose>>

MCInit ==
    /\ mcPurpose \in Purposes
    /\ mcPlan = (CHOOSE plan \in Plans : TRUE)
    /\ mcWidth = (CHOOSE width \in Widths : \A other \in Widths : width <= other)
    /\ mcView = [zoom |-> 100, turns |-> 0, offset |-> <<0, 0>>]
    /\ mcAt = <<100, 100>> /\ mcPan = NoPan /\ mcGesture = NoPose
    /\ mcHover = NoPlace /\ mcPick = [count |-> 0, place |-> NoPlace] /\ mcPose = NoPose
    /\ mcViews = 0

\* The pointer is moved onto what is drawn somewhere; held, a little or far off.
Aims == IF mcPan.down THEN {Add(mcAt, shift) : shift \in {<<300, 0>>, <<0, -40000>>}}
        ELSE {CanvasOf(world) : world \in Spots}

MCNext ==
    \/ MCDown \/ MCReset
    \/ \E to \in Aims : MCMove(to)
    \/ \E cancelled \in BOOLEAN : MCUp(cancelled)
    \/ \E amount \in {20, -15} : MCZoom(amount)
    \/ MCRotate
    \/ \E width \in Widths : MCResize(width, mcPlan)
    \/ \E plan \in Plans : MCResize(mcWidth, plan)

-----------------------------------------------------------------------------
\* The stations whose disc (13 pixels, zoomed) is drawn under the pointer.
Under(at) ==
    {name \in OnMap : Within(Add(at, Times(-1, CanvasOf(Places[name]))), 13 * mcView.zoom)}

\* What the operator points at is what is drawn there, whatever was zoomed,
\* turned, panned, resized or reloaded before: a click on the disc of one
\* station picks that station and no other, a pointer over a disc names its
\* station, and a pose begins at the world point drawn under the pointer
\* (lines 165-171 and 213-306 against mapGeometry.ts 39-91).
PointsAtWhatIsDrawn ==
    [][ /\ mcPick'.count # mcPick.count =>
             \A name \in Under(mcAt) : Under(mcAt) = {name} => mcPick'.place = name
        /\ mcAt' # mcAt /\ ~mcPan.down /\ ~mcGesture.set /\ Under(mcAt') # {} =>
             mcHover' \in Under(mcAt')
        /\ mcPose'.at # mcPose.at =>
             \A world \in Spots : CanvasOf(world) = mcAt => mcPose'.at = world ]_mcVars
=============================================================================
