-------------------------- MODULE ApplicationDrawer --------------------------
(***************************************************************************)
(* packages/app/src/components/Root: ApplicationDrawer.tsx chooses which   *)
(* of the plugins' drawers is displayed, ResizableDrawer.tsx keeps its     *)
(* width.  A plugin holds the state of its drawer; an exposer reports it   *)
(* in an effect.  ApplicationDrawer keeps the reports in a ref and renders *)
(* again only when activeDrawerId changes; what it renders, and the        *)
(* callback it hands out, is of that render.                               *)
(***************************************************************************)
EXTENDS Integers

CONSTANTS
  Drawers,         \* 1 .. n, in the order their exposers are mounted
  Widths,          \* the widths in use, in pixels
  minWidth, maxWidth,
  Calm,            \* a user event waits until React is through with the last one
  MaxEvents        \* bound: user events

NoDrawer == 0

\* The entry of a drawer that has not reported yet.
Absent == [isDrawerOpen |-> FALSE, drawerWidth |-> 0]

ASSUME DrawerAssumption ==
  /\ Drawers \subseteq Nat \ {0}
  /\ Widths \subseteq Nat \ {0}
  /\ minWidth \in Widths /\ maxWidth \in Widths
  /\ Calm \in BOOLEAN
  /\ MaxEvents \in Nat

VARIABLES
  plugin,          \* isDrawerOpen and drawerWidth as each plugin has them
  due,             \* drawers whose exposer effect is due
  drawerStates,    \* drawerStatesRef: the last report of each drawer
  setActive,       \* activeDrawerId with the updates that are queued
  activeDrawerId,  \* activeDrawerId of the last render
  renderedStates,  \* the reports the last render has read
  width,           \* ResizableDrawer: its width, or 0 when it is not mounted
  syncDue,         \* ResizableDrawer: its width effect is due
  events,          \* user events so far
  switched         \* history: one event has closed a drawer and opened another

drawerVars == <<plugin, due, drawerStates, setActive, activeDrawerId, renderedStates,
                width, syncDue, events, switched>>

State == [isDrawerOpen : BOOLEAN, drawerWidth : Widths]

AtLeast(a, b) == IF a < b THEN b ELSE a

Open(d) == plugin[d].isDrawerOpen

\* React has nothing left to do.
Idle == due = {} /\ setActive = activeDrawerId /\ ~ syncDue

-----------------------------------------------------------------------------
DrawerInit ==
  /\ plugin \in [Drawers -> State]
  /\ due = Drawers
  /\ drawerStates = [d \in Drawers |-> Absent]
  /\ setActive = NoDrawer
  /\ activeDrawerId = NoDrawer
  /\ renderedStates = drawerStates
  /\ width = 0
  /\ syncDue = FALSE
  /\ events = 0
  /\ switched = FALSE

UserEvent ==
  /\ events < MaxEvents
  /\ Calm => Idle
  /\ events' = events + 1
  /\ UNCHANGED <<drawerStates, setActive, activeDrawerId, renderedStates>>

\* The plugins open or close their drawers.
Toggle(ds) ==
  /\ UserEvent
  /\ plugin' = [d \in Drawers |->
                  IF d \in ds THEN [plugin[d] EXCEPT !.isDrawerOpen = ~ @] ELSE plugin[d]]
  /\ due' = due \cup ds
  /\ UNCHANGED <<width, syncDue>>

\* A plugin opens or closes its drawer.
ToggleOne(d) == Toggle({d}) /\ UNCHANGED switched

\* One event closes a drawer and opens another.
Switch(d, e) ==
  /\ Open(d) /\ ~ Open(e)
  /\ Toggle({d, e})
  /\ switched' = TRUE

\* onMouseMove: the drawer takes the width and tells the plugin.
Drag(w) ==
  /\ UserEvent
  /\ width # 0
  /\ minWidth <= w /\ w <= maxWidth
  /\ w # width
  /\ width' = w
  /\ plugin' = [plugin EXCEPT ![activeDrawerId] = [@ EXCEPT !.drawerWidth = w]]
  /\ due' = due \cup {activeDrawerId}
  /\ syncDue' = TRUE
  /\ UNCHANGED switched

-----------------------------------------------------------------------------
WasOpen(d) == drawerStates[d].isDrawerOpen

\* Broken: a closing drawer clears the active one whichever that is.
handleDrawerStateChange_ClearAlways(d) ==
  IF ~ WasOpen(d) /\ Open(d) THEN d
  ELSE IF WasOpen(d) /\ ~ Open(d) THEN NoDrawer
  ELSE setActive

\* The activeDrawerId it compares with is the one of the render that handed it out.
handleDrawerStateChange(d) ==
  IF ~ WasOpen(d) /\ Open(d) THEN d
  ELSE IF WasOpen(d) /\ ~ Open(d) /\ d = activeDrawerId THEN NoDrawer
  ELSE setActive

\* Effects run in the order of the exposers.
Report(d) ==
  /\ d \in due
  /\ \A e \in due : d <= e
  /\ setActive' = handleDrawerStateChange(d)
  /\ drawerStates' = [drawerStates EXCEPT ![d] = plugin[d]]
  /\ due' = due \ {d}
  /\ UNCHANGED <<plugin, activeDrawerId, renderedStates, width, syncDue, events, switched>>

\* Broken: the drawers that lost are left open.
Others_None == {}

\* Close other drawers when one becomes active.
Others ==
  IF setActive = NoDrawer THEN {} ELSE {d \in Drawers \ {setActive} : WasOpen(d)}

\* ApplicationDrawer renders.  ResizableDrawer is unmounted, mounted, or given other
\* props, which its effect will take over; then the other drawers are closed.
Render ==
  /\ due = {} /\ ~ syncDue
  /\ setActive # activeDrawerId
  /\ activeDrawerId' = setActive
  /\ renderedStates' = drawerStates
  /\ width' = IF setActive = NoDrawer THEN 0
              ELSE IF width # 0 THEN width
              ELSE AtLeast(drawerStates[setActive].drawerWidth, minWidth)
  /\ syncDue' = (setActive # NoDrawer)
  /\ plugin' = [d \in Drawers |->
                  IF d \in Others THEN [plugin[d] EXCEPT !.isDrawerOpen = FALSE] ELSE plugin[d]]
  /\ due' = Others
  /\ UNCHANGED <<drawerStates, setActive, events, switched>>

\* Broken: the effect compares with the width before it is clamped.
SyncWidth_Unclamped ==
  /\ syncDue /\ due = {}
  /\ LET external == renderedStates[activeDrawerId].drawerWidth
     IN /\ width' = AtLeast(external, minWidth)
        /\ syncDue' = (external # width')
  /\ UNCHANGED <<plugin, due, drawerStates, setActive, activeDrawerId, renderedStates,
                 events, switched>>

\* The width effect: the width of the last render's props wins; a plugin below the
\* minimum is told the minimum.
SyncWidth ==
  /\ syncDue /\ due = {}
  /\ LET external == renderedStates[activeDrawerId].drawerWidth
         clamped == AtLeast(external, minWidth)
     IN /\ width' = clamped
        /\ syncDue' = (clamped # width)
        /\ IF clamped # width /\ external < minWidth
             THEN /\ plugin' = [plugin EXCEPT ![activeDrawerId] = [@ EXCEPT !.drawerWidth = clamped]]
                  /\ due' = due \cup {activeDrawerId}
             ELSE UNCHANGED <<plugin, due>>
  /\ UNCHANGED <<drawerStates, setActive, activeDrawerId, renderedStates, events, switched>>

ReactStep == (\E d \in Drawers : Report(d)) \/ Render \/ SyncWidth

DrawerNext ==
  \/ ReactStep
  \/ \E d \in Drawers : ToggleOne(d)
  \/ \E d, e \in Drawers : Switch(d, e)
  \/ \E w \in Widths : Drag(w)

DrawerSpec == DrawerInit /\ [][DrawerNext]_drawerVars

\* React runs the effects of a commit and renders what they have set.
DrawerFairSpec == DrawerSpec /\ WF_drawerVars(ReactStep)

-----------------------------------------------------------------------------
\* "any previously open drawer is automatically closed, ensuring only one drawer is
\* visible at a time" (docs/dynamic-plugins/frontend-plugin-wiring.md), also when
\* several are open as the page loads.
OneDrawerOpen == Idle => \A d, e \in Drawers : Open(d) /\ Open(e) => d = e

\* A drawer is open in its plugin when it is the one displayed, and only then: none
\* is open and hidden, none displayed and closed: drawers "can be opened and closed
\* independently" (docs/dynamic-plugins/frontend-plugin-wiring.md).
OpenDrawerIsShown == Idle => \A d \in Drawers : Open(d) <=> d = activeDrawerId

\* That much holds as long as no event closes one drawer and opens another.
SteadyDrawerIsShown == ~ switched => OpenDrawerIsShown

\* Closing the others and telling each other widths comes to an end.
DrawersSettle == []<>(Idle)
=============================================================================
