---------------------------- MODULE DrawerProofs ----------------------------
(***************************************************************************)
(* Theorems about ApplicationDrawer, for every number of drawers, user     *)
(* events and widths, when React comes to rest between two user events.    *)
(***************************************************************************)
EXTENDS ApplicationDrawer, TLAPS

\* The state is well typed; a drawer is mounted only when one is active.
DrawerTypeOK ==
  /\ plugin \in [Drawers -> State]
  /\ due \in SUBSET Drawers
  /\ drawerStates \in [Drawers -> (State \cup {Absent})]
  /\ setActive \in Drawers \cup {NoDrawer}
  /\ activeDrawerId \in Drawers \cup {NoDrawer}
  /\ renderedStates \in [Drawers -> (State \cup {Absent})]
  /\ width \in Widths \cup {0}
  /\ syncDue \in BOOLEAN
  /\ width # 0 \/ syncDue => activeDrawerId # NoDrawer

-----------------------------------------------------------------------------
\* A drawer is open and its exposer has still to say so.
Opening(d) == d \in due /\ Open(d) /\ ~ WasOpen(d)

\* The active drawer is closed and its exposer has still to say so.
ActiveCloses == activeDrawerId \in due /\ ~ Open(activeDrawerId)

AtMostOneOpen == \A d, e \in Drawers : Open(d) /\ Open(e) => d = e

\* What has been reported: an exposer with nothing to report has said what its plugin
\* says, the drawer to activate is open, and a drawer that opens is not the active one.
ReportsAgree ==
  /\ \A d \in Drawers \ due : WasOpen(d) = Open(d)
  /\ setActive # NoDrawer => WasOpen(setActive)
  /\ setActive \in due => setActive = activeDrawerId
  /\ activeDrawerId # NoDrawer => ~ Opening(activeDrawerId)

\* While the width effect is due, the reports change nothing.
WidthEffectIsQuiet ==
  syncDue =>
    /\ setActive = activeDrawerId
    /\ \A d \in due : WasOpen(d)
    /\ activeDrawerId \in due => Open(activeDrawerId)

\* Of two open drawers one has still to be reported, or a render will close the others.
OthersWillClose ==
  /\ AtMostOneOpen \/ (\E d \in Drawers : Opening(d))
       \/ (setActive # activeDrawerId /\ setActive # NoDrawer)
  /\ ActiveCloses => AtMostOneOpen

\* Before the first switch, an open drawer is about to be reported when none is to
\* be activated, and none is open when the active one closes.
NoneHidden ==
  ~ switched =>
    /\ setActive = NoDrawer => \A d \in Drawers : Open(d) => Opening(d)
    /\ ActiveCloses => \A d \in Drawers : ~ Open(d)

DrawerInv == ReportsAgree /\ WidthEffectIsQuiet /\ OthersWillClose /\ NoneHidden

-----------------------------------------------------------------------------
LEMMA DrawerConstants ==
  /\ NoDrawer \notin Drawers
  /\ minWidth \in Widths
  /\ Widths \subseteq Nat \ {0}
  /\ \A w \in Widths \cup {0} : AtLeast(w, minWidth) \in Widths
BY DrawerAssumption DEF NoDrawer, AtLeast

\* What drawer d says is a boolean and a width.
LEMMA ReportTyped ==
  ASSUME NEW r \in State \cup {Absent}
  PROVE  r.isDrawerOpen \in BOOLEAN /\ r.drawerWidth \in Widths \cup {0}
<1>1. ASSUME r \in State PROVE r.isDrawerOpen \in BOOLEAN /\ r.drawerWidth \in Widths
  BY <1>1 DEF State
<1>2. Absent.isDrawerOpen = FALSE /\ Absent.drawerWidth = 0 BY DEF Absent
<1>3. QED BY <1>1, <1>2

\* Opening, closing or changing the width of a drawer keeps its state a State.
LEMMA StateKept ==
  ASSUME NEW s \in State
  PROVE  /\ \A b \in BOOLEAN : [s EXCEPT !.isDrawerOpen = b] \in State
         /\ \A w \in Widths : [s EXCEPT !.drawerWidth = w] \in State
         /\ \A b \in BOOLEAN : [s EXCEPT !.isDrawerOpen = b].isDrawerOpen = b
         /\ \A w \in Widths : [s EXCEPT !.drawerWidth = w].isDrawerOpen = s.isDrawerOpen
         /\ s.isDrawerOpen \in BOOLEAN
BY DEF State

-----------------------------------------------------------------------------
(* What each step does to what the plugins and the reports say. *)

\* A user event happens when React is at rest: everything is reported, and at most
\* one drawer is open.
LEMMA EventAtRest ==
  ASSUME Calm, DrawerTypeOK, DrawerInv, UserEvent
  PROVE  /\ due = {} /\ setActive = activeDrawerId /\ ~ syncDue
         /\ \A d \in Drawers : WasOpen(d) = Open(d)
         /\ AtMostOneOpen
BY DEF UserEvent, Idle, DrawerTypeOK, DrawerInv, ReportsAgree, OthersWillClose, Opening

LEMMA ToggleEffect ==
  ASSUME DrawerTypeOK, NEW ds \in SUBSET Drawers, Toggle(ds)
  PROVE  /\ plugin' \in [Drawers -> State]
         /\ \A d \in Drawers : Open(d)' = (IF d \in ds THEN ~ Open(d) ELSE Open(d))
<1>1. plugin' = [d \in Drawers |->
                   IF d \in ds THEN [plugin[d] EXCEPT !.isDrawerOpen = ~ plugin[d].isDrawerOpen]
                   ELSE plugin[d]]
  BY DEF Toggle
<1>2. \A d \in Drawers : plugin[d] \in State BY DEF DrawerTypeOK
<1>3. QED BY <1>1, <1>2, StateKept DEF Open

\* A new width leaves open what is open.
LEMMA WidthEffect ==
  ASSUME DrawerTypeOK, NEW w \in Widths,
         plugin' = [plugin EXCEPT ![activeDrawerId] = [@ EXCEPT !.drawerWidth = w]]
  PROVE  plugin' \in [Drawers -> State] /\ \A d \in Drawers : Open(d)' = Open(d)
<1>1. \A d \in Drawers :
        plugin'[d] = IF d = activeDrawerId THEN [plugin[d] EXCEPT !.drawerWidth = w]
                     ELSE plugin[d]
  BY DEF DrawerTypeOK
<1>2. DOMAIN plugin' = Drawers /\ plugin' = [d \in Drawers |-> plugin'[d]] BY DEF DrawerTypeOK
<1>3. \A d \in Drawers : plugin[d] \in State BY DEF DrawerTypeOK
<1>4. \A d \in Drawers : plugin'[d] \in State /\ Open(d)' = Open(d)
  BY <1>1, <1>3, StateKept DEF Open
<1>5. QED BY <1>2, <1>4

LEMMA ReportEffect ==
  ASSUME DrawerTypeOK, NEW d \in Drawers, Report(d)
  PROVE  /\ drawerStates' \in [Drawers -> (State \cup {Absent})]
         /\ \A e \in Drawers : /\ Open(e)' = Open(e)
                               /\ WasOpen(e)' = IF e = d THEN Open(d) ELSE WasOpen(e)
BY DEF Report, DrawerTypeOK, Open, WasOpen

LEMMA RenderEffect ==
  ASSUME DrawerTypeOK, Render
  PROVE  /\ plugin' \in [Drawers -> State]
         /\ \A d \in Drawers : /\ Open(d)' = (d \notin Others /\ Open(d))
                               /\ WasOpen(d)' = WasOpen(d)
<1>1. plugin' = [d \in Drawers |->
                   IF d \in Others THEN [plugin[d] EXCEPT !.isDrawerOpen = FALSE] ELSE plugin[d]]
  BY DEF Render
<1>2. \A d \in Drawers : plugin[d] \in State BY DEF DrawerTypeOK
<1>3. \A d \in Drawers :
        [plugin[d] EXCEPT !.isDrawerOpen = FALSE] \in State
          /\ [plugin[d] EXCEPT !.isDrawerOpen = FALSE].isDrawerOpen = FALSE
  BY <1>2, StateKept
<1>4. \A d \in Drawers : WasOpen(d)' = WasOpen(d) BY DEF Render, WasOpen
<1>5. QED BY <1>1, <1>2, <1>3, <1>4, StateKept DEF Open

-----------------------------------------------------------------------------
LEMMA WidthChosen ==
  ASSUME NEW d \in Drawers, NEW r, r \in [Drawers -> (State \cup {Absent})]
  PROVE  AtLeast(r[d].drawerWidth, minWidth) \in Widths
<1>1. r[d] \in State \cup {Absent} OBVIOUS
<1>2. QED BY <1>1, ReportTyped, DrawerConstants

\* The state of both components is well typed, for any number of drawers and widths
\* (ApplicationDrawer, ResizableDrawer).
THEOREM DrawerTypeCorrect == DrawerSpec => []DrawerTypeOK
<1>1. DrawerInit => DrawerTypeOK
  BY DEF DrawerInit, DrawerTypeOK, NoDrawer
<1>2. DrawerTypeOK /\ [DrawerNext]_drawerVars => DrawerTypeOK'
  <2> SUFFICES ASSUME DrawerTypeOK, [DrawerNext]_drawerVars PROVE DrawerTypeOK'
    OBVIOUS
  <2>1. ASSUME NEW d \in Drawers, Report(d) PROVE DrawerTypeOK'
    <3>1. drawerStates' \in [Drawers -> (State \cup {Absent})] BY <2>1, ReportEffect
    <3>2. setActive' \in Drawers \cup {NoDrawer}
      BY <2>1 DEF Report, handleDrawerStateChange, DrawerTypeOK
    <3>3. QED BY <2>1, <3>1, <3>2 DEF Report, DrawerTypeOK
  <2>2. ASSUME Render PROVE DrawerTypeOK'
    <3>1. plugin' \in [Drawers -> State] BY <2>2, RenderEffect
    <3>2. due' \in SUBSET Drawers BY <2>2 DEF Render, Others
    <3>3. setActive # NoDrawer => AtLeast(drawerStates[setActive].drawerWidth, minWidth) \in Widths
      BY WidthChosen DEF DrawerTypeOK
    <3>4. width' \in Widths \cup {0} /\ (width' # 0 => activeDrawerId' # NoDrawer)
      BY <2>2, <3>3 DEF Render, DrawerTypeOK
    <3>5. QED BY <2>2, <3>1, <3>2, <3>4 DEF Render, DrawerTypeOK
  <2>3. ASSUME SyncWidth PROVE DrawerTypeOK'
    <3>1. activeDrawerId \in Drawers BY <2>3 DEF SyncWidth, DrawerTypeOK
    <3>2. PICK w \in Widths : w = AtLeast(renderedStates[activeDrawerId].drawerWidth, minWidth)
      BY <3>1, WidthChosen DEF DrawerTypeOK
    <3>3. plugin' \in [Drawers -> State]
      BY <2>3, <3>2, WidthEffect DEF SyncWidth, DrawerTypeOK
    <3>4. width' = w /\ syncDue' = (w # width) /\ due' \in SUBSET Drawers
      BY <2>3, <3>1, <3>2 DEF SyncWidth, DrawerTypeOK
    <3>5. QED BY <2>3, <3>1, <3>3, <3>4 DEF SyncWidth, DrawerTypeOK
  <2>4. ASSUME NEW ds \in SUBSET Drawers, Toggle(ds) PROVE DrawerTypeOK'
    <3>1. plugin' \in [Drawers -> State] BY <2>4, ToggleEffect
    <3>2. due' \in SUBSET Drawers BY <2>4 DEF Toggle, DrawerTypeOK
    <3>3. QED BY <2>4, <3>1, <3>2 DEF Toggle, UserEvent, DrawerTypeOK
  <2>5. ASSUME NEW w \in Widths, Drag(w) PROVE DrawerTypeOK'
    <3>1. plugin' \in [Drawers -> State] BY <2>5, WidthEffect DEF Drag
    <3>2. activeDrawerId \in Drawers BY <2>5 DEF Drag, DrawerTypeOK
    <3>3. QED BY <2>5, <3>1, <3>2 DEF Drag, UserEvent, DrawerTypeOK
  <2>6. ASSUME UNCHANGED drawerVars PROVE DrawerTypeOK'
    BY <2>6 DEF drawerVars, DrawerTypeOK
  <2>7. QED
    BY <2>1, <2>2, <2>3, <2>4, <2>5, <2>6 DEF DrawerNext, ReactStep, ToggleOne, Switch
<1>3. QED BY <1>1, <1>2, PTL DEF DrawerSpec

-----------------------------------------------------------------------------
LEMMA DrawerInvInit ==
  DrawerInit => DrawerInv
<1> SUFFICES ASSUME DrawerInit PROVE DrawerInv
  OBVIOUS
<1>1. \A d \in Drawers : d \in due /\ ~ WasOpen(d)
  BY DEF DrawerInit, WasOpen, Absent
<1>2. /\ setActive = NoDrawer /\ activeDrawerId = NoDrawer /\ syncDue = FALSE
      /\ due = Drawers
  BY DEF DrawerInit
<1>3. ReportsAgree BY <1>1, <1>2, DrawerConstants DEF ReportsAgree
<1>4. WidthEffectIsQuiet BY <1>2 DEF WidthEffectIsQuiet
<1>5. OthersWillClose
  BY <1>1, <1>2, DrawerConstants DEF OthersWillClose, AtMostOneOpen, Opening, ActiveCloses
<1>6. NoneHidden
  BY <1>1, <1>2, DrawerConstants DEF NoneHidden, Opening, ActiveCloses
<1>7. QED BY <1>3, <1>4, <1>5, <1>6 DEF DrawerInv

LEMMA ToggleKeepsInv ==
  ASSUME Calm, DrawerTypeOK, DrawerInv, NEW d \in Drawers, NEW e \in Drawers, Toggle({d, e}),
         (ToggleOne(d) /\ e = d) \/ Switch(d, e)
  PROVE  DrawerInv'
<1>1. /\ due = {} /\ setActive = activeDrawerId /\ ~ syncDue /\ AtMostOneOpen
      /\ \A x \in Drawers : WasOpen(x) = Open(x)
  BY EventAtRest DEF Toggle
<1>2. \A x \in Drawers : /\ Open(x)' = (IF x \in {d, e} THEN ~ Open(x) ELSE Open(x))
                         /\ WasOpen(x)' = WasOpen(x)
  <2>1. {d, e} \in SUBSET Drawers OBVIOUS
  <2>2. \A x \in Drawers : Open(x)' = (IF x \in {d, e} THEN ~ Open(x) ELSE Open(x))
    BY <2>1, ToggleEffect
  <2>3. \A x \in Drawers : WasOpen(x)' = WasOpen(x) BY DEF Toggle, UserEvent, WasOpen
  <2>4. QED BY <2>2, <2>3
<1>3. /\ due' = {d, e} /\ setActive' = setActive /\ activeDrawerId' = activeDrawerId
      /\ syncDue' = syncDue
  BY <1>1 DEF Toggle, UserEvent
<1>4. \A x \in Drawers : Open(x) \in BOOLEAN /\ WasOpen(x) \in BOOLEAN
  BY ReportTyped DEF DrawerTypeOK, Open, WasOpen, State
<1>5. setActive # NoDrawer => setActive \in Drawers /\ WasOpen(setActive) /\ Open(setActive)
  BY <1>1 DEF DrawerInv, ReportsAgree, DrawerTypeOK
<1>6. ReportsAgree'
  BY <1>1, <1>2, <1>3, <1>4, <1>5 DEF ReportsAgree, Opening
<1>7. WidthEffectIsQuiet' BY <1>1, <1>3 DEF WidthEffectIsQuiet
<1>8. OthersWillClose'
  BY <1>1, <1>2, <1>3, <1>4, <1>5, DrawerConstants
  DEF OthersWillClose, AtMostOneOpen, Opening, ActiveCloses, Switch
<1>9. NoneHidden'
  BY <1>1, <1>2, <1>3, <1>4, <1>5, DrawerConstants
  DEF NoneHidden, AtMostOneOpen, Opening, ActiveCloses, DrawerInv, ToggleOne, Switch
<1>10. QED BY <1>6, <1>7, <1>8, <1>9 DEF DrawerInv

LEMMA DragKeepsInv ==
  ASSUME Calm, DrawerTypeOK, DrawerInv, NEW w \in Widths, Drag(w)
  PROVE  DrawerInv'
<1>1. /\ due = {} /\ setActive = activeDrawerId /\ AtMostOneOpen
      /\ \A x \in Drawers : WasOpen(x) = Open(x)
  BY EventAtRest DEF Drag
<1>2. \A x \in Drawers : Open(x)' = Open(x) /\ WasOpen(x)' = WasOpen(x)
  <2>1. \A x \in Drawers : Open(x)' = Open(x) BY WidthEffect DEF Drag
  <2>2. \A x \in Drawers : WasOpen(x)' = WasOpen(x) BY DEF Drag, UserEvent, WasOpen
  <2>3. QED BY <2>1, <2>2
<1>3. /\ due' = {activeDrawerId} /\ setActive' = setActive /\ activeDrawerId' = activeDrawerId
      /\ switched' = switched
  BY <1>1 DEF Drag, UserEvent
<1>4. activeDrawerId \in Drawers /\ WasOpen(activeDrawerId) /\ Open(activeDrawerId)
  BY <1>1 DEF Drag, DrawerInv, ReportsAgree, DrawerTypeOK
<1>5. ReportsAgree' BY <1>1, <1>2, <1>3, <1>4 DEF ReportsAgree, Opening
<1>6. WidthEffectIsQuiet' BY <1>1, <1>2, <1>3, <1>4 DEF WidthEffectIsQuiet
<1>7. OthersWillClose'
  BY <1>1, <1>2, <1>3, <1>4 DEF OthersWillClose, AtMostOneOpen, ActiveCloses
<1>8. NoneHidden' BY <1>1, <1>2, <1>3, <1>4, DrawerConstants DEF NoneHidden, ActiveCloses
<1>9. QED BY <1>5, <1>6, <1>7, <1>8 DEF DrawerInv

LEMMA ReportKeepsInv ==
  ASSUME DrawerTypeOK, DrawerInv, NEW d \in Drawers, Report(d)
  PROVE  DrawerInv'
<1>1. \A x \in Drawers : /\ Open(x)' = Open(x)
                         /\ WasOpen(x)' = IF x = d THEN Open(d) ELSE WasOpen(x)
  BY ReportEffect
<1>2. /\ d \in due /\ due' = due \ {d} /\ activeDrawerId' = activeDrawerId
      /\ syncDue' = syncDue /\ switched' = switched
      /\ setActive' = IF ~ WasOpen(d) /\ Open(d) THEN d
                      ELSE IF WasOpen(d) /\ ~ Open(d) /\ d = activeDrawerId THEN NoDrawer
                      ELSE setActive
  BY DEF Report, handleDrawerStateChange
<1>3. due \subseteq Drawers /\ setActive \in Drawers \cup {NoDrawer} /\ NoDrawer \notin Drawers
  BY DrawerConstants DEF DrawerTypeOK
<1>4. ReportsAgree'
  <2>1. ReportsAgree BY DEF DrawerInv
  <2>2. \A x \in Drawers \ due' : WasOpen(x)' = Open(x)'
    BY <1>1, <1>2, <2>1 DEF ReportsAgree
  <2>3. setActive' # NoDrawer => WasOpen(setActive)'
    BY <1>1, <1>2, <1>3, <2>1 DEF ReportsAgree
  <2>4. setActive' \in due' => setActive' = activeDrawerId'
    BY <1>2, <1>3, <2>1 DEF ReportsAgree
  <2>5. activeDrawerId' # NoDrawer => ~ Opening(activeDrawerId)'
    BY <1>1, <1>2, <1>3, <2>1 DEF ReportsAgree, Opening
  <2>6. QED BY <2>2, <2>3, <2>4, <2>5 DEF ReportsAgree
<1>5. WidthEffectIsQuiet'
  BY <1>1, <1>2, <1>3 DEF DrawerInv, WidthEffectIsQuiet
<1>6. OthersWillClose'
  <2>1. AtMostOneOpen' = AtMostOneOpen BY <1>1 DEF AtMostOneOpen
  <2>2. ActiveCloses' => ActiveCloses BY <1>1, <1>2, <1>3 DEF ActiveCloses
  <2>3. ASSUME Opening(d) PROVE setActive' # activeDrawerId' /\ setActive' # NoDrawer
    BY <1>2, <1>3, <2>3 DEF DrawerInv, ReportsAgree, Opening
  <2>4. \A x \in Drawers \ {d} : Opening(x) => Opening(x)' BY <1>1, <1>2 DEF Opening
  <2>5. ASSUME ~ Opening(d), setActive # activeDrawerId, setActive # NoDrawer, ~ AtMostOneOpen
        PROVE  setActive' = setActive
    BY <1>2, <1>3, <2>5 DEF DrawerInv, OthersWillClose, Opening, ActiveCloses
  <2>6. QED BY <1>2, <2>1, <2>2, <2>3, <2>4, <2>5 DEF DrawerInv, OthersWillClose
<1>7. NoneHidden'
  BY <1>1, <1>2, <1>3 DEF DrawerInv, NoneHidden, Opening, ActiveCloses
<1>8. QED BY <1>4, <1>5, <1>6, <1>7 DEF DrawerInv

LEMMA RenderKeepsInv ==
  ASSUME DrawerTypeOK, DrawerInv, Render
  PROVE  DrawerInv'
<1>1. /\ due = {} /\ ~ syncDue /\ setActive # activeDrawerId /\ due' = Others
      /\ activeDrawerId' = setActive /\ setActive' = setActive /\ switched' = switched
  BY DEF Render
<1>2. \A x \in Drawers : /\ Open(x)' = (x \notin Others /\ Open(x))
                         /\ WasOpen(x)' = WasOpen(x)
                         /\ WasOpen(x) = Open(x)
  BY <1>1, RenderEffect DEF DrawerInv, ReportsAgree
<1>3. /\ setActive = NoDrawer => Others = {}
      /\ setActive # NoDrawer => Others = {x \in Drawers \ {setActive} : WasOpen(x)}
      /\ setActive \in Drawers \cup {NoDrawer} /\ NoDrawer \notin Drawers
  BY DrawerConstants DEF Others, DrawerTypeOK
<1>4. setActive # NoDrawer => WasOpen(setActive) BY DEF DrawerInv, ReportsAgree
<1>5. ReportsAgree'
  <2>0. \A x \in Drawers : Open(x) \in BOOLEAN BY StateKept DEF DrawerTypeOK, Open
  <2>1. \A x \in Drawers \ due' : WasOpen(x)' = Open(x)' BY <1>1, <1>2, <2>0
  <2>2. setActive' # NoDrawer => WasOpen(setActive)' BY <1>1, <1>2, <1>3, <1>4
  <2>3. setActive' \notin due' BY <1>1, <1>3
  <2>4. ~ Opening(activeDrawerId)' BY <1>1, <2>3 DEF Opening
  <2>5. QED BY <2>1, <2>2, <2>3, <2>4 DEF ReportsAgree
<1>6. WidthEffectIsQuiet' BY <1>1, <1>2, <1>3 DEF WidthEffectIsQuiet
<1>7. AtMostOneOpen'
  <2>1. ASSUME setActive = NoDrawer PROVE AtMostOneOpen
    BY <1>1, <2>1 DEF DrawerInv, OthersWillClose, Opening
  <2>2. QED BY <1>2, <1>3, <2>1 DEF AtMostOneOpen
<1>8. OthersWillClose' BY <1>7 DEF OthersWillClose
<1>9. NoneHidden'
  BY <1>1, <1>2, <1>3 DEF DrawerInv, NoneHidden, Opening, ActiveCloses
<1>10. QED BY <1>5, <1>6, <1>8, <1>9 DEF DrawerInv

LEMMA SyncWidthKeepsInv ==
  ASSUME DrawerTypeOK, DrawerInv, SyncWidth
  PROVE  DrawerInv'
<1>1. /\ due = {} /\ setActive = activeDrawerId /\ activeDrawerId \in Drawers
      /\ WasOpen(activeDrawerId) /\ Open(activeDrawerId) /\ AtMostOneOpen
  BY DEF SyncWidth, DrawerInv, ReportsAgree, WidthEffectIsQuiet, OthersWillClose, Opening,
         DrawerTypeOK
<1>2. \A x \in Drawers : Open(x)' = Open(x) /\ WasOpen(x)' = WasOpen(x)
  <2>1. PICK w \in Widths : w = AtLeast(renderedStates[activeDrawerId].drawerWidth, minWidth)
    BY <1>1, WidthChosen DEF DrawerTypeOK
  <2>2. \A x \in Drawers : Open(x)' = Open(x)
    <3>1. ASSUME UNCHANGED plugin PROVE \A x \in Drawers : Open(x)' = Open(x)
      BY <3>1 DEF Open
    <3>2. QED BY <2>1, <3>1, WidthEffect DEF SyncWidth
  <2>3. \A x \in Drawers : WasOpen(x)' = WasOpen(x) BY DEF SyncWidth, WasOpen
  <2>4. QED BY <2>2, <2>3
<1>3. /\ due' \subseteq {activeDrawerId} /\ setActive' = setActive
      /\ activeDrawerId' = activeDrawerId /\ switched' = switched
  BY <1>1 DEF SyncWidth
<1>4. \A x \in Drawers : WasOpen(x) = Open(x) BY <1>1 DEF DrawerInv, ReportsAgree
<1>5. ReportsAgree' BY <1>1, <1>2, <1>3, <1>4 DEF ReportsAgree, Opening
<1>6. WidthEffectIsQuiet' BY <1>1, <1>2, <1>3 DEF WidthEffectIsQuiet
<1>7. OthersWillClose' BY <1>1, <1>2 DEF OthersWillClose, AtMostOneOpen
<1>8. NoneHidden' BY <1>1, <1>2, <1>3, DrawerConstants DEF NoneHidden, ActiveCloses
<1>9. QED BY <1>5, <1>6, <1>7, <1>8 DEF DrawerInv

LEMMA DrawerInvStep ==
  ASSUME Calm, DrawerTypeOK, DrawerInv, [DrawerNext]_drawerVars
  PROVE  DrawerInv'
<1>1. ASSUME NEW d \in Drawers, Report(d) PROVE DrawerInv' BY <1>1, ReportKeepsInv
<1>2. ASSUME Render PROVE DrawerInv' BY <1>2, RenderKeepsInv
<1>3. ASSUME SyncWidth PROVE DrawerInv' BY <1>3, SyncWidthKeepsInv
<1>4. ASSUME NEW d \in Drawers, ToggleOne(d) PROVE DrawerInv'
  <2>1. {d} = {d, d} OBVIOUS
  <2>2. Toggle({d, d}) BY <1>4, <2>1 DEF ToggleOne
  <2>3. QED BY <1>4, <2>2, ToggleKeepsInv
<1>5. ASSUME NEW d \in Drawers, NEW e \in Drawers, Switch(d, e) PROVE DrawerInv'
  <2>1. Toggle({d, e}) BY <1>5 DEF Switch
  <2>2. QED BY <1>5, <2>1, ToggleKeepsInv
<1>6. ASSUME NEW w \in Widths, Drag(w) PROVE DrawerInv' BY <1>6, DragKeepsInv
<1>7. ASSUME UNCHANGED drawerVars PROVE DrawerInv'
  BY <1>7 DEF drawerVars, DrawerInv, ReportsAgree, WidthEffectIsQuiet, OthersWillClose, NoneHidden,
              AtMostOneOpen, Opening, ActiveCloses, Open, WasOpen
<1>8. QED BY <1>1, <1>2, <1>3, <1>4, <1>5, <1>6, <1>7 DEF DrawerNext, ReactStep

LEMMA DrawerInvHolds ==
  ASSUME Calm PROVE DrawerSpec => []DrawerInv
<1>1. DrawerTypeOK /\ DrawerInv /\ [DrawerNext]_drawerVars => DrawerInv' BY DrawerInvStep
<1>2. QED BY <1>1, DrawerInvInit, DrawerTypeCorrect, PTL DEF DrawerSpec

\* When React comes to rest between two user events, it does so with one drawer open at
\* most, for any number of drawers and events, also when several are open as the page
\* loads and when one event closes one drawer and opens another (ApplicationDrawer).
THEOREM OneDrawerStaysOpen ==
  ASSUME Calm PROVE DrawerSpec => []OneDrawerOpen
<1>1. DrawerInv => OneDrawerOpen
  BY DEF DrawerInv, OthersWillClose, AtMostOneOpen, Opening, OneDrawerOpen, Idle
<1>2. QED BY <1>1, DrawerInvHolds, PTL

\* Until one event closes a drawer and opens another, the drawer that is open is the one
\* displayed, whenever React is at rest (handleDrawerStateChange).
THEOREM OpenDrawerStaysShown ==
  ASSUME Calm PROVE DrawerSpec => []SteadyDrawerIsShown
<1>1. DrawerTypeOK /\ DrawerInv => SteadyDrawerIsShown
  <2> SUFFICES ASSUME DrawerTypeOK, DrawerInv, ~ switched, Idle, NEW d \in Drawers
               PROVE  Open(d) <=> d = activeDrawerId
    BY DEF SteadyDrawerIsShown, OpenDrawerIsShown
  <2>1. /\ due = {} /\ setActive = activeDrawerId /\ AtMostOneOpen
        /\ WasOpen(d) = Open(d)
    BY DEF Idle, DrawerInv, ReportsAgree, OthersWillClose, Opening
  <2>2. ASSUME d = activeDrawerId PROVE Open(d)
    BY <2>1, <2>2, DrawerConstants DEF DrawerInv, ReportsAgree
  <2>3. ASSUME Open(d) PROVE activeDrawerId \in Drawers /\ Open(activeDrawerId)
    BY <2>1, <2>3 DEF DrawerInv, NoneHidden, ReportsAgree, Opening, DrawerTypeOK
  <2>4. QED BY <2>1, <2>2, <2>3 DEF AtMostOneOpen
<1>2. QED BY <1>1, DrawerInvHolds, DrawerTypeCorrect, PTL
=============================================================================
