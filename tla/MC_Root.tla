------------------------------- MODULE MC_Root -------------------------------
(* Two hooks of the app's root: the language of the page, with three locales  *)
(* and a fourth that was one when it was stored; and three drawers, with a    *)
(* width below the minimum, the minimum, and two more.                        *)
EXTENDS LanguagePreference, ApplicationDrawer

CONSTANTS en, de, fr, pt

MCLocales == {en, de, fr}
Dropped == MCLocales \cup {NoLanguage, pt}

MCDrawers == 1 .. 3
MCWidths == {300, 400, 500}

-----------------------------------------------------------------------------
(* The hooks share no state: the language is looked at where every drawer is  *)
(* closed and the bound lets none be opened any more, the drawers on a page   *)
(* whose language has yet to be hydrated.                                     *)

DrawersRest ==
  /\ plugin = [d \in Drawers |-> [isDrawerOpen |-> FALSE, drawerWidth |-> minWidth]]
  /\ drawerStates = plugin /\ renderedStates = plugin
  /\ setActive = NoDrawer /\ activeDrawerId = NoDrawer
  /\ due = {} /\ width = 0 /\ syncDue = FALSE
  /\ events = MaxEvents /\ switched = FALSE

RootInit ==
  /\ Init
  /\ \/ DrawersRest
     \/ DrawerInit /\ current = Default /\ stored = NoLanguage

RootSteps ==
  \/ DrawersRest /\ HookStep /\ UNCHANGED drawerVars
  \/ ReactStep /\ UNCHANGED vars

RootNext ==
  \/ DrawersRest /\ Next /\ UNCHANGED drawerVars
  \/ DrawerNext /\ UNCHANGED vars

RootSpec == RootInit /\ [][RootNext]_<<vars, drawerVars>>

\* The browser ends every call, and React renders and runs effects.
RootFairSpec == RootSpec /\ WF_<<vars, drawerVars>>(RootSteps)
=============================================================================
