------------------------- MODULE LanguagePreference -------------------------
(***************************************************************************)
(* packages/app/src/hooks/useLanguagePreference.ts in the life of a page:  *)
(* the language the app shows and the language stored for the user, kept   *)
(* in step by two effects.  Calls to the store are answered late, in any   *)
(* order, or not at all; React commits a changed language and runs its     *)
(* effects later, so that two changes may be committed as one.             *)
(***************************************************************************)
EXTENDS Naturals

CONSTANTS
  Locales,     \* i18n.locales: what the language API accepts
  Default,     \* getDefaultLanguage: from the browser or i18n.defaultLocale
  StoredAtLoad,\* what the store may hold when the page loads
  NoLanguage,  \* nothing stored, nothing picked
  MaxPicks,    \* bound: languages the user picks
  MaxOthers    \* bound: writes of the user's other sessions

Languages == Locales \cup (StoredAtLoad \ {NoLanguage})

ASSUME LanguageAssumption ==
  /\ Default \in Locales
  /\ NoLanguage \notin Locales
  /\ MaxPicks \in Nat /\ MaxOthers \in Nat

VARIABLES
  identity,     \* useAsync of getBackstageIdentity: "loading", "guest" or "user"
  current,      \* languageApi.getLanguage()
  rendered,     \* the language of the last commit
  seen,         \* the language the effects last ran with
  hydrated,
  lastUpdateFromUserSettings,
  stored,       \* the language in the user's settings
  calls,        \* how many calls to the store are out, of each kind
  picks, others,\* counters, for the bounds
  hasty,        \* history: the user picked before everything was settled
  unsent,       \* history: the last pick, until it is sent to the store
  atLoad,       \* history: what was stored when the page was loaded
  trouble       \* history: a call has failed or another session has written

vars == <<identity, current, rendered, seen, hydrated, lastUpdateFromUserSettings,
          stored, calls, picks, hasty, others, unsent, atLoad, trouble>>

\* A call is sent, then served; the page gets the answer later.
Call == [kind : {"get", "set"}, value : Languages \cup {NoLanguage}, served : BOOLEAN]

Get == [kind |-> "get", value |-> NoLanguage, served |-> FALSE]
Set(l) == [kind |-> "set", value |-> l, served |-> FALSE]

Served(c, v) == [kind |-> c.kind, value |-> v, served |-> TRUE]

With(cs, c) == [cs EXCEPT ![c] = @ + 1]
Without(cs, c) == [cs EXCEPT ![c] = @ - 1]

Settled ==
  /\ hydrated
  /\ rendered = current /\ seen = rendered
  /\ \A c \in Call : calls[c] = 0

-----------------------------------------------------------------------------
Init ==
  /\ identity = "loading"
  /\ current \in Locales
  /\ rendered = current /\ seen = current
  /\ hydrated = FALSE
  /\ lastUpdateFromUserSettings = FALSE
  /\ stored \in StoredAtLoad
  /\ calls = [c \in Call |-> 0]
  /\ picks = 0 /\ others = 0
  /\ hasty = FALSE
  /\ unsent = NoLanguage
  /\ atLoad = stored
  /\ trouble = FALSE

\* An identity that cannot be obtained counts as a user, not as a guest.
IdentityResolves ==
  /\ identity = "loading"
  /\ identity' \in {"guest", "user"}
  /\ UNCHANGED <<current, rendered, seen, hydrated, lastUpdateFromUserSettings,
                 stored, calls, picks, hasty, others, unsent, atLoad, trouble>>

\* Broken: the language the page starts with is stored.
StartSync_NoHydration ==
  /\ identity = "user" /\ ~ hydrated
  /\ hydrated' = TRUE
  /\ rendered' = current /\ seen' = current
  /\ calls' = With(With(calls, Get), Set(current))
  /\ UNCHANGED <<identity, current, lastUpdateFromUserSettings, stored, picks, hasty,
                 others, unsent, atLoad, trouble>>

\* shouldSync turns true: one effect subscribes to the store, which sends a get,
\* the other one takes the language of the page as it is.
StartSync ==
  /\ identity = "user" /\ ~ hydrated
  /\ hydrated' = TRUE
  /\ rendered' = current /\ seen' = current
  /\ calls' = With(calls, Get)
  /\ UNCHANGED <<identity, current, lastUpdateFromUserSettings, stored, picks, hasty,
                 others, unsent, atLoad, trouble>>

\* The user picks another language.
Pick(l) ==
  /\ picks < MaxPicks
  /\ l # current
  /\ current' = l
  /\ picks' = picks + 1
  /\ hasty' = (hasty \/ ~ Settled)
  /\ unsent' = l
  /\ UNCHANGED <<identity, rendered, seen, hydrated, lastUpdateFromUserSettings,
                 stored, calls, others, atLoad, trouble>>

\* React renders the language of the moment; pending effects run before.
Commit ==
  /\ hydrated /\ seen = rendered
  /\ rendered # current
  /\ rendered' = current
  /\ UNCHANGED <<identity, current, seen, hydrated, lastUpdateFromUserSettings,
                 stored, calls, picks, hasty, others, unsent, atLoad, trouble>>

Ran ==
  /\ hydrated /\ seen # rendered
  /\ seen' = rendered

\* Broken: what came from the store is sent back.
PassOver_Echo ==
  /\ Ran
  /\ lastUpdateFromUserSettings
  /\ lastUpdateFromUserSettings' = FALSE
  /\ calls' = With(calls, Set(rendered))
  /\ UNCHANGED <<identity, current, rendered, hydrated, stored, picks, hasty, others,
                 unsent, atLoad, trouble>>

\* Broken: the flag is left set.
PassOver_FlagKept ==
  /\ Ran
  /\ lastUpdateFromUserSettings
  /\ UNCHANGED <<identity, current, rendered, hydrated, lastUpdateFromUserSettings,
                 stored, calls, picks, hasty, others, unsent, atLoad, trouble>>

\* A change that came from the store is not sent back.
PassOver ==
  /\ Ran
  /\ lastUpdateFromUserSettings
  /\ lastUpdateFromUserSettings' = FALSE
  /\ UNCHANGED <<identity, current, rendered, hydrated, stored, calls, picks, hasty,
                 others, unsent, atLoad, trouble>>

Send ==
  /\ Ran
  /\ ~ lastUpdateFromUserSettings
  /\ calls' = With(calls, Set(rendered))
  /\ unsent' = IF unsent = rendered THEN NoLanguage ELSE unsent
  /\ UNCHANGED <<identity, current, rendered, hydrated, lastUpdateFromUserSettings,
                 stored, picks, hasty, others, atLoad, trouble>>

RunEffect == PassOver \/ Send

-----------------------------------------------------------------------------
\* The store handles a call.
Serve(c) ==
  /\ calls[c] > 0 /\ ~ c.served
  /\ LET answer == IF c.kind = "get" THEN stored ELSE c.value
     IN /\ stored' = IF c.kind = "get" THEN stored ELSE c.value
        /\ calls' = With(Without(calls, c), Served(c, answer))
  /\ UNCHANGED <<identity, current, rendered, seen, hydrated,
                 lastUpdateFromUserSettings, picks, hasty, others, unsent, atLoad,
                 trouble>>

\* A call is lost before or after the store handles it.
CallFails(c) ==
  /\ calls[c] > 0
  /\ calls' = Without(calls, c)
  /\ trouble' = TRUE
  /\ UNCHANGED <<identity, current, rendered, seen, hydrated,
                 lastUpdateFromUserSettings, stored, picks, hasty, others, unsent,
                 atLoad>>

\* Nothing is stored: the default is shown and stored.
StoreDefault(c) ==
  /\ current' = Default
  /\ calls' = With(Without(calls, c), Set(Default))
  /\ UNCHANGED lastUpdateFromUserSettings

\* The language API refuses a language that is no locale: the flag stays set.
TakeStored(c) ==
  /\ calls' = Without(calls, c)
  /\ IF c.value # current
       THEN /\ lastUpdateFromUserSettings' = TRUE
            /\ current' = IF c.value \in Locales THEN c.value ELSE current
       ELSE UNCHANGED <<lastUpdateFromUserSettings, current>>

\* Broken: an empty store is not filled.
TakeAnswer_LeaveEmpty(c) ==
  IF c.value = NoLanguage
    THEN /\ calls' = Without(calls, c)
         /\ UNCHANGED <<current, lastUpdateFromUserSettings>>
    ELSE TakeStored(c)

TakeAnswer(c) == IF c.value = NoLanguage THEN StoreDefault(c) ELSE TakeStored(c)

\* An answer reaches the page: the subscription is told the value read or written.
Answer(c) ==
  /\ calls[c] > 0 /\ c.served
  /\ TakeAnswer(c)
  /\ UNCHANGED <<identity, rendered, seen, hydrated, stored, picks, hasty, others, unsent,
                 atLoad, trouble>>

\* Another session of the user stores a language; this page is not told.
OtherSession(l) ==
  /\ others < MaxOthers
  /\ stored' = l
  /\ others' = others + 1
  /\ trouble' = TRUE
  /\ UNCHANGED <<identity, current, rendered, seen, hydrated,
                 lastUpdateFromUserSettings, calls, picks, hasty, unsent, atLoad>>

HookStep ==
  \/ IdentityResolves \/ StartSync \/ Commit \/ RunEffect
  \/ \E c \in Call : Serve(c) \/ CallFails(c) \/ Answer(c)

Next == HookStep \/ \E l \in Locales : Pick(l) \/ OtherSession(l)

Spec == Init /\ [][Next]_vars

\* The browser ends every call, and React renders and runs effects.
FairSpec == Spec /\ WF_vars(HookStep)

-----------------------------------------------------------------------------
LanguageTypeOK ==
  /\ identity \in {"loading", "guest", "user"}
  /\ {current, rendered, seen, Default} \subseteq Locales
  /\ hydrated \in BOOLEAN
  /\ lastUpdateFromUserSettings \in BOOLEAN
  /\ stored \in Languages \cup {NoLanguage}
  /\ calls \in [Call -> Nat]
  /\ picks \in 0 .. MaxPicks /\ others \in 0 .. MaxOthers
  /\ hasty \in BOOLEAN
  /\ unsent \in Locales \cup {NoLanguage}
  /\ atLoad \in Languages \cup {NoLanguage}
  /\ trouble \in BOOLEAN

\* "When users change the language in the UI: The preference is automatically saved
\* to storage" (docs/customization.md): when the user waits for the page to settle
\* before each pick, a pick that is still shown once all is settled has been sent.
PickedLanguageSaved == Settled /\ ~ hasty => unsent # current

\* What was stored for the user is still a locale of this deployment.
StoredIsLocale == atLoad \in Locales \cup {NoLanguage}

\* Every pick is saved when the language stored at load is one of the locales.
EveryPickSent == StoredIsLocale => PickedLanguageSaved

\* Once all is settled, the language shown is the one stored, unless a call was
\* lost, another session wrote, or a pick came before the last one was settled.
ShownIsStored == StoredIsLocale /\ Settled /\ ~ hasty /\ ~ trouble => current = stored

\* A page on which nobody picks anything shows the stored language, and leaves it.
StoredKeptWithoutPick ==
  picks = 0 /\ ~ trouble /\ atLoad \in Locales =>
    /\ stored = atLoad
    /\ Settled => current = atLoad

\* The effects do not feed each other for ever (the safeguards against sync loops).
SyncSettles == <>[](hydrated => Settled)
=============================================================================
