----------------------------- MODULE EntityPage -----------------------------
(***************************************************************************)
(* The page of a catalog entity (packages/app/src/components/catalog/      *)
(* EntityPage): which tabs it has, and what is on them.  Plugins add cards *)
(* to mount points and replace tabs, both through the registry that        *)
(* DynamicRoot makes; every card has a condition, of which some are        *)
(* functions of the plugin, and a tab nobody compiled in is shown when one *)
(* of its cards is.  The order of tabs and cards and their layout are left *)
(* out.                                                                    *)
(***************************************************************************)
EXTENDS DynamicRoot

CONSTANTS
  Entities,      \* the entities: kind, type, annotations, warnings, links
  CardOf,        \* of the slots that are cards of a tab: mountPoint and condition
  TabConfigOf,   \* of the tabs plugins configure, by <<scope, path>>
  PluginAnswer(_, _, _)  \* what an exported function answers for an entity, with and
                         \* without the APIs at hand: "yes", "no" or "throws"

\* A function that can do without the APIs answers the same with them.
ASSUME PluginAnswerAssumption ==
  \A f \in UNION {Exports[mod] : mod \in DOMAIN Exports}, e \in Entities :
    /\ PluginAnswer(f, e, TRUE) \in {"yes", "no", "throws"}
    /\ PluginAnswer(f, e, FALSE) \in {"throws", PluginAnswer(f, e, TRUE)}

ASSUME CardsAssumption ==
  \A slot \in DOMAIN CardOf : \A key \in DOMAIN CardOf[slot].if : IsList(CardOf[slot].if[key])

-----------------------------------------------------------------------------
(* Conditions. *)

YesIf(b) == IF b THEN "yes" ELSE "no"

\* One condition of a card: an import of the card's own module, or one of three
\* tests, the first of which counts.  Whatever else it is, it is not met.
conditionsArrayMapper(condition, card, e, context) ==
  LET has(key) == key \in DOMAIN condition IN
  IF has("import") /\ condition.import \in Exports[<<card.scope, card.module>>]
  THEN PluginAnswer(condition.import, e, context)
  ELSE YesIf(/\ ~ has("import")
             /\ IF has("isKind") THEN e.kind \in condition.isKind
                ELSE IF has("isType") THEN e.type \in condition.isType
                ELSE has("hasAnnotation") /\ condition.hasAnnotation \in e.annotations)

\* every and some stop at the first answer that decides.
FirstOther(answers, answer) ==
  LET others == {i \in DOMAIN answers : answers[i] # answer}
  IN  IF others = {} THEN answer ELSE answers[Min(others)]

\* Of allOf, anyOf and oneOf the first that is there decides.
configIfToCallable(card, e, context) ==
  LET conditional == CardOf[card.slot].if
      answers(key) == [i \in DOMAIN conditional[key] |->
                         conditionsArrayMapper(conditional[key][i], card, e, context)]
      has(key) == key \in DOMAIN conditional
  IN  IF has("allOf") THEN FirstOther(answers("allOf"), "yes")
      ELSE IF has("anyOf") THEN FirstOther(answers("anyOf"), "no")
      ELSE IF has("oneOf")
             THEN IF "throws" \in ToSet(answers("oneOf")) THEN "throws"
                  ELSE YesIf(Cardinality({i \in DOMAIN answers("oneOf") :
                                             answers("oneOf")[i] = "yes"}) = 1)
      ELSE "yes"

\* A condition that throws is not met.
errorWrappedCondition(card, e, context) == configIfToCallable(card, e, context) = "yes"

-----------------------------------------------------------------------------
(* What is compiled in. *)

Tab(mountPoint) == [mountPoint |-> mountPoint, priority |-> 0]

defaultTabs ==
  "/" :> Tab("overview") @@ "/topology" :> Tab("topology") @@ "/issues" :> Tab("issues")
    @@ "/pr" :> Tab("pull-requests") @@ "/ci" :> Tab("ci") @@ "/cd" :> Tab("cd")
    @@ "/kubernetes" :> Tab("kubernetes") @@ "/image-registry" :> Tab("image-registry")
    @@ "/monitoring" :> Tab("monitoring") @@ "/lighthouse" :> Tab("lighthouse")
    @@ "/api" :> Tab("api") @@ "/dependencies" :> Tab("dependencies")
    @@ "/docs" :> Tab("docs") @@ "/definition" :> Tab("definition")
    @@ "/system" :> Tab("diagram")

RuledPaths == {"/api", "/dependencies", "/definition", "/system"}

\* Broken: every component has the tab of its APIs.
tabRules_AnyComponent(path, e) ==
  \/ path \in {"/api", "/dependencies"} /\ e.kind = "component"
  \/ path = "/definition" /\ e.kind = "api"
  \/ path = "/system" /\ e.kind = "system"

tabRules(path, e) ==
  \/ path = "/api" /\ e.type = "service" /\ e.kind = "component"
  \/ path = "/dependencies" /\ e.kind = "component"
  \/ path = "/definition" /\ e.kind = "api"
  \/ path = "/system" /\ e.kind = "system"

tabChildren == {"/"} \cup RuledPaths

\* The cards each tab brings along.
CardsOfKind ==
  "domain" :> {"catalog graph", "systems"}
    @@ "group" :> {"group profile", "ownership", "members"}
    @@ "user" :> {"user profile", "ownership"}
    @@ "api" :> {"catalog graph", "providing components", "consuming components"}
    @@ "system" :> {"catalog graph", "components", "apis", "resources"}
    @@ "resource" :> {"catalog graph"}

OverviewTabContent(e) ==
  e.warnings \cup {"about"} \cup (IF e.links THEN {"links"} ELSE {})
    \cup (IF e.kind \in DOMAIN CardsOfKind THEN CardsOfKind[e.kind] ELSE {})

ApiTabContent(e) ==
  IF e.type = "service" /\ e.kind = "component" THEN {"provided apis", "consumed apis"} ELSE {}
DependenciesTabContent(e) ==
  IF e.kind = "component"
  THEN {"catalog graph", "components", "resources", "subcomponents", "provided apis",
        "consumed apis"}
  ELSE {}
DefinitionTabContent(e) == IF e.kind = "api" THEN {"definition"} ELSE {}
DiagramTabContent(e) == IF e.kind = "system" THEN {"catalog graph"} ELSE {}

-----------------------------------------------------------------------------
(* The page. *)

\* What plugins configure for a path replaces what is compiled in for it, but not
\* its rule and its children; a negative priority removes the tab.
mergeTabs ==
  LET overridden ==
        [path \in {tab.slot : tab \in registry.entityTabs} |->
           TabConfigOf[<<(CHOOSE tab \in registry.entityTabs : tab.slot = path).scope, path>>]]
      tabs == overridden @@ defaultTabs
  IN  [path \in {path \in DOMAIN tabs : tabs[path].priority >= 0} |-> tabs[path]]

getMountPointData(mountPoint) ==
  {c \in registry.served :
     c.slot \in DOMAIN CardOf /\ CardOf[c.slot].mountPoint = mountPoint}

HasOwnReason(path, e) ==
  IF path \in RuledPaths THEN tabRules(path, e) ELSE path \in tabChildren

\* Broken: one catch around the conditions of all cards of the tab.
TabShown_OneCatch(path, cards, e) ==
  \/ HasOwnReason(path, e)
  \/ /\ \A card \in cards : configIfToCallable(card, e, FALSE) # "throws"
     /\ \E card \in cards : errorWrappedCondition(card, e, FALSE)

\* The tab itself asks its cards without the APIs.
TabShown(path, cards, e) ==
  \/ HasOwnReason(path, e)
  \/ \E card \in cards : errorWrappedCondition(card, e, FALSE)

\* dynamicEntityTab: once the tab is shown, each card is asked with the APIs.
CardsShown(path, cards, e) ==
  {card \in cards : TabShown(path, cards, e) /\ errorWrappedCondition(card, e, TRUE)}

OwnCards(path, e) ==
  IF path = "/" THEN OverviewTabContent(e)
  ELSE IF path = "/api" THEN ApiTabContent(e)
  ELSE IF path = "/dependencies" THEN DependenciesTabContent(e)
  ELSE IF path = "/definition" THEN DefinitionTabContent(e)
  ELSE IF path = "/system" THEN DiagramTabContent(e)
  ELSE {}

-----------------------------------------------------------------------------
\* A condition as the documentation has it: one of allOf, anyOf and oneOf, of
\* conditions none of which throws.
Plain(card, e) ==
  LET conditional == CardOf[card.slot].if IN
  /\ DOMAIN conditional \in {{}, {"allOf"}, {"anyOf"}, {"oneOf"}}
  /\ \A key \in DOMAIN conditional : \A i \in DOMAIN conditional[key] :
       conditionsArrayMapper(conditional[key][i], card, e, FALSE) # "throws"

Meant(card, e) ==
  LET conditional == CardOf[card.slot].if
      met(key) == {i \in DOMAIN conditional[key] :
                     conditionsArrayMapper(conditional[key][i], card, e, TRUE) = "yes"}
  IN  \A key \in DOMAIN conditional :
        \/ key = "allOf" /\ met(key) = DOMAIN conditional[key]
        \/ key = "anyOf" /\ met(key) # {}
        \/ key = "oneOf" /\ Cardinality(met(key)) = 1

\* A card with a plain condition is seen on its tab exactly by those whom its
\* condition admits, whatever the other cards of the tab ask and throw.
CardsFollowConditions(path, cards, e) ==
  \A card \in cards :
    Plain(card, e) => (card \in CardsShown(path, cards, e) <=> Meant(card, e))

\* No tab is empty: what shows a tab (defaultTabs.tsx, or a card asked without the
\* APIs) is then on it (the tab contents, or the card asked with them).
TabIsNotEmpty(path, cards, e) ==
  TabShown(path, cards, e) => OwnCards(path, e) # {} \/ CardsShown(path, cards, e) # {}

\* dynamicEntityTab and entityPage: on the page of every entity each tab has the cards
\* meant for that entity, and no tab is without any, whichever plugins were loaded
\* and whatever tabs they replace.
EntityPageFits ==
  stage = "shown" =>
    LET tabs == mergeTabs IN
    \A path \in DOMAIN tabs :
      LET cards == getMountPointData(tabs[path].mountPoint) IN
      \A e \in Entities :
        CardsFollowConditions(path, cards, e) /\ TabIsNotEmpty(path, cards, e)
=============================================================================
