---------------------------- MODULE Translations ----------------------------
(***************************************************************************)
(* The words of the app: the translation resources the plugins contribute, *)
(* those that are compiled in, and the JSON overrides the backend serves,  *)
(* put together as the app is created (utils/translations).                *)
(*                                                                         *)
(* A resource has, for an id, the messages of some languages; overrides    *)
(* are such messages by id.  The words are opaque.                         *)
(***************************************************************************)
EXTENDS DynamicRoot

CONSTANTS
  ResourceOf,      \* by <<scope, module, import>>: the imports that are resources
  RefOf,           \* by <<scope, module, import>>: the imports that are refs, by id
  StaticConfigs,   \* staticTranslationConfigs, a sequence of [resource, ref]
  OverrideFiles,   \* what the backend may answer, the empty answer included
  Languages,
  MessageKeys

ASSUME StaticConfigsAssumption ==
  /\ IsList(StaticConfigs)
  /\ \A config \in ToSet(StaticConfigs) : config.ref = config.resource.id

Said(messages, of) == IF of \in DOMAIN messages THEN messages[of] ELSE <<>>

\* Broken: overrides take the place of all the messages of their language.
mergeTranslations_Replaced(resource, json) ==
  [l \in DOMAIN resource.messages \cup DOMAIN json |->
     IF l \in DOMAIN json THEN json[l] ELSE resource.messages[l]]

Over(f, g) == [x \in DOMAIN f \cup DOMAIN g |-> IF x \in DOMAIN f THEN f[x] ELSE g[x]]

\* Language by language, overrides come before the messages of the resource.
mergeTranslations(resource, json) ==
  [l \in DOMAIN resource.messages \cup DOMAIN json |->
     Over(Said(json, l), Said(resource.messages, l))]

\* The result goes by the id of the ref.
translationResourceGenerator(ref, resource, json) ==
  [id |-> ref, messages |-> mergeTranslations(resource, json)]

\* A contribution is a resource when its import has an id; its slot names the ref.
ImportOf(c) == <<c.scope, c.module, c.import>>
HasRef(c) ==
  /\ c.slot \in Exports[<<c.scope, c.module>>]
  /\ <<c.scope, c.module, c.slot>> \in DOMAIN RefOf
RefOfConfig(c) == RefOf[<<c.scope, c.module, c.slot>>]

\* Without a ref the overrides are ignored.
processPluginTranslationResource(c, overrides) ==
  LET resource == ResourceOf[ImportOf(c)]
  IN  IF resource.id \in DOMAIN overrides /\ HasRef(c)
      THEN translationResourceGenerator(RefOfConfig(c), resource, overrides[resource.id])
      ELSE resource

processStaticTranslationResource(config, overrides) ==
  IF config.resource.id \in DOMAIN overrides
  THEN translationResourceGenerator(config.ref, config.resource,
                                    overrides[config.resource.id])
  ELSE config.resource

translationResources(ps, modules) ==
  {c \in Served(ps, {"translation"}, modules) : ImportOf(c) \in DOMAIN ResourceOf}

At(place, resource) == [at |-> place, id |-> resource.id, messages |-> resource.messages]

processPluginTranslationResources(ps, modules, overrides) ==
  {At(c.at, processPluginTranslationResource(c, overrides)) :
     c \in translationResources(ps, modules)}

processStaticTranslationResources(ps, overrides) ==
  {At(<<Len(ps) + 1, k>>, processStaticTranslationResource(StaticConfigs[k], overrides)) :
     k \in DOMAIN StaticConfigs}

\* Those of the plugins come first.
processAllTranslationResources(ps, modules, overrides) ==
  processPluginTranslationResources(ps, modules, overrides)
    \cup processStaticTranslationResources(ps, overrides)

-----------------------------------------------------------------------------
(* The translation API of the app. *)

OfId(resources, id) == {r \in resources : r.id = id}
InLanguage(resources, id, l) == {r \in OfId(resources, id) : l \in DOMAIN r.messages}

\* The first resource that has the language is asked; what it does not say is left to
\* the default messages of the ref, here None.
Translated(resources, id, l, key) ==
  LET asked == InLanguage(resources, id, l)
  IN  IF asked # {} /\ key \in DOMAIN First(asked).messages[l]
      THEN First(asked).messages[l][key] ELSE None

-----------------------------------------------------------------------------
\* The ids of which every resource that was loaded names its own ref, as the wiring
\* guide asks of who overrides (docs/dynamic-plugins/frontend-plugin-wiring.md).
Overridable(id) ==
  \A c \in translationResources(plugins, loaded) :
    IF ResourceOf[ImportOf(c)].id = id THEN HasRef(c) /\ RefOfConfig(c) = id
    ELSE HasRef(c) => RefOfConfig(c) # id

\* A language some resource of the id has and the first one has not is lost as soon as
\* an override adds it to the first one.
FirstHas(resources, id, l) ==
  InLanguage(resources, id, l) # {} => l \in DOMAIN First(OfId(resources, id)).messages

\* Overrides come before what plugins and the app say (docs/customization.md,
\* "Translation priority order"), and whatever they leave out is said as without them:
\* whichever plugins were loaded, and when several resources share an id.
OverridesWin ==
  app # None =>
    LET without == processAllTranslationResources(plugins, loaded, <<>>) IN
    \A overrides \in OverrideFiles :
      LET resources == processAllTranslationResources(plugins, loaded, overrides) IN
      \A r \in without, l \in Languages, key \in MessageKeys :
        LET json == Said(Said(overrides, r.id), l) IN
        /\ Overridable(r.id) /\ key \in DOMAIN json =>
             Translated(resources, r.id, l, key) = json[key]
        /\ Overridable(r.id) /\ FirstHas(without, r.id, l) /\ key \notin DOMAIN json =>
             Translated(resources, r.id, l, key) = Translated(without, r.id, l, key)
=============================================================================
