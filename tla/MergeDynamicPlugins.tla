------------------------ MODULE MergeDynamicPlugins ------------------------
(***************************************************************************)
(* veecode/merge-dynamic-plugins.js between the pre-step and the installer *)
(* of one pod: it appends the Marketplace entries to the operator's list,  *)
(* lets the operator win, writes the result to the data volume and checks  *)
(* that the installer will read that file.  The three programs are chained *)
(* with &&; the pod may be killed between any two steps and starts over.   *)
(* Lists are sets of entries, the operator's and the Marketplace's apart.  *)
(***************************************************************************)
EXTENDS PluginIdentity

CONSTANTS
  OperatorConfigs,   \* "plugins" of the operator documents a deploy may mount
  ExtensionsFiles,   \* what the pre-step, and the running backend, may write
  Invalid,           \* an operator document the merge refuses
  NoFile,            \* the file does not exist
  Partial            \* a file a killed or failing write has left behind

\* An entry as it stands in a list; NoRef is an entry with no usable "package".
ListEntry == [package : PackageRef \cup {NoRef}, disabled : BOOLEAN]

ASSUME MergeAssumption ==
  /\ OperatorConfigs \subseteq SUBSET ListEntry
  /\ ExtensionsFiles \subseteq SUBSET ListEntry
  /\ Invalid \notin OperatorConfigs
  /\ NoFile \notin ExtensionsFiles

VARIABLES
  stage,           \* "down", "merge", "writing", "check", "merged",
                   \* "running", "failed"
  operatorConfig,  \* the document at DEVPORTAL_OPERATOR_CONFIG
  dbPath,          \* DEVPORTAL_DB_PATH: "unset", "linked" or "elsewhere"
  extensionsFile,  \* extensions-install.yaml on the data volume
  extensionsPlugins, \* main()'s list of Marketplace entries
  mergedDoc,       \* the document main() is writing
  outFile,         \* dynamic-plugins.yaml where the installer's path resolves to
  installed        \* the document the installer read in this boot

vars == <<stage, operatorConfig, dbPath, extensionsFile, extensionsPlugins, mergedDoc,
          outFile, installed>>

Document == [operator : SUBSET ListEntry, extras : SUBSET ListEntry]

\* No document at hand: nothing merged or installed in this boot.
NoDocument == [operator |-> {}, extras |-> {}]

-----------------------------------------------------------------------------
(* The pure part of main().                                                *)

\* The installer may come to one key for both references, whichever plugin path
\* it reads from the images of selector-less ones.
MayCollide(a, b) ==
  \E path \in Selectors :
    LET paths == [stem \in Stems |-> path]
    IN  InstallerKey(a, paths) = InstallerKey(b, paths)

\* Broken: only an enabled operator entry wins.
OperatorEntry_EnabledOnly(operatorPlugins, p) ==
  {o \in operatorPlugins :
     o.package # NoRef /\ ~ o.disabled /\ samePlugin(o.package, p.package)}

\* Broken: the selector is not looked at.
OperatorEntry_ByRepository(operatorPlugins, p) ==
  {o \in operatorPlugins : o.package # NoRef /\ o.package.stem = p.package.stem}

\* The operator's entries for the plugin of p, a disabled one included.
OperatorEntry(operatorPlugins, p) ==
  {o \in operatorPlugins : o.package # NoRef /\ samePlugin(o.package, p.package)}

MergedExtras(operatorPlugins, entries) ==
  {p \in entries :
     p.package # NoRef /\ OperatorEntry(operatorPlugins, p) = {}}

\* A missing, unreadable, empty or invalid write-through file is an empty list.
loadExtensionsPlugins(f) == IF f = NoFile THEN {} ELSE f

-----------------------------------------------------------------------------
Init ==
  /\ stage = "down"
  /\ operatorConfig \in OperatorConfigs \cup {Invalid}
  /\ dbPath \in {"unset", "linked", "elsewhere"}
  /\ extensionsFile = NoFile
  /\ extensionsPlugins = {}
  /\ mergedDoc = NoDocument
  /\ outFile = NoFile
  /\ installed = NoDocument

\* The pre-step always exits 0: it has replaced the file, or left it as it was.
Prestep ==
  /\ stage = "down"
  /\ stage' = "merge"
  /\ \/ extensionsFile' \in ExtensionsFiles
     \/ UNCHANGED extensionsFile
  /\ UNCHANGED <<operatorConfig, dbPath, extensionsPlugins, mergedDoc, outFile, installed>>

\* fatal(): no DEVPORTAL_DB_PATH, or no usable operator document.
Refuse ==
  /\ stage = "merge"
  /\ dbPath = "unset" \/ operatorConfig = Invalid
  /\ stage' = "failed"
  /\ UNCHANGED <<operatorConfig, dbPath, extensionsFile, extensionsPlugins, mergedDoc,
                 outFile, installed>>

\* Both inputs are read and writeFileSync has truncated the output, at the path the
\* installer reads or elsewhere.  The read of
\* the write-through file may fail, which counts as an empty list.
Merge ==
  /\ stage = "merge"
  /\ dbPath # "unset" /\ operatorConfig # Invalid
  /\ stage' = "writing"
  /\ extensionsPlugins' \in {loadExtensionsPlugins(extensionsFile), {}}
  /\ mergedDoc' = [operator |-> operatorConfig,
                   extras   |-> MergedExtras(operatorConfig, extensionsPlugins')]
  /\ outFile' = IF dbPath = "linked" THEN Partial ELSE outFile
  /\ UNCHANGED <<operatorConfig, dbPath, extensionsFile, installed>>

FinishWrite ==
  /\ stage = "writing"
  /\ stage' = "check"
  /\ outFile' = IF dbPath = "linked" THEN mergedDoc ELSE outFile
  /\ UNCHANGED <<operatorConfig, dbPath, extensionsFile, extensionsPlugins, mergedDoc,
                 installed>>

\* mkdirSync or writeFileSync throws: nothing catches it, and node exits non-zero.
WriteThrows ==
  /\ stage = "writing"
  /\ stage' = "failed"
  /\ UNCHANGED <<operatorConfig, dbPath, extensionsFile, extensionsPlugins, mergedDoc,
                 outFile, installed>>

\* Broken: it suffices that the installer's path resolves to some file.
CheckReadPath_Exists ==
  /\ stage = "check"
  /\ stage' = IF outFile # NoFile THEN "merged" ELSE "failed"
  /\ UNCHANGED <<operatorConfig, dbPath, extensionsFile, extensionsPlugins, mergedDoc,
                 outFile, installed>>

\* The installer's fixed path must resolve to the file just written.
CheckReadPath ==
  /\ stage = "check"
  /\ stage' = IF dbPath = "linked" THEN "merged" ELSE "failed"
  /\ UNCHANGED <<operatorConfig, dbPath, extensionsFile, extensionsPlugins, mergedDoc,
                 outFile, installed>>

\* The installer reads its fixed path, refuses two enabled entries of one key, and
\* the backend starts.
InstallPlugins ==
  /\ stage = "merged"
  /\ \/ /\ stage' = "running"
        /\ installed' = outFile
     \/ /\ stage' = "failed"
        /\ UNCHANGED installed
  /\ UNCHANGED <<operatorConfig, dbPath, extensionsFile, extensionsPlugins, mergedDoc, outFile>>

\* The running backend mirrors a change of its table into the file.
WriteThrough ==
  /\ stage = "running"
  /\ extensionsFile' \in ExtensionsFiles
  /\ UNCHANGED <<stage, operatorConfig, dbPath, extensionsPlugins, mergedDoc, outFile, installed>>

\* The pod is killed, or restarts after a failure; the volume survives or is lost.
Stop ==
  /\ stage # "down"
  /\ stage' = "down"
  /\ extensionsPlugins' = {}
  /\ mergedDoc' = NoDocument
  /\ installed' = NoDocument
  /\ \/ UNCHANGED <<extensionsFile, outFile>>
     \/ /\ extensionsFile' = NoFile
        /\ outFile' = NoFile
  /\ UNCHANGED <<operatorConfig, dbPath>>

\* A new deploy changes the operator document or the environment.
Deploy ==
  /\ stage = "down"
  /\ operatorConfig' \in OperatorConfigs \cup {Invalid}
  /\ dbPath' \in {"unset", "linked", "elsewhere"}
  /\ UNCHANGED <<stage, extensionsFile, extensionsPlugins, mergedDoc, outFile, installed>>

Next ==
  \/ Prestep \/ Refuse \/ Merge \/ FinishWrite \/ WriteThrows \/ CheckReadPath
  \/ InstallPlugins \/ WriteThrough \/ Stop \/ Deploy

Spec == Init /\ [][Next]_vars

-----------------------------------------------------------------------------
MergeTypeOK ==
  /\ stage \in {"down", "merge", "writing", "check", "merged", "running", "failed"}
  /\ operatorConfig \in OperatorConfigs \cup {Invalid}
  /\ dbPath \in {"unset", "linked", "elsewhere"}
  /\ extensionsFile \in (SUBSET ListEntry) \cup {NoFile}
  /\ extensionsPlugins \in SUBSET ListEntry
  /\ mergedDoc \in Document
  /\ outFile \in Document \cup {NoFile, Partial}
  /\ installed \in Document

\* The installer reads what this boot has merged from the operator's present
\* document, never the file of an earlier boot, one that a killed write has cut
\* short, or one at another path (the read-path check at the end of main()).
InstallsThisBootsMerge ==
  stage = "running" =>
    /\ installed = mergedDoc
    /\ installed.operator = operatorConfig

\* No Marketplace entry stands beside an operator entry under one key of the
\* installer, whose collision is fatal whatever "disabled" says: the operator's
\* decision about a plugin, off included, cannot be overridden or made fatal by
\* the Marketplace.
OperatorWins ==
  stage \in {"merged", "running"} =>
    \A o \in outFile.operator, p \in outFile.extras :
      o.package # NoRef =>
        ~ MayCollide(o.package, p.package)

\* A Marketplace entry that the merge drops names the plugin of an operator entry
\* (header of merge-dynamic-plugins.js: "every extensions.plugins entry that does
\* not name the same plugin as an operator entry" is kept).
DropsOnlySamePlugin ==
  stage = "check" =>
    \A p \in extensionsPlugins \ mergedDoc.extras :
      p.package # NoRef =>
        \E o \in mergedDoc.operator :
          o.package # NoRef /\ MayCollide(o.package, p.package)
=============================================================================
