-------------------------- MODULE ExtensionsPrestep --------------------------
(***************************************************************************)
(* veecode/regenerate-extensions-install.js: the step each pod runs before *)
(* the plugin installer.  It reads the rows of marketplace_installations   *)
(* once, selects the ones to act on, pins every enabled OCI row to a       *)
(* digest (stored, or resolved through skopeo and written back) and        *)
(* replaces the pod's extensions-install.yaml in one rename.  Pods share   *)
(* the table and the registry; the Marketplace backend of a running pod     *)
(* and the registry change between any two steps.                          *)
(***************************************************************************)
EXTENDS InstallationTable

CONSTANTS
  Pods,
  Images,          \* <<repository, version>> pairs the registry may serve
  NoFile           \* extensions-install.yaml does not exist

ASSUME PrestepAssumption == Images \subseteq Stems \X Versions

VARIABLES
  registry,       \* the digest an image reference resolves to, or NoDigest
  pc,             \* where each pod is in main()
  rows,           \* main()'s rows after selection
  todo,           \* the rows the pin loop has not reached
  hasDigestColumn,
  effectiveRefs,  \* the digest-pinned reference of a key, or NoRef
  skipped,        \* rows left out because no digest was found
  persisting,     \* the row whose UPDATE is in flight, or NoRow
  file            \* the entries of extensions-install.yaml, or NoFile

envVars == <<tableVars, registry>>
podVars == <<pc, rows, todo, hasDigestColumn, effectiveRefs, skipped, persisting>>
vars == <<table, writes, columns, registry, pc, rows, todo, hasDigestColumn,
          effectiveRefs, skipped, persisting, file>>

Entry == [package : PackageRef, disabled : BOOLEAN, package_name : Packages]

-----------------------------------------------------------------------------
(* The pure parts of main().                                               *)

\* The loop runs in array order.  Pushed-back factory rows come last in the code;
\* they are disabled, so no step of theirs touches the table or the registry.
IsNext(p, row) ==
  /\ row \in todo[p]
  /\ \A other \in todo[p] : Rank[row.package_name] <= Rank[other.package_name]

Resolves(image) == IF image \in Images THEN registry[image] ELSE NoDigest

\* Broken: a package stored in config_yaml wins over the pinned reference.
PluginEntry_ConfigWins(row, effective) ==
  [package |-> IF row.config.package # NoRef THEN row.config.package
               ELSE IF effective # NoRef THEN effective
               ELSE row.package_name,
   disabled |-> IF row.config.disabled # Unset THEN row.config.disabled
                ELSE row.disabled,
   package_name |-> row.package_name]

\* rowsToPlugins for one row.
PluginEntry(row, effective) ==
  [package |-> IF effective # NoRef THEN effective
               ELSE IF row.config.package # NoRef THEN row.config.package
               ELSE row.package_name,
   disabled |-> IF row.config.disabled # Unset THEN row.config.disabled
                ELSE row.disabled,
   package_name |-> row.package_name]

\* Broken: one unresolvable row abandons the regeneration.
rowsToPlugins_AllOrNothing(p) ==
  IF skipped[p] # {} THEN {}
  ELSE {PluginEntry(row, effectiveRefs[p][row.package_name]) : row \in rows[p]}

rowsToPlugins(p) ==
  {PluginEntry(row, effectiveRefs[p][row.package_name]) : row \in rows[p] \ skipped[p]}

-----------------------------------------------------------------------------
Init ==
  /\ TableInit
  /\ registry \in [Images -> Digests \cup {NoDigest}]
  /\ \A image \in Images :
       image[2] \in Digests => registry[image] \in {image[2], NoDigest}
  /\ pc = [p \in Pods |-> "down"]
  /\ rows = [p \in Pods |-> {}]
  /\ todo = [p \in Pods |-> {}]
  /\ hasDigestColumn = [p \in Pods |-> FALSE]
  /\ effectiveRefs = [p \in Pods |-> [n \in Packages |-> NoRef]]
  /\ skipped = [p \in Pods |-> {}]
  /\ persisting = [p \in Pods |-> NoRow]
  /\ file = [p \in Pods |-> NoFile]

\* The init container starts; app-config says client: pg with a usable connection.
Start(p) ==
  /\ pc[p] = "down"
  /\ pc' = [pc EXCEPT ![p] = "read"]
  /\ UNCHANGED <<envVars, rows, todo, hasDigestColumn, effectiveRefs, skipped,
                 persisting, file>>

\* Every early return of main(): unusable configuration, unreachable Postgres,
\* missing database, missing table.  The file stays as it is.
ReadFails(p) ==
  /\ pc[p] = "read"
  /\ pc' = [pc EXCEPT ![p] = "exited"]
  /\ UNCHANGED <<envVars, rows, todo, hasDigestColumn, effectiveRefs, skipped,
                 persisting, file>>

\* loadInstallations, the factory filter and keepOneRowPerPlugin; {} stands for a
\* factory list that cannot be read.
ReadInstallations(p) ==
  /\ pc[p] = "read"
  /\ columns # "none"
  /\ pc' = [pc EXCEPT ![p] = "pin"]
  /\ hasDigestColumn' = [hasDigestColumn EXCEPT ![p] = columns = "digest"]
  /\ \E entries \in {FactoryEntries, {}} :
       LET selected == SelectedRows(entries, Rows(table))
       IN  /\ rows' = [rows EXCEPT ![p] = selected]
           /\ todo' = [todo EXCEPT ![p] = selected]
  /\ UNCHANGED <<envVars, effectiveRefs, skipped, persisting, file>>

NeedsDigest(row) ==
  /\ IsOci(requestedRef(row))
  /\ ~ row.disabled
  /\ row.resolved_digest = NoDigest

\* Broken: the stored digest does not reach the file.
PassRow_KeepsTag(p) ==
  /\ pc[p] = "pin"
  /\ \E row \in todo[p] :
       /\ IsNext(p, row)
       /\ ~ NeedsDigest(row)
       /\ todo' = [todo EXCEPT ![p] = @ \ {row}]
  /\ UNCHANGED <<envVars, pc, rows, hasDigestColumn, effectiveRefs, skipped,
                 persisting, file>>

\* Rows that need no registry: not OCI, already pinned, or disabled.
PassRow(p) ==
  /\ pc[p] = "pin"
  /\ \E row \in todo[p] :
       /\ IsNext(p, row)
       /\ ~ NeedsDigest(row)
       /\ todo' = [todo EXCEPT ![p] = @ \ {row}]
       /\ effectiveRefs' =
            IF IsOci(requestedRef(row)) /\ row.resolved_digest # NoDigest
              THEN [effectiveRefs EXCEPT ![p][row.package_name] =
                      refWithDigest(requestedRef(row), row.resolved_digest)]
              ELSE effectiveRefs
  /\ UNCHANGED <<envVars, pc, rows, hasDigestColumn, skipped, persisting, file>>

\* skopeo answers; with the column present the UPDATE is sent next.
ResolveDigest(p) ==
  /\ pc[p] = "pin"
  /\ \E row \in todo[p] :
       LET requested == requestedRef(row)
           digest    == Resolves(<<requested.stem, requested.version>>)
       IN  /\ IsNext(p, row)
           /\ NeedsDigest(row)
           /\ digest # NoDigest
           /\ todo' = [todo EXCEPT ![p] = @ \ {row}]
           /\ effectiveRefs' = [effectiveRefs EXCEPT ![p][row.package_name] =
                                  refWithDigest(requested, digest)]
           /\ IF hasDigestColumn[p]
                THEN /\ pc' = [pc EXCEPT ![p] = "persist"]
                     /\ persisting' = [persisting EXCEPT ![p] = row]
                ELSE UNCHANGED <<pc, persisting>>
  /\ UNCHANGED <<envVars, rows, hasDigestColumn, skipped, file>>

\* Broken: the bare tag is materialised when no digest is found.
ResolveFails_BareTag(p) ==
  /\ pc[p] = "pin"
  /\ \E row \in todo[p] :
       /\ IsNext(p, row)
       /\ NeedsDigest(row)
       /\ todo' = [todo EXCEPT ![p] = @ \ {row}]
  /\ UNCHANGED <<envVars, pc, rows, hasDigestColumn, effectiveRefs, skipped,
                 persisting, file>>

\* skopeo fails, times out, or the image does not exist: only this row is left out.
ResolveFails(p) ==
  /\ pc[p] = "pin"
  /\ \E row \in todo[p] :
       /\ IsNext(p, row)
       /\ NeedsDigest(row)
       /\ todo' = [todo EXCEPT ![p] = @ \ {row}]
       /\ skipped' = [skipped EXCEPT ![p] = @ \cup {row}]
  /\ UNCHANGED <<envVars, pc, rows, hasDigestColumn, effectiveRefs, persisting, file>>

\* UPDATE ... SET resolved_digest WHERE package_name: no row, no effect.
PersistDigest(p) ==
  /\ pc[p] = "persist"
  /\ LET n == persisting[p].package_name
     IN  table' = IF table[n] = NoRow THEN table
                  ELSE [table EXCEPT ![n].resolved_digest = effectiveRefs[p][n].version]
  /\ pc' = [pc EXCEPT ![p] = "pin"]
  /\ persisting' = [persisting EXCEPT ![p] = NoRow]
  /\ UNCHANGED <<writes, columns, registry, rows, todo, hasDigestColumn,
                 effectiveRefs, skipped, file>>

\* The UPDATE fails: a warning, and the boot goes on with the digest in memory.
PersistFails(p) ==
  /\ pc[p] = "persist"
  /\ pc' = [pc EXCEPT ![p] = "pin"]
  /\ persisting' = [persisting EXCEPT ![p] = NoRow]
  /\ UNCHANGED <<envVars, rows, todo, hasDigestColumn, effectiveRefs, skipped, file>>

\* mkdir and writeAtomic: the rename replaces the whole file or nothing happens.
WriteFile(p) ==
  /\ pc[p] = "pin"
  /\ todo[p] = {}
  /\ pc' = [pc EXCEPT ![p] = "exited"]
  /\ file' = [file EXCEPT ![p] = rowsToPlugins(p)]
  /\ UNCHANGED <<envVars, rows, todo, hasDigestColumn, effectiveRefs, skipped,
                 persisting>>

\* Broken: a boot that cannot write the file starts over.
WriteFails_Retry(p) ==
  /\ pc[p] = "pin"
  /\ todo[p] = {}
  /\ pc' = [pc EXCEPT ![p] = "read"]
  /\ UNCHANGED <<envVars, rows, todo, hasDigestColumn, effectiveRefs, skipped,
                 persisting, file>>

WriteFails(p) ==
  /\ pc[p] = "pin"
  /\ todo[p] = {}
  /\ pc' = [pc EXCEPT ![p] = "exited"]
  /\ UNCHANGED <<envVars, rows, todo, hasDigestColumn, effectiveRefs, skipped,
                 persisting, file>>

-----------------------------------------------------------------------------
(* The environment.                                                        *)

\* The pod is killed at any point, or stops after the step; its process memory
\* is gone.  The file survives on a volume and is lost with an ephemeral disk.
Stop(p) ==
  /\ pc[p] # "down"
  /\ pc' = [pc EXCEPT ![p] = "down"]
  /\ rows' = [rows EXCEPT ![p] = {}]
  /\ todo' = [todo EXCEPT ![p] = {}]
  /\ hasDigestColumn' = [hasDigestColumn EXCEPT ![p] = FALSE]
  /\ effectiveRefs' = [effectiveRefs EXCEPT ![p] = [n \in Packages |-> NoRef]]
  /\ skipped' = [skipped EXCEPT ![p] = {}]
  /\ persisting' = [persisting EXCEPT ![p] = NoRow]
  /\ \/ UNCHANGED file
     \/ file' = [file EXCEPT ![p] = NoFile]
  /\ UNCHANGED envVars

\* An image is pushed, its tag moves, or it is deleted; an image named by digest
\* resolves to that digest or not at all.
RegistryChanges ==
  /\ \E image \in Images, digest \in Digests \cup {NoDigest} :
       /\ digest # registry[image]
       /\ image[2] \in Digests => digest \in {image[2], NoDigest}
       /\ registry' = [registry EXCEPT ![image] = digest]
  /\ UNCHANGED <<tableVars, podVars, file>>

Backend ==
  /\ BackendNext
  /\ UNCHANGED <<registry, podVars, file>>

PrestepStep(p) ==
  \/ ReadFails(p) \/ ReadInstallations(p)
  \/ PassRow(p) \/ ResolveDigest(p) \/ ResolveFails(p)
  \/ PersistDigest(p) \/ PersistFails(p)
  \/ WriteFile(p) \/ WriteFails(p)

Next ==
  \/ \E p \in Pods : Start(p) \/ PrestepStep(p) \/ Stop(p)
  \/ RegistryChanges \/ Backend

Spec == Init /\ [][Next]_vars

\* Every call main() awaits is bounded (CONNECT_TIMEOUT_MS, STATEMENT_TIMEOUT_MS,
\* SKOPEO_TIMEOUT_MS), so a pod that is not killed takes its next step.
Fairness == \A p \in Pods : WF_vars(PrestepStep(p))

FairSpec == Spec /\ Fairness

-----------------------------------------------------------------------------
TypeOK ==
  /\ TableTypeOK
  /\ registry \in [Images -> Digests \cup {NoDigest}]
  /\ pc \in [Pods -> {"down", "read", "pin", "persist", "exited"}]
  /\ rows \in [Pods -> SUBSET Row]
  /\ todo \in [Pods -> SUBSET Row]
  /\ hasDigestColumn \in [Pods -> BOOLEAN]
  /\ effectiveRefs \in [Pods -> [Packages -> PackageRef \cup {NoRef}]]
  /\ skipped \in [Pods -> SUBSET Row]
  /\ persisting \in [Pods -> Row \cup {NoRow}]
  /\ file \in [Pods -> (SUBSET Entry) \cup {NoFile}]

Entries(p) == IF file[p] = NoFile THEN {} ELSE file[p]

\* The file never carries a bare tag for an enabled OCI selection, whatever fails,
\* changes or is killed while it is made (the pin loop of main()).
EnabledEntriesPinned ==
  \A p \in Pods : \A e \in Entries(p) :
    ~ e.disabled /\ IsOci(e.package) => e.package.version \in Digests

\* No two OCI entries of the file name one plugin: pinning does not undo what
\* keepOneRowPerPlugin established on the rows.
OneEntryPerPlugin ==
  \A p \in Pods : \A e, f \in Entries(p) :
    e # f /\ IsOci(e.package) /\ IsOci(f.package) => ~ samePlugin(e.package, f.package)

\* A digest once stored for a row stays until the backend replaces the row: no
\* boot resolves the tag again (comment of the pin loop).
StoredDigestStays ==
  [][\A n \in Packages :
       /\ table[n] # NoRow /\ table'[n] # NoRow
       /\ table[n].resolved_digest # NoDigest
       => table'[n].resolved_digest = table[n].resolved_digest]_vars

\* What a boot writes for an enabled row is what the next boot will read from the
\* table: a restart reinstalls the same bytes (comment of the pin loop).
RestartSameBytes ==
  [][\A p \in Pods :
       WriteFile(p) =>
         \A e \in file'[p] :
           LET row == table[e.package_name] IN
           /\ ~ e.disabled /\ IsOci(e.package)
           /\ row # NoRow
           /\ row.resolved_digest # NoDigest
           => e.package.version = row.resolved_digest]_vars

\* A registry that answers nothing costs only the rows that were never pinned:
\* every selected row that needs no digest is in the file a boot writes.
OutageCostsOnlyUnpinned ==
  [][\A p \in Pods :
       WriteFile(p) =>
         \A row \in rows[p] :
           ~ NeedsDigest(row) =>
             \E e \in file'[p] : e.package_name = row.package_name]_vars

\* A boot that is not killed ends: an unreachable Postgres or registry delays the
\* installer but never holds it up for good.
BootEnds == \A p \in Pods : pc[p] = "read" ~> pc[p] \in {"exited", "down"}

-----------------------------------------------------------------------------
(* The abstract view: which digest each row is pinned to, and which digests  *)
(* the files name.                                                           *)

storedPin ==
  [n \in Packages |-> IF table[n] = NoRow THEN NoRow ELSE table[n].resolved_digest]

publishedDigests ==
  {<<e.package_name, e.package.version>> :
     e \in {f \in UNION {Entries(p) : p \in Pods} : ~ f.disabled /\ IsOci(f.package)}}

Store == INSTANCE PinStore WITH pin <- storedPin, published <- publishedDigests

\* The pre-step of one pod implements the pin store: it pins a row at most once
\* between two changes of the user, and publishes digests that agree with the pins
\* (comment of the pin loop in main()).
ImplementsPinStore == Store!Spec
=============================================================================
