---------------------------- MODULE RowSelection ----------------------------
(***************************************************************************)
(* Which rows of marketplace_installations a boot acts on: the factory     *)
(* filter of main() followed by keepOneRowPerPlugin.  Both are functions   *)
(* of the rows just read and of the factory list; neither touches state.   *)
(***************************************************************************)
EXTENDS PluginIdentity

CONSTANTS
  Packages,   \* the package_name values (primary keys) a row may have
  Rank,       \* their position under ORDER BY package_name
  FactoryEntries,  \* factory-plugins.yaml of the image
  NoDigest,   \* SQL NULL in resolved_digest
  Unset       \* config_yaml without a "disabled" key

ASSUME SelectionAssumption ==
  /\ Packages \subseteq PackageRef
  /\ Rank \in [Packages -> Nat]
  /\ \A m, n \in Packages : Rank[m] = Rank[n] => m = n
  /\ NoDigest \notin Digests
  /\ Unset \notin BOOLEAN

\* config_yaml keeps what the boot reads of it.  NULL, corrupt YAML and a mapping
\* with neither key are all [package |-> NoRef, disabled |-> Unset]: the code
\* synthesizes the same entry for the three.
Row ==
  [package_name    : Packages,
   requested_ref   : PackageRef \cup {NoRef},
   resolved_digest : Digests \cup {NoDigest},
   disabled        : BOOLEAN,
   updated_at      : Nat,
   config          : [package  : PackageRef \cup {NoRef},
                      disabled : BOOLEAN \cup {Unset}]]

FactoryEntry == [repository : Stems, path : Selectors, protected : BOOLEAN]

ASSUME FactoryAssumption ==
  /\ FactoryEntries \subseteq FactoryEntry
  /\ \A e, f \in FactoryEntries :
       e.repository = f.repository /\ e.path = f.path => e = f

requestedRef(row) ==
  IF row.requested_ref # NoRef THEN row.requested_ref ELSE row.package_name

rowPackageRef(row) ==
  IF row.config.package # NoRef THEN row.config.package ELSE requestedRef(row)

\* Broken: the time alone decides.
preferredRow_LatestWins(current, candidate) ==
  IF candidate.updated_at >= current.updated_at THEN candidate ELSE current

\* An enabled row beats a disabled one, then the later write wins, and on a tie
\* the candidate, which stands behind the current row in the array.
preferredRow(current, candidate) ==
  IF current.disabled # candidate.disabled
    THEN IF current.disabled THEN candidate ELSE current
    ELSE IF candidate.updated_at >= current.updated_at THEN candidate ELSE current

\* row stands behind other in the array: by package_name, and the factory rows
\* that main() pushes back stand behind all others.
Behind(row, other, pushedBack) ==
  \/ row \in pushedBack /\ other \notin pushedBack
  \/ /\ row \in pushedBack <=> other \in pushedBack
     /\ Rank[row.package_name] > Rank[other.package_name]

\* row is what folding preferredRow over the rivals in array order returns.
IsPreferred(row, rivals, pushedBack) ==
  \A other \in rivals \ {row} :
    IF Behind(row, other, pushedBack)
      THEN preferredRow(other, row) = row
      ELSE preferredRow(row, other) = row

-----------------------------------------------------------------------------
(* The factory list.                                                       *)

factoryEntriesFor(entries, ref) ==
  {e \in entries :
     /\ IsOci(ref)
     /\ e.repository = ref.stem
     /\ ref.selector = NoSelector \/ ref.selector = e.path}

\* The row names exactly one factory plugin; a row that could name several is
\* handled as an ordinary row.
IsFactoryRow(entries, row, entry) ==
  factoryEntriesFor(entries, rowPackageRef(row)) = {entry}

OrdinaryRows(entries, rows) ==
  {row \in rows : \A entry \in entries : ~ IsFactoryRow(entries, row, entry)}

\* Broken: every disabled row counts, also one an enabled row makes stale.
PushedBackRows_AnyDisabled(entries, rows) ==
  {row \in rows :
     \E entry \in entries :
       IsFactoryRow(entries, row, entry) /\ ~ entry.protected /\ row.disabled}

\* Protected rows are dropped, and so are enabled ones (the index default wins):
\* a disabled row that its plugin's other rows do not beat goes back to the others.
PushedBackRows(entries, rows) ==
  {row \in rows :
     \E entry \in entries :
       /\ IsFactoryRow(entries, row, entry)
       /\ ~ entry.protected
       /\ row.disabled
       /\ IsPreferred(row, {r \in rows : IsFactoryRow(entries, r, entry)}, {})}

-----------------------------------------------------------------------------
(* keepOneRowPerPlugin.                                                    *)

OfRepository(rows, stem) ==
  {row \in rows : IsOci(rowPackageRef(row)) /\ rowPackageRef(row).stem = stem}

\* More than one selector is named for the repository.
SeveralSelectors(rows, stem) ==
  \E r, s \in OfRepository(rows, stem) :
    /\ NoSelector \notin {rowPackageRef(r).selector, rowPackageRef(s).selector}
    /\ rowPackageRef(r).selector # rowPackageRef(s).selector

\* Broken: one row per repository, whatever its selector.
Rivals_ByRepository(rows, row) == OfRepository(rows, rowPackageRef(row).stem)

\* The rows one of which is kept: all of the repository, or, when it has several
\* selectors, those of one selector.
Rivals(rows, row) ==
  LET ref == rowPackageRef(row) IN
  {r \in OfRepository(rows, ref.stem) :
     SeveralSelectors(rows, ref.stem) => rowPackageRef(r).selector = ref.selector}

\* Broken: an ambiguous selector-less row is kept beside the others.
keepOneRowPerPlugin_KeepAmbiguous(rows, pushedBack) ==
  {row \in rows :
     IsOci(rowPackageRef(row)) => IsPreferred(row, Rivals(rows, row), pushedBack)}

\* A selector-less row is omitted when it could name several plugins.
keepOneRowPerPlugin(rows, pushedBack) ==
  {row \in rows :
     LET ref == rowPackageRef(row) IN
     IsOci(ref) =>
       /\ ~ (ref.selector = NoSelector /\ SeveralSelectors(rows, ref.stem))
       /\ IsPreferred(row, Rivals(rows, row), pushedBack)}

\* The two passes of main(); an unreadable factory list is the empty one.
SelectedRows(entries, rows) ==
  LET pushedBack == PushedBackRows(entries, rows)
  IN  keepOneRowPerPlugin(OrdinaryRows(entries, rows) \cup pushedBack, pushedBack)
=============================================================================
