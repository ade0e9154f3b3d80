------------------------ MODULE SelectionProperties ------------------------
(***************************************************************************)
(* What the selection of rows promises for every table the Marketplace can *)
(* produce: Selected is what a boot that reads the table now acts on.      *)
(***************************************************************************)
EXTENDS InstallationTable

Selected == SelectedRows(FactoryEntries, Rows(table))

\* Two rows the boot acts on never name the same OCI plugin, selector-less
\* references included: the installer fails the whole install on two enabled
\* entries with one key (keepOneRowPerPlugin).
OneRowPerPlugin ==
  \A r, s \in Selected :
    /\ r # s
    /\ IsOci(rowPackageRef(r)) /\ IsOci(rowPackageRef(s))
    => ~ samePlugin(rowPackageRef(r), rowPackageRef(s))

\* A plugin some row enables is not lost to a disabled or an older row of it: an
\* enabled row for it is acted on, unless the row is selector-less and could name
\* several plugins, or the factory list names its plugin.
EnabledPluginKept ==
  \A row \in OrdinaryRows(FactoryEntries, Rows(table)) :
    LET ref == rowPackageRef(row) IN
    /\ ~ row.disabled
    /\ ref.selector = NoSelector => ~ SeveralSelectors(Rows(table), ref.stem)
    => \E kept \in Selected :
         ~ kept.disabled /\ samePlugin(rowPackageRef(kept), ref)

\* The index owns the factory plugins: no enabled row of one is acted on, and a
\* row that disables one is, only if the plugin is not protected and no row of
\* the table enables it (the factory filter of main()).
FactoryDefaultWins ==
  \A row \in Selected, entry \in FactoryEntries :
    IsFactoryRow(FactoryEntries, row, entry) =>
      /\ row.disabled
      /\ ~ entry.protected
      /\ \A r \in Rows(table) :
           IsFactoryRow(FactoryEntries, r, entry) => r.disabled

\* What may come into use as gone is uninstalled from rows: a row of its plugin, or
\* of another one of the repository when that has a selector-less row.
HandedOver(row, gone, rows) ==
  LET ref == rowPackageRef(row) IN
  \/ samePlugin(ref, rowPackageRef(gone))
  \/ /\ IsOci(ref)
     /\ gone \in OfRepository(rows, ref.stem)
     /\ \E r \in OfRepository(rows, ref.stem) : rowPackageRef(r).selector = NoSelector

\* Uninstalling the version of a plugin that is in use hands it to a remaining
\* row of the plugin; uninstalling one that is not in use changes nothing for the
\* other plugins and their versions.  One exception lies within the repository:
\* when a disabled row of a factory plugin counts again, a selector-less row that
\* could then name several plugins gives way to the one it stood for
\* (keepOneRowPerPlugin after the factory filter).
UninstallIsLocal ==
  [][\A n \in Packages :
       Uninstall(n) =>
         \A r \in Selected' \ Selected :
           HandedOver(r, table[n], Rows(table))]_tableVars
=============================================================================
