-------------------------- MODULE InstallationTable --------------------------
(***************************************************************************)
(* The Postgres table marketplace_installations and the Marketplace        *)
(* backend that writes it.  The backend is a plugin installed at boot, not *)
(* part of this repository: its operations are modelled from what          *)
(* veecode/regenerate-extensions-install.js says and assumes of them (rows  *)
(* keyed by the full reference, a new row has no digest, disabling keeps    *)
(* it) and from the rows its tests insert.                                 *)
(***************************************************************************)
EXTENDS RowSelection

CONSTANTS
  NoRow,      \* no row under this key
  Forms,      \* Forms[n]: what the backend may store with a row of key n
  MaxWrites   \* bound: writes of the backend in one behaviour

VARIABLES
  table,      \* the row under each key, or NoRow
  writes,     \* writes of the backend so far
  columns     \* "none": no database or table yet; "base": no requested_ref and
              \* resolved_digest; "digest": all columns

tableVars == <<table, writes, columns>>

\* requested_ref and config_yaml name the plugin of the key, whatever the version,
\* and a stored "disabled" agrees with the column.
Form ==
  [requested_ref  : PackageRef \cup {NoRef},
   package        : PackageRef \cup {NoRef},
   storesDisabled : BOOLEAN]

SameIdentity(a, b) ==
  a.kind = b.kind /\ a.stem = b.stem /\ a.selector = b.selector

ASSUME TableAssumption ==
  /\ MaxWrites \in Nat
  /\ NoRow \notin Row
  /\ Forms \in [Packages -> SUBSET Form]
  /\ \A n \in Packages : \A f \in Forms[n] :
       /\ f.requested_ref # NoRef => SameIdentity(f.requested_ref, n)
       /\ f.package # NoRef => SameIdentity(f.package, n)

TableTypeOK ==
  /\ table \in [Packages -> Row \cup {NoRow}]
  /\ writes \in 0 .. MaxWrites
  /\ columns \in {"none", "base", "digest"}

\* A row stands under its key, names the plugin of its key in every column, and
\* its two "disabled" agree.
RowMatches(row, n) ==
  /\ row.package_name = n
  /\ row.requested_ref # NoRef => SameIdentity(row.requested_ref, n)
  /\ row.config.package # NoRef => SameIdentity(row.config.package, n)
  /\ row.config.disabled \in {Unset, row.disabled}

KeysMatch == \A n \in Packages : table[n] # NoRow => RowMatches(table[n], n)

\* What SELECT ... FROM marketplace_installations returns.
Rows(t) == {t[n] : n \in {m \in Packages : t[m] # NoRow}}

\* updated_at never goes back, and two writes may carry one time.
Stamps == {writes, writes + 1}

NewRow(n, form, disabled, now) ==
  [package_name    |-> n,
   requested_ref   |-> IF columns = "digest" THEN form.requested_ref ELSE NoRef,
   resolved_digest |-> NoDigest,
   disabled        |-> disabled,
   updated_at      |-> now,
   config          |-> [package  |-> form.package,
                        disabled |-> IF form.storesDisabled THEN disabled ELSE Unset]]

TableInit ==
  /\ table = [n \in Packages |-> NoRow]
  /\ writes = 0
  /\ columns \in {"none", "base", "digest"}

\* The backend creates its database, then adds the two digest columns.
Migrate ==
  /\ columns # "digest"
  /\ columns' = IF columns = "none" THEN "base" ELSE "digest"
  /\ UNCHANGED <<table, writes>>

\* The user installs package n; rows of other versions of the plugin stay.
Install(n) ==
  /\ columns # "none"
  /\ table[n] = NoRow
  /\ writes < MaxWrites
  /\ writes' = writes + 1
  /\ UNCHANGED columns
  /\ \E form \in Forms[n], now \in Stamps :
       table' = [table EXCEPT ![n] = NewRow(n, form, FALSE, now)]

\* The user disables or enables an installed package.
SetDisabled(n) ==
  /\ table[n] # NoRow
  /\ writes < MaxWrites
  /\ writes' = writes + 1
  /\ UNCHANGED columns
  /\ \E now \in Stamps :
       LET row == table[n]
           stored == IF row.config.disabled = Unset THEN Unset ELSE ~ row.disabled
       IN  table' = [table EXCEPT ![n] =
             [row EXCEPT !.disabled = ~ row.disabled,
                         !.updated_at = now,
                         !.config = [row.config EXCEPT !.disabled = stored]]]

\* The user uninstalls package n.
Uninstall(n) ==
  /\ table[n] # NoRow
  /\ writes < MaxWrites
  /\ writes' = writes + 1
  /\ UNCHANGED columns
  /\ table' = [table EXCEPT ![n] = NoRow]

BackendNext ==
  \/ Migrate
  \/ \E n \in Packages : Install(n) \/ SetDisabled(n) \/ Uninstall(n)

TableSpec == TableInit /\ [][BackendNext]_tableVars
=============================================================================
