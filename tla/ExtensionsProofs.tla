--------------------------- MODULE ExtensionsProofs ---------------------------
(***************************************************************************)
(* The selection of rows, for every set of references, rows and factory    *)
(* entries: a selected row is defined by the comparison with its rivals,   *)
(* not by a recursion, and needs no induction.  Then the pre-step, for     *)
(* every number of pods, every table, registry, set of references and      *)
(* factory list: its state is well typed, its file never carries a bare    *)
(* tag for an enabled OCI selection, and never two entries for one OCI     *)
(* plugin.  The invariant behind the two says what the pin loop has        *)
(* established of the rows it has passed.                                  *)
(***************************************************************************)
EXTENDS ExtensionsPrestep, SelectionProperties, TLAPS, WellFoundedInduction

\* The comparison of two references does not depend on their order.
LEMMA SamePluginSymmetric ==
  ASSUME NEW a, NEW b
  PROVE  samePlugin(a, b) <=> samePlugin(b, a)
BY DEF samePlugin, IsOci, normalizePluginKey

\* Two OCI references that name one plugin lie in one repository, and when both
\* have a selector it is the same one.
LEMMA SamePluginOci ==
  ASSUME NEW a, NEW b, IsOci(a), IsOci(b), samePlugin(a, b)
  PROVE  /\ a.stem = b.stem
         /\ \/ NoSelector \in {a.selector, b.selector}
            \/ a.selector = b.selector
BY DEF samePlugin, IsOci, normalizePluginKey

\* Pinning an OCI reference to a digest changes neither its repository nor its
\* selector, hence not the plugin it names.
LEMMA PinKeepsIdentity ==
  ASSUME NEW ref \in PackageRef, NEW digest \in Digests
  PROVE  /\ refWithDigest(ref, digest) \in PackageRef
         /\ SameIdentity(refWithDigest(ref, digest), ref)
BY IdentityAssumption DEF refWithDigest, PackageRef, SameIdentity, IsOci

\* Different keys have different places in the order of package_name.
LEMMA RankIsInjective ==
  ASSUME NEW m \in Packages, NEW n \in Packages, Rank[m] = Rank[n]
  PROVE  m = n
BY SelectionAssumption

\* Of two rows with different keys, one stands behind the other and only one.
LEMMA BehindIsTotal ==
  ASSUME NEW r \in Row, NEW s \in Row, r.package_name # s.package_name,
         NEW pushedBack
  PROVE  Behind(r, s, pushedBack) <=> ~ Behind(s, r, pushedBack)
<1>1. r.package_name \in Packages /\ s.package_name \in Packages
  BY DEF Row
<1>2. Rank[r.package_name] \in Nat /\ Rank[s.package_name] \in Nat
  BY <1>1, SelectionAssumption
<1>3. Rank[r.package_name] # Rank[s.package_name]
  BY <1>1, RankIsInjective
<1> QED
  BY <1>2, <1>3 DEF Behind

\* At most one row of a set of rivals is preferred: keepPreferred keeps one.
LEMMA PreferredIsUnique ==
  ASSUME NEW rivals, NEW r \in rivals, NEW s \in rivals, r \in Row, s \in Row,
         r.package_name # s.package_name,
         NEW pushedBack,
         IsPreferred(r, rivals, pushedBack), IsPreferred(s, rivals, pushedBack)
  PROVE  FALSE
<1>1. r # s
  OBVIOUS
<1>2. CASE Behind(r, s, pushedBack)
  <2>1. ~ Behind(s, r, pushedBack)
    BY <1>2, BehindIsTotal
  <2>2. preferredRow(s, r) = r
    BY <1>1, <1>2 DEF IsPreferred
  <2>3. preferredRow(s, r) = s
    BY <1>1, <2>1 DEF IsPreferred
  <2> QED
    BY <1>1, <2>2, <2>3
<1>3. CASE ~ Behind(r, s, pushedBack)
  <2>1. Behind(s, r, pushedBack)
    BY <1>3, BehindIsTotal
  <2>2. preferredRow(r, s) = s
    BY <1>1, <2>1 DEF IsPreferred
  <2>3. preferredRow(r, s) = r
    BY <1>1, <1>3 DEF IsPreferred
  <2> QED
    BY <1>1, <2>2, <2>3
<1> QED
  BY <1>2, <1>3

\* keepOneRowPerPlugin on any rows with distinct keys leaves no two OCI rows that
\* samePlugin equates, selector-less rows included.
THEOREM KeptRowsAreDistinctPlugins ==
  ASSUME NEW rowSet \in SUBSET Row, NEW pushedBack,
         \A r, s \in rowSet : r.package_name = s.package_name => r = s,
         NEW r \in keepOneRowPerPlugin(rowSet, pushedBack),
         NEW s \in keepOneRowPerPlugin(rowSet, pushedBack),
         r # s, IsOci(rowPackageRef(r)), IsOci(rowPackageRef(s))
  PROVE  ~ samePlugin(rowPackageRef(r), rowPackageRef(s))
<1> DEFINE a == rowPackageRef(r)
           b == rowPackageRef(s)
<1> SUFFICES ASSUME samePlugin(a, b)
             PROVE  FALSE
  OBVIOUS
<1>1. /\ r \in rowSet /\ s \in rowSet
      /\ ~ (a.selector = NoSelector /\ SeveralSelectors(rowSet, a.stem))
      /\ ~ (b.selector = NoSelector /\ SeveralSelectors(rowSet, b.stem))
      /\ IsPreferred(r, Rivals(rowSet, r), pushedBack)
      /\ IsPreferred(s, Rivals(rowSet, s), pushedBack)
  BY DEF keepOneRowPerPlugin
<1>2. /\ a.stem = b.stem
      /\ \/ NoSelector \in {a.selector, b.selector}
         \/ a.selector = b.selector
  BY SamePluginOci
<1>3. SeveralSelectors(rowSet, a.stem) => a.selector = b.selector
  BY <1>1, <1>2
<1>4. Rivals(rowSet, r) = Rivals(rowSet, s)
  BY <1>2, <1>3 DEF Rivals
<1>5. r \in Rivals(rowSet, r) /\ s \in Rivals(rowSet, s)
  BY <1>1 DEF Rivals, OfRepository
<1>6. r \in Row /\ s \in Row /\ r.package_name # s.package_name
  BY <1>1
<1> QED
  BY <1>1, <1>4, <1>5, <1>6, PreferredIsUnique

-----------------------------------------------------------------------------
(* The table.                                                              *)

TableInv == TableTypeOK /\ KeysMatch

\* A row the Marketplace writes is a row of its key.
LEMMA NewRowMatches ==
  ASSUME NEW n \in Packages, NEW form \in Forms[n], NEW disabled \in BOOLEAN,
         NEW now \in Nat
  PROVE  /\ NewRow(n, form, disabled, now) \in Row
         /\ RowMatches(NewRow(n, form, disabled, now), n)
<1>1. form \in Form
  BY TableAssumption
<1>2. /\ form.requested_ref # NoRef => SameIdentity(form.requested_ref, n)
      /\ form.package # NoRef => SameIdentity(form.package, n)
  BY TableAssumption
<1> QED
  BY <1>1, <1>2 DEF NewRow, Row, Form, RowMatches

\* Every write of the backend keeps the table well formed.
LEMMA BackendPreservesTable ==
  ASSUME TableInv, BackendNext
  PROVE  TableInv'
<1> USE DEF TableInv, TableTypeOK, KeysMatch
<1>1. CASE Migrate
  BY <1>1 DEF Migrate, RowMatches, SameIdentity
<1>2. ASSUME NEW n \in Packages, Install(n)
      PROVE  TableInv'
  <2>1. PICK form \in Forms[n], now \in Stamps :
          table' = [table EXCEPT ![n] = NewRow(n, form, FALSE, now)]
    BY <1>2 DEF Install
  <2>2. now \in Nat /\ writes' \in 0 .. MaxWrites
    BY <1>2, TableAssumption DEF Install, Stamps
  <2>3. NewRow(n, form, FALSE, now) \in Row /\ RowMatches(NewRow(n, form, FALSE, now), n)
    BY <2>2, NewRowMatches
  <2> QED
    BY <1>2, <2>1, <2>2, <2>3 DEF Install
<1>3. ASSUME NEW n \in Packages, SetDisabled(n)
      PROVE  TableInv'
  <2> DEFINE row == table[n]
             stored == IF row.config.disabled = Unset THEN Unset ELSE ~ row.disabled
             new(now) == [row EXCEPT !.disabled = ~ row.disabled,
                                     !.updated_at = now,
                                     !.config = [row.config EXCEPT !.disabled = stored]]
  <2>1. PICK now \in Stamps : table' = [table EXCEPT ![n] = new(now)]
    BY <1>3 DEF SetDisabled
  <2>2. now \in Nat /\ writes' \in 0 .. MaxWrites
    BY <1>3, TableAssumption DEF SetDisabled, Stamps
  <2>3. row \in Row /\ RowMatches(row, n)
    BY <1>3 DEF SetDisabled
  <2>4. new(now) \in Row
    BY <2>2, <2>3 DEF Row
  <2>5. RowMatches(new(now), n)
    BY <2>3 DEF RowMatches, Row
  <2> HIDE DEF new
  <2> QED
    BY <1>3, <2>1, <2>2, <2>4, <2>5 DEF SetDisabled
<1>4. ASSUME NEW n \in Packages, Uninstall(n)
      PROVE  TableInv'
  <2>1. writes' \in 0 .. MaxWrites
    BY <1>4, TableAssumption DEF Uninstall
  <2> QED
    BY <1>4, <2>1 DEF Uninstall
<1> QED
  BY <1>1, <1>2, <1>3, <1>4 DEF BackendNext

\* The rows read from a well-formed table have distinct keys.
LEMMA ReadRowsHaveKeys ==
  ASSUME TableInv
  PROVE  /\ Rows(table) \subseteq Row
         /\ \A r \in Rows(table) : RowMatches(r, r.package_name)
         /\ \A r, s \in Rows(table) : r.package_name = s.package_name => r = s
<1>1. \A r \in Rows(table) :
        /\ r \in Row
        /\ RowMatches(r, r.package_name)
        /\ r = table[r.package_name]
  BY DEF Rows, TableInv, TableTypeOK, KeysMatch, RowMatches
<1> QED
  BY <1>1

\* Selecting drops rows and invents none; what is left is one row per plugin.
LEMMA SelectionIsDistinct ==
  ASSUME TableInv, NEW entries
  PROVE  /\ SelectedRows(entries, Rows(table)) \subseteq Rows(table)
         /\ \A r, s \in SelectedRows(entries, Rows(table)) :
              r # s /\ IsOci(rowPackageRef(r)) /\ IsOci(rowPackageRef(s))
              => ~ samePlugin(rowPackageRef(r), rowPackageRef(s))
<1> DEFINE pushedBack == PushedBackRows(entries, Rows(table))
           remaining  == OrdinaryRows(entries, Rows(table)) \cup pushedBack
<1>1. remaining \subseteq Rows(table)
  BY DEF OrdinaryRows, PushedBackRows
<1>2. /\ remaining \in SUBSET Row
      /\ \A r, s \in remaining : r.package_name = s.package_name => r = s
  BY <1>1, ReadRowsHaveKeys
<1>3. SelectedRows(entries, Rows(table)) = keepOneRowPerPlugin(remaining, pushedBack)
  BY DEF SelectedRows
<1>4. keepOneRowPerPlugin(remaining, pushedBack) \subseteq remaining
  BY DEF keepOneRowPerPlugin
<1> HIDE DEF remaining, pushedBack
<1> QED
  BY <1>1, <1>2, <1>3, <1>4, KeptRowsAreDistinctPlugins

\* The table is well typed and its rows stand under their own keys, whatever the
\* Marketplace does.
THEOREM TableInvariant == TableSpec => []TableInv
<1>1. TableInit => TableInv
  BY TableAssumption DEF TableInit, TableInv, TableTypeOK, KeysMatch
<1>2. TableInv /\ [BackendNext]_tableVars => TableInv'
  <2>1. ASSUME TableInv, UNCHANGED tableVars
        PROVE  TableInv'
    BY <2>1 DEF TableInv, TableTypeOK, KeysMatch, tableVars, RowMatches, SameIdentity
  <2> QED
    BY <2>1, BackendPreservesTable
<1> QED
  BY <1>1, <1>2, PTL DEF TableSpec

\* Whatever the Marketplace writes, and whatever the references, the factory list
\* and the times are, a boot acts on one row per OCI plugin.
THEOREM SelectedOneRowPerPlugin == TableSpec => []OneRowPerPlugin
<1>1. TableInv => OneRowPerPlugin
  BY SelectionIsDistinct DEF OneRowPerPlugin, Selected
<1> QED
  BY <1>1, TableInvariant, PTL

-----------------------------------------------------------------------------
(* The factory plugins.                                                    *)

\* An enabled row beats a disabled one wherever the two stand.
LEMMA EnabledBeatsDisabled ==
  ASSUME NEW row \in Row, NEW rivals, NEW other \in rivals, other \in Row,
         NEW pushedBack, IsPreferred(row, rivals, pushedBack), row.disabled
  PROVE  other.disabled
<1> SUFFICES ASSUME ~ other.disabled PROVE FALSE
  OBVIOUS
<1>1. row # other
  OBVIOUS
<1>2. preferredRow(other, row) = other /\ preferredRow(row, other) = other
  BY DEF preferredRow
<1> QED
  BY <1>1, <1>2 DEF IsPreferred

\* Whatever the table and the factory list, no enabled row of a factory plugin is acted
\* on, and a disabled one only when no row of the table enables the plugin.
THEOREM IndexDecidesFactoryPlugins == TableSpec => []FactoryDefaultWins
<1>1. TableInv => FactoryDefaultWins
  <2> SUFFICES ASSUME TableInv, NEW row \in Selected, NEW entry \in FactoryEntries,
                      IsFactoryRow(FactoryEntries, row, entry)
               PROVE  /\ row.disabled
                      /\ ~ entry.protected
                      /\ \A r \in Rows(table) :
                           IsFactoryRow(FactoryEntries, r, entry) => r.disabled
    BY DEF FactoryDefaultWins
  <2>1. row \in PushedBackRows(FactoryEntries, Rows(table))
    BY DEF Selected, SelectedRows, keepOneRowPerPlugin, OrdinaryRows
  <2>2. PICK e \in FactoryEntries :
          /\ IsFactoryRow(FactoryEntries, row, e)
          /\ ~ e.protected
          /\ row.disabled
          /\ IsPreferred(row, {r \in Rows(table) : IsFactoryRow(FactoryEntries, r, e)}, {})
    BY <2>1 DEF PushedBackRows
  <2>3. e = entry
    BY <2>2 DEF IsFactoryRow
  <2>4. Rows(table) \subseteq Row /\ row \in Row
    BY <2>1, ReadRowsHaveKeys DEF PushedBackRows
  <2>5. ASSUME NEW r \in Rows(table), IsFactoryRow(FactoryEntries, r, entry)
        PROVE  r.disabled
    BY <2>2, <2>3, <2>4, <2>5, EnabledBeatsDisabled
  <2> QED
    BY <2>2, <2>3, <2>5
<1> QED
  BY <1>1, TableInvariant, PTL

\* Rows of one factory plugin name the same plugin.
LEMMA FactoryRowsAreOnePlugin ==
  ASSUME NEW entries, NEW entry, NEW r, NEW s,
         IsFactoryRow(entries, r, entry), IsFactoryRow(entries, s, entry)
  PROVE  /\ IsOci(rowPackageRef(r)) /\ IsOci(rowPackageRef(s))
         /\ rowPackageRef(r).stem = rowPackageRef(s).stem
         /\ samePlugin(rowPackageRef(r), rowPackageRef(s))
BY DEF IsFactoryRow, factoryEntriesFor, samePlugin

-----------------------------------------------------------------------------
(* Uninstalling.                                                           *)

\* A row that becomes the preferred one of a factory plugin is a row of the plugin
\* that was uninstalled.
LEMMA PushedBackAnew ==
  ASSUME NEW entries, NEW rowSet, NEW t \in rowSet,
         NEW x \in PushedBackRows(entries, rowSet \ {t}),
         x \notin PushedBackRows(entries, rowSet)
  PROVE  /\ IsOci(rowPackageRef(x)) /\ IsOci(rowPackageRef(t))
         /\ rowPackageRef(x).stem = rowPackageRef(t).stem
         /\ samePlugin(rowPackageRef(x), rowPackageRef(t))
<1>1. PICK e \in entries :
        /\ IsFactoryRow(entries, x, e)
        /\ ~ e.protected
        /\ x.disabled
        /\ IsPreferred(x, {r \in rowSet \ {t} : IsFactoryRow(entries, r, e)}, {})
  BY DEF PushedBackRows
<1>2. x \in rowSet
  BY DEF PushedBackRows
<1>3. ~ IsPreferred(x, {r \in rowSet : IsFactoryRow(entries, r, e)}, {})
  BY <1>1, <1>2 DEF PushedBackRows
<1>4. IsFactoryRow(entries, t, e)
  BY <1>1, <1>3 DEF IsPreferred
<1> QED
  BY <1>1, <1>4, FactoryRowsAreOnePlugin

\* The other rows that are pushed back stay so.
LEMMA PushedBackStays ==
  ASSUME NEW entries, NEW rowSet, NEW t \in rowSet,
         NEW x \in PushedBackRows(entries, rowSet), x # t
  PROVE  x \in PushedBackRows(entries, rowSet \ {t})
<1>1. PICK e \in entries :
        /\ IsFactoryRow(entries, x, e)
        /\ ~ e.protected
        /\ x.disabled
        /\ IsPreferred(x, {r \in rowSet : IsFactoryRow(entries, r, e)}, {})
  BY DEF PushedBackRows
<1>2. IsPreferred(x, {r \in rowSet \ {t} : IsFactoryRow(entries, r, e)}, {})
  BY <1>1 DEF IsPreferred
<1> QED
  BY <1>1, <1>2 DEF PushedBackRows

\* What is acted on only once a row is uninstalled is handed over by it.
LEMMA UninstalledHandsOver ==
  ASSUME NEW entries, NEW rowSet \in SUBSET Row, NEW t \in rowSet,
         NEW r \in SelectedRows(entries, rowSet \ {t}), r \notin SelectedRows(entries, rowSet)
  PROVE  HandedOver(r, t, rowSet)
<1> DEFINE left     == rowSet \ {t}
           before   == PushedBackRows(entries, rowSet)
           after    == PushedBackRows(entries, left)
           pool     == OrdinaryRows(entries, rowSet) \cup before
           leftPool == OrdinaryRows(entries, left) \cup after
           ref      == rowPackageRef(r)
           gone     == rowPackageRef(t)
<1>1. /\ r \in keepOneRowPerPlugin(leftPool, after)
      /\ r \notin keepOneRowPerPlugin(pool, before)
  BY DEF SelectedRows
<1>2. /\ r \in leftPool /\ r # t
      /\ pool \subseteq rowSet /\ leftPool \subseteq left
  BY <1>1 DEF keepOneRowPerPlugin, OrdinaryRows, PushedBackRows
<1>3. \A x \in after \ before :
        /\ IsOci(rowPackageRef(x)) /\ IsOci(gone)
        /\ rowPackageRef(x).stem = gone.stem
        /\ samePlugin(rowPackageRef(x), gone)
  BY PushedBackAnew
<1>4. pool \ {t} \subseteq leftPool /\ leftPool \ pool \subseteq after \ before
  BY PushedBackStays DEF OrdinaryRows
<1>5. \A x \in pool \ {t} : x \in before <=> x \in after
  <2>1. \A x \in before \ {t} : x \in after
    BY PushedBackStays
  <2>2. \A x \in after : x \notin OrdinaryRows(entries, rowSet)
    BY DEF OrdinaryRows, PushedBackRows
  <2> QED
    BY <2>1, <2>2
<1> HIDE DEF left, before, after, pool, leftPool
<1>6. CASE r \notin pool
  BY <1>2, <1>3, <1>4, <1>6 DEF HandedOver
<1>7. CASE r \in pool
  <2>1. /\ IsOci(ref)
        /\ \/ ref.selector = NoSelector /\ SeveralSelectors(pool, ref.stem)
           \/ ~ IsPreferred(r, Rivals(pool, r), before)
        /\ ~ (ref.selector = NoSelector /\ SeveralSelectors(leftPool, ref.stem))
        /\ IsPreferred(r, Rivals(leftPool, r), after)
    BY <1>1, <1>7 DEF keepOneRowPerPlugin
  <2>2. OfRepository(pool, ref.stem) \ {t} \subseteq OfRepository(leftPool, ref.stem)
    BY <1>4 DEF OfRepository
  <2>3. r \in OfRepository(pool, ref.stem)
    BY <1>7, <2>1 DEF OfRepository
  <2>4. CASE ref.selector = NoSelector /\ SeveralSelectors(pool, ref.stem)
    <3>1. t \in OfRepository(pool, ref.stem)
      BY <2>1, <2>2, <2>4 DEF SeveralSelectors
    <3>2. IsOci(gone) /\ ref.stem = gone.stem
      BY <3>1 DEF OfRepository
    <3> QED
      BY <2>1, <2>4, <3>2 DEF HandedOver, samePlugin
  <2>5. CASE ~ IsPreferred(r, Rivals(pool, r), before)
    <3>1. PICK other \in Rivals(pool, r) \ {r} :
            ~ (IF Behind(r, other, before) THEN preferredRow(other, r) = r
               ELSE preferredRow(r, other) = r)
      BY <2>5 DEF IsPreferred
    <3>2. /\ other \in OfRepository(pool, ref.stem)
          /\ SeveralSelectors(pool, ref.stem) => rowPackageRef(other).selector = ref.selector
          /\ ~ SeveralSelectors(pool, ref.stem) =>
                \/ NoSelector \in {rowPackageRef(other).selector, ref.selector}
                \/ rowPackageRef(other).selector = ref.selector
      BY <2>3 DEF Rivals, SeveralSelectors
    <3>3. CASE other = t
      BY <2>1, <3>2, <3>3 DEF OfRepository, HandedOver, samePlugin
    <3>4. CASE other # t
      <4>1. other \in pool /\ r \in pool /\ other # r
        BY <1>7, <3>1, <3>2 DEF OfRepository
      <4>2. Behind(r, other, before) <=> Behind(r, other, after)
        BY <1>2, <1>5, <3>4, <4>1 DEF Behind
      <4>3. other \notin Rivals(leftPool, r)
        BY <2>1, <3>1, <4>1, <4>2 DEF IsPreferred
      <4>4. /\ SeveralSelectors(leftPool, ref.stem)
            /\ rowPackageRef(other).selector # ref.selector
        BY <2>2, <3>2, <3>4, <4>3 DEF Rivals
      <4>5. ref.selector # NoSelector
        BY <2>1, <4>4
      <4>6. ~ SeveralSelectors(pool, ref.stem) /\ rowPackageRef(other).selector = NoSelector
        BY <3>2, <4>4, <4>5
      <4>7. PICK x \in OfRepository(leftPool, ref.stem) : x \notin pool
        BY <4>4, <4>6 DEF SeveralSelectors, OfRepository
      <4>8. IsOci(gone) /\ ref.stem = gone.stem
        BY <1>3, <1>4, <4>7 DEF OfRepository
      <4>9. t \in OfRepository(rowSet, ref.stem) /\ other \in OfRepository(rowSet, ref.stem)
        BY <1>2, <3>2, <4>8 DEF OfRepository
      <4> QED
        BY <2>1, <4>6, <4>9 DEF HandedOver
    <3> QED
      BY <3>3, <3>4
  <2> QED
    BY <2>1, <2>4, <2>5
<1> QED
  BY <1>6, <1>7

\* Whatever the table and the factory list, uninstalling a package brings into use rows
\* of its plugin only, but for a repository with a selector-less row.
THEOREM UninstallHandsOver == TableSpec => UninstallIsLocal
<1> DEFINE Local ==
      \A n \in Packages :
        Uninstall(n) =>
          \A r \in Selected' \ Selected : HandedOver(r, table[n], Rows(table))
<1>1. TableInv /\ [BackendNext]_tableVars => [Local]_tableVars
  <2> SUFFICES ASSUME TableInv, NEW n \in Packages, Uninstall(n),
                      NEW r \in Selected' \ Selected
               PROVE  HandedOver(r, table[n], Rows(table))
    OBVIOUS
  <2>1. table[n] \in Rows(table) /\ Rows(table) \in SUBSET Row
    BY ReadRowsHaveKeys DEF Rows, Uninstall
  <2>2. \A m \in Packages : table[m] # NoRow => table[m].package_name = m
    BY DEF TableInv, KeysMatch, RowMatches
  <2>3. \A m \in Packages : table'[m] = IF m = n THEN NoRow ELSE table[m]
    BY DEF Uninstall, TableInv, TableTypeOK
  <2>4. Rows(table') = Rows(table) \ {table[n]}
    BY <2>2, <2>3 DEF Rows, Uninstall
  <2>5. r \in SelectedRows(FactoryEntries, Rows(table) \ {table[n]})
    BY <2>4 DEF Selected
  <2>6. r \notin SelectedRows(FactoryEntries, Rows(table))
    BY DEF Selected
  <2> QED
    BY <2>1, <2>5, <2>6, UninstalledHandsOver
<1> QED
  BY <1>1, TableInvariant, PTL DEF TableSpec, UninstallIsLocal

-----------------------------------------------------------------------------
(* Keeping what is enabled: among rivals one is preferred, if their times and *)
(* positions have a bound.                                                    *)

\* A set of natural numbers with a bound has a greatest element.
LEMMA GreatestExists ==
  ASSUME NEW T \in SUBSET Nat, T # {}, NEW bound \in Nat, \A x \in T : x <= bound
  PROVE  \E m \in T : \A x \in T : x <= m
<1> DEFINE D == {y \in Nat : bound - y \in T}
<1>1. D # {} /\ D \subseteq Nat
  <2>1. PICK x \in T : TRUE
    OBVIOUS
  <2>2. bound - x \in Nat /\ bound - (bound - x) = x
    BY <2>1
  <2>3. bound - x \in D
    BY <2>1, <2>2
  <2> QED
    BY <2>3
<1> DEFINE Less == OpToRel(<, Nat)
<1>2. /\ IsWellFoundedOn(Less, Nat)
      /\ \A y, z \in Nat : y < z => <<y, z>> \in Less
  <2>1. Less = {ss \in Nat \X Nat : ss[1] < ss[2]}
    BY DEF OpToRel
  <2> QED
    BY <2>1, NatLessThanWellFounded
<1> HIDE DEF Less, D
<1>3. PICK d \in D : \A y \in D : d <= y
  <2>1. PICK d \in D : \A y \in D : ~ (<<y, d>> \in Less)
    <3>1. IsWellFoundedOn(Less, Nat) /\ D \subseteq Nat /\ D # {}
      BY <1>1, <1>2
    <3> QED
      BY <3>1, WFMin, Zenon
  <2>2. \A y \in D : ~ (y < d)
    BY <1>1, <1>2, <2>1
  <2>3. \A y \in D : y \in Nat /\ d \in Nat
    BY <1>1
  <2> QED
    BY <2>2, <2>3
<1>4. \A x \in T : bound - x \in D /\ bound - x \in Nat
  <2> SUFFICES ASSUME NEW x \in T PROVE bound - x \in D /\ bound - x \in Nat
    OBVIOUS
  <2>1. bound - x \in Nat /\ bound - (bound - x) = x
    OBVIOUS
  <2> QED
    BY <2>1 DEF D
<1>5. d \in Nat /\ bound - d \in T
  BY <1>1 DEF D
<1>6. \A x \in T : x <= bound - d
  BY <1>3, <1>4, <1>5
<1> QED
  BY <1>5, <1>6

\* Of rivals whose times and positions have a bound, one is preferred: an enabled one if
\* there is any, of those the latest, of those the last in the array.
LEMMA PreferredExists ==
  ASSUME NEW rivals \in SUBSET Row, rivals # {},
         \A r, s \in rivals : r.package_name = s.package_name => r = s,
         NEW bound \in Nat,
         \A r \in rivals : r.updated_at <= bound /\ Rank[r.package_name] <= bound,
         NEW pushedBack
  PROVE  \E k \in rivals : IsPreferred(k, rivals, pushedBack)
<1> DEFINE enabled == {r \in rivals : ~ r.disabled}
           first   == IF enabled # {} THEN enabled ELSE rivals
<1>1. /\ first # {} /\ first \subseteq rivals
      /\ \A r \in rivals \ first : r.disabled /\ \A k \in first : ~ k.disabled
      /\ \A r, k \in first : r.disabled = k.disabled
  <2>1. \A r \in rivals : r.disabled \in BOOLEAN
    BY DEF Row
  <2> QED
    BY <2>1
<1> HIDE DEF first
<1>2. \A r \in rivals : r.updated_at \in Nat /\ r.package_name \in Packages
  BY DEF Row
<1>3. PICK latest \in {r.updated_at : r \in first} :
        \A r \in first : r.updated_at <= latest
  <2> DEFINE T == {r.updated_at : r \in first}
  <2>1. T \in SUBSET Nat /\ T # {} /\ \A x \in T : x <= bound
    BY <1>1, <1>2
  <2> HIDE DEF T
  <2>2. \E m \in T : \A x \in T : x <= m
    BY <2>1, GreatestExists
  <2> QED
    BY <2>2 DEF T
<1> DEFINE second == {r \in first : r.updated_at = latest}
           third  == IF second \cap pushedBack # {} THEN second \cap pushedBack ELSE second
<1>4. /\ third # {} /\ third \subseteq first
      /\ \A k \in third : k.updated_at = latest
      /\ \A r \in first \ third :
           r.updated_at # latest \/ (r \notin pushedBack /\ \A k \in third : k \in pushedBack)
      /\ \A r, k \in third : r \in pushedBack <=> k \in pushedBack
  <2>1. second # {} /\ second \subseteq first /\ \A r \in second : r.updated_at = latest
    BY <1>3
  <2>2. \A r \in first \ second : r.updated_at # latest
    OBVIOUS
  <2> HIDE DEF second
  <2>3. CASE second \cap pushedBack # {}
    BY <2>1, <2>2, <2>3
  <2>4. CASE second \cap pushedBack = {}
    <3>1. third = second /\ \A r \in second : r \notin pushedBack
      BY <2>4
    <3> HIDE DEF third
    <3>2. \A r \in third : r \notin pushedBack /\ r.updated_at = latest
      BY <2>1, <3>1
    <3>3. third # {} /\ third \subseteq first /\ \A r \in first \ third : r.updated_at # latest
      BY <2>1, <2>2, <3>1
    <3> QED
      BY <3>2, <3>3
  <2> QED
    BY <2>3, <2>4
<1> HIDE DEF second, third
<1>5. PICK k \in third : \A r \in third : Rank[r.package_name] <= Rank[k.package_name]
  <2> DEFINE T == {Rank[r.package_name] : r \in third}
  <2>1. T \in SUBSET Nat /\ T # {} /\ \A x \in T : x <= bound
    BY <1>1, <1>2, <1>4, SelectionAssumption
  <2> HIDE DEF T
  <2>2. PICK m \in T : \A x \in T : x <= m
    BY <2>1, GreatestExists
  <2> QED
    BY <2>2 DEF T
<1>6. ASSUME NEW other \in rivals \ {k}
      PROVE  IF Behind(k, other, pushedBack) THEN preferredRow(other, k) = k
             ELSE preferredRow(k, other) = k
  <2>1. k \in rivals /\ k \in first
    BY <1>1, <1>4, <1>5
  <2>2. CASE other \notin first
    BY <1>1, <2>1, <2>2 DEF preferredRow
  <2>3. CASE other \in first
    <3>1. k.disabled = other.disabled /\ other.updated_at <= k.updated_at
      BY <1>1, <1>3, <1>4, <1>5, <2>1, <2>3
    <3>2. preferredRow(other, k) = k
      BY <1>2, <2>1, <3>1 DEF preferredRow
    <3>3. ASSUME ~ Behind(k, other, pushedBack)
          PROVE  other.updated_at # k.updated_at
      <4> SUFFICES ASSUME other.updated_at = k.updated_at PROVE FALSE
        OBVIOUS
      <4>1. other \in third
        BY <1>4, <1>5, <2>3, <3>3 DEF Behind
      <4>2. other.package_name # k.package_name
        BY <2>1, <1>6
      <4>3. Rank[other.package_name] \in Nat /\ Rank[k.package_name] \in Nat
            /\ Rank[other.package_name] # Rank[k.package_name]
        BY <1>2, <2>1, <4>2, SelectionAssumption
      <4>4. Behind(k, other, pushedBack)
        BY <1>4, <1>5, <4>1, <4>3 DEF Behind
      <4> QED
        BY <3>3, <4>4
    <3>4. ASSUME ~ Behind(k, other, pushedBack)
          PROVE  preferredRow(k, other) = k
      BY <1>2, <2>1, <3>1, <3>3, <3>4 DEF preferredRow
    <3> QED
      BY <3>2, <3>4
  <2> QED
    BY <2>2, <2>3
<1> QED
  BY <1>1, <1>4, <1>5, <1>6 DEF IsPreferred

\* The times of the rows are bounded by the writes made.
StampsBounded ==
  \A n \in Packages : table[n] # NoRow => table[n].updated_at <= writes

\* No row is newer than the last write.
LEMMA StampsStayBounded == TableSpec => []StampsBounded
<1>1. TableInit => StampsBounded
  BY DEF TableInit, StampsBounded
<1>2. TableInv /\ StampsBounded /\ [BackendNext]_tableVars => StampsBounded'
  <2> SUFFICES ASSUME TableInv, StampsBounded, [BackendNext]_tableVars,
                      NEW m \in Packages, table'[m] # NoRow
               PROVE  table'[m].updated_at <= writes'
    BY DEF StampsBounded
  <2>1. writes \in Nat /\ (table[m] # NoRow => table[m] \in Row /\ table[m].updated_at \in Nat)
    BY DEF TableInv, TableTypeOK, Row
  <2>2. table[m] # NoRow => table[m].updated_at <= writes
    BY DEF StampsBounded
  <2>3. ASSUME table'[m] = table[m], writes' \in {writes, writes + 1}
        PROVE  table'[m].updated_at <= writes'
    BY <2>1, <2>2, <2>3
  <2>4. CASE Migrate \/ UNCHANGED tableVars
    BY <2>3, <2>4 DEF Migrate, tableVars
  <2>5. ASSUME NEW n \in Packages, Install(n)
        PROVE  table'[m].updated_at <= writes'
    <3>1. PICK form \in Forms[n], now \in Stamps :
            table' = [table EXCEPT ![n] = NewRow(n, form, FALSE, now)]
      BY <2>5 DEF Install
    <3>2. now <= writes' /\ writes' = writes + 1
      BY <2>1, <2>5 DEF Install, Stamps
    <3>3. CASE m = n
      BY <3>1, <3>2, <3>3 DEF NewRow, TableInv, TableTypeOK
    <3>4. CASE m # n
      BY <2>3, <3>1, <3>2, <3>4 DEF TableInv, TableTypeOK
    <3> QED
      BY <3>3, <3>4
  <2>6. ASSUME NEW n \in Packages, SetDisabled(n)
        PROVE  table'[m].updated_at <= writes'
    <3> DEFINE row == table[n]
               stored == IF row.config.disabled = Unset THEN Unset ELSE ~ row.disabled
               new(now) == [row EXCEPT !.disabled = ~ row.disabled,
                                       !.updated_at = now,
                                       !.config = [row.config EXCEPT !.disabled = stored]]
    <3>1. PICK now \in Stamps : table' = [table EXCEPT ![n] = new(now)]
      BY <2>6 DEF SetDisabled
    <3>2. now <= writes' /\ writes' = writes + 1
      BY <2>1, <2>6 DEF SetDisabled, Stamps
    <3>3. row \in Row
      BY <2>6 DEF SetDisabled, TableInv, TableTypeOK
    <3>4. new(now).updated_at = now
      BY <3>3 DEF Row
    <3> HIDE DEF new
    <3>5. CASE m = n
      BY <3>1, <3>2, <3>4, <3>5 DEF TableInv, TableTypeOK
    <3>6. CASE m # n
      BY <2>3, <3>1, <3>2, <3>6 DEF TableInv, TableTypeOK
    <3> QED
      BY <3>5, <3>6
  <2>7. ASSUME NEW n \in Packages, Uninstall(n)
        PROVE  table'[m].updated_at <= writes'
    BY <2>3, <2>7 DEF Uninstall, TableInv, TableTypeOK
  <2> QED
    BY <2>4, <2>5, <2>6, <2>7 DEF BackendNext
<1> QED
  BY <1>1, <1>2, TableInvariant, PTL DEF TableSpec

\* Whatever the table, a plugin an ordinary row enables stays enabled, provided the keys
\* of the table have a last one in their order.
THEOREM EnabledPluginsAreKept ==
  ASSUME NEW last \in Nat, \A n \in Packages : Rank[n] <= last
  PROVE  TableSpec => []EnabledPluginKept
<1>1. TableInv /\ StampsBounded => EnabledPluginKept
  <2> SUFFICES ASSUME TableInv, StampsBounded,
                      NEW row \in OrdinaryRows(FactoryEntries, Rows(table)), ~ row.disabled,
                      rowPackageRef(row).selector = NoSelector =>
                        ~ SeveralSelectors(Rows(table), rowPackageRef(row).stem)
               PROVE  \E kept \in Selected :
                        ~ kept.disabled /\ samePlugin(rowPackageRef(kept), rowPackageRef(row))
    BY DEF EnabledPluginKept
  <2> DEFINE pushedBack == PushedBackRows(FactoryEntries, Rows(table))
             pool       == OrdinaryRows(FactoryEntries, Rows(table)) \cup pushedBack
             ref        == rowPackageRef(row)
             rivals     == Rivals(pool, row)
  <2>1. Selected = keepOneRowPerPlugin(pool, pushedBack)
    BY DEF Selected, SelectedRows
  <2>2. row \in pool /\ pool \subseteq Rows(table)
    BY DEF OrdinaryRows, PushedBackRows
  <2>3. /\ Rows(table) \subseteq Row
        /\ \A r, s \in Rows(table) : r.package_name = s.package_name => r = s
        /\ \A r \in Rows(table) : r.updated_at <= writes /\ r.package_name \in Packages
        /\ writes \in Nat
    BY ReadRowsHaveKeys DEF Rows, StampsBounded, TableInv, TableTypeOK, Row
  <2> HIDE DEF pushedBack, pool
  <2>4. CASE ~ IsOci(ref)
    <3>1. row \in keepOneRowPerPlugin(pool, pushedBack)
      BY <2>2, <2>4 DEF keepOneRowPerPlugin
    <3> QED
      BY <2>1, <2>4, <3>1 DEF samePlugin
  <2>5. CASE IsOci(ref)
    <3>1. row \in rivals /\ rivals \subseteq pool
      BY <2>2, <2>5 DEF Rivals, OfRepository
    <3>2. PICK bound \in Nat : writes <= bound /\ last <= bound
      <4>1. writes + last \in Nat /\ writes <= writes + last /\ last <= writes + last
        BY <2>3
      <4> QED
        BY <4>1
    <3>3. \A r \in rivals : r.updated_at <= bound /\ Rank[r.package_name] <= bound
      <4> SUFFICES ASSUME NEW r \in rivals
                   PROVE  r.updated_at <= bound /\ Rank[r.package_name] <= bound
        OBVIOUS
      <4>1. r \in Row /\ r.updated_at <= writes /\ r.package_name \in Packages
        BY <2>2, <2>3, <3>1
      <4>2. r.updated_at \in Nat /\ Rank[r.package_name] \in Nat
        BY <4>1, SelectionAssumption DEF Row
      <4> QED
        BY <2>3, <3>2, <4>1, <4>2
    <3>4. rivals \in SUBSET Row /\ \A r, s \in rivals : r.package_name = s.package_name => r = s
      BY <2>2, <2>3, <3>1
    <3>5. PICK kept \in rivals : IsPreferred(kept, rivals, pushedBack)
      BY <3>1, <3>3, <3>4, PreferredExists
    <3>6. ~ kept.disabled
      BY <3>1, <3>4, <3>5, EnabledBeatsDisabled
    <3>7. /\ kept \in pool /\ IsOci(rowPackageRef(kept)) /\ rowPackageRef(kept).stem = ref.stem
          /\ SeveralSelectors(pool, ref.stem) => rowPackageRef(kept).selector = ref.selector
      BY <3>1 DEF Rivals, OfRepository
    <3>8. SeveralSelectors(pool, ref.stem) => ref.selector # NoSelector
      BY <2>2 DEF SeveralSelectors, OfRepository
    <3>9. samePlugin(rowPackageRef(kept), ref)
      <4>1. row \in OfRepository(pool, ref.stem) /\ kept \in OfRepository(pool, ref.stem)
        BY <2>2, <2>5, <3>7 DEF OfRepository
      <4>2. \/ NoSelector \in {rowPackageRef(kept).selector, ref.selector}
            \/ rowPackageRef(kept).selector = ref.selector
        BY <3>7, <4>1 DEF SeveralSelectors
      <4> QED
        BY <2>5, <3>7, <4>2 DEF samePlugin
    <3>10. Rivals(pool, kept) = rivals
      BY <3>7 DEF Rivals
    <3>11. kept \in keepOneRowPerPlugin(pool, pushedBack)
      BY <3>5, <3>7, <3>8, <3>10 DEF keepOneRowPerPlugin
    <3> QED
      BY <2>1, <3>6, <3>9, <3>11
  <2> QED
    BY <2>4, <2>5
<1> QED
  BY <1>1, TableInvariant, StampsStayBounded, PTL

-----------------------------------------------------------------------------
(* The pre-step *)

\* The pinned references: of the key's plugin, by digest.
RefsOK(p) ==
  \A n \in Packages :
    effectiveRefs[p][n] # NoRef =>
      /\ IsOci(effectiveRefs[p][n])
      /\ SameIdentity(effectiveRefs[p][n], n)
      /\ effectiveRefs[p][n].version \in Digests

\* The rows in hand: well formed, one per key and one per OCI plugin.
RowsOK(p) ==
  /\ todo[p] \subseteq rows[p]
  /\ \A r \in rows[p] : RowMatches(r, r.package_name)
  /\ \A r, s \in rows[p] : r.package_name = s.package_name => r = s
  /\ \A r, s \in rows[p] :
       r # s /\ IsOci(rowPackageRef(r)) /\ IsOci(rowPackageRef(s))
       => ~ samePlugin(rowPackageRef(r), rowPackageRef(s))

\* A row the loop has passed is pinned, skipped, disabled or not OCI.
PassedOK(p) ==
  \A r \in rows[p] \ (todo[p] \cup skipped[p]) :
    ~ r.disabled /\ IsOci(requestedRef(r)) => effectiveRefs[p][r.package_name] # NoRef

\* The row whose UPDATE is in flight has just been pinned.
PersistingOK(p) ==
  pc[p] = "persist" =>
    /\ persisting[p] \in rows[p]
    /\ effectiveRefs[p][persisting[p].package_name] # NoRef

PodOK(p) == RefsOK(p) /\ RowsOK(p) /\ PassedOK(p) /\ PersistingOK(p)

PrestepInv ==
  /\ TypeOK
  /\ KeysMatch
  /\ \A p \in Pods : PodOK(p)
  /\ EnabledEntriesPinned
  /\ OneEntryPerPlugin

-----------------------------------------------------------------------------
\* samePlugin looks at nothing but the identity of its references.
LEMMA IdentityDecidesSamePlugin ==
  ASSUME NEW a, NEW b, NEW c, NEW d, SameIdentity(a, c), SameIdentity(b, d)
  PROVE  samePlugin(a, b) <=> samePlugin(c, d)
BY DEF SameIdentity, samePlugin, normalizePluginKey, IsOci

\* Every reference a well-formed row carries names the plugin of its key.
LEMMA RowRefsAgree ==
  ASSUME NEW row \in Row, RowMatches(row, row.package_name)
  PROVE  /\ requestedRef(row) \in PackageRef
         /\ SameIdentity(requestedRef(row), row.package_name)
         /\ SameIdentity(rowPackageRef(row), row.package_name)
BY SelectionAssumption DEF Row, RowMatches, requestedRef, rowPackageRef, SameIdentity

\* What the registry answers, when it answers, is a digest.
LEMMA ResolvesToDigest ==
  ASSUME TypeOK, NEW image, Resolves(image) # NoDigest
  PROVE  Resolves(image) \in Digests
BY DEF Resolves, TypeOK

\* What rowsToPlugins makes of one row the loop has passed.
LEMMA EntryOfPassedRow ==
  ASSUME PrestepInv, NEW p \in Pods, NEW row \in rows[p] \ skipped[p],
         todo[p] = {},
         NEW e, e = PluginEntry(row, effectiveRefs[p][row.package_name])
  PROVE  /\ e \in Entry
         /\ SameIdentity(e.package, row.package_name)
         /\ ~ e.disabled /\ IsOci(e.package) => e.package.version \in Digests
<1>1. /\ row \in Row
      /\ RowMatches(row, row.package_name)
      /\ row.package_name \in Packages
      /\ effectiveRefs[p][row.package_name] \in PackageRef \cup {NoRef}
  BY DEF PrestepInv, TypeOK, PodOK, RowsOK, Row
<1>2. row.package_name \in PackageRef
  BY <1>1, SelectionAssumption
<1>3. e.disabled = row.disabled
  BY <1>1 DEF PluginEntry, RowMatches
<1>4. e \in Entry
  BY <1>1, <1>2, <1>3 DEF PluginEntry, Entry, Row
<1>5. SameIdentity(e.package, row.package_name)
  BY <1>1 DEF PluginEntry, PrestepInv, PodOK, RefsOK, RowMatches, SameIdentity
<1>6. ASSUME ~ e.disabled, IsOci(e.package)
      PROVE  e.package.version \in Digests
  <2>1. IsOci(requestedRef(row))
    BY <1>1, <1>5, <1>6, RowRefsAgree DEF SameIdentity, IsOci
  <2>2. effectiveRefs[p][row.package_name] # NoRef
    BY <1>3, <1>6, <2>1 DEF PrestepInv, PodOK, PassedOK
  <2>3. e.package = effectiveRefs[p][row.package_name]
    BY <2>2 DEF PluginEntry
  <2> QED
    BY <1>1, <2>2, <2>3 DEF PrestepInv, PodOK, RefsOK
<1> QED
  BY <1>4, <1>5, <1>6

-----------------------------------------------------------------------------
(* One lemma per action that touches what the invariant speaks of.          *)

\* Before any pod starts the invariant holds.
LEMMA InitInv == Init => PrestepInv
<1> SUFFICES ASSUME Init PROVE PrestepInv
  OBVIOUS
<1>1. TypeOK /\ KeysMatch
  BY TableAssumption DEF Init, TableInit, TypeOK, TableTypeOK, KeysMatch
<1>2. \A p \in Pods : PodOK(p)
  BY DEF Init, PodOK, RefsOK, RowsOK, PassedOK, PersistingOK
<1>3. EnabledEntriesPinned /\ OneEntryPerPlugin
  BY DEF Init, EnabledEntriesPinned, OneEntryPerPlugin, Entries
<1> QED
  BY <1>1, <1>2, <1>3 DEF PrestepInv

\* Reading the rows establishes what the loop needs of them.
LEMMA ReadInv ==
  ASSUME PrestepInv, NEW q \in Pods, ReadInstallations(q)
  PROVE  PrestepInv'
<1> USE DEF PrestepInv
<1>1. PICK entries \in {FactoryEntries, {}} :
        /\ rows' = [rows EXCEPT ![q] = SelectedRows(entries, Rows(table))]
        /\ todo' = [todo EXCEPT ![q] = SelectedRows(entries, Rows(table))]
  BY DEF ReadInstallations
<1> DEFINE selected == SelectedRows(entries, Rows(table))
<1>2. /\ selected \subseteq Row
      /\ \A r \in selected : RowMatches(r, r.package_name)
      /\ \A r, s \in selected : r.package_name = s.package_name => r = s
      /\ \A r, s \in selected :
           r # s /\ IsOci(rowPackageRef(r)) /\ IsOci(rowPackageRef(s))
           => ~ samePlugin(rowPackageRef(r), rowPackageRef(s))
  BY ReadRowsHaveKeys, SelectionIsDistinct DEF TableInv, TypeOK
<1> HIDE DEF selected
<1>3. TypeOK' /\ KeysMatch'
  BY <1>1, <1>2 DEF ReadInstallations, TypeOK, TableTypeOK, KeysMatch, envVars,
     tableVars, RowMatches, SameIdentity, selected
<1>4. ASSUME NEW p \in Pods PROVE PodOK(p)'
  <2>1. CASE p = q
    BY <1>1, <1>2, <2>1 DEF ReadInstallations, TypeOK, PodOK, RefsOK, RowsOK, PassedOK,
       PersistingOK, selected
  <2>2. CASE p # q
    BY <1>1, <2>2 DEF ReadInstallations, TypeOK, PodOK, RefsOK, RowsOK, PassedOK,
       PersistingOK
  <2> QED
    BY <2>1, <2>2
<1>5. (EnabledEntriesPinned /\ OneEntryPerPlugin)'
  BY DEF ReadInstallations, EnabledEntriesPinned, OneEntryPerPlugin, Entries
<1> QED
  BY <1>3, <1>4, <1>5

\* A row passed without a digest to resolve leaves the invariant as it was.
LEMMA PassInv ==
  ASSUME PrestepInv, NEW q \in Pods, PassRow(q)
  PROVE  PrestepInv'
<1> USE DEF PrestepInv
<1>1. PICK row \in todo[q] :
        /\ ~ NeedsDigest(row)
        /\ todo' = [todo EXCEPT ![q] = @ \ {row}]
        /\ effectiveRefs' =
             IF IsOci(requestedRef(row)) /\ row.resolved_digest # NoDigest
               THEN [effectiveRefs EXCEPT ![q][row.package_name] =
                       refWithDigest(requestedRef(row), row.resolved_digest)]
               ELSE effectiveRefs
  BY DEF PassRow
<1>2. /\ row \in Row /\ row \in rows[q]
      /\ row.package_name \in Packages
      /\ RowMatches(row, row.package_name)
  BY DEF TypeOK, PodOK, RowsOK, Row
<1> DEFINE pinned == refWithDigest(requestedRef(row), row.resolved_digest)
<1>3. ASSUME IsOci(requestedRef(row)), row.resolved_digest # NoDigest
      PROVE  /\ pinned \in PackageRef
             /\ IsOci(pinned)
             /\ SameIdentity(pinned, row.package_name)
             /\ pinned.version \in Digests
             /\ pinned # NoRef
  <2>1. row.resolved_digest \in Digests
    BY <1>2, <1>3 DEF Row
  <2>2. requestedRef(row) \in PackageRef /\ SameIdentity(requestedRef(row), row.package_name)
    BY <1>2, RowRefsAgree
  <2>3. pinned \in PackageRef /\ pinned.version = row.resolved_digest /\ IsOci(pinned)
    BY <1>3, <2>1, <2>2, PinKeepsIdentity DEF refWithDigest, PackageRef, IsOci
  <2>4. SameIdentity(pinned, row.package_name)
    BY <2>1, <2>2, PinKeepsIdentity DEF SameIdentity
  <2> QED
    BY <2>1, <2>3, <2>4, NoRefAssumption
<1> HIDE DEF pinned
<1>4. TypeOK' /\ KeysMatch'
  <2>1. effectiveRefs' \in [Pods -> [Packages -> PackageRef \cup {NoRef}]]
    BY <1>1, <1>2, <1>3 DEF TypeOK, pinned
  <2> QED
    BY <1>1, <2>1 DEF PassRow, TypeOK, TableTypeOK, KeysMatch, envVars, tableVars,
       RowMatches, SameIdentity
<1>5. ASSUME NEW p \in Pods PROVE PodOK(p)'
  <2>1. RefsOK(p)'
    BY <1>1, <1>2, <1>3 DEF TypeOK, PodOK, RefsOK, pinned
  <2>2. RowsOK(p)'
    BY <1>1 DEF PassRow, TypeOK, PodOK, RowsOK
  <2>3. PassedOK(p)'
    <3>1. \A n \in Packages : effectiveRefs[p][n] # NoRef => effectiveRefs'[p][n] # NoRef
      BY <1>1, <1>2, <1>3 DEF TypeOK, pinned
    <3>2. ~ row.disabled /\ IsOci(requestedRef(row))
            => effectiveRefs'[q][row.package_name] # NoRef
      BY <1>1, <1>2, <1>3 DEF TypeOK, NeedsDigest, pinned
    <3>3. \A r \in rows[p] : r.package_name \in Packages
      BY DEF TypeOK, Row
    <3> QED
      BY <1>1, <3>1, <3>2, <3>3 DEF PassRow, TypeOK, PodOK, PassedOK
  <2>4. PersistingOK(p)'
    BY <1>1 DEF PassRow, TypeOK, PodOK, PersistingOK
  <2> QED
    BY <2>1, <2>2, <2>3, <2>4 DEF PodOK
<1>6. (EnabledEntriesPinned /\ OneEntryPerPlugin)'
  BY DEF PassRow, EnabledEntriesPinned, OneEntryPerPlugin, Entries
<1> QED
  BY <1>4, <1>5, <1>6

\* A resolved reference names its key by digest.
LEMMA ResolveInv ==
  ASSUME PrestepInv, NEW q \in Pods, ResolveDigest(q)
  PROVE  PrestepInv'
<1> USE DEF PrestepInv
<1>1. PICK row \in todo[q] :
        LET requested == requestedRef(row)
            digest    == Resolves(<<requested.stem, requested.version>>)
        IN  /\ NeedsDigest(row)
            /\ digest # NoDigest
            /\ todo' = [todo EXCEPT ![q] = @ \ {row}]
            /\ effectiveRefs' = [effectiveRefs EXCEPT ![q][row.package_name] =
                                   refWithDigest(requested, digest)]
            /\ IF hasDigestColumn[q]
                 THEN /\ pc' = [pc EXCEPT ![q] = "persist"]
                      /\ persisting' = [persisting EXCEPT ![q] = row]
                 ELSE UNCHANGED <<pc, persisting>>
  BY DEF ResolveDigest
<1> DEFINE requested == requestedRef(row)
           digest    == Resolves(<<requested.stem, requested.version>>)
           pinned    == refWithDigest(requested, digest)
<1>2. /\ row \in Row /\ row \in rows[q]
      /\ row.package_name \in Packages
      /\ RowMatches(row, row.package_name)
      /\ IsOci(requested)
  BY <1>1 DEF TypeOK, PodOK, RowsOK, Row, NeedsDigest
<1>3. digest \in Digests
  BY <1>1, ResolvesToDigest
<1>4. /\ pinned \in PackageRef
      /\ IsOci(pinned)
      /\ SameIdentity(pinned, row.package_name)
      /\ pinned.version \in Digests
      /\ pinned # NoRef
  <2>1. requested \in PackageRef /\ SameIdentity(requested, row.package_name)
    BY <1>2, RowRefsAgree
  <2>2. pinned \in PackageRef /\ pinned.version = digest /\ IsOci(pinned)
    BY <1>2, <1>3, <2>1, PinKeepsIdentity DEF refWithDigest, PackageRef, IsOci
  <2>3. SameIdentity(pinned, row.package_name)
    BY <1>3, <2>1, PinKeepsIdentity DEF SameIdentity
  <2> QED
    BY <1>3, <2>2, <2>3, NoRefAssumption
<1>5. effectiveRefs' = [effectiveRefs EXCEPT ![q][row.package_name] = pinned]
  BY <1>1
<1>6. todo' = [todo EXCEPT ![q] = @ \ {row}]
  BY <1>1
<1>7. \/ pc' = [pc EXCEPT ![q] = "persist"] /\ persisting' = [persisting EXCEPT ![q] = row]
      \/ pc' = pc /\ persisting' = persisting
  BY <1>1
<1> HIDE DEF requested, digest, pinned
<1>8. TypeOK' /\ KeysMatch'
  <2>1. effectiveRefs' \in [Pods -> [Packages -> PackageRef \cup {NoRef}]]
    BY <1>2, <1>4, <1>5 DEF TypeOK
  <2>2. todo' \in [Pods -> SUBSET Row]
    BY <1>6 DEF TypeOK
  <2>3. /\ pc' \in [Pods -> {"down", "read", "pin", "persist", "exited"}]
        /\ persisting' \in [Pods -> Row \cup {NoRow}]
    BY <1>2, <1>7 DEF TypeOK
  <2>4. UNCHANGED <<table, writes, columns, registry, rows, hasDigestColumn, skipped, file>>
    BY DEF ResolveDigest, envVars, tableVars
  <2>5. KeysMatch'
    BY <2>4 DEF KeysMatch, RowMatches, SameIdentity
  <2> QED
    BY <2>1, <2>2, <2>3, <2>4, <2>5 DEF TypeOK, TableTypeOK
<1>9. ASSUME NEW p \in Pods PROVE PodOK(p)'
  <2>1. RefsOK(p)'
    BY <1>2, <1>4, <1>5 DEF TypeOK, PodOK, RefsOK
  <2>2. RowsOK(p)'
    BY <1>6 DEF ResolveDigest, TypeOK, PodOK, RowsOK
  <2>3. /\ \A n \in Packages : effectiveRefs[p][n] # NoRef => effectiveRefs'[p][n] # NoRef
        /\ effectiveRefs'[q][row.package_name] # NoRef
        /\ \A r \in rows[p] : r.package_name \in Packages
    BY <1>2, <1>4, <1>5 DEF TypeOK, Row
  <2>4. PassedOK(p)'
    BY <1>6, <2>3 DEF ResolveDigest, TypeOK, PodOK, PassedOK
  <2>5. PersistingOK(p)'
    BY <1>2, <1>7, <2>3 DEF ResolveDigest, TypeOK, PodOK, PersistingOK
  <2> QED
    BY <2>1, <2>2, <2>4, <2>5 DEF PodOK
<1>10. (EnabledEntriesPinned /\ OneEntryPerPlugin)'
  BY DEF ResolveDigest, EnabledEntriesPinned, OneEntryPerPlugin, Entries
<1> QED
  BY <1>8, <1>9, <1>10

\* A row that could not be resolved is skipped, and so never written with its tag.
LEMMA SkipInv ==
  ASSUME PrestepInv, NEW q \in Pods, ResolveFails(q)
  PROVE  PrestepInv'
<1> USE DEF PrestepInv
<1>1. PICK row \in todo[q] :
        /\ todo' = [todo EXCEPT ![q] = @ \ {row}]
        /\ skipped' = [skipped EXCEPT ![q] = @ \cup {row}]
  BY DEF ResolveFails
<1>2. row \in Row
  BY DEF TypeOK
<1>3. UNCHANGED <<table, writes, columns, registry, pc, rows, hasDigestColumn,
                  effectiveRefs, persisting, file>>
  BY DEF ResolveFails, envVars, tableVars
<1>4. TypeOK' /\ KeysMatch'
  BY <1>1, <1>2, <1>3 DEF TypeOK, TableTypeOK, KeysMatch, RowMatches, SameIdentity
<1>5. ASSUME NEW p \in Pods PROVE PodOK(p)'
  BY <1>1, <1>3 DEF TypeOK, PodOK, RefsOK, RowsOK, PassedOK, PersistingOK
<1>6. (EnabledEntriesPinned /\ OneEntryPerPlugin)'
  BY <1>3 DEF EnabledEntriesPinned, OneEntryPerPlugin, Entries
<1> QED
  BY <1>4, <1>5, <1>6

\* After the UPDATE, done or failed, the row is pinned in memory.
LEMMA PersistInv ==
  ASSUME PrestepInv, NEW q \in Pods, PersistDigest(q)
  PROVE  PrestepInv'
<1> USE DEF PrestepInv
<1> DEFINE n == persisting[q].package_name
           d == effectiveRefs[q][n].version
<1>1. n \in Packages /\ d \in Digests
  BY DEF PersistDigest, TypeOK, PodOK, PersistingOK, RefsOK, Row
<1>2. table' = IF table[n] = NoRow THEN table
               ELSE [table EXCEPT ![n].resolved_digest = d]
  BY DEF PersistDigest
<1>3. UNCHANGED <<writes, columns, registry, rows, todo, hasDigestColumn,
                  effectiveRefs, skipped, file>>
  BY DEF PersistDigest
<1>4. /\ pc' = [pc EXCEPT ![q] = "pin"]
      /\ persisting' = [persisting EXCEPT ![q] = NoRow]
  BY DEF PersistDigest
<1> HIDE DEF n, d
<1>5. /\ table' \in [Packages -> Row \cup {NoRow}]
      /\ KeysMatch'
  <2>1. CASE table[n] = NoRow
    BY <1>2, <2>1 DEF TypeOK, TableTypeOK, KeysMatch, RowMatches, SameIdentity
  <2>2. CASE table[n] # NoRow
    <3> DEFINE new == [table[n] EXCEPT !.resolved_digest = d]
    <3>1. table' = [table EXCEPT ![n] = new]
      BY <1>2, <2>2
    <3>2. table[n] \in Row /\ RowMatches(table[n], n)
      BY <1>1, <2>2 DEF TypeOK, TableTypeOK, KeysMatch
    <3>3. new \in Row /\ RowMatches(new, n)
      BY <1>1, <3>2 DEF Row, RowMatches
    <3> HIDE DEF new
    <3> QED
      BY <1>1, <3>1, <3>3 DEF TypeOK, TableTypeOK, KeysMatch
  <2> QED
    BY <2>1, <2>2
<1>6. TypeOK'
  BY <1>3, <1>4, <1>5 DEF TypeOK, TableTypeOK
<1>7. ASSUME NEW p \in Pods PROVE PodOK(p)'
  BY <1>3, <1>4 DEF TypeOK, PodOK, RefsOK, RowsOK, PassedOK, PersistingOK
<1>8. (EnabledEntriesPinned /\ OneEntryPerPlugin)'
  BY <1>3 DEF EnabledEntriesPinned, OneEntryPerPlugin, Entries
<1> QED
  BY <1>5, <1>6, <1>7, <1>8

\* The file is written from pinned rows only.
LEMMA WriteInv ==
  ASSUME PrestepInv, NEW q \in Pods, WriteFile(q)
  PROVE  PrestepInv'
<1> USE DEF PrestepInv
<1>1. /\ todo[q] = {}
      /\ file' = [file EXCEPT ![q] = rowsToPlugins(q)]
      /\ pc' = [pc EXCEPT ![q] = "exited"]
      /\ UNCHANGED <<table, writes, columns, registry, rows, todo, hasDigestColumn,
                     effectiveRefs, skipped, persisting>>
  BY DEF WriteFile, envVars, tableVars
<1>2. \A e \in rowsToPlugins(q) :
        \E row \in rows[q] \ skipped[q] :
          /\ e = PluginEntry(row, effectiveRefs[q][row.package_name])
          /\ e \in Entry
          /\ SameIdentity(e.package, row.package_name)
          /\ ~ e.disabled /\ IsOci(e.package) => e.package.version \in Digests
  BY <1>1, EntryOfPassedRow DEF rowsToPlugins
<1>3. ASSUME NEW e \in rowsToPlugins(q), NEW f \in rowsToPlugins(q), e # f,
             IsOci(e.package), IsOci(f.package)
      PROVE  ~ samePlugin(e.package, f.package)
  <2>1. PICK r \in rows[q] : /\ e = PluginEntry(r, effectiveRefs[q][r.package_name])
                             /\ SameIdentity(e.package, r.package_name)
    BY <1>2
  <2>2. PICK s \in rows[q] : /\ f = PluginEntry(s, effectiveRefs[q][s.package_name])
                             /\ SameIdentity(f.package, s.package_name)
    BY <1>2
  <2>3. r # s
    BY <1>3, <2>1, <2>2
  <2>4. /\ SameIdentity(rowPackageRef(r), r.package_name)
        /\ SameIdentity(rowPackageRef(s), s.package_name)
    BY RowRefsAgree DEF TypeOK, PodOK, RowsOK
  <2>5. SameIdentity(e.package, rowPackageRef(r)) /\ SameIdentity(f.package, rowPackageRef(s))
    BY <2>1, <2>2, <2>4 DEF SameIdentity
  <2>6. IsOci(rowPackageRef(r)) /\ IsOci(rowPackageRef(s))
    BY <1>3, <2>5 DEF SameIdentity, IsOci
  <2>7. ~ samePlugin(rowPackageRef(r), rowPackageRef(s))
    BY <2>3, <2>6 DEF PodOK, RowsOK
  <2> QED
    BY <2>5, <2>7, IdentityDecidesSamePlugin
<1> DEFINE new == rowsToPlugins(q)
<1>4. file' = [file EXCEPT ![q] = new] /\ new \subseteq Entry
  BY <1>1, <1>2
<1>5. \A e \in new : ~ e.disabled /\ IsOci(e.package) => e.package.version \in Digests
  BY <1>2
<1> HIDE DEF new
<1>6. TypeOK' /\ KeysMatch'
  BY <1>1, <1>4 DEF TypeOK, TableTypeOK, KeysMatch, RowMatches, SameIdentity
<1>7. ASSUME NEW p \in Pods PROVE PodOK(p)'
  BY <1>1 DEF TypeOK, PodOK, RefsOK, RowsOK, PassedOK, PersistingOK
<1>8. \A p \in Pods : Entries(p)' = Entries(p) \/ Entries(p)' \subseteq new
  <2> TAKE p \in Pods
  <2>1. CASE p = q
    BY <1>4, <2>1 DEF TypeOK, Entries
  <2>2. CASE p # q
    BY <1>4, <2>2 DEF TypeOK, Entries
  <2> QED
    BY <2>1, <2>2
<1>9. EnabledEntriesPinned'
  BY <1>5, <1>8 DEF EnabledEntriesPinned
<1>10. OneEntryPerPlugin'
  BY <1>3, <1>8 DEF OneEntryPerPlugin, new
<1> QED
  BY <1>6, <1>7, <1>9, <1>10

\* The pod starts, gives up, or goes on after a failed UPDATE or write: only the
\* program counter and the UPDATE in flight change.
LEMMA ControlInv ==
  ASSUME PrestepInv, NEW q \in Pods,
         Start(q) \/ ReadFails(q) \/ PersistFails(q) \/ WriteFails(q)
  PROVE  PrestepInv'
<1> USE DEF PrestepInv
<1>1. UNCHANGED <<table, writes, columns, registry, rows, todo, hasDigestColumn,
                  effectiveRefs, skipped, file>>
  BY DEF Start, ReadFails, PersistFails, WriteFails, envVars, tableVars
<1>2. /\ \E c \in {"read", "exited", "pin"} : pc' = [pc EXCEPT ![q] = c]
      /\ \/ persisting' = persisting
         \/ persisting' = [persisting EXCEPT ![q] = NoRow]
  BY DEF Start, ReadFails, PersistFails, WriteFails
<1>3. TypeOK' /\ KeysMatch'
  BY <1>1, <1>2 DEF TypeOK, TableTypeOK, KeysMatch, RowMatches, SameIdentity
<1>4. ASSUME NEW p \in Pods PROVE PodOK(p)'
  BY <1>1, <1>2 DEF TypeOK, PodOK, RefsOK, RowsOK, PassedOK, PersistingOK
<1>5. (EnabledEntriesPinned /\ OneEntryPerPlugin)'
  BY <1>1 DEF EnabledEntriesPinned, OneEntryPerPlugin, Entries
<1> QED
  BY <1>3, <1>4, <1>5

\* A boot that ends, or is killed, keeps the file and forgets the rest.
LEMMA StopInv ==
  ASSUME PrestepInv, NEW q \in Pods, Stop(q)
  PROVE  PrestepInv'
<1> USE DEF PrestepInv
<1>1. UNCHANGED <<table, writes, columns, registry>>
  BY DEF Stop, envVars, tableVars
<1>2. TypeOK' /\ KeysMatch'
  BY <1>1 DEF Stop, TypeOK, TableTypeOK, KeysMatch, RowMatches, SameIdentity
<1>3. ASSUME NEW p \in Pods PROVE PodOK(p)'
  BY DEF Stop, TypeOK, PodOK, RefsOK, RowsOK, PassedOK, PersistingOK
<1>4. \A p \in Pods : Entries(p)' \subseteq Entries(p)
  BY DEF Stop, TypeOK, Entries
<1>5. (EnabledEntriesPinned /\ OneEntryPerPlugin)'
  BY <1>4 DEF EnabledEntriesPinned, OneEntryPerPlugin
<1> QED
  BY <1>2, <1>3, <1>5

\* The backend and the registry touch nothing a pod has in hand.
LEMMA EnvironmentInv ==
  ASSUME PrestepInv, Backend \/ RegistryChanges
  PROVE  PrestepInv'
<1> USE DEF PrestepInv
<1>1. UNCHANGED <<pc, rows, todo, hasDigestColumn, effectiveRefs, skipped, persisting,
                  file>>
  BY DEF Backend, RegistryChanges, podVars
<1>2. (TableTypeOK /\ KeysMatch)'
  <2>1. CASE Backend
    BY <2>1, BackendPreservesTable DEF Backend, TypeOK, TableInv
  <2>2. CASE RegistryChanges
    BY <2>2 DEF RegistryChanges, tableVars, TypeOK, TableTypeOK, KeysMatch, RowMatches,
       SameIdentity
  <2> QED
    BY <2>1, <2>2
<1>3. registry' \in [Images -> Digests \cup {NoDigest}]
  BY DEF Backend, RegistryChanges, TypeOK
<1>4. TypeOK'
  BY <1>1, <1>2, <1>3 DEF TypeOK
<1>5. ASSUME NEW p \in Pods PROVE PodOK(p)'
  BY <1>1 DEF PodOK, RefsOK, RowsOK, PassedOK, PersistingOK
<1>6. (EnabledEntriesPinned /\ OneEntryPerPlugin)'
  BY <1>1 DEF EnabledEntriesPinned, OneEntryPerPlugin, Entries
<1> QED
  BY <1>2, <1>4, <1>5, <1>6

\* The invariant of the pre-step holds in every reachable state.
THEOREM PrestepInvariant == Spec => []PrestepInv
<1>1. PrestepInv /\ [Next]_vars => PrestepInv'
  <2> SUFFICES ASSUME PrestepInv, [Next]_vars PROVE PrestepInv'
    OBVIOUS
  <2>1. ASSUME NEW p \in Pods, Start(p) \/ PrestepStep(p) \/ Stop(p)
        PROVE  PrestepInv'
    BY <2>1, ReadInv, PassInv, ResolveInv, SkipInv, PersistInv, WriteInv, ControlInv,
       StopInv DEF PrestepStep
  <2>2. CASE UNCHANGED vars
    BY <2>2 DEF vars, PrestepInv, TypeOK, TableTypeOK, KeysMatch, PodOK, RefsOK, RowsOK,
       PassedOK, PersistingOK, EnabledEntriesPinned, OneEntryPerPlugin, Entries
  <2> QED
    BY <2>1, <2>2, EnvironmentInv DEF Next
<1> QED
  BY <1>1, InitInv, PTL DEF Spec

\* The state of the pre-step is well typed in every behaviour.
THEOREM PrestepTypeCorrect == Spec => []TypeOK
BY PrestepInvariant, PTL DEF PrestepInv

\* No bare tag is ever written for an enabled OCI selection, for any number of
\* pods, tables, tag moves, failures and kills.
THEOREM EnabledEntriesArePinned == Spec => []EnabledEntriesPinned
BY PrestepInvariant, PTL DEF PrestepInv

\* The file never names one OCI plugin twice.
THEOREM FileHasOneEntryPerPlugin == Spec => []OneEntryPerPlugin
BY PrestepInvariant, PTL DEF PrestepInv

\* Only rows without a digest are ever left out of a file.
OnlyUnpinnedSkipped == \A p \in Pods : \A row \in skipped[p] : NeedsDigest(row)

\* Whatever the registry refuses, the file a boot writes holds every selected row that
\* needs no digest, for any number of pods and rows.
THEOREM OutagesCostOnlyUnpinned == Spec => OutageCostsOnlyUnpinned
<1>1. Init => OnlyUnpinnedSkipped
  BY DEF Init, OnlyUnpinnedSkipped
<1>2. PrestepInv /\ OnlyUnpinnedSkipped /\ [Next]_vars => OnlyUnpinnedSkipped'
  <2> SUFFICES ASSUME PrestepInv, OnlyUnpinnedSkipped, [Next]_vars
               PROVE  OnlyUnpinnedSkipped'
    OBVIOUS
  <2>1. skipped \in [Pods -> SUBSET Row]
    BY DEF PrestepInv, TypeOK
  <2>2. ASSUME NEW p \in Pods, ResolveFails(p)
        PROVE  OnlyUnpinnedSkipped'
    BY <2>1, <2>2 DEF ResolveFails, OnlyUnpinnedSkipped, NeedsDigest
  <2>3. ASSUME NEW p \in Pods, Start(p) \/ Stop(p)
        PROVE  OnlyUnpinnedSkipped'
    BY <2>1, <2>3 DEF Start, Stop, OnlyUnpinnedSkipped, NeedsDigest
  <2>4. ASSUME UNCHANGED skipped
        PROVE  OnlyUnpinnedSkipped'
    BY <2>4 DEF OnlyUnpinnedSkipped, NeedsDigest
  <2>5. ASSUME NEW p \in Pods,
               \/ ReadFails(p) \/ ReadInstallations(p) \/ PassRow(p) \/ ResolveDigest(p)
               \/ PersistDigest(p) \/ PersistFails(p) \/ WriteFile(p) \/ WriteFails(p)
        PROVE  UNCHANGED skipped
    BY <2>5 DEF ReadFails, ReadInstallations, PassRow, ResolveDigest, PersistDigest,
       PersistFails, WriteFile, WriteFails
  <2>6. CASE RegistryChanges \/ Backend \/ UNCHANGED vars
    BY <2>4, <2>6 DEF RegistryChanges, Backend, vars, podVars
  <2> QED
    BY <2>2, <2>3, <2>4, <2>5, <2>6 DEF Next, PrestepStep
<1> DEFINE Whole ==
      \A p \in Pods :
        WriteFile(p) =>
          \A row \in rows[p] :
            ~ NeedsDigest(row) =>
              \E e \in file'[p] : e.package_name = row.package_name
<1>3. PrestepInv /\ OnlyUnpinnedSkipped => [Whole]_vars
  <2> SUFFICES ASSUME PrestepInv, OnlyUnpinnedSkipped, NEW p \in Pods, WriteFile(p),
                      NEW row \in rows[p], ~ NeedsDigest(row)
               PROVE  \E e \in file'[p] : e.package_name = row.package_name
    OBVIOUS
  <2>1. file'[p] = rowsToPlugins(p)
    BY DEF WriteFile, PrestepInv, TypeOK
  <2>2. row \notin skipped[p]
    BY DEF OnlyUnpinnedSkipped
  <2>3. PluginEntry(row, effectiveRefs[p][row.package_name]) \in rowsToPlugins(p)
    BY <2>2 DEF rowsToPlugins
  <2>4. PluginEntry(row, effectiveRefs[p][row.package_name]).package_name = row.package_name
    BY DEF PluginEntry
  <2> QED
    BY <2>1, <2>3, <2>4
<1> QED
  BY <1>1, <1>2, <1>3, PrestepInvariant, PTL DEF Spec, OutageCostsOnlyUnpinned

-----------------------------------------------------------------------------
(* One pod at a time.  Two boots that overlap can overwrite each other's      *)
(* digest; when only one pod runs the pre-step, whatever the backend and the  *)
(* registry do meanwhile, a stored digest is final and the file agrees with   *)
(* it.                                                                       *)

Unstored(n) == table[n] = NoRow \/ table[n].resolved_digest = NoDigest

\* What the table holds for a row in hand is what the pod read, or nothing; for a
\* row the loop has passed it is the digest in memory, or nothing.
StoreOK(p) ==
  /\ \A r \in todo[p] :
       \/ Unstored(r.package_name)
       \/ table[r.package_name].resolved_digest = r.resolved_digest
  /\ pc[p] = "persist" =>
       Unstored(persisting[p].package_name) /\ persisting[p] \notin todo[p]
  /\ \A r \in rows[p] \ (todo[p] \cup skipped[p]) :
       ~ r.disabled /\ IsOci(requestedRef(r)) =>
         \/ Unstored(r.package_name)
         \/ effectiveRefs[p][r.package_name].version
               = table[r.package_name].resolved_digest

DigestInv == PrestepInv /\ \A p \in Pods : StoreOK(p)

\* The backend never fills a digest in and never changes one.
LEMMA BackendLeavesDigests ==
  ASSUME TableInv, BackendNext, NEW n \in Packages
  PROVE  \/ table'[n] = NoRow
         \/ table[n] = NoRow /\ Unstored(n)'
         \/ table[n] # NoRow /\ table'[n].resolved_digest = table[n].resolved_digest
<1>1. CASE Migrate
  BY <1>1 DEF Migrate, Unstored
<1>2. ASSUME NEW m \in Packages, Install(m)
      PROVE  \/ table'[n] = NoRow
             \/ table[n] = NoRow /\ Unstored(n)'
             \/ table[n] # NoRow /\ table'[n].resolved_digest = table[n].resolved_digest
  <2>1. PICK form \in Forms[m], now \in Stamps :
          table' = [table EXCEPT ![m] = NewRow(m, form, FALSE, now)]
    BY <1>2 DEF Install
  <2>2. table'[m].resolved_digest = NoDigest
    BY <2>1 DEF NewRow, TableInv, TableTypeOK
  <2>3. n # m => table'[n] = table[n]
    BY <2>1 DEF TableInv, TableTypeOK
  <2> QED
    BY <1>2, <2>2, <2>3 DEF Install, Unstored
<1>3. ASSUME NEW m \in Packages, SetDisabled(m)
      PROVE  \/ table'[n] = NoRow
             \/ table[n] = NoRow /\ Unstored(n)'
             \/ table[n] # NoRow /\ table'[n].resolved_digest = table[n].resolved_digest
  <2>1. table[m] \in Row
    BY <1>3 DEF SetDisabled, TableInv, TableTypeOK
  <2>2. table'[m].resolved_digest = table[m].resolved_digest
    BY <1>3, <2>1 DEF SetDisabled, Row, TableInv, TableTypeOK
  <2>3. n # m => table'[n] = table[n]
    BY <1>3 DEF SetDisabled, TableInv, TableTypeOK
  <2> QED
    BY <1>3, <2>2, <2>3 DEF SetDisabled, Unstored
<1>4. ASSUME NEW m \in Packages, Uninstall(m)
      PROVE  \/ table'[n] = NoRow
             \/ table[n] = NoRow /\ Unstored(n)'
             \/ table[n] # NoRow /\ table'[n].resolved_digest = table[n].resolved_digest
  BY <1>4 DEF Uninstall, Unstored, TableInv, TableTypeOK
<1> QED
  BY <1>1, <1>2, <1>3, <1>4 DEF BackendNext

\* A pod whose memory does not change keeps agreeing with a table whose digests
\* do not change, or vanish.
LEMMA StoreSurvivesBackend ==
  ASSUME DigestInv, Backend, NEW p \in Pods
  PROVE  StoreOK(p)'
<1>1. \A n \in Packages :
        \/ Unstored(n)'
        \/ /\ ~ Unstored(n)
           /\ table'[n].resolved_digest = table[n].resolved_digest
  BY BackendLeavesDigests DEF DigestInv, PrestepInv, TypeOK, TableInv, Backend, Unstored
<1>2. UNCHANGED <<pc, rows, todo, skipped, effectiveRefs, persisting>>
  BY DEF Backend, podVars
<1>3. /\ \A r \in rows[p] : r.package_name \in Packages
      /\ todo[p] \subseteq rows[p]
      /\ pc[p] = "persist" => persisting[p] \in rows[p]
  BY DEF DigestInv, PrestepInv, TypeOK, PodOK, RowsOK, PersistingOK, Row
<1> QED
  BY <1>1, <1>2, <1>3 DEF DigestInv, StoreOK

\* The steps of the only pod keep the table, the memory and the loop in agreement:
\* reading the rows,
LEMMA StoreAfterRead ==
  ASSUME DigestInv, NEW q \in Pods, ReadInstallations(q)
  PROVE  StoreOK(q)'
<1>1. PICK entries \in {FactoryEntries, {}} :
        /\ rows' = [rows EXCEPT ![q] = SelectedRows(entries, Rows(table))]
        /\ todo' = [todo EXCEPT ![q] = SelectedRows(entries, Rows(table))]
  BY DEF ReadInstallations
<1>2. \A r \in SelectedRows(entries, Rows(table)) : r = table[r.package_name]
  <2>1. TableInv
    BY DEF DigestInv, PrestepInv, TypeOK, TableInv
  <2>2. \A r \in Rows(table) : r = table[r.package_name]
    BY <2>1 DEF Rows, TableInv, KeysMatch, RowMatches
  <2> QED
    BY <2>1, <2>2, SelectionIsDistinct
<1>3. UNCHANGED table /\ pc' = [pc EXCEPT ![q] = "pin"]
  BY DEF ReadInstallations, envVars, tableVars
<1> QED
  BY <1>1, <1>2, <1>3 DEF StoreOK, DigestInv, PrestepInv, TypeOK, Unstored

\* passing a row,
LEMMA StoreAfterPass ==
  ASSUME DigestInv, NEW q \in Pods, PassRow(q)
  PROVE  StoreOK(q)'
<1> USE DEF DigestInv, PrestepInv
<1>1. PICK row \in todo[q] :
        /\ ~ NeedsDigest(row)
        /\ todo' = [todo EXCEPT ![q] = @ \ {row}]
        /\ effectiveRefs' =
             IF IsOci(requestedRef(row)) /\ row.resolved_digest # NoDigest
               THEN [effectiveRefs EXCEPT ![q][row.package_name] =
                       refWithDigest(requestedRef(row), row.resolved_digest)]
               ELSE effectiveRefs
  BY DEF PassRow
<1>2. UNCHANGED <<table, pc, rows, skipped, persisting>> /\ pc[q] = "pin"
  BY DEF PassRow, envVars, tableVars
<1>3. /\ \A r \in rows[q] : r \in Row /\ r.package_name \in Packages
      /\ row \in rows[q]
      /\ \A r \in rows[q] : r.package_name = row.package_name => r = row
  BY DEF TypeOK, PodOK, RowsOK, Row
<1>4. ASSUME ~ row.disabled, IsOci(requestedRef(row))
      PROVE  effectiveRefs'[q][row.package_name].version = row.resolved_digest
  <2>1. row.resolved_digest # NoDigest
    BY <1>1, <1>4 DEF NeedsDigest
  <2>2. requestedRef(row) \in PackageRef
    BY <1>3, RowRefsAgree DEF PodOK, RowsOK
  <2>3. refWithDigest(requestedRef(row), row.resolved_digest).version = row.resolved_digest
    BY <1>4, <2>2 DEF refWithDigest, PackageRef
  <2> QED
    BY <1>1, <1>3, <1>4, <2>1, <2>3 DEF TypeOK
<1>5. \A r \in rows[q] \ {row} :
        effectiveRefs'[q][r.package_name] = effectiveRefs[q][r.package_name]
  BY <1>1, <1>3 DEF TypeOK
<1>6. todo'[q] = todo[q] \ {row}
  BY <1>1 DEF TypeOK
<1> QED
  BY <1>2, <1>3, <1>4, <1>5, <1>6 DEF StoreOK, Unstored

\* resolving one,
LEMMA StoreAfterResolve ==
  ASSUME DigestInv, NEW q \in Pods, ResolveDigest(q)
  PROVE  StoreOK(q)'
<1> USE DEF DigestInv, PrestepInv
<1>1. PICK row \in todo[q] :
        /\ NeedsDigest(row)
        /\ todo' = [todo EXCEPT ![q] = @ \ {row}]
        /\ \E ref : effectiveRefs' = [effectiveRefs EXCEPT ![q][row.package_name] = ref]
        /\ \/ pc' = pc
           \/ persisting' = [persisting EXCEPT ![q] = row]
  BY DEF ResolveDigest
<1>2. UNCHANGED <<table, rows, skipped>> /\ pc[q] = "pin"
  BY DEF ResolveDigest, envVars, tableVars
<1>3. /\ row \in rows[q]
      /\ \A r \in rows[q] : r.package_name \in Packages
      /\ \A r \in rows[q] : r.package_name = row.package_name => r = row
  BY DEF TypeOK, PodOK, RowsOK, Row
<1>4. Unstored(row.package_name)
  BY <1>1 DEF NeedsDigest, StoreOK, Unstored
<1>5. \A r \in rows[q] \ {row} :
        effectiveRefs'[q][r.package_name] = effectiveRefs[q][r.package_name]
  BY <1>1, <1>3 DEF TypeOK
<1>6. todo'[q] = todo[q] \ {row}
  BY <1>1 DEF TypeOK
<1>7. pc'[q] = "persist" => persisting'[q] = row
  BY <1>1, <1>2 DEF TypeOK
<1> QED
  BY <1>2, <1>3, <1>4, <1>5, <1>6, <1>7 DEF StoreOK, Unstored

\* and storing its digest.
LEMMA StoreAfterPersist ==
  ASSUME DigestInv, NEW q \in Pods, PersistDigest(q)
  PROVE  StoreOK(q)'
<1> USE DEF DigestInv, PrestepInv
<1> DEFINE done == persisting[q]
           n == done.package_name
<1>1. /\ table' = IF table[n] = NoRow THEN table
                  ELSE [table EXCEPT ![n].resolved_digest = effectiveRefs[q][n].version]
      /\ pc' = [pc EXCEPT ![q] = "pin"]
      /\ UNCHANGED <<rows, todo, skipped, effectiveRefs>>
      /\ pc[q] = "persist"
  BY DEF PersistDigest
<1>2. /\ done \in rows[q]
      /\ done \notin todo[q]
      /\ todo[q] \subseteq rows[q]
      /\ \A r \in rows[q] : r.package_name \in Packages
      /\ \A r \in rows[q] : r.package_name = n => r = done
  BY <1>1 DEF TypeOK, PodOK, RowsOK, PersistingOK, StoreOK, Row
<1>3. \A m \in Packages \ {n} : table'[m] = table[m]
  BY <1>1 DEF TypeOK, TableTypeOK
<1>4. table[n] # NoRow => table'[n].resolved_digest = effectiveRefs[q][n].version
  <2> SUFFICES ASSUME table[n] # NoRow
               PROVE  table'[n].resolved_digest = effectiveRefs[q][n].version
    OBVIOUS
  <2>1. n \in Packages /\ table[n] \in Row
    BY <1>2 DEF TypeOK, TableTypeOK
  <2> QED
    BY <1>1, <2>1 DEF TypeOK, TableTypeOK, Row
<1>5. table[n] = NoRow => table'[n] = NoRow
  BY <1>1
<1>6. pc'[q] = "pin"
  BY <1>1 DEF TypeOK
<1> HIDE DEF done, n
<1> QED
  BY <1>1, <1>2, <1>3, <1>4, <1>5, <1>6 DEF StoreOK, Unstored

\* One pod at a time, the agreement is an invariant.
THEOREM SinglePodDigestInvariant ==
  ASSUME NEW q, Pods = {q}
  PROVE  Spec => []DigestInv
<1>1. Init => DigestInv
  BY InitInv DEF DigestInv, StoreOK, Init
<1>2. DigestInv /\ PrestepInv' /\ [Next]_vars => DigestInv'
  <2> SUFFICES ASSUME DigestInv, [Next]_vars
               PROVE  StoreOK(q)'
    BY DEF DigestInv
  <2> USE DEF DigestInv
  <2>1. CASE Start(q) \/ ReadFails(q) \/ PersistFails(q) \/ WriteFile(q) \/ WriteFails(q)
    BY <2>1 DEF Start, ReadFails, PersistFails, WriteFile, WriteFails, StoreOK, Unstored,
       envVars, tableVars, PrestepInv, TypeOK
  <2>2. CASE ResolveFails(q)
    BY <2>2 DEF ResolveFails, StoreOK, Unstored, envVars, tableVars, PrestepInv, TypeOK
  <2>3. CASE Stop(q)
    BY <2>3 DEF Stop, StoreOK, PrestepInv, TypeOK
  <2>4. CASE RegistryChanges \/ UNCHANGED vars
    BY <2>4 DEF RegistryChanges, vars, podVars, tableVars, StoreOK, Unstored
  <2>5. CASE Backend
    BY <2>5, StoreSurvivesBackend
  <2> QED
    BY <2>1, <2>2, <2>3, <2>4, <2>5, StoreAfterRead, StoreAfterPass, StoreAfterResolve,
       StoreAfterPersist DEF Next, PrestepStep
<1> QED
  BY <1>1, <1>2, PrestepInvariant, PTL DEF Spec

\* One pod at a time, a stored digest is final until the backend replaces the row.
THEOREM SinglePodKeepsDigests ==
  ASSUME NEW q, Pods = {q}
  PROVE  Spec => StoredDigestStays
<1> DEFINE Stays ==
      \A n \in Packages :
        /\ table[n] # NoRow /\ table'[n] # NoRow
        /\ table[n].resolved_digest # NoDigest
        => table'[n].resolved_digest = table[n].resolved_digest
<1>1. DigestInv /\ [Next]_vars => [Stays]_vars
  <2> SUFFICES ASSUME DigestInv, Next PROVE Stays
    OBVIOUS
  <2>1. CASE Backend
    <3>1. TableInv /\ BackendNext
      BY <2>1 DEF DigestInv, PrestepInv, TypeOK, TableInv, Backend
    <3>2. \A n \in Packages :
            \/ table'[n] = NoRow
            \/ table[n] = NoRow
            \/ table'[n].resolved_digest = table[n].resolved_digest
      BY <3>1, BackendLeavesDigests
    <3> QED
      BY <3>2 DEF Unstored
  <2>2. CASE PersistDigest(q)
    <3>1. Unstored(persisting[q].package_name)
      BY <2>2 DEF PersistDigest, DigestInv, StoreOK
    <3>2. \A m \in Packages \ {persisting[q].package_name} : table'[m] = table[m]
      BY <2>2 DEF PersistDigest, DigestInv, PrestepInv, TypeOK, TableTypeOK
    <3> QED
      BY <3>1, <3>2 DEF Unstored
  <2>3. CASE \/ Start(q) \/ ReadFails(q) \/ ReadInstallations(q) \/ PassRow(q)
             \/ ResolveDigest(q) \/ ResolveFails(q) \/ PersistFails(q) \/ WriteFile(q)
             \/ WriteFails(q) \/ Stop(q) \/ RegistryChanges
    BY <2>3 DEF Start, ReadFails, ReadInstallations, PassRow, ResolveDigest, ResolveFails,
       PersistFails, WriteFile, WriteFails, Stop, RegistryChanges, envVars, tableVars
  <2> QED
    BY <2>1, <2>2, <2>3 DEF Next, PrestepStep
<1> QED
  BY <1>1, SinglePodDigestInvariant, PTL DEF Spec, StoredDigestStays

\* The digest a boot writes for an enabled row is the one the table holds, if any.
LEMMA WriteAgreesWithTable ==
  ASSUME DigestInv, NEW q \in Pods, WriteFile(q), NEW e \in file'[q],
         ~ e.disabled, IsOci(e.package)
  PROVE  /\ e \in Entry
         /\ SameIdentity(e.package, e.package_name)
         /\ e.package.version \in Digests
         /\ \/ Unstored(e.package_name)
            \/ e.package.version = table[e.package_name].resolved_digest
<1>1. todo[q] = {} /\ file'[q] = rowsToPlugins(q)
  BY DEF WriteFile, DigestInv, PrestepInv, TypeOK
<1>2. PICK r \in rows[q] \ skipped[q] :
        e = PluginEntry(r, effectiveRefs[q][r.package_name])
  BY <1>1 DEF rowsToPlugins
<1>3. /\ r \in Row
      /\ RowMatches(r, r.package_name)
      /\ SameIdentity(e.package, r.package_name)
      /\ e \in Entry
      /\ e.package.version \in Digests
  BY <1>1, <1>2, EntryOfPassedRow DEF DigestInv, PrestepInv, TypeOK, PodOK, RowsOK
<1>4. ~ r.disabled /\ IsOci(requestedRef(r)) /\ e.package_name = r.package_name
  BY <1>2, <1>3, RowRefsAgree DEF PluginEntry, RowMatches, SameIdentity, IsOci
<1>5. effectiveRefs[q][r.package_name] # NoRef
  BY <1>1, <1>4 DEF DigestInv, PrestepInv, PodOK, PassedOK
<1>6. e.package = effectiveRefs[q][r.package_name]
  BY <1>2, <1>5 DEF PluginEntry
<1> QED
  BY <1>1, <1>3, <1>4, <1>6 DEF DigestInv, StoreOK

\* One pod at a time, the digest a boot writes for an enabled row is the one the
\* table holds: the next boot reinstalls the same bytes.
THEOREM SinglePodRestartsSameBytes ==
  ASSUME NEW q, Pods = {q}
  PROVE  Spec => RestartSameBytes
<1> DEFINE Same ==
      \A p \in Pods :
        WriteFile(p) =>
          \A e \in file'[p] :
            LET row == table[e.package_name] IN
            /\ ~ e.disabled /\ IsOci(e.package)
            /\ row # NoRow
            /\ row.resolved_digest # NoDigest
            => e.package.version = row.resolved_digest
<1>1. DigestInv => Same
  BY WriteAgreesWithTable DEF Unstored
<1> HIDE DEF Same
<1>2. DigestInv => [Same]_vars
  BY <1>1
<1> QED
  BY <1>2, SinglePodDigestInvariant, PTL DEF Spec, RestartSameBytes, Same

-----------------------------------------------------------------------------
(* One pod at a time, every step is a step of the pin store or a stutter.    *)

\* A change of the user adds or removes one selection of the store.
LEMMA BackendChoosesSelections ==
  ASSUME TableInv, BackendNext, UNCHANGED publishedDigests
  PROVE  Store!Next \/ UNCHANGED storedPin
<1> USE DEF TableInv, TableTypeOK
<1>1. CASE Migrate
  BY <1>1 DEF Migrate, storedPin
<1>2. ASSUME NEW n \in Packages, Install(n)
      PROVE  Store!Add(n)
  <2>1. PICK form \in Forms[n], now \in Stamps :
          table' = [table EXCEPT ![n] = NewRow(n, form, FALSE, now)]
    BY <1>2 DEF Install
  <2>2. now \in Nat
    BY TableAssumption DEF Stamps
  <2>3. NewRow(n, form, FALSE, now) # NoRow
    BY <2>2, NewRowMatches, TableAssumption
  <2>4. table[n] = NoRow
    BY <1>2 DEF Install
  <2>5. \A m \in Packages :
          table'[m] = IF m = n THEN NewRow(n, form, FALSE, now) ELSE table[m]
    BY <2>1
  <2>6. NewRow(n, form, FALSE, now).resolved_digest = NoDigest
    BY DEF NewRow
  <2>7. storedPin' = [storedPin EXCEPT ![n] = NoDigest]
    BY <2>3, <2>5, <2>6 DEF storedPin
  <2> QED
    BY <2>4, <2>7 DEF Store!Add, storedPin
<1>3. ASSUME NEW n \in Packages, SetDisabled(n)
      PROVE  UNCHANGED storedPin
  <2>1. table[n] \in Row
    BY <1>3 DEF SetDisabled
  <2>2. table'[n].resolved_digest = table[n].resolved_digest
    BY <1>3, <2>1 DEF SetDisabled, Row
  <2>3. table'[n] # NoRow
    <3> DEFINE row == table[n]
               stored == IF row.config.disabled = Unset THEN Unset ELSE ~ row.disabled
               new(now) == [row EXCEPT !.disabled = ~ row.disabled,
                                       !.updated_at = now,
                                       !.config = [row.config EXCEPT !.disabled = stored]]
    <3>1. PICK now \in Stamps : table' = [table EXCEPT ![n] = new(now)]
      BY <1>3 DEF SetDisabled
    <3>2. now \in Nat
      BY <3>1, TableAssumption DEF Stamps
    <3>3. new(now) \in Row
      BY <2>1, <3>2 DEF Row
    <3> QED
      BY <1>3, <3>1, <3>3, TableAssumption
  <2>4. \A m \in Packages : m # n => table'[m] = table[m]
    BY <1>3 DEF SetDisabled
  <2> QED
    BY <1>3, <2>2, <2>3, <2>4 DEF storedPin, SetDisabled
<1>4. ASSUME NEW n \in Packages, Uninstall(n)
      PROVE  Store!Remove(n)
  BY <1>4 DEF Uninstall, storedPin, Store!Remove
<1> QED
  BY <1>1, <1>2, <1>3, <1>4 DEF BackendNext, Store!Next

\* An UPDATE pins a selection that was not pinned, or touches no row.
LEMMA PersistPinsOnce ==
  ASSUME DigestInv, NEW q \in Pods, PersistDigest(q), UNCHANGED publishedDigests
  PROVE  Store!Next \/ UNCHANGED storedPin
<1> USE DEF DigestInv, PrestepInv
<1> DEFINE n == persisting[q].package_name
           digest == effectiveRefs[q][n].version
<1>1. /\ pc[q] = "persist"
      /\ table' = IF table[n] = NoRow THEN table
                  ELSE [table EXCEPT ![n].resolved_digest = digest]
  BY DEF PersistDigest
<1>2. n \in Packages /\ digest \in Digests /\ Unstored(n)
  BY <1>1 DEF TypeOK, PodOK, PersistingOK, RefsOK, StoreOK, Row
<1>3. CASE table[n] = NoRow
  BY <1>1, <1>3 DEF storedPin
<1>4. CASE table[n] # NoRow
  <2>1. table[n] \in Row
    BY <1>2, <1>4 DEF TypeOK, TableTypeOK
  <2>2. [table[n] EXCEPT !.resolved_digest = digest] \in Row
    BY <1>2, <2>1 DEF Row
  <2>3. table'[n] # NoRow /\ table'[n].resolved_digest = digest
    BY <1>1, <1>2, <1>4, <2>1, <2>2, TableAssumption DEF TypeOK, TableTypeOK, Row
  <2>4. \A m \in Packages : m # n => table'[m] = table[m]
    BY <1>1 DEF TypeOK, TableTypeOK
  <2>5. storedPin' = [storedPin EXCEPT ![n] = digest]
    BY <2>3, <2>4 DEF storedPin
  <2>6. storedPin[n] = NoDigest
    BY <1>2, <1>4 DEF storedPin, Unstored
  <2> QED
    BY <1>2, <2>5, <2>6 DEF Store!Next, Store!PinOnce
<1> QED
  BY <1>3, <1>4

\* The file a boot writes holds one digest per selection, the stored one if any.
LEMMA WritePublishes ==
  ASSUME DigestInv, PrestepInv', NEW q, Pods = {q}, WriteFile(q)
  PROVE  Store!Publish
<1> DEFINE Pinned(e) == ~ e.disabled /\ IsOci(e.package)
<1>1. Entries(q)' \subseteq file'[q]
  BY DEF Entries
<1>2. publishedDigests' = {<<e.package_name, e.package.version>> :
                             e \in {f \in Entries(q)' : Pinned(f)}}
  BY DEF publishedDigests
<1>3. ASSUME NEW e \in Entries(q)', Pinned(e)
      PROVE  /\ e.package_name \in Packages
             /\ SameIdentity(e.package, e.package_name)
             /\ e.package.version \in Digests
             /\ storedPin[e.package_name] \in {NoRow, NoDigest, e.package.version}
  BY <1>1, <1>3, WriteAgreesWithTable DEF Entry, storedPin, Unstored
<1>4. publishedDigests' \in SUBSET (Packages \X Digests)
  BY <1>2, <1>3
<1>5. ASSUME NEW e \in Entries(q)', NEW f \in Entries(q)', Pinned(e), Pinned(f),
             e.package_name = f.package_name
      PROVE  e = f
  <2>1. samePlugin(e.package, f.package)
    BY <1>3, <1>5 DEF SameIdentity, samePlugin, IsOci
  <2> QED
    BY <1>5, <2>1 DEF PrestepInv, OneEntryPerPlugin
<1>6. \A a, b \in publishedDigests' : a[1] = b[1] => a = b
  <2> SUFFICES ASSUME NEW a \in publishedDigests', NEW b \in publishedDigests',
                      a[1] = b[1]
               PROVE  a = b
    OBVIOUS
  <2>1. PICK e \in Entries(q)' : Pinned(e) /\ a = <<e.package_name, e.package.version>>
    BY <1>2
  <2>2. PICK f \in Entries(q)' : Pinned(f) /\ b = <<f.package_name, f.package.version>>
    BY <1>2
  <2> QED
    BY <1>5, <2>1, <2>2
<1>7. \A a \in publishedDigests' : storedPin[a[1]] \in {NoRow, NoDigest, a[2]}
  BY <1>2, <1>3
<1>8. UNCHANGED storedPin
  BY DEF storedPin, WriteFile, envVars, tableVars
<1> QED
  BY <1>4, <1>6, <1>7, <1>8 DEF Store!Publish

\* One pod at a time, the pre-step implements the pin store, whatever the backend,
\* the registry and kills do.
THEOREM SinglePodImplementsPinStore ==
  ASSUME NEW q, Pods = {q}
  PROVE  Spec => ImplementsPinStore
<1>1. Init => Store!Init
  <2> SUFFICES ASSUME Init PROVE Store!Init
    OBVIOUS
  <2>1. storedPin = [n \in Packages |-> NoRow]
    BY DEF Init, TableInit, storedPin
  <2>2. publishedDigests = {}
    BY DEF Init, publishedDigests, Entries
  <2> QED
    BY <2>1, <2>2 DEF Store!Init
<1>2. DigestInv /\ PrestepInv' /\ [Next]_vars => [Store!Next]_(Store!pinVars)
  <2> SUFFICES ASSUME DigestInv, PrestepInv', [Next]_vars
               PROVE  Store!Next \/ UNCHANGED <<storedPin, publishedDigests>>
    BY DEF Store!pinVars
  <2>1. UNCHANGED file => UNCHANGED publishedDigests
    BY DEF publishedDigests, Entries
  <2>2. UNCHANGED table => UNCHANGED storedPin
    BY DEF storedPin
  <2>3. CASE \/ Start(q) \/ ReadFails(q) \/ ReadInstallations(q) \/ PassRow(q)
             \/ ResolveDigest(q) \/ ResolveFails(q) \/ PersistFails(q)
             \/ WriteFails(q) \/ RegistryChanges \/ UNCHANGED vars
    <3>1. UNCHANGED <<table, file>>
      BY <2>3 DEF Start, ReadFails, ReadInstallations, PassRow, ResolveDigest,
         ResolveFails, PersistFails, WriteFails, RegistryChanges, envVars, tableVars, vars
    <3> QED
      BY <2>1, <2>2, <3>1
  <2>4. CASE Stop(q)
    <3>1. UNCHANGED table
      BY <2>4 DEF Stop, envVars, tableVars
    <3>2. CASE UNCHANGED file
      BY <2>1, <2>2, <3>1, <3>2
    <3>3. CASE file' = [file EXCEPT ![q] = NoFile]
      <4>1. Entries(q)' = {}
        BY <3>3 DEF Entries, DigestInv, PrestepInv, TypeOK
      <4>2. publishedDigests' = {}
        BY <4>1 DEF publishedDigests
      <4> QED
        BY <2>2, <3>1, <4>2 DEF Store!Next, Store!Lose
    <3> QED
      BY <2>4, <3>2, <3>3 DEF Stop
  <2>5. CASE Backend
    <3>1. UNCHANGED publishedDigests /\ TableInv /\ BackendNext
      BY <2>1, <2>5 DEF Backend, DigestInv, PrestepInv, TypeOK, TableInv
    <3> QED
      BY <3>1, BackendChoosesSelections
  <2>6. CASE PersistDigest(q)
    <3>1. UNCHANGED publishedDigests
      BY <2>1, <2>6 DEF PersistDigest
    <3> QED
      BY <2>6, <3>1, PersistPinsOnce
  <2>7. CASE WriteFile(q)
    BY <2>7, WritePublishes DEF Store!Next
  <2> QED
    BY <2>3, <2>4, <2>5, <2>6, <2>7 DEF Next, PrestepStep
<1> QED
  BY <1>1, <1>2, SinglePodDigestInvariant, PrestepInvariant, PTL
     DEF Spec, Store!Spec, ImplementsPinStore

==============================================================================
