------------------------------- MODULE MC_Lists -------------------------------
(* The two lists the installer's comes from: the rows of the table a boot     *)
(* acts on, and the Marketplace's entries merged with the operator's.  The    *)
(* table has a repository with two plugins and a selector-less reference, one *)
(* that holds a factory plugin beside another, and a protected factory        *)
(* plugin; the merge a repository with two selectors and a selector-less      *)
(* reference, an npm and a local package.                                     *)
EXTENDS SelectionProperties, MergeDynamicPlugins, SequencesExt

MCStems == {"multi", "faced", "guarded", "repo", "npm", "dir"}
MCVersions == {"v1", "v2", "sha1"}
MCDigests == {"sha1"}
MCSelectors == {"x", "y", "p", "q"}

Ref(kind, stem, version, selector) ==
  [kind |-> kind, stem |-> stem, version |-> version, selector |-> selector]
Oci(stem, version, selector) == Ref("oci", stem, version, selector)

\* The packages in the order of their names.
MCOrder ==
  <<Oci("faced", "v1", NoSelector), Oci("faced", "v1", "p"), Oci("faced", "v1", "x"),
    Oci("guarded", "v1", "q"), Oci("multi", "v1", NoSelector), Oci("multi", "v1", "x"),
    Oci("multi", "v1", "y"), Oci("multi", "v2", "x")>>

MCPackages == ToSet(MCOrder)
MCRank == [n \in MCPackages |-> CHOOSE i \in DOMAIN MCOrder : MCOrder[i] = n]
MCForms ==
  [n \in MCPackages |->
     {[requested_ref |-> NoRef, package |-> n, storesDisabled |-> TRUE]}]
MCFactory ==
  {[repository |-> "faced", path |-> "p", protected |-> FALSE],
   [repository |-> "guarded", path |-> "q", protected |-> TRUE]}

-----------------------------------------------------------------------------
OperatorRefs ==
  {Oci("repo", "v1", "x"), Oci("repo", "v1", NoSelector),
   Ref("npm", "npm", "v1", NoSelector), NoRef}
MarketplaceRefs ==
  {Oci("repo", "sha1", "x"), Oci("repo", "sha1", "y"), Oci("repo", "sha1", NoSelector),
   Ref("npm", "npm", "v2", NoSelector), Ref("local", "dir", "v1", NoSelector), NoRef}

List(refs, off) == {[package |-> r, disabled |-> off] : r \in refs}

MCOperatorConfigs ==
  {List({r}, off) : r \in OperatorRefs, off \in BOOLEAN} \cup {{}}
MCExtensionsFiles ==
  {List(refs, FALSE) : refs \in kSubset(2, MarketplaceRefs)} \cup {{}}

-----------------------------------------------------------------------------
(* The merge reads the file of the pre-step, never the table: each is looked  *)
(* at while the other one rests, the merge where the pod is down, the table   *)
(* where nothing is installed and the bound lets nothing be written any more. *)

MergeRests == stage = "down" /\ operatorConfig = Invalid /\ dbPath = "unset"
TableRests == table = [n \in Packages |-> NoRow] /\ writes = MaxWrites /\ columns = "digest"

ListsInit ==
  \/ TableInit /\ Init /\ MergeRests
  \/ TableRests /\ Init

ListsNext ==
  \/ BackendNext /\ UNCHANGED vars
  \/ TableRests /\ Next /\ UNCHANGED tableVars
  \/ writes = MaxWrites /\ UNCHANGED <<tableVars, vars>>

ListsSpec == ListsInit /\ [][ListsNext]_<<tableVars, vars>>

-----------------------------------------------------------------------------
(* keepPreferred as the code computes it: preferredRow folded over the array. *)

InArrayOrder(rows, pushedBack) ==
  SetToSortSeq(rows, LAMBDA r, s : Behind(s, r, pushedBack))

FoldPreferred(rows, pushedBack) ==
  LET array == InArrayOrder(rows, pushedBack)
  IN  FoldLeft(preferredRow, Head(array), Tail(array))

AnyRow(n, disabled, stamp) ==
  [package_name |-> n, requested_ref |-> NoRef, resolved_digest |-> NoDigest,
   disabled |-> disabled, updated_at |-> stamp,
   config |-> [package |-> NoRef, disabled |-> Unset]]

\* The row that beats its rivals is the one the code's fold ends with, for every set of
\* up to three rows of three packages: the set-based selection is keepPreferred's.
ASSUME PreferredIsTheFold ==
  \A names \in SUBSET ToSet(SubSeq(MCOrder, 1, 3)) \ {{}} :
  \A disabled \in [names -> BOOLEAN], stamp \in [names -> 1..3], pushedNames \in SUBSET names :
    LET row(n) == AnyRow(n, disabled[n], stamp[n])
        rows == {row(n) : n \in names}
        pushedBack == {row(n) : n \in pushedNames}
    IN  {r \in rows : IsPreferred(r, rows, pushedBack)} = {FoldPreferred(rows, pushedBack)}
=============================================================================
