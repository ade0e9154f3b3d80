----------------------------- MODULE MC_Prestep -----------------------------
(* Two versions of one OCI plugin and a local one; tags move between two      *)
(* digests.                                                                  *)
EXTENDS ExtensionsPrestep

MCStems == {"a", "l"}
MCVersions == {"t1", "t2", "sha1", "sha2"}
MCDigests == {"sha1", "sha2"}
MCSelectors == {"x"}

A1 == [kind |-> "oci", stem |-> "a", version |-> "t1", selector |-> "x"]
A2 == [kind |-> "oci", stem |-> "a", version |-> "t2", selector |-> NoSelector]
L  == [kind |-> "local", stem |-> "l", version |-> "t1", selector |-> NoSelector]

MCPackages == {A1, A2, L}
MCOnePackage == {A1}
MCRank == [n \in Packages |-> CASE n = A1 -> 2 [] n = A2 -> 3 [] OTHER -> 1]
MCForms ==
  [n \in Packages |->
     {[requested_ref |-> NoRef, package |-> n, storesDisabled |-> n = A1]}]
MCFactory == {[repository |-> "a", path |-> "x", protected |-> FALSE]}
MCImages == {<<"a", "t1">>, <<"a", "t2">>}
=============================================================================
