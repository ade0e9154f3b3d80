----------------------------- MODULE MenuItems -----------------------------
(***************************************************************************)
(* The sidebar menu of the app: extractMenuItems and buildTree turn the    *)
(* menu entries of all plugins into a tree, and Root shows three sections  *)
(* of its roots, two levels of children under each.                        *)
(*                                                                         *)
(* A frontend is the sequence of plugins in the order of Object.entries.   *)
(* An entry is a record whose absent keys are Unset; names stand for menu  *)
(* names and for the names getNameFromPath makes of paths.                 *)
(***************************************************************************)
EXTENDS Integers, SequencesExt

CONSTANTS
  Unset,          \* the value of a key an entry does not have
  DefaultNames,   \* names that start with "default."
  AdminNames,     \* names that hold "admin"
  RbacName        \* the entry of the RBAC plugin, "rbac"

IsList(s) == s \in Seq(ToSet(s))

\* A static route with a menu item; a menu item without a text has an empty title.
RouteItem(route) ==
  [name |-> route.name, title |-> route.text,
   enabled |-> IF route.enabled = Unset THEN TRUE ELSE route.enabled,
   parent |-> Unset, priority |-> Unset]

RouteItems(routes) ==
  FlattenSeq([i \in DOMAIN routes |->
    IF routes[i].static THEN <<RouteItem(routes[i])>> ELSE <<>>])

\* Per plugin its routes, then its menuItems.
extractMenuItems(frontend) ==
  FlattenSeq([i \in DOMAIN frontend |->
                RouteItems(frontend[i].routes) \o frontend[i].menuItems])

-----------------------------------------------------------------------------
(* buildTree: entries of one name are merged in order, each overriding what it *)
(* has a key for, an empty title included.                                    *)

Names(items) == {items[i].name : i \in DOMAIN items}
Named(items, n) == {i \in DOMAIN items : items[i].name = n}

\* Broken: the spread alone, without the title of the existing entry.
LastValue_Spread(items, n, key) ==
  LET given == {i \in Named(items, n) : items[i][key] # Unset \/ key = "title"}
  IN  IF given = {} THEN Unset ELSE items[Max(given)][key]

\* So a key has the last value that an entry of the name gives it.
LastValue(items, n, key) ==
  LET given == {i \in Named(items, n) : items[i][key] # Unset}
  IN  IF given = {} THEN Unset ELSE items[Max(given)][key]

\* itemMap: one entry per name, in the order of the first entries of the names.
ItemMap(items) ==
  {[name |-> n, place |-> Min(Named(items, n)),
    title |-> LastValue(items, n, "title"), enabled |-> LastValue(items, n, "enabled"),
    parent |-> LastValue(items, n, "parent"), priority |-> LastValue(items, n, "priority")] :
     n \in Names(items)}

\* filteredItemMap: an entry needs a title and must not be disabled.
Listed(e) == e.enabled # FALSE /\ e.title \notin {Unset, ""}

Priority(e) == IF e.priority = Unset THEN 0 ELSE e.priority

\* compareMenuItems, with the stable sort of JavaScript.
Before(d, e) ==
  \/ Priority(d) > Priority(e)
  \/ Priority(d) = Priority(e) /\ d.place < e.place

\* A listed entry is a root, a child of the entry its parent names, listed or not,
\* or, when nothing has that name, left out.
buildTree(items) ==
  LET map == ItemMap(items)
      under(p) == {e \in map : Listed(e) /\ e.parent = p}
  IN  [roots |-> under(Unset),
       children |-> [p \in Names(items) |-> {e.name : e \in under(p)}]]

-----------------------------------------------------------------------------
(* Root: a section takes the roots that start with "default." or not, and hold  *)
(* "admin" or not.                                                              *)

Section(tree, isDefault, isBottom) ==
  {e \in tree.roots : (e.name \in DefaultNames) = isDefault
                        /\ (e.name \in AdminNames) = isBottom}

AdminSection(tree) == Section(tree, TRUE, TRUE)

FirstAdminGroup(tree) ==
  (CHOOSE e \in AdminSection(tree) : \A other \in AdminSection(tree) \ {e} :
     Before(e, other)).name

\* The bottom section of a user who may not create policies loses the RBAC entry
\* of its first root; the array of the registry is replaced, not a copy of it.
WithoutRbac(tree) ==
  IF AdminSection(tree) = {} THEN tree
  ELSE [roots |-> tree.roots,
        children |-> [tree.children EXCEPT ![FirstAdminGroup(tree)] = @ \ {RbacName}]]

\* The names a user finds in the sidebar: roots, children and grandchildren.
Shown(tree, showAdministration) ==
  LET below(names) == UNION {tree.children[n] : n \in names}
      roots == Section(tree, TRUE, FALSE) \cup Section(tree, FALSE, FALSE)
                 \cup IF showAdministration THEN AdminSection(tree) ELSE {}
      top == {e.name : e \in roots}
  IN  top \cup below(top) \cup below(below(top))
=============================================================================
