--------------------------- MODULE GroupOwnership ---------------------------
(***************************************************************************)
(* packages/backend/src/transitiveGroupOwnershipResolver.ts: the ownership *)
(* references a signed-in user's token carries.  resolveParentGroups walks *)
(* the groups of the user recursively, one catalog request per group; the  *)
(* recursion is a stack of frames that share processedGroups.  The catalog *)
(* changes while the walk waits for it.                                    *)
(***************************************************************************)
EXTENDS Naturals, Sequences

CONSTANTS
  Groups,      \* group references
  Hierarchies, \* the catalogs a sign-in may find: parents of each group
  ParentSets,  \* what an edit may make of the parents of a group
  OtherRefs,   \* targets of a memberOf relation that are not groups
  Users,       \* user references
  NotAGroup,   \* the catalog has no group under a reference
  None,        \* no request is out, no user
  MaxEdits     \* bound: changes of the catalog in one behaviour

ASSUME OwnershipAssumption ==
  /\ MaxEdits \in Nat
  /\ Hierarchies \subseteq [Groups -> (SUBSET Groups) \cup {NotAGroup}]
  /\ \A S \in SUBSET Groups : S # NotAGroup
  /\ ParentSets \subseteq (SUBSET Groups) \cup {NotAGroup}
  /\ None \notin Groups
  /\ Users \cap Groups = {}
  /\ OtherRefs \cap Groups = {}

VARIABLES
  user,        \* whose references are resolved
  memberOf,    \* targets of the user's memberOf relations
  transitive,  \* includeTransitiveGroupOwnership
  catalog,     \* the parents of each group, or NotAGroup
  edits,       \* changes of the catalog so far
  frames,      \* the calls of resolveParentGroups, innermost last: the references
               \* still to visit and allTransitiveGroupRefs
  processedGroups,
  awaiting,    \* the group whose entity has been requested, or None
  outcome,     \* "idle", "resolving", "resolved" or "failed"
  ownershipEntityRefs,
  ever,        \* the parents a group had at some time since the walk began
  always       \* the parents it had all the time

walkVars == <<user, memberOf, transitive, frames, processedGroups, awaiting, outcome,
              ownershipEntityRefs>>
vars == <<user, memberOf, transitive, catalog, edits, frames, processedGroups, awaiting,
          outcome, ownershipEntityRefs, ever, always>>

Frame == [pending : SUBSET Groups, found : SUBSET Groups]

ParentsOf(c, g) == IF c[g] = NotAGroup THEN {} ELSE c[g]

\* The memberOf relations whose target is a group.
membershipRefs(refs) == refs \cap Groups

Depth == Len(frames)
Top == frames[Depth]

\* The first call of resolveParentGroups.
Outermost(refs) == <<[pending |-> membershipRefs(refs), found |-> {}]>>

\* The parents of each group as the catalog is now.
AllParents == [g \in Groups |-> ParentsOf(catalog, g)]

-----------------------------------------------------------------------------
Init ==
  /\ user = None
  /\ memberOf = {}
  /\ transitive \in BOOLEAN
  /\ catalog \in Hierarchies
  /\ edits = 0
  /\ frames = Outermost({})
  /\ processedGroups = {}
  /\ awaiting = None
  /\ outcome = "idle"
  /\ ownershipEntityRefs = {}
  /\ ever = AllParents
  /\ always = AllParents

\* Broken: the set of visited groups is kept from one call to the next.
Begin_KeepsVisited(u, refs) ==
  /\ outcome # "resolving"
  /\ user' = u
  /\ memberOf' = refs
  /\ frames' = Outermost(refs)
  /\ awaiting' = None
  /\ outcome' = "resolving"
  /\ ownershipEntityRefs' = {}
  /\ ever' = AllParents
  /\ always' = AllParents
  /\ UNCHANGED <<transitive, catalog, edits, processedGroups>>

\* resolveOwnershipEntityRefs is called for a user with some relations.
Begin(u, refs) ==
  /\ outcome # "resolving"
  /\ user' = u
  /\ memberOf' = refs
  /\ frames' = Outermost(refs)
  /\ processedGroups' = {}
  /\ awaiting' = None
  /\ outcome' = "resolving"
  /\ ownershipEntityRefs' = {}
  /\ ever' = AllParents
  /\ always' = AllParents
  /\ UNCHANGED <<transitive, catalog, edits>>

Walking == outcome = "resolving" /\ transitive /\ awaiting = None

\* Without includeTransitiveGroupOwnership the direct memberships are the answer.
ResolveDirect ==
  /\ outcome = "resolving" /\ ~ transitive
  /\ outcome' = "resolved"
  /\ ownershipEntityRefs' = {user} \cup membershipRefs(memberOf)
  /\ UNCHANGED <<user, memberOf, transitive, catalog, edits, frames, processedGroups,
                 awaiting, ever, always>>

\* A group that some frame has visited is passed over, here and in every frame.
SkipGroup(g) ==
  /\ Walking
  /\ g \in Top.pending \cap processedGroups
  /\ frames' = [frames EXCEPT ![Depth].pending = @ \ {g}]
  /\ UNCHANGED <<user, memberOf, transitive, catalog, edits, processedGroups, awaiting,
                 outcome, ownershipEntityRefs, ever, always>>

RequestGroup(g) ==
  /\ Walking
  /\ g \in Top.pending \ processedGroups
  /\ frames' = [frames EXCEPT ![Depth] = [pending |-> @.pending \ {g},
                                          found   |-> @.found \cup {g}]]
  /\ processedGroups' = processedGroups \cup {g}
  /\ awaiting' = g
  /\ UNCHANGED <<user, memberOf, transitive, catalog, edits, outcome, ownershipEntityRefs,
                 ever, always>>

\* Broken: the relation is followed to the children.
ReceiveGroup_Children ==
  /\ awaiting # None
  /\ awaiting' = None
  /\ frames' = Append(frames,
                 [pending |-> {h \in Groups : awaiting \in ParentsOf(catalog, h)},
                  found   |-> {}])
  /\ UNCHANGED <<user, memberOf, transitive, catalog, edits, processedGroups, outcome,
                 ownershipEntityRefs, ever, always>>

\* The catalog answers: resolveParentGroups calls itself with the parents of a
\* group, and goes on to the next reference when there is no group.
ReceiveGroup ==
  /\ awaiting # None
  /\ awaiting' = None
  /\ frames' = IF catalog[awaiting] = NotAGroup THEN frames
               ELSE Append(frames, [pending |-> catalog[awaiting], found |-> {}])
  /\ UNCHANGED <<user, memberOf, transitive, catalog, edits, processedGroups, outcome,
                 ownershipEntityRefs, ever, always>>

\* Broken: a failed request is tried again for as long as it fails.
RequestFails_Retry ==
  /\ awaiting # None
  /\ awaiting' = None
  /\ frames' = [frames EXCEPT ![Depth].pending = @ \cup {awaiting}]
  /\ processedGroups' = processedGroups \ {awaiting}
  /\ UNCHANGED <<user, memberOf, transitive, catalog, edits, outcome, ownershipEntityRefs,
                 ever, always>>

\* The token or the catalog request is rejected: the sign-in fails as a whole.
RequestFails ==
  /\ awaiting # None
  /\ awaiting' = None
  /\ outcome' = "failed"
  /\ UNCHANGED <<user, memberOf, transitive, catalog, edits, frames, processedGroups,
                 ownershipEntityRefs, ever, always>>

\* Broken: the groups an inner call has found are not added.
ReturnInner_Drops ==
  /\ Walking
  /\ Depth > 1 /\ Top.pending = {}
  /\ frames' = SubSeq(frames, 1, Depth - 1)
  /\ UNCHANGED <<user, memberOf, transitive, catalog, edits, processedGroups, awaiting,
                 outcome, ownershipEntityRefs, ever, always>>

\* An inner call returns its groups to the caller.
ReturnInner ==
  /\ Walking
  /\ Depth > 1 /\ Top.pending = {}
  /\ frames' = [i \in 1 .. Depth - 1 |->
                  IF i = Depth - 1
                    THEN [frames[i] EXCEPT !.found = @ \cup Top.found]
                    ELSE frames[i]]
  /\ UNCHANGED <<user, memberOf, transitive, catalog, edits, processedGroups, awaiting,
                 outcome, ownershipEntityRefs, ever, always>>

\* The outermost call returns to resolveOwnershipEntityRefs.
ReturnOuter ==
  /\ Walking
  /\ Depth = 1 /\ Top.pending = {}
  /\ outcome' = "resolved"
  /\ ownershipEntityRefs' = {user} \cup Top.found
  /\ UNCHANGED <<user, memberOf, transitive, catalog, edits, frames, processedGroups,
                 awaiting, ever, always>>

\* The catalog changes the parents of a group, adds or removes it.
EditCatalog ==
  /\ edits < MaxEdits
  /\ edits' = edits + 1
  /\ \E g \in Groups, parents \in ParentSets :
       /\ catalog' = [catalog EXCEPT ![g] = parents]
       /\ ever' = [ever EXCEPT ![g] = @ \cup ParentsOf(catalog', g)]
       /\ always' = [always EXCEPT ![g] = @ \cap ParentsOf(catalog', g)]
  /\ UNCHANGED walkVars

ResolverStep ==
  \/ ResolveDirect
  \/ \E g \in Groups : SkipGroup(g) \/ RequestGroup(g)
  \/ ReceiveGroup \/ RequestFails
  \/ ReturnInner \/ ReturnOuter

Next ==
  \/ \E u \in Users, refs \in SUBSET (Groups \cup OtherRefs) : Begin(u, refs)
  \/ ResolverStep
  \/ EditCatalog

Spec == Init /\ [][Next]_vars

-----------------------------------------------------------------------------
OwnershipTypeOK ==
  /\ user \in Users \cup {None}
  /\ memberOf \in SUBSET (Groups \cup OtherRefs)
  /\ transitive \in BOOLEAN
  /\ catalog \in [Groups -> (SUBSET Groups) \cup {NotAGroup}]
  /\ edits \in 0 .. MaxEdits
  /\ frames \in Seq(Frame)
  /\ processedGroups \in SUBSET Groups
  /\ awaiting \in Groups \cup {None}
  /\ outcome \in {"idle", "resolving", "resolved", "failed"}
  /\ ownershipEntityRefs \in SUBSET (Groups \cup Users)
  /\ ever \in [Groups -> SUBSET Groups]
  /\ always \in [Groups -> SUBSET Groups]

Owned == ownershipEntityRefs \ {user}

\* No group is missing: the token carries the user's groups and, with each group,
\* every parent it had throughout the walk, over any number of levels, diamonds
\* and cycles (resolveParentGroups).
OwnsAllAncestors ==
  outcome = "resolved" =>
    /\ {user} \cup membershipRefs(memberOf) \subseteq ownershipEntityRefs
    /\ transitive => \A g \in Owned : always[g] \subseteq Owned

\* No group is invented: the token's groups lie in every set that holds the user's
\* groups and the parents its members had at some time of the walk; without the
\* option they are the user's groups alone.
OwnsOnlyAncestors ==
  outcome = "resolved" =>
    /\ ~ transitive => Owned = membershipRefs(memberOf)
    /\ \A S \in SUBSET Groups :
         /\ membershipRefs(memberOf) \subseteq S
         /\ \A g \in S : ever[g] \subseteq S
         => Owned \subseteq S
=============================================================================
