--------------------------- MODULE LockfileProofs ---------------------------
(***************************************************************************)
(* Theorems about LockfileSurgeon, for every lockfile, every registry and  *)
(* every list of targets.                                                  *)
(***************************************************************************)
EXTENDS LockfileSurgeon, TLAPS

-----------------------------------------------------------------------------
\* The lockfile in memory is the one read without the packages replaced so far.
LockIsRest ==
  /\ lock \subseteq original
  /\ \A e \in lock : \A i \in 1 .. replaced : e.name # targets[i].name
  /\ \A e \in original : (\A i \in 1 .. replaced : e.name # targets[i].name) => e \in lock

\* The targets come first, and the walk waits for all of them.
TargetsFirst ==
  /\ replaced <= Len(newEntries)
  /\ replaced < Len(targets) => Len(newEntries) = replaced /\ next = 1 /\ pending = {}
  /\ \A i \in 1 .. replaced : newEntries[i].name = targets[i].name

\* A range that asked for the entry, and that nothing kept or added before satisfies.
AskedFor(k, r) ==
  /\ newEntries[k].version \in r
  /\ \A j \in 1 .. (k - 1) :
       newEntries[j].name = newEntries[k].name => newEntries[j].version \notin r
  /\ \A e \in lock : e.name = newEntries[k].name => e.version \notin r

EntriesAskedFor ==
  \A k \in DOMAIN newEntries :
    /\ \E r \in newEntries[k].specs : AskedFor(k, r)
    /\ \A r \in newEntries[k].specs : newEntries[k].version \in r
    /\ newEntries[k].dependencies = dependencies[newEntries[k].name][newEntries[k].version]

\* A version of the package in the lockfile in memory or among the new entries.
Present(name, v) ==
  \/ \E e \in lock : e.name = name /\ e.version = v
  \/ \E k \in DOMAIN newEntries : newEntries[k].name = name /\ newEntries[k].version = v

ResolvedIsPresent ==
  /\ \A p \in Packages : \A v \in resolvedVersions[p] : Present(p, v)
  /\ \A e \in lock : e.version \in resolvedVersions[e.name]

Met(d) == (\E v \in d.range : Present(d.name, v)) \/ Candidates(d) = {}

\* Behind the walk every dependency is met, but for the pending ones.
WalkedIsMet ==
  \A k \in 1 .. (next - 1) : \A d \in newEntries[k].dependencies :
    Met(d) \/ (k = next - 1 /\ d \in pending)

EditingInv ==
  /\ file = original
  /\ LockIsRest
  /\ TargetsFirst
  /\ EntriesAskedFor
  /\ ResolvedIsPresent
  /\ WalkedIsMet

SurgeonInv == (pc # "written" => EditingInv) /\ UnrelatedKept /\ DependenciesLocked

-----------------------------------------------------------------------------
\* What a sequence holds after one more element.
LEMMA Appending ==
  ASSUME NEW s \in Seq(Entry), NEW x \in Entry
  PROVE  /\ Append(s, x) \in Seq(Entry)
         /\ Len(Append(s, x)) = Len(s) + 1
         /\ Len(s) \in Nat
         /\ DOMAIN Append(s, x) = 1 .. (Len(s) + 1)
         /\ DOMAIN s = 1 .. Len(s)
         /\ Append(s, x)[Len(s) + 1] = x
         /\ \A i \in 1 .. Len(s) : Append(s, x)[i] = s[i] /\ s[i] \in Entry
  OBVIOUS

\* The entry a target is replaced by.
TargetEntry(t) ==
  [name |-> t.name, version |-> t.version,
   specs |-> {{t.version}} \cup {r \in OldSpecs(t.name) : t.version \in r},
   dependencies |-> dependencies[t.name][t.version]]

\* The entry added for a dependency.
AddedEntry(d, v) ==
  [name |-> d.name, version |-> v, specs |-> {d.range},
   dependencies |-> dependencies[d.name][v]]

\* What the assumptions say of the constants a behaviour has picked.
LEMMA Picked ==
  ASSUME TypeOK
  PROVE  /\ targets \in Seq([name : Packages, version : Versions])
         /\ \A i \in DOMAIN targets :
              targets[i].name \in Packages /\ targets[i].version \in Versions
         /\ \A i, j \in DOMAIN targets : targets[i].name = targets[j].name => i = j
         /\ DOMAIN targets = 1 .. Len(targets) /\ Len(targets) \in Nat
         /\ published \in [Packages -> SUBSET Versions]
         /\ dependencies \in [Packages -> [Versions -> SUBSET Dependency]]
         /\ original \subseteq Entry /\ WrittenByYarn(original)
         /\ Added \subseteq Entry
         /\ DOMAIN newEntries = 1 .. Len(newEntries) /\ Len(newEntries) \in Nat
<1> USE DEF TypeOK
<1>1. targets \in Seq([name : Packages, version : Versions])
  BY SurgeonAssumption
<1>2. \A i \in DOMAIN targets :
        targets[i].name \in Packages /\ targets[i].version \in Versions
  <2> DEFINE T == [name : Packages, version : Versions]
  <2>1. targets \in Seq(T) BY <1>1
  <2> HIDE DEF T
  <2>2. \A i \in DOMAIN targets : targets[i] \in T BY ONLY <2>1
  <2>3. QED BY ONLY <2>2 DEF T
<1>3. \A i, j \in DOMAIN targets : targets[i].name = targets[j].name => i = j
  BY SurgeonAssumption
<1>4. newEntries \in Seq(Entry) OBVIOUS
<1>5. \A k \in DOMAIN newEntries : newEntries[k] \in Entry BY <1>4
<1>6. Added \subseteq Entry BY <1>5 DEF Added
<1>7. published \in [Packages -> SUBSET Versions]
  BY SurgeonAssumption
<1>8. dependencies \in [Packages -> [Versions -> SUBSET Dependency]]
  BY SurgeonAssumption
<1>9. original \subseteq Entry /\ WrittenByYarn(original)
  BY SurgeonAssumption
<1>10. DOMAIN targets = 1 .. Len(targets) /\ Len(targets) \in Nat BY <1>1
<1>11. DOMAIN newEntries = 1 .. Len(newEntries) /\ Len(newEntries) \in Nat BY <1>4
<1>12. QED BY <1>1, <1>2, <1>3, <1>6, <1>7, <1>8, <1>9, <1>10, <1>11

LEMMA TargetEntryType ==
  ASSUME TypeOK, NEW i \in DOMAIN targets
  PROVE  /\ TargetEntry(targets[i]) \in Entry
         /\ targets[i].name \in Packages /\ targets[i].version \in Versions
<1>1. targets[i].name \in Packages /\ targets[i].version \in Versions
  BY Picked
<1>2. \A r \in OldSpecs(targets[i].name) : r \in Ranges
  BY Picked DEF OldSpecs, EntriesOf, Entry
<1>3. {targets[i].version} \in Ranges
  BY <1>1, SurgeonAssumption
<1>4. dependencies[targets[i].name][targets[i].version] \in SUBSET Dependency
  BY <1>1, Picked
<1>5. QED
  BY <1>1, <1>2, <1>3, <1>4 DEF TargetEntry, Entry

LEMMA AddedEntryType ==
  ASSUME TypeOK, NEW d \in Dependency, NEW v \in Candidates(d)
  PROVE  AddedEntry(d, v) \in Entry /\ v \in Versions
<1>1. v \in Versions
  BY SurgeonAssumption DEF TypeOK, Candidates, Dependency
<1>2. dependencies[d.name][v] \in SUBSET Dependency
  BY <1>1, Picked DEF Dependency
<1>3. QED
  BY <1>1, <1>2 DEF AddedEntry, Entry, Dependency

\* The state is well typed.
THEOREM SurgeonTypeCorrect == Spec => []TypeOK
<1>1. Init => TypeOK
  BY SurgeonAssumption DEF Init, TypeOK, EntriesOf, Entry
<1>2. TypeOK /\ [Next]_vars => TypeOK'
  <2> SUFFICES ASSUME TypeOK, [Next]_vars PROVE TypeOK'
    OBVIOUS
  <2>1. CASE ReplaceTarget
    <3>1. replaced + 1 \in DOMAIN targets /\ replaced + 1 \in 0 .. Len(targets)
      BY <2>1, SurgeonAssumption DEF ReplaceTarget, TypeOK
    <3>2. newEntries' = Append(newEntries, TargetEntry(targets[replaced + 1]))
      BY <2>1 DEF ReplaceTarget, TargetEntry, buildLockEntry
    <3>3. newEntries' \in Seq(Entry) /\ Len(newEntries') = Len(newEntries) + 1
          /\ Len(newEntries) \in Nat
      BY <3>1, <3>2, TargetEntryType, Appending DEF TypeOK
    <3>4. next' \in 1 .. (Len(newEntries') + 1)
      BY <2>1, <3>3 DEF ReplaceTarget, TypeOK
    <3>5. resolvedVersions' \in [Packages -> SUBSET Versions]
      BY <2>1, <3>1, TargetEntryType DEF ReplaceTarget, TypeOK
    <3>6. QED BY <2>1, <3>1, <3>3, <3>4, <3>5 DEF ReplaceTarget, TypeOK, registry
  <2>2. CASE TakeItem
    <3>1. newEntries[next] \in Entry /\ next + 1 \in 1 .. (Len(newEntries) + 1)
      BY <2>2 DEF TakeItem, TypeOK
    <3>2. pending' \subseteq Dependency BY <2>2, <3>1 DEF TakeItem, Entry
    <3>3. QED BY <2>2, <3>1, <3>2 DEF TakeItem, TypeOK, registry
  <2>3. ASSUME NEW d \in pending, SkipDependency(d) PROVE TypeOK'
    BY <2>3 DEF SkipDependency, TypeOK, registry
  <2>4. ASSUME NEW d \in pending, AddDependency(d) PROVE TypeOK'
    <3>1. PICK v \in Candidates(d) :
             /\ newEntries' = Append(newEntries, AddedEntry(d, v))
             /\ resolvedVersions' = [resolvedVersions EXCEPT ![d.name] = @ \cup {v}]
      BY <2>4 DEF AddDependency, minSatisfying, AddedEntry, buildLockEntry
    <3>2. d \in Dependency /\ d.name \in Packages BY DEF TypeOK, Dependency
    <3>3. newEntries' \in Seq(Entry) /\ Len(newEntries') = Len(newEntries) + 1
          /\ Len(newEntries) \in Nat
      BY <3>1, <3>2, AddedEntryType, Appending DEF TypeOK
    <3>4. next' \in 1 .. (Len(newEntries') + 1)
      BY <2>4, <3>3 DEF AddDependency, TypeOK
    <3>5. resolvedVersions' \in [Packages -> SUBSET Versions]
      BY <3>1, <3>2, AddedEntryType DEF TypeOK
    <3>6. QED BY <2>4, <3>3, <3>4, <3>5 DEF AddDependency, TypeOK, registry
  <2>5. CASE Fail BY <2>5 DEF Fail, TypeOK, registry
  <2>6. CASE Write
    <3>1. \A e \in Entry : Aliased(e) \in Entry
      <4>1. \A p \in Packages : Declared(p) \subseteq Ranges
        BY Picked DEF TypeOK, Declared, Entry, Dependency
      <4>2. \A p \in Packages : OldSpecs(p) \subseteq Ranges
        BY Picked DEF OldSpecs, EntriesOf, Entry
      <4>3. QED BY <4>1, <4>2 DEF Aliased, Entry
    <3>2. file' \subseteq Entry BY <2>6, <3>1 DEF Write, TypeOK
    <3>3. QED BY <2>6, <3>2 DEF Write, TypeOK, registry
  <2>7. CASE UNCHANGED vars BY <2>7 DEF vars, registry, TypeOK
  <2>8. QED
    BY <2>1, <2>2, <2>3, <2>4, <2>5, <2>6, <2>7 DEF Next, ResolveDependency
<1>3. QED BY <1>1, <1>2, PTL DEF Spec

-----------------------------------------------------------------------------
LEMMA SurgeonInit == Init => SurgeonInv
<1> SUFFICES ASSUME Init PROVE EditingInv /\ UnrelatedKept /\ DependenciesLocked
  BY DEF SurgeonInv
<1>1. DOMAIN newEntries = {} /\ Len(newEntries) = 0 BY DEF Init
<1>2. LockIsRest /\ TargetsFirst
  BY <1>1 DEF Init, LockIsRest, TargetsFirst
<1>3. EntriesAskedFor BY <1>1 DEF EntriesAskedFor
<1>4. ResolvedIsPresent
  BY SurgeonAssumption DEF Init, ResolvedIsPresent, Present, EntriesOf, Entry
<1>5. WalkedIsMet BY DEF Init, WalkedIsMet
<1>6. UnrelatedKept /\ DependenciesLocked
  BY DEF Init, UnrelatedKept, DependenciesLocked
<1>7. QED BY <1>2, <1>3, <1>4, <1>5, <1>6 DEF Init, EditingInv

LEMMA ReplaceTargetStep ==
  ASSUME TypeOK, EditingInv, ReplaceTarget,
         NEW n, n = replaced + 1, NEW t, t = targets[n], NEW x, x = TargetEntry(t)
  PROVE  EditingInv'
<1>0. replaced + 1 \in DOMAIN targets /\ replaced \in Nat /\ replaced < Len(targets)
  BY Picked DEF ReplaceTarget, TypeOK
<1>a. x \in Entry BY <1>0, TargetEntryType
<1>b. newEntries' = Append(newEntries, x) BY DEF ReplaceTarget, TargetEntry, buildLockEntry
<1>c. lock' = lock \ EntriesOf(lock, t.name) BY DEF ReplaceTarget
<1>d. resolvedVersions' = [resolvedVersions EXCEPT ![t.name] = {t.version}]
  BY DEF ReplaceTarget
<1>e. UNCHANGED <<pc, registry, file, next, pending>> /\ replaced' = n
  BY DEF ReplaceTarget
<1>1. /\ n \in DOMAIN targets /\ replaced' = n /\ n \in Nat /\ replaced < Len(targets)
      /\ replaced \in Nat
      /\ x \in Entry
      /\ newEntries' = Append(newEntries, x)
      /\ lock' = lock \ EntriesOf(lock, t.name)
      /\ resolvedVersions' = [resolvedVersions EXCEPT ![t.name] = {t.version}]
      /\ UNCHANGED <<pc, registry, file, next, pending>>
  BY <1>0, <1>a, <1>b, <1>c, <1>d, <1>e
<1>2. /\ x.name = t.name /\ x.version = t.version /\ {t.version} \in x.specs
      /\ \A r \in x.specs : x.version \in r
      /\ x.dependencies = dependencies[x.name][x.version]
  BY DEF TargetEntry
<1>3. t.name \in Packages /\ t.version \in Versions BY <1>1, TargetEntryType
<1>4. Len(newEntries) = replaced /\ next = 1 /\ pending = {}
  BY <1>1 DEF EditingInv, TargetsFirst
<1>5. /\ DOMAIN newEntries = 1 .. replaced /\ DOMAIN newEntries' = 1 .. n
      /\ Len(newEntries') = n
      /\ newEntries'[n] = x
      /\ \A i \in 1 .. replaced : newEntries'[i] = newEntries[i]
      /\ newEntries' \in Seq(Entry)
  BY <1>1, <1>4, Appending DEF TypeOK
<1>6. LockIsRest'
  BY <1>1 DEF EditingInv, LockIsRest, EntriesOf, registry, TypeOK
<1>7. TargetsFirst'
  BY <1>1, <1>2, <1>4, <1>5 DEF EditingInv, TargetsFirst, registry, TypeOK
<1>8. \A i \in 1 .. replaced : newEntries[i].name # t.name
  <2>1. \A i \in 1 .. replaced : newEntries[i].name = targets[i].name
    BY DEF EditingInv, TargetsFirst
  <2>a. DOMAIN targets = 1 .. Len(targets) /\ Len(targets) \in Nat BY Picked
  <2>2. \A i \in 1 .. replaced : i \in DOMAIN targets /\ i # n
    BY ONLY <1>0, <2>a, n = replaced + 1
  <2>3. \A i \in DOMAIN targets : i # n => targets[i].name # t.name
    BY ONLY <1>1, Picked, TypeOK, t = targets[n]
  <2>4. QED BY <2>1, <2>2, <2>3
<1>9. EntriesAskedFor'
  <2>1. AskedFor(n, {t.version})'
    BY <1>1, <1>2, <1>5, <1>8 DEF AskedFor, EntriesOf, registry
  <2>2. ASSUME NEW k \in 1 .. replaced, NEW r, AskedFor(k, r) PROVE AskedFor(k, r)'
    BY <1>1, <1>5, <2>2 DEF AskedFor, EntriesOf, registry, TypeOK
  <2>3. ASSUME NEW k \in 1 .. n
        PROVE  /\ \E r \in newEntries'[k].specs : AskedFor(k, r)'
               /\ \A r \in newEntries'[k].specs : newEntries'[k].version \in r
               /\ newEntries'[k].dependencies
                    = dependencies'[newEntries'[k].name][newEntries'[k].version]
    <3>1. CASE k = n BY <1>1, <1>2, <1>5, <2>1, <3>1 DEF registry
    <3>2. CASE k # n
      <4>1. k \in 1 .. replaced /\ k \in DOMAIN newEntries BY <1>1, <1>5, <3>2 DEF TypeOK
      <4>2. QED BY <1>1, <1>5, <2>2, <4>1 DEF EditingInv, EntriesAskedFor, registry
    <3>3. QED BY <3>1, <3>2
  <2>4. QED BY <1>5, <2>3 DEF EntriesAskedFor
<1>10. ResolvedIsPresent'
  <2>1. Present(t.name, t.version)'
    BY <1>1, <1>2, <1>5 DEF Present
  <2>2. ASSUME NEW p \in Packages, p # t.name, NEW v, Present(p, v)
        PROVE  Present(p, v)'
    BY <1>1, <1>5, <2>2 DEF Present, EntriesOf, TypeOK
  <2>3. \A e \in lock' : e.name # t.name /\ e \in lock /\ e.name \in Packages
    BY <1>1 DEF EntriesOf, TypeOK, Entry
  <2>4. \A p \in Packages :
          resolvedVersions'[p] = IF p = t.name THEN {t.version} ELSE resolvedVersions[p]
    BY <1>1 DEF TypeOK
  <2>5. \A p \in Packages : \A v \in resolvedVersions'[p] : Present(p, v)'
    BY <2>1, <2>2, <2>4 DEF EditingInv, ResolvedIsPresent
  <2>6. \A e \in lock' : e.version \in resolvedVersions'[e.name]
    BY <2>3, <2>4 DEF EditingInv, ResolvedIsPresent
  <2>7. QED BY <2>5, <2>6 DEF ResolvedIsPresent
<1>11. WalkedIsMet' BY <1>1, <1>4 DEF WalkedIsMet
<1>12. file' = original' BY <1>1 DEF EditingInv, registry
<1>13. QED BY <1>6, <1>7, <1>9, <1>10, <1>11, <1>12 DEF EditingInv

LEMMA TakeItemStep ==
  ASSUME TypeOK, EditingInv, TakeItem
  PROVE  EditingInv'
<1>1. /\ UNCHANGED <<pc, targets, published, dependencies, original, file, lock,
                     resolvedVersions, newEntries, replaced>>
      /\ next \in Nat /\ next' = next + 1 /\ pending = {}
      /\ replaced = Len(targets)
      /\ next \in DOMAIN newEntries
  BY Picked DEF TakeItem, Walking, TypeOK, registry
<1>2. LockIsRest' /\ TargetsFirst' /\ EntriesAskedFor' /\ ResolvedIsPresent'
  <2>1. LockIsRest' BY <1>1 DEF EditingInv, LockIsRest
  <2>2. TargetsFirst' BY <1>1 DEF EditingInv, TargetsFirst
  <2>3. EntriesAskedFor' BY <1>1 DEF EditingInv, EntriesAskedFor, AskedFor
  <2>4. ResolvedIsPresent' BY <1>1 DEF EditingInv, ResolvedIsPresent, Present
  <2>5. QED BY <2>1, <2>2, <2>3, <2>4
<1>3. \A d : Met(d) => Met(d)'
  BY <1>1 DEF Met, Present, Candidates
<1>4. \A k \in 1 .. (next - 1) : \A d \in newEntries[k].dependencies : Met(d)
  BY <1>1 DEF EditingInv, WalkedIsMet
<1>5. ASSUME NEW d \in newEntries[next].dependencies PROVE Met(d) \/ d \in pending'
  <2>1. CASE Visited(newEntries[next])
    <3>1. PICK j \in 1 .. (next - 1) :
             /\ newEntries[j].name = newEntries[next].name
             /\ newEntries[j].version = newEntries[next].version
      BY <2>1 DEF Visited
    <3>2. j \in DOMAIN newEntries BY <1>1, <3>1, Picked
    <3>3. newEntries[j].dependencies = newEntries[next].dependencies
      BY <1>1, <3>1, <3>2 DEF EditingInv, EntriesAskedFor
    <3>4. QED BY <1>4, <1>5, <3>3
  <2>2. CASE ~ Visited(newEntries[next])
    BY <1>5, <2>2 DEF TakeItem
  <2>3. QED BY <2>1, <2>2
<1>6. WalkedIsMet'
  <2>1. ASSUME NEW k \in 1 .. next, NEW d \in newEntries[k].dependencies
        PROVE  Met(d)' \/ (k = next /\ d \in pending')
    <3>1. CASE k = next BY <1>3, <1>5, <2>1, <3>1
    <3>2. CASE k # next
      <4>1. k \in 1 .. (next - 1) BY <1>1, <2>1, <3>2
      <4>2. QED BY <1>3, <1>4, <2>1, <4>1
    <3>3. QED BY <3>1, <3>2
  <2>2. next' - 1 = next BY <1>1
  <2>3. QED BY <1>1, <2>1, <2>2 DEF WalkedIsMet
<1>7. QED BY <1>1, <1>2, <1>6 DEF EditingInv

LEMMA SkipDependencyStep ==
  ASSUME TypeOK, EditingInv, Walking, NEW d \in pending, SkipDependency(d)
  PROVE  EditingInv'
<1>1. /\ UNCHANGED <<pc, targets, published, dependencies, original, file, lock,
                     resolvedVersions, newEntries, replaced, next>>
      /\ pending' = pending \ {d} /\ replaced = Len(targets)
      /\ d.name \in Packages
  BY DEF SkipDependency, Walking, registry, TypeOK, Dependency
<1>2. LockIsRest' /\ TargetsFirst' /\ EntriesAskedFor' /\ ResolvedIsPresent'
  <2>1. LockIsRest' BY <1>1 DEF EditingInv, LockIsRest
  <2>2. TargetsFirst' BY <1>1, Picked DEF EditingInv, TargetsFirst
  <2>3. EntriesAskedFor' BY <1>1 DEF EditingInv, EntriesAskedFor, AskedFor
  <2>4. ResolvedIsPresent' BY <1>1 DEF EditingInv, ResolvedIsPresent, Present
  <2>5. QED BY <2>1, <2>2, <2>3, <2>4
<1>3. Met(d)
  <2>1. CASE Candidates(d) = {} BY <2>1 DEF Met
  <2>2. CASE Satisfied(d)
    <3>1. CASE \E v \in resolvedVersions[d.name] : v \in d.range
      BY <1>1, <3>1 DEF EditingInv, ResolvedIsPresent, Met
    <3>2. CASE \E k \in DOMAIN newEntries :
                 newEntries[k].name = d.name /\ newEntries[k].version \in d.range
      BY <3>2 DEF Met, Present
    <3>3. QED BY <2>2, <3>1, <3>2 DEF Satisfied
  <2>3. QED BY <2>1, <2>2 DEF SkipDependency
<1>4. \A e : Met(e) => Met(e)'
  BY <1>1 DEF Met, Present, Candidates
<1>5. WalkedIsMet'
  BY <1>1, <1>3, <1>4 DEF EditingInv, WalkedIsMet
<1>6. QED BY <1>1, <1>2, <1>5 DEF EditingInv

LEMMA AddDependencyStep ==
  ASSUME TypeOK, EditingInv, Walking, NEW d \in pending, AddDependency(d)
  PROVE  EditingInv'
<1>1. PICK v \in Candidates(d) :
         /\ newEntries' = Append(newEntries, AddedEntry(d, v))
         /\ resolvedVersions' = [resolvedVersions EXCEPT ![d.name] = @ \cup {v}]
  BY DEF AddDependency, minSatisfying, AddedEntry, buildLockEntry
<1>2. /\ UNCHANGED <<pc, targets, published, dependencies, original, file, lock,
                     replaced, next>>
      /\ pending' = pending \ {d} /\ replaced = Len(targets)
      /\ ~ Satisfied(d)
  BY DEF AddDependency, Walking, registry
<1>3. d \in Dependency /\ d.name \in Packages BY DEF TypeOK, Dependency
<1>4. PICK x : x = AddedEntry(d, v) OBVIOUS
<1>5. /\ x \in Entry /\ x.name = d.name /\ x.version = v /\ x.specs = {d.range}
      /\ x.dependencies = dependencies[x.name][x.version]
      /\ v \in d.range
  BY <1>1, <1>3, <1>4, AddedEntryType DEF AddedEntry, Candidates
<1>6. PICK n : n = Len(newEntries) + 1 OBVIOUS
<1>7. /\ n \in Nat /\ n - 1 = Len(newEntries) /\ Len(newEntries') = n
      /\ DOMAIN newEntries = 1 .. (n - 1) /\ DOMAIN newEntries' = 1 .. n
      /\ newEntries'[n] = x
      /\ \A i \in 1 .. (n - 1) : newEntries'[i] = newEntries[i]
  BY <1>1, <1>4, <1>5, <1>6, Appending DEF TypeOK
<1>8. LockIsRest' BY <1>2 DEF EditingInv, LockIsRest
<1>9. TargetsFirst'
  BY <1>2, <1>7, Picked DEF EditingInv, TargetsFirst, TypeOK
<1>10. EntriesAskedFor'
  <2>1. \A e \in lock : e.name = d.name => e.version \notin d.range
    BY <1>2 DEF EditingInv, ResolvedIsPresent, Satisfied
  <2>2. \A j \in 1 .. (n - 1) :
          newEntries[j].name = d.name => newEntries[j].version \notin d.range
    BY <1>2, <1>7 DEF Satisfied
  <2>3. AskedFor(n, d.range)'
    BY <1>2, <1>5, <1>7, <2>1, <2>2 DEF AskedFor
  <2>4. ASSUME NEW k \in 1 .. (n - 1), NEW r, AskedFor(k, r) PROVE AskedFor(k, r)'
    <3>1. \A j \in 1 .. (k - 1) : j \in 1 .. (n - 1) BY <1>7
    <3>2. QED BY <1>2, <1>7, <2>4, <3>1 DEF AskedFor
  <2>5. ASSUME NEW k \in 1 .. n
        PROVE  /\ \E r \in newEntries'[k].specs : AskedFor(k, r)'
               /\ \A r \in newEntries'[k].specs : newEntries'[k].version \in r
               /\ newEntries'[k].dependencies
                    = dependencies'[newEntries'[k].name][newEntries'[k].version]
    <3>1. CASE k = n BY <1>2, <1>5, <1>7, <2>3, <3>1
    <3>2. CASE k # n
      <4>1. k \in 1 .. (n - 1) /\ k \in DOMAIN newEntries BY <1>7, <3>2
      <4>2. QED BY <1>2, <1>7, <2>4, <4>1 DEF EditingInv, EntriesAskedFor
    <3>3. QED BY <3>1, <3>2
  <2>6. QED BY <1>7, <2>5 DEF EntriesAskedFor
<1>11. \A p, w : Present(p, w) => Present(p, w)'
  <2>1. \A k \in 1 .. (n - 1) : k \in 1 .. n BY <1>7
  <2>2. QED BY <1>2, <1>7, <2>1 DEF Present
<1>12. Present(d.name, v)'
  <2>1. n \in 1 .. n BY <1>7
  <2>2. QED BY <1>5, <1>7, <2>1 DEF Present
<1>13. ResolvedIsPresent'
  <2>1. \A p \in Packages :
          resolvedVersions'[p] = IF p = d.name THEN resolvedVersions[p] \cup {v}
                                               ELSE resolvedVersions[p]
    BY <1>1 DEF TypeOK
  <2>2. \A e \in lock' : e \in lock /\ e.name \in Packages
    BY <1>2 DEF TypeOK, Entry
  <2>3. ASSUME NEW p \in Packages, NEW w \in resolvedVersions'[p] PROVE Present(p, w)'
    <3>1. w \in resolvedVersions[p] => Present(p, w)' BY <1>11 DEF EditingInv, ResolvedIsPresent
    <3>2. QED BY <1>12, <2>1, <2>3, <3>1
  <2>4. \A e \in lock' : e.version \in resolvedVersions'[e.name]
    BY <2>1, <2>2 DEF EditingInv, ResolvedIsPresent
  <2>5. QED BY <2>3, <2>4 DEF ResolvedIsPresent
<1>14. \A e : Met(e) => Met(e)'
  BY <1>2, <1>11 DEF Met, Candidates
<1>15. Met(d)'
  <2>1. \E w \in d.range : Present(d.name, w)' BY <1>5, <1>12
  <2>2. QED BY <2>1 DEF Met
<1>16. WalkedIsMet'
  <2>1. \A k \in 1 .. (next - 1) : newEntries'[k] = newEntries[k]
    BY <1>7 DEF TypeOK
  <2>2. QED BY <1>2, <1>14, <1>15, <2>1 DEF EditingInv, WalkedIsMet
<1>17. QED BY <1>2, <1>8, <1>9, <1>10, <1>13, <1>16 DEF EditingInv

\* What is left of the lockfile and every new entry have keys of their own, so that
\* nothing is overwritten when the entries are written.
LEMMA NothingOverwritten ==
  ASSUME TypeOK, EditingInv
  PROVE  /\ \A e \in lock : \A k \in DOMAIN newEntries : ~ SameKey(e, Aliased(newEntries[k]))
         /\ \A i, j \in DOMAIN newEntries :
              i < j => ~ SameKey(Aliased(newEntries[i]), Aliased(newEntries[j]))
<1>1. ASSUME NEW k \in DOMAIN newEntries
      PROVE  /\ \A r \in Aliased(newEntries[k]).specs : newEntries[k].version \in r
             /\ \E r \in Aliased(newEntries[k]).specs : AskedFor(k, r)
             /\ Aliased(newEntries[k]).name = newEntries[k].name
  BY <1>1 DEF EditingInv, EntriesAskedFor, Aliased
<1>2. ASSUME NEW e \in lock, NEW k \in DOMAIN newEntries,
             SameKey(e, Aliased(newEntries[k]))
      PROVE  FALSE
  <2>1. PICK r \in Aliased(newEntries[k]).specs : AskedFor(k, r) BY <1>1, <1>2
  <2>2. r \in e.specs /\ e.name = newEntries[k].name BY <1>1, <1>2, <2>1 DEF SameKey
  <2>3. e.version \in r
    BY <1>2, <2>2, Picked DEF EditingInv, LockIsRest, WrittenByYarn
  <2>4. QED BY <1>2, <2>1, <2>2, <2>3 DEF AskedFor
<1>3. ASSUME NEW i \in DOMAIN newEntries, NEW j \in DOMAIN newEntries, i < j,
             SameKey(Aliased(newEntries[i]), Aliased(newEntries[j]))
      PROVE  FALSE
  <2>1. PICK r \in Aliased(newEntries[j]).specs : AskedFor(j, r) BY <1>1, <1>3
  <2>2. newEntries[i].name = newEntries[j].name /\ r \in Aliased(newEntries[i]).specs
    BY <1>1, <1>3, <2>1 DEF SameKey
  <2>3. newEntries[i].version \in r BY <1>1, <1>3, <2>2
  <2>4. i \in 1 .. (j - 1) BY <1>3, Picked
  <2>5. QED BY <2>1, <2>2, <2>3, <2>4 DEF AskedFor
<1>4. QED BY <1>2, <1>3

LEMMA WriteStep ==
  ASSUME TypeOK, EditingInv, Write
  PROVE  UnrelatedKept' /\ DependenciesLocked'
<1>1. /\ UNCHANGED <<targets, published, dependencies, original, newEntries>>
      /\ pc' = "written" /\ replaced = Len(targets)
      /\ pending = {} /\ next > Len(newEntries)
  BY DEF Write, Walking, registry
<1>2. /\ \A e \in lock : e \in file'
      /\ \A k \in DOMAIN newEntries : Aliased(newEntries[k]) \in file'
  BY NothingOverwritten DEF Write
<1>3. UnrelatedKept'
  <2>1. ASSUME NEW e \in original, e.name \notin TargetNames PROVE e \in file'
    <3>1. \A i \in 1 .. replaced : e.name # targets[i].name
      BY <1>1, <2>1, Picked DEF TargetNames
    <3>2. QED BY <1>2, <2>1, <3>1 DEF EditingInv, LockIsRest
  <2>2. TargetNames' = TargetNames BY <1>1 DEF TargetNames
  <2>3. QED BY <1>1, <2>1, <2>2 DEF UnrelatedKept
<1>4. DependenciesLocked'
  <2>1. ASSUME NEW k \in DOMAIN newEntries, NEW d \in newEntries[k].dependencies
        PROVE  Locked(d)' \/ Candidates(d) = {}
    <3>1. k \in 1 .. (next - 1) BY <1>1, <2>1, Picked DEF TypeOK
    <3>2. Met(d) BY <1>1, <2>1, <3>1 DEF EditingInv, WalkedIsMet
    <3>3. ASSUME NEW v \in d.range, Present(d.name, v) PROVE Locked(d)'
      <4>1. \A i \in DOMAIN newEntries :
              /\ Aliased(newEntries[i]).name = newEntries[i].name
              /\ Aliased(newEntries[i]).version = newEntries[i].version
        BY DEF Aliased
      <4>2. \E e \in file' : e.name = d.name /\ e.version = v
        BY <1>2, <3>3, <4>1 DEF Present
      <4>3. QED BY <3>3, <4>2 DEF Locked, EntriesOf
    <3>4. QED BY <3>2, <3>3 DEF Met
  <2>2. Added' = Added /\ \A d : Candidates(d)' = Candidates(d)
    BY <1>1 DEF Added, Candidates
  <2>3. \A e \in Added : \A d \in e.dependencies : Locked(d)' \/ Candidates(d) = {}
    BY <2>1 DEF Added
  <2>4. QED BY <2>2, <2>3 DEF DependenciesLocked
<1>5. QED BY <1>3, <1>4

LEMMA SurgeonStep == TypeOK /\ SurgeonInv /\ [Next]_vars => SurgeonInv'
<1> SUFFICES ASSUME TypeOK, SurgeonInv, [Next]_vars PROVE SurgeonInv'
  OBVIOUS
<1>1. ASSUME EditingInv', pc # "written", UNCHANGED <<pc, targets, original, file>>
      PROVE  SurgeonInv'
  <2>1. TargetNames' = TargetNames BY <1>1 DEF TargetNames
  <2>2. QED BY <1>1, <2>1 DEF SurgeonInv, UnrelatedKept, DependenciesLocked
<1>2. CASE ReplaceTarget
  BY <1>1, <1>2, ReplaceTargetStep DEF ReplaceTarget, SurgeonInv, registry
<1>3. CASE TakeItem
  BY <1>1, <1>3, TakeItemStep DEF TakeItem, Walking, SurgeonInv, registry
<1>4. ASSUME NEW d \in pending, Walking, SkipDependency(d) PROVE SurgeonInv'
  BY <1>1, <1>4, SkipDependencyStep DEF SkipDependency, Walking, SurgeonInv, registry
<1>5. ASSUME NEW d \in pending, Walking, AddDependency(d) PROVE SurgeonInv'
  BY <1>1, <1>5, AddDependencyStep DEF AddDependency, Walking, SurgeonInv, registry
<1>6. ASSUME UNCHANGED <<registry, file, lock, resolvedVersions, newEntries, replaced,
                         next, pending>>, EditingInv
      PROVE  EditingInv' /\ TargetNames' = TargetNames
  <2>1. TargetNames' = TargetNames BY <1>6 DEF TargetNames, registry
  <2>2. LockIsRest' BY <1>6 DEF EditingInv, LockIsRest, registry
  <2>3. TargetsFirst' BY <1>6 DEF EditingInv, TargetsFirst, registry
  <2>4. EntriesAskedFor' BY <1>6 DEF EditingInv, EntriesAskedFor, AskedFor, registry
  <2>5. ResolvedIsPresent' BY <1>6 DEF EditingInv, ResolvedIsPresent, Present
  <2>6. WalkedIsMet' BY <1>6 DEF EditingInv, WalkedIsMet, Met, Present, Candidates, registry
  <2>7. QED BY <1>6, <2>1, <2>2, <2>3, <2>4, <2>5, <2>6 DEF EditingInv, registry
<1>7. CASE Fail
  <2>1. pc # "written" /\ pc' = "failed" BY <1>7 DEF Fail, Walking
  <2>2. EditingInv' /\ TargetNames' = TargetNames
    BY <1>6, <1>7, <2>1 DEF Fail, SurgeonInv
  <2>3. QED
    BY <1>7, <2>1, <2>2 DEF Fail, SurgeonInv, UnrelatedKept, DependenciesLocked, registry
<1>8. CASE Write
  BY <1>8, WriteStep DEF Write, Walking, SurgeonInv
<1>9. CASE UNCHANGED vars
  <2>1. pc # "written" => EditingInv' BY <1>6, <1>9 DEF vars, SurgeonInv
  <2>2. UnrelatedKept'
    BY <1>9 DEF vars, registry, SurgeonInv, UnrelatedKept, TargetNames
  <2>3. DependenciesLocked'
    BY <1>9 DEF vars, registry, SurgeonInv, DependenciesLocked, Added, Locked,
                EntriesOf, Candidates
  <2>4. QED BY <1>9, <2>1, <2>2, <2>3 DEF vars, SurgeonInv
<1>10. QED
  BY <1>2, <1>3, <1>4, <1>5, <1>7, <1>8, <1>9 DEF Next, ResolveDependency

\* For every lockfile yarn has written: the entries of the packages that are not
\* bumped are still there under their keys, and a run that fails leaves the file.
THEOREM UnrelatedEntriesKept == Spec => []UnrelatedKept
<1>1. SurgeonInv => UnrelatedKept BY DEF SurgeonInv
<1>2. QED BY <1>1, SurgeonInit, SurgeonStep, SurgeonTypeCorrect, PTL DEF Spec

\* For every registry: what the new entries depend on, however deep, is locked, but
\* for ranges nothing published satisfies.
THEOREM EveryDependencyLocked == Spec => []DependenciesLocked
<1>1. SurgeonInv => DependenciesLocked BY DEF SurgeonInv
<1>2. QED BY <1>1, SurgeonInit, SurgeonStep, SurgeonTypeCorrect, PTL DEF Spec
=============================================================================
