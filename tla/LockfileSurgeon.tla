-------------------------- MODULE LockfileSurgeon --------------------------
(***************************************************************************)
(* scripts/yarn-lockfile-surgeon/lib.ts, bumpLockfile: replaces packages   *)
(* in a yarn.lock, adds the lowest version for every dependency range that *)
(* is then unsatisfied, and writes the file.                               *)
(*                                                                         *)
(* A range is the set of versions that satisfy it; a version is a number.  *)
(* A lockfile is a set of entries; an entry's key is its name with specs,  *)
(* the ranges of its npm: descriptors (none for a patch: or workspace:     *)
(* entry).  Dependency ranges of other protocols are left out.             *)
(***************************************************************************)
EXTENDS Naturals, Sequences

CONSTANTS
  Packages,
  Versions,
  Ranges,
  Lockfiles,       \* the lockfiles that may be edited
  TargetLists,     \* the lists of package@version given on the command line
  PublishedSets,   \* what the registry may have published, per package
  DependencyMaps   \* the dependencies published versions may declare

Dependency == [name : Packages, range : Ranges]

Entry == [name : Packages, version : Versions, specs : SUBSET Ranges,
          dependencies : SUBSET Dependency]

\* Yarn writes an entry under ranges its version satisfies.
WrittenByYarn(lockfile) == \A e \in lockfile : \A r \in e.specs : e.version \in r

ASSUME SurgeonAssumption ==
  /\ Versions \subseteq Nat
  /\ Ranges \subseteq SUBSET Versions
  /\ \A v \in Versions : {v} \in Ranges
  /\ \A l \in Lockfiles : l \subseteq Entry /\ WrittenByYarn(l)
  /\ TargetLists \subseteq Seq([name : Packages, version : Versions])
  /\ \A t \in TargetLists : \A i, j \in DOMAIN t : t[i].name = t[j].name => i = j
  /\ PublishedSets \subseteq [Packages -> SUBSET Versions]
  /\ DependencyMaps \subseteq [Packages -> [Versions -> SUBSET Dependency]]

VARIABLES
  pc,                \* "editing", "written" or "failed"
  targets,           \* the command line
  published,         \* the registry: the versions of each package
  dependencies,      \* the registry: what each version depends on
  original,          \* the lockfile as it was read; keysByPkg is of this one
  file,              \* the lockfile on disk
  lock,              \* the parsed lockfile, edited in memory
  resolvedVersions,  \* versions of a package in the lockfile or being added
  newEntries,        \* the entries to add; the queue is its tail from next on
  replaced,          \* targets handled so far
  next,              \* the next entry of the walk
  pending            \* dependencies of the entry walked that are still to do

registry == <<targets, published, dependencies, original>>
vars == <<pc, registry, file, lock, resolvedVersions, newEntries, replaced, next, pending>>

EntriesOf(lockfile, name) == {e \in lockfile : e.name = name}

\* extractSpecs over the keys the package had in the file.
OldSpecs(name) == UNION {e.specs : e \in EntriesOf(original, name)}

Walking == pc = "editing" /\ replaced = Len(targets)

-----------------------------------------------------------------------------
Init ==
  /\ pc = "editing"
  /\ targets \in TargetLists
  /\ published \in PublishedSets
  /\ dependencies \in DependencyMaps
  /\ original \in Lockfiles
  /\ file = original
  /\ lock = original
  /\ resolvedVersions = [p \in Packages |-> {e.version : e \in EntriesOf(original, p)}]
  /\ newEntries = <<>>
  /\ replaced = 0
  /\ next = 1
  /\ pending = {}

\* An entry for a version, from what the registry has of it.
buildLockEntry(name, version, specs) ==
  [name |-> name, version |-> version, specs |-> specs,
   dependencies |-> dependencies[name][version]]

\* Broken: the versions of the entries that go are still taken for resolved.
ReplaceTarget_Stale ==
  /\ pc = "editing" /\ replaced < Len(targets)
  /\ LET t == targets[replaced + 1]
     IN /\ t.version \in published[t.name]
        /\ lock' = lock \ EntriesOf(lock, t.name)
        /\ newEntries' = Append(newEntries,
             buildLockEntry(t.name, t.version,
               {{t.version}} \cup {r \in OldSpecs(t.name) : t.version \in r}))
        /\ resolvedVersions' = [resolvedVersions EXCEPT ![t.name] = @ \cup {t.version}]
  /\ replaced' = replaced + 1
  /\ UNCHANGED <<pc, registry, file, next, pending>>

\* Phase 1: every entry of the package goes, and one for the target is to come.
ReplaceTarget ==
  /\ pc = "editing" /\ replaced < Len(targets)
  /\ LET t == targets[replaced + 1]
     IN /\ t.version \in published[t.name]
        /\ lock' = lock \ EntriesOf(lock, t.name)
        /\ newEntries' = Append(newEntries,
             buildLockEntry(t.name, t.version,
               {{t.version}} \cup {r \in OldSpecs(t.name) : t.version \in r}))
        /\ resolvedVersions' = [resolvedVersions EXCEPT ![t.name] = {t.version}]
  /\ replaced' = replaced + 1
  /\ UNCHANGED <<pc, registry, file, next, pending>>

Visited(item) ==
  \E k \in 1 .. (next - 1) :
    newEntries[k].name = item.name /\ newEntries[k].version = item.version

\* Broken: the entry walked stays at the head of the queue.
TakeItem_NoShift ==
  /\ Walking /\ pending = {} /\ next <= Len(newEntries)
  /\ pending' = newEntries[next].dependencies
  /\ UNCHANGED <<pc, registry, file, lock, resolvedVersions, newEntries, replaced, next>>

\* Phase 2: the next entry of the queue.
TakeItem ==
  /\ Walking /\ pending = {} /\ next <= Len(newEntries)
  /\ pending' = IF Visited(newEntries[next]) THEN {} ELSE newEntries[next].dependencies
  /\ next' = next + 1
  /\ UNCHANGED <<pc, registry, file, lock, resolvedVersions, newEntries, replaced>>

\* Broken: only the added entries are looked through, not the lockfile's.
SatisfiedByNew(d) ==
  \E k \in DOMAIN newEntries :
    newEntries[k].name = d.name /\ newEntries[k].version \in d.range

\* A version in the lockfile, or one being added, satisfies the range.
Satisfied(d) ==
  \/ \E v \in resolvedVersions[d.name] : v \in d.range
  \/ \E k \in DOMAIN newEntries :
       newEntries[k].name = d.name /\ newEntries[k].version \in d.range

Candidates(d) == published[d.name] \cap d.range

\* Nothing to add: the range is satisfied, or no version of the package satisfies it.
SkipDependency(d) ==
  /\ Satisfied(d) \/ Candidates(d) = {}
  /\ pending' = pending \ {d}
  /\ UNCHANGED <<pc, registry, file, lock, resolvedVersions, newEntries, replaced, next>>

minSatisfying(d) == {v \in Candidates(d) : \A w \in Candidates(d) : v <= w}

\* The lowest version that satisfies the range is added and queued.
AddDependency(d) ==
  /\ ~ Satisfied(d)
  /\ \E v \in minSatisfying(d) :
       /\ newEntries' = Append(newEntries, buildLockEntry(d.name, v, {d.range}))
       /\ resolvedVersions' = [resolvedVersions EXCEPT ![d.name] = @ \cup {v}]
  /\ pending' = pending \ {d}
  /\ UNCHANGED <<pc, registry, file, lock, replaced, next>>

ResolveDependency == Walking /\ \E d \in pending : SkipDependency(d) \/ AddDependency(d)

\* fetchVersion or fetchAllVersions rejects: the program ends, before any write.
Fail ==
  /\ \/ pc = "editing" /\ replaced < Len(targets)
     \/ Walking /\ \E d \in pending : ~ Satisfied(d)
  /\ pc' = "failed"
  /\ UNCHANGED <<registry, file, lock, resolvedVersions, newEntries, replaced, next, pending>>

-----------------------------------------------------------------------------
Added == {newEntries[k] : k \in DOMAIN newEntries}

\* Every range the lockfile or a new entry declares for the package.
Declared(name) ==
  {d.range : d \in {x \in UNION {e.dependencies : e \in lock \cup Added} : x.name = name}}

\* Phase 3: an entry takes every such range, and every range the package had a
\* descriptor for, that its version satisfies.
Aliased(e) ==
  [name |-> e.name, version |-> e.version,
   specs |-> e.specs \cup {r \in Declared(e.name) \cup OldSpecs(e.name) : e.version \in r},
   dependencies |-> e.dependencies]

SameKey(e, f) == e.name = f.name /\ e.specs = f.specs

\* Phases 3 to 5: an entry written later replaces one of the same key.
Write ==
  /\ Walking /\ pending = {} /\ next > Len(newEntries)
  /\ file' = {e \in lock : \A k \in DOMAIN newEntries : ~ SameKey(e, Aliased(newEntries[k]))}
             \cup {Aliased(newEntries[k]) : k \in
                     {i \in DOMAIN newEntries : \A j \in DOMAIN newEntries :
                        i < j => ~ SameKey(Aliased(newEntries[i]), Aliased(newEntries[j]))}}
  /\ lock' = file'
  /\ pc' = "written"
  /\ UNCHANGED <<registry, resolvedVersions, newEntries, replaced, next, pending>>

Next == ReplaceTarget \/ TakeItem \/ ResolveDependency \/ Fail \/ Write

Spec == Init /\ [][Next]_vars

\* A call of the registry is answered or rejects.
FairSpec == Spec /\ WF_vars(Next)

-----------------------------------------------------------------------------
TypeOK ==
  /\ pc \in {"editing", "written", "failed"}
  /\ targets \in TargetLists
  /\ published \in PublishedSets
  /\ dependencies \in DependencyMaps
  /\ original \in Lockfiles
  /\ file \subseteq Entry /\ lock \subseteq Entry
  /\ resolvedVersions \in [Packages -> SUBSET Versions]
  /\ newEntries \in Seq(Entry)
  /\ replaced \in 0 .. Len(targets)
  /\ next \in 1 .. (Len(newEntries) + 1)
  /\ pending \subseteq Dependency

TargetNames == {targets[i].name : i \in DOMAIN targets}

Locked(d) == \E e \in EntriesOf(file, d.name) : e.version \in d.range

\* "Walks transitive dependencies to catch cascading range bumps" (README): in the
\* file written, every range that a new entry declares, however deep, is satisfied by
\* an entry, unless nothing published satisfies it.
DependenciesLocked ==
  pc = "written" =>
    \A e \in Added : \A d \in e.dependencies : Locked(d) \/ Candidates(d) = {}

\* Entries of the other packages stay as they are, under the key they had; a run that
\* fails leaves the file as it was.
UnrelatedKept ==
  /\ pc # "written" => file = original
  /\ \A e \in original : e.name \notin TargetNames => e \in file

\* The walk ends, dependency cycles included.
Ends == <>(pc \in {"written", "failed"})
=============================================================================
