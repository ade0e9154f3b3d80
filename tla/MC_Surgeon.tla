----------------------------- MODULE MC_Surgeon -----------------------------
(* A package "top" to be bumped, that depends on "dep" and "leaf", which may   *)
(* depend on each other and on "top".  Versions 1 and 2 are of one major, 3 of *)
(* the next.                                                                   *)
EXTENDS LockfileSurgeon

MCPackages == {"top", "dep", "leaf"}
MCVersions == 1 .. 3
caret1 == {1, 2}
caret2 == {2}
caret3 == {3}
atLeast2 == {2, 3}
MCRanges == {{1}, caret1, caret2, caret3, atLeast2}

Optional(name, rs) == {{}} \cup {{[name |-> name, range |-> r]} : r \in rs}

\* Version 1 of "top" depends on "dep" only, as in the lockfiles below.
MCDependencyMaps ==
  {[p \in MCPackages |->
      [v \in MCVersions |->
         CASE p = "top" -> IF v = 1 THEN {[name |-> "dep", range |-> caret1]} ELSE a \cup b
           [] p = "dep" -> IF v = 1 THEN {} ELSE c
           [] p = "leaf" -> IF v = 1 THEN {} ELSE d]] :
     a \in Optional("dep", {caret1, caret2, atLeast2}),
     b \in Optional("leaf", {caret1, caret3}),
     c \in Optional("leaf", {caret2, atLeast2}),
     d \in Optional("dep", {caret1, caret3}) \cup Optional("top", {caret1})}

MCPublishedSets ==
  {[p \in MCPackages |-> IF p = "dep" THEN s ELSE MCVersions] : s \in {{1, 2, 3}, {1, 3}}}

TopEntry == [name |-> "top", version |-> 1, specs |-> {caret1},
             dependencies |-> {[name |-> "dep", range |-> caret1]}]
PatchEntry == [name |-> "top", version |-> 1, specs |-> {}, dependencies |-> {}]
DepEntry(v, rs) == [name |-> "dep", version |-> v, specs |-> rs, dependencies |-> {}]
LeafEntry == [name |-> "leaf", version |-> 1, specs |-> {caret1}, dependencies |-> {}]

MCLockfiles ==
  {{TopEntry} \cup a \cup b \cup c :
     a \in {{}, {PatchEntry}},
     b \in {{DepEntry(1, {caret1})}, {DepEntry(2, {caret1})}, {DepEntry(2, {caret1, caret2})},
            {DepEntry(1, {caret1}), DepEntry(3, {atLeast2})}},
     c \in {{}, {LeafEntry}}}

MCTargetLists ==
  LET At(p, v) == [name |-> p, version |-> v]
  IN {<<At("top", 2)>>, <<At("top", 3)>>, <<At("top", 2), At("dep", 2)>>,
      <<At("leaf", 2), At("top", 3)>>}
=============================================================================
