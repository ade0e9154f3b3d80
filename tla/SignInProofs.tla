---------------------------- MODULE SignInProofs ----------------------------
(***************************************************************************)
(* The walk and the sign-in that drives it.                                *)
(*                                                                         *)
(* The walk, for every hierarchy of groups and every change of the catalog *)
(* meanwhile: no ownership reference is missing and none is invented.      *)
(* The argument: what the frames have found is what has been processed,    *)
(* and the parents of a processed group are processed or still pending in  *)
(* some frame, however deep the recursion stands.                          *)
(*                                                                         *)
(* A sign-in implements that walk, so that what is proved of the walk      *)
(* holds of every sign-in; and a token is for the user the identity        *)
(* provider vouched for, for every deployment, every list of resolvers and *)
(* every change of the catalog meanwhile.                                  *)
(***************************************************************************)
EXTENDS SignIn, SequenceTheorems, TLAPS

-----------------------------------------------------------------------------
(* The walk of GroupOwnership. *)

Pending == {g \in Groups : \E i \in 1 .. Len(frames) : g \in frames[i].pending}
Found == {g \in Groups : \E i \in 1 .. Len(frames) : g \in frames[i].found}

\* S holds the user's groups and what its members had as parents at some time.
Closed(S) ==
  /\ membershipRefs(memberOf) \subseteq S
  /\ \A g \in S : ever[g] \subseteq S

\* The history brackets the catalog.
HistoryOK ==
  \A g \in Groups :
    /\ always[g] \subseteq ParentsOf(catalog, g)
    /\ ParentsOf(catalog, g) \subseteq ever[g]

\* The walk so far.
WalkOK ==
  /\ Len(frames) \in Nat \ {0}
  /\ outcome # "idle" => user \in Users
  /\ Found = processedGroups
  /\ awaiting # None =>
       awaiting \in processedGroups /\ outcome = "resolving" /\ transitive
  /\ membershipRefs(memberOf) \subseteq processedGroups \cup Pending
  /\ outcome # "failed" =>
       \A g \in processedGroups \ {awaiting} :
         always[g] \subseteq processedGroups \cup Pending
  /\ \A S \in SUBSET Groups : Closed(S) => processedGroups \cup Pending \subseteq S

\* What a resolved sign-in has answered.
AnswerOK ==
  outcome = "resolved" =>
    IF transitive THEN /\ Pending = {}
                       /\ awaiting = None
                       /\ ownershipEntityRefs = {user} \cup processedGroups
                  ELSE ownershipEntityRefs = {user} \cup membershipRefs(memberOf)

OwnershipInv == OwnershipTypeOK /\ HistoryOK /\ WalkOK /\ AnswerOK

-----------------------------------------------------------------------------
LEMMA FramesTyped ==
  ASSUME OwnershipInv, NEW i \in 1 .. Len(frames)
  PROVE  /\ frames[i].pending \in SUBSET Groups
         /\ frames[i].found \in SUBSET Groups
         /\ frames[i] \in Frame
<1>1. frames[i] \in Frame
  BY ElementOfSeq DEF OwnershipInv, OwnershipTypeOK
<1> QED
  BY <1>1 DEF Frame

\* The outermost frame of a walk over some memberships, before its first request.
LEMMA OutermostEffect ==
  ASSUME NEW refs, frames = Outermost(refs)
  PROVE  /\ frames \in Seq(Frame) /\ Len(frames) = 1
         /\ Pending = membershipRefs(refs) /\ Found = {}
<1>1. /\ frames = <<[pending |-> membershipRefs(refs), found |-> {}]>>
      /\ [pending |-> membershipRefs(refs), found |-> {}] \in Frame
  BY DEF Outermost, Frame, membershipRefs
<1>2. /\ frames \in Seq(Frame) /\ Len(frames) = 1
      /\ frames[1] = [pending |-> membershipRefs(refs), found |-> {}]
  BY <1>1
<1>3. Pending = membershipRefs(refs) /\ Found = {}
  BY <1>2 DEF Pending, Found, membershipRefs
<1> QED
  BY <1>2, <1>3

\* As a walk begins, and before the first one.
Fresh ==
  /\ frames = Outermost(memberOf)
  /\ processedGroups = {} /\ awaiting = None
  /\ outcome # "resolved"
  /\ outcome # "idle" => user \in Users

LEMMA WalkBegins == Fresh => WalkOK /\ AnswerOK
<1> SUFFICES ASSUME Fresh PROVE WalkOK /\ AnswerOK
  OBVIOUS
<1> USE DEF Fresh
<1>1. /\ Len(frames) = 1
      /\ Pending = membershipRefs(memberOf) /\ Found = {}
  BY OutermostEffect
<1> QED
  BY <1>1 DEF WalkOK, AnswerOK, Closed

\* The history starts with the catalog as it is.
LEMMA HistoryBegins ==
  ASSUME OwnershipTypeOK
  PROVE  /\ AllParents \in [Groups -> SUBSET Groups]
         /\ \A g \in Groups : AllParents[g] = ParentsOf(catalog, g)
BY OwnershipAssumption DEF OwnershipTypeOK, AllParents, ParentsOf

LEMMA OwnershipInit == Init => OwnershipInv
<1> SUFFICES ASSUME Init PROVE OwnershipInv
  OBVIOUS
<1>1. frames \in Seq(Frame)
  BY OutermostEffect DEF Init
<1>2. AllParents \in [Groups -> SUBSET Groups]
  BY OwnershipAssumption DEF Init, AllParents, ParentsOf
<1>3. OwnershipTypeOK
  BY <1>1, <1>2, OwnershipAssumption DEF Init, OwnershipTypeOK
<1>4. HistoryOK
  BY <1>3, HistoryBegins DEF Init, HistoryOK
<1>5. WalkOK /\ AnswerOK
  BY WalkBegins DEF Init, Fresh
<1> QED
  BY <1>3, <1>4, <1>5 DEF OwnershipInv

\* How a step changes what is pending and found.
LEMMA SkipEffect ==
  ASSUME OwnershipInv, NEW g \in Groups, SkipGroup(g)
  PROVE  /\ frames' \in Seq(Frame) /\ Len(frames') = Len(frames)
         /\ Pending' \subseteq Pending /\ Pending \subseteq Pending' \cup {g}
         /\ Found' = Found
<1> DEFINE d == Len(frames)
           new == [frames[d] EXCEPT !.pending = @ \ {g}]
<1>1. /\ d \in Nat \ {0}
      /\ frames \in Seq(Frame)
      /\ frames' = [frames EXCEPT ![d] = new]
  BY DEF SkipGroup, Depth, OwnershipInv, OwnershipTypeOK, WalkOK
<1>2. /\ new \in Frame
      /\ new.pending = frames[d].pending \ {g}
      /\ new.found = frames[d].found
  BY <1>1, FramesTyped DEF Frame
<1> HIDE DEF new
<1>3. /\ frames' \in Seq(Frame)
      /\ Len(frames') = d
      /\ \A i \in 1 .. d : frames'[i] = IF i = d THEN new ELSE frames[i]
  BY <1>1, <1>2, ExceptSeq
<1>4. \A i \in 1 .. d :
        /\ frames'[i].found = frames[i].found
        /\ frames'[i].pending \subseteq frames[i].pending
        /\ frames[i].pending \subseteq frames'[i].pending \cup {g}
  BY <1>2, <1>3
<1> QED
  BY <1>3, <1>4 DEF Pending, Found

LEMMA RequestEffect ==
  ASSUME OwnershipInv, NEW g \in Groups, RequestGroup(g)
  PROVE  /\ frames' \in Seq(Frame) /\ Len(frames') = Len(frames)
         /\ Pending' \subseteq Pending /\ Pending \subseteq Pending' \cup {g}
         /\ Found' = Found \cup {g}
         /\ g \in Pending
<1> DEFINE d == Len(frames)
           new == [pending |-> frames[d].pending \ {g}, found |-> frames[d].found \cup {g}]
<1>1. /\ d \in Nat \ {0}
      /\ frames \in Seq(Frame)
      /\ g \in frames[d].pending
      /\ frames' = [frames EXCEPT ![d] = new]
  BY DEF RequestGroup, Depth, Top, OwnershipInv, OwnershipTypeOK, WalkOK
<1>2. /\ new \in Frame
      /\ new.pending = frames[d].pending \ {g}
      /\ new.found = frames[d].found \cup {g}
  BY <1>1, FramesTyped DEF Frame
<1> HIDE DEF new
<1>3. /\ frames' \in Seq(Frame)
      /\ Len(frames') = d
      /\ \A i \in 1 .. d : frames'[i] = IF i = d THEN new ELSE frames[i]
  BY <1>1, <1>2, ExceptSeq
<1>4. \A i \in 1 .. d :
        /\ frames'[i].found = frames[i].found \cup (IF i = d THEN {g} ELSE {})
        /\ frames'[i].pending \subseteq frames[i].pending
        /\ frames[i].pending \subseteq frames'[i].pending \cup {g}
  BY <1>2, <1>3
<1>5. Found' = Found \cup {g}
  <2>1. \A h \in Groups :
          (\E i \in 1 .. d : h \in frames'[i].found)
            <=> h = g \/ \E i \in 1 .. d : h \in frames[i].found
    BY <1>1, <1>4
  <2> QED
    BY <1>3, <2>1 DEF Found
<1>6. Pending' \subseteq Pending /\ Pending \subseteq Pending' \cup {g}
  BY <1>3, <1>4 DEF Pending
<1>7. g \in Pending
  BY <1>1 DEF Pending
<1> QED
  BY <1>3, <1>5, <1>6, <1>7

LEMMA ReceiveEffect ==
  ASSUME OwnershipInv, ReceiveGroup
  PROVE  /\ frames' \in Seq(Frame) /\ Len(frames') \in Nat \ {0}
         /\ Pending' = Pending \cup ParentsOf(catalog, awaiting)
         /\ Found' = Found
<1>1. awaiting \in Groups /\ frames \in Seq(Frame) /\ Len(frames) \in Nat \ {0}
  BY DEF ReceiveGroup, OwnershipInv, OwnershipTypeOK, WalkOK
<1>2. CASE catalog[awaiting] = NotAGroup
  BY <1>1, <1>2 DEF ReceiveGroup, ParentsOf, Pending, Found
<1>3. CASE catalog[awaiting] # NotAGroup
  <2> DEFINE inner == [pending |-> catalog[awaiting], found |-> {}]
  <2>1. inner \in Frame /\ frames' = Append(frames, inner)
    BY <1>1, <1>3 DEF ReceiveGroup, OwnershipInv, OwnershipTypeOK, Frame
  <2>2. /\ frames' \in Seq(Frame)
        /\ Len(frames') = Len(frames) + 1
        /\ frames'[Len(frames) + 1] = inner
        /\ \A i \in 1 .. Len(frames) : frames'[i] = frames[i]
    BY <1>1, <2>1, AppendProperties
  <2>3. catalog[awaiting] \in SUBSET Groups
    BY <1>1, <1>3 DEF OwnershipInv, OwnershipTypeOK
  <2> QED
    BY <1>1, <1>3, <2>2, <2>3 DEF Pending, Found, ParentsOf
<1> QED
  BY <1>2, <1>3

LEMMA ReturnEffect ==
  ASSUME OwnershipInv, ReturnInner
  PROVE  /\ frames' \in Seq(Frame) /\ Len(frames') \in Nat \ {0}
         /\ Pending' = Pending
         /\ Found' = Found
<1> DEFINE d == Len(frames)
<1>1. /\ d \in Nat /\ d > 1
      /\ frames \in Seq(Frame)
      /\ frames[d].pending = {}
      /\ frames' = [i \in 1 .. d - 1 |->
                      IF i = d - 1
                        THEN [frames[i] EXCEPT !.found = @ \cup frames[d].found]
                        ELSE frames[i]]
  BY DEF ReturnInner, Depth, Top, OwnershipInv, OwnershipTypeOK, WalkOK
<1>2. \A i \in 1 .. d - 1 :
        /\ frames'[i] \in Frame
        /\ frames'[i].pending = frames[i].pending
        /\ frames'[i].found = frames[i].found
              \cup (IF i = d - 1 THEN frames[d].found ELSE {})
  BY <1>1, FramesTyped DEF Frame
<1>3. frames' \in Seq(Frame) /\ Len(frames') = d - 1
  BY <1>1, <1>2
<1>4. Pending' = Pending
  <2>1. \A i \in 1 .. d : i \in 1 .. d - 1 \/ frames[i].pending = {}
    BY <1>1
  <2>2. \A g \in Groups :
          (\E i \in 1 .. d - 1 : g \in frames'[i].pending)
            <=> (\E i \in 1 .. d : g \in frames[i].pending)
    BY <1>1, <1>2, <2>1
  <2> QED
    BY <1>3, <2>2 DEF Pending
<1>5. Found' = Found
  <2>1. \A g \in Groups :
          (\E i \in 1 .. d - 1 : g \in frames'[i].found)
            <=> (\E i \in 1 .. d : g \in frames[i].found)
    <3> TAKE g \in Groups
    <3>1. ASSUME NEW i \in 1 .. d - 1, g \in frames'[i].found
          PROVE  \E j \in 1 .. d : g \in frames[j].found
      BY <1>1, <1>2, <3>1
    <3>2. ASSUME NEW i \in 1 .. d, g \in frames[i].found
          PROVE  \E j \in 1 .. d - 1 : g \in frames'[j].found
      <4>1. CASE i = d
        BY <1>1, <1>2, <3>2, <4>1
      <4>2. CASE i # d
        BY <1>1, <1>2, <3>2, <4>2
      <4> QED
        BY <4>1, <4>2
    <3> QED
      BY <3>1, <3>2
  <2> QED
    BY <1>3, <2>1 DEF Found
<1> QED
  BY <1>1, <1>3, <1>4, <1>5

-----------------------------------------------------------------------------
\* A step that leaves the catalog and its history alone keeps them consistent.
LEMMA HistoryStays ==
  ASSUME OwnershipInv, UNCHANGED <<catalog, ever, always>>
  PROVE  HistoryOK'
BY DEF OwnershipInv, HistoryOK, ParentsOf

\* What is closed stays so while the history and the memberships stand.
LEMMA ClosedStays ==
  ASSUME UNCHANGED <<memberOf, ever>>, NEW S
  PROVE  Closed(S)' <=> Closed(S)
BY DEF Closed, membershipRefs

LEMMA OwnershipNext == OwnershipInv /\ [Next]_vars => OwnershipInv'
<1> SUFFICES ASSUME OwnershipInv, [Next]_vars PROVE OwnershipInv'
  OBVIOUS
<1> USE DEF OwnershipInv
<1>0. processedGroups \in SUBSET Groups /\ None \notin Groups
  BY OwnershipAssumption DEF OwnershipTypeOK
<1>10. ASSUME NEW u \in Users, NEW refs \in SUBSET (Groups \cup OtherRefs), Begin(u, refs)
       PROVE  OwnershipInv'
  <2>1. /\ frames' = Outermost(refs) /\ memberOf' = refs
        /\ ever' = AllParents /\ always' = AllParents
        /\ user' = u
        /\ processedGroups' = {} /\ awaiting' = None
        /\ outcome' = "resolving" /\ ownershipEntityRefs' = {}
        /\ UNCHANGED <<transitive, catalog, edits>>
    BY <1>10 DEF Begin
  <2>2. frames' \in Seq(Frame) /\ frames' = Outermost(memberOf)'
    BY <2>1, OutermostEffect DEF Outermost, membershipRefs, Frame
  <2>3. /\ AllParents \in [Groups -> SUBSET Groups]
        /\ \A g \in Groups : AllParents[g] = ParentsOf(catalog, g)
    BY HistoryBegins
  <2>4. OwnershipTypeOK'
    BY <2>1, <2>2, <2>3 DEF OwnershipTypeOK
  <2>5. HistoryOK'
    BY <2>1, <2>3 DEF HistoryOK, ParentsOf
  <2>6. WalkOK' /\ AnswerOK'
    <3>1. Fresh'
      BY <2>1, <2>2 DEF Fresh
    <3>2. Fresh' => WalkOK' /\ AnswerOK'
      BY WalkBegins, PTL
    <3> QED
      BY <3>1, <3>2
  <2> QED
    BY <2>4, <2>5, <2>6
<1>1. CASE ResolveDirect
  <2>1. UNCHANGED <<Pending, Found>>
    BY <1>1 DEF ResolveDirect, Pending, Found
  <2>2. awaiting = None
    BY <1>1 DEF ResolveDirect, WalkOK
  <2>3. OwnershipTypeOK'
    <3>1. user \in Users
      BY <1>1 DEF ResolveDirect, WalkOK
    <3> QED
      BY <1>1, <3>1 DEF ResolveDirect, OwnershipTypeOK, membershipRefs
  <2>4. WalkOK'
    BY <1>1, <2>1, <2>2, ClosedStays DEF ResolveDirect, WalkOK
  <2>5. AnswerOK'
    BY <1>1 DEF ResolveDirect, AnswerOK, membershipRefs
  <2> QED
    BY <1>1, <2>3, <2>4, <2>5, HistoryStays DEF ResolveDirect
<1>2. ASSUME NEW g \in Groups, SkipGroup(g) PROVE OwnershipInv'
  <2>1. /\ g \in processedGroups
        /\ UNCHANGED <<user, memberOf, transitive, catalog, edits, processedGroups, awaiting,
                       outcome, ownershipEntityRefs, ever, always>>
        /\ outcome = "resolving"
    BY <1>2 DEF SkipGroup, Walking
  <2>2. processedGroups \cup Pending' = processedGroups \cup Pending
    BY <1>2, <2>1, SkipEffect
  <2>3. OwnershipTypeOK'
    BY <1>2, <2>1, SkipEffect DEF OwnershipTypeOK
  <2>4. WalkOK'
    BY <1>2, <2>1, <2>2, SkipEffect, ClosedStays DEF WalkOK
  <2>5. AnswerOK'
    BY <2>1 DEF AnswerOK
  <2> QED
    BY <2>1, <2>3, <2>4, <2>5, HistoryStays
<1>3. ASSUME NEW g \in Groups, RequestGroup(g) PROVE OwnershipInv'
  <2>1. /\ processedGroups' = processedGroups \cup {g}
        /\ awaiting' = g /\ awaiting = None
        /\ UNCHANGED <<user, memberOf, transitive, catalog, edits, outcome,
                       ownershipEntityRefs, ever, always>>
        /\ outcome = "resolving" /\ transitive
    BY <1>3 DEF RequestGroup, Walking
  <2>2. processedGroups' \cup Pending' = processedGroups \cup Pending
    BY <1>3, <2>1, RequestEffect
  <2>3. OwnershipTypeOK'
    BY <1>3, <2>1, RequestEffect DEF OwnershipTypeOK
  <2>4. \A h \in processedGroups' \ {awaiting'} :
          always[h] \subseteq processedGroups' \cup Pending'
    BY <1>0, <2>1, <2>2 DEF WalkOK
  <2>5. \A S \in SUBSET Groups : Closed(S)' => processedGroups' \cup Pending' \subseteq S
    BY <2>1, <2>2, ClosedStays DEF WalkOK
  <2>6. membershipRefs(memberOf)' \subseteq processedGroups' \cup Pending'
    BY <2>1, <2>2 DEF WalkOK, membershipRefs
  <2>7. WalkOK'
    BY <1>3, <2>1, <2>4, <2>5, <2>6, RequestEffect DEF WalkOK
  <2>8. AnswerOK'
    BY <2>1 DEF AnswerOK
  <2> QED
    BY <2>1, <2>3, <2>7, <2>8, HistoryStays
<1>4. CASE ReceiveGroup
  <2>1. /\ awaiting \in processedGroups /\ awaiting \in Groups
        /\ outcome = "resolving"
        /\ awaiting' = None
        /\ UNCHANGED <<user, memberOf, transitive, catalog, edits, processedGroups, outcome,
                       ownershipEntityRefs, ever, always>>
    BY <1>4 DEF ReceiveGroup, WalkOK, OwnershipTypeOK
  <2>2. OwnershipTypeOK'
    BY <1>4, <2>1, ReceiveEffect DEF OwnershipTypeOK
  <2>3. /\ always[awaiting] \subseteq ParentsOf(catalog, awaiting)
        /\ ParentsOf(catalog, awaiting) \subseteq ever[awaiting]
    BY <2>1 DEF HistoryOK
  <2>4. Pending' = Pending \cup ParentsOf(catalog, awaiting)
    BY <1>4, ReceiveEffect
  <2>5. \A g \in processedGroups : always[g] \subseteq processedGroups \cup Pending'
    <3> TAKE g \in processedGroups
    <3>1. CASE g = awaiting
      BY <2>3, <2>4, <3>1
    <3>2. CASE g # awaiting
      <4>1. always[g] \subseteq processedGroups \cup Pending
        BY <2>1, <3>2 DEF WalkOK
      <4> QED
        BY <2>4, <4>1
    <3> QED
      BY <3>1, <3>2
  <2>6. \A S \in SUBSET Groups : Closed(S)' => processedGroups \cup Pending' \subseteq S
    <3> TAKE S \in SUBSET Groups
    <3> SUFFICES ASSUME Closed(S) PROVE processedGroups \cup Pending' \subseteq S
      BY <2>1, ClosedStays
    <3>1. processedGroups \cup Pending \subseteq S
      BY DEF WalkOK
    <3>2. ever[awaiting] \subseteq S
      BY <2>1, <3>1 DEF Closed
    <3> QED
      BY <2>3, <2>4, <3>1, <3>2
  <2>7. membershipRefs(memberOf)' \subseteq processedGroups' \cup Pending'
    BY <2>1, <2>4 DEF WalkOK, membershipRefs
  <2>8. WalkOK'
    BY <1>4, <2>1, <2>5, <2>6, <2>7, ReceiveEffect DEF WalkOK
  <2>9. AnswerOK'
    BY <2>1 DEF AnswerOK
  <2> QED
    BY <2>1, <2>2, <2>8, <2>9, HistoryStays
<1>5. CASE RequestFails
  <2>1. UNCHANGED <<Pending, Found>>
    BY <1>5 DEF RequestFails, Pending, Found
  <2>2. OwnershipTypeOK'
    BY <1>5 DEF RequestFails, OwnershipTypeOK
  <2>3. WalkOK'
    BY <1>5, <2>1, ClosedStays DEF RequestFails, WalkOK
  <2>4. AnswerOK'
    BY <1>5 DEF RequestFails, AnswerOK
  <2> QED
    BY <1>5, <2>2, <2>3, <2>4, HistoryStays DEF RequestFails
<1>6. CASE ReturnInner
  <2>1. /\ outcome = "resolving"
        /\ UNCHANGED <<user, memberOf, transitive, catalog, edits, processedGroups, awaiting,
                       outcome, ownershipEntityRefs, ever, always>>
    BY <1>6 DEF ReturnInner, Walking
  <2>2. OwnershipTypeOK'
    BY <1>6, <2>1, ReturnEffect DEF OwnershipTypeOK
  <2>3. WalkOK'
    BY <1>6, <2>1, ReturnEffect, ClosedStays DEF WalkOK
  <2>4. AnswerOK'
    BY <2>1 DEF AnswerOK
  <2> QED
    BY <2>1, <2>2, <2>3, <2>4, HistoryStays
<1>7. CASE ReturnOuter
  <2>1. frames[1].pending = {} /\ Len(frames) = 1
    BY <1>7 DEF ReturnOuter, Depth, Top
  <2>2. Pending = {} /\ Found = frames[1].found
    BY <2>1, FramesTyped DEF Pending, Found
  <2>3. UNCHANGED <<Pending, Found>>
    BY <1>7 DEF ReturnOuter, Pending, Found
  <2>4. ownershipEntityRefs' = {user} \cup processedGroups
    BY <1>7, <2>1, <2>2 DEF ReturnOuter, Depth, Top, WalkOK
  <2>5. OwnershipTypeOK'
    <3>1. user \in Users
      BY <1>7 DEF ReturnOuter, Walking, WalkOK
    <3> QED
      BY <1>0, <1>7, <2>4, <3>1 DEF ReturnOuter, OwnershipTypeOK
  <2>6. WalkOK'
    BY <1>7, <2>3, ClosedStays DEF ReturnOuter, Walking, WalkOK
  <2>7. AnswerOK'
    BY <1>7, <2>2, <2>3, <2>4 DEF ReturnOuter, Walking, AnswerOK
  <2> QED
    BY <1>7, <2>5, <2>6, <2>7, HistoryStays DEF ReturnOuter
<1>8. CASE EditCatalog
  <2>1. PICK g \in Groups, parents \in ParentSets :
          /\ catalog' = [catalog EXCEPT ![g] = parents]
          /\ ever' = [ever EXCEPT ![g] = @ \cup ParentsOf(catalog', g)]
          /\ always' = [always EXCEPT ![g] = @ \cap ParentsOf(catalog', g)]
    BY <1>8 DEF EditCatalog
  <2>0. parents \in (SUBSET Groups) \cup {NotAGroup}
    BY <2>1, OwnershipAssumption
  <2>2. /\ ParentsOf(catalog', g) \in SUBSET Groups
        /\ \A h \in Groups : h # g => ParentsOf(catalog', h) = ParentsOf(catalog, h)
    BY <2>0, <2>1 DEF ParentsOf, OwnershipTypeOK
  <2>3. \A h \in Groups : always'[h] \subseteq always[h] /\ ever[h] \subseteq ever'[h]
    BY <2>1 DEF OwnershipTypeOK
  <2>4. OwnershipTypeOK'
    <3>1. edits' \in 0 .. MaxEdits
      BY <1>8, OwnershipAssumption DEF EditCatalog, OwnershipTypeOK
    <3>2. catalog' \in [Groups -> (SUBSET Groups) \cup {NotAGroup}]
      BY <2>0, <2>1 DEF OwnershipTypeOK
    <3>3. /\ ever' \in [Groups -> SUBSET Groups]
          /\ always' \in [Groups -> SUBSET Groups]
      <4> HIDE DEF OwnershipInv
      <4> DEFINE now == ParentsOf(catalog', g)
      <4>1. /\ ever \in [Groups -> SUBSET Groups]
            /\ always \in [Groups -> SUBSET Groups]
            /\ now \in SUBSET Groups
            /\ ever' = [ever EXCEPT ![g] = @ \cup now]
            /\ always' = [always EXCEPT ![g] = @ \cap now]
        BY <2>1, <2>2 DEF OwnershipInv, OwnershipTypeOK
      <4> HIDE DEF now
      <4> QED
        BY <4>1
    <3> QED
      BY <1>8, <3>1, <3>2, <3>3 DEF EditCatalog, walkVars, OwnershipTypeOK
  <2>5. HistoryOK'
    BY <2>1, <2>2 DEF HistoryOK, OwnershipTypeOK
  <2>6. UNCHANGED <<Pending, Found, walkVars>>
    BY <1>8 DEF EditCatalog, walkVars, Pending, Found
  <2>7. \A S \in SUBSET Groups : Closed(S)' => Closed(S)
    BY <2>3, <2>6 DEF Closed, walkVars
  <2>8. WalkOK'
    <3>1. processedGroups \in SUBSET Groups
      BY DEF OwnershipTypeOK
    <3> QED
      BY <2>3, <2>6, <2>7, <3>1 DEF WalkOK, walkVars
  <2> QED
    BY <2>4, <2>5, <2>6, <2>8 DEF AnswerOK, walkVars
<1>9. CASE UNCHANGED vars
  <2>1. UNCHANGED <<Pending, Found>>
    BY <1>9 DEF vars, Pending, Found
  <2>2. WalkOK' /\ AnswerOK' /\ OwnershipTypeOK'
    BY <1>9, <2>1, ClosedStays DEF vars, WalkOK, AnswerOK, OwnershipTypeOK
  <2> QED
    BY <1>9, <2>2, HistoryStays DEF vars
<1> QED
  BY <1>1, <1>2, <1>3, <1>4, <1>5, <1>6, <1>7, <1>8, <1>9, <1>10 DEF Next, ResolverStep

\* The inductive invariant of the walk.
THEOREM OwnershipInvariant == Spec => []OwnershipInv
BY OwnershipInit, OwnershipNext, PTL DEF Spec

\* The state of a sign-in is well typed.
THEOREM OwnershipTypeCorrect == Spec => []OwnershipTypeOK
BY OwnershipInvariant, PTL DEF OwnershipInv

LEMMA AnswerIsComplete == OwnershipInv => OwnsAllAncestors
BY OwnershipAssumption
   DEF OwnershipInv, OwnershipTypeOK, WalkOK, AnswerOK, OwnsAllAncestors, Owned,
       membershipRefs

LEMMA AnswerIsMinimal == OwnershipInv => OwnsOnlyAncestors
BY OwnershipAssumption
   DEF OwnershipInv, OwnershipTypeOK, WalkOK, AnswerOK, OwnsOnlyAncestors, Owned,
       Closed, membershipRefs

\* A token lacks no ancestor group that was one throughout the walk.
THEOREM NoAncestorMissing == Spec => []OwnsAllAncestors
BY AnswerIsComplete, OwnershipInvariant, PTL

\* A token names no group that was not an ancestor at some time of the walk.
THEOREM NoAncestorInvented == Spec => []OwnsOnlyAncestors
BY AnswerIsMinimal, OwnershipInvariant, PTL

-----------------------------------------------------------------------------
(* The sign-in. *)

DirectoriesOK == directory \in seen /\ seen \subseteq Directories

LEMMA DirectoriesStay == DirectoriesOK /\ [SignInNext]_allVars => DirectoriesOK'
BY DEF DirectoriesOK, SignInNext, AttemptStep, allVars, signInVars, StartBackend,
       ChooseProvider, RunResolver, UserFound, UserNotFound, LookupFails, WalkStep,
       WalkFails, IssueToken, EditDirectory, EditGroups

LEMMA DirectoriesInvariant == SignInSpec => []DirectoriesOK
<1>1. SignInInit => DirectoriesOK
  BY DEF SignInInit, DirectoriesOK
<1> QED
  BY <1>1, DirectoriesStay, PTL DEF SignInSpec

\* A step of a sign-in is one of the walk or leaves the walk alone.
LEMMA SignInStep == DirectoriesOK /\ [SignInNext]_allVars => [Next]_vars
<1> SUFFICES ASSUME DirectoriesOK, [SignInNext]_allVars PROVE [Next]_vars
  OBVIOUS
<1>1. CASE UserFound
  <2>1. PICK u \in Users : Begin(u, directory[u].memberOf)
    BY <1>1 DEF UserFound
  <2>2. directory[u].memberOf \in SUBSET (Groups \cup OtherRefs)
    BY SignInAssumption DEF DirectoriesOK, Directory
  <2> QED
    BY <2>1, <2>2 DEF Next
<1>2. CASE WalkStep \/ EditGroups
  BY <1>2 DEF WalkStep, EditGroups, Next
<1>3. CASE StartBackend \/ (\E p \in Offered(deployment) : ChooseProvider(p))
           \/ RunResolver \/ UserNotFound \/ LookupFails
  BY <1>3 DEF StartBackend, ChooseProvider, RunResolver, UserNotFound, LookupFails
<1>4. CASE WalkFails \/ IssueToken \/ EditDirectory
  BY <1>4 DEF WalkFails, IssueToken, EditDirectory
<1>5. CASE UNCHANGED allVars
  BY <1>5 DEF allVars
<1> QED
  BY <1>1, <1>2, <1>3, <1>4, <1>5 DEF SignInNext, AttemptStep

\* A sign-in implements the walk of GroupOwnership.
THEOREM SignInImplementsWalk == SignInSpec => Spec
<1>1. SignInInit => Init
  BY DEF SignInInit
<1> QED
  BY <1>1, SignInStep, DirectoriesInvariant, PTL DEF SignInSpec, Spec

\* The token of a sign-in lacks no ancestor group that was one throughout the walk.
THEOREM SignInNoAncestorMissing == SignInSpec => []OwnsAllAncestors
BY SignInImplementsWalk, NoAncestorMissing, PTL

\* The token of a sign-in names no group that was no ancestor at any time of the walk.
THEOREM SignInNoAncestorInvented == SignInSpec => []OwnsOnlyAncestors
BY SignInImplementsWalk, NoAncestorInvented, PTL

-----------------------------------------------------------------------------
\* An attempt is made with a provider the backend has registered.
ProviderOK ==
  deployment \in Deployments /\ provider \in OAuthProviders \cup ProxyProviders

ResolversOK ==
  /\ Len(signInResolvers) \in Nat \ {0}
  /\ DOMAIN signInResolvers = 1 .. Len(signInResolvers)
  /\ \A i \in 1 .. Len(signInResolvers) :
       signInResolvers[i].key \in ConfirmedKeys => signInResolvers[i].confirmed

LEMMA ResolversKnown == ProviderOK => ResolversOK
<1> SUFFICES ASSUME ProviderOK PROVE ResolversOK
  OBVIOUS
<1>0. deployment \in Deployments
  BY DEF ProviderOK
<1>1. CASE provider \in DOMAIN deployment.configured
  <2> DEFINE named == deployment.configured[provider]
             Names == [fallback : BOOLEAN,
                       name : IF provider = "oidc"
                              THEN DOMAIN signInResolverFactories(FALSE)
                              ELSE commonSignInResolvers]
  <2>1. named \in Seq(Names) \ {<<>>}
    BY <1>0, <1>1, SignInAssumption DEF IsDeployment
  <2> HIDE DEF named, Names
  <2>2. Len(named) \in Nat \ {0} /\ DOMAIN named = 1 .. Len(named)
    BY <2>1, EmptySeq
  <2>3. signInResolvers = [i \in 1 .. Len(named) |->
                             signInResolverFactories(named[i].fallback)[named[i].name]]
    BY <1>1, <2>2 DEF signInResolvers, named
  <2>4. Len(signInResolvers) = Len(named) /\ DOMAIN signInResolvers = 1 .. Len(named)
    BY <2>2, <2>3
  <2>5. ASSUME NEW f, NEW n \in DOMAIN signInResolverFactories(FALSE)
        PROVE  signInResolverFactories(f)[n].key \in ConfirmedKeys
                 => signInResolverFactories(f)[n].confirmed
    BY DEF signInResolverFactories, ConfirmedKeys, Resolver, createOidcSubClaimResolver,
           preferredUsernameMatchingUserEntityName, oidcLdapUuidMatchingAnnotation
  <2>6. \A i \in 1 .. Len(named) : named[i].name \in DOMAIN signInResolverFactories(FALSE)
    <3>1. commonSignInResolvers \subseteq DOMAIN signInResolverFactories(FALSE)
      BY DEF commonSignInResolvers, signInResolverFactories
    <3>2. \A i \in 1 .. Len(named) : named[i] \in Names
      BY <2>1, ElementOfSeq
    <3> QED
      BY <3>1, <3>2 DEF Names
  <2> QED
    BY <2>2, <2>3, <2>4, <2>5, <2>6 DEF ResolversOK
<1>2. CASE provider \notin DOMAIN deployment.configured
  <2>1. signInResolvers = defaultResolvers(deployment, provider)
    BY <1>2 DEF signInResolvers
  <2>2. CASE provider = "oidc"
    BY <2>1, <2>2 DEF defaultResolvers, ResolversOK, Resolver, createOidcSubClaimResolver,
                      oidcLdapUuidMatchingAnnotation
  <2>3. CASE provider = "oauth2Proxy"
    BY <2>1, <2>3 DEF defaultResolvers, ResolversOK, Resolver, ConfirmedKeys,
                      oauth2ProxyUserHeaderMatchingUserEntityName
  <2>4. CASE provider # "oidc" /\ provider # "oauth2Proxy"
    <3>1. signInResolvers = <<ownSignInResolver(provider)>>
      BY <2>1, <2>4 DEF defaultResolvers
    <3>2. ownSignInResolver(provider).key \notin ConfirmedKeys
      BY DEF ProviderOK, OAuthProviders, ProxyProviders, ownSignInResolver, ConfirmedKeys,
             Resolver
    <3> QED
      BY <3>1, <3>2 DEF ResolversOK
  <2> QED
    BY <2>2, <2>3, <2>4
<1> QED
  BY <1>1, <1>2

LEMMA ClaimTyped ==
  ASSUME NEW r, HasClaim(r, identity), identity \in Identities
  PROVE  ClaimOf(r, identity) \in Values
BY SignInAssumption DEF HasClaim, ClaimOf, ClaimName

\* What an attempt has come to at each stage.
StageOK ==
  /\ deployment \in Deployments /\ identity \in Identities
  /\ stage \notin {"starting", "down"} =>
       deployment.providers \ {"guest"} \subseteq OAuthProviders \cup ProxyProviders
  /\ stage \in {"starting", "page"} => resolver = 1
  /\ Attempting \/ stage = "signedIn" =>
       ProviderOK /\ resolver \in 1 .. Len(signInResolvers)
  /\ stage \in {"lookup", "walk"} => Accepts(Current, identity)
  /\ stage = "walk" =>
       /\ outcome # "idle"
       /\ \E c \in seen : /\ Matching(c, Current.key, ClaimOf(Current, identity)) = {user}
                        /\ memberOf = c[user].memberOf

TokenOK == token # None => token.sub \in Users /\ token.ent \subseteq Groups \cup Users

AttemptInv == StageOK /\ TokenOK /\ TokenOfVerifiedUser

\* A resolver throws: the position stays on the list.
LEMMA ErrorCaught ==
  ASSUME catchError, Attempting, StageOK, UNCHANGED <<deployment, provider>>
  PROVE  /\ stage' \in {"resolver", "refused"}
         /\ resolver' \in 1 .. Len(signInResolvers)
<1>1. resolver \in 1 .. Len(signInResolvers) /\ Len(signInResolvers) \in Nat
  BY ResolversKnown DEF StageOK, ResolversOK
<1> QED
  BY <1>1 DEF catchError, tryNext

LEMMA RetryKeeps ==
  ASSUME AttemptInv, catchError, Attempting,
         UNCHANGED <<deployment, identity, provider, token>>
  PROVE  AttemptInv'
<1>1. /\ stage' \in {"resolver", "refused"}
      /\ resolver' \in 1 .. Len(signInResolvers)
      /\ UNCHANGED signInResolvers
  BY ErrorCaught DEF AttemptInv, signInResolvers
<1>2. StageOK'
  BY <1>1 DEF AttemptInv, StageOK, Attempting, ProviderOK
<1> QED
  BY <1>1, <1>2 DEF AttemptInv, TokenOK, TokenOfVerifiedUser

\* A resolver that accepted the identity vouches for the user it found.
LEMMA AcceptedVouches ==
  ASSUME StageOK, ProviderOK, resolver \in 1 .. Len(signInResolvers),
         Accepts(Current, identity), NEW c, NEW t,
         LET users == Matching(c, Current.key, ClaimOf(Current, identity))
         IN  \/ users = {t.sub} /\ membershipRefs(c[t.sub].memberOf) \subseteq t.ent
             \/ users = {} /\ Current.fallback
                  /\ t.sub = RefNamed[ClaimOf(Current, identity)]
  PROVE  /\ resolver \in DOMAIN signInResolvers
         /\ Vouches(signInResolvers[resolver], c, t)
<1>1. /\ DOMAIN signInResolvers = 1 .. Len(signInResolvers)
      /\ Current.key \in ConfirmedKeys => Current.confirmed
  BY ResolversKnown DEF ResolversOK, Current
<1>2. Vouches(Current, c, t)
  BY <1>1 DEF Vouches, Accepts
<1> QED
  BY <1>1, <1>2 DEF Current

LEMMA AttemptStays ==
  DirectoriesOK /\ OwnershipInv /\ AttemptInv /\ [SignInNext]_allVars => AttemptInv'
<1> SUFFICES ASSUME DirectoriesOK, OwnershipInv, AttemptInv, [SignInNext]_allVars
             PROVE  AttemptInv'
  OBVIOUS
<1>1. CASE StartBackend
  <2>1. StageOK'
    BY <1>1 DEF StartBackend, AttemptInv, StageOK, Attempting
  <2> QED
    BY <1>1, <2>1 DEF StartBackend, AttemptInv, TokenOK, TokenOfVerifiedUser
<1>2. ASSUME NEW p \in Offered(deployment), ChooseProvider(p) PROVE AttemptInv'
  <2>1. /\ provider' = p /\ stage' \in {"guest", "resolver", "refused"}
        /\ stage' = "resolver" => p # "guest" /\ p \in deployment.providers
        /\ UNCHANGED <<vars, deployment, directory, seen, identity, resolver, failed, token>>
        /\ stage = "page"
    BY <1>2 DEF ChooseProvider
  <2>2. stage' = "resolver" => ProviderOK'
    BY <2>1 DEF AttemptInv, StageOK, ProviderOK
  <2>3. stage' = "resolver" => ResolversOK'
    <3>1. ProviderOK' => ResolversOK'
      BY ResolversKnown, PTL
    <3> QED
      BY <2>2, <3>1
  <2>4. StageOK'
    BY <2>1, <2>2, <2>3 DEF AttemptInv, StageOK, Attempting, ResolversOK
  <2> QED
    BY <2>1, <2>4 DEF AttemptInv, TokenOK, TokenOfVerifiedUser
<1>3. CASE RunResolver
  <2>1. CASE Accepts(Current, identity) /\ stage' = "lookup" /\ UNCHANGED resolver
    <3>1. UNCHANGED <<deployment, identity, provider, resolver, token>>
      BY <1>3, <2>1 DEF RunResolver
    <3>2. UNCHANGED <<signInResolvers, Current>>
      BY <3>1 DEF signInResolvers, Current
    <3>3. StageOK'
      BY <1>3, <2>1, <3>1, <3>2
         DEF RunResolver, AttemptInv, StageOK, Attempting, ProviderOK, Accepts, HasClaim,
             Confirmed, ClaimOf, ClaimName
    <3> QED
      BY <2>1, <3>1, <3>3 DEF AttemptInv, TokenOK, TokenOfVerifiedUser
  <2>2. CASE catchError
    BY <1>3, <2>2, RetryKeeps DEF RunResolver, Attempting
  <2> QED
    BY <1>3, <2>1, <2>2 DEF RunResolver
<1>4. CASE UserFound
  <2>1. PICK u \in Users : Candidates = {u} /\ Begin(u, directory[u].memberOf)
    BY <1>4 DEF UserFound
  <2>2. /\ stage = "lookup" /\ stage' = "walk"
        /\ user' = u /\ memberOf' = directory[u].memberOf /\ outcome' = "resolving"
        /\ UNCHANGED <<deployment, directory, seen, identity, provider, resolver, failed,
                       token>>
    BY <1>4, <2>1 DEF UserFound, Begin
  <2>3. UNCHANGED <<signInResolvers, Current>>
    BY <2>2 DEF signInResolvers, Current
  <2>4. /\ Matching(directory, Current.key, ClaimOf(Current, identity)) = {user'}
        /\ directory \in seen /\ memberOf' = directory[user'].memberOf
    BY <2>1, <2>2 DEF Candidates, DirectoriesOK
  <2>5. StageOK'
    BY <2>2, <2>3, <2>4 DEF AttemptInv, StageOK, Attempting, ProviderOK
  <2> QED
    BY <2>2, <2>5 DEF AttemptInv, TokenOK, TokenOfVerifiedUser
<1>5. CASE UserNotFound
  <2>1. CASE Candidates = {} /\ Current.fallback
    <3> DEFINE v == ClaimOf(Current, identity)
    <3>1. /\ token' = [sub |-> RefNamed[v], ent |-> {RefNamed[v]}]
          /\ stage = "lookup" /\ stage' = "signedIn"
          /\ UNCHANGED <<deployment, seen, identity, provider, resolver>>
      BY <1>5, <2>1 DEF UserNotFound
    <3>2. RefNamed[v] \in Users
      BY <3>1, ClaimTyped, SignInAssumption DEF AttemptInv, StageOK, Accepts
    <3>3. \E i \in DOMAIN signInResolvers :
            Vouches(signInResolvers[i], directory, token')
      BY <2>1, <3>1, AcceptedVouches
         DEF AttemptInv, StageOK, Attempting, Candidates
    <3>4. StageOK'
      BY <3>1 DEF AttemptInv, StageOK, Attempting, ProviderOK, signInResolvers
    <3>5. TokenOfVerifiedUser'
      BY <3>1, <3>2, <3>3 DEF TokenOfVerifiedUser, Vouches, signInResolvers, DirectoriesOK
    <3> QED
      BY <3>1, <3>2, <3>4, <3>5 DEF AttemptInv, TokenOK
  <2>2. CASE catchError /\ UNCHANGED token
    BY <1>5, <2>2, RetryKeeps DEF UserNotFound, Attempting
  <2> QED
    BY <1>5, <2>1, <2>2 DEF UserNotFound
<1>6. CASE LookupFails \/ WalkFails
  BY <1>6, RetryKeeps DEF LookupFails, WalkFails, Attempting
<1>7. CASE WalkStep \/ EditGroups
  <2>1. UNCHANGED signInVars /\ UNCHANGED <<user, memberOf>>
    BY <1>7 DEF WalkStep, EditGroups, EditCatalog, walkVars, ResolverStep, ResolveDirect,
                SkipGroup, RequestGroup, ReceiveGroup, RequestFails, ReturnInner, ReturnOuter
  <2>2. stage = "walk" /\ outcome' # "idle"
    BY <1>7 DEF WalkStep, EditGroups, EditCatalog, walkVars, ResolverStep, ResolveDirect,
                SkipGroup, RequestGroup, ReceiveGroup, RequestFails, ReturnInner, ReturnOuter,
                AttemptInv, StageOK
  <2>3. StageOK'
    BY <2>1, <2>2 DEF signInVars, AttemptInv, StageOK, Attempting, ProviderOK,
                      signInResolvers, Current
  <2> QED
    BY <2>1, <2>2, <2>3 DEF signInVars, AttemptInv, TokenOK, TokenOfVerifiedUser
<1>8. CASE IssueToken
  <2>1. /\ token' = [sub |-> user, ent |-> ownershipEntityRefs]
        /\ stage = "walk" /\ stage' = "signedIn" /\ outcome = "resolved"
        /\ UNCHANGED <<deployment, seen, identity, provider, resolver>>
    BY <1>8 DEF IssueToken
  <2>2. /\ user \in Users
        /\ ownershipEntityRefs \cap Users = {user}
        /\ ownershipEntityRefs \subseteq Groups \cup Users
        /\ membershipRefs(memberOf) \subseteq ownershipEntityRefs
    BY <2>1, OwnershipAssumption, AnswerIsComplete
       DEF OwnershipInv, OwnershipTypeOK, WalkOK, AnswerOK, OwnsAllAncestors, membershipRefs
  <2>3. PICK c \in seen : /\ Matching(c, Current.key, ClaimOf(Current, identity)) = {user}
                          /\ memberOf = c[user].memberOf
    BY <2>1 DEF AttemptInv, StageOK
  <2>4. \E i \in DOMAIN signInResolvers : Vouches(signInResolvers[i], c, token')
    BY <2>1, <2>2, <2>3, AcceptedVouches DEF AttemptInv, StageOK, Attempting
  <2>5. StageOK'
    BY <2>1 DEF AttemptInv, StageOK, Attempting, ProviderOK, signInResolvers
  <2>6. TokenOfVerifiedUser'
    BY <2>1, <2>2, <2>4 DEF TokenOfVerifiedUser, Vouches, signInResolvers
  <2> QED
    BY <2>1, <2>2, <2>5, <2>6 DEF AttemptInv, TokenOK
<1>9. CASE EditDirectory
  <2>1. /\ UNCHANGED <<vars, deployment, identity, provider, stage, resolver, token>>
        /\ seen \subseteq seen'
    BY <1>9 DEF EditDirectory
  <2>2. stage # "signedIn"
    BY <1>9 DEF EditDirectory
  <2>3. StageOK'
    BY <2>1 DEF vars, AttemptInv, StageOK, Attempting, ProviderOK, signInResolvers, Current
  <2> QED
    BY <2>1, <2>2, <2>3 DEF AttemptInv, TokenOK, TokenOfVerifiedUser
<1>10. CASE UNCHANGED allVars
  <2>1. UNCHANGED <<signInVars, user, memberOf, outcome>>
    BY <1>10 DEF allVars, vars
  <2>2. UNCHANGED <<signInResolvers, Current>>
    BY <2>1 DEF signInVars, signInResolvers, Current
  <2>3. StageOK'
    BY <2>1, <2>2 DEF signInVars, AttemptInv, StageOK, Attempting, ProviderOK
  <2>4. TokenOfVerifiedUser'
    BY <2>1, <2>2 DEF signInVars, AttemptInv, TokenOfVerifiedUser, Vouches
  <2> QED
    BY <2>1, <2>3, <2>4 DEF signInVars, AttemptInv, TokenOK
<1> QED
  BY <1>1, <1>2, <1>3, <1>4, <1>5, <1>6, <1>7, <1>8, <1>9, <1>10 DEF SignInNext, AttemptStep

\* What a sign-in has come to, at every stage.
LEMMA AttemptInvariant == SignInSpec => []AttemptInv
<1>1. SignInInit => AttemptInv
  BY DEF SignInInit, AttemptInv, StageOK, Attempting, TokenOK, TokenOfVerifiedUser
<1>2. SignInSpec => []OwnershipInv
  BY SignInImplementsWalk, OwnershipInvariant, PTL
<1> QED
  BY <1>1, <1>2, DirectoriesInvariant, AttemptStays, PTL DEF SignInSpec

\* A token is for the user one of the resolvers was vouched for, confirmed by the ID
\* token where the resolver asks for it, whatever failed or changed before.
THEOREM TokensAreOfVerifiedUsers == SignInSpec => []TokenOfVerifiedUser
BY AttemptInvariant, PTL DEF AttemptInv

StageTyped == stage \in Stages /\ failed \in BOOLEAN

LEMMA StageTypedStays == StageTyped /\ [SignInNext]_allVars => StageTyped'
BY DEF StageTyped, Stages, SignInNext, AttemptStep, allVars, signInVars, StartBackend,
       ChooseProvider, RunResolver, UserFound, UserNotFound, LookupFails, WalkStep,
       WalkFails, IssueToken, EditDirectory, EditGroups, catchError, tryNext

\* The state of a sign-in is well typed, that of its walk included.
THEOREM SignInTypeCorrect == SignInSpec => []SignInTypeOK
<1>1. SignInInit => StageTyped
  BY DEF SignInInit, StageTyped, Stages
<1>2. SignInSpec => []StageTyped
  BY <1>1, StageTypedStays, PTL DEF SignInSpec
<1>3. SignInSpec => []OwnershipTypeOK
  BY SignInImplementsWalk, OwnershipTypeCorrect, PTL
<1>4. StageTyped /\ OwnershipTypeOK /\ AttemptInv /\ DirectoriesOK => SignInTypeOK
  BY DEF StageTyped, AttemptInv, StageOK, TokenOK, DirectoriesOK, SignInTypeOK
<1> QED
  BY <1>2, <1>3, <1>4, AttemptInvariant, DirectoriesInvariant, PTL

-----------------------------------------------------------------------------
\* The first n resolvers do not admit the identity.
NoneAdmits(n) == \A i \in 1 .. n : ~ Admits(signInResolvers[i])

\* While nothing disturbs a sign-in, the resolvers before the present one do not
\* admit the identity, and the present one has found the user of the walk.
OrderOK ==
  Undisturbed =>
    /\ Attempting => NoneAdmits(resolver - 1)
    /\ stage = "walk" =>
         /\ Matching(directory, Current.key, ClaimOf(Current, identity)) = {user}
         /\ memberOf = directory[user].memberOf

OrderInv == OrderOK /\ ResolversDecideInOrder

\* The resolvers and what they admit depend on four variables only.
LEMMA AdmitsStays ==
  ASSUME UNCHANGED <<deployment, provider, identity, directory>>
  PROVE  /\ UNCHANGED signInResolvers
         /\ \A i : Admits(signInResolvers[i])' <=> Admits(signInResolvers[i])
BY DEF signInResolvers, Admits

\* A resolver that does not admit the identity gives way to the next one, or ends
\* the attempt when it is the last.
LEMMA RejectionKeepsOrder ==
  ASSUME AttemptInv, OrderInv, Attempting, catchError, ~ Admits(Current),
         UNCHANGED <<deployment, provider, identity, directory, seen, failed>>
  PROVE  OrderInv'
<1> SUFFICES ASSUME Undisturbed' PROVE OrderInv'
  BY DEF OrderInv, OrderOK, ResolversDecideInOrder
<1>1. /\ Undisturbed /\ tryNext
      /\ UNCHANGED signInResolvers
      /\ \A i : Admits(signInResolvers[i])' <=> Admits(signInResolvers[i])
  BY AdmitsStays DEF Undisturbed, catchError
<1>2. /\ resolver \in 1 .. Len(signInResolvers) /\ Len(signInResolvers) \in Nat
      /\ DOMAIN signInResolvers = 1 .. Len(signInResolvers)
  BY ResolversKnown DEF AttemptInv, StageOK, ResolversOK
<1>3. \A i \in 1 .. resolver : ~ Admits(signInResolvers[i])'
  <2>1. \A i \in 1 .. resolver - 1 : ~ Admits(signInResolvers[i])
    BY <1>1 DEF OrderInv, OrderOK, NoneAdmits
  <2>2. ~ Admits(signInResolvers[resolver])
    BY DEF Current
  <2> QED
    BY <1>1, <1>2, <2>1, <2>2
<1>4. CASE stage' = "resolver" /\ resolver' = resolver + 1
  <2>1. resolver' - 1 = resolver
    BY <1>2, <1>4
  <2>2. NoneAdmits(resolver - 1)'
    BY <1>3, <2>1 DEF NoneAdmits
  <2> QED
    BY <1>4, <2>2 DEF OrderInv, OrderOK, ResolversDecideInOrder
<1>5. CASE stage' = "refused" /\ resolver = Len(signInResolvers)
  <2>1. \A i \in DOMAIN signInResolvers' : ~ Admits(signInResolvers[i])'
    BY <1>1, <1>2, <1>3, <1>5
  <2> QED
    BY <1>5, <2>1 DEF OrderInv, OrderOK, ResolversDecideInOrder, Attempting
<1>6. resolver < Len(signInResolvers) \/ resolver = Len(signInResolvers)
  <2>1. ASSUME NEW n \in Nat, NEW k \in 1 .. n PROVE k < n \/ k = n
    OBVIOUS
  <2> QED
    BY <1>2, <2>1
<1> QED
  BY <1>1, <1>4, <1>5, <1>6 DEF tryNext

\* The resolver that signs in is the first that admits the identity.
LEMMA SuccessKeepsOrder ==
  ASSUME AttemptInv, OrderInv, Attempting, stage' = "signedIn",
         UNCHANGED <<deployment, provider, identity, directory, seen, failed, resolver>>,
         Undisturbed => Admits(Current),
         Undisturbed => resolver \in DOMAIN signInResolvers
                          /\ Vouches(signInResolvers[resolver], directory, token')
  PROVE  OrderInv'
<1> SUFFICES ASSUME Undisturbed' PROVE OrderInv'
  BY DEF OrderInv, OrderOK, ResolversDecideInOrder
<1>1. /\ Undisturbed
      /\ UNCHANGED signInResolvers
      /\ \A i : Admits(signInResolvers[i])' <=> Admits(signInResolvers[i])
  BY AdmitsStays DEF Undisturbed
<1>2. /\ Admits(signInResolvers[resolver])
      /\ \A j \in 1 .. resolver - 1 : ~ Admits(signInResolvers[j])
  BY <1>1 DEF OrderInv, OrderOK, NoneAdmits, Current
<1>3. Vouches(signInResolvers[resolver], directory, token)'
  BY <1>1 DEF Vouches
<1>4. /\ resolver' \in DOMAIN signInResolvers'
      /\ Admits(signInResolvers[resolver])'
      /\ \A j \in 1 .. resolver' - 1 : ~ Admits(signInResolvers[j])'
  BY <1>1, <1>2
<1> QED
  BY <1>3, <1>4 DEF OrderInv, OrderOK, ResolversDecideInOrder, Attempting

LEMMA OrderStays ==
  DirectoriesOK /\ OwnershipInv /\ AttemptInv /\ OrderInv /\ [SignInNext]_allVars
    => OrderInv'
<1> SUFFICES ASSUME DirectoriesOK, OwnershipInv, AttemptInv, OrderInv,
                    [SignInNext]_allVars
             PROVE  OrderInv'
  OBVIOUS
<1>1. CASE StartBackend
  BY <1>1 DEF StartBackend, OrderInv, OrderOK, ResolversDecideInOrder, Attempting
<1>2. ASSUME NEW p \in Offered(deployment), ChooseProvider(p) PROVE OrderInv'
  <2>1. /\ provider' = p /\ stage' \in {"guest", "resolver", "refused"}
        /\ stage' = "refused" => p \notin deployment.providers \ deployment.unresolved
        /\ resolver' = 1 /\ deployment' = deployment
    BY <1>2 DEF ChooseProvider, AttemptInv, StageOK
  <2>2. NoneAdmits(resolver - 1)'
    BY <2>1 DEF NoneAdmits
  <2> QED
    BY <2>1, <2>2 DEF OrderInv, OrderOK, ResolversDecideInOrder
<1>3. CASE RunResolver
  <2>1. /\ stage = "resolver"
        /\ UNCHANGED <<vars, deployment, directory, seen, identity, provider, failed, token>>
    BY <1>3 DEF RunResolver
  <2>2. CASE stage' = "lookup" /\ UNCHANGED resolver
    <3>1. Undisturbed' <=> Undisturbed
      BY <2>1 DEF Undisturbed
    <3>2. NoneAdmits(resolver - 1)' <=> NoneAdmits(resolver - 1)
      BY <2>1, <2>2, AdmitsStays DEF NoneAdmits
    <3> QED
      BY <2>1, <2>2, <3>1, <3>2 DEF OrderInv, OrderOK, ResolversDecideInOrder, Attempting
  <2>3. CASE ~ Accepts(Current, identity) /\ catchError
    BY <2>1, <2>3, RejectionKeepsOrder DEF Attempting, Admits
  <2> QED
    BY <1>3, <2>2, <2>3 DEF RunResolver
<1>4. CASE UserFound
  <2>1. PICK u \in Users : Candidates = {u} /\ Begin(u, directory[u].memberOf)
    BY <1>4 DEF UserFound
  <2>2. /\ stage = "lookup" /\ stage' = "walk"
        /\ user' = u /\ memberOf' = directory[u].memberOf
        /\ UNCHANGED <<deployment, directory, seen, identity, provider, resolver, failed>>
    BY <1>4, <2>1 DEF UserFound, Begin
  <2>3. UNCHANGED <<signInResolvers, Current>> /\ (Undisturbed' <=> Undisturbed)
    BY <2>2 DEF signInResolvers, Current, Undisturbed
  <2>4. NoneAdmits(resolver - 1)' <=> NoneAdmits(resolver - 1)
    BY <2>2, AdmitsStays DEF NoneAdmits
  <2>5. Matching(directory, Current.key, ClaimOf(Current, identity)) = {user'}
    BY <2>1, <2>2 DEF Candidates
  <2> QED
    BY <2>2, <2>3, <2>4, <2>5 DEF OrderInv, OrderOK, ResolversDecideInOrder, Attempting
<1>5. CASE UserNotFound
  <2>1. /\ stage = "lookup"
        /\ \A u \in Users : Candidates # {u}
        /\ UNCHANGED <<vars, deployment, directory, seen, identity, provider, failed>>
    BY <1>5 DEF UserNotFound
  <2>2. CASE Candidates = {} /\ Current.fallback
    <3>1. /\ token'.sub = RefNamed[ClaimOf(Current, identity)]
          /\ stage' = "signedIn" /\ UNCHANGED resolver
      BY <1>5, <2>2 DEF UserNotFound
    <3>2. Admits(Current)
      BY <2>1, <2>2 DEF Admits, Candidates, AttemptInv, StageOK
    <3>3. resolver \in DOMAIN signInResolvers
            /\ Vouches(signInResolvers[resolver], directory, token')
      BY <2>1, <2>2, <3>1, AcceptedVouches DEF AttemptInv, StageOK, Attempting, Candidates
    <3> QED
      BY <2>1, <3>1, <3>2, <3>3, SuccessKeepsOrder DEF Attempting
  <2>3. CASE ~ (Candidates = {} /\ Current.fallback) /\ catchError
    <3>1. ~ Admits(Current)
      BY <2>1, <2>3 DEF Admits, Candidates
    <3> QED
      BY <2>1, <2>3, <3>1, RejectionKeepsOrder DEF Attempting
  <2> QED
    BY <1>5, <2>2, <2>3 DEF UserNotFound
<1>6. CASE LookupFails \/ WalkFails
  <2>1. failed'
    BY <1>6 DEF LookupFails, WalkFails
  <2> QED
    BY <2>1 DEF OrderInv, OrderOK, ResolversDecideInOrder, Undisturbed
<1>7. CASE WalkStep \/ EditGroups
  <2>1. UNCHANGED signInVars /\ UNCHANGED <<user, memberOf>>
    BY <1>7 DEF WalkStep, EditGroups, EditCatalog, walkVars, ResolverStep, ResolveDirect,
                SkipGroup, RequestGroup, ReceiveGroup, RequestFails, ReturnInner, ReturnOuter
  <2>2. stage = "walk"
    BY <1>7 DEF WalkStep, EditGroups
  <2>3. UNCHANGED <<signInResolvers, Current>> /\ (Undisturbed' <=> Undisturbed)
    BY <2>1 DEF signInVars, signInResolvers, Current, Undisturbed
  <2>4. NoneAdmits(resolver - 1)' <=> NoneAdmits(resolver - 1)
    BY <2>1, AdmitsStays DEF signInVars, NoneAdmits
  <2> QED
    BY <2>1, <2>2, <2>3, <2>4
       DEF signInVars, OrderInv, OrderOK, ResolversDecideInOrder, Attempting
<1>8. CASE IssueToken
  <2>1. /\ token' = [sub |-> user, ent |-> ownershipEntityRefs]
        /\ stage = "walk" /\ stage' = "signedIn" /\ outcome = "resolved"
        /\ UNCHANGED <<deployment, directory, seen, identity, provider, resolver, failed>>
    BY <1>8 DEF IssueToken
  <2>2. /\ user \in Users
        /\ membershipRefs(memberOf) \subseteq ownershipEntityRefs
    BY <2>1, AnswerIsComplete DEF OwnershipInv, WalkOK, OwnsAllAncestors
  <2>3. ASSUME Undisturbed
        PROVE  /\ Admits(Current)
               /\ resolver \in DOMAIN signInResolvers
               /\ Vouches(signInResolvers[resolver], directory, token')
    <3>1. /\ Matching(directory, Current.key, ClaimOf(Current, identity)) = {user}
          /\ memberOf = directory[user].memberOf
      BY <2>1, <2>3 DEF OrderInv, OrderOK
    <3>2. Admits(Current)
      BY <2>1, <2>2, <3>1 DEF Admits, AttemptInv, StageOK
    <3> QED
      BY <2>1, <2>2, <3>1, <3>2, AcceptedVouches DEF AttemptInv, StageOK, Attempting
  <2> QED
    BY <2>1, <2>3, SuccessKeepsOrder DEF Attempting
<1>9. CASE EditDirectory
  <2>1. /\ UNCHANGED <<vars, deployment, identity, provider, stage, resolver, token, failed>>
        /\ seen' = seen \cup {directory'}
        /\ Attempting
    BY <1>9 DEF EditDirectory, Attempting
  <2>2. Undisturbed' => Undisturbed /\ UNCHANGED directory
    BY <2>1 DEF Undisturbed, DirectoriesOK
  <2>3. CASE UNCHANGED directory
    <3>1. UNCHANGED <<signInResolvers, Current>>
      BY <2>1 DEF signInResolvers, Current
    <3>2. NoneAdmits(resolver - 1)' <=> NoneAdmits(resolver - 1)
      BY <2>1, <2>3, AdmitsStays DEF NoneAdmits
    <3> QED
      BY <2>1, <2>2, <2>3, <3>1, <3>2
         DEF vars, OrderInv, OrderOK, ResolversDecideInOrder, Attempting
  <2> QED
    BY <2>2, <2>3 DEF OrderInv, OrderOK, ResolversDecideInOrder
<1>10. CASE UNCHANGED allVars
  <2>1. UNCHANGED <<signInVars, user, memberOf>>
    BY <1>10 DEF allVars, vars
  <2>2. /\ UNCHANGED <<signInResolvers, Current>> /\ (Undisturbed' <=> Undisturbed)
        /\ \A i : Admits(signInResolvers[i])' <=> Admits(signInResolvers[i])
        /\ \A i : Vouches(signInResolvers[i], directory, token)'
                  <=> Vouches(signInResolvers[i], directory, token)
    BY <2>1, AdmitsStays
       DEF signInVars, signInResolvers, Current, Undisturbed, Vouches
  <2>3. OrderOK'
    BY <2>1, <2>2 DEF signInVars, OrderInv, OrderOK, NoneAdmits, Attempting
  <2>4. ResolversDecideInOrder'
    BY <2>1, <2>2 DEF signInVars, OrderInv, ResolversDecideInOrder
  <2> QED
    BY <2>3, <2>4 DEF OrderInv
<1> QED
  BY <1>1, <1>2, <1>3, <1>4, <1>5, <1>6, <1>7, <1>8, <1>9, <1>10 DEF SignInNext, AttemptStep

\* While nothing fails and no user changes, the first resolver that admits the identity
\* decides, and only who is admitted by none is refused.
THEOREM FirstAdmittingResolverDecides == SignInSpec => []ResolversDecideInOrder
<1>1. SignInInit => OrderInv
  BY DEF SignInInit, OrderInv, OrderOK, ResolversDecideInOrder, Attempting
<1>2. SignInSpec => []OwnershipInv
  BY SignInImplementsWalk, OwnershipInvariant, PTL
<1>3. SignInSpec => []OrderInv
  BY <1>1, <1>2, DirectoriesInvariant, AttemptInvariant, OrderStays, PTL DEF SignInSpec
<1> QED
  BY <1>3, PTL DEF OrderInv
=============================================================================
