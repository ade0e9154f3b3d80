------------------------------ MODULE PinStore ------------------------------
(***************************************************************************)
(* What the pre-step promises about digests, without its rows, pods or     *)
(* registry: a selection is pinned at most once in its life, only digests  *)
(* are published, and what is published never contradicts a pin.           *)
(***************************************************************************)
CONSTANTS Packages, Digests, NoDigest, NoRow

VARIABLES
  pin,        \* the digest pinned for a selection, NoDigest, or NoRow
  published   \* the <<selection, digest>> pairs handed to the installer

pinVars == <<pin, published>>

Init ==
  /\ pin = [n \in Packages |-> NoRow]
  /\ published = {}

\* The user adds a selection, unpinned.
Add(n) ==
  /\ pin[n] = NoRow
  /\ pin' = [pin EXCEPT ![n] = NoDigest]
  /\ UNCHANGED published

\* The user removes a selection, and its pin with it.
Remove(n) ==
  /\ pin' = [pin EXCEPT ![n] = NoRow]
  /\ UNCHANGED published

\* A selection is pinned once.
PinOnce(n, digest) ==
  /\ pin[n] = NoDigest
  /\ pin' = [pin EXCEPT ![n] = digest]
  /\ UNCHANGED published

\* One digest per selection, the pinned one if there is one.  A selection removed
\* meanwhile, or one whose pin could not be stored, may be published unpinned.
Publish ==
  /\ published' \in SUBSET (Packages \X Digests)
  /\ \A a, b \in published' : a[1] = b[1] => a = b
  /\ \A a \in published' : pin[a[1]] \in {NoRow, NoDigest, a[2]}
  /\ UNCHANGED pin

\* The volume is lost.
Lose == published' = {} /\ UNCHANGED pin

Next ==
  \/ \E n \in Packages :
       Add(n) \/ Remove(n) \/ \E digest \in Digests : PinOnce(n, digest)
  \/ Publish \/ Lose

Spec == Init /\ [][Next]_pinVars
=============================================================================
