--------------------------- MODULE PluginIdentity ---------------------------
(***************************************************************************)
(* How the boot scripts decide that two package references name one        *)
(* plugin.  A reference is the record the scripts take a string apart      *)
(* into, never the string itself:                                          *)
(*                                                                         *)
(*   kind      oci      oci://<stem>:<version>!<selector>                   *)
(*             npm      <stem>@<version>                                    *)
(*             tarball  a URL whose last "@" ends <stem>; <version> is the  *)
(*                      rest of the URL, package name included              *)
(*             local    ./<stem>                                            *)
(*   stem      the repository, the npm name, the URL prefix or the path     *)
(*   version   a tag or a digest, an npm version, the rest of the URL       *)
(*   selector  the part behind "!" of an OCI reference, or NoSelector       *)
(***************************************************************************)
EXTENDS Naturals

CONSTANTS
  Stems,       \* repositories, npm names, URL prefixes and paths
  Versions,    \* tags, digests, npm versions and URL remainders
  Digests,     \* the versions that are manifest digests
  Selectors,   \* plugin paths behind "!"
  NoSelector,  \* splitOciRef's null selector
  NoRef        \* an absent reference

ASSUME IdentityAssumption ==
  /\ Digests \subseteq Versions
  /\ NoSelector \notin Selectors

PackageRef ==
  [kind     : {"oci", "npm", "tarball", "local"},
   stem     : Stems,
   version  : Versions,
   selector : Selectors \cup {NoSelector}]

ASSUME NoRefAssumption == NoRef \notin PackageRef

\* splitOciRef returns null for everything that is not an OCI reference.
IsOci(ref) == ref.kind = "oci"

\* The image addressed by digest instead of by tag; the selector survives.
refWithDigest(ref, digest) ==
  IF IsOci(ref) THEN [ref EXCEPT !.version = digest] ELSE ref

\* The collision key: versions are stripped.  A tarball URL is cut at its last
\* "@", so what is left of it need not name one plugin.
normalizePluginKey(ref) ==
  CASE ref.kind = "oci"   -> <<"oci", ref.stem, ref.selector>>
    [] ref.kind = "local" -> <<"path", ref.stem, NoSelector>>
    [] OTHER              -> <<"name", ref.stem, NoSelector>>

\* A selector-less OCI reference matches every selector of its repository, which
\* makes the relation symmetric but not transitive.
samePlugin(a, b) ==
  IF IsOci(a) /\ IsOci(b) /\ a.stem = b.stem
    THEN \/ NoSelector \in {a.selector, b.selector}
         \/ a.selector = b.selector
    ELSE normalizePluginKey(a) = normalizePluginKey(b)

\* The key under which the installer refuses two enabled entries.  The installer
\* is not in this repository: registry and plugin path for OCI (the path of a
\* selector-less reference is read from the image, paths[repository]), the name
\* for npm, the whole URL for a tarball, the path for a local directory.
InstallerKey(ref, paths) ==
  CASE ref.kind = "oci" ->
         <<"oci", ref.stem, IF ref.selector = NoSelector THEN paths[ref.stem]
                                                         ELSE ref.selector>>
    [] ref.kind = "tarball" -> <<"tarball", ref.stem, ref.version>>
    [] OTHER -> <<ref.kind, ref.stem, NoSelector>>
=============================================================================
