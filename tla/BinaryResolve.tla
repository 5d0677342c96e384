----------------------------- MODULE BinaryResolve -----------------------------
(***************************************************************************)
(* FreenetBinary::resolve (src/binary.rs): cargo builds the binary, then   *)
(* the file is looked for where it should be, while sources are edited and *)
(* other test programs build.  Cargo follows CARGO_TARGET_DIR, relative to *)
(* the directory it is started in; the code does not always.               *)
(***************************************************************************)
EXTENDS Integers

CONSTANT MaxVersion   \* bound of the versions of the source

ASSUME VersionAssumption == MaxVersion \in Nat \ {0}

Kinds == {"CurrentCrate", "Workspace", "Installed", "Path"}
Profiles == {"Debug", "Release"}

\* Target directories: in the workspace, $CARGO_TARGET_DIR as cargo takes it, from the root of
\* the workspace, and as it is taken from the directory the program runs in.
Places == {"target", "env", "envFromCwd"}

Missing == 0

VARIABLES
  kind, profile,  \* FreenetBinary
  target_env,     \* CARGO_TARGET_DIR: "unset", "absolute" or "relative"
  at_root,        \* the program runs in the root of the workspace
  version,        \* of the source
  files,          \* version of the binary in each place and profile, and elsewhere
  step,           \* "resolve", "locate", "resolved" or "error"
  built,          \* the version cargo has built
  binary          \* the version of the resolved binary

choices == <<kind, profile, target_env, at_root>>
resolveVars == <<choices, version, files, step, built, binary>>

Builds == kind \in {"CurrentCrate", "Workspace"}

\* Where cargo puts the binary.
CargoPlace == IF target_env = "unset" THEN "target" ELSE "env"

\* Where build_current_workspace looks.
CurrentPlace == IF target_env = "relative" /\ ~at_root THEN "envFromCwd" ELSE CargoPlace

\* Where build_workspace looks.
WorkspacePlace == "target"

\* Mutant: debug whatever the profile.
ProfileDir_Debug == "Debug"

ProfileDir == profile

\* The source is edited; somebody else builds.
Edit ==
  /\ version < MaxVersion /\ version' = version + 1
  /\ UNCHANGED <<choices, files, step, built, binary>>

OtherBuilds(place, p) ==
  /\ files' = [files EXCEPT ![<<place, p>>] = version]
  /\ UNCHANGED <<choices, version, step, built, binary>>

Fails == step' = "error" /\ UNCHANGED binary

\* cargo build, in the workspace's root, which may not be found.
CargoBuild ==
  /\ step = "resolve" /\ Builds
  /\ \/ /\ files' = [files EXCEPT ![<<CargoPlace, profile>>] = version]
        /\ built' = version /\ step' = "locate" /\ UNCHANGED binary
     \/ Fails /\ UNCHANGED <<files, built>>
  /\ UNCHANGED <<choices, version>>

Finds(place, p) ==
  IF files[<<place, p>>] = Missing THEN Fails
  ELSE binary' = files[<<place, p>>] /\ step' = "resolved"

\* binary.exists()
Locate ==
  /\ step = "locate"
  /\ Finds(IF kind = "CurrentCrate" THEN CurrentPlace ELSE WorkspacePlace, ProfileDir)
  /\ UNCHANGED <<choices, version, files, built>>

\* Installed, Path: a file from anywhere, or none.
Takes ==
  /\ step = "resolve" /\ ~Builds
  /\ \/ binary' \in 1..version /\ step' = "resolved"
     \/ Fails
  /\ UNCHANGED <<choices, version, files, built>>

ResolveInit ==
  /\ kind \in Kinds /\ profile \in Profiles
  /\ target_env \in {"unset", "absolute", "relative"} /\ at_root \in BOOLEAN
  /\ version = 1
  /\ files = [f \in Places \X Profiles |-> Missing]
  /\ step = "resolve" /\ built = Missing /\ binary = Missing

ResolveNext ==
  \/ Edit
  \/ \E place \in Places, p \in Profiles : OtherBuilds(place, p)
  \/ CargoBuild \/ Locate \/ Takes

ResolveSpec == ResolveInit /\ [][ResolveNext]_resolveVars

-----------------------------------------------------------------------------
\* Properties

\* The type invariant: there is a binary if and only if it has been resolved.
ResolveTypeOK ==
  /\ kind \in Kinds /\ profile \in Profiles /\ target_env \in {"unset", "absolute", "relative"}
  /\ at_root \in BOOLEAN /\ version \in 1..MaxVersion
  /\ files \in [Places \X Profiles -> 0..MaxVersion]
  /\ step \in {"resolve", "locate", "resolved", "error"}
  /\ built \in 0..MaxVersion /\ binary \in 0..MaxVersion
  /\ binary # Missing <=> step = "resolved"

\* The code looks for what cargo has built in another place: a workspace is named and
\* CARGO_TARGET_DIR set, or that is a relative path and the program not at the root.
LooksElsewhere ==
  \/ kind = "Workspace" /\ target_env # "unset"
  \/ kind = "CurrentCrate" /\ target_env = "relative" /\ ~at_root

\* The binary a network is started with is the one that was just built for it, or a newer one
\* that somebody else built over it, never a stale one that lay where the code looks; and
\* that it was built means that it is found (binary.rs:140-161, 192-205).
NeverStale ==
  Builds /\ ~LooksElsewhere =>
    /\ step = "resolved" => binary >= built
    /\ step = "error" => built = Missing
=============================================================================
