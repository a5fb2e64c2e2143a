---------------------------- MODULE BuildProofs ----------------------------
(***************************************************************************)
(* What Build.tla checks for two interpreters and a few runs, proved for   *)
(* any interpreters, file names, versions and numbers of runs.             *)
(***************************************************************************)
EXTENDS Build, TLAPS

\* How far a build has come, in terms of the two directories.
MoveInv ==
  /\ pc \in {"tidying", "gopy"} => DOMAIN temp \subseteq FilesOf(python) \cup leftover
  /\ pc \in {"clearing", "copying"} =>
       /\ DOMAIN temp \subseteq FilesOf(python) \cup leftover
       /\ \A f \in FilesOf(python) : f \in DOMAIN temp /\ temp[f] = source
  /\ pc = "copying" =>
       /\ todo \subseteq DOMAIN temp
       /\ DOMAIN generated = DOMAIN temp \ todo
       /\ \A f \in DOMAIN generated : generated[f] = temp[f]

\* How far dev_cleanup has come, in terms of the wheels.
WheelInv ==
  /\ pc = "rebuilding wheel" => dist = {}
  /\ pc = "installing" => dist \subseteq {[stamp |-> runs, content |-> generated]}

-----------------------------------------------------------------------------
\* A build moves its bindings over file by file and leaves none behind.
LEMMA MoveInvHolds == Spec => []MoveInv
<1>1. Init => MoveInv
  BY DEF Init, MoveInv
<1>2. MoveInv /\ [Next]_vars => MoveInv'
  <2> SUFFICES ASSUME MoveInv, [Next]_vars PROVE MoveInv'
    OBVIOUS
  <2>1. CASE EditSources \/ BuildWheel \/ DevCleanup \/ InstallNewest \/ CleanedDist
             \/ CleanupEnds \/ BuildCompletes \/ Ends
    BY <2>1 DEF EditSources, BuildWheel, DevCleanup, InstallNewest, CleanedDist, CleanupEnds,
                BuildCompletes, Ends, Start, MoveInv
  <2>2. CASE PoetryBuild("wheel", "idle") \/ PoetryBuild("rebuilding wheel", "installing")
    BY <2>2 DEF PoetryBuild, MoveInv
  <2>3. ASSUME NEW w \in dist, RemoveWheel(w) PROVE MoveInv'
    BY <2>3 DEF RemoveWheel, MoveInv
  <2>4. CASE BuildStandard \/ BuildDev
    BY <2>4 DEF BuildStandard, BuildDev, Start, GetPoetryPython, dirs, MoveInv
  <2>5. CASE Tidied
    BY <2>5 DEF Tidied, dirs, history, MoveInv
  <2>6. ASSUME NEW f \in Files, GopyWrites(f) PROVE MoveInv'
    BY <2>6 DEF GopyWrites, WithFile, history, MoveInv
  <2>7. CASE GopySucceeds
    BY <2>7 DEF GopySucceeds, dirs, history, MoveInv
  <2>8. ASSUME NEW f \in Files, Clear(f) PROVE MoveInv'
    BY <2>8 DEF Clear, history, MoveInv
  <2>9. CASE StartCopying
    BY <2>9 DEF StartCopying, ToClear, dirs, history, MoveInv
  <2>10. ASSUME NEW f \in Files, Copy(f) PROVE MoveInv'
    BY <2>10 DEF Copy, WithFile, history, MoveInv
  <2>11. CASE StartRemoving
    BY <2>11 DEF StartRemoving, dirs, MoveInv
  <2>12. ASSUME NEW f \in Files, Remove(f) PROVE MoveInv'
    BY <2>12 DEF Remove, MoveInv
  <2>13. CASE UNCHANGED vars
    BY <2>13 DEF vars, dirs, history, MoveInv
  <2> QED
    BY <2>1, <2>2, <2>3, <2>4, <2>5, <2>6, <2>7, <2>8, <2>9, <2>10, <2>11, <2>12, <2>13
    DEF Next, Bindings, Packaging
<1> QED BY <1>1, <1>2, PTL DEF Spec

\* dev_cleanup has no wheel but its own when it installs.
LEMMA WheelInvHolds == Spec => []WheelInv
<1>1. Init => WheelInv
  BY DEF Init, WheelInv
<1>2. WheelInv /\ [Next]_vars => WheelInv'
  <2> SUFFICES ASSUME WheelInv, [Next]_vars PROVE WheelInv'
    OBVIOUS
  <2>1. CASE EditSources \/ BuildStandard \/ BuildDev \/ Tidied \/ GopySucceeds
             \/ StartCopying \/ StartRemoving \/ BuildCompletes \/ BuildWheel \/ DevCleanup
             \/ InstallNewest \/ CleanupEnds \/ Ends
    BY <2>1 DEF EditSources, BuildStandard, BuildDev, Tidied, GopySucceeds, StartCopying,
                StartRemoving, BuildCompletes, BuildWheel, DevCleanup, InstallNewest,
                CleanupEnds, Ends, Start, WheelInv
  <2>2. ASSUME NEW f \in Files, GopyWrites(f) \/ Clear(f) \/ Copy(f) \/ Remove(f)
        PROVE  WheelInv'
    BY <2>2 DEF GopyWrites, Clear, Copy, Remove, WheelInv
  <2>3. CASE PoetryBuild("wheel", "idle")
    BY <2>3 DEF PoetryBuild, WheelInv
  <2>4. CASE PoetryBuild("rebuilding wheel", "installing")
    BY <2>4 DEF PoetryBuild, WheelInv
  <2>5. ASSUME NEW w \in dist, RemoveWheel(w) PROVE WheelInv'
    BY <2>5 DEF RemoveWheel, WheelInv
  <2>6. CASE CleanedDist
    BY <2>6 DEF CleanedDist, OldWheels, dirs, WheelInv
  <2>7. CASE UNCHANGED vars
    BY <2>7 DEF vars, dirs, WheelInv
  <2> QED BY <2>1, <2>2, <2>3, <2>4, <2>5, <2>6, <2>7 DEF Next, Bindings, Packaging
<1> QED BY <1>1, <1>2, PTL DEF Spec

-----------------------------------------------------------------------------
\* A directory with one more file is a directory.
LEMMA WithFileDirectory ==
  ASSUME NEW dir \in Directories, NEW f \in Files, NEW v \in 1..MaxVersion
  PROVE  WithFile(dir, f, v) \in Directories
<1>1. PICK fs \in SUBSET Files : dir \in [fs -> 1..MaxVersion]
  BY DEF Directories
<1>2. WithFile(dir, f, v) \in [fs \cup {f} -> 1..MaxVersion]
  BY <1>1 DEF WithFile
<1>3. fs \cup {f} \in SUBSET Files
  OBVIOUS
<1> QED BY <1>2, <1>3 DEF Directories

\* A directory with one file less is a directory.
LEMMA WithoutDirectory ==
  ASSUME NEW dir \in Directories, NEW f
  PROVE  Without(dir, f) \in Directories
<1>1. PICK fs \in SUBSET Files : dir \in [fs -> 1..MaxVersion]
  BY DEF Directories
<1>2. Without(dir, f) \in [fs \ {f} -> 1..MaxVersion]
  BY <1>1 DEF Without, Restrict
<1>3. fs \ {f} \in SUBSET Files
  OBVIOUS
<1> QED BY <1>2, <1>3 DEF Directories

\* What a directory holds has a known name and version.
LEMMA DirectoryEntry ==
  ASSUME NEW dir \in Directories
  PROVE  DOMAIN dir \subseteq Files /\ \A f \in DOMAIN dir : dir[f] \in 1..MaxVersion
BY DEF Directories

\* The directories hold files of known names and versions, and the wheels are
\* stamped with runs that took place.
THEOREM BuildTypeCorrect == Spec => []BuildTypeOK
<1> USE BuildAssumption
<1>1. Init => BuildTypeOK
  <2> SUFFICES ASSUME Init PROVE BuildTypeOK
    OBVIOUS
  <2>1. Empty \in [{} -> 1..MaxVersion]
    BY DEF Empty
  <2>2. Empty \in Directories
    BY <2>1 DEF Directories
  <2>3. temp \in Directories /\ generated \in Directories /\ bindings \in Directories
    BY <2>2 DEF Init
  <2>4. source \in 1..MaxVersion /\ runs \in 0..MaxRuns
    BY DEF Init
  <2> QED BY <2>3, <2>4 DEF Init, BuildTypeOK
<1>2. BuildTypeOK /\ MoveInv /\ [Next]_vars => BuildTypeOK'
  <2> SUFFICES ASSUME BuildTypeOK, MoveInv, [Next]_vars PROVE BuildTypeOK'
    OBVIOUS
  <2> runs \in 0..MaxRuns
    BY DEF BuildTypeOK
  <2>1. CASE EditSources
    BY <2>1 DEF EditSources, BuildTypeOK, dirs, history
  <2>2. CASE BuildStandard \/ BuildDev
    <3>1. DOMAIN temp \subseteq Files
      BY DirectoryEntry DEF BuildTypeOK
    <3>2. runs' \in 0..MaxRuns
      BY <2>2 DEF BuildStandard, BuildDev, Start, GetPoetryPython
    <3> QED BY <2>2, <3>1, <3>2 DEF BuildStandard, BuildDev, Start, GetPoetryPython,
             BuildTypeOK, dirs
  <2>3. CASE Tidied \/ GopySucceeds \/ BuildCompletes \/ CleanedDist \/ CleanupEnds
    BY <2>3 DEF Tidied, GopySucceeds, BuildCompletes, CleanedDist, CleanupEnds, BuildTypeOK,
                dirs, history
  <2>4. CASE StartCopying \/ StartRemoving \/ Ends
    BY <2>4, DirectoryEntry DEF StartCopying, StartRemoving, Ends, BuildTypeOK, dirs, history
  <2>5. ASSUME NEW f \in Files, GopyWrites(f) PROVE BuildTypeOK'
    <3>1. WithFile(temp, f, source) \in Directories
      BY WithFileDirectory DEF BuildTypeOK
    <3> QED BY <2>5, <3>1 DEF GopyWrites, BuildTypeOK, history
  <2>6. ASSUME NEW f \in Files, Copy(f) PROVE BuildTypeOK'
    <3>1. f \in DOMAIN temp
      BY <2>6 DEF Copy, MoveInv
    <3>2. WithFile(generated, f, temp[f]) \in Directories
      BY <3>1, WithFileDirectory, DirectoryEntry DEF BuildTypeOK
    <3> QED BY <2>6, <3>2 DEF Copy, BuildTypeOK, history
  <2>7. ASSUME NEW f \in Files, Clear(f) \/ Remove(f) PROVE BuildTypeOK'
    <3>1. Without(generated, f) \in Directories /\ Without(temp, f) \in Directories
      BY WithoutDirectory DEF BuildTypeOK
    <3> QED BY <2>7, <3>1 DEF Clear, Remove, BuildTypeOK, history
  <2>8. CASE BuildWheel \/ DevCleanup \/ InstallNewest
    <3>1. runs' \in 0..MaxRuns
      BY <2>8 DEF BuildWheel, DevCleanup, InstallNewest, Start
    <3> QED
      BY <2>8, <3>1
      DEF BuildWheel, DevCleanup, InstallNewest, Start, BuildTypeOK, dirs, history
  <2>9. CASE PoetryBuild("wheel", "idle") \/ PoetryBuild("rebuilding wheel", "installing")
    <3> DEFINE new == [stamp |-> runs, content |-> generated]
    <3>1. new.stamp \in 0..MaxRuns /\ new.content \in Directories
      BY DEF BuildTypeOK
    <3>2. \A w \in dist' : w \in dist \/ w = new
      BY <2>9 DEF PoetryBuild
    <3>3. \A w \in dist' : w.stamp \in 0..MaxRuns /\ w.content \in Directories
      <4> HIDE DEF new
      <4> QED BY <3>1, <3>2 DEF BuildTypeOK
    <3> QED BY <2>9, <3>3 DEF PoetryBuild, BuildTypeOK, history
  <2>10. ASSUME NEW w \in dist, RemoveWheel(w) PROVE BuildTypeOK'
    BY <2>10 DEF RemoveWheel, BuildTypeOK, history
  <2>11. CASE UNCHANGED vars
    BY <2>11 DEF vars, BuildTypeOK, dirs, history
  <2> QED
    BY <2>1, <2>2, <2>3, <2>4, <2>5, <2>6, <2>7, <2>8, <2>9, <2>10, <2>11
    DEF Next, Bindings, Packaging
<1> QED BY <1>1, <1>2, MoveInvHolds, PTL DEF Spec

\* Whatever fails and whenever: only a run that ends within the move spoils the
\* bindings, and only until the next build that succeeds.
THEOREM BindingsSurviveHolds == Spec => []BindingsSurvive
<1>1. Init => BindingsSurvive
  BY DEF Init, BindingsSurvive
<1>2. BindingsSurvive /\ [Next]_vars => BindingsSurvive'
  <2> SUFFICES ASSUME BindingsSurvive, [Next]_vars PROVE BindingsSurvive'
    OBVIOUS
  <2>1. CASE EditSources \/ BuildStandard \/ BuildDev \/ Tidied \/ GopySucceeds
             \/ BuildCompletes \/ BuildWheel \/ DevCleanup \/ CleanedDist \/ InstallNewest
             \/ CleanupEnds
    BY <2>1 DEF EditSources, BuildStandard, BuildDev, Tidied, GopySucceeds, BuildCompletes,
                BuildWheel, DevCleanup, CleanedDist, InstallNewest, CleanupEnds, Start,
                dirs, history, BindingsSurvive
  <2>2. ASSUME NEW f \in Files, GopyWrites(f) \/ Clear(f) \/ Copy(f) \/ Remove(f)
        PROVE  BindingsSurvive'
    BY <2>2 DEF GopyWrites, Clear, Copy, Remove, history, BindingsSurvive
  <2>3. CASE StartCopying
    BY <2>3 DEF StartCopying, BindingsSurvive
  <2>4. CASE StartRemoving
    BY <2>4 DEF StartRemoving, dirs, BindingsSurvive
  <2>5. CASE PoetryBuild("wheel", "idle") \/ PoetryBuild("rebuilding wheel", "installing")
    BY <2>5 DEF PoetryBuild, history, BindingsSurvive
  <2>6. ASSUME NEW w \in dist, RemoveWheel(w) PROVE BindingsSurvive'
    BY <2>6 DEF RemoveWheel, history, BindingsSurvive
  <2>7. CASE Ends
    BY <2>7 DEF Ends, dirs, BindingsSurvive
  <2>8. CASE UNCHANGED vars
    BY <2>8 DEF vars, dirs, history, BindingsSurvive
  <2> QED BY <2>1, <2>2, <2>3, <2>4, <2>5, <2>6, <2>7, <2>8 DEF Next, Bindings, Packaging
<1> QED BY <1>1, <1>2, PTL DEF Spec

\* A build that succeeds leaves nothing of the bindings before it.
THEOREM BindingsAreNewHolds == Spec => []BindingsAreNew
<1>1. Init => BindingsAreNew
  BY DEF Init, BindingsAreNew
<1>2. BindingsAreNew /\ MoveInv /\ [Next]_vars => BindingsAreNew'
  <2> SUFFICES ASSUME BindingsAreNew, MoveInv, [Next]_vars, (pc = "removing")'
               PROVE  BindingsAreNew'
    BY DEF BindingsAreNew
  <2>1. CASE pc = "removing"
    BY <2>1 DEF Next, Bindings, Packaging, EditSources, BuildStandard, BuildDev, Start, Tidied,
                GopySucceeds, StartCopying, StartRemoving, BuildCompletes, GopyWrites, Clear,
                Copy, Remove, BuildWheel, PoetryBuild, DevCleanup, CleanedDist, InstallNewest,
                CleanupEnds, RemoveWheel, Ends, vars, dirs, history, BindingsAreNew
  <2>2. CASE pc # "removing"
    <3>1. StartRemoving
      BY <2>2 DEF Next, Bindings, Packaging, EditSources, BuildStandard, BuildDev, Start,
                  Tidied, GopySucceeds, StartCopying, BuildCompletes, GopyWrites,
                  Clear, Copy, Remove, BuildWheel, PoetryBuild, DevCleanup, CleanedDist,
                  InstallNewest, CleanupEnds, RemoveWheel, Ends, vars
    <3> QED BY <3>1 DEF StartRemoving, dirs, MoveInv, BindingsAreNew
  <2> QED BY <2>1, <2>2
<1> QED BY <1>1, <1>2, MoveInvHolds, PTL DEF Spec

\* No old wheel is installed, and with nothing installed before it is the wheel
\* of this run (dev_cleanup.py 48-72).
THEOREM InstalledIsFreshHolds == Spec => InstalledIsFresh
<1> DEFINE Fresh ==
      /\ installed' \notin {installed, NoWheel} => installed' = Rebuilt
      /\ pc = "installing" /\ pc' = "installed" /\ installed = NoWheel => installed' = Rebuilt
<1>1. BuildTypeOK /\ WheelInv /\ [Next]_vars => [Fresh]_vars
  <2> SUFFICES ASSUME BuildTypeOK, WheelInv, [Next]_vars PROVE Fresh
    OBVIOUS
  <2>1. CASE InstallNewest
    <3>1. dist = {Rebuilt}
      BY <2>1 DEF InstallNewest, WheelInv, Rebuilt
    <3>2. NewestWheel = Rebuilt
      <4>1. runs \in 0..MaxRuns
        BY DEF BuildTypeOK
      <4>2. \A n \in 0..MaxRuns : n <= n
        OBVIOUS
      <4> QED BY <3>1, <4>1, <4>2 DEF NewestWheel, Rebuilt
    <3> QED BY <2>1, <3>2 DEF InstallNewest
  <2>2. CASE ~InstallNewest
    <3>1. installed' \in {installed, NoWheel} /\ ~(pc = "installing" /\ pc' = "installed")
      BY <2>2 DEF Next, Bindings, Packaging, EditSources, BuildStandard, BuildDev, Start, Tidied,
                  GopySucceeds, StartCopying, StartRemoving, BuildCompletes, GopyWrites, Clear,
                  Copy, Remove, BuildWheel, PoetryBuild, DevCleanup, CleanedDist, CleanupEnds,
                  RemoveWheel, Ends, vars, dirs
    <3> QED BY <3>1
  <2> QED BY <2>1, <2>2
<1> QED BY <1>1, BuildTypeCorrect, WheelInvHolds, PTL DEF Spec, InstalledIsFresh
=============================================================================
