------------------------------- MODULE Build -------------------------------
(***************************************************************************)
(* The directory with the generated bindings, the directory with the       *)
(* wheels and the installed package, as build.py and dev_cleanup.py change *)
(* them.  A developer runs one of them at a time, edits the Go sources in  *)
(* between, and may see a run end at any point: a tool that fails, a full  *)
(* disk, an interrupt.  Files survive that.                                *)
(*                                                                         *)
(* A directory is a function from the names of its files to the version of *)
(* the sources that they were made from.                                   *)
(***************************************************************************)
EXTENDS Integers, Functions

CONSTANTS
  Pythons,     \* interpreters the bindings can be built for
  FilesOf(_),  \* the names that gopy gives to the files for one of them
  MaxVersion,  \* bound on the versions of the sources
  MaxRuns,     \* bound on the runs of the scripts
  NoWheel

ASSUME BuildAssumption ==
  /\ MaxVersion \in Nat \ {0}
  /\ MaxRuns \in Nat

VARIABLES
  source,      \* version of the Go sources
  temp,        \* ohbother/core/_generated
  generated,   \* ohbother/generated
  dist,        \* wheels in dist: when each was built, and the bindings in it
  installed,   \* the wheel that pip has installed
  pc,
  python,      \* interpreter of this build
  todo,        \* files that are still to be copied
  runs,        \* history: runs so far, also the time that wheels are stamped with
  leftover,    \* history: names in temp when gopy was started
  bindings,    \* history: what the last successful build has made
  torn         \* history: a build ended while it moved the files

dirs == <<temp, generated, dist, installed>>
history == <<leftover, bindings, torn>>
vars == <<source, dirs, pc, python, todo, runs, history>>

Empty == [f \in {} |-> 0]
Files == UNION {FilesOf(p) : p \in Pythons}
WithFile(dir, f, v) == [g \in DOMAIN dir \cup {f} |-> IF g = f THEN v ELSE dir[g]]
Without(dir, f) == Restrict(dir, DOMAIN dir \ {f})

Init ==
  /\ source = 1 /\ runs = 0
  /\ temp = Empty /\ generated = Empty /\ dist = {} /\ installed = NoWheel
  /\ pc = "idle" /\ python \in Pythons /\ todo = {}
  /\ leftover = {} /\ bindings = Empty /\ torn = FALSE

EditSources ==
  /\ pc = "idle"
  /\ source < MaxVersion
  /\ source' = source + 1
  /\ UNCHANGED <<dirs, pc, python, todo, runs, history>>

-----------------------------------------------------------------------------
(***************************************************************************)
(* Faulty variants, not used by the specification, each named after the    *)
(* definition below that it breaks.                                        *)
(***************************************************************************)
\* GopyWrites for a gopy that is given the destination as its -output.
GopyWritesInPlace(f) ==
  /\ pc = "gopy"
  /\ f \in FilesOf(python)
  /\ f \in DOMAIN temp => temp[f] # source
  /\ temp' = WithFile(temp, f, source)
  /\ generated' = WithFile(generated, f, source)
  /\ UNCHANGED <<source, dist, installed, pc, python, todo, runs, history>>

\* The destination not cleared.
ToClearNothing == {}

\* Old wheels not removed.
OldWheelsNone == {}

-----------------------------------------------------------------------------
\* A script is started; install_go_deps and setup_environment change no file
\* of the project.
Start(to) ==
  /\ pc = "idle"
  /\ runs < MaxRuns
  /\ runs' = runs + 1
  /\ pc' = to

\* The interpreter of the poetry environment if there is one, else the running one.
GetPoetryPython == python' \in Pythons

BuildStandard ==
  /\ Start("gopy")
  /\ GetPoetryPython
  /\ leftover' = DOMAIN temp
  /\ UNCHANGED <<source, dirs, todo, bindings, torn>>

\* build_dev names an interpreter itself and tidies the Go module first.
BuildDev ==
  /\ Start("tidying")
  /\ python' \in Pythons
  /\ leftover' = DOMAIN temp
  /\ UNCHANGED <<source, dirs, todo, bindings, torn>>

Tidied ==
  /\ pc = "tidying"
  /\ pc' = "gopy"
  /\ UNCHANGED <<source, dirs, python, todo, runs, history>>

\* gopy build writes into what is there.
GopyWrites(f) ==
  /\ pc = "gopy"
  /\ f \in FilesOf(python)
  /\ f \in DOMAIN temp => temp[f] # source
  /\ temp' = WithFile(temp, f, source)
  /\ UNCHANGED <<source, generated, dist, installed, pc, python, todo, runs, history>>

GopySucceeds ==
  /\ pc = "gopy"
  /\ \A f \in FilesOf(python) : f \in DOMAIN temp /\ temp[f] = source
  /\ pc' = "clearing"
  /\ UNCHANGED <<source, dirs, python, todo, runs, history>>

\* What is removed from the destination.
ToClear == DOMAIN generated

Clear(f) ==
  /\ pc = "clearing"
  /\ f \in ToClear
  /\ generated' = Without(generated, f)
  /\ UNCHANGED <<source, temp, dist, installed, pc, python, todo, runs, history>>

StartCopying ==
  /\ pc = "clearing"
  /\ ToClear = {}
  /\ pc' = "copying"
  /\ todo' = DOMAIN temp
  /\ UNCHANGED <<source, dirs, python, runs, history>>

Copy(f) ==
  /\ pc = "copying"
  /\ f \in todo
  /\ todo' = todo \ {f}
  /\ generated' = WithFile(generated, f, temp[f])
  /\ UNCHANGED <<source, temp, dist, installed, pc, python, runs, history>>

StartRemoving ==
  /\ pc = "copying"
  /\ todo = {}
  /\ pc' = "removing"
  /\ bindings' = generated
  /\ torn' = FALSE
  /\ UNCHANGED <<source, dirs, python, todo, runs, leftover>>

\* shutil.rmtree(temp_dir)
Remove(f) ==
  /\ pc = "removing"
  /\ f \in DOMAIN temp
  /\ temp' = Without(temp, f)
  /\ UNCHANGED <<source, generated, dist, installed, pc, python, todo, runs, history>>

BuildCompletes ==
  /\ pc = "removing"
  /\ DOMAIN temp = {}
  /\ pc' = "idle"
  /\ UNCHANGED <<source, dirs, python, todo, runs, history>>

-----------------------------------------------------------------------------
\* build.py --poetry, make_poetry_wheel
BuildWheel ==
  /\ Start("wheel")
  /\ UNCHANGED <<source, dirs, python, todo, history>>

\* poetry build: it may fail, before or after it has written the wheel, which
\* replaces one of the same version.  main drops what make_poetry_wheel returns,
\* so that the script goes on, and so does whoever waits for it (then).
PoetryBuild(from, then) ==
  /\ pc = from
  /\ \/ UNCHANGED dist
     \/ \E same \in SUBSET dist :
          dist' = (dist \ same) \cup {[stamp |-> runs, content |-> generated]}
  /\ pc' = then
  /\ UNCHANGED <<source, temp, generated, installed, python, todo, runs, history>>

\* dev_cleanup.py: pip uninstall, whose exit code is not looked at.
DevCleanup ==
  /\ Start("cleaning")
  /\ installed' \in {installed, NoWheel}
  /\ UNCHANGED <<source, temp, generated, dist, python, todo, history>>

OldWheels == dist

RemoveWheel(w) ==
  /\ pc = "cleaning"
  /\ w \in OldWheels
  /\ dist' = dist \ {w}
  /\ UNCHANGED <<source, temp, generated, installed, pc, python, todo, runs, history>>

CleanedDist ==
  /\ pc = "cleaning"
  /\ OldWheels = {}
  /\ pc' = "rebuilding wheel"
  /\ UNCHANGED <<source, dirs, python, todo, runs, history>>

\* The newest wheel is installed; without one dev_cleanup fails.  If the uninstall
\* failed, pip still has the package: it replaces another version, and leaves one
\* of the same version as it is, which is no failure.
NewestWheel == CHOOSE w \in dist : \A u \in dist : u.stamp <= w.stamp

InstallNewest ==
  /\ pc = "installing"
  /\ dist # {}
  /\ \/ installed' = NewestWheel
     \/ installed # NoWheel /\ UNCHANGED installed
  /\ pc' = "installed"
  /\ UNCHANGED <<source, temp, generated, dist, python, todo, runs, history>>

CleanupEnds ==
  /\ pc = "installed"
  /\ pc' = "idle"
  /\ UNCHANGED <<source, dirs, python, todo, runs, history>>

\* A script ends early: a tool fails and check=True raises, dev_cleanup exits,
\* the disk is full, the process is killed.  Nothing is undone.
Ends ==
  /\ pc # "idle"
  /\ pc' = "idle"
  /\ torn' = (torn \/ pc \in {"clearing", "copying"})
  /\ todo' = {}
  /\ UNCHANGED <<source, dirs, python, runs, leftover, bindings>>

-----------------------------------------------------------------------------
Bindings ==
  \/ BuildStandard \/ BuildDev \/ Tidied \/ GopySucceeds \/ StartCopying \/ StartRemoving
  \/ BuildCompletes
  \/ \E f \in Files : GopyWrites(f) \/ Clear(f) \/ Copy(f) \/ Remove(f)

Packaging ==
  \/ BuildWheel \/ PoetryBuild("wheel", "idle")
  \/ DevCleanup \/ CleanedDist \/ PoetryBuild("rebuilding wheel", "installing")
  \/ InstallNewest \/ CleanupEnds
  \/ \E w \in dist : RemoveWheel(w)

Next == EditSources \/ Bindings \/ Packaging \/ Ends

Spec == Init /\ [][Next]_vars

-----------------------------------------------------------------------------
(***************************************************************************)
(* Properties                                                              *)
(***************************************************************************)
Directories == UNION {[fs -> 1..MaxVersion] : fs \in SUBSET Files}

BuildTypeOK ==
  /\ source \in 1..MaxVersion /\ runs \in 0..MaxRuns
  /\ temp \in Directories /\ generated \in Directories /\ bindings \in Directories
  /\ \A w \in dist : w.stamp \in 0..MaxRuns /\ w.content \in Directories
  /\ pc \in {"idle", "tidying", "gopy", "clearing", "copying", "removing", "wheel",
             "cleaning", "rebuilding wheel", "installing", "installed"}
  /\ python \in Pythons /\ todo \subseteq Files /\ leftover \subseteq Files
  /\ torn \in BOOLEAN

\* Outside the move the bindings are what the last successful build made: a tool
\* that fails before leaves them alone, and only a run that ends within the move
\* spoils them, until the next successful build (build.py 113-150).
BindingsSurvive ==
  ~torn /\ pc \notin {"clearing", "copying"} => generated = bindings

\* A successful build leaves its own files in the version of the sources, and no
\* other file but those of an earlier build that failed and left its directory
\* behind: nothing stays from the bindings before.
BindingsAreNew ==
  pc = "removing" =>
    /\ \A f \in FilesOf(python) : f \in DOMAIN generated /\ generated[f] = source
    /\ DOMAIN generated \ FilesOf(python) \subseteq leftover

\* What a run makes of the bindings that are there.
Rebuilt == [stamp |-> runs, content |-> generated]

\* No old wheel is ever installed, although dev_cleanup cannot see that poetry
\* failed, and once the uninstall has worked it ends well only with the wheel of
\* this very run (dev_cleanup.py 48-72, build.py 292-294 and 324).
InstalledIsFresh ==
  [][/\ installed' \notin {installed, NoWheel} => installed' = Rebuilt
     /\ pc = "installing" /\ pc' = "installed" /\ installed = NoWheel
          => installed' = Rebuilt]_vars
=============================================================================
