----------------------------- MODULE EnginePackage -----------------------------
(***************************************************************************)
(* The private engine package: the command that copies, validates and      *)
(* activates one (engine/installer.py), and the requests that load the     *)
(* active one file by file (engine/package.py) and read its files once     *)
(* more for the index (analysis/service.py) while it may be replaced.      *)
(* One installation runs at a time; it may end at any step.                *)
(***************************************************************************)
EXTENDS Naturals, Sequences, FiniteSets, SequencesExt

CONSTANTS
    Packages,     \* source directories: functions of their parts
    Files,        \* CANONICAL_ACTIVE_FILENAMES, as a sequence
    Loaders,      \* requests that load the active package
    MaxInstalls,  \* bound on the runs of the command
    MaxLoads      \* bound on the loads

VARIABLES
    dirs,         \* staging, current, previous: [there, parts]
    installer,    \* the command: [at, source, force, hadCurrent]
    loader,       \* request -> [phase, next, failed, got, index]
    installs,     \* runs so far
    loads,        \* loads so far
    active        \* the package that was activated last

engineVars == <<dirs, installer, loader, installs, loads, active>>

FileSet == ToSet(Files)
PackageParts == {"manifest", "checksums", "instructions"} \cup FileSet

\* A digest stands for what it is the digest of: manifest and checksums hold
\* the content they expect of each file.
Sound(parts) ==
    /\ DOMAIN parts = PackageParts
    /\ \A f \in FileSet : parts["manifest"].files[f] = parts[f] /\ parts["checksums"][f] = parts[f]
    /\ parts["checksums"]["instructions"] = parts["instructions"]

IsFunction(parts) == parts = [p \in DOMAIN parts |-> parts[p]]

ASSUME FilesAssumption ==
    /\ Files \in Seq(STRING) /\ Files # <<>>
    /\ FileSet \cap {"manifest", "checksums", "instructions"} = {}
    /\ \A p \in Packages : IsFunction(p)

Nothing == <<>>
Absent == [there |-> FALSE, parts |-> Nothing]
Directory(parts) == [there |-> TRUE, parts |-> parts]
Rest == [at |-> "idle", source |-> Nothing, force |-> FALSE, hadCurrent |-> FALSE]
LoadAt(phase) == [phase |-> phase, next |-> 0, failed |-> FALSE, got |-> Nothing, index |-> Nothing]
NotLoading == LoadAt("idle")

EngineInit ==
    /\ dirs = [d \in {"staging", "current", "previous"} |-> Absent]
    /\ installer = Rest
    /\ loader = [r \in Loaders |-> NotLoading]
    /\ installs = 0 /\ loads = 0
    /\ active = Nothing

-----------------------------------------------------------------------------
(* The command.                                                            *)

Installing(point) == installer.at = point
Reaches(point) == installer' = [installer EXCEPT !.at = point]
Ends == installer' = Rest
Untouched == UNCHANGED <<loader, installs, loads>>

\* An old staging directory is removed first.
StartInstall(source, force) ==
    /\ Installing("idle") /\ installs < MaxInstalls
    /\ installs' = installs + 1
    /\ installer' = [Rest EXCEPT !.at = "clear", !.source = source, !.force = force]
    /\ UNCHANGED <<dirs, loader, loads, active>>

ClearStaging ==
    /\ Installing("clear")
    /\ dirs' = [dirs EXCEPT !["staging"] = Absent]
    /\ Reaches("copy")
    /\ Untouched /\ UNCHANGED active

CopyPackage ==
    /\ Installing("copy")
    /\ \/ dirs' = [dirs EXCEPT !["staging"] = Directory(installer.source)] /\ Reaches("validate")
       \/ UNCHANGED dirs /\ Ends
    /\ Untouched /\ UNCHANGED active

AlreadyCurrent == dirs["current"].there /\ ~installer.force /\ dirs["current"] = dirs["staging"]

ValidateStaging ==
    /\ Installing("validate")
    /\ IF Sound(dirs["staging"].parts) /\ ~AlreadyCurrent
         THEN /\ installer' = [installer EXCEPT !.at = "swap", !.hadCurrent = dirs["current"].there]
              /\ UNCHANGED dirs
         ELSE dirs' = [dirs EXCEPT !["staging"] = Absent] /\ Ends
    /\ Untouched /\ UNCHANGED active

\* What an interrupted copy or removal has left.
Remnants(parts) == {[p \in kept |-> parts[p]] : kept \in SUBSET DOMAIN parts}

\* The mutant removes the older package before it knows that there is a current one.
RemoveAnyPrevious ==
    /\ Installing("swap")
    /\ dirs' = [dirs EXCEPT !["previous"] = Absent]
    /\ IF installer.hadCurrent THEN Reaches("set aside") ELSE Reaches("activate")
    /\ Untouched /\ UNCHANGED active
RemovePrevious ==
    /\ Installing("swap")
    /\ IF installer.hadCurrent
         THEN \/ dirs' = [dirs EXCEPT !["previous"] = Absent] /\ Reaches("set aside")
              \/ \E left \in Remnants(dirs["previous"].parts) :   \* OSError
                   /\ dirs["previous"].there
                   /\ dirs' = [dirs EXCEPT !["previous"] = Directory(left), !["staging"] = Absent]
                   /\ Ends
         ELSE UNCHANGED dirs /\ Reaches("activate")
    /\ Untouched /\ UNCHANGED active

SetAside ==
    /\ Installing("set aside")
    /\ \/ dirs' = [dirs EXCEPT !["previous"] = dirs["current"], !["current"] = Absent] /\ Reaches("activate")
       \/ dirs' = [dirs EXCEPT !["staging"] = Absent] /\ Ends
    /\ Untouched /\ UNCHANGED active

\* A rename that fails puts the set aside package back, if that does not fail too.
Activate ==
    /\ Installing("activate")
    /\ \/ /\ dirs' = [dirs EXCEPT !["current"] = dirs["staging"], !["staging"] = Absent]
          /\ active' = dirs["staging"].parts
       \/ /\ dirs' = [dirs EXCEPT !["staging"] = Absent]
          /\ UNCHANGED active
       \/ /\ installer.hadCurrent
          /\ dirs' = [dirs EXCEPT !["current"] = dirs["previous"], !["previous"] = Absent, !["staging"] = Absent]
          /\ UNCHANGED active
    /\ Ends
    /\ Untouched

\* The process ends, with what it was about to copy or to remove half done.
Interrupted ==
    /\ ~Installing("idle")
    /\ \/ UNCHANGED dirs
       \/ /\ Installing("copy")
          /\ \E left \in Remnants(installer.source) : dirs' = [dirs EXCEPT !["staging"] = Directory(left)]
       \/ /\ installer.at \in {"clear", "validate"} /\ dirs["staging"].there
          /\ \E left \in Remnants(dirs["staging"].parts) : dirs' = [dirs EXCEPT !["staging"] = Directory(left)]
       \/ /\ Installing("swap") /\ installer.hadCurrent /\ dirs["previous"].there
          /\ \E left \in Remnants(dirs["previous"].parts) : dirs' = [dirs EXCEPT !["previous"] = Directory(left)]
    /\ Ends
    /\ Untouched /\ UNCHANGED active

InstallerStep ==
    \/ \E source \in Packages, force \in BOOLEAN : StartInstall(source, force)
    \/ ClearStaging \/ CopyPackage \/ ValidateStaging \/ RemovePrevious \/ SetAside \/ Activate
    \/ Interrupted

-----------------------------------------------------------------------------
(* A request that loads the active package.                                *)

Here == dirs["current"].parts
Loading(r, phase) == loader[r].phase = phase
Loads(r, record) ==
    /\ loader' = [loader EXCEPT ![r] = record]
    /\ UNCHANGED <<dirs, installer, installs, active>>

\* Without a current package the request is refused.
LoadPackage(r) ==
    /\ loader[r].phase \in {"idle", "done"} /\ loads < MaxLoads
    /\ dirs["current"].there
    /\ loads' = loads + 1
    /\ Loads(r, LoadAt("manifest"))

ReadManifest(r) ==
    /\ Loading(r, "manifest")
    /\ Loads(r, IF "manifest" \in DOMAIN Here
                  THEN [loader[r] EXCEPT !.phase = "checksums", !.got = [p \in {"manifest"} |-> Here[p]]]
                  ELSE [loader[r] EXCEPT !.phase = "done", !.failed = TRUE])
    /\ UNCHANGED loads

Reads(record, part, next) ==
    IF part \in DOMAIN Here
      THEN [record EXCEPT !.phase = next,
                          !.got = [p \in DOMAIN @ \cup {part} |-> IF p = part THEN Here[p] ELSE @[p]]]
      ELSE [record EXCEPT !.phase = next, !.failed = TRUE]

ReadChecksums(r) ==
    /\ Loading(r, "checksums")
    /\ Loads(r, Reads(loader[r], "checksums", "list"))
    /\ UNCHANGED loads

ListActive(r) ==
    /\ Loading(r, "list")
    /\ Loads(r, IF ~dirs["current"].there
                  THEN [loader[r] EXCEPT !.phase = "done", !.failed = TRUE]
                  ELSE [loader[r] EXCEPT !.phase = "instructions", !.failed = @ \/ ~(FileSet \subseteq DOMAIN Here)])
    /\ UNCHANGED loads

Expected(got, f) == "checksums" \in DOMAIN got /\ got["checksums"][f] = Here[f]

ReadInstructions(r) ==
    /\ Loading(r, "instructions")
    /\ LET read == Reads(loader[r], "instructions", "files") IN
       Loads(r, [read EXCEPT !.next = 1,
                             !.failed = @ \/ ~("instructions" \in DOMAIN Here
                                               /\ Expected(loader[r].got, "instructions"))])
    /\ UNCHANGED loads

\* The mutant compares a file with one of the two sources of its digest.
MatchesChecksums(got, f) == Expected(got, f)
Matches(got, f) == Expected(got, f) /\ got["manifest"].files[f] = Here[f]

\* A file that is not there any more is passed over.
ReadFile(r) ==
    /\ Loading(r, "files")
    /\ LET l == loader[r]
           f == Files[l.next]
           read == IF f \in DOMAIN Here
                     THEN [Reads(l, f, "files") EXCEPT !.failed = @ \/ ~Matches(l.got, f)]
                     ELSE l IN
       Loads(r, IF l.next < Len(Files) THEN [read EXCEPT !.next = @ + 1]
                ELSE [read EXCEPT !.next = 1, !.phase = IF read.failed THEN "done" ELSE "index"])
    /\ UNCHANGED loads

\* _build_index: the files that were loaded are read again, by their path.
IndexFile(r) ==
    /\ Loading(r, "index")
    /\ LET l == loader[r]
           f == Files[l.next]
           read == IF f \in DOMAIN l.got \cap DOMAIN Here
                     THEN [l EXCEPT !.index = [g \in DOMAIN @ \cup {f} |-> IF g = f THEN Here[g] ELSE @[g]]]
                     ELSE l IN
       Loads(r, IF l.next < Len(Files) THEN [read EXCEPT !.next = @ + 1] ELSE [read EXCEPT !.phase = "done"])
    /\ UNCHANGED loads

LoaderStep(r) ==
    \/ LoadPackage(r) \/ ReadManifest(r) \/ ReadChecksums(r) \/ ListActive(r) \/ ReadInstructions(r)
    \/ ReadFile(r) \/ IndexFile(r)

EngineNext == InstallerStep \/ \E r \in Loaders : LoaderStep(r)

EngineSpec == EngineInit /\ [][EngineNext]_engineVars

-----------------------------------------------------------------------------
\* Whatever fails or is interrupted, the package that was activated last is whole and is the
\* current one, or stands beside it where the next installation does not remove it.
PackageIsKept ==
    /\ dirs["current"].there => dirs["current"].parts = active
    /\ active # Nothing =>
         Sound(active) /\ (dirs["current"].there \/ dirs["previous"] = Directory(active))

Loaded(r) == loader[r].phase \in {"index", "done"} /\ ~loader[r].failed

SameFiles(p, q) == \A f \in FileSet : p[f] = q[f]

\* A valid load that found all files found those of one package, with the checksums and the
\* instructions that belong to them, although another may have been put in its place between
\* any two reads.  What the manifest says beside that (label, version, times, notes) is checked
\* against nothing, and may be that of another package with the same files.
CompleteLoadIsOnePackage ==
    \A r \in Loaders : Loaded(r) /\ DOMAIN loader[r].got = PackageParts =>
        \E p, q \in Packages :
            /\ Sound(p) /\ Sound(q) /\ SameFiles(p, q)
            /\ loader[r].got = [q EXCEPT !["manifest"] = p["manifest"]]

\* What the index holds is content that some installation has validated, although it is read
\* again by path after the load has checked it.
IndexWasValidated ==
    \A r \in Loaders : \A f \in DOMAIN loader[r].index :
        \E p \in Packages : Sound(p) /\ loader[r].index[f] = p[f]

\* The installer keeps the active package, and a load beside it accepts no files or
\* instructions of two and indexes nothing that was not validated.
PackageOnRecord == PackageIsKept /\ CompleteLoadIsOnePackage /\ IndexWasValidated
=============================================================================
