-------------------------- MODULE ReleaseInstaller --------------------------
(***************************************************************************)
(* RolloutKit/Install/ReleaseInstaller.cpp: the releases directory of one  *)
(* service, the activation state (state.json) and the operations on them.  *)
(*                                                                         *)
(* Each file-system operation whose failure or interruption the code can   *)
(* tell apart is a step.  Faults names the operations that may fail in a   *)
(* run and CrashSteps the steps at which the process may die.  Nothing     *)
(* bounds how often either happens.                                        *)
(***************************************************************************)
EXTENDS Naturals, FiniteSets

CONSTANTS Releases,       \* the release ids in play, all of them well formed
          NoRelease,      \* the empty string: no release
          KeepPrevious,   \* options_.keep_previous_releases, negative read as 0
          Faults,         \* the operations that may fail
          CrashSteps      \* the steps at which the process may die

ASSUME ReleasesAssumption == NoRelease \notin Releases /\ IsFiniteSet(Releases)
ASSUME KeepAssumption == KeepPrevious \in Nat

VARIABLES
  slots,      \* releases/<id>: what is in the directory of a release
  staging,    \* releases/.staging-<id>
  retired,    \* releases/.retired-<id>
  state,      \* state.json: [active, previous]
  link,       \* the release the convenience symlink `current' names
  step,       \* where the running operation is, "idle" when there is none
  rel,        \* the release the operation works on
  replacing,  \* publish_staging: a release with this id was set aside
  doomed,     \* prune: the releases still to remove
  result      \* what the last operation returned

dirVars == <<slots, staging, retired>>
stateVars == <<state, link>>
callVars == <<step, rel, replacing, doomed, result>>
installerVars == <<dirVars, stateVars, callVars>>

\* A directory is missing, or has some or all files of one copy of its release;
\* it is "stale" or "mixed" when files of an earlier copy are among them.
Content == {"none", "partial", "whole", "stale", "mixed"}

\* All files of the last copy are there.
Complete == {"whole", "mixed"}

\* What a removal that is cut short leaves of a directory ...
Remains(content) == IF content \in {"stale", "mixed"} THEN "stale" ELSE "partial"

\* ... and what a remove_all that fails may leave: all of it up to nothing.
Leftovers(content) ==
  IF content = "none" THEN {"none"} ELSE {content, Remains(content), "none"}

Steps == {"idle", "create", "copy", "sweep", "aside", "publish", "cleanup",
          "discard", "link", "prune", "removing"}

ReleaseOrNone == Releases \cup {NoRelease}

InstallerTypeOK ==
  /\ slots \in [Releases -> Content]
  /\ staging \in [Releases -> Content]
  /\ retired \in [Releases -> Content]
  /\ state \in [active: ReleaseOrNone, previous: ReleaseOrNone]
  /\ link \in ReleaseOrNone
  /\ step \in Steps
  /\ rel \in ReleaseOrNone
  /\ step # "idle" /\ step # "prune" => rel \in Releases
  /\ replacing \in BOOLEAN
  /\ doomed \subseteq Releases
  /\ result \in {"none", "ok", "failed"}

\* state() on a device without state.json.
NoState == [active |-> NoRelease, previous |-> NoRelease]

\* A device on which nothing was ever deployed.
InstallerInit ==
  /\ slots = [r \in Releases |-> "none"]
  /\ staging = [r \in Releases |-> "none"]
  /\ retired = [r \in Releases |-> "none"]
  /\ state = NoState
  /\ link = NoRelease
  /\ step = "idle"
  /\ rel = NoRelease
  /\ replacing = FALSE
  /\ doomed = {}
  /\ result = "none"

\* Both pointers of state.json; either may name no release.
Referenced == {state.active, state.previous}

\* exists() and is_directory() on releases/<id>: they look no further.
Installed == {r \in Releases : slots[r] # "none"}

\* What state() may return: an error of its exists() reads as "no file".
ReadStates == {state} \cup (IF "exists_state" \in Faults THEN {NoState} ELSE {})

Goto(next) == step' = next /\ UNCHANGED <<rel, replacing, doomed, result>>

\* An operation ends; its local variables go out of scope.
Return(outcome) ==
  /\ step' = "idle"
  /\ result' = outcome
  /\ rel' = NoRelease /\ replacing' = FALSE /\ doomed' = {}

-----------------------------------------------------------------------------
(* install(release_id, source_directory)                                   *)

\* The early returns: service_root is not configured, or the release was
\* never downloaded.  Whether it was is the caller's business here.
InstallRefused ==
  /\ step = "idle"
  /\ Return("failed")
  /\ UNCHANGED <<dirVars, stateVars>>

Install(r) ==
  /\ step = "idle"
  /\ step' = "create" /\ rel' = r /\ replacing' = FALSE /\ result' = "none"
  /\ UNCHANGED <<doomed, dirVars, stateVars>>

\* remove_all(staging), whose error is ignored, then create_directories: what
\* could not be removed stays, and the copy goes into the same directory.  On
\* an error of create_directories nothing is discarded.
CreateStaging ==
  /\ step = "create"
  /\ \/ /\ \/ staging' = [staging EXCEPT ![rel] = "partial"]
           \/ /\ "clear" \in Faults /\ staging[rel] # "none"
              /\ staging' = [staging EXCEPT ![rel] = "stale"]
        /\ Goto("copy")
     \/ /\ "create" \in Faults
        /\ \E left \in Leftovers(staging[rel]) :
             staging' = [staging EXCEPT ![rel] = left]
        /\ Return("failed")
  /\ UNCHANGED <<slots, retired, stateVars>>

\* Faulty variant: an error in the copy loop is overlooked.
CopyFilesLeniently ==
  /\ step = "copy"
  /\ staging' \in {[staging EXCEPT ![rel] = c] : c \in {"whole", staging[rel]}}
  /\ Goto("sweep")
  /\ UNCHANGED <<slots, retired, stateVars>>

\* The recursive copy.  An entry that cannot be listed or copied, one that
\* would escape the install root and a source without files all discard.
\* The copy overwrites what it finds and removes nothing.
CopyFiles ==
  /\ step = "copy"
  /\ \/ /\ staging' = [staging EXCEPT ![rel] =
                       IF staging[rel] = "stale" THEN "mixed" ELSE "whole"]
        /\ Goto("sweep")
     \/ UNCHANGED staging /\ Goto("discard")
  /\ UNCHANGED <<slots, retired, stateVars>>

\* sweep_retired(): remove_all on one .retired-* directory after another.
\* The interruptible half of it ...
SweepOne(r) ==
  /\ step = "sweep"
  /\ retired[r] # "none"
  /\ \E left \in {"none", Remains(retired[r])} \ {retired[r]} :
       retired' = [retired EXCEPT ![r] = left]
  /\ UNCHANGED <<slots, staging, stateVars, callVars>>

\* ... and its end: errors are ignored, so it goes on whatever is left.
SweepDone ==
  /\ step = "sweep"
  /\ (\A r \in Releases : retired[r] = "none") \/ "sweep" \in Faults
  /\ Goto("aside")
  /\ UNCHANGED <<dirVars, stateVars>>

\* publish_staging() up to the first rename.  An exists() that fails reads as
\* "not there"; a retired directory that cannot be cleared, or a target that
\* cannot be renamed, ends the operation with the installed release in place.
SetAside ==
  /\ step = "aside"
  /\ \/ /\ slots[rel] = "none" \/ "exists" \in Faults
        /\ Goto("publish")
        /\ UNCHANGED <<slots, retired>>
     \/ /\ slots[rel] # "none"
        /\ retired' = [retired EXCEPT ![rel] = slots[rel]]
        /\ slots' = [slots EXCEPT ![rel] = "none"]
        /\ replacing' = TRUE
        /\ step' = "publish"
        /\ UNCHANGED <<rel, doomed, result>>
     \/ /\ slots[rel] # "none"
        /\ "aside" \in Faults
        /\ \E left \in Leftovers(retired[rel]) :
             retired' = [retired EXCEPT ![rel] = left]
        /\ Goto("discard")
        /\ UNCHANGED slots
  /\ UNCHANGED <<staging, stateVars>>

\* rename(staging, target): it cannot succeed over a directory with files.
\* When it fails, the release that was set aside is renamed back, which may
\* fail too: then only the retired directory is left of it.
Publish ==
  /\ step = "publish"
  /\ \/ /\ slots[rel] = "none"
        /\ slots' = [slots EXCEPT ![rel] = staging[rel]]
        /\ staging' = [staging EXCEPT ![rel] = "none"]
        /\ Goto("cleanup")
        /\ UNCHANGED retired
     \/ /\ slots[rel] # "none" \/ "publish" \in Faults
        /\ \/ /\ replacing
              /\ slots' = [slots EXCEPT ![rel] = retired[rel]]
              /\ retired' = [retired EXCEPT ![rel] = "none"]
           \/ /\ ~replacing \/ "restore" \in Faults
              /\ UNCHANGED <<slots, retired>>
        /\ Goto("discard")
        /\ UNCHANGED staging
  /\ UNCHANGED stateVars

\* remove_all(retired), also when nothing was set aside.  When it fails the
\* rest gets a stamped name, which only the next sweep ever looks at, or
\* keeps its own.
Cleanup ==
  /\ step = "cleanup"
  /\ \E left \in IF "cleanup" \in Faults THEN Leftovers(retired[rel]) ELSE {"none"} :
       retired' = [retired EXCEPT ![rel] = left]
  /\ Return("ok")
  /\ UNCHANGED <<slots, staging, stateVars>>

\* discard(): remove_all(staging) on every failure after its creation.
Discard ==
  /\ step = "discard"
  /\ \E left \in IF "discard" \in Faults THEN Leftovers(staging[rel]) ELSE {"none"} :
       staging' = [staging EXCEPT ![rel] = left]
  /\ Return("failed")
  /\ UNCHANGED <<slots, retired, stateVars>>

-----------------------------------------------------------------------------
(* activate(release_id) and rollback()                                     *)

\* write_state(): a temporary file renamed over state.json, so the file holds
\* the old pair or the new one.  refresh_current_link() comes after it.
WriteState(active, previous) ==
  /\ state' = [active |-> active, previous |-> previous]
  /\ step' = "link" /\ rel' = active /\ result' = "none"
  /\ UNCHANGED <<replacing, doomed, link, dirVars>>

\* Faulty variant: activating the active release makes it its own previous.
PreviousIsActive(read, r) == read.active

\* The same release again keeps the rollback target it had.
PreviousAfter(read, r) == IF read.active = r THEN read.previous ELSE read.active

\* Faulty variant: a release that is not installed can be activated.
ActivateUnchecked(r) == step = "idle" /\ WriteState(r, PreviousAfter(state, r))

Activate(r) ==
  /\ step = "idle"
  /\ slots[r] # "none"
  /\ \E read \in ReadStates : WriteState(r, PreviousAfter(read, r))

\* Not installed, or is_directory() could not tell, or state.json cannot be
\* read or written.
ActivateFails(r) ==
  /\ step = "idle"
  /\ slots[r] = "none" \/ {"is_directory", "read_state", "write_state"} \cap Faults # {}
  /\ Return("failed")
  /\ UNCHANGED <<dirVars, stateVars>>

\* Faulty variant: a rollback without a previous release.
RollbackUnchecked == step = "idle" /\ WriteState(state.previous, state.active)

Rollback ==
  /\ step = "idle"
  /\ state.previous \in Installed
  /\ WriteState(state.previous, state.active)

\* No previous release, also because state.json was taken for missing, or it
\* is no longer installed, or an I/O error.
RollbackFails ==
  /\ step = "idle"
  /\ \/ state.previous \notin Installed
     \/ {"exists_state", "is_directory", "read_state", "write_state"} \cap Faults # {}
  /\ Return("failed")
  /\ UNCHANGED <<dirVars, stateVars>>

\* refresh_current_link(): remove, then create; both errors are ignored.
RefreshLink ==
  /\ step = "link"
  /\ link' \in IF "link" \in Faults THEN {rel, link, NoRelease} ELSE {rel}
  /\ Return("ok")
  /\ UNCHANGED <<state, dirVars>>

-----------------------------------------------------------------------------
(* prune()                                                                 *)

\* installed(): a directory whose is_directory() fails is not listed.
Listings == IF "is_directory" \in Faults THEN SUBSET Installed ELSE {Installed}

\* Faulty variant: the rollback target is forgotten.
CandidatesAndPrevious(read, listed) == listed \ {read.active}

\* The listed releases neither pointer names, as far as prune() could read.
Candidates(read, listed) == listed \ {read.active, read.previous}

\* Faulty variant: one release less is retained than configured.
RetainedOneLess(candidates) ==
  IF Cardinality(candidates) < KeepPrevious THEN {candidates}
  ELSE {kept \in SUBSET candidates : Cardinality(kept) = KeepPrevious - 1}

\* The first KeepPrevious candidates stay.  installed() sorts by the
\* directories' modification times, which copies, partial removals and the
\* clock set; any order is possible here.
Retained(candidates) ==
  IF Cardinality(candidates) <= KeepPrevious THEN {candidates}
  ELSE {kept \in SUBSET candidates : Cardinality(kept) = KeepPrevious}

Prune ==
  /\ step = "idle"
  /\ \E read \in ReadStates, listed \in Listings :
       \E kept \in Retained(Candidates(read, listed)) :
         doomed' = Candidates(read, listed) \ kept
  /\ step' = "prune" /\ result' = "none"
  /\ UNCHANGED <<rel, replacing, dirVars, stateVars>>

\* state.json or the releases directory cannot be read.
PruneFails ==
  /\ step = "idle"
  /\ {"read_state", "list"} \cap Faults # {}
  /\ Return("failed")
  /\ UNCHANGED <<dirVars, stateVars>>

\* remove_all on the directory of one release: files first, ...
RemoveFiles(r) ==
  /\ step = "prune"
  /\ r \in doomed
  /\ slots' = [slots EXCEPT ![r] = Remains(slots[r])]
  /\ step' = "removing" /\ rel' = r
  /\ UNCHANGED <<replacing, doomed, result, staging, retired, stateVars>>

\* ... then the directory itself.  The first error ends prune().
RemoveDirectory ==
  /\ step = "removing"
  /\ \/ /\ slots' = [slots EXCEPT ![rel] = "none"]
        /\ doomed' = doomed \ {rel}
        /\ step' = "prune"
        /\ UNCHANGED <<rel, replacing, result>>
     \/ /\ "remove" \in Faults
        /\ Return("failed")
        /\ UNCHANGED slots
  /\ UNCHANGED <<staging, retired, stateVars>>

PruneDone ==
  /\ step = "prune"
  /\ doomed = {}
  /\ Return("ok")
  /\ UNCHANGED <<dirVars, stateVars>>

-----------------------------------------------------------------------------
\* The process dies inside an operation; whoever restarts it starts afresh.
\* Between the two halves of refresh_current_link() there is no link.
InstallerCrash ==
  /\ step \in CrashSteps \ {"idle"}
  /\ link' \in IF step = "link" THEN {link, NoRelease} ELSE {link}
  /\ Return("none")
  /\ UNCHANGED <<state, dirVars>>

\* A caller makes one call after another, any call with any release.
Call ==
  \/ \E r \in Releases : Install(r) \/ Activate(r) \/ ActivateFails(r)
  \/ InstallRefused \/ Rollback \/ RollbackFails \/ Prune \/ PruneFails

\* The steps of the operation that is running.
InstallerStep ==
  \/ CreateStaging \/ CopyFiles
  \/ (\E r \in Releases : SweepOne(r)) \/ SweepDone
  \/ SetAside \/ Publish \/ Cleanup \/ Discard
  \/ RefreshLink
  \/ (\E r \in Releases : RemoveFiles(r)) \/ RemoveDirectory \/ PruneDone

InstallerNext == Call \/ InstallerStep \/ InstallerCrash

InstallerSpec == InstallerInit /\ [][InstallerNext]_installerVars

-----------------------------------------------------------------------------
(* Properties                                                              *)

\* What the environment must not do for the referenced releases to stay
\* whole: die between the two renames of publish_staging(), fail the rename
\* that undoes the first, stop a remove_all of prune() half way, or fail the
\* exists() of state(), after which prune() takes every release for a spare.
SwapIsSafe == "restore" \notin Faults /\ "publish" \notin CrashSteps
RemovalIsSafe == "remove" \notin Faults /\ "removing" \notin CrashSteps
StateIsRead == "exists_state" \notin Faults
ListIsRead == "is_directory" \notin Faults

\* publish_staging() is between its two renames for release r.
MidSwap(r) == step = "publish" /\ rel = r /\ replacing

\* What prune() may remove: installed and named by neither pointer.
Spare == Installed \ Referenced

\* The releases state.json names can be started: each is complete in its
\* directory, or publish_staging() is replacing it right now and holds the
\* complete old copy.  Whatever installs, activations, rollbacks and prunes
\* came before, and whichever of their other steps failed or were cut short.
ReferencedWhole ==
  \A r \in Referenced \cap Releases :
    slots[r] \in Complete \/ (MidSwap(r) /\ retired[r] \in Complete)

\* install() leaves no half-copied directory in releases/: what it has
\* published is complete, even when an earlier install of the same id died
\* and left files in staging, or discard() could not remove them.  It holds
\* files of such an earlier install only where the remove_all that clears
\* staging can fail: install() ignores that.
PublishesWhole ==
  step = "cleanup" => /\ slots[rel] \in Complete
                      /\ "clear" \notin Faults => slots[rel] = "whole"

\* The rollback target is another release than the active one, also after
\* activating a release twice or rolling back: a rollback always moves.
DistinctPointers ==
  /\ state.active = state.previous => state.active = NoRelease
  /\ state.active = NoRelease => state.previous = NoRelease

\* prune() retains keep_previous_releases spare releases: one that reports
\* success leaves no more of them, wherever earlier prunes stopped, and no
\* removal leaves fewer, whatever the later ones do.
PruneRetains ==
  [][/\ step = "prune" /\ step' = "idle" /\ result' = "ok"
         => Cardinality(Spare') <= KeepPrevious
     /\ step = "removing" /\ step' = "prune"
         => Cardinality(Spare') >= KeepPrevious]_installerVars

\* The installer implements ReleaseStore: a release is installed there when
\* its directory is complete, or while publish_staging() swaps it.
Store == INSTANCE ReleaseStore WITH
  installed <- {r \in Releases : slots[r] \in Complete \/ MidSwap(r)},
  pointers <- state

\* Seen from outside, a release appears and disappears as a whole, only
\* spare releases disappear, and only installed ones become active.
ImplementsStore == Store!StoreSpec
=============================================================================
