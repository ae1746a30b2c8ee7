----------------------- MODULE ReleaseInstallerProofs -----------------------
(***************************************************************************)
(* Theorems about ReleaseInstaller for every set of releases, every bound  *)
(* KeepPrevious, every set of faults and every set of crash points, less   *)
(* those that SwapIsSafe, RemovalIsSafe, StateIsRead and ListIsRead rule   *)
(* out where a theorem assumes them.                                       *)
(***************************************************************************)
EXTENDS ReleaseInstaller, FiniteSetTheorems, TLAPS

\* The steps of install() before it publishes.
Preparing == {"create", "copy", "sweep", "aside"}

\* The copy is complete from the moment install() leaves its copy loop.
StagedWhole ==
  step \in {"sweep", "aside", "publish"} =>
    /\ staging[rel] \in Complete
    /\ "clear" \notin Faults => staging[rel] = "whole"

\* The copy loop starts in an empty directory if staging could be cleared.
StagingCleared == step = "copy" /\ "clear" \notin Faults => staging[rel] # "stale"

\* prune() works through releases that neither pointer names, if it could
\* read them.
DoomedSpare ==
  /\ StateIsRead /\ step \in {"prune", "removing"} => doomed \cap Referenced = {}
  /\ step = "removing" => rel \in doomed

\* What holds whatever fails: the inductive invariant of the first theorems.
InstallerInv ==
  /\ InstallerTypeOK
  /\ DistinctPointers
  /\ StagedWhole
  /\ StagingCleared
  /\ PublishesWhole
  /\ DoomedSpare

\* Only a removal in progress leaves a torn directory in releases/.
TornOnlyRemoving ==
  \A r \in Releases :
    slots[r] \notin Complete \cup {"none"} => step = "removing" /\ rel = r

\* While a release is set aside its complete copy is in the retired
\* directory, and its own directory is free.
SwapHoldsCopy ==
  /\ step \in Preparing => ~replacing
  /\ step = "publish" /\ replacing => slots[rel] = "none" /\ retired[rel] \in Complete

\* What also holds when neither the swap nor a removal is cut short.
SafeInv == ReferencedWhole /\ TornOnlyRemoving /\ SwapHoldsCopy

\* Both hold on a device on which nothing was ever deployed.
LEMMA InstallerInitially == InstallerInit => InstallerInv /\ SafeInv
<1> SUFFICES ASSUME InstallerInit PROVE InstallerInv /\ SafeInv
  OBVIOUS
<1> USE ReleasesAssumption DEF InstallerInit, NoState, Referenced
<1>1. InstallerTypeOK
  BY DEF InstallerTypeOK, Content, Steps, ReleaseOrNone
<1>2. DistinctPointers /\ StagedWhole /\ StagingCleared /\ PublishesWhole /\ DoomedSpare
  BY DEF DistinctPointers, StagedWhole, StagingCleared, PublishesWhole, DoomedSpare
<1>3. ReferencedWhole /\ TornOnlyRemoving /\ SwapHoldsCopy
  BY DEF ReferencedWhole, TornOnlyRemoving, SwapHoldsCopy, MidSwap, Preparing
<1> QED
  BY <1>1, <1>2, <1>3 DEF InstallerInv, SafeInv

\* A call and the steps of install() preserve the invariant.
LEMMA InstallPreserves ==
  ASSUME InstallerInv,
         \/ \E r \in Releases : Install(r)
         \/ InstallRefused \/ CreateStaging \/ CopyFiles
         \/ \E r \in Releases : SweepOne(r)
         \/ SweepDone \/ SetAside \/ Publish \/ Cleanup \/ Discard
  PROVE  InstallerInv'
<1> USE ReleasesAssumption
    DEF InstallerInv, InstallerTypeOK, DistinctPointers, StagedWhole, StagingCleared, PublishesWhole,
        DoomedSpare, Referenced, Steps, ReleaseOrNone, Goto, Return,
        dirVars, stateVars, callVars
<1>1. ASSUME NEW r \in Releases, Install(r) PROVE InstallerInv'
  BY <1>1 DEF Install
<1>2. CASE InstallRefused
  BY <1>2 DEF InstallRefused
<1>3. CASE CreateStaging
  BY <1>3 DEF CreateStaging, Content, Remains, Leftovers
<1>4. CASE CopyFiles
  BY <1>4 DEF CopyFiles, Content, Complete
<1>5. ASSUME NEW r \in Releases, SweepOne(r) PROVE InstallerInv'
  BY <1>5 DEF SweepOne, Content, Remains
<1>6. CASE SweepDone
  BY <1>6 DEF SweepDone
<1>7. CASE SetAside
  BY <1>7 DEF SetAside, Content, Remains, Leftovers
<1>8. CASE Publish
  BY <1>8 DEF Publish, Content, Complete
<1>9. CASE Cleanup
  BY <1>9 DEF Cleanup, Content, Remains, Leftovers
<1>10. CASE Discard
  BY <1>10 DEF Discard, Content, Remains, Leftovers
<1> QED
  BY <1>1, <1>2, <1>3, <1>4, <1>5, <1>6, <1>7, <1>8, <1>9, <1>10

\* So do activations and rollbacks.
LEMMA SwitchPreserves ==
  ASSUME InstallerInv,
         \/ \E r \in Releases : Activate(r) \/ ActivateFails(r)
         \/ Rollback \/ RollbackFails \/ RefreshLink
  PROVE  InstallerInv'
<1> USE ReleasesAssumption
    DEF InstallerInv, InstallerTypeOK, DistinctPointers, StagedWhole, StagingCleared, PublishesWhole,
        DoomedSpare, Referenced, Steps, ReleaseOrNone, Return, dirVars, stateVars
<1>1. ASSUME NEW r \in Releases, Activate(r) PROVE InstallerInv'
  BY <1>1 DEF Activate, WriteState, PreviousAfter, ReadStates, NoState
<1>2. ASSUME NEW r \in Releases, ActivateFails(r) PROVE InstallerInv'
  BY <1>2 DEF ActivateFails
<1>3. CASE Rollback
  BY <1>3 DEF Rollback, WriteState, Installed
<1>4. CASE RollbackFails
  BY <1>4 DEF RollbackFails
<1>5. CASE RefreshLink
  BY <1>5 DEF RefreshLink
<1> QED
  BY <1>1, <1>2, <1>3, <1>4, <1>5

\* prune() considers installed releases only ...
LEMMA CandidatesListed ==
  ASSUME NEW read, NEW listed \in Listings
  PROVE  Candidates(read, listed) \subseteq Releases
BY DEF Candidates, Listings, Installed

\* ... and spare ones only, if it can read the pointers.
LEMMA CandidatesSpare ==
  ASSUME StateIsRead, NEW read \in ReadStates, NEW listed \in Listings
  PROVE  Candidates(read, listed) \cap Referenced = {}
BY DEF Candidates, StateIsRead, ReadStates, Referenced

\* So do prune() and a crash.
LEMMA PrunePreserves ==
  ASSUME InstallerInv,
         \/ Prune \/ PruneFails
         \/ \E r \in Releases : RemoveFiles(r)
         \/ RemoveDirectory \/ PruneDone \/ InstallerCrash
  PROVE  InstallerInv'
<1> USE ReleasesAssumption
    DEF InstallerInv, InstallerTypeOK, DistinctPointers, StagedWhole, StagingCleared, PublishesWhole,
        DoomedSpare, Referenced, Steps, ReleaseOrNone, Return, dirVars, stateVars
<1>1. CASE Prune
  BY <1>1, CandidatesListed, CandidatesSpare DEF Prune
<1>2. CASE PruneFails
  BY <1>2 DEF PruneFails
<1>3. ASSUME NEW r \in Releases, RemoveFiles(r) PROVE InstallerInv'
  BY <1>3 DEF RemoveFiles, Content, Remains
<1>4. CASE RemoveDirectory
  BY <1>4 DEF RemoveDirectory, Content
<1>5. CASE PruneDone
  BY <1>5 DEF PruneDone
<1>6. CASE InstallerCrash
  BY <1>6 DEF InstallerCrash
<1> QED
  BY <1>1, <1>2, <1>3, <1>4, <1>5, <1>6

\* Every step preserves the invariant.
LEMMA InstallerInvStep ==
  ASSUME InstallerInv, [InstallerNext]_installerVars
  PROVE  InstallerInv'
<1>1. CASE InstallerNext
  BY <1>1, InstallPreserves, SwitchPreserves, PrunePreserves
  DEF InstallerNext, Call, InstallerStep
<1>2. CASE UNCHANGED installerVars
  BY <1>2
  DEF InstallerInv, InstallerTypeOK, DistinctPointers, StagedWhole, StagingCleared, PublishesWhole,
      DoomedSpare, Referenced, installerVars, dirVars, stateVars, callVars
<1> QED
  BY <1>1, <1>2

\* Whatever fails and wherever the process dies, the variables keep their
\* types.
THEOREM InstallerTypes == InstallerSpec => []InstallerTypeOK
<1>1. InstallerInv => InstallerTypeOK
  BY DEF InstallerInv
<1> QED
  BY <1>1, InstallerInitially, InstallerInvStep, PTL DEF InstallerSpec

\* Whatever fails and wherever the process dies, install() publishes only
\* complete copies.
THEOREM InstallPublishesWhole == InstallerSpec => []PublishesWhole
<1>1. InstallerInv => PublishesWhole
  BY DEF InstallerInv
<1> QED
  BY <1>1, InstallerInitially, InstallerInvStep, PTL DEF InstallerSpec

\* Whatever fails and wherever the process dies, the two pointers of
\* state.json name different releases.
THEOREM PointersDistinct == InstallerSpec => []DistinctPointers
<1>1. InstallerInv => DistinctPointers
  BY DEF InstallerInv
<1> QED
  BY <1>1, InstallerInitially, InstallerInvStep, PTL DEF InstallerSpec

-----------------------------------------------------------------------------
\* What ReferencedWhole needs of the environment.
PruningIsSafe == RemovalIsSafe /\ StateIsRead

\* install() preserves what holds of the referenced releases, provided the
\* rename that undoes a failed swap works.
LEMMA InstallKeepsSafe ==
  ASSUME InstallerInv, SafeInv, SwapIsSafe,
         \/ \E r \in Releases : Install(r)
         \/ InstallRefused \/ CreateStaging \/ CopyFiles
         \/ \E r \in Releases : SweepOne(r)
         \/ SweepDone \/ SetAside \/ Publish \/ Cleanup \/ Discard
  PROVE  SafeInv'
<1> USE ReleasesAssumption
    DEF InstallerInv, InstallerTypeOK, StagedWhole, SafeInv, ReferencedWhole,
        TornOnlyRemoving, SwapHoldsCopy, MidSwap, Preparing, Referenced, Goto, Return,
        dirVars, stateVars, callVars
<1>1. ASSUME NEW r \in Releases, Install(r) PROVE SafeInv'
  BY <1>1 DEF Install
<1>2. CASE InstallRefused
  BY <1>2 DEF InstallRefused
<1>3. CASE CreateStaging
  BY <1>3 DEF CreateStaging
<1>4. CASE CopyFiles
  BY <1>4 DEF CopyFiles
<1>5. ASSUME NEW r \in Releases, SweepOne(r) PROVE SafeInv'
  BY <1>5 DEF SweepOne
<1>6. CASE SweepDone
  BY <1>6 DEF SweepDone
<1>7. CASE SetAside
  BY <1>7 DEF SetAside, Content
<1>8. CASE Publish
  BY <1>8 DEF Publish, SwapIsSafe
<1>9. CASE Cleanup
  BY <1>9 DEF Cleanup
<1>10. CASE Discard
  BY <1>10 DEF Discard
<1> QED
  BY <1>1, <1>2, <1>3, <1>4, <1>5, <1>6, <1>7, <1>8, <1>9, <1>10

\* So do activations and rollbacks: they name only installed releases, and
\* outside prune() an installed release is complete.
LEMMA SwitchKeepsSafe ==
  ASSUME InstallerInv, SafeInv,
         \/ \E r \in Releases : Activate(r) \/ ActivateFails(r)
         \/ Rollback \/ RollbackFails \/ RefreshLink
  PROVE  SafeInv'
<1> USE ReleasesAssumption
    DEF InstallerInv, InstallerTypeOK, SafeInv, ReferencedWhole, TornOnlyRemoving,
        SwapHoldsCopy, MidSwap, Preparing, Referenced, Return, dirVars, stateVars
<1>1. ASSUME NEW r \in Releases, Activate(r) PROVE SafeInv'
  BY <1>1 DEF Activate, WriteState, PreviousAfter, ReadStates, NoState, Content, ReleaseOrNone
<1>2. ASSUME NEW r \in Releases, ActivateFails(r) PROVE SafeInv'
  BY <1>2 DEF ActivateFails
<1>3. CASE Rollback
  BY <1>3 DEF Rollback, WriteState, Installed, Content, ReleaseOrNone
<1>4. CASE RollbackFails
  BY <1>4 DEF RollbackFails
<1>5. CASE RefreshLink
  BY <1>5 DEF RefreshLink
<1> QED
  BY <1>1, <1>2, <1>3, <1>4, <1>5

\* So do prune(), which touches spare releases only, and a crash outside the
\* swap and the removals.
LEMMA PruneKeepsSafe ==
  ASSUME InstallerInv, SafeInv, SwapIsSafe, PruningIsSafe,
         \/ Prune \/ PruneFails
         \/ \E r \in Releases : RemoveFiles(r)
         \/ RemoveDirectory \/ PruneDone \/ InstallerCrash
  PROVE  SafeInv'
<1> USE ReleasesAssumption
    DEF InstallerInv, InstallerTypeOK, DoomedSpare, SafeInv, ReferencedWhole,
        TornOnlyRemoving, SwapHoldsCopy, MidSwap, Preparing, Referenced, Return,
        dirVars, stateVars
<1>1. CASE Prune
  BY <1>1 DEF Prune
<1>2. CASE PruneFails
  BY <1>2 DEF PruneFails
<1>3. ASSUME NEW r \in Releases, RemoveFiles(r) PROVE SafeInv'
  BY <1>3 DEF RemoveFiles, PruningIsSafe
<1>4. CASE RemoveDirectory
  BY <1>4 DEF RemoveDirectory, PruningIsSafe, RemovalIsSafe
<1>5. CASE PruneDone
  BY <1>5 DEF PruneDone
<1>6. CASE InstallerCrash
  BY <1>6 DEF InstallerCrash, SwapIsSafe, PruningIsSafe, RemovalIsSafe
<1> QED
  BY <1>1, <1>2, <1>3, <1>4, <1>5, <1>6

\* Every step preserves both invariants when swaps and removals are safe.
LEMMA SafeInvStep ==
  ASSUME SwapIsSafe, PruningIsSafe, InstallerInv, SafeInv, [InstallerNext]_installerVars
  PROVE  InstallerInv' /\ SafeInv'
<1>1. CASE InstallerNext
  BY <1>1, InstallerInvStep, InstallKeepsSafe, SwitchKeepsSafe, PruneKeepsSafe
  DEF InstallerNext, Call, InstallerStep
<1>2. CASE UNCHANGED installerVars
  BY <1>2, InstallerInvStep
  DEF SafeInv, ReferencedWhole, TornOnlyRemoving, SwapHoldsCopy, MidSwap, Preparing,
      Referenced, installerVars, dirVars, stateVars, callVars
<1> QED
  BY <1>1, <1>2

\* Unless publish_staging() is cut between its renames or cannot undo the
\* first, a removal of prune() stops half way, or prune() takes state.json for
\* missing, the active release and the rollback target are complete.
THEOREM ReferencedStayWhole ==
  ASSUME SwapIsSafe, RemovalIsSafe, StateIsRead
  PROVE  InstallerSpec => []ReferencedWhole
<1>1. InstallerInv /\ SafeInv /\ [InstallerNext]_installerVars => (InstallerInv /\ SafeInv)'
  BY SafeInvStep DEF PruningIsSafe
<1>2. InstallerInv /\ SafeInv => ReferencedWhole
  BY DEF SafeInv
<1> QED
  BY <1>1, <1>2, InstallerInitially, PTL DEF InstallerSpec

-----------------------------------------------------------------------------
\* The releases prune() retains: KeepPrevious of them, or all there are.
RetainedInv ==
  step \in {"prune", "removing"} =>
    /\ Cardinality(Spare \ doomed) <= KeepPrevious
    /\ doomed # {} => Cardinality(Spare \ doomed) = KeepPrevious

\* prune() begins with the releases it retains and those it will remove.
LEMMA PruneChooses ==
  ASSUME InstallerInv, StateIsRead, ListIsRead, Prune
  PROVE  RetainedInv'
<1>1. PICK kept \in Retained(Spare) : doomed' = Spare \ kept
  BY DEF Prune, StateIsRead, ListIsRead, ReadStates, Listings, Candidates, Spare, Referenced
<1>2. Spare' = Spare
  BY DEF Prune, Spare, Installed, Referenced, dirVars, stateVars
<1>3. IsFiniteSet(Spare) /\ Cardinality(Spare) \in Nat
  BY ReleasesAssumption, FS_Subset, FS_CardinalityType DEF Spare, Installed
<1>4. kept \subseteq Spare
  BY <1>1 DEF Retained
<1>5. (Spare \ doomed)' = kept
  BY <1>1, <1>2, <1>4
<1>6. CASE Cardinality(Spare) <= KeepPrevious
  BY <1>1, <1>5, <1>6, KeepAssumption DEF Retained, RetainedInv
<1>7. CASE ~(Cardinality(Spare) <= KeepPrevious)
  BY <1>1, <1>5, <1>7, KeepAssumption DEF Retained, RetainedInv
<1> QED
  BY <1>6, <1>7

\* A directory that prune() has removed was not one of those it retains.
LEMMA RemovedIsGone ==
  ASSUME InstallerInv, RemoveDirectory, step' = "prune"
  PROVE  rel \in doomed /\ (Spare \ doomed)' = Spare \ doomed
<1>1. rel \in doomed /\ rel \in Releases
  BY DEF RemoveDirectory, InstallerInv, InstallerTypeOK, DoomedSpare
<1>2. doomed' = doomed \ {rel} /\ Spare' = Spare \ {rel}
  BY <1>1
  DEF RemoveDirectory, Return, Spare, Installed, Referenced, stateVars, InstallerInv,
      InstallerTypeOK
<1> QED
  BY <1>1, <1>2

\* Every step preserves what is retained.
LEMMA RetainedInvStep ==
  ASSUME InstallerInv, StateIsRead, ListIsRead, RetainedInv, [InstallerNext]_installerVars
  PROVE  RetainedInv'
<1>1. CASE Prune
  BY <1>1, PruneChooses
<1>2. ASSUME NEW r \in Releases, RemoveFiles(r) PROVE RetainedInv'
  <2>1. (Spare \ doomed)' = Spare \ doomed
    BY <1>2
    DEF RemoveFiles, Remains, Spare, Installed, Referenced, stateVars, InstallerInv,
        InstallerTypeOK
  <2> QED
    BY <1>2, <2>1 DEF RemoveFiles, RetainedInv
<1>3. CASE RemoveDirectory
  <2>1. CASE step' = "prune"
    BY <1>3, <2>1, RemovedIsGone DEF RemoveDirectory, RetainedInv
  <2> QED
    BY <1>3, <2>1 DEF RemoveDirectory, Return, RetainedInv
<1>4. CASE step' \notin {"prune", "removing"}
  BY <1>4 DEF RetainedInv
<1>5. CASE UNCHANGED installerVars
  BY <1>5
  DEF installerVars, dirVars, stateVars, callVars, RetainedInv, Spare, Installed, Referenced
<1>6. CASE InstallerNext /\ step' \in {"prune", "removing"}
  <2>1. \/ Prune \/ RemoveDirectory
        \/ \E r \in Releases : RemoveFiles(r)
    BY <1>6
    DEF InstallerNext, Call, Install, InstallRefused, Activate, ActivateFails, Rollback,
        RollbackFails, WriteState, PruneFails, InstallerStep, CreateStaging, CopyFiles,
        SweepOne, SweepDone, SetAside, Publish, Cleanup, Discard, RefreshLink, PruneDone,
        InstallerCrash, Goto, Return, callVars
  <2> QED
    BY <1>1, <1>2, <1>3, <2>1
<1> QED
  BY <1>4, <1>5, <1>6

\* If it can read the pointers and the directories, a prune() that reports
\* success has kept at most keep_previous_releases spare releases, and no
\* removal has left fewer, whatever earlier operations failed at or left behind.
THEOREM PruneLeavesFew ==
  ASSUME StateIsRead, ListIsRead
  PROVE  InstallerSpec => PruneRetains
<1>1. InstallerInit => InstallerInv /\ RetainedInv
  BY InstallerInitially DEF InstallerInit, RetainedInv
<1>2. InstallerInv /\ RetainedInv /\ [InstallerNext]_installerVars
        => (InstallerInv /\ RetainedInv)'
  BY InstallerInvStep, RetainedInvStep
<1>3. ASSUME InstallerInv, RetainedInv, InstallerNext,
             step = "prune", step' = "idle", result' = "ok"
      PROVE  Cardinality(Spare') <= KeepPrevious
  <2>1. PruneDone
    BY <1>3
    DEF InstallerNext, Call, Install, InstallRefused, Activate, ActivateFails, Rollback,
        RollbackFails, Prune, PruneFails, InstallerStep, CreateStaging, CopyFiles,
        SweepOne, SweepDone, SetAside, Publish, Cleanup, Discard, RefreshLink, RemoveFiles,
        RemoveDirectory, InstallerCrash, Return
  <2>2. Spare' = Spare \ doomed
    BY <2>1 DEF PruneDone, Spare, Installed, Referenced, dirVars, stateVars
  <2> QED
    BY <1>3, <2>2 DEF RetainedInv
<1>4. ASSUME InstallerInv, RetainedInv, InstallerNext, step = "removing", step' = "prune"
      PROVE  Cardinality(Spare') >= KeepPrevious
  <2>1. RemoveDirectory
    BY <1>4
    DEF InstallerNext, Call, Install, InstallRefused, Activate, ActivateFails, Rollback,
        RollbackFails, Prune, PruneFails, InstallerStep, CreateStaging, CopyFiles,
        SweepOne, SweepDone, SetAside, Publish, Cleanup, Discard, RefreshLink, RemoveFiles,
        PruneDone, InstallerCrash, Return
  <2>2. rel \in doomed /\ (Spare \ doomed)' = Spare \ doomed
    BY <1>4, <2>1, RemovedIsGone
  <2>3. Cardinality((Spare \ doomed)') = KeepPrevious
    BY <1>4, <2>2 DEF RetainedInv
  <2>4. Spare' \subseteq Releases
    BY DEF Spare, Installed
  <2>5. Cardinality((Spare \ doomed)') <= Cardinality(Spare')
    BY <2>4, ReleasesAssumption, FS_Subset
  <2>6. Cardinality(Spare') \in Nat
    BY <2>4, ReleasesAssumption, FS_Subset, FS_CardinalityType
  <2> QED
    BY <2>3, <2>5, <2>6, KeepAssumption
<1>5. InstallerInv /\ RetainedInv /\ [InstallerNext]_installerVars =>
        [/\ step = "prune" /\ step' = "idle" /\ result' = "ok"
               => Cardinality(Spare') <= KeepPrevious
         /\ step = "removing" /\ step' = "prune"
               => Cardinality(Spare') >= KeepPrevious]_installerVars
  BY <1>3, <1>4
<1> QED
  BY <1>1, <1>2, <1>5, PTL DEF InstallerSpec, PruneRetains

-----------------------------------------------------------------------------
\* The releases ReleaseStore sees installed.
Seen == {r \in Releases : slots[r] \in Complete \/ MidSwap(r)}

\* A step of an operation that the store does not see.
Unseen == Seen' = Seen /\ state' = state

\* install() is one Place(rel), made by the rename that publishes, or nothing.
LEMMA InstallImplements ==
  ASSUME InstallerInv, SafeInv, SwapIsSafe,
         \/ \E r \in Releases : Install(r)
         \/ InstallRefused \/ CreateStaging \/ CopyFiles
         \/ \E r \in Releases : SweepOne(r)
         \/ SweepDone \/ SetAside \/ Publish \/ Cleanup \/ Discard
  PROVE  Unseen \/ \E r \in Releases : Seen' = Seen \cup {r} /\ state' = state
<1> USE DEF Seen, Unseen, MidSwap, Goto, Return, dirVars, stateVars, callVars
<1>1. CASE \/ \E r \in Releases : Install(r)
           \/ InstallRefused \/ CreateStaging \/ CopyFiles
           \/ \E r \in Releases : SweepOne(r)
           \/ SweepDone \/ Cleanup \/ Discard
  BY <1>1
  DEF Install, InstallRefused, CreateStaging, CopyFiles, SweepOne, SweepDone, Cleanup,
      Discard
<1>2. CASE SetAside
  BY <1>2
  DEF SetAside, InstallerInv, InstallerTypeOK, SafeInv, TornOnlyRemoving, SwapHoldsCopy,
      Preparing, Content
<1>3. CASE Publish
  <2> USE <1>3 DEF InstallerInv, InstallerTypeOK, StagedWhole, SafeInv, SwapHoldsCopy
  <2>1. CASE slots'[rel] = staging[rel] /\ step' = "cleanup"
    <3>1. Seen' = Seen \cup {rel}
      BY <2>1 DEF Publish
    <3> QED
      BY <3>1 DEF Publish
  <2>2. CASE step' = "discard"
    BY <2>2 DEF Publish, SwapIsSafe
  <2> QED
    BY <2>1, <2>2 DEF Publish
<1> QED
  BY <1>1, <1>2, <1>3

\* An activation is one Switch, a rollback one SwitchBack, each made by the
\* rename of state.json.
LEMMA SwitchImplements ==
  ASSUME InstallerInv, SafeInv, StateIsRead,
         \/ \E r \in Releases : Activate(r) \/ ActivateFails(r)
         \/ Rollback \/ RollbackFails \/ RefreshLink
  PROVE  Unseen \/ Store!SwitchBack \/ \E r \in Releases : Store!Switch(r)
<1> USE DEF Unseen, Seen, MidSwap, Return, dirVars, stateVars
<1>1. ASSUME NEW r \in Releases, Activate(r) PROVE Store!Switch(r)
  BY <1>1
  DEF Activate, WriteState, PreviousAfter, ReadStates, StateIsRead, Store!Switch, InstallerInv, InstallerTypeOK,
      SafeInv, TornOnlyRemoving, Content
<1>2. CASE Rollback
  BY <1>2
  DEF Rollback, WriteState, Installed, Store!SwitchBack, InstallerInv, InstallerTypeOK,
      SafeInv, TornOnlyRemoving, Content
<1>3. CASE (\E r \in Releases : ActivateFails(r)) \/ RollbackFails \/ RefreshLink
  BY <1>3 DEF ActivateFails, RollbackFails, RefreshLink
<1> QED
  BY <1>1, <1>2, <1>3

\* prune() drops spare releases one by one; a crash changes nothing.
LEMMA PruneImplements ==
  ASSUME InstallerInv, SafeInv, SwapIsSafe, StateIsRead,
         \/ Prune \/ PruneFails
         \/ \E r \in Releases : RemoveFiles(r)
         \/ RemoveDirectory \/ PruneDone \/ InstallerCrash
  PROVE  Unseen \/ \E r \in Releases : Store!Drop(r)
<1> USE DEF Unseen, Seen, MidSwap, Return, dirVars, stateVars, InstallerInv, InstallerTypeOK
<1>1. CASE Prune \/ PruneFails \/ PruneDone
  BY <1>1 DEF Prune, PruneFails, PruneDone
<1>2. ASSUME NEW r \in Releases, RemoveFiles(r) PROVE Store!Drop(r)
  BY <1>2 DEF RemoveFiles, Remains, Complete, Store!Drop, DoomedSpare, Referenced
<1>3. CASE RemoveDirectory
  <2>1. PICK r \in Releases : r = rel
    BY <1>3 DEF RemoveDirectory
  <2>2. ASSUME step' = "prune" PROVE Store!Drop(r)
    BY <1>3, <2>1, <2>2 DEF RemoveDirectory, Complete, Store!Drop, DoomedSpare, Referenced
  <2>3. ASSUME step' # "prune" PROVE Unseen
    BY <1>3, <2>3 DEF RemoveDirectory
  <2> QED
    BY <2>2, <2>3
<1>4. CASE InstallerCrash
  BY <1>4 DEF InstallerCrash, SwapIsSafe
<1> QED
  BY <1>1, <1>2, <1>3, <1>4

\* Every step of the installer is a step of the store or invisible to it.
LEMMA StoreStep ==
  ASSUME SwapIsSafe, StateIsRead, InstallerInv, SafeInv, [InstallerNext]_installerVars
  PROVE  [Store!StoreNext]_(Store!storeVars)
<1>1. CASE InstallerNext
  <2>1. ASSUME NEW r \in Releases, Seen' = Seen \cup {r}, state' = state
        PROVE  Store!Place(r)
    BY <2>1 DEF Store!Place, Seen
  <2>2. Unseen => UNCHANGED Store!storeVars
    BY DEF Unseen, Seen, Store!storeVars
  <2>3. \/ Unseen \/ Store!SwitchBack
        \/ \E r \in Releases : \/ Seen' = Seen \cup {r} /\ state' = state
                             \/ Store!Switch(r) \/ Store!Drop(r)
    BY <1>1, InstallImplements, SwitchImplements, PruneImplements
    DEF InstallerNext, Call, InstallerStep
  <2> QED
    BY <2>1, <2>2, <2>3 DEF Store!StoreNext
<1>2. CASE UNCHANGED installerVars
  BY <1>2 DEF installerVars, dirVars, stateVars, callVars, Store!storeVars, MidSwap
<1> QED
  BY <1>1, <1>2

\* Under the same conditions the installer implements ReleaseStore: releases
\* appear as a whole, only spare ones disappear and only installed ones
\* become active.
THEOREM InstallerImplementsStore ==
  ASSUME SwapIsSafe, RemovalIsSafe, StateIsRead
  PROVE  InstallerSpec => ImplementsStore
<1>1. InstallerInit => Store!StoreInit
  BY DEF InstallerInit, NoState, Store!StoreInit, MidSwap, Complete
<1>2. InstallerInv /\ SafeInv /\ [InstallerNext]_installerVars => (InstallerInv /\ SafeInv)'
  BY SafeInvStep DEF PruningIsSafe
<1>3. InstallerInv /\ SafeInv /\ [InstallerNext]_installerVars
        => [Store!StoreNext]_(Store!storeVars)
  BY StoreStep
<1> QED
  BY <1>1, <1>2, <1>3, InstallerInitially, PTL
  DEF InstallerSpec, ImplementsStore, Store!StoreSpec
=============================================================================
