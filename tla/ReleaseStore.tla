---------------------------- MODULE ReleaseStore ----------------------------
(***************************************************************************)
(* What the release installer promises its callers: a set of installed     *)
(* releases and a pair of pointers, the active release and the one a       *)
(* rollback returns to.  Every operation is one atomic step here.          *)
(* ReleaseInstaller.tla, which models the file-system operations one by    *)
(* one with their failures and crashes, is shown to implement it.          *)
(***************************************************************************)

CONSTANTS Releases,   \* the release ids
          NoRelease   \* the empty string in state.json

VARIABLES installed,  \* the releases whose directory is complete
          pointers    \* [active, previous]: the content of state.json

storeVars == <<installed, pointers>>

Pointers == [active: Releases \cup {NoRelease}, previous: Releases \cup {NoRelease}]

StoreInit ==
  /\ installed = {}
  /\ pointers = [active |-> NoRelease, previous |-> NoRelease]

\* A release becomes available as a whole.
Place(r) == installed' = installed \cup {r} /\ UNCHANGED pointers

\* Only a release neither pointer names may disappear.
Drop(r) ==
  /\ r \notin {pointers.active, pointers.previous}
  /\ installed' = installed \ {r}
  /\ UNCHANGED pointers

\* An installed release becomes the active one; the release it replaces
\* becomes the rollback target, unless it is the same release.
Switch(r) ==
  /\ r \in installed
  /\ pointers' = [active |-> r,
                  previous |-> IF pointers.active = r THEN pointers.previous
                                                      ELSE pointers.active]
  /\ UNCHANGED installed

\* The two pointers change places.
SwitchBack ==
  /\ pointers.previous \in installed
  /\ pointers' = [active |-> pointers.previous, previous |-> pointers.active]
  /\ UNCHANGED installed

StoreNext ==
  \/ \E r \in Releases : Place(r) \/ Drop(r) \/ Switch(r)
  \/ SwitchBack

StoreSpec == StoreInit /\ [][StoreNext]_storeVars
=============================================================================
