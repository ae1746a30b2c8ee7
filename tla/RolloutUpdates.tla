--------------------------- MODULE RolloutUpdates ---------------------------
(***************************************************************************)
(* What an update does to the documents of the devices.  This module gives *)
(* MergeObject of Rollout its meaning, merge_object(), which is recursive. *)
(***************************************************************************)
EXTENDS Rollout, Documents

\* An update changes what it names and nothing else, also when the device gets
\* it twice or between other updates.
UpdatesWhatItNames ==
  [][\A q \in Queues, r \in Requests :
       document'[q] # document[q] /\ UpdatesFile(q, r) =>
         LET named == Leaves(cli[r].update.values)
         IN /\ named \subseteq Leaves(document'[q])
            /\ \A l \in Leaves(document[q]) :
                 l \in Leaves(document'[q]) \/ \E a \in named : Meet(a[1], l[1])]_rolloutVars
=============================================================================
