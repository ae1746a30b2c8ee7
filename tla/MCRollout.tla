------------------------------ MODULE MCRollout ------------------------------
(* The constants with which TLC checks Rollout.                            *)
EXTENDS RolloutUpdates

CONSTANTS kiosk, lab

RolloutSymmetry == Permutations(Requests)

\* The queue of each device is registered in the group kiosk.  The device's own
\* configuration may name another group.
AllKiosk == [q \in Queues |-> kiosk]
AllLab == [q \in Queues |-> lab]

TheDocument == [k |-> [x |-> Leaf(0), y |-> Leaf(0)], n |-> Leaf(0)]

\* The objects over the keys of the document and of the updates.
Inner == UNION {[keys -> {Leaf(0), Leaf(1)}] : keys \in SUBSET {"x", "y"}}
TheObjects ==
  {json \in UNION {[keys -> Inner \cup {Leaf(0), Leaf(1)}] : keys \in SUBSET {"k", "n"}} :
     /\ "k" \in DOMAIN json => json.k \in Inner
     /\ "n" \in DOMAIN json => json.n \in {Leaf(0), Leaf(1)}}

Update(path, values) == [path |-> path, values |-> values]

\* Two updates of an inner object, of which the second sets a value back and
\* an outer one, and a way out of the release directory.
SomeUpdates ==
  {Update(<<".", "a", "b">>, [k |-> [x |-> Leaf(1)]]),
   Update(<<"a", "b">>, [k |-> [x |-> Leaf(0), y |-> Leaf(1)], n |-> Leaf(1)]),
   Update(<<"a", "..", "..", "b">>, [n |-> Leaf(1)])}

\* One deployment of the service alone, one with its configuration.
SomeFiles == {"app", "config"}
SomeFileLists == {<<"app">>, <<"config", "app">>}
BothFiles == {<<"app", "config">>}

\* A configuration that could not be loaded, with and without an argument, and
\* one that was loaded and means every device.
SomeSettings ==
  {[file |-> Unloaded, arguments |-> <<>>],
   [file |-> Unloaded, arguments |-> [target_group |-> kiosk]],
   [file |-> [loaded |-> TRUE, values |-> <<>>], arguments |-> <<>>]}

\* Bounds of the run: no update goes out beside a deployment, and where something
\* is deployed the answers of the server arrive.
SomeTogether ==
  (\E r \in Requests : cli[r].kind = "deploy") =>
    \A r \in Requests :
      /\ cli[r].kind # "update_configuration"
      /\ asked[r] # "none" /\ cli[r].outcome = "failed" => response[r] = "refused"

JustDeploy == {"deploy"}
=============================================================================
