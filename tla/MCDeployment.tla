---------------------------- MODULE MCDeployment -----------------------------
(* A small server for TLC: an older and a newer release, whose histories    *)
(* are one prefix of the other, one whose history forks, and archives that  *)
(* are as they should be, name one commit and hold another, or hold the     *)
(* images of another under the right name.                                  *)
EXTENDS DeploymentProperties, TLC

CONSTANTS old, new

History == [r \in {old, new} |->
              IF r = old THEN (1 :> 0) ELSE (1 :> 0 @@ 2 :> 1)]

Image(role, r)   == [role |-> role, label |-> r]
AllImages        == {Image(role, r) : role \in Roles, r \in {old, new}}
Package(s, i, g) == [source  |-> s,
                     rows    |-> [role \in Roles |-> [id |-> Image(role, i), revision |-> g]],
                     configs |-> {[image |-> Image(role, i), tag |-> <<role, g>>] : role \in Roles}]
Packages == {Package(old, old, old), Package(new, new, new), Package(old, new, old)}

(* One task is enough for two schedulers to meet at.                        *)
Sweeps == <<"operations">>
==============================================================================
