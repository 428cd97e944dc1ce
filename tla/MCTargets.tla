------------------------------ MODULE MCTargets ------------------------------
(* Instance of Targets for TLC: a web front end and two databases of the   *)
(* same name, seen by an observability tool.                               *)
EXTENDS Targets

Normal == {"", "container", "web-1", "db", "prometheus", "gw", "label", "minio",
           "r1", "r2", "r3", "r4", "x2", "c1", "c2", "c3", "c9", "long",
           "graph-target", "default-search", "default-reflect"}
SomeWords == Normal \cup {"web_1", "long_name", "long-", "R2"}
SomeEndpoints == {"", "web_1"}
SomeAgents == {"", "a1"}

(* long_name stands for a name that the cut ends behind a dash.            *)
Normalization == [w \in SomeWords |->
  IF w = "web_1" THEN "web-1" ELSE IF w = "long-" THEN "long" ELSE IF w = "R2" THEN "r2" ELSE w]
LowerCase == [w \in SomeWords |-> IF w = "R2" THEN "r2" ELSE w]
Criticalities == [w \in SomeWords |-> IF w = "db" THEN 100 ELSE 60]
Cutting == [w \in SomeWords |-> IF w = "long_name" THEN "long-" ELSE w]

(* The agent a1 reported all routes but one, which leads to a database     *)
(* that has neither a path nor, as a target, a name.                       *)
Node(id, source, target, path, entry) ==
  [id |-> id, raw |-> "x2", agent |-> "a1", source |-> source, target |-> target,
   path |-> path, label |-> "label", direct |-> "label",
   entry |-> entry, worthwhile |-> TRUE, admin |-> FALSE]
Shop == Node("r1", "gw", "web_1", "/", TRUE)
Store == Node("r2", "web_1", "db", "/", FALSE)
Other == [Node("r3", "db", "", "", TRUE) EXCEPT !.agent = "", !.label = "db"]
Admin == [Node("r4", "long_name", "web_1", "/admin", TRUE) EXCEPT !.admin = TRUE]
SomeRoutes == {Shop, Store, Other, Admin}

Box(id, name, runtime) == [id |-> id, raw |-> id, name |-> name, runtime |-> runtime]
SomeContainers == {Box("c1", "web_1", TRUE), Box("c2", "prometheus", TRUE),
                   Box("c3", "long_name", FALSE)}

(* A schema of another container, whose name another stands for as well,   *)
(* and one whose engine or host is unknown.                                *)
SomeSchemas == {[containerId |-> "c9", containerName |-> "web-1", known |-> TRUE],
                [containerId |-> "c3", containerName |-> "long_name", known |-> FALSE]}

(* From the shop to the others, the second database farther away unless it *)
(* is reached through the console; from that database back to the shop.    *)
SomeHops == [p \in SomeRoutes \X SomeRoutes |->
  IF p \in {<<Shop, Store>>, <<Shop, Admin>>, <<Admin, Other>>, <<Other, Shop>>} THEN 1
  ELSE IF p = <<Shop, Other>> THEN 2 ELSE 0]

SomeSelections ==
  {{}, {"R2", "c1"}, {"c2", "db"}, {"c1", "c3"}, {"r3", "r4", "c1"}}
=============================================================================
