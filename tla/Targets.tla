------------------------------- MODULE Targets -------------------------------
(***************************************************************************)
(* What a graph-driven scan attacks and what it deploys.  Between two      *)
(* phases the workflow asks Neo4j for attack targets, normalises and       *)
(* filters them, asks for the containers, routes and database schemas to   *)
(* clone, chooses the workload the sandbox is entered through and, much    *)
(* later, tells the crew which workload that was.  Each query sees the     *)
(* graph of its own moment: the agents' ingest workflows keep changing it. *)
(* The workflow itself may be replayed by another process.                 *)
(*                                                                         *)
(* Names are words, and "" stands for one that is absent.  Three           *)
(* conversions matter: _normalize_workload_name, which maps several words  *)
(* to one, the cut of _sanitize_name, and the lower case of the filter.    *)
(* Where ORDER BY compares wording, a LIMIT may keep any of the ties.      *)
(***************************************************************************)
EXTENDS Integers, SequencesExt

CONSTANTS
  Routes,      \* Route nodes the company's graph may hold
  Containers,  \* Container nodes with an image
  Schemas,     \* DatabaseSchema nodes
  Hops,        \* shortest path between two routes, 0 if there is none
  Selections,  \* what a scan may select: sets of words, {} for everything
  Endpoints,   \* endpoints an artifact may ask for
  Agents,      \* agents a scan may be asked of, "" for all of them
  Words,       \* identifiers, names and labels
  Normalized,  \* _normalize_workload_name
  Cut,         \* the first 54 characters
  Lower,       \* str.lower
  Critical,    \* how critical a target of this name is
  LowValue,    \* normalised names with a low value keyword
  Web,         \* normalised names with a keyword like web or api
  Limit,       \* limit of the target queries
  MaxClones,   \* limit of the container query
  MaxLinks,    \* limit of the route query
  MaxSchemas,  \* limit of the schema query
  MaxChanges,  \* bound on the changes of the graph
  Faults       \* what may go wrong, a subset of AllFaults

AllFaults == {"neo4j", "replay"}

Criticality == {60, 80, 90, 100}

(* source and target: the names the route connects; entry: an HTTP port or *)
(* protocol; worthwhile: a port, kind or keyword of the target query;      *)
(* admin: a path with that keyword; label and direct: its name, kind and   *)
(* namespace joined, as the path query and the direct lookup answer them.  *)
Route == [id : Words, raw : Words, agent : Agents, source : Words, target : Words,
          path : STRING, label : Words, direct : Words,
          entry : BOOLEAN, worthwhile : BOOLEAN, admin : BOOLEAN]

(* runtime: the image has a keyword like node or python.                   *)
Container == [id : Words, raw : Words, name : Words, runtime : BOOLEAN]

(* known: its engine and its host are.                                     *)
Schema == [containerId : Words, containerName : Words, known : BOOLEAN]

(* The queries tell routes apart by their id; no selected word is empty.   *)
ASSUME TargetsAssumption ==
  /\ Routes \subseteq Route /\ Containers \subseteq Container
  /\ Schemas \subseteq Schema
  /\ IsFiniteSet(Routes) /\ IsFiniteSet(Containers)
  /\ \A r, s \in Routes : r.id = s.id => r = s
  /\ {"", "container", "minio", "graph-target", "default-search", "default-reflect"}
       \subseteq Words
  /\ Endpoints \subseteq Words
  /\ Hops \in [Routes \X Routes -> Nat]
  /\ \A s \in Selections : s \subseteq Words \ {""} /\ IsFiniteSet(s)
  /\ Lower \in [Words -> Words] /\ Critical \in [Words -> Criticality] /\ "" \in Agents
  /\ Normalized \in [Words -> Words] /\ Cut \in [Words -> Words]
  /\ Limit \in Nat \ {0} /\ {MaxClones, MaxLinks, MaxSchemas, MaxChanges} \subseteq Nat
  /\ Faults \subseteq AllFaults

VARIABLES
  graph,      \* the company's nodes in Neo4j
  changes,    \* how often the graph has changed
  kind,       \* the scan is of a topology, an image, or what an artifact says
  selected,   \* selected_target_ids
  agent,      \* the agent whose routes are attacked
  phase,      \* what the workflow waits for
  rows,       \* the rows the target query answered
  attack,     \* attack_targets
  clones,     \* the containers the topology was built from
  links,      \* routes of the topology
  schemas,    \* databaseSchemas of the topology
  endpoint,   \* preferred_endpoint_workload, as the workflow's code has it
  deployed,   \* the one CreateSandbox was asked for
  crew,       \* the one run_crew_pentest was told
  moved       \* history: another process replayed the workflow

vars == <<graph, changes, kind, selected, agent, phase, rows, attack, clones, links,
          schemas, endpoint, deployed, crew, moved>>
asked == <<kind, selected, agent>>
topology == <<clones, links, schemas>>
chosen == <<endpoint, deployed, crew, moved>>

-----------------------------------------------------------------------------
(* The queries. *)

RouteWords(r) == {r.id, r.raw, r.source, r.target}
ContainerWords(c) == {c.id, c.raw, c.name}
Covers(c, r) == ({c.raw, c.name} \cap {r.source, r.target}) \ {""} # {}

(* Attack targets and their entries are routes of the scan's agent; the    *)
(* queries of the topology take those of all agents.                       *)
OfAgent(r) == agent \in {"", r.agent}

(* The selection names a route or a container of the graph G it covers ... *)
RouteSelected(G, r) ==
  \/ selected = {}
  \/ selected \cap RouteWords(r) # {}
  \/ \E c \in G \cap Containers : Covers(c, r) /\ selected \cap ContainerWords(c) # {}

(* ... and a container or a route that it covers.                          *)
CloneSelected(G, c) ==
  \/ selected = {}
  \/ selected \cap ContainerWords(c) # {}
  \/ \E r \in G \cap Routes : Covers(c, r) /\ selected \cap RouteWords(r) # {}

(* OPTIONAL MATCH: a row for each container a route covers, or one.        *)
Boxes(G, r) ==
  LET covered == {c.id : c \in {d \in G \cap Containers : Covers(d, r)}} IN
  IF covered = {} THEN {""} ELSE covered
Rows(G, e, t, hops) ==
  {[entry |-> e, target |-> t, hops |-> hops, box |-> b] : b \in Boxes(G, t)}

(* Rows of a worthwhile selected target and an HTTP entry with a path.     *)
PathRows(G) ==
  UNION {UNION {Rows(G, e, t, Hops[<<e, t>>]) :
                  t \in {u \in G \cap Routes :
                           /\ OfAgent(u) /\ u.worthwhile /\ RouteSelected(G, u)
                           /\ u # e /\ Hops[<<e, u>>] > 0}}
         : e \in {u \in G \cap Routes : OfAgent(u) /\ u.entry}}

(* Rows of the selected routes, each its own entry: no other has 0 hops.   *)
BrokenDirectRows(G) ==
  UNION {Rows(G, r, r, 0) : r \in {u \in G \cap Routes : OfAgent(u)}}

DirectRows(G) ==
  UNION {Rows(G, r, r, 0) :
           r \in {u \in G \cap Routes : OfAgent(u) /\ RouteSelected(G, u)}}

(* target_name, entry_name and path of a row or an attack target; a direct *)
(* row takes a name that its route lacks from the other end of the route.  *)
Either(w, v) == IF w # "" THEN w ELSE v
Name(t) == IF t.hops = 0 THEN Either(t.target.target, t.target.source) ELSE t.target.target
EntryName(t) == IF t.hops = 0 THEN Either(t.entry.source, t.entry.target) ELSE t.entry.source
Path(t) == Either(t.target.path, Either(t.entry.path, "/"))

Weight(t) == IF t.target.admin /\ Critical[Name(t)] = 60 THEN 80 ELSE Critical[Name(t)]

(* ORDER BY path_length, criticality DESC LIMIT limit; ties may be cut     *)
(* either way.                                                             *)
Nearer(a, b) ==
  \/ a.hops < b.hops
  \/ a.hops = b.hops /\ Weight(a) > Weight(b)

Limited(R, limit) ==
  {K \in SUBSET R : Cardinality(K) = IF Cardinality(R) < limit THEN Cardinality(R) ELSE limit}

Answers(R) == {K \in Limited(R, Limit) : \A a \in K, b \in R \ K : ~Nearer(b, a)}

-----------------------------------------------------------------------------
(* From rows to attack targets. *)

Score(t) == Weight(t) * 100 - t.hops
Better(a, b) ==
  \/ Score(a) > Score(b)
  \/ Score(a) = Score(b) /\ a.hops < b.hops

(* One best target for each key: the first with it in an order by rank.    *)
Id(t) == <<t.target.id, Path(t)>>
BrokenPathAndName(t) == Path(t)
PathAndName(t) == <<Path(t), Name(t)>>
FirstOf(key) ==
  {B \in SUBSET DOMAIN key :
     /\ \A t \in DOMAIN key : \E b \in B : key[b] = key[t] /\ ~Better(t, b)
     /\ \A a, b \in B : key[a] = key[b] => a = b}

(* The service keeps a row for each target and path, _normalize_targets    *)
(* one of these for each path and name.                                    *)
NormalizedTargets ==
  LET found == {[entry |-> r.entry, target |-> r.target, hops |-> r.hops] : r \in rows}
  IN  UNION {FirstOf([t \in T |-> PathAndName(t)]) :
               T \in FirstOf([t \in found |-> Id(t)])}

(* _build_target_label.                                                    *)
Label(t) ==
  Either(IF t.hops = 0 THEN t.target.direct ELSE t.target.label,
         Either(EntryName(t), "graph-target"))

Aliases(t) == {t.target.id, t.entry.id, Name(t), EntryName(t), Label(t)} \ {""}

(* Targets with a selected alias, or all if there are none.                *)
InLower(S) == {Lower[w] : w \in S}
Filtered(N) ==
  LET filtered == {t \in N : InLower(Aliases(t)) \cap InLower(selected) # {}} IN
  IF selected = {} \/ filtered = {} THEN N ELSE filtered

InOrder(N) ==
  {q \in SetToSeqs(N) : \A i, j \in 1 .. Len(q) : i < j => ~Better(q[j], q[i])}

(* The defaults are a path and a label, which only the choice of the       *)
(* endpoint reads.                                                         *)
NoRoute == [id |-> "", raw |-> "", agent |-> "", source |-> "", target |-> "",
            path |-> "/", label |-> "", direct |-> "",
            entry |-> FALSE, worthwhile |-> FALSE, admin |-> FALSE]
Search == [NoRoute EXCEPT !.path = "/search", !.direct = "default-search"]
Reflect == [NoRoute EXCEPT !.path = "/reflect", !.direct = "default-reflect"]
DefaultTarget(r) == [entry |-> NoRoute, target |-> r, hops |-> 0]
DEFAULT_ATTACK_TARGETS == <<DefaultTarget(Search), DefaultTarget(Reflect)>>

-----------------------------------------------------------------------------
(* The topology and the workload it is entered through. *)

Sanitized(w) == IF Normalized[w] = "" THEN "container" ELSE Cut[Normalized[w]]

(* Names in the topology, and what the choice of the endpoint makes of     *)
(* them: a cut behind a dash loses the dash.                               *)
Named(C) == {Sanitized(c.name) : c \in C}
Workload(c) == Normalized[Sanitized(c.name)]
Workloads == {Workload(c) : c \in clones}

(* The workload a candidate stands for: by identifier, else by name.       *)
Stands(w) ==
  LET byId == {c \in clones : Normalized[c.id] = Normalized[w]} IN
  IF Normalized[w] = "" THEN ""
  ELSE IF byId # {} THEN Workload(CHOOSE c \in byId : TRUE)
  ELSE IF Normalized[w] \in Workloads THEN Normalized[w] ELSE ""

BrokenServes(w) == Stands(w) # ""
Serves(w) == Stands(w) \notin LowValue \cup {""}

Candidates(t) == <<Name(t), EntryName(t), Label(t), t.target.id, t.entry.id>>
OfTargets == [k \in 1 .. 5 * Len(attack) |->
                Candidates(attack[((k - 1) \div 5) + 1])[((k - 1) % 5) + 1]]

(* _best_endpoint_workload; of equals the first by name, here by CHOOSE.   *)
Appeal(c) ==
  60 + (IF Workload(c) \in Web THEN 40 ELSE 0) + (IF c.runtime THEN 20 ELSE 0)
Best ==
  LET able == {c \in clones : Workload(c) \notin LowValue}
      best == {c \in able : \A d \in able : Appeal(d) <= Appeal(c)}
  IN  IF able = {} THEN "" ELSE CHOOSE w \in {Workload(c) : c \in best} : TRUE

(* Candidates of the targets in their order, then the selected words in    *)
(* the order in which this process iterates over the set.                  *)
BrokenEndpoint(order) ==
  LET asking == order \o OfTargets
      serving == {i \in DOMAIN asking : Serves(asking[i])}
  IN  IF serving = {} THEN Best ELSE Stands(asking[Min(serving)])

Endpoint(order) ==
  LET asking == OfTargets \o order
      serving == {i \in DOMAIN asking : Serves(asking[i])}
  IN  IF serving = {} THEN Best ELSE Stands(asking[Min(serving)])

-----------------------------------------------------------------------------

Nodes == Routes \cup Containers \cup Schemas

(* A scan of a topology, all of it or a selection, or of an image, which   *)
(* may be a reference to an object in MinIO.                               *)
Init ==
  /\ graph \in SUBSET Nodes
  /\ changes = 0 /\ agent \in Agents
  /\ \/ phase = "identify" /\ kind = "topology" /\ selected \in Selections
     \/ phase \in {"identify", "download"} /\ kind = "image" /\ selected = {}
  /\ rows = {} /\ attack = <<>>
  /\ clones = {} /\ links = {} /\ schemas = {}
  /\ endpoint = "" /\ deployed = "" /\ crew = "" /\ moved = FALSE

(* download_minio_artifact: the object holds a sandbox request or a        *)
(* topology, or names an image or a topology, or nothing that could be     *)
(* deployed.  A topology of its own that names no target is called         *)
(* topology:minio, which is read as the selection of minio.                *)
Download ==
  /\ phase = "download"
  /\ \/ kind' = "artifact" /\ selected' \in Selections \cup {{}, {"minio"}}
        /\ phase' = "identify"
     \/ kind' = "topology" /\ selected' \in Selections /\ phase' = "identify"
     \/ kind' = "image" /\ selected' = {} /\ phase' \in {"identify", "failed"}
  /\ UNCHANGED <<graph, changes, agent, rows, attack, topology, chosen>>

(* An ingest workflow adds or removes a node.                              *)
Ingest ==
  /\ changes < MaxChanges /\ phase \notin {"deployed", "done", "failed"}
  /\ \E n \in Nodes : graph' = IF n \in graph THEN graph \ {n} ELSE graph \cup {n}
  /\ changes' = changes + 1
  /\ UNCHANGED <<asked, phase, rows, attack, topology, chosen>>

(* identify_attack_targets: without rows a selection is asked for again,   *)
(* without entries and paths.                                              *)
QueryPaths ==
  /\ phase = "identify"
  /\ rows' \in Answers(PathRows(graph))
  /\ phase' = IF rows' = {} /\ selected # {} THEN "direct" ELSE "rank"
  /\ UNCHANGED <<graph, changes, asked, attack, topology, chosen>>

QueryDirect ==
  /\ phase = "direct"
  /\ rows' \in Answers(DirectRows(graph))
  /\ phase' = "rank"
  /\ UNCHANGED <<graph, changes, asked, attack, topology, chosen>>

(* The activity ranks its rows, the workflow normalises and filters them.  *)
(* An image has no workloads to choose from; what an artifact deploys was  *)
(* decided by the artifact, unless its topology does not match the schema. *)
RankTargets ==
  /\ phase = "rank"
  /\ \E N \in NormalizedTargets :
       attack' \in IF N = {} THEN {DEFAULT_ATTACK_TARGETS} ELSE InOrder(Filtered(N))
  /\ \/ kind = "topology" /\ phase' = "clone" /\ UNCHANGED <<endpoint, deployed>>
     \/ kind = "image" /\ phase' = "deployed" /\ UNCHANGED <<endpoint, deployed>>
     \/ /\ kind = "artifact" /\ phase' \in {"deployed", "failed"}
        /\ endpoint' \in Endpoints /\ deployed' = endpoint'
  /\ UNCHANGED <<graph, changes, asked, rows, topology, crew, moved>>

(* build_sandbox_topology, in three queries.  Without containers the other *)
(* two are not sent and the workflow raises.                               *)
CloneContainers ==
  /\ phase = "clone"
  /\ clones' \in Limited({c \in graph \cap Containers : CloneSelected(graph, c)}, MaxClones)
  /\ phase' = IF clones' = {} THEN "failed" ELSE "routes"
  /\ UNCHANGED <<graph, changes, asked, rows, attack, links, schemas, chosen>>

(* With a selection only routes that name something selected, a sanitized  *)
(* name or a container's id are asked for, and of these only so many; what *)
(* does not connect two workloads is dropped from the answer.              *)
Asked(r) ==
  \/ selected = {}
  \/ selected \cap RouteWords(r) # {}
  \/ (Named(clones) \cup {c.id : c \in clones}) \cap {r.source, r.target} # {}

Known == Named(clones) \cup {Sanitized(w) : w \in Named(clones)}

BrokenLinked(r) == Sanitized(r.source) # Sanitized(r.target)
Linked(r) ==
  /\ Sanitized(r.source) # Sanitized(r.target)
  /\ {Sanitized(r.source), Sanitized(r.target)} \subseteq Known

LoadRoutes ==
  /\ phase = "routes"
  /\ \E K \in Limited({r \in graph \cap Routes : "" \notin {r.source, r.target} /\ Asked(r)},
                       MaxLinks) :
       links' = {<<Sanitized(r.source), Sanitized(r.target)>> : r \in {q \in K : Linked(q)}}
  /\ phase' = "schemas"
  /\ UNCHANGED <<graph, changes, asked, rows, attack, clones, schemas, chosen>>

(* A schema of a container, by its identifiers or its names.               *)
Seeds(d) ==
  \/ d.containerId \in (UNION {{c.id, c.raw} : c \in clones}) \ {""}
  \/ d.containerName \in (Named(clones) \cup {c.name : c \in clones}) \ {""}

(* The schemas of the containers, without those of unknown engine or host, *)
(* then the choice of the endpoint and the request of the sandbox, unless  *)
(* a port makes the schema refuse it.                                      *)
LoadSchemas ==
  /\ phase = "schemas"
  /\ \E K \in Limited({d \in graph \cap Schemas : Seeds(d)}, MaxSchemas) :
       schemas' = {d \in K : d.known}
  /\ \E order \in SetToSeqs(selected) :
       endpoint' = Endpoint(order) /\ deployed' = endpoint'
  /\ phase' \in {"deployed", "failed"}
  /\ UNCHANGED <<graph, changes, asked, rows, attack, clones, links, crew, moved>>

(* A query fails: the activity is tried again, from its first query.       *)
QueryFails ==
  /\ "neo4j" \in Faults
  /\ \/ phase = "direct" /\ phase' = "identify"
     \/ phase \in {"routes", "schemas"} /\ phase' = "clone"
  /\ clones' = {} /\ links' = {}
  /\ UNCHANGED <<graph, changes, asked, rows, attack, schemas, chosen>>

(* Another process replays the workflow: what the activities answered is   *)
(* in the history, the iteration order of a set of strings is not.         *)
Replay ==
  /\ "replay" \in Faults
  /\ phase = "deployed" /\ kind = "topology"
  /\ \E order \in SetToSeqs(selected) : endpoint' = Endpoint(order)
  /\ moved' = TRUE
  /\ UNCHANGED <<graph, changes, asked, phase, rows, attack, topology, deployed, crew>>

(* _build_crew_pentest_request, after seeding and the targeted pentest.    *)
RunCrew ==
  /\ phase = "deployed"
  /\ crew' = endpoint
  /\ phase' = "done"
  /\ UNCHANGED <<graph, changes, asked, rows, attack, topology, endpoint, deployed, moved>>

Next ==
  \/ Ingest \/ Download
  \/ QueryPaths \/ QueryDirect \/ RankTargets
  \/ CloneContainers \/ LoadRoutes \/ LoadSchemas
  \/ QueryFails \/ Replay \/ RunCrew

Spec == Init /\ [][Next]_vars

-----------------------------------------------------------------------------
(* Properties. *)

Ranked == {"clone", "routes", "schemas", "deployed", "done", "failed"}

(* Type invariant.  A route of the topology connects two different names,  *)
(* each that of a workload of the same topology, sanitized once or twice,  *)
(* whatever the graph became between the queries.  (The second time may    *)
(* drop a dash at the end: such a name is no longer the workload's.)       *)
TypeOK ==
  /\ graph \subseteq Nodes /\ changes \in 0 .. MaxChanges
  /\ kind \in {"topology", "image", "artifact"} /\ selected \in Selections \cup {{}, {"minio"}}
  /\ agent \in Agents /\ phase \in Ranked \cup {"download", "identify", "direct", "rank"}
  /\ rows \subseteq [entry : Routes, target : Routes, hops : Nat, box : Words]
  /\ attack \in Seq([entry : Routes \cup {NoRoute}, hops : Nat,
                     target : Routes \cup {Search, Reflect}])
  /\ clones \subseteq Containers /\ schemas \subseteq Schemas
  /\ \A l \in links : l[1] # l[2] /\ {l[1], l[2]} \subseteq Known
  /\ {endpoint, deployed, crew} \subseteq Words /\ moved \in BOOLEAN

(* What a scan attacks and clones was selected, and what it attacks is a   *)
(* route of its agent, even when the filter that left nothing is taken     *)
(* back and when the direct lookup stands in for the path query; and there *)
(* is always something to attack.                                          *)
OnlySelected ==
  /\ phase \in Ranked \ {"failed"} => attack # <<>>
  /\ \A i \in DOMAIN attack :
       \/ attack = DEFAULT_ATTACK_TARGETS /\ rows = {}
       \/ RouteSelected(Nodes, attack[i].target) /\ OfAgent(attack[i].target)
  /\ \A c \in clones : CloneSelected(Nodes, c)

(* A target that was asked for by its own identifier or name and was found *)
(* is attacked: neither the two rounds of removing duplicates nor the      *)
(* filter lose it, unless a target of the same path and name stands before *)
(* it that was selected in another way, such as by its container.          *)
Wanted(t) == selected = {} \/ selected \cap {t.target.id, Name(t)} # {}
Alike(t, u) == Path(t) = Path(u) /\ Name(t) = Name(u)

SelectedAreAttacked ==
  phase \in Ranked => \A r \in rows :
    Wanted(r) => \/ \E i \in DOMAIN attack : Alike(attack[i], r)
                 \/ \E s \in rows : Alike(s, r) /\ ~Wanted(s)

(* The sandbox is entered through a workload of its topology that is no    *)
(* observability tool, whenever it has one, and the crew is told of one.   *)
(* It is told of by its normalised name, which the name in the topology    *)
(* need not equal: the cut may have left that one a dash at its end.       *)
EndpointIsWorkload ==
  kind = "topology" /\ phase \in {"deployed", "done"} =>
    \A w \in {endpoint, deployed} \cup (IF phase = "done" THEN {crew} ELSE {}) :
      IF Workloads \subseteq LowValue THEN w = "" ELSE w \in Workloads \ LowValue

(* The crew is told of the workload the sandbox is entered through, unless *)
(* another process replayed the workflow, several words were selected and  *)
(* no attack target decided.                                               *)
CrewNamesDeployed ==
  phase = "done" /\ crew # deployed =>
    /\ moved /\ Cardinality(selected) > 1
    /\ \A i \in DOMAIN OfTargets : ~Serves(OfTargets[i])
=============================================================================
