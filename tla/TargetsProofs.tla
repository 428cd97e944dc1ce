----------------------------- MODULE TargetsProofs -----------------------------
(***************************************************************************)
(* Proofs about Targets, for any graph, selection and limits: what is      *)
(* attacked and cloned was selected, what was selected by its own name is  *)
(* attacked unless it hides behind another, and the sandbox is entered     *)
(* through a workload it has.                                              *)
(***************************************************************************)
EXTENDS Targets, FiniteSetTheorems, SequenceTheorems, WellFoundedInduction, TLAPS

-----------------------------------------------------------------------------
(* Facts about minima, images and the sequences that order a finite set.   *)

LEMMA Least ==
  ASSUME NEW S \in SUBSET Nat, S # {}
  PROVE  Min(S) \in S /\ \A y \in S : Min(S) <= y
<1>1. IsWellFoundedOn(OpToRel(<, Nat), Nat)
  BY NatLessThanWellFounded
<1>2. PICK x \in S : \A y \in S : <<y, x>> \notin OpToRel(<, Nat)
  BY <1>1, WFMin
<1>3. OpToRel(<, Nat) = {ss \in Nat \X Nat : ss[1] < ss[2]}
  BY DEF OpToRel
<1>4. ASSUME NEW y \in S PROVE ~(y < x)
  <2>1. <<y, x>> \notin {ss \in Nat \X Nat : ss[1] < ss[2]}
    BY <1>2, <1>3
  <2> QED BY <2>1
<1>5. \A y \in S : x <= y
  BY <1>4
<1> QED BY <1>5 DEF Min

(* More and later elements do not change a minimum.                        *)
LEMMA LeastOfFirst ==
  ASSUME NEW S \in SUBSET Nat, S # {}, NEW T \in SUBSET Nat, S \subseteq T,
         \A x \in S, y \in T \ S : x < y
  PROVE  Min(T) = Min(S)
<1>1. /\ Min(S) \in S /\ \A y \in S : Min(S) <= y
      /\ Min(T) \in T /\ \A y \in T : Min(T) <= y
  BY Least
<1>2. Min(S) \in Nat /\ Min(T) \in Nat /\ Min(T) <= Min(S)
  BY <1>1
<1>3. Min(T) \in S
  BY <1>1, <1>2
<1> QED BY <1>1, <1>2, <1>3

LEMMA ImageFinite ==
  ASSUME NEW S, IsFiniteSet(S), NEW f PROVE IsFiniteSet({f[x] : x \in S})
<1> DEFINE g == [x \in S |-> f[x]]
<1>1. g \in Surjection(S, {f[x] : x \in S})
  BY DEF Surjection
<1> QED BY <1>1, FS_Surjection

LEMMA AllOfThem ==
  ASSUME NEW S, IsFiniteSet(S), NEW q \in SetToSeqs(S)
  PROVE  /\ q \in Seq(S) /\ Len(q) = Cardinality(S) /\ DOMAIN q = 1 .. Len(q)
         /\ \A s \in S : \E i \in DOMAIN q : q[i] = s
<1>1. Cardinality(S) \in Nat
  BY FS_CardinalityType
<1>2. q \in [1..Cardinality(S) -> S]
  BY DEF SetToSeqs
<1>3. q \in Injection(1..Cardinality(S), S)
  BY <1>2 DEF SetToSeqs, Injection, IsInjective
<1>4. Cardinality(1..Cardinality(S)) = Cardinality(S)
  BY <1>1, FS_Interval
<1>5. q \in Surjection(1..Cardinality(S), S)
  BY <1>3, <1>4, FS_Injection
<1> QED BY <1>1, <1>2, <1>5 DEF Surjection

(* A set of one element has one order.                                     *)
LEMMA OneOrder ==
  ASSUME NEW S, IsFiniteSet(S), Cardinality(S) <= 1,
         NEW p \in SetToSeqs(S), NEW q \in SetToSeqs(S)
  PROVE  p = q
<1>1. CASE S = {}
  <2>1. Cardinality(S) = 0
    BY <1>1, FS_EmptySet
  <2> QED BY <2>1 DEF SetToSeqs
<1>2. CASE S # {}
  <2>1. Cardinality(S) \in Nat /\ Cardinality(S) # 0
    BY <1>2, FS_CardinalityType, FS_EmptySet
  <2>2. Cardinality(S) = 1
    BY <2>1
  <2>3. PICK x : S = {x}
    BY <2>2, FS_Singleton
  <2> QED BY <2>2, <2>3 DEF SetToSeqs
<1> QED BY <1>1, <1>2

-----------------------------------------------------------------------------
(* The inductive invariant.                                                *)

StateOK ==
  /\ graph \subseteq Nodes /\ changes \in 0 .. MaxChanges
  /\ kind \in {"topology", "image", "artifact"} /\ selected \in Selections \cup {{}, {"minio"}}
  /\ agent \in Agents /\ phase \in Ranked \cup {"download", "identify", "direct", "rank"}
  /\ schemas \subseteq Schemas /\ moved \in BOOLEAN

RowSet == [entry : Routes, target : Routes, hops : Nat, box : Words]
Targeted == [entry : Routes \cup {NoRoute}, hops : Nat,
             target : Routes \cup {Search, Reflect}]
Found == {[entry |-> r.entry, target |-> r.target, hops |-> r.hops] : r \in rows}

(* What was asked for is what was selected when the graph is all there is; *)
(* the rows of one answer are all of paths or all direct.                  *)
RowsInv ==
  /\ rows \subseteq RowSet /\ IsFiniteSet(rows)
  /\ \A r \in rows : RouteSelected(Nodes, r.target) /\ OfAgent(r.target)
  /\ \A r, s \in rows : r.hops = 0 <=> s.hops = 0
  /\ phase \in {"download", "identify", "direct"} => rows = {}

AttackInv ==
  /\ attack \in Seq(Targeted)
  /\ (attack = DEFAULT_ATTACK_TARGETS /\ rows = {}) \/ \A i \in DOMAIN attack : attack[i] \in Found
  /\ phase \in {"download", "identify", "direct", "rank"} => attack = <<>>
  /\ phase \in Ranked \ {"failed"} => attack # <<>>
  /\ SelectedAreAttacked

ClonesInv ==
  /\ clones \subseteq Containers /\ \A c \in clones : CloneSelected(Nodes, c)
  /\ phase \in {"download", "identify", "direct", "rank", "clone"} => clones = {}
  /\ phase \in {"download", "identify", "direct", "rank", "clone", "routes"} => links = {}
  /\ \A l \in links : l[1] # l[2] /\ {l[1], l[2]} \subseteq Known

(* An endpoint that some order of the selected words leads to.             *)
Chosen(e) == \E order \in SetToSeqs(selected) : e = Endpoint(order)

EndpointInv ==
  /\ {endpoint, deployed, crew} \subseteq Words
  /\ kind = "topology" /\ phase \in {"deployed", "done"} => Chosen(endpoint) /\ Chosen(deployed)
  /\ endpoint # deployed => kind = "topology" /\ phase \in {"deployed", "done"} /\ moved
  /\ phase = "done" => crew = endpoint

IInv == StateOK /\ RowsInv /\ AttackInv /\ ClonesInv /\ EndpointInv

-----------------------------------------------------------------------------
(* Words, nodes and rows.                                                  *)

LEMMA WordsTyped ==
  ASSUME NEW w \in Words PROVE Normalized[w] \in Words /\ Sanitized(w) \in Words
BY TargetsAssumption DEF Sanitized

LEMMA NodesTyped ==
  /\ \A r \in Routes \cup {NoRoute, Search, Reflect} :
       {r.id, r.raw, r.source, r.target, r.label, r.direct} \subseteq Words
  /\ \A c \in Containers : {c.id, c.raw, c.name} \subseteq Words
  /\ {"", "graph-target"} \subseteq Words
<1>1. Routes \subseteq Route /\ Containers \subseteq Container
  BY TargetsAssumption
<1>2. {"", "graph-target", "default-search", "default-reflect"} \subseteq Words
  BY TargetsAssumption
<1>3. \A r \in {NoRoute, Search, Reflect} :
        {r.id, r.raw, r.source, r.target, r.label, r.direct} \subseteq Words
  <2>1. {NoRoute.id, NoRoute.raw, NoRoute.source, NoRoute.target, NoRoute.label, NoRoute.direct} = {""}
    BY DEF NoRoute
  <2>2. /\ {Search.id, Search.raw, Search.source, Search.target, Search.label} = {""}
        /\ Search.direct = "default-search"
    BY DEF NoRoute, Search
  <2>3. /\ {Reflect.id, Reflect.raw, Reflect.source, Reflect.target, Reflect.label} = {""}
        /\ Reflect.direct = "default-reflect"
    BY DEF NoRoute, Reflect
  <2> QED BY <1>2, <2>1, <2>2, <2>3
<1>4. \A r \in Route : {r.id, r.raw, r.source, r.target, r.label, r.direct} \subseteq Words
  BY DEF Route
<1>5. \A c \in Container : {c.id, c.raw, c.name} \subseteq Words
  BY DEF Container
<1> QED BY <1>1, <1>2, <1>3, <1>4, <1>5

LEMMA SelectedTyped ==
  ASSUME StateOK PROVE selected \subseteq Words \ {""} /\ IsFiniteSet(selected)
<1>1. \A q \in Selections : q \subseteq Words \ {""} /\ IsFiniteSet(q)
  BY TargetsAssumption
<1>2. "minio" \in Words /\ IsFiniteSet({"minio"}) /\ IsFiniteSet({})
  BY TargetsAssumption, FS_EmptySet, FS_Singleton
<1> QED BY <1>1, <1>2 DEF StateOK

LEMMA BoxesTyped ==
  ASSUME NEW G, NEW r PROVE Boxes(G, r) \subseteq Words /\ IsFiniteSet(Boxes(G, r))
<1> DEFINE D == {d \in G \cap Containers : Covers(d, r)}
           f == [c \in D |-> c.id]
<1>1. D \in SUBSET Containers
  OBVIOUS
<1>2. IsFiniteSet(D)
  BY <1>1, TargetsAssumption, FS_Subset
<1>3. IsFiniteSet({f[c] : c \in D})
  BY <1>2, ImageFinite
<1>4. {f[c] : c \in D} = {c.id : c \in D}
  OBVIOUS
<1>5. {c.id : c \in D} \subseteq Words
  BY <1>1, NodesTyped
<1>6. "" \in Words /\ IsFiniteSet({""})
  BY TargetsAssumption, FS_Singleton
<1> QED BY <1>3, <1>4, <1>5, <1>6 DEF Boxes

LEMMA RowsTyped ==
  ASSUME NEW G, NEW e \in Routes, NEW t \in Routes, NEW h \in Nat
  PROVE  /\ Rows(G, e, t, h) \subseteq RowSet /\ IsFiniteSet(Rows(G, e, t, h))
         /\ \A r \in Rows(G, e, t, h) : r.target = t /\ r.hops = h
<1> DEFINE f == [b \in Boxes(G, t) |-> [entry |-> e, target |-> t, hops |-> h, box |-> b]]
<1>1. Boxes(G, t) \subseteq Words /\ IsFiniteSet(Boxes(G, t))
  BY BoxesTyped
<1>2. Rows(G, e, t, h) = {f[b] : b \in Boxes(G, t)}
  BY DEF Rows
<1>3. IsFiniteSet({f[b] : b \in Boxes(G, t)})
  BY <1>1, ImageFinite
<1> QED BY <1>1, <1>2, <1>3 DEF RowSet

(* Selected in a part of the graph is selected in all of it.               *)
LEMMA SelectedInAll ==
  ASSUME NEW G, G \subseteq Nodes
  PROVE  /\ \A r : RouteSelected(G, r) => RouteSelected(Nodes, r)
         /\ \A c : CloneSelected(G, c) => CloneSelected(Nodes, c)
BY DEF RouteSelected, CloneSelected

AskedFor(r) == RouteSelected(Nodes, r.target) /\ OfAgent(r.target)

LEMMA PathRowsTyped ==
  ASSUME StateOK
  PROVE  /\ PathRows(graph) \subseteq RowSet /\ IsFiniteSet(PathRows(graph))
         /\ \A r \in PathRows(graph) : AskedFor(r) /\ r.hops # 0
<1> DEFINE E == {u \in graph \cap Routes : OfAgent(u) /\ u.entry}
           T(e) == {u \in graph \cap Routes :
                      /\ OfAgent(u) /\ u.worthwhile /\ RouteSelected(graph, u)
                      /\ u # e /\ Hops[<<e, u>>] > 0}
           f(e) == [t \in T(e) |-> Rows(graph, e, t, Hops[<<e, t>>])]
           g == [e \in E |-> UNION {f(e)[t] : t \in T(e)}]
<1>1. PathRows(graph) = UNION {g[e] : e \in E}
  <2> DEFINE row(e) == UNION {Rows(graph, e, t, Hops[<<e, t>>]) : t \in T(e)}
  <2>1. ASSUME NEW e \in E PROVE g[e] = row(e)
    <3>1. {f(e)[t] : t \in T(e)} = {Rows(graph, e, t, Hops[<<e, t>>]) : t \in T(e)}
      OBVIOUS
    <3> QED BY <3>1
  <2>2. PathRows(graph) = UNION {row(e) : e \in E}
    BY DEF PathRows
  <2> HIDE DEF E, T, f, g, row
  <2> QED BY <2>1, <2>2
<1>2. E \in SUBSET Routes /\ IsFiniteSet(E)
  <2>1. E \in SUBSET Routes
    OBVIOUS
  <2> QED BY <2>1, TargetsAssumption, FS_Subset
<1>3. ASSUME NEW e \in E
      PROVE  /\ g[e] \subseteq RowSet /\ IsFiniteSet(g[e])
             /\ \A r \in g[e] : AskedFor(r) /\ r.hops # 0
  <2>1. T(e) \in SUBSET Routes
    OBVIOUS
  <2>2. IsFiniteSet(T(e))
    BY <2>1, TargetsAssumption, FS_Subset
  <2>3. ASSUME NEW t \in T(e)
        PROVE  /\ f(e)[t] \subseteq RowSet /\ IsFiniteSet(f(e)[t])
               /\ \A r \in f(e)[t] : AskedFor(r) /\ r.hops # 0
    <3>0. e \in Routes /\ t \in Routes /\ Hops[<<e, t>>] > 0
      BY <1>2, <2>1
    <3>1. e \in Routes /\ t \in Routes /\ Hops[<<e, t>>] \in Nat /\ Hops[<<e, t>>] # 0
      <4> HIDE DEF T, E
      <4>1. Hops[<<e, t>>] \in Nat
        BY <3>0, TargetsAssumption
      <4> QED BY <3>0, <4>1
    <3>2. f(e)[t] = Rows(graph, e, t, Hops[<<e, t>>])
      OBVIOUS
    <3>3. RouteSelected(Nodes, t) /\ OfAgent(t)
      BY SelectedInAll DEF StateOK
    <3>4. PICK h \in Nat : f(e)[t] = Rows(graph, e, t, h) /\ h # 0
      BY <3>1, <3>2
    <3> HIDE DEF f, T, E
    <3>5. /\ Rows(graph, e, t, h) \subseteq RowSet /\ IsFiniteSet(Rows(graph, e, t, h))
          /\ \A r \in Rows(graph, e, t, h) : r.target = t /\ r.hops = h
      BY <3>1, <3>4, RowsTyped
    <3> QED BY <3>3, <3>4, <3>5 DEF AskedFor
  <2> HIDE DEF T, f
  <2>4. g[e] = UNION {f(e)[t] : t \in T(e)}
    OBVIOUS
  <2>5. IsFiniteSet({f(e)[t] : t \in T(e)})
    BY <2>2, ImageFinite
  <2>6. IsFiniteSet(UNION {f(e)[t] : t \in T(e)})
    BY <2>3, <2>5, FS_UNION
  <2> QED BY <2>3, <2>4, <2>6
<1> HIDE DEF E, g
<1>4. IsFiniteSet({g[e] : e \in E})
  BY <1>2, ImageFinite
<1>5. IsFiniteSet(UNION {g[e] : e \in E})
  BY <1>3, <1>4, FS_UNION
<1> QED BY <1>1, <1>3, <1>5

LEMMA DirectRowsTyped ==
  ASSUME StateOK
  PROVE  /\ DirectRows(graph) \subseteq RowSet /\ IsFiniteSet(DirectRows(graph))
         /\ \A r \in DirectRows(graph) : AskedFor(r) /\ r.hops = 0
<1> DEFINE T == {u \in graph \cap Routes : OfAgent(u) /\ RouteSelected(graph, u)}
           f == [t \in T |-> Rows(graph, t, t, 0)]
<1>1. DirectRows(graph) = UNION {f[t] : t \in T}
  BY DEF DirectRows
<1>2. T \in SUBSET Routes /\ IsFiniteSet(T)
  <2>1. T \in SUBSET Routes
    OBVIOUS
  <2> QED BY <2>1, TargetsAssumption, FS_Subset
<1>3. ASSUME NEW t \in T
      PROVE  /\ f[t] \subseteq RowSet /\ IsFiniteSet(f[t])
             /\ \A r \in f[t] : AskedFor(r) /\ r.hops = 0
  <2>1. t \in Routes /\ f[t] = Rows(graph, t, t, 0)
    OBVIOUS
  <2>2. RouteSelected(Nodes, t) /\ OfAgent(t)
    BY SelectedInAll DEF StateOK
  <2> HIDE DEF f
  <2> QED BY <2>1, <2>2, RowsTyped DEF AskedFor
<1> HIDE DEF T, f
<1>4. IsFiniteSet({f[t] : t \in T})
  BY <1>2, ImageFinite
<1>5. IsFiniteSet(UNION {f[t] : t \in T})
  BY <1>3, <1>4, FS_UNION
<1> QED BY <1>1, <1>3, <1>5

LEMMA AnswersTyped ==
  ASSUME NEW R, IsFiniteSet(R), NEW K \in Answers(R)
  PROVE  K \subseteq R /\ IsFiniteSet(K)
<1>1. K \in SUBSET R
  BY DEF Answers, Limited
<1> QED BY <1>1, FS_Subset

-----------------------------------------------------------------------------
(* From rows to attack targets.                                            *)

LEMMA FoundTyped ==
  ASSUME RowsInv
  PROVE  /\ Found \subseteq Targeted /\ IsFiniteSet(Found)
         /\ \A f \in Found : \E r \in rows :
              f.entry = r.entry /\ f.target = r.target /\ f.hops = r.hops
         /\ \A r \in rows : \E f \in Found :
              f.entry = r.entry /\ f.target = r.target /\ f.hops = r.hops
<1> DEFINE f == [r \in rows |-> [entry |-> r.entry, target |-> r.target, hops |-> r.hops]]
<1>1. Found = {f[r] : r \in rows}
  BY DEF Found
<1>2. IsFiniteSet({f[r] : r \in rows})
  BY ImageFinite DEF RowsInv
<1>3. \A r \in rows : r \in RowSet
  BY DEF RowsInv
<1>4. Found \subseteq Targeted
  BY <1>3 DEF Found, RowSet, Targeted
<1>5. \A x \in Found : \E r \in rows :
        x.entry = r.entry /\ x.target = r.target /\ x.hops = r.hops
  BY DEF Found
<1>6. \A r \in rows : /\ f[r] \in Found /\ f[r].entry = r.entry
                       /\ f[r].target = r.target /\ f[r].hops = r.hops
  BY <1>1
<1> QED BY <1>1, <1>2, <1>4, <1>5, <1>6

(* What the two rounds of removing duplicates leave of what was found.     *)
LEMMA NormalizedKeeps ==
  ASSUME RowsInv, NEW N \in NormalizedTargets
  PROVE  /\ N \subseteq Found /\ IsFiniteSet(N)
         /\ \A r \in rows : \E n \in N : Alike(n, r)
<1>1. PICK T \in FirstOf([t \in Found |-> Id(t)]) :
          N \in FirstOf([t \in T |-> PathAndName(t)])
  BY DEF NormalizedTargets, Found
<1>2. T \subseteq Found /\ \A f \in Found : \E t \in T : Id(t) = Id(f)
  BY <1>1 DEF FirstOf
<1>3. N \subseteq T /\ \A t \in T : \E n \in N : PathAndName(n) = PathAndName(t)
  BY <1>1 DEF FirstOf
<1>4. N \in SUBSET Found
  BY <1>2, <1>3
<1>5. IsFiniteSet(N)
  BY <1>4, FoundTyped, FS_Subset
<1>6. ASSUME NEW r \in rows PROVE \E n \in N : Alike(n, r)
  <2>1. PICK f \in Found : f.entry = r.entry /\ f.target = r.target /\ f.hops = r.hops
    BY FoundTyped
  <2>2. PICK t \in T : t.target.id = f.target.id /\ Path(t) = Path(f)
    BY <1>2 DEF Id
  <2>3. PICK q \in rows : t.target = q.target /\ t.hops = q.hops
    BY <1>2, FoundTyped
  <2>4. q.target \in Routes /\ r.target \in Routes
    BY DEF RowsInv, RowSet
  <2>5. t.target = r.target
    BY <2>1, <2>2, <2>3, <2>4, TargetsAssumption
  <2>6. t.hops = 0 <=> r.hops = 0
    BY <2>3 DEF RowsInv
  <2>7. Name(t) = Name(r) /\ Path(t) = Path(r)
    BY <2>1, <2>2, <2>5, <2>6 DEF Name, Path
  <2>8. PICK n \in N : PathAndName(n) = PathAndName(t)
    BY <1>3
  <2> QED BY <2>7, <2>8 DEF PathAndName, Alike
<1> QED BY <1>4, <1>5, <1>6

LEMMA FilteredKeeps ==
  ASSUME NEW N, IsFiniteSet(N)
  PROVE  /\ Filtered(N) \subseteq N /\ IsFiniteSet(Filtered(N))
         /\ N # {} => Filtered(N) # {}
         /\ \A n \in N : selected = {} \/ Aliases(n) \cap selected # {} => n \in Filtered(N)
<1>3. \A n \in N : Aliases(n) \cap selected # {} => InLower(Aliases(n)) \cap InLower(selected) # {}
  BY DEF InLower
<1>1. Filtered(N) \in SUBSET N
  BY DEF Filtered
<1>2. IsFiniteSet(Filtered(N))
  BY <1>1, FS_Subset
<1> QED BY <1>1, <1>2, <1>3 DEF Filtered

LEMMA RankAttacks ==
  ASSUME StateOK, RowsInv, RankTargets
  PROVE  /\ attack' \in Seq(Targeted) /\ attack' # <<>>
         /\ \/ attack' = DEFAULT_ATTACK_TARGETS /\ rows = {}
            \/ \A i \in DOMAIN attack' : attack'[i] \in Found
         /\ \A r \in rows : Wanted(r) => \/ \E i \in DOMAIN attack' : Alike(attack'[i], r)
                                         \/ \E s \in rows : Alike(s, r) /\ ~Wanted(s)
<1>1. PICK N \in NormalizedTargets :
        attack' \in IF N = {} THEN {DEFAULT_ATTACK_TARGETS} ELSE InOrder(Filtered(N))
  BY DEF RankTargets
<1>2. /\ N \subseteq Found /\ IsFiniteSet(N)
      /\ \A r \in rows : \E n \in N : Alike(n, r)
  BY NormalizedKeeps
<1>3. CASE N = {}
  <2>1. attack' = DEFAULT_ATTACK_TARGETS /\ rows = {}
    BY <1>1, <1>2, <1>3
  <2>2. /\ DefaultTarget(Search) \in Targeted /\ DefaultTarget(Reflect) \in Targeted
    BY DEF DefaultTarget, Targeted
  <2>3. DEFAULT_ATTACK_TARGETS \in Seq(Targeted) /\ DEFAULT_ATTACK_TARGETS # <<>>
    BY <2>2 DEF DEFAULT_ATTACK_TARGETS
  <2> QED BY <2>1, <2>3
<1>4. CASE N # {}
  <2>1. /\ Filtered(N) \subseteq N /\ IsFiniteSet(Filtered(N)) /\ Filtered(N) # {}
        /\ \A n \in N : selected = {} \/ Aliases(n) \cap selected # {} => n \in Filtered(N)
    BY <1>2, <1>4, FilteredKeeps
  <2>2. attack' \in SetToSeqs(Filtered(N))
    BY <1>1, <1>4 DEF InOrder
  <2>3. /\ attack' \in Seq(Filtered(N)) /\ Len(attack') = Cardinality(Filtered(N))
        /\ DOMAIN attack' = 1 .. Len(attack')
        /\ \A n \in Filtered(N) : \E i \in DOMAIN attack' : attack'[i] = n
    BY <2>1, <2>2, AllOfThem
  <2>4. \A i \in DOMAIN attack' : attack'[i] \in Found
    BY <1>2, <2>1, <2>3
  <2>5. attack' \in Seq(Targeted) /\ attack' # <<>>
    BY <1>2, <2>1, <2>3, <2>4, FoundTyped
  <2>6. ASSUME NEW r \in rows, Wanted(r), \A s \in rows : Alike(s, r) => Wanted(s)
        PROVE  \E i \in DOMAIN attack' : Alike(attack'[i], r)
    <3>1. PICK n \in N : Alike(n, r)
      BY <1>2
    <3>2. PICK s \in rows : n.entry = s.entry /\ n.target = s.target /\ n.hops = s.hops
      BY <1>2, FoundTyped
    <3>3. Name(n) = Name(s) /\ Path(n) = Path(s)
      BY <3>2 DEF Name, Path
    <3>5. Wanted(s)
      BY <2>6, <3>1, <3>3 DEF Alike
    <3>6. selected \subseteq Words \ {""}
      BY SelectedTyped
    <3>4. selected = {} \/ Aliases(n) \cap selected # {}
      BY <3>2, <3>3, <3>5, <3>6 DEF Wanted, Aliases
    <3> QED BY <2>1, <2>3, <3>1, <3>4
  <2> QED BY <2>4, <2>5, <2>6
<1> QED BY <1>3, <1>4

-----------------------------------------------------------------------------
(* The workload the sandbox is entered through.                            *)

LEMMA WorkloadsTyped ==
  ASSUME ClonesInv PROVE Workloads \subseteq Words
BY NodesTyped, WordsTyped DEF ClonesInv, Workloads, Workload

LEMMA StandsForWorkload ==
  ASSUME NEW w PROVE Stands(w) \in Workloads \cup {""}
BY DEF Stands, Workloads

LEMMA ServesWorkload ==
  ASSUME NEW w, Serves(w) PROVE Stands(w) \in Workloads \ LowValue
BY StandsForWorkload DEF Serves

LEMMA BestWorkload ==
  IF Workloads \subseteq LowValue THEN Best = "" ELSE Best \in Workloads \ LowValue
<1> DEFINE able == {c \in clones : Workload(c) \notin LowValue}
           best == {c \in able : \A d \in able : Appeal(d) <= Appeal(c)}
<1>1. CASE Workloads \subseteq LowValue
  <2>1. able = {}
    BY <1>1 DEF Workloads
  <2> QED BY <1>1, <2>1 DEF Best
<1>2. CASE ~(Workloads \subseteq LowValue)
  <2>1. able # {}
    BY <1>2 DEF Workloads
  <2>2. \A c \in able : Appeal(c) \in {60, 80, 100, 120}
    BY DEF Appeal
  <2>3. best # {}
    <3> HIDE DEF able
    <3>1. PICK c \in able : \A d \in able :
            /\ Appeal(c) \in {60, 80, 100} => Appeal(d) # 120
            /\ Appeal(c) \in {60, 80} => Appeal(d) # 100
            /\ Appeal(c) = 60 => Appeal(d) # 80
      BY <2>1, <2>2
    <3>2. \A d \in able : Appeal(d) <= Appeal(c)
      BY <2>2, <3>1
    <3> QED BY <3>2
  <2>4. Best = CHOOSE w \in {Workload(c) : c \in best} : TRUE
    BY <2>1 DEF Best
  <2>5. Best \in {Workload(c) : c \in best}
    BY <2>3, <2>4
  <2> QED BY <1>2, <2>5 DEF Workloads
<1> QED BY <1>1, <1>2

LEMMA OfTargetsTyped ==
  ASSUME attack \in Seq(Targeted)
  PROVE  OfTargets \in Seq(Words) /\ DOMAIN OfTargets = 1 .. Len(OfTargets)
<1>1. Len(attack) \in Nat /\ \A i \in 1 .. Len(attack) : attack[i] \in Targeted
  OBVIOUS
<1>2. ASSUME NEW k \in 1 .. 5 * Len(attack)
      PROVE  ((k - 1) \div 5) + 1 \in 1 .. Len(attack) /\ ((k - 1) % 5) + 1 \in 1 .. 5
  BY <1>1, <1>2
<1>3. ASSUME NEW t \in Targeted, NEW i \in 1 .. 5 PROVE Candidates(t)[i] \in Words
  <2>1. /\ {t.entry.source, t.entry.target, t.entry.id} \subseteq Words
        /\ {t.target.source, t.target.target, t.target.label, t.target.direct, t.target.id}
             \subseteq Words
    <3>1. /\ t.entry \in Routes \cup {NoRoute, Search, Reflect}
          /\ t.target \in Routes \cup {NoRoute, Search, Reflect}
      BY DEF Targeted
    <3> QED BY <3>1, NodesTyped
  <2>2. {Name(t), EntryName(t)} \subseteq Words /\ {"", "graph-target"} \subseteq Words
    BY <2>1, NodesTyped DEF Name, EntryName, Either
  <2>3. Label(t) \in Words
    BY <2>1, <2>2 DEF Label, Either
  <2>4. {Name(t), EntryName(t), Label(t), t.target.id, t.entry.id} \subseteq Words
    BY <2>1, <2>2, <2>3
  <2>5. Candidates(t) = <<Name(t), EntryName(t), Label(t), t.target.id, t.entry.id>>
    BY DEF Candidates
  <2> QED BY <2>4, <2>5
<1>4. \A k \in 1 .. 5 * Len(attack) :
        Candidates(attack[((k - 1) \div 5) + 1])[((k - 1) % 5) + 1] \in Words
  BY <1>1, <1>2, <1>3
<1>5. OfTargets \in [1 .. 5 * Len(attack) -> Words]
  BY <1>4 DEF OfTargets
<1>6. 5 * Len(attack) \in Nat
  BY <1>1
<1> QED BY <1>5, <1>6

LEMMA OrdersTyped ==
  ASSUME StateOK, NEW order \in SetToSeqs(selected)
  PROVE  order \in Seq(Words)
<1>1. order \in Seq(selected)
  BY SelectedTyped, AllOfThem
<1>2. selected \subseteq Words
  BY SelectedTyped
<1> QED BY <1>1, <1>2

(* Who serves among what is asked for in this order.                       *)
Serving(order) == {i \in DOMAIN (OfTargets \o order) : Serves((OfTargets \o order)[i])}
Deciding == {i \in DOMAIN OfTargets : Serves(OfTargets[i])}

LEMMA ServingTyped ==
  ASSUME attack \in Seq(Targeted), StateOK, NEW order \in SetToSeqs(selected)
  PROVE  /\ Serving(order) \in SUBSET Nat /\ Deciding \in SUBSET Nat
         /\ Deciding \subseteq Serving(order)
         /\ \A x \in Deciding, y \in Serving(order) \ Deciding : x < y
         /\ \A i \in Deciding : (OfTargets \o order)[i] = OfTargets[i]
<1>1. /\ OfTargets \in Seq(Words) /\ order \in Seq(Words)
      /\ DOMAIN OfTargets = 1 .. Len(OfTargets)
  BY OfTargetsTyped, OrdersTyped
<1>2. /\ OfTargets \o order \in Seq(Words)
      /\ Len(OfTargets \o order) = Len(OfTargets) + Len(order)
      /\ \A i \in 1 .. Len(OfTargets) : (OfTargets \o order)[i] = OfTargets[i]
      /\ Len(OfTargets) \in Nat /\ Len(order) \in Nat
  BY <1>1
<1>3. DOMAIN (OfTargets \o order) = 1 .. Len(OfTargets) + Len(order)
  BY <1>2
<1> QED BY <1>1, <1>2, <1>3 DEF Serving, Deciding

LEMMA EndpointServes ==
  ASSUME attack \in Seq(Targeted), StateOK, NEW order \in SetToSeqs(selected)
  PROVE  IF Workloads \subseteq LowValue THEN Endpoint(order) = ""
         ELSE Endpoint(order) \in Workloads \ LowValue
<1>1. Endpoint(order) = IF Serving(order) = {} THEN Best
                        ELSE Stands((OfTargets \o order)[Min(Serving(order))])
  BY DEF Endpoint, Serving
<1>2. CASE Serving(order) = {}
  BY <1>1, <1>2, BestWorkload
<1>3. CASE Serving(order) # {}
  <2>1. Min(Serving(order)) \in Serving(order)
    BY <1>3, ServingTyped, Least
  <2>2. Serves((OfTargets \o order)[Min(Serving(order))])
    BY <2>1 DEF Serving
  <2> QED BY <1>1, <1>3, <2>2, ServesWorkload
<1> QED BY <1>2, <1>3

(* The order of the selected words matters only if no target decides.      *)
LEMMA OrderMatters ==
  ASSUME attack \in Seq(Targeted), StateOK,
         NEW p \in SetToSeqs(selected), NEW q \in SetToSeqs(selected),
         Endpoint(p) # Endpoint(q)
  PROVE  /\ Cardinality(selected) > 1
         /\ \A i \in DOMAIN OfTargets : ~Serves(OfTargets[i])
<1>1. Cardinality(selected) > 1
  <2>1. IsFiniteSet(selected) /\ Cardinality(selected) \in Nat /\ p # q
    BY SelectedTyped, FS_CardinalityType
  <2> QED BY <2>1, OneOrder
<1>2. ASSUME Deciding # {}, NEW order \in SetToSeqs(selected)
      PROVE  Endpoint(order) = Stands(OfTargets[Min(Deciding)])
  <2>1. Min(Serving(order)) = Min(Deciding) /\ Serving(order) # {} /\ Min(Deciding) \in Deciding
    BY <1>2, ServingTyped, Least, LeastOfFirst
  <2>2. Endpoint(order) = Stands((OfTargets \o order)[Min(Serving(order))])
    BY <2>1 DEF Endpoint, Serving
  <2> QED BY <2>1, <2>2, ServingTyped
<1>3. Deciding = {}
  BY <1>2
<1> QED BY <1>1, <1>3 DEF Deciding

-----------------------------------------------------------------------------
(* What a step leaves alone.                                               *)

Early == {"download", "identify", "direct"}

LEMMA RowsKept ==
  ASSUME RowsInv, UNCHANGED <<rows, selected, agent>>, phase' \in Early => rows = {}
  PROVE  RowsInv'
BY DEF RowsInv, RouteSelected, OfAgent, Early

LEMMA AttackKept ==
  ASSUME AttackInv, UNCHANGED <<rows, attack, selected>>,
         phase' \in Early \cup {"rank"} => attack = <<>>,
         phase' \in Ranked \ {"failed"} => attack # <<>>,
         phase' \in Ranked => phase \in Ranked
  PROVE  AttackInv'
<1>1. SelectedAreAttacked'
  BY DEF AttackInv, SelectedAreAttacked, Wanted
<1> QED BY <1>1 DEF AttackInv, Found, Early

LEMMA ClonesKept ==
  ASSUME ClonesInv, UNCHANGED <<clones, links, selected>>,
         phase' \in Early \cup {"rank", "clone"} => clones = {},
         phase' \in Early \cup {"rank", "clone", "routes"} => links = {}
  PROVE  ClonesInv'
BY DEF ClonesInv, CloneSelected, Known, Named, Early

LEMMA EndpointSame ==
  ASSUME UNCHANGED <<attack, clones>>, NEW order PROVE Endpoint(order)' = Endpoint(order)
<1>1. Workloads' = Workloads
  BY DEF Workloads, Workload
<1>2. \A w : Stands(w)' = Stands(w)
  BY <1>1 DEF Stands, Workload
<1>3. \A w : Serves(w)' <=> Serves(w)
  BY <1>2 DEF Serves
<1>4. Best' = Best
  BY DEF Best, Workload, Appeal
<1>5. OfTargets' = OfTargets
  BY DEF OfTargets
<1>6. Serving(order)' = Serving(order)
  BY <1>3, <1>5 DEF Serving
<1>7. PICK asking, first : asking = OfTargets \o order /\ first = Min(Serving(order))
  OBVIOUS
<1>8. Endpoint(order) = IF Serving(order) = {} THEN Best ELSE Stands(asking[first])
  BY <1>7 DEF Endpoint, Serving
<1>9. Endpoint(order)' = IF Serving(order) = {} THEN Best ELSE Stands(asking[first])
  BY <1>2, <1>4, <1>5, <1>6, <1>7 DEF Endpoint, Serving
<1> QED BY <1>8, <1>9

LEMMA EndpointKept ==
  ASSUME EndpointInv, UNCHANGED <<endpoint, deployed, crew>>,
         phase \in {"deployed", "done"} => UNCHANGED <<phase, attack, clones, selected, kind, moved>>,
         phase \notin {"deployed", "done"} /\ phase' \in {"deployed", "done"} => kind' # "topology",
         phase \notin {"deployed", "done"} => phase' # "done"
  PROVE  EndpointInv'
<1>1. CASE phase \in {"deployed", "done"}
  <2>1. \A e : Chosen(e) => Chosen(e)'
    BY <1>1, EndpointSame DEF Chosen
  <2> QED BY <1>1, <2>1 DEF EndpointInv
<1>2. CASE phase \notin {"deployed", "done"}
  BY <1>2 DEF EndpointInv
<1> QED BY <1>1, <1>2

-----------------------------------------------------------------------------
(* Every step keeps the invariant.                                         *)

LEMMA NoTargets ==
  ASSUME attack = <<>>, rows = {}, phase \notin Ranked \ {"failed"} PROVE AttackInv
<1>1. attack \in Seq(Targeted) /\ DOMAIN attack = {}
  OBVIOUS
<1> QED BY <1>1 DEF AttackInv, SelectedAreAttacked

LEMMA InitHolds == ASSUME Init PROVE IInv
<1>m. MaxChanges \in Nat
  BY TargetsAssumption
<1>1. StateOK
  <2>1. graph \subseteq Nodes /\ changes \in 0 .. MaxChanges /\ schemas \subseteq Schemas /\ moved \in BOOLEAN
    <3>1. graph \in SUBSET Nodes /\ changes = 0 /\ schemas = {} /\ moved = FALSE
      BY DEF Init
    <3>2. changes \in 0 .. MaxChanges
      BY <1>m, <3>1
    <3>3. moved \in BOOLEAN
      BY <3>1
    <3> QED BY <3>1, <3>2, <3>3
  <2>2. /\ kind \in {"topology", "image"} /\ selected \in Selections \cup {{}} /\ agent \in Agents
        /\ phase \in {"identify", "download"}
    BY DEF Init
  <2> QED BY <2>1, <2>2 DEF StateOK
<1>2. phase \in Early
  BY DEF Init, Early
<1>3. RowsInv
  BY <1>2, FS_EmptySet DEF Init, RowsInv
<1>4. AttackInv
  BY <1>2, NoTargets DEF Init, Early, Ranked
<1>5. ClonesInv
  BY DEF Init, ClonesInv
<1>6. EndpointInv
  BY <1>2, NodesTyped DEF Init, EndpointInv, Early
<1> QED BY <1>1, <1>3, <1>4, <1>5, <1>6 DEF IInv

LEMMA IngestHolds == ASSUME IInv, Ingest PROVE IInv'
<1>m. MaxChanges \in Nat
  BY TargetsAssumption
<1>0. UNCHANGED <<kind, selected, agent, phase, rows, attack, clones, links, schemas,
                  endpoint, deployed, crew, moved>>
  BY DEF Ingest, asked, topology, chosen
<1>1. StateOK'
  <2>1. graph \subseteq Nodes /\ changes \in 0 .. MaxChanges /\ changes' = changes + 1 /\ changes < MaxChanges
    BY DEF IInv, StateOK, Ingest
  <2>2. PICK n \in Nodes : graph' = IF n \in graph THEN graph \ {n} ELSE graph \cup {n}
    BY DEF Ingest
  <2>3. graph' \subseteq Nodes /\ changes' \in 0 .. MaxChanges
    BY <1>m, <2>1, <2>2
  <2> QED BY <1>0, <2>3 DEF IInv, StateOK
<1>2. RowsInv' /\ AttackInv' /\ ClonesInv' /\ EndpointInv'
  BY <1>0, RowsKept, AttackKept, ClonesKept, EndpointKept
     DEF IInv, RowsInv, AttackInv, ClonesInv, Early
<1> QED BY <1>1, <1>2 DEF IInv

LEMMA DownloadHolds == ASSUME IInv, Download PROVE IInv'
<1>0. /\ UNCHANGED <<graph, changes, agent, rows, attack, clones, links, schemas,
                     endpoint, deployed, crew, moved>>
      /\ phase = "download" /\ phase' \in {"identify", "failed"}
      /\ kind' \in {"topology", "image", "artifact"}
      /\ selected' \in Selections \cup {{}, {"minio"}}
  BY DEF Download, topology, chosen
<1>1. rows = {} /\ attack = <<>> /\ clones = {} /\ links = {}
  BY <1>0 DEF IInv, RowsInv, AttackInv, ClonesInv
<1>2. StateOK'
  BY <1>0 DEF IInv, StateOK, Ranked
<1>3. RowsInv'
  BY <1>0, <1>1, FS_EmptySet DEF RowsInv
<1>4. AttackInv'
  <2>1. attack' = <<>> /\ rows' = {} /\ phase' \notin Ranked \ {"failed"}
    BY <1>0, <1>1 DEF Ranked
  <2>2. attack' \in Seq(Targeted) /\ DOMAIN attack' = {}
    BY <2>1
  <2> QED BY <2>1, <2>2 DEF AttackInv, SelectedAreAttacked
<1>5. ClonesInv'
  BY <1>0, <1>1 DEF ClonesInv
<1>6. EndpointInv'
  BY <1>0, EndpointKept DEF IInv
<1> QED BY <1>2, <1>3, <1>4, <1>5, <1>6 DEF IInv

LEMMA QueryHolds == ASSUME IInv, QueryPaths \/ QueryDirect PROVE IInv'
<1>0. /\ UNCHANGED <<graph, changes, kind, selected, agent, attack, clones, links, schemas,
                     endpoint, deployed, crew, moved>>
      /\ phase \in {"identify", "direct"} /\ phase' \in {"direct", "rank"}
      /\ phase' = "direct" => rows' = {}
  BY DEF QueryPaths, QueryDirect, asked, topology, chosen
<1>1. rows = {} /\ attack = <<>> /\ clones = {} /\ links = {}
  BY <1>0 DEF IInv, RowsInv, AttackInv, ClonesInv
<1>2. StateOK'
  BY <1>0 DEF IInv, StateOK
<1>3. /\ rows' \subseteq RowSet /\ IsFiniteSet(rows')
      /\ \A r \in rows' : RouteSelected(Nodes, r.target) /\ OfAgent(r.target)
      /\ \A r, s \in rows' : r.hops = 0 <=> s.hops = 0
  <2>1. CASE QueryPaths
    BY <2>1, PathRowsTyped, AnswersTyped DEF QueryPaths, IInv, AskedFor
  <2>2. CASE QueryDirect
    BY <2>2, DirectRowsTyped, AnswersTyped DEF QueryDirect, IInv, AskedFor
  <2> QED BY <2>1, <2>2
<1>4. RowsInv'
  BY <1>0, <1>3 DEF RowsInv, RouteSelected, OfAgent
<1>5. AttackInv'
  BY <1>0, <1>1 DEF AttackInv, SelectedAreAttacked, Ranked, IInv
<1>6. ClonesInv'
  BY <1>0, <1>1 DEF ClonesInv, IInv
<1>7. EndpointInv'
  BY <1>0, EndpointKept DEF IInv
<1> QED BY <1>2, <1>4, <1>5, <1>6, <1>7 DEF IInv

LEMMA RankHolds == ASSUME IInv, RankTargets PROVE IInv'
<1>0. /\ UNCHANGED <<graph, changes, kind, selected, agent, rows, clones, links, schemas, crew, moved>>
      /\ phase = "rank"
      /\ \/ kind = "topology" /\ phase' = "clone" /\ UNCHANGED <<endpoint, deployed>>
         \/ kind = "image" /\ phase' = "deployed" /\ UNCHANGED <<endpoint, deployed>>
         \/ /\ kind = "artifact" /\ phase' \in {"deployed", "failed"}
            /\ endpoint' \in Words /\ deployed' = endpoint'
  BY TargetsAssumption DEF RankTargets, asked, topology
<1>1. StateOK'
  BY <1>0 DEF IInv, StateOK, Ranked
<1>2. RowsInv'
  BY <1>0, RowsKept DEF IInv, Early
<1>3. AttackInv'
  <2>1. /\ attack' \in Seq(Targeted) /\ attack' # <<>>
        /\ \/ attack' = DEFAULT_ATTACK_TARGETS /\ rows = {}
           \/ \A i \in DOMAIN attack' : attack'[i] \in Found
        /\ \A r \in rows : Wanted(r) => \/ \E i \in DOMAIN attack' : Alike(attack'[i], r)
                                        \/ \E s \in rows : Alike(s, r) /\ ~Wanted(s)
    BY RankAttacks DEF IInv
  <2>2. SelectedAreAttacked'
    BY <1>0, <2>1 DEF SelectedAreAttacked, Wanted
  <2> QED BY <1>0, <2>1, <2>2 DEF AttackInv, Found
<1>4. ClonesInv'
  BY <1>0, ClonesKept DEF IInv, ClonesInv, Early
<1>5. EndpointInv'
  BY <1>0 DEF IInv, EndpointInv
<1> QED BY <1>1, <1>2, <1>3, <1>4, <1>5 DEF IInv

LEMMA CloneHolds == ASSUME IInv, CloneContainers PROVE IInv'
<1>0. /\ UNCHANGED <<graph, changes, kind, selected, agent, rows, attack, links, schemas,
                     endpoint, deployed, crew, moved>>
      /\ phase = "clone" /\ phase' \in {"failed", "routes"}
  BY DEF CloneContainers, asked, chosen
<1>1. StateOK' /\ RowsInv' /\ AttackInv' /\ EndpointInv'
  BY <1>0, RowsKept, AttackKept, EndpointKept DEF IInv, StateOK, AttackInv, Ranked, Early
<1>2. \A c \in clones' : c \in Containers /\ CloneSelected(graph, c)
  BY DEF CloneContainers, Limited
<1>3. \A c \in clones' : c \in Containers /\ CloneSelected(Nodes, c)
  BY <1>2, SelectedInAll DEF IInv, StateOK
<1>4. links = {}
  BY <1>0 DEF IInv, ClonesInv
<1>5. ClonesInv'
  BY <1>0, <1>3, <1>4 DEF ClonesInv, CloneSelected
<1> QED BY <1>1, <1>5 DEF IInv

LEMMA LinksHold == ASSUME IInv, LoadRoutes PROVE IInv'
<1>0. /\ UNCHANGED <<graph, changes, kind, selected, agent, rows, attack, clones, schemas,
                     endpoint, deployed, crew, moved>>
      /\ phase = "routes" /\ phase' = "schemas"
  BY DEF LoadRoutes, asked, chosen
<1>1. StateOK' /\ RowsInv' /\ AttackInv' /\ EndpointInv'
  BY <1>0, RowsKept, AttackKept, EndpointKept DEF IInv, StateOK, AttackInv, Ranked, Early
<1>2. ASSUME NEW l \in links' PROVE l[1] # l[2] /\ {l[1], l[2]} \subseteq Known
  <2>1. PICK r : l = <<Sanitized(r.source), Sanitized(r.target)>> /\ Linked(r)
    BY <1>2 DEF LoadRoutes
  <2> QED BY <2>1 DEF Linked
<1>3. ClonesInv'
  <2>1. Known' = Known
    BY <1>0 DEF Known, Named
  <2> QED BY <1>0, <1>2, <2>1 DEF IInv, ClonesInv, CloneSelected
<1> QED BY <1>1, <1>3 DEF IInv

LEMMA SchemasHold == ASSUME IInv, LoadSchemas PROVE IInv'
<1>0. /\ UNCHANGED <<graph, changes, kind, selected, agent, rows, attack, clones, links, crew, moved>>
      /\ phase = "schemas" /\ phase' \in {"deployed", "failed"} /\ schemas' \subseteq Schemas
      /\ deployed' = endpoint'
  BY DEF LoadSchemas, Limited, asked
<1>1. StateOK' /\ RowsInv' /\ AttackInv' /\ ClonesInv'
  BY <1>0, RowsKept, AttackKept, ClonesKept DEF IInv, StateOK, AttackInv, Ranked, Early
<1>2. PICK order \in SetToSeqs(selected) : endpoint' = Endpoint(order)
  BY DEF LoadSchemas
<1>3. Chosen(endpoint)'
  BY <1>0, <1>2, EndpointSame DEF Chosen
<1>4. endpoint' \in Words
  <2>1. endpoint' = "" \/ endpoint' \in Workloads
    BY <1>2, EndpointServes DEF IInv, AttackInv
  <2> QED BY <2>1, WorkloadsTyped, NodesTyped DEF IInv
<1>5. EndpointInv'
  BY <1>0, <1>3, <1>4 DEF IInv, EndpointInv
<1> QED BY <1>1, <1>5 DEF IInv

LEMMA FailureHolds == ASSUME IInv, QueryFails PROVE IInv'
<1>0. /\ UNCHANGED <<graph, changes, kind, selected, agent, rows, attack, schemas,
                     endpoint, deployed, crew, moved>>
      /\ \/ phase = "direct" /\ phase' = "identify"
         \/ phase \in {"routes", "schemas"} /\ phase' = "clone"
      /\ clones' = {} /\ links' = {}
  BY DEF QueryFails, asked, chosen
<1>1. StateOK' /\ RowsInv' /\ AttackInv' /\ EndpointInv'
  BY <1>0, RowsKept, AttackKept, EndpointKept
     DEF IInv, StateOK, RowsInv, AttackInv, Ranked, Early
<1>2. ClonesInv'
  BY <1>0 DEF ClonesInv
<1> QED BY <1>1, <1>2 DEF IInv

LEMMA ReplayHolds == ASSUME IInv, Replay PROVE IInv'
<1>0. /\ UNCHANGED <<graph, changes, kind, selected, agent, phase, rows, attack, clones, links, schemas,
                     deployed, crew>>
      /\ phase = "deployed" /\ kind = "topology" /\ moved' = TRUE
  BY DEF Replay, asked, topology
<1>1. StateOK' /\ RowsInv' /\ AttackInv' /\ ClonesInv'
  BY <1>0, RowsKept, AttackKept, ClonesKept DEF IInv, StateOK, AttackInv, Ranked, Early
<1>2. PICK order \in SetToSeqs(selected) : endpoint' = Endpoint(order)
  BY DEF Replay
<1>3. Chosen(endpoint)' /\ Chosen(deployed)'
  BY <1>0, <1>2, EndpointSame DEF Chosen, IInv, EndpointInv
<1>4. endpoint' \in Words
  <2>1. endpoint' = "" \/ endpoint' \in Workloads
    BY <1>2, EndpointServes DEF IInv, AttackInv
  <2> QED BY <2>1, WorkloadsTyped, NodesTyped DEF IInv
<1>5. EndpointInv'
  BY <1>0, <1>3, <1>4 DEF IInv, EndpointInv
<1> QED BY <1>1, <1>5 DEF IInv

LEMMA CrewHolds == ASSUME IInv, RunCrew PROVE IInv'
<1>0. /\ UNCHANGED <<graph, changes, kind, selected, agent, rows, attack, clones, links, schemas,
                     endpoint, deployed, moved>>
      /\ phase = "deployed" /\ phase' = "done" /\ crew' = endpoint
  BY DEF RunCrew, asked, topology
<1>1. StateOK' /\ RowsInv' /\ AttackInv' /\ ClonesInv'
  BY <1>0, RowsKept, AttackKept, ClonesKept DEF IInv, StateOK, AttackInv, Ranked, Early
<1>2. \A e : Chosen(e) => Chosen(e)'
  BY <1>0, EndpointSame DEF Chosen
<1>3. EndpointInv'
  BY <1>0, <1>2 DEF IInv, EndpointInv
<1> QED BY <1>1, <1>3 DEF IInv

LEMMA StutterHolds == ASSUME IInv, UNCHANGED vars PROVE IInv'
<1>0. UNCHANGED <<graph, changes, kind, selected, agent, phase, rows, attack, clones, links, schemas,
                  endpoint, deployed, crew, moved>>
  BY DEF vars
<1>1. StateOK' /\ RowsInv' /\ AttackInv' /\ ClonesInv' /\ EndpointInv'
  BY <1>0, RowsKept, AttackKept, ClonesKept, EndpointKept
     DEF IInv, StateOK, RowsInv, AttackInv, ClonesInv, Early
<1> QED BY <1>1 DEF IInv

LEMMA Invariance == Spec => []IInv
<1>1. ASSUME IInv, [Next]_vars PROVE IInv'
  BY <1>1, IngestHolds, DownloadHolds, QueryHolds, RankHolds, CloneHolds, LinksHold, SchemasHold,
     FailureHolds, ReplayHolds, CrewHolds, StutterHolds DEF Next
<1> QED BY <1>1, InitHolds, PTL DEF Spec

-----------------------------------------------------------------------------

(* For any graph that changes between the queries, the state of            *)
(* graph_pentest_workflow.py keeps its type, and a route that              *)
(* neo4j_sandbox_topology.py puts into the topology connects two different *)
(* names of workloads of that topology.                                    *)
THEOREM TypeCorrect == Spec => []TypeOK
<1>1. IInv => TypeOK
  <2>1. ASSUME IInv PROVE TypeOK
    BY <2>1 DEF IInv, StateOK, RowsInv, AttackInv, ClonesInv, EndpointInv, TypeOK, RowSet, Targeted
  <2> QED BY <2>1
<1> QED BY <1>1, Invariance, PTL

(* identify_attack_targets, _filter_targets and the topology service never *)
(* let anything through that was not selected, nor a target of another     *)
(* agent, and leave something to attack.                                   *)
THEOREM NothingElse == Spec => []OnlySelected
<1>1. ASSUME IInv PROVE OnlySelected
  <2>1. \/ attack = DEFAULT_ATTACK_TARGETS /\ rows = {}
        \/ \A i \in DOMAIN attack :
             RouteSelected(Nodes, attack[i].target) /\ OfAgent(attack[i].target)
    BY <1>1, FoundTyped DEF IInv, AttackInv, RowsInv
  <2> QED BY <1>1, <2>1 DEF IInv, AttackInv, ClonesInv, OnlySelected
<1> QED BY <1>1, Invariance, PTL

(* Neither the removal of duplicates in identify_attack_targets and        *)
(* _normalize_targets nor _filter_targets loses a target that was found    *)
(* and selected by its own identifier or name, unless a target of the same *)
(* path and name was found that was selected in another way, such as by    *)
(* its container: that one may stand for both, and the filter drops it.    *)
THEOREM NothingLost == Spec => []SelectedAreAttacked
<1>1. IInv => SelectedAreAttacked
  BY DEF IInv, AttackInv
<1> QED BY <1>1, Invariance, PTL

(* _select_preferred_endpoint_workload names, by its normalised name, a    *)
(* workload of the topology that is no observability tool, whenever there  *)
(* is one, in every process that runs the workflow.                        *)
THEOREM EntersAWorkload == Spec => []EndpointIsWorkload
<1>1. ASSUME IInv PROVE EndpointIsWorkload
  <2>1. ASSUME NEW e, Chosen(e)
        PROVE  IF Workloads \subseteq LowValue THEN e = "" ELSE e \in Workloads \ LowValue
    BY <1>1, <2>1, EndpointServes DEF Chosen, IInv, AttackInv
  <2>2. ASSUME kind = "topology", phase \in {"deployed", "done"}
        PROVE  Chosen(endpoint) /\ Chosen(deployed) /\ (phase = "done" => Chosen(crew))
    BY <1>1, <2>2 DEF IInv, EndpointInv
  <2> QED BY <2>1, <2>2 DEF EndpointIsWorkload
<1> QED BY <1>1, Invariance, PTL

(* _build_crew_pentest_request tells the crew of the workload that         *)
(* CreateSandbox was asked for, unless a replay iterates over the selected *)
(* words in another order and no attack target decides.                    *)
THEOREM CrewIsTold == Spec => []CrewNamesDeployed
<1>1. ASSUME IInv PROVE CrewNamesDeployed
  <2>1. ASSUME phase = "done", crew # deployed
        PROVE  /\ moved /\ Cardinality(selected) > 1
               /\ \A i \in DOMAIN OfTargets : ~Serves(OfTargets[i])
    <3>1. moved /\ endpoint # deployed /\ Chosen(endpoint) /\ Chosen(deployed)
      BY <1>1, <2>1 DEF IInv, EndpointInv
    <3>2. PICK p \in SetToSeqs(selected), q \in SetToSeqs(selected) :
            endpoint = Endpoint(p) /\ deployed = Endpoint(q)
      BY <3>1 DEF Chosen
    <3> QED BY <1>1, <3>1, <3>2, OrderMatters DEF IInv, AttackInv
  <2> QED BY <2>1 DEF CrewNamesDeployed
<1> QED BY <1>1, Invariance, PTL
=============================================================================
