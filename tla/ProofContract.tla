---------------------------- MODULE ProofContract -----------------------------
(***************************************************************************)
(* How the findings of one scan become the list that is stored and         *)
(* reported (proof_contract.py).  The workflow validates the findings of   *)
(* the worker, then those of the crew (ingest_findings), and collapses     *)
(* those that share vuln_type and target_endpoint (dedupe_findings); the   *)
(* database activities collapse the result once more.                      *)
(*                                                                         *)
(* A list of evidences is the function that counts its copies of each      *)
(* evidence: their order is layout.                                        *)
(***************************************************************************)
EXTENDS Naturals, Sequences

CONSTANTS
  Keys,          \* the pairs (vuln_type, target_endpoint)
  Evidence,      \* evidences, as told apart by payload_used and loot_data
  Lists,         \* the lists of evidences that may be reported
  MaxFindings    \* bound on the findings accepted

(* success: the tool's status is SUCCESS; excerpt: what response_excerpt   *)
(* holds, "flag" if the seed flag is in it; flag: seed_flag_extracted is   *)
(* true and the proof marker is the seed flag.                             *)
ASSUME EvidenceAssumption ==
  /\ Evidence \subseteq [ payload : STRING, success : BOOLEAN,
                          excerpt : {"blank", "text", "flag"}, flag : BOOLEAN ]
  /\ Lists \subseteq [Evidence -> Nat]
  /\ MaxFindings \in Nat

VARIABLES
  phase,     \* the source being validated, or the place that collapses
  accepted,  \* the findings accepted so far
  todo, i,   \* the list being collapsed and the position reached in it
  kept       \* the dictionary of dedupe_findings, in its order

vars == <<phase, accepted, todo, i, kept>>

SOURCES == {"worker-pentest", "agent-crew"}
Levels == {"unverified", "detected", "exploited"}
PROOF_LEVEL_RANK == [unverified |-> 0, detected |-> 1, exploited |-> 2]

-----------------------------------------------------------------------------
(* The level that evidences justify.                                       *)

Observed(e, source) ==
  e.success /\ (source = "agent-crew" => e.excerpt # "blank")

Exploited(e, source) ==
  e.flag /\ (source = "agent-crew" => Observed(e, source) /\ e.excerpt = "flag")

Listed(list) == {e \in Evidence : list[e] > 0}

JustifiedLevel(list, source) ==
  IF \E e \in Listed(list) : Exploited(e, source) THEN "exploited"
  ELSE IF \E e \in Listed(list) : Observed(e, source) THEN "detected"
  ELSE "unverified"

-----------------------------------------------------------------------------
(* validate_finding.                                                       *)

(* What a producer may report; "unhashable" is a JSON array or object,     *)
(* "other" any other value out of place.  shaped: the texts and the        *)
(* evidences have the shape the contract wants.                            *)
Raw ==
  [ key : Keys, source : SOURCES \cup {"none", "other"},
    severity : {"valid", "other", "unhashable"}, shaped : BOOLEAN,
    level : Levels \cup {"none", "other", "unhashable"}, evidences : Lists ]

(* A plausible bug: a level that is not declared is not computed.          *)
BrokenProofLevel(raw, source) ==
  LET justified == JustifiedLevel(raw.evidences, source)
  IN  IF raw.level # "none" /\ PROOF_LEVEL_RANK[raw.level] > PROOF_LEVEL_RANK[justified]
        THEN justified ELSE raw.level

(* A declared level is only ever downgraded.                               *)
ProofLevel(raw, source) ==
  LET justified == JustifiedLevel(raw.evidences, source)
  IN  IF raw.level = "none" \/ PROOF_LEVEL_RANK[raw.level] > PROOF_LEVEL_RANK[justified]
        THEN justified ELSE raw.level

Conforms(raw, source) ==
  /\ raw.source \in {"none", source}
  /\ raw.severity = "valid"
  /\ raw.shaped
  /\ raw.level \in Levels \cup {"none"}
  /\ Listed(raw.evidences) = {} => ProofLevel(raw, source) = "unverified"

(* `x not in S` raises TypeError, not FindingRejected, when x cannot be    *)
(* hashed.                                                                 *)
RaisesTypeError(raw, source) ==
  /\ raw.source \in {"none", source}
  /\ \/ raw.severity = "unhashable"
     \/ raw.severity = "valid" /\ raw.shaped /\ raw.level = "unhashable"

(* origin stands for the fields that are kept as they are.                 *)
Validated(raw, source) ==
  [ key |-> raw.key, source |-> source, level |-> ProofLevel(raw, source),
    evidences |-> raw.evidences, origin |-> Len(accepted) + 1 ]

-----------------------------------------------------------------------------
(* dedupe_findings.                                                        *)

(* A plausible bug: an evidence is compared with the one before it only.   *)
BrokenDedupe(list) == [e \in Evidence |-> IF list[e] > 1 THEN list[e] - 1 ELSE list[e]]

dedupe_evidences(list) == [e \in Evidence |-> IF list[e] > 0 THEN 1 ELSE 0]

(* A plausible bug: the producer decides before the proof level.           *)
BrokenStronger(f, g) ==
  \/ f.source = "worker-pentest" /\ g.source # "worker-pentest"
  \/ /\ f.source = g.source
     /\ PROOF_LEVEL_RANK[f.level] > PROOF_LEVEL_RANK[g.level]

(* _priority(f) > _priority(g).                                            *)
Stronger(f, g) ==
  \/ PROOF_LEVEL_RANK[f.level] > PROOF_LEVEL_RANK[g.level]
  \/ /\ f.level = g.level
     /\ f.source = "worker-pentest" /\ g.source # "worker-pentest"

(* A plausible bug: the evidences of the finding kept before are retained. *)
BrokenMerge(f, g) == dedupe_evidences(f.evidences)

Merge(f, g) == dedupe_evidences([e \in Evidence |-> f.evidences[e] + g.evidences[e]])

Collapse(current, f) ==
  [IF Stronger(f, current) THEN f ELSE current EXCEPT !.evidences = Merge(current, f)]

-----------------------------------------------------------------------------

Finding ==
  [ key : Keys, source : SOURCES, level : Levels,
    evidences : [Evidence -> Nat], origin : Nat ]

TypeOK ==
  /\ phase \in SOURCES \cup {"workflow", "activity", "raised"}
  /\ accepted \in Seq(Finding) /\ todo \in Seq(Finding) /\ kept \in Seq(Finding)
  /\ i \in 1 .. Len(todo) + 1

Init ==
  /\ phase = "worker-pentest"
  /\ accepted = <<>>
  /\ todo = <<>> /\ i = 1
  /\ kept = <<>>

(* A finding that neither conforms nor raises is logged and dropped.       *)
Validate ==
  /\ phase \in SOURCES
  /\ Len(accepted) < MaxFindings
  /\ \E raw \in Raw :
       \/ /\ Conforms(raw, phase)
          /\ accepted' = Append(accepted, Validated(raw, phase))
          /\ UNCHANGED phase
       \/ /\ RaisesTypeError(raw, phase)
          /\ phase' = "raised"
          /\ UNCHANGED accepted
  /\ UNCHANGED <<todo, i, kept>>

NextSource ==
  /\ phase = "worker-pentest"
  /\ phase' = "agent-crew"
  /\ UNCHANGED <<accepted, todo, i, kept>>

(* ingest_findings returned; dedupe_findings(accepted) begins.             *)
Ingested ==
  /\ phase = "agent-crew"
  /\ phase' = "workflow"
  /\ todo' = accepted
  /\ UNCHANGED <<accepted, i, kept>>

(* One round of the loop of dedupe_findings.                               *)
Dedupe ==
  /\ phase \in {"workflow", "activity"}
  /\ i <= Len(todo)
  /\ i' = i + 1
  /\ \/ /\ \A j \in 1 .. Len(kept) : kept[j].key # todo[i].key
        /\ kept' = Append(kept, [todo[i] EXCEPT !.evidences = dedupe_evidences(@)])
     \/ \E j \in 1 .. Len(kept) :
          /\ kept[j].key = todo[i].key
          /\ kept' = [kept EXCEPT ![j] = Collapse(@, todo[i])]
  /\ UNCHANGED <<phase, accepted, todo>>

(* The workflow hands its list to save_vulnerabilities and, the same list, *)
(* to generate_and_store_pdf_report.                                       *)
HandOver ==
  /\ phase = "workflow"
  /\ i > Len(todo)
  /\ phase' = "activity"
  /\ todo' = kept /\ i' = 1
  /\ kept' = <<>>
  /\ UNCHANGED accepted

Next == Validate \/ NextSource \/ Ingested \/ Dedupe \/ HandOver

Spec == Init /\ [][Next]_vars

-----------------------------------------------------------------------------

(* Contract 4.2, for every finding on its way: the level it declares is    *)
(* one that its evidences justify for its own source.  Collapsing keeps    *)
(* this although it mixes evidences of two sources, which are judged       *)
(* differently.                                                            *)
LevelsAreJustified ==
  \A list \in {accepted, todo, kept} : \A j \in 1 .. Len(list) :
    PROOF_LEVEL_RANK[list[j].level]
      <= PROOF_LEVEL_RANK[JustifiedLevel(list[j].evidences, list[j].source)]

(* Contract 7: of the findings accepted with one key the first strongest   *)
(* is kept, with the evidences of all of them, at the place of the first.  *)
CollapsedAsReference ==
  LET Group(k) == {n \in 1 .. Len(accepted) : accepted[n].key = k}
      Score(n) == 2 * PROOF_LEVEL_RANK[accepted[n].level]
                    + IF accepted[n].source = "worker-pentest" THEN 1 ELSE 0
      Wins(n, k) == \A m \in Group(k) :
                      IF m < n THEN Score(m) < Score(n) ELSE Score(m) <= Score(n)
      Opens(n) == \A m \in 1 .. n - 1 : accepted[m].key # accepted[n].key
  IN  phase = "activity" =>
        /\ \A k \in Keys : Group(k) # {} => \E j \in 1 .. Len(todo) : todo[j].key = k
        /\ \A j \in 1 .. Len(todo) :
             LET k == todo[j].key IN
             \E n \in Group(k) :
               /\ Wins(n, k)
               /\ todo[j] = [accepted[n] EXCEPT !.evidences =
                   [e \in Evidence |->
                      IF \E m \in Group(k) : accepted[m].evidences[e] > 0 THEN 1 ELSE 0]]
        /\ \A j, l \in 1 .. Len(todo) : j < l =>
             \E n \in Group(todo[j].key) :
               Opens(n) /\ \A m \in Group(todo[l].key) : n < m

(* "Without this, the PDF's vulnerability count diverges from what's       *)
(* actually stored" (db_activities.py): the activities collapse a list     *)
(* that is collapsed already, and leave it as it is.                       *)
SecondPassKeeps == phase = "activity" => kept = SubSeq(todo, 1, i - 1)
=============================================================================
