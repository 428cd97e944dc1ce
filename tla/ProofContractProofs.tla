------------------------- MODULE ProofContractProofs --------------------------
(***************************************************************************)
(* Proofs about ProofContract for every set of keys, of evidences and of   *)
(* lists of evidences, and for any number of findings.                     *)
(***************************************************************************)
EXTENDS ProofContract, SequenceTheorems, TLAPS

Distinct(s) == \A j, l \in 1 .. Len(s) : s[j].key = s[l].key => j = l
Deduped(s) == \A j \in 1 .. Len(s), e \in Evidence : s[j].evidences[e] \in {0, 1}

Justified(f) ==
  PROOF_LEVEL_RANK[f.level] <= PROOF_LEVEL_RANK[JustifiedLevel(f.evidences, f.source)]
AllJustified(s) == \A j \in 1 .. Len(s) : Justified(s[j])

(* What dedupe_findings returns has one finding for each key, and each     *)
(* evidence once.                                                          *)
CollapsedInv ==
  /\ phase \in {"workflow", "activity"} => Distinct(kept) /\ Deduped(kept)
  /\ phase = "activity" => Distinct(todo) /\ Deduped(todo)
  /\ phase \notin {"workflow", "activity"} => kept = <<>> /\ todo = <<>>
  /\ phase \in SOURCES => i = 1

IInv ==
  /\ TypeOK
  /\ CollapsedInv
  /\ AllJustified(accepted) /\ AllJustified(todo) /\ AllJustified(kept)
  /\ SecondPassKeeps

-----------------------------------------------------------------------------
(* The operators.                                                          *)

(* A longer list of evidences justifies no lower a level.                  *)
LEMMA Monotone ==
  ASSUME NEW a \in [Evidence -> Nat], NEW b \in [Evidence -> Nat],
         \A e \in Evidence : a[e] > 0 => b[e] > 0, NEW s
  PROVE  PROOF_LEVEL_RANK[JustifiedLevel(a, s)] <= PROOF_LEVEL_RANK[JustifiedLevel(b, s)]
<1>1. Listed(a) \subseteq Listed(b)
  BY DEF Listed
<1>2. JustifiedLevel(b, s) = "unverified" => JustifiedLevel(a, s) = "unverified"
  BY <1>1 DEF JustifiedLevel
<1>3. JustifiedLevel(b, s) = "detected" => JustifiedLevel(a, s) # "exploited"
  BY <1>1 DEF JustifiedLevel
<1>4. JustifiedLevel(a, s) \in Levels /\ JustifiedLevel(b, s) \in Levels
  BY DEF JustifiedLevel, Levels
<1> QED
  BY <1>2, <1>3, <1>4 DEF Levels, PROOF_LEVEL_RANK

(* A validated finding is a finding whose level is justified.              *)
LEMMA ValidatedFacts ==
  ASSUME TypeOK, NEW raw \in Raw, NEW source \in SOURCES, Conforms(raw, source)
  PROVE  Validated(raw, source) \in Finding /\ Justified(Validated(raw, source))
<1>1. raw.evidences \in [Evidence -> Nat]
  BY EvidenceAssumption DEF Raw
<1>2. JustifiedLevel(raw.evidences, source) \in Levels
  BY DEF JustifiedLevel, Levels
<1>3. raw.key \in Keys /\ raw.level \in Levels \cup {"none"}
  BY DEF Raw, Conforms
<1>4. /\ ProofLevel(raw, source) \in Levels
      /\ PROOF_LEVEL_RANK[ProofLevel(raw, source)]
           <= PROOF_LEVEL_RANK[JustifiedLevel(raw.evidences, source)]
  BY <1>2, <1>3 DEF ProofLevel, Levels, PROOF_LEVEL_RANK
<1>5. Len(accepted) + 1 \in Nat
  BY DEF TypeOK
<1> QED
  BY <1>1, <1>3, <1>4, <1>5 DEF Validated, Finding, Justified

LEMMA DedupedList ==
  ASSUME NEW a \in [Evidence -> Nat]
  PROVE  /\ dedupe_evidences(a) \in [Evidence -> Nat]
         /\ \A e \in Evidence : dedupe_evidences(a)[e] \in {0, 1}
         /\ \A e \in Evidence : dedupe_evidences(a)[e] > 0 <=> a[e] > 0
BY DEF dedupe_evidences

(* A finding whose evidences are deduplicated is still justified.          *)
LEMMA OpenFacts ==
  ASSUME NEW f \in Finding, Justified(f)
  PROVE  LET g == [f EXCEPT !.evidences = dedupe_evidences(@)]
         IN  /\ g \in Finding /\ g.key = f.key /\ Justified(g)
             /\ \A e \in Evidence : g.evidences[e] \in {0, 1}
<1> DEFINE g == [f EXCEPT !.evidences = dedupe_evidences(@)]
<1>1. f.evidences \in [Evidence -> Nat]
  BY DEF Finding
<1>2. /\ g \in Finding /\ g.key = f.key /\ g.level = f.level /\ g.source = f.source
      /\ g.evidences = dedupe_evidences(f.evidences)
  BY <1>1, DedupedList DEF Finding
<1>3. PROOF_LEVEL_RANK[JustifiedLevel(f.evidences, f.source)]
        <= PROOF_LEVEL_RANK[JustifiedLevel(dedupe_evidences(f.evidences), f.source)]
  BY <1>1, DedupedList, Monotone
<1>4. f.level \in Levels /\ JustifiedLevel(f.evidences, f.source) \in Levels
      /\ JustifiedLevel(dedupe_evidences(f.evidences), f.source) \in Levels
  BY DEF Finding, JustifiedLevel, Levels
<1>5. Justified(g)
  BY <1>2, <1>3, <1>4 DEF Justified, Levels, PROOF_LEVEL_RANK
<1> QED
  BY <1>1, <1>2, <1>5, DedupedList

(* Collapsing two justified findings gives a justified one: the winner     *)
(* keeps its own evidences.                                                *)
LEMMA CollapseFacts ==
  ASSUME NEW f \in Finding, NEW h \in Finding, Justified(f), Justified(h), f.key = h.key
  PROVE  LET g == Collapse(f, h)
         IN  /\ g \in Finding /\ g.key = f.key /\ Justified(g)
             /\ \A e \in Evidence : g.evidences[e] \in {0, 1}
<1> DEFINE g == Collapse(f, h)
           w == IF Stronger(h, f) THEN h ELSE f
           sum == [e \in Evidence |-> f.evidences[e] + h.evidences[e]]
<1>1. f.evidences \in [Evidence -> Nat] /\ h.evidences \in [Evidence -> Nat]
  BY DEF Finding
<1>2. sum \in [Evidence -> Nat]
  BY <1>1
<1>3. w \in Finding /\ w.key = f.key /\ Justified(w) /\ w.evidences \in [Evidence -> Nat]
  BY <1>1
<1>4. \A e \in Evidence : w.evidences[e] > 0 => dedupe_evidences(sum)[e] > 0
  BY <1>1, <1>2, DedupedList
<1>5. g = [w EXCEPT !.evidences = dedupe_evidences(sum)]
  BY DEF Collapse, Merge
<1>6. /\ g \in Finding /\ g.key = f.key /\ g.level = w.level /\ g.source = w.source
      /\ g.evidences = dedupe_evidences(sum)
  <2> HIDE DEF w, sum, g
  <2> QED BY <1>2, <1>3, <1>5, DedupedList DEF Finding
<1>7. PROOF_LEVEL_RANK[JustifiedLevel(w.evidences, w.source)]
        <= PROOF_LEVEL_RANK[JustifiedLevel(dedupe_evidences(sum), w.source)]
  <2> HIDE DEF w, sum
  <2> QED BY <1>2, <1>3, <1>4, DedupedList, Monotone
<1>8. w.level \in Levels /\ JustifiedLevel(w.evidences, w.source) \in Levels
      /\ JustifiedLevel(dedupe_evidences(sum), w.source) \in Levels
  BY <1>3 DEF Finding, JustifiedLevel, Levels
<1>9. Justified(g)
  <2> HIDE DEF w, sum, g
  <2> QED BY <1>3, <1>6, <1>7, <1>8 DEF Justified, Levels, PROOF_LEVEL_RANK
<1> QED
  BY <1>2, <1>6, <1>9, DedupedList

-----------------------------------------------------------------------------
(* The steps.                                                              *)

(* What one round of dedupe_findings does to the dictionary.               *)
LEMMA RoundFacts ==
  ASSUME IInv, Dedupe
  PROVE  /\ kept' \in Seq(Finding) /\ AllJustified(kept') 
         /\ Distinct(kept') /\ Deduped(kept')
<1> DEFINE new == [todo[i] EXCEPT !.evidences = dedupe_evidences(@)]
<1>1. /\ kept \in Seq(Finding) /\ todo \in Seq(Finding) /\ i \in 1 .. Len(todo)
      /\ Distinct(kept) /\ Deduped(kept) /\ AllJustified(kept)
  BY DEF IInv, TypeOK, CollapsedInv, Dedupe
<1>2. todo[i] \in Finding /\ Justified(todo[i])
  BY <1>1, ElementOfSeq DEF IInv, AllJustified
<1>3. /\ new \in Finding /\ new.key = todo[i].key /\ Justified(new)
      /\ \A e \in Evidence : new.evidences[e] \in {0, 1}
  BY <1>2, OpenFacts
<1>4. CASE /\ \A j \in 1 .. Len(kept) : kept[j].key # todo[i].key
           /\ kept' = Append(kept, new)
  <2> HIDE DEF new
  <2>1. /\ kept' \in Seq(Finding) /\ Len(kept') = Len(kept) + 1
        /\ \A j \in 1 .. Len(kept) : kept'[j] = kept[j]
        /\ kept'[Len(kept) + 1] = new
    BY <1>1, <1>3, <1>4
  <2>2. \A j \in 1 .. Len(kept') : j \in 1 .. Len(kept) \/ j = Len(kept) + 1
    BY <1>1, <2>1, LenProperties
  <2>3. AllJustified(kept')
    BY <1>1, <1>3, <2>1, <2>2 DEF AllJustified
  <2>4. Distinct(kept')
    BY <1>1, <1>3, <1>4, <2>1, <2>2 DEF Distinct
  <2>5. Deduped(kept')
    BY <1>1, <1>3, <2>1, <2>2 DEF Deduped
  <2> QED BY <2>1, <2>3, <2>4, <2>5
<1>5. ASSUME NEW j \in 1 .. Len(kept),
             kept[j].key = todo[i].key,
             kept' = [kept EXCEPT ![j] = Collapse(@, todo[i])]
      PROVE  /\ kept' \in Seq(Finding) /\ AllJustified(kept')
             /\ Distinct(kept') /\ Deduped(kept')
  <2> DEFINE g == Collapse(kept[j], todo[i])
  <2>1. kept[j] \in Finding /\ Justified(kept[j])
    BY <1>1, ElementOfSeq DEF AllJustified
  <2>2. /\ g \in Finding /\ g.key = kept[j].key /\ Justified(g)
        /\ \A e \in Evidence : g.evidences[e] \in {0, 1}
    BY <1>2, <1>5, <2>1, CollapseFacts
  <2>3. kept' = [kept EXCEPT ![j] = g]
    BY <1>5
  <2> HIDE DEF g
  <2>4. /\ kept' \in Seq(Finding) /\ Len(kept') = Len(kept)
        /\ \A l \in 1 .. Len(kept) : kept'[l] = IF l = j THEN g ELSE kept[l]
    BY <1>1, <1>5, <2>2, <2>3, ExceptSeq
  <2>5. AllJustified(kept')
    BY <1>1, <2>2, <2>4 DEF AllJustified
  <2>6. Distinct(kept')
    BY <1>1, <2>2, <2>4 DEF Distinct
  <2>7. Deduped(kept')
    BY <1>1, <2>2, <2>4 DEF Deduped
  <2> QED BY <2>4, <2>5, <2>6, <2>7
<1> QED
  BY <1>4, <1>5 DEF Dedupe

(* The second pass meets each key for the first time, and each evidence    *)
(* once: it copies its list.                                               *)
LEMMA SecondRound ==
  ASSUME IInv, Dedupe, phase = "activity"
  PROVE  kept' = SubSeq(todo, 1, i)
<1>1. /\ todo \in Seq(Finding) /\ i \in 1 .. Len(todo) /\ kept = SubSeq(todo, 1, i - 1)
      /\ Distinct(todo) /\ Deduped(todo) /\ kept \in Seq(Finding)
  BY DEF IInv, TypeOK, CollapsedInv, Dedupe, SecondPassKeeps
<1>2. todo[i] \in Finding /\ i \in Nat /\ Len(todo) \in Nat
  BY <1>1, ElementOfSeq, LenProperties
<1>3. \A j \in 1 .. i - 1 : todo[j] \in Finding
  BY <1>1, <1>2, ElementOfSeq
<1>4. Len(kept) = i - 1 /\ \A j \in 1 .. i - 1 : kept[j] = todo[j]
  BY <1>1, <1>2, <1>3, SubSeqProperties
<1>5. \A j \in 1 .. Len(kept) : kept[j].key # todo[i].key
  BY <1>1, <1>2, <1>4 DEF Distinct
<1>6. dedupe_evidences(todo[i].evidences) = todo[i].evidences
  <2>1. todo[i].evidences \in [Evidence -> Nat]
    BY <1>2 DEF Finding
  <2>2. \A e \in Evidence : todo[i].evidences[e] \in {0, 1}
    BY <1>1 DEF Deduped
  <2> QED BY <2>1, <2>2 DEF dedupe_evidences
<1>7. [todo[i] EXCEPT !.evidences = dedupe_evidences(@)] = todo[i]
  BY <1>2, <1>6 DEF Finding
<1>8. kept' = Append(kept, todo[i])
  BY <1>5, <1>7 DEF Dedupe
<1>9. /\ kept' \in Seq(Finding) /\ Len(kept') = i
      /\ \A j \in 1 .. i : kept'[j] = todo[j]
  BY <1>1, <1>2, <1>4, <1>8
<1>10. /\ SubSeq(todo, 1, i) \in Seq(Finding) /\ Len(SubSeq(todo, 1, i)) = i
       /\ \A j \in 1 .. i : SubSeq(todo, 1, i)[j] = todo[j]
  <2>1. \A j \in 1 .. i : todo[j] \in Finding
    BY <1>2, <1>3
  <2> QED BY <1>2, <2>1, SubSeqProperties
<1> QED
  BY <1>9, <1>10, SeqEqual

LEMMA InvInit == Init => IInv
BY DEF Init, IInv, TypeOK, CollapsedInv, AllJustified, SecondPassKeeps, SOURCES

LEMMA InvStep == IInv /\ [Next]_vars => IInv'
<1> SUFFICES ASSUME IInv, [Next]_vars PROVE IInv'
  OBVIOUS
<1>1. TypeOK /\ CollapsedInv
  BY DEF IInv
<1>2. CASE Validate
  <2>1. /\ phase \in SOURCES /\ phase' \in SOURCES \cup {"raised"}
        /\ UNCHANGED <<todo, i, kept>>
    BY <1>2 DEF Validate
  <2>2. accepted' \in Seq(Finding) /\ AllJustified(accepted')
    <3>1. CASE UNCHANGED accepted
      BY <1>1, <3>1 DEF TypeOK, IInv, AllJustified
    <3>2. ASSUME NEW raw \in Raw, Conforms(raw, phase),
                 accepted' = Append(accepted, Validated(raw, phase))
          PROVE  accepted' \in Seq(Finding) /\ AllJustified(accepted')
      <4> DEFINE f == Validated(raw, phase)
      <4>1. f \in Finding /\ Justified(f)
        BY <1>1, <2>1, <3>2, ValidatedFacts
      <4> HIDE DEF f
      <4>2. accepted \in Seq(Finding) /\ AllJustified(accepted)
        BY DEF IInv, TypeOK
      <4>3. /\ accepted' \in Seq(Finding) /\ Len(accepted') = Len(accepted) + 1
            /\ \A j \in 1 .. Len(accepted) : accepted'[j] = accepted[j]
            /\ accepted'[Len(accepted) + 1] = f
        BY <3>2, <4>1, <4>2 DEF f
      <4> QED BY <4>1, <4>2, <4>3, LenProperties DEF AllJustified
    <3> QED BY <1>2, <3>1, <3>2 DEF Validate
  <2>3. TypeOK'
    BY <1>1, <2>1, <2>2 DEF TypeOK
  <2>4. CollapsedInv'
    BY <1>1, <2>1 DEF CollapsedInv, SOURCES
  <2>5. SecondPassKeeps'
    BY <2>1 DEF SecondPassKeeps, SOURCES
  <2> QED BY <2>1, <2>2, <2>3, <2>4, <2>5 DEF IInv, AllJustified
<1>3. CASE NextSource
  BY <1>3 DEF IInv, TypeOK, CollapsedInv, SecondPassKeeps, NextSource, SOURCES, AllJustified
<1>4. CASE Ingested
  <2>1. kept = <<>> /\ i = 1 /\ accepted \in Seq(Finding) /\ Len(accepted) \in Nat
    BY <1>1, <1>4, LenProperties DEF CollapsedInv, TypeOK, Ingested, SOURCES
  <2>2. TypeOK' /\ CollapsedInv'
    BY <1>1, <1>4, <2>1 DEF TypeOK, CollapsedInv, Ingested, SOURCES, Distinct, Deduped
  <2> QED BY <1>4, <2>2 DEF IInv, Ingested, SecondPassKeeps, AllJustified
<1>5. CASE Dedupe
  <2>1. /\ phase \in {"workflow", "activity"} /\ i <= Len(todo) /\ i' = i + 1
        /\ UNCHANGED <<phase, accepted, todo>>
    BY <1>5 DEF Dedupe
  <2>2. kept' \in Seq(Finding) /\ AllJustified(kept') /\ Distinct(kept') /\ Deduped(kept')
    BY <1>5, RoundFacts
  <2>3. TypeOK'
    BY <1>1, <2>1, <2>2, LenProperties DEF TypeOK
  <2>4. CollapsedInv'
    BY <1>1, <2>1, <2>2 DEF CollapsedInv, SOURCES, Distinct, Deduped
  <2>5. SecondPassKeeps'
    <3>1. i' - 1 = i
      BY <1>1, <2>1, LenProperties DEF TypeOK
    <3> QED BY <1>5, <2>1, <3>1, SecondRound DEF SecondPassKeeps
  <2> QED BY <2>1, <2>2, <2>3, <2>4, <2>5 DEF IInv, AllJustified
<1>6. CASE HandOver
  <2>1. /\ phase = "workflow" /\ phase' = "activity" /\ todo' = kept /\ i' = 1
        /\ kept' = <<>> /\ UNCHANGED accepted
    BY <1>6 DEF HandOver
  <2>2. kept \in Seq(Finding) /\ Len(kept) \in Nat /\ Distinct(kept) /\ Deduped(kept)
    BY <1>1, <2>1, LenProperties DEF TypeOK, CollapsedInv
  <2>3. TypeOK'
    BY <1>1, <2>1, <2>2 DEF TypeOK
  <2>4. CollapsedInv'
    BY <2>1, <2>2 DEF CollapsedInv, SOURCES, Distinct, Deduped
  <2>5. SecondPassKeeps'
    BY <2>1, SubSeqEmpty DEF SecondPassKeeps
  <2> QED BY <2>1, <2>3, <2>4, <2>5 DEF IInv, AllJustified
<1>7. CASE UNCHANGED vars
  BY <1>7 DEF vars, IInv, TypeOK, CollapsedInv, AllJustified, SecondPassKeeps,
              Distinct, Deduped, Justified
<1> QED
  BY <1>2, <1>3, <1>4, <1>5, <1>6, <1>7 DEF Next

-----------------------------------------------------------------------------
(* The reference for the first n findings of a list.                       *)

Group(a, k, n) == {m \in 1 .. n : a[m].key = k}

Score(a, n) == 2 * PROOF_LEVEL_RANK[a[n].level]
                 + IF a[n].source = "worker-pentest" THEN 1 ELSE 0

Wins(a, w, k, n) ==
  \A m \in Group(a, k, n) :
    IF m < w THEN Score(a, m) < Score(a, w) ELSE Score(a, m) <= Score(a, w)

Opens(a, n) == \A m \in 1 .. n - 1 : a[m].key # a[n].key

Joined(a, k, n) ==
  [e \in Evidence |-> IF \E m \in Group(a, k, n) : a[m].evidences[e] > 0 THEN 1 ELSE 0]

Winner(a, f, n) ==
  \E w \in Group(a, f.key, n) :
    Wins(a, w, f.key, n) /\ f = [a[w] EXCEPT !.evidences = Joined(a, f.key, n)]

Placed(a, s, j, n) ==
  \E m \in Group(a, s[j].key, n) :
    Opens(a, m) /\ \A l \in j + 1 .. Len(s) : \A x \in Group(a, s[l].key, n) : m < x

Covers(a, s, n) == \A m \in 1 .. n : \E j \in 1 .. Len(s) : s[j].key = a[m].key

Reference(a, s, n) ==
  /\ Covers(a, s, n)
  /\ \A j \in 1 .. Len(s) : Winner(a, s[j], n)
  /\ \A j \in 1 .. Len(s) : Placed(a, s, j, n)

(* What the first pass has computed so far, and what it handed over.       *)
ReferenceInv ==
  /\ phase = "workflow" => todo = accepted /\ Reference(accepted, kept, i - 1)
  /\ phase = "activity" => Reference(accepted, todo, Len(accepted))

(* One more finding extends the group of its key and no other.             *)
LEMMA GroupGrows ==
  ASSUME NEW a, NEW n \in Nat, NEW k
  PROVE  Group(a, k, n + 1) = IF a[n + 1].key = k
                               THEN Group(a, k, n) \cup {n + 1} ELSE Group(a, k, n)
BY DEF Group

LEMMA OthersStay ==
  ASSUME NEW a, NEW n \in Nat, NEW f, f.key # a[n + 1].key, Winner(a, f, n)
  PROVE  Winner(a, f, n + 1)
<1>1. Group(a, f.key, n + 1) = Group(a, f.key, n)
  BY GroupGrows
<1>2. Joined(a, f.key, n + 1) = Joined(a, f.key, n)
  BY <1>1 DEF Joined
<1>3. \A w : Wins(a, w, f.key, n) => Wins(a, w, f.key, n + 1)
  BY <1>1 DEF Wins
<1> QED
  BY <1>1, <1>2, <1>3 DEF Winner

(* Findings keep their places: a longer list with the same keys in front,  *)
(* whose groups only got later members, is ordered as before.              *)
LEMMA PlacesStay ==
  ASSUME NEW a, NEW n \in Nat, NEW s \in Seq(Finding), NEW t \in Seq(Finding),
         NEW j \in 1 .. Len(s),
         Len(s) <= Len(t), \A l \in 1 .. Len(s) : t[l].key = s[l].key,
         \A l \in Len(s) + 1 .. Len(t) : Group(a, t[l].key, n) = {},
         Placed(a, s, j, n)
  PROVE  Placed(a, t, j, n + 1)
<1>1. PICK m \in Group(a, s[j].key, n) :
        Opens(a, m) /\ \A l \in j + 1 .. Len(s) : \A x \in Group(a, s[l].key, n) : m < x
  BY DEF Placed
<1>2. m \in Group(a, t[j].key, n + 1) /\ m < n + 1
  BY <1>1 DEF Group
<1>3. ASSUME NEW l \in j + 1 .. Len(t), NEW x \in Group(a, t[l].key, n + 1)
      PROVE  m < x
  <2>1. x = n + 1 \/ x \in Group(a, t[l].key, n)
    BY <1>3, GroupGrows
  <2>2. l \in j + 1 .. Len(s) \/ l \in Len(s) + 1 .. Len(t)
    BY LenProperties
  <2>3. CASE x \in Group(a, t[l].key, n)
    <3>1. l \in j + 1 .. Len(s)
      BY <2>2, <2>3
    <3>2. t[l].key = s[l].key
      BY <3>1, LenProperties
    <3> QED BY <1>1, <2>3, <3>1, <3>2
  <2> QED BY <1>2, <2>1, <2>3
<1> QED
  BY <1>1, <1>2, <1>3 DEF Placed

(* A finding with a new key is its own winner, and comes last.             *)
LEMMA ReferenceAppends ==
  ASSUME NEW a \in Seq(Finding), NEW n \in Nat, n + 1 \in 1 .. Len(a),
         NEW s \in Seq(Finding), NEW t, Reference(a, s, n),
         \A j \in 1 .. Len(s) : s[j].key # a[n + 1].key,
         t = Append(s, [a[n + 1] EXCEPT !.evidences = dedupe_evidences(@)])
  PROVE  Reference(a, t, n + 1)
<1> DEFINE f == a[n + 1]
           g == [f EXCEPT !.evidences = dedupe_evidences(@)]
<1>1. f \in Finding /\ f.evidences \in [Evidence -> Nat]
  <2>1. a[n + 1] \in Finding
    BY ElementOfSeq
  <2> QED BY <2>1 DEF Finding
<1>2. g \in Finding /\ g.key = f.key
  BY <1>1, DedupedList DEF Finding
<1>3. /\ t \in Seq(Finding) /\ Len(t) = Len(s) + 1 /\ Len(s) \in Nat
      /\ \A j \in 1 .. Len(s) : t[j] = s[j]
      /\ t[Len(s) + 1] = g
  <2> HIDE DEF g
  <2>1. t = Append(s, g)
    BY DEF g
  <2> QED BY <1>2, <2>1, LenProperties
<1>4. \A j \in 1 .. Len(t) : j \in 1 .. Len(s) \/ j = Len(s) + 1
  BY <1>3
<1>5. Group(a, f.key, n) = {} /\ Group(a, f.key, n + 1) = {n + 1}
  <2>1. \A m \in 1 .. n : a[m].key # f.key
    BY DEF Reference, Covers
  <2>2. Group(a, f.key, n) = {}
    BY <2>1 DEF Group
  <2> QED BY <2>2, GroupGrows
<1>6. Covers(a, t, n + 1)
  <2>1. ASSUME NEW m \in 1 .. n + 1
        PROVE  \E j \in 1 .. Len(t) : t[j].key = a[m].key
    <3>1. CASE m \in 1 .. n
      <4>1. PICK j \in 1 .. Len(s) : s[j].key = a[m].key
        BY <3>1 DEF Reference, Covers
      <4> QED BY <1>3, <4>1
    <3>2. CASE m = n + 1
      <4>1. Len(s) + 1 \in 1 .. Len(t)
        BY <1>3
      <4> QED BY <1>2, <1>3, <3>2, <4>1
    <3> QED BY <3>1, <3>2
  <2> QED BY <2>1 DEF Covers
<1>7. Winner(a, g, n + 1)
  <2>1. Wins(a, n + 1, f.key, n + 1)
    <3>1. Score(a, n + 1) \in Int
      BY <1>1 DEF Score, Finding, Levels, PROOF_LEVEL_RANK
    <3> QED BY <1>5, <3>1 DEF Wins
  <2>2. dedupe_evidences(f.evidences) = Joined(a, f.key, n + 1)
    <3>1. \A e \in Evidence : (\E m \in {n + 1} : a[m].evidences[e] > 0) <=> f.evidences[e] > 0
      OBVIOUS
    <3> QED BY <1>5, <3>1 DEF Joined, dedupe_evidences
  <2>3. g = [f EXCEPT !.evidences = Joined(a, f.key, n + 1)]
    BY <1>1, <2>2 DEF Finding
  <2> HIDE DEF g
  <2> QED BY <1>2, <1>5, <2>1, <2>3 DEF Winner
<1>8. ASSUME NEW j \in 1 .. Len(t) PROVE Winner(a, t[j], n + 1)
  <2>1. CASE j \in 1 .. Len(s)
    BY <1>3, <2>1, OthersStay DEF Reference
  <2> QED BY <1>3, <1>4, <1>7, <2>1
<1>9. ASSUME NEW j \in 1 .. Len(t) PROVE Placed(a, t, j, n + 1)
  <2> HIDE DEF g
  <2>1. CASE j \in 1 .. Len(s)
    <3>1. \A l \in 1 .. Len(s) : t[l].key = s[l].key
      BY <1>3
    <3>2. \A l \in Len(s) + 1 .. Len(t) : Group(a, t[l].key, n) = {}
      BY <1>2, <1>3, <1>5
    <3>3. Placed(a, s, j, n) /\ Len(s) <= Len(t)
      BY <1>3, <2>1 DEF Reference
    <3>4. t \in Seq(Finding)
      BY <1>3
    <3> QED BY <2>1, <3>1, <3>2, <3>3, <3>4, PlacesStay
  <2>2. CASE j = Len(s) + 1
    <3>1. t[j].key = f.key /\ n + 1 \in Group(a, t[j].key, n + 1)
      BY <1>2, <1>3, <1>5, <2>2
    <3>2. Opens(a, n + 1)
      BY <1>5 DEF Opens, Group
    <3>3. j + 1 .. Len(t) = {}
      BY <1>3, <2>2
    <3> QED BY <3>1, <3>2, <3>3 DEF Placed
  <2> QED BY <1>4, <2>1, <2>2
<1> QED
  BY <1>6, <1>8, <1>9 DEF Reference

(* The score orders findings as _priority does.                            *)
LEMMA ScoreFacts ==
  ASSUME NEW a \in Seq(Finding), NEW m \in 1 .. Len(a), NEW n \in 1 .. Len(a)
  PROVE  /\ Score(a, m) \in Int
         /\ Stronger(a[m], a[n]) <=> Score(a, n) < Score(a, m)
<1>1. a[m] \in Finding /\ a[n] \in Finding
  BY ElementOfSeq
<1>2. /\ a[m].level \in Levels /\ a[n].level \in Levels
      /\ a[m].source \in SOURCES /\ a[n].source \in SOURCES
  BY <1>1 DEF Finding
<1> QED
  BY <1>2 DEF Score, Stronger, Levels, SOURCES, PROOF_LEVEL_RANK

(* Merging evidence by evidence gives the evidences of the whole group.    *)
LEMMA MergeJoins ==
  ASSUME NEW a \in Seq(Finding), NEW n \in Nat, n + 1 \in 1 .. Len(a),
         NEW f \in Finding, f.key = a[n + 1].key, f.evidences = Joined(a, f.key, n)
  PROVE  Merge(f, a[n + 1]) = Joined(a, f.key, n + 1)
<1> DEFINE h == a[n + 1]
           sum == [e \in Evidence |-> f.evidences[e] + h.evidences[e]]
<1>1. a[n + 1] \in Finding
  BY ElementOfSeq
<1>2. h.evidences \in [Evidence -> Nat]
  BY <1>1 DEF Finding
<1>3. Group(a, f.key, n + 1) = Group(a, f.key, n) \cup {n + 1}
  BY GroupGrows
<1>4. ASSUME NEW e \in Evidence
      PROVE  sum[e] > 0 <=> \E m \in Group(a, f.key, n + 1) : a[m].evidences[e] > 0
  <2>1. f.evidences[e] = IF \E m \in Group(a, f.key, n) : a[m].evidences[e] > 0
                           THEN 1 ELSE 0
    BY DEF Joined
  <2>2. sum[e] = f.evidences[e] + h.evidences[e] /\ h.evidences[e] \in Nat
    BY <1>2
  <2>3. (\E m \in Group(a, f.key, n + 1) : a[m].evidences[e] > 0)
          <=> (\E m \in Group(a, f.key, n) : a[m].evidences[e] > 0) \/ h.evidences[e] > 0
    BY <1>3
  <2> HIDE DEF sum, h
  <2>4. CASE \E m \in Group(a, f.key, n) : a[m].evidences[e] > 0
    <3>1. f.evidences[e] = 1
      BY <2>1, <2>4
    <3> QED BY <2>2, <2>3, <2>4, <3>1
  <2>5. CASE ~\E m \in Group(a, f.key, n) : a[m].evidences[e] > 0
    <3>1. f.evidences[e] = 0
      BY <2>1, <2>5
    <3> QED BY <2>2, <2>3, <2>5, <3>1
  <2> QED BY <2>4, <2>5
<1>5. Merge(f, h) = dedupe_evidences(sum)
  BY DEF Merge
<1> HIDE DEF sum, h
<1>6. dedupe_evidences(sum) = Joined(a, f.key, n + 1)
  BY <1>4 DEF dedupe_evidences, Joined
<1> QED
  BY <1>5, <1>6 DEF h

(* The winner of a group after a finding was collapsed into it.            *)
LEMMA WinnerOfMerge ==
  ASSUME NEW a \in Seq(Finding), NEW n \in Nat, n + 1 \in 1 .. Len(a),
         NEW f \in Finding, f.key = a[n + 1].key, Winner(a, f, n)
  PROVE  LET g == Collapse(f, a[n + 1]) IN g.key = f.key /\ Winner(a, g, n + 1)
<1> DEFINE k == f.key
           h == a[n + 1]
           g == Collapse(f, h)
<1>1. PICK w \in Group(a, k, n) :
        Wins(a, w, k, n) /\ f = [a[w] EXCEPT !.evidences = Joined(a, k, n)]
  BY DEF Winner
<1>2. w \in 1 .. n /\ a[w].key = k /\ w \in 1 .. Len(a)
  BY LenProperties DEF Group
<1>3. h \in Finding /\ h.key = k
  BY ElementOfSeq
<1>4. a[w] \in Finding
  BY <1>2, ElementOfSeq
<1>5. f.level = a[w].level /\ f.source = a[w].source /\ f.evidences = Joined(a, k, n)
  BY <1>1, <1>4 DEF Finding
<1>6. Merge(f, h) = Joined(a, k, n + 1)
  BY <1>5, MergeJoins
<1>7. Stronger(h, f) <=> Score(a, w) < Score(a, n + 1)
  <2>1. Stronger(h, f) <=> Stronger(h, a[w])
    BY <1>5 DEF Stronger
  <2> QED BY <1>2, <2>1, ScoreFacts
<1>8. Group(a, k, n + 1) = Group(a, k, n) \cup {n + 1}
  BY GroupGrows
<1>9. \A m \in Group(a, k, n + 1) : Score(a, m) \in Int
  <2>1. \A m \in Group(a, k, n + 1) : m \in 1 .. Len(a)
    BY LenProperties DEF Group
  <2> QED BY <2>1, ScoreFacts
<1>10. \A m \in Group(a, k, n) : Score(a, m) <= Score(a, w) /\ m < n + 1
  <2>1. \A m \in Group(a, k, n) : Score(a, m) <= Score(a, w)
    BY <1>1, <1>8, <1>9 DEF Wins
  <2> QED BY <2>1 DEF Group
<1>11. CASE Stronger(h, f)
  <2>1. g = [h EXCEPT !.evidences = Joined(a, k, n + 1)]
    BY <1>6, <1>11 DEF Collapse
  <2>2. Wins(a, n + 1, k, n + 1)
    BY <1>1, <1>7, <1>8, <1>9, <1>10, <1>11 DEF Wins
  <2>3. g.key = k
    BY <1>3, <2>1 DEF Finding
  <2> QED BY <1>8, <2>1, <2>2, <2>3 DEF Winner
<1>12. CASE ~Stronger(h, f)
  <2>1. g = [a[w] EXCEPT !.evidences = Joined(a, k, n + 1)]
    <3>1. g = [f EXCEPT !.evidences = Joined(a, k, n + 1)]
      BY <1>6, <1>12 DEF Collapse
    <3> QED BY <1>1, <1>4, <3>1 DEF Finding
  <2>2. Wins(a, w, k, n + 1)
    <3>1. Score(a, n + 1) <= Score(a, w)
      BY <1>1, <1>7, <1>8, <1>9, <1>12
    <3>2. w < n + 1
      BY <1>2
    <3>3. \A m \in Group(a, k, n) :
            IF m < w THEN Score(a, m) < Score(a, w) ELSE Score(a, m) <= Score(a, w)
      BY <1>1 DEF Wins
    <3>4. ~(n + 1 < w)
      BY <1>2, <3>2
    <3> HIDE DEF k
    <3> QED BY <1>8, <3>1, <3>3, <3>4 DEF Wins
  <2>3. g.key = k
    BY <1>2, <1>4, <2>1 DEF Finding
  <2> QED BY <1>1, <1>8, <2>1, <2>2, <2>3 DEF Winner
<1> QED
  BY <1>11, <1>12

(* A finding whose key was met before joins its group, in its place.       *)
LEMMA ReferenceMerges ==
  ASSUME NEW a \in Seq(Finding), NEW n \in Nat, n + 1 \in 1 .. Len(a),
         NEW s \in Seq(Finding), Distinct(s), NEW t \in Seq(Finding), Reference(a, s, n),
         NEW j \in 1 .. Len(s), s[j].key = a[n + 1].key,
         t = [s EXCEPT ![j] = Collapse(@, a[n + 1])]
  PROVE  Reference(a, t, n + 1)
<1> DEFINE g == Collapse(s[j], a[n + 1])
<1>1. g.key = s[j].key /\ Winner(a, g, n + 1)
  <2>1. s[j] \in Finding
    BY ElementOfSeq
  <2>2. Winner(a, s[j], n)
    BY DEF Reference
  <2> QED BY <2>1, <2>2, WinnerOfMerge
<1>2. t = [s EXCEPT ![j] = g]
  OBVIOUS
<1> HIDE DEF g
<1>3. /\ Len(t) = Len(s)
      /\ \A l \in 1 .. Len(s) : t[l] = IF l = j THEN g ELSE s[l]
  BY <1>2
<1>4. \A l \in 1 .. Len(s) : t[l].key = s[l].key
  BY <1>1, <1>3
<1>5. Covers(a, t, n + 1)
  <2>1. ASSUME NEW m \in 1 .. n + 1
        PROVE  \E l \in 1 .. Len(s) : s[l].key = a[m].key
    <3>1. CASE m \in 1 .. n
      BY <3>1 DEF Reference, Covers
    <3>2. CASE m = n + 1
      BY <3>2
    <3> QED BY <3>1, <3>2
  <2> QED BY <1>3, <1>4, <2>1 DEF Covers
<1>6. ASSUME NEW l \in 1 .. Len(t) PROVE Winner(a, t[l], n + 1)
  <2>1. CASE l = j
    BY <1>1, <1>3, <2>1
  <2>2. CASE l # j
    <3>1. t[l] = s[l] /\ s[l].key # a[n + 1].key
      BY <1>3, <2>2 DEF Distinct
    <3>2. Winner(a, s[l], n)
      BY <1>3 DEF Reference
    <3> QED BY <3>1, <3>2, OthersStay
  <2> QED BY <2>1, <2>2
<1>7. ASSUME NEW l \in 1 .. Len(t) PROVE Placed(a, t, l, n + 1)
  <2>1. Placed(a, s, l, n) /\ l \in 1 .. Len(s) /\ Len(s) <= Len(t) /\ Len(s) \in Nat
    BY <1>3, LenProperties DEF Reference
  <2>2. \A x \in Len(s) + 1 .. Len(t) : Group(a, t[x].key, n) = {}
    BY <1>3, <2>1
  <2> QED BY <1>4, <2>1, <2>2, PlacesStay
<1> QED
  BY <1>5, <1>6, <1>7 DEF Reference

LEMMA ReferenceStep == IInv /\ ReferenceInv /\ [Next]_vars => ReferenceInv'
<1> SUFFICES ASSUME IInv, ReferenceInv, [Next]_vars PROVE ReferenceInv'
  OBVIOUS
<1>1. TypeOK /\ CollapsedInv
  BY DEF IInv
<1>2. CASE Validate \/ NextSource
  BY <1>2 DEF Validate, NextSource, ReferenceInv, SOURCES
<1>3. CASE Ingested
  <2>1. /\ phase' = "workflow" /\ todo' = accepted' /\ kept' = <<>> /\ i' = 1
        /\ UNCHANGED accepted
    BY <1>1, <1>3 DEF Ingested, CollapsedInv, SOURCES
  <2>2. Reference(accepted, <<>>, 0)
    BY DEF Reference, Covers
  <2>3. Reference(accepted, kept, i - 1)'
    BY <2>1, <2>2
  <2> QED BY <2>1, <2>3 DEF ReferenceInv
<1>4. CASE Dedupe /\ phase = "workflow"
  <2>1. /\ todo = accepted /\ Reference(accepted, kept, i - 1) /\ Distinct(kept)
        /\ accepted \in Seq(Finding) /\ kept \in Seq(Finding)
        /\ i \in 1 .. Len(accepted) /\ i - 1 \in Nat /\ (i - 1) + 1 = i
    BY <1>1, <1>4, LenProperties DEF TypeOK, CollapsedInv, ReferenceInv, Dedupe
  <2>2. i' - 1 = i /\ kept' \in Seq(Finding) /\ UNCHANGED <<phase, accepted, todo>>
    <3>1. i' = i + 1 /\ UNCHANGED <<phase, accepted, todo>>
      BY <1>4 DEF Dedupe
    <3>2. kept' \in Seq(Finding)
      BY <1>4, RoundFacts
    <3> QED BY <2>1, <3>1, <3>2
  <2>3. ASSUME \A j \in 1 .. Len(kept) : kept[j].key # todo[i].key,
               kept' = Append(kept, [todo[i] EXCEPT !.evidences = dedupe_evidences(@)])
        PROVE  Reference(accepted, kept', i)
    <3> DEFINE n == i - 1
    <3>1. n \in Nat /\ n + 1 = i
      BY <2>1
    <3> HIDE DEF n
    <3>2. Reference(accepted, kept, n)
      BY <2>1 DEF n
    <3>3. /\ \A j \in 1 .. Len(kept) : kept[j].key # accepted[n + 1].key
          /\ kept' = Append(kept, [accepted[n + 1] EXCEPT !.evidences = dedupe_evidences(@)])
      BY <2>1, <2>3, <3>1
    <3>4. Reference(accepted, kept', n + 1)
      BY <2>1, <3>1, <3>2, <3>3, ReferenceAppends
    <3> QED BY <3>1, <3>4
  <2>4. ASSUME NEW j \in 1 .. Len(kept), kept[j].key = todo[i].key,
               kept' = [kept EXCEPT ![j] = Collapse(@, todo[i])]
        PROVE  Reference(accepted, kept', i)
    <3> DEFINE n == i - 1
    <3>1. n \in Nat /\ n + 1 = i
      BY <2>1
    <3> HIDE DEF n
    <3>2. Reference(accepted, kept, n)
      BY <2>1 DEF n
    <3>3. Reference(accepted, kept', n + 1)
      BY <2>1, <2>2, <2>4, <3>1, <3>2, ReferenceMerges
    <3> QED BY <3>1, <3>3
  <2>5. Reference(accepted, kept', i)
    BY <1>4, <2>3, <2>4 DEF Dedupe
  <2>6. Reference(accepted, kept, i - 1)'
    BY <2>2, <2>5
  <2> QED BY <1>4, <2>1, <2>2, <2>6 DEF ReferenceInv
<1>5. CASE Dedupe /\ phase = "activity"
  <2>1. UNCHANGED <<phase, accepted, todo>> /\ phase = "activity"
    BY <1>5 DEF Dedupe
  <2>2. Reference(accepted, todo, Len(accepted))'
    BY <2>1 DEF ReferenceInv
  <2> QED BY <2>1, <2>2 DEF ReferenceInv
<1>6. CASE HandOver
  <2>1. /\ phase = "workflow" /\ i > Len(todo) /\ phase' = "activity" /\ todo' = kept
        /\ UNCHANGED accepted
    BY <1>6 DEF HandOver
  <2>2. i - 1 = Len(accepted) /\ Reference(accepted, kept, i - 1)
    BY <1>1, <2>1, LenProperties DEF TypeOK, ReferenceInv
  <2>3. Reference(accepted, kept, Len(accepted))
    BY <2>2
  <2>4. Reference(accepted, todo, Len(accepted))'
    BY <2>1, <2>3
  <2> QED BY <2>1, <2>4 DEF ReferenceInv
<1>7. CASE UNCHANGED vars
  BY <1>7 DEF vars, ReferenceInv
<1> QED
  BY <1>2, <1>3, <1>4, <1>5, <1>6, <1>7 DEF Next, Dedupe

-----------------------------------------------------------------------------
(* The theorems.                                                           *)

THEOREM Invariance == Spec => []IInv
BY InvInit, InvStep, PTL DEF Spec

(* What dedupe_findings and ingest_findings hold are findings of the       *)
(* contract's shape.                                                       *)
THEOREM TypeCorrect == Spec => []TypeOK
<1>1. IInv => TypeOK
  BY DEF IInv
<1> QED
  BY <1>1, Invariance, PTL

(* However the findings of the two sources are collapsed, no finding has a *)
(* proof level above what its evidences justify for its source.            *)
THEOREM JustifiedCorrect == Spec => []LevelsAreJustified
<1>1. IInv => LevelsAreJustified
  BY DEF IInv, LevelsAreJustified, AllJustified, Justified
<1> QED
  BY <1>1, Invariance, PTL

(* The activities store and report exactly the list the workflow computed. *)
THEOREM SecondPassCorrect == Spec => []SecondPassKeeps
<1>1. IInv => SecondPassKeeps
  BY DEF IInv
<1> QED
  BY <1>1, Invariance, PTL

(* What the activities are handed has, for each key, the strongest finding *)
(* accepted with it, with the evidences of all of them, in the order in    *)
(* which the keys came: the loop of dedupe_findings computes the reference *)
(* definition, for findings in any number and any order.                   *)
THEOREM ReferenceCorrect == Spec => []CollapsedAsReference
<1>1. Init => ReferenceInv
  BY DEF Init, ReferenceInv
<1>2. IInv /\ ReferenceInv => CollapsedAsReference
  <2> SUFFICES ASSUME IInv, ReferenceInv, phase = "activity" PROVE CollapsedAsReference
    BY DEF CollapsedAsReference
  <2> DEFINE n == Len(accepted)
  <2>1. Reference(accepted, todo, n)
    BY DEF ReferenceInv
  <2>2. todo \in Seq(Finding)
    BY DEF IInv, TypeOK
  <2>3. \A k \in Keys : Group(accepted, k, n) # {} => \E j \in 1 .. Len(todo) : todo[j].key = k
    BY <2>1 DEF Reference, Covers, Group
  <2>4. \A j, l \in 1 .. Len(todo) : j < l =>
          \E m \in Group(accepted, todo[j].key, n) :
            Opens(accepted, m) /\ \A x \in Group(accepted, todo[l].key, n) : m < x
    <3> SUFFICES ASSUME NEW j \in 1 .. Len(todo), NEW l \in 1 .. Len(todo), j < l
                 PROVE  \E m \in Group(accepted, todo[j].key, n) :
                          Opens(accepted, m) /\ \A x \in Group(accepted, todo[l].key, n) : m < x
      OBVIOUS
    <3>1. l \in j + 1 .. Len(todo)
      BY <2>2, LenProperties
    <3> QED BY <2>1, <3>1 DEF Reference, Placed
  <2>5. \A j \in 1 .. Len(todo) : Winner(accepted, todo[j], n)
    BY <2>1 DEF Reference
  <2> QED BY <2>3, <2>4, <2>5
      DEF CollapsedAsReference, Winner, Wins, Opens, Joined, Group, Score
<1> QED
  BY <1>1, <1>2, ReferenceStep, Invariance, PTL DEF Spec
=============================================================================
