--------------------------- MODULE HarvesterProofs ---------------------------
(***************************************************************************)
(* Proofs that the deduction engine is sound for every device, every set   *)
(* of names and any number of samples.                                     *)
(***************************************************************************)
EXTENDS Harvester, TLAPS

-----------------------------------------------------------------------------
(* The inductive invariant.                                                *)

\* The waiting patterns of a sample own disjoint bits.
OwnersDisjoint == \A s \in SampleIds : Disjoint(act[s])

\* Ids not handed out yet hold nothing.
Unused == \A s \in SampleIds : s > stored => act[s] = {}

\* A name that was never seen, or was renamed away, has no bits.
AbsentEmpty == \A n \in Names : status[n] = "absent" => known[n] = {}

\* Only names that own one bit are marked single.
SinglesTrue == \A n \in Names : single[n] => IsSingle(truth[n])

StoreInv ==
    /\ Sound
    /\ Exact
    /\ Explained
    /\ IndexAgree
    /\ OwnersDisjoint
    /\ Unused
    /\ AbsentEmpty
    /\ SinglesTrue

\* The verdicts recorded in a round stay true however the samples change.
ScanInv ==
    /\ \A x \in pairs : x[3] \in truth[x[1]] \/ x[3] \in truth[x[2]]
    /\ \A t \in triples :
          /\ ~(t[4] \in truth[t[1]] /\ t[4] \in truth[t[2]])
          /\ ~(t[4] \in truth[t[1]] /\ t[4] \in truth[t[3]])
          /\ ~(t[4] \in truth[t[2]] /\ t[4] \in truth[t[3]])
    /\ \A d \in ded : d[2] \in truth[d[1]]
    /\ pc = "judge" => cur \in pending

IInv == TypeOK /\ StoreInv /\ ScanInv /\ NeverFails

-----------------------------------------------------------------------------
(* Facts about the operators.                                              *)

LEMMA TruthLocal ==
    ASSUME TypeOK, NEW n \in Names
    PROVE  /\ truth[n] \subseteq LocalBits(n)
           /\ LocalBits(n) \subseteq AllLocalBits
  BY TruthsFit DEF TypeOK, AllLocalBits

LEMMA PatternName == \A p \in Patterns : p.name \in Names
  BY DEF Patterns, Names

LEMMA AtType ==
    ASSUME NEW p \in Patterns, NEW l \in LocalBits(p.name)
    PROVE  At(p, l) \in DeviceBits
<1>1. CASE p.name \in Global
  BY <1>1 DEF LocalBits, At, DeviceBits
<1>2. CASE p.name \notin Global
  <2>1. PICK n \in Tiled : \E t \in Places[n] : p = [name |-> n, tiles |-> t]
    BY <1>2 DEF Patterns
  <2>2. PICK t \in Places[n] : p = [name |-> n, tiles |-> t]
    BY <2>1
  <2>3. l \in Slots(n) \X Offsets
    BY <1>2, <2>2 DEF LocalBits
  <2>4. t[l[1]] \in Tiles
    BY <2>3, PlacesFit
  <2>5. At(p, l) = <<t[l[1]], l[2]>>
    BY <1>2, <2>2 DEF At
  <2> QED
    BY <2>3, <2>4, <2>5 DEF DeviceBits
<1> QED
  BY <1>1, <1>2

LEMMA HitsOf ==
    ASSUME NEW K, NEW h \in Hits(K)
    PROVE  \E k \in K : \E e \in locs[k[1]] : h = <<e[1], e[2], k[2]>>
  BY DEF Hits

LEMMA HitsIn ==
    ASSUME NEW K, NEW k \in K, NEW e \in locs[k[1]]
    PROVE  <<e[1], e[2], k[2]>> \in Hits(K)
  BY DEF Hits

\* A set of bits to learn that the device owns and that are not known yet.
New(K) == \A k \in K : /\ k = <<k[1], k[2]>>
                       /\ k[1] \in Names
                       /\ k[2] \in truth[k[1]] \ known[k[1]]

\* What a removal of such bits looks like.
LEMMA HitFacts ==
    ASSUME TypeOK, StoreInv, NEW K, New(K), NEW h \in Hits(K)
    PROVE  /\ h[1] \in 1..stored
           /\ h[2] \in act[h[1]]
           /\ h[2] \in Patterns
           /\ <<h[2].name, h[3]>> \in K
           /\ h[3] \in truth[h[2].name] \ known[h[2].name]
           /\ h = <<h[1], h[2], h[3]>>
<1>1. PICK k \in K : \E e \in locs[k[1]] : h = <<e[1], e[2], k[2]>>
  BY HitsOf
<1>2. PICK e \in locs[k[1]] : h = <<e[1], e[2], k[2]>>
  BY <1>1
<1>3. k[1] \in Names /\ k[2] \in truth[k[1]] \ known[k[1]] /\ k = <<k[1], k[2]>>
  BY DEF New
<1>4. e \in SampleIds \X Patterns
  BY <1>3 DEF TypeOK
<1>5. e[2] \in act[e[1]] /\ e[2].name = k[1]
  BY <1>3, <1>4 DEF StoreInv, IndexAgree
<1>6. e[1] \in 1..stored
  BY <1>4, <1>5 DEF StoreInv, Unused, TypeOK, SampleIds
<1> QED
  BY <1>2, <1>3, <1>4, <1>5, <1>6

\* Learning true bits never fails, and leaves the samples explained.
LEMMA LearnRemovable ==
    ASSUME TypeOK, StoreInv, NEW K, New(K)
    PROVE  Removable(K)
<1>1. SUFFICES ASSUME NEW h \in Hits(K)
               PROVE  /\ At(h[2], h[3]) \in diff[h[1]]
                      /\ \A g \in Hits(K) :
                            g[1] = h[1] /\ At(g[2], g[3]) = At(h[2], h[3]) => g = h
  BY DEF Removable
<1>2. At(h[2], h[3]) \in diff[h[1]]
  <2>1. At(h[2], h[3]) \in Image(h[2], truth[h[2].name] \ known[h[2].name])
    BY HitFacts DEF Image
  <2>2. h[1] \in 1..stored /\ h[2] \in act[h[1]]
    BY HitFacts
  <2>3. diff[h[1]] = Owed(truth, known, act[h[1]])
    BY <2>2 DEF StoreInv, Explained
  <2> QED
    BY <2>1, <2>2, <2>3 DEF Owed
<1>3. ASSUME NEW g \in Hits(K), g[1] = h[1], At(g[2], g[3]) = At(h[2], h[3])
      PROVE  g = h
  <2>0. h[1] \in 1..stored
    BY HitFacts
  <2>1. h[1] \in SampleIds
    BY <2>0, MaxSamplesNat DEF SampleIds, TypeOK
  <2>2. Disjoint(act[h[1]])
    BY <2>1 DEF StoreInv, OwnersDisjoint
  <2>3. g[2] \in act[h[1]] /\ g[3] \in truth[g[2].name]
    BY <1>3, HitFacts
  <2>4. h[2] \in act[h[1]] /\ h[3] \in truth[h[2].name]
    BY HitFacts
  <2>5. g[2] = h[2] /\ g[3] = h[3]
    BY <1>3, <2>2, <2>3, <2>4 DEF Disjoint
  <2> QED
    BY <1>3, <2>5, HitFacts
<1> QED
  BY <1>2, <1>3

LEMMA LearnExplained ==
    ASSUME TypeOK, StoreInv, NEW K, New(K), NEW s \in 1..stored
    PROVE  DiffWithout(K)[s] =
              Owed(truth, KnownWith(K), act[s])
<1> DEFINE R == Owed(truth, KnownWith(K), act[s])
<1>0. s \in SampleIds /\ act[s] \subseteq Patterns
  BY MaxSamplesNat DEF SampleIds, TypeOK
<1>1. diff[s] = Owed(truth, known, act[s])
  BY DEF StoreInv, Explained
<1>2. DiffWithout(K)[s] = diff[s] \ {At(h[2], h[3]) : h \in {g \in Hits(K) : g[1] = s}}
  BY <1>0 DEF DiffWithout
<1>3. ASSUME NEW p \in act[s]
      PROVE  /\ p.name \in Names
             /\ KnownWith(K)[p.name] =
                   known[p.name] \cup {l \in AllLocalBits : <<p.name, l>> \in K}
             /\ truth[p.name] \subseteq AllLocalBits
  BY <1>0, PatternName, TruthLocal DEF KnownWith
<1>4. ASSUME NEW b \in DiffWithout(K)[s]
      PROVE  b \in R
  <2>1. PICK p \in act[s] : b \in Image(p, truth[p.name] \ known[p.name])
    BY <1>1, <1>2, <1>4 DEF Owed
  <2>2. PICK l \in truth[p.name] \ known[p.name] : b = At(p, l)
    BY <2>1 DEF Image
  <2>3. <<p.name, l>> \notin K
    <3>1. SUFFICES ASSUME <<p.name, l>> \in K PROVE FALSE
      OBVIOUS
    <3>2. <<s, p>> \in locs[p.name]
      BY <1>0, <1>3 DEF StoreInv, IndexAgree
    <3>3. <<s, p, l>> \in Hits(K)
      BY <3>1, <3>2, HitsIn
    <3> QED
      BY <1>2, <1>4, <2>2, <3>3
  <2>4. l \in truth[p.name] \ KnownWith(K)[p.name]
    BY <1>3, <2>2, <2>3
  <2> QED
    BY <2>2, <2>4 DEF Image, Owed
<1>5. ASSUME NEW b \in R
      PROVE  b \in DiffWithout(K)[s]
  <2>1. PICK p \in act[s] : b \in Image(p, truth[p.name] \ KnownWith(K)[p.name])
    BY <1>5 DEF Owed
  <2>2. PICK l \in truth[p.name] \ KnownWith(K)[p.name] : b = At(p, l)
    BY <2>1 DEF Image
  <2>3. l \in truth[p.name] \ known[p.name] /\ <<p.name, l>> \notin K
    BY <1>3, <2>2
  <2>4. b \in diff[s]
    BY <1>1, <2>2, <2>3 DEF Image, Owed
  <2>5. ASSUME NEW h \in Hits(K), h[1] = s, b = At(h[2], h[3])
        PROVE  FALSE
    <3>1. Disjoint(act[s])
      BY <1>0 DEF StoreInv, OwnersDisjoint
    <3>2. h[2] \in act[s] /\ h[3] \in truth[h[2].name] /\ <<h[2].name, h[3]>> \in K
      BY <2>5, HitFacts
    <3>3. l \in truth[p.name] /\ At(h[2], h[3]) = At(p, l)
      BY <2>2, <2>3, <2>5
    <3>4. h[2] = p /\ h[3] = l
      BY <3>1, <3>2, <3>3 DEF Disjoint
    <3> QED
      BY <2>3, <3>2, <3>4
  <2> QED
    BY <1>2, <2>4, <2>5
<1> QED
  BY <1>4, <1>5

\* Finishing the names Q takes their patterns off the samples' lists.
LEMMA ActWithoutIs ==
    ASSUME TypeOK, StoreInv, NEW Q \in SUBSET Names
    PROVE  /\ ActWithout(Q) \in [SampleIds -> SUBSET Patterns]
           /\ \A s \in SampleIds : ActWithout(Q)[s] = {p \in act[s] : p.name \notin Q}
<1>1. \A s \in SampleIds : act[s] \subseteq Patterns
  BY DEF TypeOK
<1>2. \A s \in SampleIds : \A p \in act[s] : \A n \in Q :
          <<s, p>> \in locs[n] <=> p.name = n
  BY <1>1 DEF StoreInv, IndexAgree
<1> QED
  BY <1>1, <1>2 DEF ActWithout

LEMMA FinishAllowed ==
    ASSUME TypeOK, StoreInv, NEW Q \in SUBSET Names, NEW knw,
           \A n \in Q : knw[n] = truth[n]
    PROVE  CanFinish(Q, knw)
<1> SUFFICES ASSUME NEW n \in Q
             PROVE  /\ single[n] => IsSingle(knw[n])
                    /\ \A e \in locs[n] : e[2] \in act[e[1]]
  BY DEF CanFinish
<1>1. single[n] => IsSingle(knw[n])
  BY DEF StoreInv, SinglesTrue
<1>2. locs[n] \subseteq SampleIds \X Patterns
  BY DEF TypeOK
<1>3. \A e \in locs[n] : e[2] \in act[e[1]]
  BY <1>2 DEF StoreInv, IndexAgree
<1> QED
  BY <1>1, <1>3

\* Patterns whose bits are all known owe a sample nothing.
LEMMA FinishExplained ==
    ASSUME TypeOK, StoreInv, NEW Q \in SUBSET Names, NEW knw,
           \A n \in Q : knw[n] = truth[n], NEW s \in SampleIds
    PROVE  Owed(truth, knw, act[s]) =
           Owed(truth, knw, ActWithout(Q)[s])
<1>1. ActWithout(Q)[s] = {p \in act[s] : p.name \notin Q}
  BY ActWithoutIs
<1>2. ASSUME NEW p \in act[s], p.name \in Q
      PROVE  Image(p, truth[p.name] \ knw[p.name]) = {}
  BY <1>2 DEF Image
<1> QED
  BY <1>1, <1>2 DEF Owed

LEMMA KnownWithNone ==
    ASSUME TypeOK
    PROVE  KnownWith({}) = known
  BY DEF TypeOK, KnownWith

LEMMA DiffWithoutNone ==
    ASSUME TypeOK
    PROVE  DiffWithout({}) = diff
  BY DEF TypeOK, DiffWithout, Hits

LEMMA KnownWithType ==
    ASSUME TypeOK, NEW K
    PROVE  KnownWith(K) \in [Names -> SUBSET AllLocalBits]
  BY DEF TypeOK, KnownWith

LEMMA DiffWithoutType ==
    ASSUME TypeOK, NEW K
    PROVE  DiffWithout(K) \in [SampleIds -> SUBSET DeviceBits]
  BY DEF TypeOK, DiffWithout

LEMMA LearnSound ==
    ASSUME TypeOK, StoreInv, NEW K, New(K), NEW n \in Names
    PROVE  KnownWith(K)[n] \subseteq truth[n]
<1>1. \A l : <<n, l>> \in K => l \in truth[n]
  BY DEF New
<1> QED
  BY <1>1 DEF KnownWith, StoreInv, Sound

-----------------------------------------------------------------------------
(* Steps on the stored samples.                                            *)

\* Learning the true bits K and finishing the names Q they complete.
LEMMA FinishStep ==
    ASSUME TypeOK, StoreInv, NEW K, New(K), NEW Q \in SUBSET Names,
           \A k \in K : k[1] \in Q,
           \A n \in Q : KnownWith(K)[n] = truth[n],
           known' = KnownWith(K), diff' = DiffWithout(K), Finished(Q),
           UNCHANGED <<truth, stored>>
    PROVE  /\ StoreInv'
           /\ status' \in [Names -> {"absent", "work", "known"}]
           /\ known' \in [Names -> SUBSET AllLocalBits]
           /\ single' \in [Names -> BOOLEAN]
           /\ locs' \in [Names -> SUBSET (SampleIds \X Patterns)]
           /\ diff' \in [SampleIds -> SUBSET DeviceBits]
           /\ act' \in [SampleIds -> SUBSET Patterns]
<1>1. /\ act' \in [SampleIds -> SUBSET Patterns]
      /\ \A s \in SampleIds : act'[s] = {p \in act[s] : p.name \notin Q}
  BY ActWithoutIs DEF Finished
<1>2. /\ status' \in [Names -> {"absent", "work", "known"}]
      /\ single' \in [Names -> BOOLEAN]
      /\ locs' \in [Names -> SUBSET (SampleIds \X Patterns)]
  BY DEF TypeOK, Finished
<1>3. Sound'
  BY LearnSound DEF Sound
<1>4. Exact'
  <2>1. ASSUME NEW n \in Names, status'[n] = "known", n \notin Q
        PROVE  known'[n] = truth[n]
    <3>1. status[n] = "known"
      BY <2>1 DEF Finished
    <3>2. known[n] = truth[n]
      BY <3>1 DEF StoreInv, Exact
    <3>3. known[n] \subseteq known'[n]
      BY DEF KnownWith
    <3>4. known'[n] \subseteq truth[n]
      BY LearnSound
    <3> QED
      BY <3>2, <3>3, <3>4
  <2> QED
    BY <2>1 DEF Exact
<1>5. Explained'
  <2> SUFFICES ASSUME NEW s \in 1..stored
               PROVE  diff'[s] = Owed(truth, known', act'[s])
    BY DEF Explained
  <2>1. s \in SampleIds
    BY MaxSamplesNat DEF TypeOK, SampleIds
  <2>2. diff'[s] = Owed(truth, KnownWith(K), act[s])
    BY LearnExplained
  <2>3. act' = ActWithout(Q)
    BY DEF Finished
  <2> QED
    BY <2>1, <2>2, <2>3, FinishExplained
<1>6. IndexAgree'
  <2>1. ASSUME NEW n \in Names, NEW s \in SampleIds, NEW p \in Patterns
        PROVE  <<s, p>> \in locs'[n] <=> p \in act'[s] /\ p.name = n
    <3>1. <<s, p>> \in locs[n] <=> p \in act[s] /\ p.name = n
      BY DEF StoreInv, IndexAgree
    <3>2. locs'[n] = IF n \in Q THEN {} ELSE locs[n]
      BY DEF Finished
    <3> QED
      BY <1>1, <3>1, <3>2
  <2>2. ASSUME NEW n \in Names, locs'[n] # {}
        PROVE  status'[n] = "work"
    BY <2>2 DEF StoreInv, IndexAgree, Finished
  <2> QED
    BY <2>1, <2>2 DEF IndexAgree
<1>7. OwnersDisjoint'
  BY <1>1 DEF StoreInv, OwnersDisjoint, Disjoint, At
<1>8. Unused'
  BY <1>1 DEF StoreInv, Unused
<1>9. AbsentEmpty'
  <2> SUFFICES ASSUME NEW n \in Names, status'[n] = "absent"
               PROVE  known'[n] = {}
    BY DEF AbsentEmpty
  <2>1. status[n] = "absent" /\ n \notin Q
    BY DEF Finished
  <2>2. known[n] = {}
    BY <2>1 DEF StoreInv, AbsentEmpty
  <2>3. \A l : <<n, l>> \notin K
    BY <2>1
  <2> QED
    BY <2>2, <2>3 DEF KnownWith
<1>10. SinglesTrue'
  BY DEF StoreInv, SinglesTrue, Finished
<1> QED
  BY <1>1, <1>2, <1>3, <1>4, <1>5, <1>6, <1>7, <1>8, <1>9, <1>10,
     KnownWithType, DiffWithoutType DEF StoreInv

\* Learning one true bit of a name that is at work.
LEMMA KnownBitStep ==
    ASSUME TypeOK, StoreInv, NEW n \in Names, NEW l \in truth[n]
    PROVE  /\ KnownBitOk(n, l)
           /\ AddKnownBit(n, l) /\ UNCHANGED truth =>
                 /\ StoreInv'
                 /\ status' \in [Names -> {"absent", "work", "known"}]
                 /\ known' \in [Names -> SUBSET AllLocalBits]
                 /\ diff' \in [SampleIds -> SUBSET DeviceBits]
                 /\ UNCHANGED <<single, locs, stored, act, pending>>
<1> DEFINE K == {<<n, l>>}
<1>1. CASE status[n] = "known" \/ l \in known[n]
  <2>1. l \in known[n]
    BY <1>1 DEF StoreInv, Exact
  <2>2. ASSUME AddKnownBit(n, l), UNCHANGED truth
        PROVE  StoreInv' /\ UNCHANGED store
    <3>1. UNCHANGED store
      BY <1>1, <2>2 DEF AddKnownBit
    <3>2. UNCHANGED <<status, known, single, locs, stored, diff, act, pending, truth>>
      BY <2>2, <3>1 DEF store
    <3> QED
      BY <3>1, <3>2 DEF StoreInv, Sound, Exact, Explained, IndexAgree, OwnersDisjoint,
         Unused, AbsentEmpty, SinglesTrue, Disjoint, Image, At
  <2> QED
    BY <1>1, <2>1, <2>2 DEF KnownBitOk, TypeOK, store
<1>2. CASE status[n] # "known" /\ l \notin known[n]
  <2>1. New(K)
    BY <1>2 DEF New
  <2>2. Removable(K)
    BY <2>1, LearnRemovable
  <2>3. KnownBitOk(n, l)
    BY <1>2, <2>2 DEF KnownBitOk
  <2>4. ASSUME AddKnownBit(n, l), UNCHANGED truth
        PROVE  /\ StoreInv'
               /\ status' \in [Names -> {"absent", "work", "known"}]
               /\ known' \in [Names -> SUBSET AllLocalBits]
               /\ diff' \in [SampleIds -> SUBSET DeviceBits]
               /\ UNCHANGED <<single, locs, stored, act, pending>>
    <3>1. /\ status' = [status EXCEPT ![n] = "work"]
          /\ known' = [known EXCEPT ![n] = @ \cup {l}]
          /\ diff' = DiffWithout(K)
          /\ UNCHANGED <<single, locs, stored, act, pending>>
      BY <1>2, <2>4 DEF AddKnownBit
    <3>2. l \in AllLocalBits
      BY TruthLocal
    <3>3. known' = KnownWith(K)
      BY <3>1, <3>2 DEF TypeOK, KnownWith
    <3>4. status' \in [Names -> {"absent", "work", "known"}]
      BY <3>1 DEF TypeOK
    <3>5. Sound'
      BY <2>1, <2>4, <3>3, LearnSound DEF Sound
    <3>6. Exact'
      BY <1>2, <2>4, <3>1 DEF StoreInv, Exact, TypeOK
    <3>7. Explained'
      <4>1. ASSUME NEW s \in 1..stored
            PROVE  diff'[s] = Owed(truth, known', act[s])
        BY <2>1, <3>1, <3>3, LearnExplained
      <4> QED
        BY <2>4, <3>1, <4>1 DEF Explained
    <3>8. IndexAgree'
      BY <3>1 DEF StoreInv, IndexAgree, TypeOK
    <3>9. OwnersDisjoint' /\ Unused' /\ SinglesTrue'
      BY <2>4, <3>1 DEF StoreInv, OwnersDisjoint, Unused, SinglesTrue, Disjoint, At
    <3>10. AbsentEmpty'
      BY <3>1 DEF StoreInv, AbsentEmpty, TypeOK
    <3>11. /\ KnownWith(K) \in [Names -> SUBSET AllLocalBits]
           /\ DiffWithout(K) \in [SampleIds -> SUBSET DeviceBits]
      BY KnownWithType, DiffWithoutType
    <3>12. StoreInv'
      BY <3>5, <3>6, <3>7, <3>8, <3>9, <3>10 DEF StoreInv
    <3> QED
      BY <3>1, <3>3, <3>4, <3>11, <3>12
  <2> QED
    BY <2>3, <2>4
<1> QED
  BY <1>1, <1>2

-----------------------------------------------------------------------------
(* The operations called from outside.                                     *)

LEMMA StutterStep ==
    ASSUME IInv, UNCHANGED vars
    PROVE  IInv'
BY DEF IInv, TypeOK, StoreInv, ScanInv, NeverFails, Sound, Exact, Explained, IndexAgree,
   OwnersDisjoint, Unused, AbsentEmpty, SinglesTrue, Disjoint, vars, world, store, scan

LEMMA WantStep ==
    ASSUME IInv, NEW n \in Names, Want(n)
    PROVE  IInv'
<1>1. /\ status[n] = "absent"
      /\ status' = [status EXCEPT ![n] = "work"]
      /\ UNCHANGED <<truth, known, single, locs, stored, diff, act, pending,
                     pc, todo, cur, bits, changed, pairs, triples, ded>>
  BY DEF Want, world, scan
<1>2. TypeOK'
  BY <1>1 DEF IInv, TypeOK
<1>3. Sound' /\ Explained' /\ OwnersDisjoint' /\ Unused' /\ SinglesTrue'
  BY <1>1 DEF IInv, StoreInv, Sound, Explained, OwnersDisjoint, Unused, SinglesTrue, Disjoint
<1>4. Exact' /\ AbsentEmpty' /\ IndexAgree'
  BY <1>1 DEF IInv, StoreInv, TypeOK, Exact, AbsentEmpty, IndexAgree
<1>5. ScanInv' /\ NeverFails'
  BY <1>1 DEF IInv, ScanInv, NeverFails
<1> QED
  BY <1>2, <1>3, <1>4, <1>5 DEF IInv, StoreInv

LEMMA ForceStep ==
    ASSUME IInv, NEW n \in Names, ForceBits(n)
    PROVE  IInv'
<1> DEFINE K == Missing(n)
<1> USE DEF IInv
<1>1. CASE status[n] = "known"
  <2>1. known[n] = truth[n]
    BY <1>1 DEF StoreInv, Exact
  <2> QED
    BY <1>1, <2>1, StutterStep DEF ForceBits
<1>2. CASE status[n] # "known"
  <2>1. New(K)
    BY DEF New, Missing
  <2>2. KnownWith(K)[n] = truth[n]
    BY TruthLocal DEF KnownWith, StoreInv, Sound, Missing
  <2>3. \A m \in {n} : KnownWith(K)[m] = truth[m]
    BY <2>2
  <2>4. CanFinish({n}, KnownWith(K))
    BY <2>3, FinishAllowed
  <2>5. Removable(K)
    BY <2>1, LearnRemovable
  <2>6. /\ known' = KnownWith(K)
        /\ diff' = DiffWithout(K)
        /\ Finished({n})
        /\ UNCHANGED <<truth, stored, pending, pc, todo, cur, bits, changed, pairs, triples, ded>>
    BY <1>2, <2>2, <2>4, <2>5 DEF ForceBits, world, scan
  <2>7. /\ StoreInv'
        /\ status' \in [Names -> {"absent", "work", "known"}]
        /\ known' \in [Names -> SUBSET AllLocalBits]
        /\ single' \in [Names -> BOOLEAN]
        /\ locs' \in [Names -> SUBSET (SampleIds \X Patterns)]
        /\ diff' \in [SampleIds -> SUBSET DeviceBits]
        /\ act' \in [SampleIds -> SUBSET Patterns]
    <3>1. \A k \in K : k[1] \in {n}
      BY DEF Missing
    <3>2. {n} \in SUBSET Names
      OBVIOUS
    <3> QED
      BY <2>1, <2>3, <2>6, <3>1, <3>2, FinishStep
  <2>8. TypeOK'
    BY <2>6, <2>7 DEF TypeOK
  <2>9. ScanInv' /\ NeverFails'
    BY <2>6 DEF ScanInv, NeverFails
  <2> QED
    BY <2>7, <2>8, <2>9
<1> QED
  BY <1>1, <1>2

LEMMA AddSampleStep ==
    ASSUME IInv, NEW P \in Designs, AddSample(P)
    PROVE  IInv'
<1> DEFINE waiting == {p \in P : status[p.name] # "known"}
           claimed == UNION {Image(p, known[p.name]) : p \in P}
           fits == /\ claimed \subseteq DiffOf(P)
                   /\ \A p, q \in P : \A l \in known[p.name], m \in known[q.name] :
                         At(p, l) = At(q, m) => p = q /\ l = m
           rest == DiffOf(P) \ claimed
           new == stored + 1
           waitingNames == {p.name : p \in waiting}
<1> USE DEF IInv
<1>1. P \subseteq Patterns /\ \A p \in P : p.name \in Names
  BY DesignsFit, PatternName
<1>2. Disjoint(P)
  BY DEF AddSample
<1>3. \A p \in P : known[p.name] \subseteq truth[p.name]
  BY <1>1 DEF StoreInv, Sound
<1>4. fits
  <2>1. claimed \subseteq DiffOf(P)
    BY <1>3 DEF DiffOf, Image
  <2>2. ASSUME NEW p \in P, NEW q \in P, NEW l \in known[p.name], NEW m \in known[q.name],
               At(p, l) = At(q, m)
        PROVE  p = q /\ l = m
    <3>1. l \in truth[p.name] /\ m \in truth[q.name]
      BY <1>3
    <3> QED
      BY <1>2, <2>2, <3>1 DEF Disjoint
  <2> QED
    BY <2>1, <2>2
<1>5. \A p \in P : p \notin waiting => known[p.name] = truth[p.name]
  BY <1>1 DEF StoreInv, Exact
<1>6. rest = Owed(truth, known, waiting)
  <2>1. ASSUME NEW b \in rest PROVE b \in Owed(truth, known, waiting)
    <3>1. PICK p \in P : b \in Image(p, truth[p.name])
      BY <2>1 DEF DiffOf
    <3>2. PICK l \in truth[p.name] : b = At(p, l)
      BY <3>1 DEF Image
    <3>3. l \notin known[p.name]
      BY <2>1, <3>2 DEF Image
    <3>4. p \in waiting
      BY <1>5, <3>2, <3>3
    <3> QED
      BY <3>2, <3>3, <3>4 DEF Owed, Image
  <2>2. ASSUME NEW b \in Owed(truth, known, waiting) PROVE b \in rest
    <3>1. PICK p \in waiting : b \in Image(p, truth[p.name] \ known[p.name])
      BY <2>2 DEF Owed
    <3>2. PICK l \in truth[p.name] \ known[p.name] : b = At(p, l)
      BY <3>1 DEF Image
    <3>3. b \in DiffOf(P)
      BY <3>2 DEF DiffOf, Image
    <3>4. ASSUME b \in claimed PROVE FALSE
      <4>1. PICK q \in P : b \in Image(q, known[q.name])
        BY <3>4
      <4>2. PICK m \in known[q.name] : b = At(q, m)
        BY <4>1 DEF Image
      <4>3. m \in truth[q.name]
        BY <1>3, <4>2
      <4>4. p = q /\ l = m
        BY <1>2, <3>2, <4>2, <4>3 DEF Disjoint
      <4> QED
        BY <3>2, <4>2, <4>4
    <3> QED
      BY <3>3, <3>4
  <2> QED
    BY <2>1, <2>2
<1>7. waiting = {} => rest = {}
  BY <1>6 DEF Owed
<1>8. CASE UNCHANGED vars
  BY <1>8, StutterStep
<1>9. CASE ~UNCHANGED vars
  <2>1. /\ stored < MaxSamples
        /\ stored' = new
        /\ diff' = [diff EXCEPT ![new] = rest]
        /\ act' = [act EXCEPT ![new] = waiting]
        /\ pending' = pending \cup {new}
        /\ status' = [n \in Names |-> IF n \in waitingNames THEN "work" ELSE status[n]]
        /\ single' = [n \in Names |-> single[n] \/ n \in waitingNames \cap Flagged]
        /\ locs' = [n \in Names |->
                      locs[n] \cup {<<new, p>> : p \in {q \in waiting : q.name = n}}]
        /\ UNCHANGED <<world, known, scan>>
    BY <1>4, <1>7, <1>9 DEF AddSample
  <2>2. UNCHANGED <<truth, known, pc, todo, cur, bits, changed, pairs, triples, ded>>
    BY <2>1 DEF world, scan
  <2>3. new \in SampleIds /\ stored \in Nat /\ stored' \in 0..MaxSamples
    BY <2>1, MaxSamplesNat DEF TypeOK, SampleIds
  <2>4. waiting \subseteq Patterns /\ waitingNames \subseteq Names
    BY <1>1
  <2>5. act[new] = {}
    BY <2>3 DEF StoreInv, Unused
  <2>6. TypeOK'
    <3>1. \A p \in P : \A l \in truth[p.name] : At(p, l) \in DeviceBits
      BY <1>1, AtType, TruthLocal
    <3>2. rest \subseteq DeviceBits
      BY <3>1 DEF DiffOf, Image
    <3>3. diff' \in [SampleIds -> SUBSET DeviceBits] /\ act' \in [SampleIds -> SUBSET Patterns]
      BY <2>1, <2>4, <3>2 DEF TypeOK
    <3>4. locs' \in [Names -> SUBSET (SampleIds \X Patterns)]
      BY <2>1, <2>3, <2>4 DEF TypeOK
    <3>5. single' \in [Names -> BOOLEAN]
      BY <2>1 DEF TypeOK
    <3>6. status' \in [Names -> {"absent", "work", "known"}]
      BY <2>1 DEF TypeOK
    <3>7. pending' \subseteq 1..stored' /\ todo' \subseteq pending' /\ cur' \in 0..stored'
      BY <2>1, <2>2, <2>3 DEF TypeOK
    <3> QED
      BY <2>2, <2>3, <3>3, <3>4, <3>5, <3>6, <3>7 DEF TypeOK
  <2>7. Sound'
    BY <2>2 DEF StoreInv, Sound
  <2>8. Exact' /\ AbsentEmpty'
    BY <2>1, <2>2 DEF StoreInv, Exact, AbsentEmpty
  <2>9. Explained'
    <3> SUFFICES ASSUME NEW s \in 1..stored'
                 PROVE  diff'[s] = Owed(truth, known, act'[s])
      BY <2>2 DEF Explained
    <3>1. CASE s = new
      BY <1>6, <2>1, <2>3, <3>1 DEF TypeOK
    <3>2. CASE s # new
      <4>1. s \in 1..stored
        BY <2>1, <2>3, <3>2
      <4>2. diff'[s] = diff[s] /\ act'[s] = act[s]
        BY <2>1, <2>3, <3>2, <4>1, MaxSamplesNat DEF TypeOK, SampleIds
      <4> QED
        BY <4>1, <4>2 DEF StoreInv, Explained
    <3> QED
      BY <3>1, <3>2
  <2>10. IndexAgree'
    <3>1. ASSUME NEW n \in Names, NEW s \in SampleIds, NEW p \in Patterns
          PROVE  <<s, p>> \in locs'[n] <=> p \in act'[s] /\ p.name = n
      <4>1. <<s, p>> \in locs[n] <=> p \in act[s] /\ p.name = n
        BY DEF StoreInv, IndexAgree
      <4>2. CASE s = new
        BY <2>1, <2>3, <2>5, <4>1, <4>2 DEF TypeOK
      <4>3. CASE s # new
        BY <2>1, <2>3, <4>1, <4>3 DEF TypeOK
      <4> QED
        BY <4>2, <4>3
    <3>2. ASSUME NEW n \in Names, locs'[n] # {}
          PROVE  status'[n] = "work"
      BY <2>1, <3>2 DEF StoreInv, IndexAgree
    <3> QED
      BY <3>1, <3>2 DEF IndexAgree
  <2>11. OwnersDisjoint'
    <3>1. ASSUME NEW s \in SampleIds, NEW p \in act'[s], NEW q \in act'[s],
                 NEW l \in truth[p.name], NEW m \in truth[q.name], At(p, l) = At(q, m)
          PROVE  p = q /\ l = m
      <4>1. CASE s = new
        <5>1. p \in P /\ q \in P
          BY <2>1, <2>3, <4>1 DEF TypeOK
        <5> QED
          BY <1>2, <3>1, <5>1 DEF Disjoint
      <4>2. CASE s # new
        <5>1. p \in act[s] /\ q \in act[s]
          BY <2>1, <2>3, <4>2 DEF TypeOK
        <5> QED
          BY <3>1, <5>1 DEF StoreInv, OwnersDisjoint, Disjoint
      <4> QED
        BY <4>1, <4>2
    <3> QED
      BY <2>2, <3>1 DEF OwnersDisjoint, Disjoint
  <2>12. Unused'
    BY <2>1, <2>3 DEF StoreInv, Unused, TypeOK, SampleIds
  <2>13. SinglesTrue'
    <3>1. \A n \in Flagged : IsSingle(truth[n])
      BY TruthsFit DEF TypeOK
    <3> QED
      BY <2>1, <2>2, <3>1 DEF StoreInv, SinglesTrue
  <2>14. ScanInv' /\ NeverFails'
    BY <2>1, <2>2 DEF ScanInv, NeverFails
  <2> QED
    BY <2>6, <2>7, <2>8, <2>9, <2>10, <2>11, <2>12, <2>13, <2>14 DEF StoreInv
<1> QED
  BY <1>8, <1>9

\* Renaming a global pattern moves it to another name and changes nothing else.
LEMMA RenamedFacts ==
    ASSUME NEW from \in Global, NEW to \in Global, NEW p \in Patterns
    PROVE  /\ Renamed(from, to, p) \in Patterns
           /\ p.name = from => Renamed(from, to, p).name = to
           /\ p.name # from => Renamed(from, to, p) = p
           /\ \A l : At(Renamed(from, to, p), l) = At(p, l)
<1>1. CASE p.name = from
  <2>1. p = [name |-> from, tiles |-> NoTiles]
    BY <1>1, NamesDisjoint DEF Patterns
  <2>2. Renamed(from, to, p) = [name |-> to, tiles |-> NoTiles]
    BY <1>1, <2>1 DEF Renamed
  <2> QED
    BY <1>1, <2>1, <2>2 DEF Patterns, At
<1>2. CASE p.name # from
  BY <1>2 DEF Renamed
<1> QED
  BY <1>1, <1>2

LEMMA RenameStep ==
    ASSUME IInv, NEW from \in Global, NEW to \in Global, RenameGlobal(from, to)
    PROVE  IInv'
<1> DEFINE both == {from, to}
           merged == known[from] \cup known[to]
           anyKnown == \E n \in both : status[n] = "known"
           K == {k \in both \X merged : k[2] \notin known[k[1]]}
           entries == {n \in both : status[n] = "work" \/ \E k \in K : k[1] = n}
           ok == /\ \A n \in both : status[n] = "known" => known[n] = merged
                 /\ Removable(K)
                 /\ anyKnown => /\ \A n \in both : status[n] = "known" \/ n \in entries
                                /\ CanFinish({n \in both : status[n] # "known"}, KnownWith(K))
<1> USE DEF IInv
<1>1. from # to /\ truth[from] = truth[to] /\ ~EmptyRename(from, to)
  BY DEF RenameGlobal
<1>2. from \in Names /\ to \in Names /\ both \subseteq Names
  BY DEF Names
<1>3. merged \subseteq truth[from] /\ merged \subseteq truth[to]
  BY <1>1, <1>2 DEF StoreInv, Sound
<1>4. New(K)
  BY <1>2, <1>3 DEF New
<1>5. Removable(K)
  BY <1>4, LearnRemovable
<1>6. merged \subseteq AllLocalBits
  BY <1>2 DEF TypeOK
<1>7. \A n \in both : KnownWith(K)[n] = merged
  BY <1>2, <1>6 DEF KnownWith
<1>8. \A n \in Names : n \notin both => KnownWith(K)[n] = known[n]
  BY DEF KnownWith
<1>9. \A n \in both : status[n] = "known" => known[n] = merged /\ merged = truth[n]
  BY <1>1, <1>2, <1>3 DEF StoreInv, Exact
<1>10. anyKnown => \A n \in both : merged = truth[n]
  BY <1>1, <1>9
<1>11. ok
  <2>1. ASSUME anyKnown, NEW n \in both, status[n] # "known"
        PROVE  n \in entries
    <3>1. CASE status[n] = "work"
      BY <3>1
    <3>2. CASE status[n] = "absent"
      <4>1. known[n] = {}
        BY <1>2, <3>2 DEF StoreInv, AbsentEmpty
      <4>2. {status[from], status[to]} = {"absent", "known"}
        BY <2>1, <3>2
      <4>3. merged # {}
        BY <1>1, <4>2 DEF EmptyRename
      <4>4. PICK l \in merged : TRUE
        BY <4>3
      <4>5. <<n, l>> \in K
        BY <4>1
      <4> QED
        BY <4>5
    <3> QED
      BY <1>2, <2>1, <3>1, <3>2 DEF TypeOK
  <2>2. ASSUME anyKnown
        PROVE  CanFinish({n \in both : status[n] # "known"}, KnownWith(K))
    <3> DEFINE Q == {n \in both : status[n] # "known"}
    <3>1. Q \in SUBSET Names
      BY <1>2
    <3>2. \A n \in Q : KnownWith(K)[n] = truth[n]
      BY <1>7, <1>10, <2>2
    <3> HIDE DEF Q, K
    <3> QED
      BY <3>1, <3>2, FinishAllowed DEF Q
  <2> QED
    BY <1>5, <1>9, <2>1, <2>2
<1>12. /\ diff' = DiffWithout(K)
       /\ UNCHANGED <<truth, stored, pending, pc, todo, cur, bits, changed, pairs, triples, ded>>
  BY <1>11 DEF RenameGlobal, world, scan
<1>13. diff' \in [SampleIds -> SUBSET DeviceBits]
  BY <1>12, DiffWithoutType
<1>14. \A s \in 1..stored : diff'[s] = Owed(truth, KnownWith(K), act[s])
  BY <1>4, <1>12, LearnExplained
<1>15. ScanInv' /\ NeverFails'
  BY <1>12 DEF ScanInv, NeverFails
<1>16. \A s \in SampleIds : act[s] \subseteq Patterns /\ \A p \in act[s] : p.name \in Names
  BY PatternName DEF TypeOK
<1>17. 1..stored \subseteq SampleIds
  BY MaxSamplesNat DEF TypeOK, SampleIds
<1>18. CASE anyKnown
  <2>1. /\ status' = [status EXCEPT ![from] = "absent", ![to] = "known"]
        /\ known' = [known EXCEPT ![from] = {}, ![to] = merged]
        /\ single' = [single EXCEPT ![from] = FALSE, ![to] = FALSE]
        /\ locs' = [locs EXCEPT ![from] = {}, ![to] = {}]
        /\ act' = ActWithout(both)
    BY <1>11, <1>18 DEF RenameGlobal
  <2>2. /\ act' \in [SampleIds -> SUBSET Patterns]
        /\ \A s \in SampleIds : act'[s] = {p \in act[s] : p.name \notin both}
    BY <1>2, <2>1, ActWithoutIs
  <2>3. TypeOK'
    BY <1>2, <1>6, <1>12, <1>13, <2>1, <2>2 DEF TypeOK
  <2>4. Sound' /\ Exact' /\ AbsentEmpty' /\ SinglesTrue'
    BY <1>1, <1>2, <1>10, <1>12, <1>18, <2>1
    DEF TypeOK, StoreInv, Sound, Exact, AbsentEmpty, SinglesTrue
  <2>5. Explained'
    <3> SUFFICES ASSUME NEW s \in 1..stored
                 PROVE  diff'[s] = Owed(truth, known', act'[s])
      BY <1>12 DEF Explained
    <3>1. \A n \in both : KnownWith(K)[n] = truth[n]
      BY <1>7, <1>10, <1>18
    <3>2. Owed(truth, KnownWith(K), act[s]) = Owed(truth, KnownWith(K), act'[s])
      BY <1>2, <1>17, <2>1, <3>1, FinishExplained
    <3>3. ASSUME NEW p \in act'[s]
          PROVE  known'[p.name] = KnownWith(K)[p.name]
      <4>1. p.name \notin both /\ p.name \in Names
        BY <1>16, <1>17, <2>2
      <4>2. known'[p.name] = known[p.name]
        BY <2>1, <4>1 DEF TypeOK
      <4> QED
        BY <1>8, <4>1, <4>2
    <3>4. Owed(truth, KnownWith(K), act'[s]) = Owed(truth, known', act'[s])
      BY <3>3 DEF Owed
    <3> QED
      BY <1>14, <3>2, <3>4
  <2>6. IndexAgree'
    <3>1. ASSUME NEW n \in Names, NEW s \in SampleIds, NEW p \in Patterns
          PROVE  <<s, p>> \in locs'[n] <=> p \in act'[s] /\ p.name = n
      <4>1. <<s, p>> \in locs[n] <=> p \in act[s] /\ p.name = n
        BY DEF StoreInv, IndexAgree
      <4>2. locs'[n] = IF n \in both THEN {} ELSE locs[n]
        BY <1>2, <2>1 DEF TypeOK
      <4>3. p \in act'[s] <=> p \in act[s] /\ p.name \notin both
        BY <2>2
      <4> QED
        BY <4>1, <4>2, <4>3
    <3>2. \A n \in Names : locs'[n] # {} => status'[n] = "work"
      BY <1>2, <2>1 DEF TypeOK, StoreInv, IndexAgree
    <3> QED
      BY <3>1, <3>2 DEF IndexAgree
  <2>7. OwnersDisjoint' /\ Unused'
    BY <1>12, <2>2 DEF StoreInv, OwnersDisjoint, Unused, Disjoint
  <2> QED
    BY <1>15, <2>3, <2>4, <2>5, <2>6, <2>7 DEF StoreInv
<1>19. CASE ~anyKnown
  <2>1. /\ status' = [status EXCEPT ![from] = "absent",
                         ![to] = IF from \in entries THEN "work" ELSE @]
        /\ known' = [known EXCEPT ![from] = {}, ![to] = merged]
        /\ single' = [single EXCEPT ![from] = FALSE, ![to] = @ \/ single[from]]
        /\ locs' = [locs EXCEPT ![from] = {},
                      ![to] = @ \cup {<<e[1], Renamed(from, to, e[2])>> : e \in locs[from]}]
        /\ act' = [s \in SampleIds |-> {Renamed(from, to, p) : p \in act[s]}]
    BY <1>11, <1>19 DEF RenameGlobal
  <2>2. \A p \in Patterns : /\ Renamed(from, to, p) \in Patterns
                            /\ p.name = from => Renamed(from, to, p).name = to
                            /\ p.name # from => Renamed(from, to, p) = p
                            /\ \A l : At(Renamed(from, to, p), l) = At(p, l)
    BY RenamedFacts
  <2>3. act' \in [SampleIds -> SUBSET Patterns]
    BY <1>16, <2>1, <2>2
  <2>4. locs' \in [Names -> SUBSET (SampleIds \X Patterns)]
    <3>1. locs[from] \subseteq SampleIds \X Patterns
      BY <1>2 DEF TypeOK
    <3>2. {<<e[1], Renamed(from, to, e[2])>> : e \in locs[from]} \subseteq SampleIds \X Patterns
      BY <2>2, <3>1
    <3> QED
      BY <1>2, <2>1, <3>2 DEF TypeOK
  <2>5. status' \in [Names -> {"absent", "work", "known"}]
    BY <1>2, <2>1 DEF TypeOK
  <2>6. TypeOK'
    BY <1>2, <1>6, <1>12, <1>13, <2>1, <2>3, <2>4, <2>5 DEF TypeOK
  <2>7. from \notin entries => status[from] = "absent" /\ merged = {}
    <3>1. ASSUME from \notin entries, NEW l \in merged PROVE FALSE
      <4>1. status[from] = "absent"
        BY <1>2, <1>19, <3>1 DEF TypeOK
      <4>2. known[from] = {}
        BY <1>2, <4>1 DEF StoreInv, AbsentEmpty
      <4>3. <<from, l>> \in K
        BY <4>2
      <4> QED
        BY <3>1, <4>3
    <3>2. from \notin entries => status[from] = "absent"
      BY <1>2, <1>19 DEF TypeOK
    <3> QED
      BY <3>1, <3>2
  <2>8. Sound' /\ SinglesTrue'
    BY <1>1, <1>2, <1>3, <1>12, <2>1 DEF TypeOK, StoreInv, Sound, SinglesTrue
  <2>9. Exact' /\ AbsentEmpty'
    <3>1. \A n \in both : status[n] # "known"
      BY <1>19
    <3>2. status'[from] = "absent" /\ status'[to] # "known"
      BY <1>1, <1>2, <2>1, <3>1 DEF TypeOK
    <3>3. known'[from] = {} /\ known'[to] = merged
      BY <1>1, <1>2, <2>1 DEF TypeOK
    <3>4. \A n \in Names : n \notin both => status'[n] = status[n] /\ known'[n] = known[n]
      BY <2>1 DEF TypeOK
    <3>5. status'[to] = "absent" => merged = {}
      BY <1>1, <1>2, <2>1, <2>7 DEF TypeOK
    <3> QED
      BY <1>12, <3>2, <3>3, <3>4, <3>5 DEF StoreInv, Exact, AbsentEmpty
  <2>10. \A n \in Names : n # from => known'[n] = KnownWith(K)[n]
    BY <1>2, <1>7, <1>8, <2>1 DEF TypeOK
  <2>11. ASSUME NEW s \in SampleIds, NEW p \in act[s]
         PROVE  Image(Renamed(from, to, p), truth[Renamed(from, to, p).name] \ known'[Renamed(from, to, p).name])
                   = Image(p, truth[p.name] \ KnownWith(K)[p.name])
    <3>1. p \in Patterns /\ p.name \in Names
      BY <1>16
    <3>2. \A S : Image(Renamed(from, to, p), S) = Image(p, S)
      BY <2>2, <3>1 DEF Image
    <3>3. CASE p.name = from
      <4>1. truth[Renamed(from, to, p).name] = truth[p.name]
        BY <1>1, <2>2, <3>1, <3>3
      <4>2. known'[Renamed(from, to, p).name] = KnownWith(K)[p.name]
        <5>1. Renamed(from, to, p).name = to
          BY <2>2, <3>1, <3>3
        <5>2. known'[to] = KnownWith(K)[to] /\ KnownWith(K)[to] = merged
          BY <1>1, <1>2, <1>7, <2>10
        <5>3. KnownWith(K)[from] = merged
          BY <1>7
        <5> QED
          BY <3>3, <5>1, <5>2, <5>3
      <4> QED
        BY <3>2, <4>1, <4>2
    <3>4. CASE p.name # from
      BY <2>2, <2>10, <3>1, <3>4
    <3> QED
      BY <3>3, <3>4
  <2>12. Explained'
    <3> SUFFICES ASSUME NEW s \in 1..stored
                 PROVE  diff'[s] = Owed(truth, known', act'[s])
      BY <1>12 DEF Explained
    <3>1. s \in SampleIds /\ act'[s] = {Renamed(from, to, p) : p \in act[s]}
      BY <1>17, <2>1
    <3>2. Owed(truth, known', act'[s]) = Owed(truth, KnownWith(K), act[s])
      <4> HIDE DEF K
      <4>1. ASSUME NEW b
            PROVE  (\E q \in act'[s] : b \in Image(q, truth[q.name] \ known'[q.name]))
                      <=> \E p \in act[s] : b \in Image(p, truth[p.name] \ KnownWith(K)[p.name])
        <5>1. ASSUME NEW q \in act'[s], b \in Image(q, truth[q.name] \ known'[q.name])
              PROVE  \E p \in act[s] : b \in Image(p, truth[p.name] \ KnownWith(K)[p.name])
          <6>1. PICK p \in act[s] : q = Renamed(from, to, p)
            BY <3>1
          <6> QED
            BY <2>11, <3>1, <5>1, <6>1
        <5>2. ASSUME NEW p \in act[s], b \in Image(p, truth[p.name] \ KnownWith(K)[p.name])
              PROVE  \E q \in act'[s] : b \in Image(q, truth[q.name] \ known'[q.name])
          <6>1. Renamed(from, to, p) \in act'[s]
            BY <3>1
          <6> QED
            BY <2>11, <3>1, <5>2, <6>1
        <5> QED
          BY <5>1, <5>2
      <4> QED
        BY <4>1 DEF Owed
    <3> QED
      BY <1>14, <3>2
  <2>13. IndexAgree'
    <3>1. ASSUME NEW n \in Names, NEW s \in SampleIds, NEW p \in Patterns
          PROVE  <<s, p>> \in locs'[n] <=> p \in act'[s] /\ p.name = n
      <4>1. \A m \in Names : \A q \in Patterns :
               <<s, q>> \in locs[m] <=> q \in act[s] /\ q.name = m
        BY DEF StoreInv, IndexAgree
      <4>2. p \in act'[s] <=> \E q \in act[s] : p = Renamed(from, to, q)
        BY <2>1
      <4>3. act[s] \subseteq Patterns
        BY <1>16
      <4>4. CASE n = from
        <5>1. locs'[n] = {}
          BY <1>1, <1>2, <2>1, <4>4 DEF TypeOK
        <5>2. p \in act'[s] => p.name # from
          BY <1>1, <2>2, <4>2, <4>3
        <5> QED
          BY <4>4, <5>1, <5>2
      <4>5. CASE n = to
        <5>1. locs'[n] = locs[to] \cup {<<e[1], Renamed(from, to, e[2])>> : e \in locs[from]}
          BY <1>1, <1>2, <2>1, <4>5 DEF TypeOK
        <5>2. <<s, p>> \in {<<e[1], Renamed(from, to, e[2])>> : e \in locs[from]}
                 <=> \E q \in act[s] : q.name = from /\ p = Renamed(from, to, q)
          <6>1. locs[from] \subseteq SampleIds \X Patterns
            BY <1>2 DEF TypeOK
          <6>2. \A q \in act[s] : q.name = from => <<s, q>> \in locs[from]
            BY <1>2, <4>1, <4>3
          <6>3. \A q \in Patterns : <<s, q>> \in locs[from] => q \in act[s] /\ q.name = from
            BY <1>2, <4>1
          <6>4. ASSUME <<s, p>> \in {<<e[1], Renamed(from, to, e[2])>> : e \in locs[from]}
                PROVE  \E q \in act[s] : q.name = from /\ p = Renamed(from, to, q)
            <7>1. PICK e \in locs[from] : <<s, p>> = <<e[1], Renamed(from, to, e[2])>>
              BY <6>4
            <7>2. e[2] \in Patterns /\ e = <<s, e[2]>> /\ p = Renamed(from, to, e[2])
              BY <6>1, <7>1
            <7>3. <<s, e[2]>> \in locs[from]
              BY <7>2
            <7> QED
              BY <6>3, <7>2, <7>3
          <6>5. ASSUME NEW q \in act[s], q.name = from, p = Renamed(from, to, q)
                PROVE  <<s, p>> \in {<<e[1], Renamed(from, to, e[2])>> : e \in locs[from]}
            <7>1. <<s, q>> \in locs[from]
              BY <6>2, <6>5
            <7> QED
              BY <6>5, <7>1
          <6> QED
            BY <6>4, <6>5
        <5>3. <<s, p>> \in locs[to] <=> p \in act[s] /\ p.name = to
          BY <1>2, <4>1
        <5>4. p \in act'[s] /\ p.name = to <=>
                 \/ p \in act[s] /\ p.name = to
                 \/ \E q \in act[s] : q.name = from /\ p = Renamed(from, to, q)
          BY <1>1, <2>2, <4>2, <4>3
        <5> QED
          BY <4>5, <5>1, <5>2, <5>3, <5>4
      <4>6. CASE n # from /\ n # to
        <5>1. locs'[n] = locs[n]
          BY <2>1, <4>6 DEF TypeOK
        <5>2. p \in act'[s] /\ p.name = n <=> p \in act[s] /\ p.name = n
          BY <2>2, <4>2, <4>3, <4>6
        <5> QED
          BY <4>1, <5>1, <5>2
      <4> QED
        BY <4>4, <4>5, <4>6
    <3>2. ASSUME NEW n \in Names, locs'[n] # {}
          PROVE  status'[n] = "work"
      <4>1. \A m \in Names : locs[m] # {} => status[m] = "work"
        BY DEF StoreInv, IndexAgree
      <4>2. n # from
        BY <1>1, <1>2, <2>1, <3>2 DEF TypeOK
      <4>3. CASE n = to /\ from \in entries
        BY <1>1, <1>2, <2>1, <4>3 DEF TypeOK
      <4>4. CASE n = to /\ from \notin entries
        <5>1. locs[from] = {}
          BY <1>2, <2>7, <4>1, <4>4
        <5>2. locs'[to] = locs[to]
          BY <1>1, <1>2, <2>1, <5>1 DEF TypeOK
        <5>3. status[to] = "work"
          BY <1>2, <3>2, <4>1, <4>4, <5>2
        <5> QED
          BY <1>1, <1>2, <2>1, <4>4, <5>3 DEF TypeOK
      <4>5. CASE n # to
        BY <2>1, <3>2, <4>1, <4>2, <4>5 DEF TypeOK
      <4> QED
        BY <4>3, <4>4, <4>5
    <3> QED
      BY <3>1, <3>2 DEF IndexAgree
  <2>14. OwnersDisjoint'
    <3>1. ASSUME NEW s \in SampleIds, NEW p \in act'[s], NEW q \in act'[s],
                 NEW l \in truth[p.name], NEW m \in truth[q.name], At(p, l) = At(q, m)
          PROVE  p = q /\ l = m
      <4>1. PICK p0 \in act[s] : p = Renamed(from, to, p0)
        BY <2>1
      <4>2. PICK q0 \in act[s] : q = Renamed(from, to, q0)
        BY <2>1
      <4>3. p0 \in Patterns /\ q0 \in Patterns
        BY <1>16
      <4>4. truth[p0.name] = truth[p.name] /\ truth[q0.name] = truth[q.name]
        BY <1>1, <2>2, <4>1, <4>2, <4>3
      <4>5. At(p0, l) = At(q0, m)
        BY <2>2, <3>1, <4>1, <4>2, <4>3
      <4>6. p0 = q0 /\ l = m
        BY <4>4, <4>5 DEF StoreInv, OwnersDisjoint, Disjoint
      <4> QED
        BY <4>1, <4>2, <4>6
    <3> QED
      BY <1>12, <3>1 DEF OwnersDisjoint, Disjoint
  <2>15. Unused'
    BY <1>12, <2>1 DEF StoreInv, Unused
  <2> QED
    BY <1>15, <2>6, <2>8, <2>9, <2>12, <2>13, <2>14, <2>15 DEF StoreInv
<1> QED
  BY <1>18, <1>19

-----------------------------------------------------------------------------
(* The steps of process().                                                 *)

\* The true owner of a residual bit is always among its candidates.
LEMMA OwnerIsCandidate ==
    ASSUME TypeOK, StoreInv, NEW s \in 1..stored, NEW b \in diff[s]
    PROVE  \E p \in act[s] : \E l \in truth[p.name] \ known[p.name] :
              /\ p.name \in Names
              /\ At(p, l) = b
              /\ <<p, l>> \in Cands(s, b)
<1>1. diff[s] = Owed(truth, known, act[s])
  BY DEF StoreInv, Explained
<1>2. PICK p \in act[s] : b \in Image(p, truth[p.name] \ known[p.name])
  BY <1>1 DEF Owed
<1>3. PICK l \in truth[p.name] \ known[p.name] : b = At(p, l)
  BY <1>2 DEF Image
<1>4. s \in SampleIds /\ p \in Patterns /\ p.name \in Names
  BY PatternName, MaxSamplesNat DEF TypeOK, SampleIds
<1>5. l \in LocalBits(p.name)
  BY <1>4, TruthLocal
<1>6. ASSUME NEW e \in locs[p.name]
      PROVE  At(e[2], l) \in diff[e[1]]
  <2>1. e \in SampleIds \X Patterns
    BY <1>4 DEF TypeOK
  <2>2. e[2] \in act[e[1]] /\ e[2].name = p.name
    BY <1>4, <2>1 DEF StoreInv, IndexAgree
  <2>3. e[1] \in 1..stored
    BY <2>1, <2>2 DEF StoreInv, Unused, TypeOK, SampleIds
  <2>4. diff[e[1]] = Owed(truth, known, act[e[1]])
    BY <2>3 DEF StoreInv, Explained
  <2> QED
    BY <2>2, <2>4 DEF Owed, Image
<1>7. Possible(p.name, l)
  BY <1>6 DEF Possible
<1>8. <<p, l>> \in Cands(s, b)
  BY <1>3, <1>5, <1>7 DEF Cands
<1> QED
  BY <1>3, <1>4, <1>8

LEMMA CandType ==
    ASSUME TypeOK, NEW s \in SampleIds, NEW b, NEW c \in Cands(s, b)
    PROVE  /\ c = <<c[1], c[2]>>
           /\ c[1] \in act[s]
           /\ c[1].name \in Names
           /\ c[2] \in AllLocalBits
           /\ At(c[1], c[2]) = b
<1>1. PICK p \in act[s] : \E l \in LocalBits(p.name) : c = <<p, l>> /\ At(p, l) = b
  BY DEF Cands
<1>2. p.name \in Names
  BY PatternName DEF TypeOK
<1> QED
  BY <1>1, <1>2, TruthLocal

\* A duo of candidates contains the owner; a trio contains it only once.
LEMMA DuoTrue ==
    ASSUME TypeOK, StoreInv, NEW s \in 1..stored, NEW b \in diff[s],
           NEW x \in PairsOf(Cands(s, b))
    PROVE  /\ x \in Names \X Names \X AllLocalBits
           /\ x[3] \in truth[x[1]] \/ x[3] \in truth[x[2]]
<1> DEFINE C == Cands(s, b)
<1>0. s \in SampleIds
  BY MaxSamplesNat DEF TypeOK, SampleIds
<1>1. PICK y \in C \X C : /\ C = {y[1], y[2]} /\ OneSlot(C)
                          /\ x = <<y[1][1].name, y[2][1].name, y[1][2]>>
  BY DEF PairsOf
<1>2. PICK p \in act[s] : \E l \in truth[p.name] \ known[p.name] : <<p, l>> \in C
  BY OwnerIsCandidate
<1>3. PICK l \in truth[p.name] \ known[p.name] : <<p, l>> \in C
  BY <1>2
<1>4. y[1] \in C /\ y[2] \in C /\ y[1][2] = l
  BY <1>1, <1>3 DEF OneSlot
<1>5. <<p, l>> = y[1] \/ <<p, l>> = y[2]
  BY <1>1, <1>3
<1>6. /\ y[1][1].name \in Names /\ y[1][2] \in AllLocalBits
      /\ y[2][1].name \in Names
  BY <1>0, <1>4, CandType
<1>7. x \in Names \X Names \X AllLocalBits
  BY <1>1, <1>6
<1>8. x[1] = y[1][1].name /\ x[2] = y[2][1].name /\ x[3] = l
  BY <1>1, <1>4
<1>9. y[1][1] = p \/ y[2][1] = p
  BY <1>5
<1> QED
  BY <1>7, <1>8, <1>9

LEMMA TrioTrue ==
    ASSUME TypeOK, StoreInv, NEW s \in 1..stored, NEW b \in diff[s],
           NEW t \in TriplesOf(Cands(s, b))
    PROVE  /\ t \in Names \X Names \X Names \X AllLocalBits
           /\ ~(t[4] \in truth[t[1]] /\ t[4] \in truth[t[2]])
           /\ ~(t[4] \in truth[t[1]] /\ t[4] \in truth[t[3]])
           /\ ~(t[4] \in truth[t[2]] /\ t[4] \in truth[t[3]])
<1> DEFINE C == Cands(s, b)
<1>0. s \in SampleIds
  BY MaxSamplesNat DEF TypeOK, SampleIds
<1>1. PICK y \in C \X C \X C :
          /\ y[1] # y[2] /\ y[1] # y[3] /\ y[2] # y[3]
          /\ OneSlot(C)
          /\ t = <<y[1][1].name, y[2][1].name, y[3][1].name, y[1][2]>>
  BY DEF TriplesOf
<1>2. y[1] \in C /\ y[2] \in C /\ y[3] \in C
  BY <1>1
<1>3. y[1][2] = y[2][2] /\ y[1][2] = y[3][2]
  BY <1>1, <1>2 DEF OneSlot
<1>4. \A c \in C : /\ c = <<c[1], c[2]>> /\ c[1] \in act[s] /\ c[1].name \in Names
                   /\ c[2] \in AllLocalBits /\ At(c[1], c[2]) = b
  BY <1>0, CandType
<1>5. ASSUME NEW c \in C, NEW d \in C, c # d, c[2] = d[2],
             c[2] \in truth[c[1].name], c[2] \in truth[d[1].name]
      PROVE  FALSE
  <2>1. Disjoint(act[s])
    BY <1>0 DEF StoreInv, OwnersDisjoint
  <2>2. c[1] \in act[s] /\ d[1] \in act[s] /\ At(c[1], c[2]) = At(d[1], c[2])
    BY <1>4, <1>5
  <2>3. c[1] = d[1]
    BY <1>5, <2>1, <2>2 DEF Disjoint
  <2>4. c = <<c[1], c[2]>> /\ d = <<d[1], d[2]>>
    BY <1>4
  <2> QED
    BY <1>5, <2>3, <2>4
<1>6. /\ t[1] = y[1][1].name /\ t[2] = y[2][1].name /\ t[3] = y[3][1].name
      /\ t[4] = y[1][2]
  BY <1>1
<1>7. t \in Names \X Names \X Names \X AllLocalBits
  BY <1>1, <1>2, <1>4
<1>8. ~(t[4] \in truth[t[1]] /\ t[4] \in truth[t[2]])
  BY <1>1, <1>2, <1>3, <1>5, <1>6
<1>9. ~(t[4] \in truth[t[1]] /\ t[4] \in truth[t[3]])
  BY <1>1, <1>2, <1>3, <1>5, <1>6
<1>10. ~(t[4] \in truth[t[2]] /\ t[4] \in truth[t[3]])
  BY <1>1, <1>2, <1>3, <1>5, <1>6
<1> QED
  BY <1>7, <1>8, <1>9, <1>10

LEMMA ScanOnly ==
    ASSUME StoreInv, UNCHANGED <<world, store>>
    PROVE  /\ StoreInv'
           /\ UNCHANGED <<truth, status, known, single, locs, stored, diff, act, pending>>
  BY DEF world, store, StoreInv, Sound, Exact, Explained,
     IndexAgree, OwnersDisjoint, Unused, AbsentEmpty, SinglesTrue, Disjoint

LEMMA RoundStep ==
    ASSUME IInv, BeginRound, UNCHANGED <<world, store>>
    PROVE  IInv'
<1> USE DEF IInv
<1>1. /\ StoreInv'
      /\ UNCHANGED <<truth, status, known, single, locs, stored, diff, act, pending>>
  BY ScanOnly
<1>2. TypeOK'
  BY <1>1 DEF TypeOK, BeginRound
<1>3. ScanInv' /\ NeverFails'
  BY <1>1 DEF ScanInv, NeverFails, BeginRound
<1> QED
  BY <1>1, <1>2, <1>3

LEMMA PickStep ==
    ASSUME IInv, NEW s \in SampleIds, PickSample(s)
    PROVE  IInv'
<1> USE DEF IInv
<1>1. /\ StoreInv'
      /\ UNCHANGED <<truth, status, known, single, locs, stored, diff, act, pending>>
  BY ScanOnly DEF PickSample
<1>2. TypeOK'
  BY <1>1 DEF TypeOK, PickSample, SampleIds
<1>3. ScanInv' /\ NeverFails'
  BY <1>1 DEF TypeOK, ScanInv, NeverFails, PickSample
<1> QED
  BY <1>1, <1>2, <1>3

LEMMA JudgeStep ==
    ASSUME IInv, NEW b \in DeviceBits, Judge(b)
    PROVE  IInv'
<1> DEFINE C == Cands(cur, b)
<1> USE DEF IInv
<1>1. pc = "judge" /\ cur \in pending /\ cur \in 1..stored /\ cur \in SampleIds
  BY MaxSamplesNat DEF Judge, ScanInv, TypeOK, SampleIds
<1>2. CASE b \notin diff[cur]
  <2>1. /\ bits' = bits \ {b}
        /\ UNCHANGED <<world, store, pc, todo, cur, changed, pairs, triples, ded>>
    BY <1>2 DEF Judge
  <2>2. /\ StoreInv'
        /\ UNCHANGED <<truth, status, known, single, locs, stored, diff, act, pending>>
    BY <2>1, ScanOnly
  <2> QED
    BY <2>1, <2>2 DEF TypeOK, ScanInv, NeverFails
<1>3. CASE b \in diff[cur]
  <2>1. PICK p \in act[cur] : \E l \in truth[p.name] \ known[p.name] :
                                 p.name \in Names /\ <<p, l>> \in C
    BY <1>1, <1>3, OwnerIsCandidate
  <2>2. PICK l \in truth[p.name] \ known[p.name] : p.name \in Names /\ <<p, l>> \in C
    BY <2>1
  <2>3. CASE ~IsSingle(C)
    <3>1. /\ bits' = bits \ {b}
          /\ pairs' = pairs \/ \E x \in PairsOf(C) : pairs' = pairs \cup {x}
          /\ triples' = triples \/ \E x \in TriplesOf(C) : triples' = triples \cup {x}
          /\ UNCHANGED <<world, store, pc, todo, cur, changed, ded>>
      BY <1>3, <2>2, <2>3 DEF Judge
    <3>2. /\ StoreInv'
          /\ UNCHANGED <<truth, status, known, single, locs, stored, diff, act, pending>>
      BY <3>1, ScanOnly
    <3>3. /\ pairs' \subseteq Names \X Names \X AllLocalBits
          /\ \A x \in pairs' : x[3] \in truth[x[1]] \/ x[3] \in truth[x[2]]
      BY <1>1, <1>3, <3>1, DuoTrue DEF TypeOK, ScanInv
    <3>4. /\ triples' \subseteq Names \X Names \X Names \X AllLocalBits
          /\ \A t \in triples' :
                /\ ~(t[4] \in truth[t[1]] /\ t[4] \in truth[t[2]])
                /\ ~(t[4] \in truth[t[1]] /\ t[4] \in truth[t[3]])
                /\ ~(t[4] \in truth[t[2]] /\ t[4] \in truth[t[3]])
      BY <1>1, <1>3, <3>1, TrioTrue DEF TypeOK, ScanInv
    <3>5. TypeOK'
      BY <3>1, <3>2, <3>3, <3>4 DEF TypeOK
    <3>6. ScanInv' /\ NeverFails'
      BY <3>1, <3>2, <3>3, <3>4 DEF ScanInv, NeverFails
    <3> QED
      BY <3>2, <3>5, <3>6
  <2>4. CASE IsSingle(C)
    <3>1. C = {<<p, l>>}
      BY <2>2, <2>4 DEF IsSingle
    <3>2. KnownBitOk(p.name, l)
      BY <2>2, KnownBitStep
    <3>3. \E c \in C : IF KnownBitOk(c[1].name, c[2])
            THEN /\ AddKnownBit(c[1].name, c[2])
                 /\ bits' = bits \ {b}
                 /\ changed' = TRUE
                 /\ UNCHANGED <<world, pc, todo, cur, pairs, triples, ded>>
            ELSE Panic
      BY <1>3, <2>2, <2>4 DEF Judge
    <3>4. PICK c \in C : IF KnownBitOk(c[1].name, c[2])
            THEN /\ AddKnownBit(c[1].name, c[2])
                 /\ bits' = bits \ {b}
                 /\ changed' = TRUE
                 /\ UNCHANGED <<world, pc, todo, cur, pairs, triples, ded>>
            ELSE Panic
      BY <3>3
    <3>5. c[1] = p /\ c[2] = l
      BY <3>1
    <3>6. /\ AddKnownBit(p.name, l)
          /\ bits' = bits \ {b}
          /\ changed' = TRUE
          /\ UNCHANGED <<truth, pc, todo, cur, pairs, triples, ded>>
      BY <3>2, <3>4, <3>5 DEF world
    <3>7. /\ StoreInv'
          /\ status' \in [Names -> {"absent", "work", "known"}]
          /\ known' \in [Names -> SUBSET AllLocalBits]
          /\ diff' \in [SampleIds -> SUBSET DeviceBits]
          /\ UNCHANGED <<single, locs, stored, act, pending>>
      BY <2>2, <3>6, KnownBitStep
    <3>8. TypeOK'
      BY <3>6, <3>7 DEF TypeOK
    <3> QED
      BY <3>6, <3>7, <3>8 DEF ScanInv, NeverFails
  <2> QED
    BY <2>3, <2>4
<1> QED
  BY <1>2, <1>3

\* The patterns a sample shows to be complete are.
LEMMA CompleteTrue ==
    ASSUME TypeOK, StoreInv, NEW s \in 1..stored
    PROVE  /\ Complete(s) \in SUBSET Names
           /\ \A n \in Complete(s) : known[n] = truth[n]
<1>0. s \in SampleIds /\ act[s] \subseteq Patterns /\ \A p \in act[s] : p.name \in Names
  BY MaxSamplesNat, PatternName DEF TypeOK, SampleIds
<1>1. diff[s] = Owed(truth, known, act[s])
  BY DEF StoreInv, Explained
<1>2. ASSUME NEW p \in act[s], NEW l \in truth[p.name] \ known[p.name]
      PROVE  At(p, l) \in diff[s]
  BY <1>1 DEF Owed, Image
<1>3. \A n \in Names : known[n] \subseteq truth[n]
  BY DEF StoreInv, Sound
<1>4. CASE diff[s] = {}
  <2>1. \A p \in act[s] : p.name \in Names /\ known[p.name] = truth[p.name]
    BY <1>0, <1>2, <1>3, <1>4
  <2>2. Complete(s) = {p.name : p \in act[s]}
    BY <1>4 DEF Complete
  <2> QED
    BY <2>1, <2>2
<1>5. CASE diff[s] # {}
  <2>1. ASSUME NEW p \in act[s], p.name \in Tiled, \A b \in diff[s] : b[1] \notin TilesOf(p),
               NEW l \in truth[p.name] \ known[p.name]
        PROVE  FALSE
    <3>1. At(p, l) \in diff[s]
      BY <1>2
    <3>2. p.name \notin Global
      BY <2>1, NamesDisjoint
    <3>3. At(p, l) = <<p.tiles[l[1]], l[2]>>
      BY <3>2 DEF At
    <3>4. PICK n \in Tiled : \E t \in Places[n] : p = [name |-> n, tiles |-> t]
      BY <1>0, <3>2 DEF Patterns
    <3>5. p.tiles \in Places[n] /\ p.name = n
      BY <3>4
    <3>6. l \in LocalBits(n)
      BY <1>0, <3>5, TruthLocal
    <3>7. l[1] \in Slots(n)
      BY <3>2, <3>5, <3>6 DEF LocalBits
    <3>8. l[1] \in DOMAIN p.tiles
      BY <3>5, <3>7, PlacesFit
    <3>9. p.tiles[l[1]] \in TilesOf(p)
      BY <3>8 DEF TilesOf
    <3>10. At(p, l)[1] = p.tiles[l[1]]
      BY <3>3
    <3> QED
      BY <2>1, <3>1, <3>9, <3>10
  <2>2. ASSUME NEW n \in Complete(s)
        PROVE  n \in Names /\ known[n] = truth[n]
    <3>1. PICK p \in act[s] : /\ p.name = n /\ p.name \in Tiled
                              /\ \A b \in diff[s] : b[1] \notin TilesOf(p)
      BY <1>5 DEF Complete
    <3>2. truth[n] \subseteq known[n]
      BY <2>1, <3>1
    <3> QED
      BY <1>0, <1>3, <3>1, <3>2
  <2> QED
    BY <2>2
<1> QED
  BY <1>4, <1>5

LEMMA FinishSampleStep ==
    ASSUME IInv, FinishSample
    PROVE  IInv'
<1> DEFINE Q == Complete(cur)
<1> USE DEF IInv
<1>1. pc = "judge" /\ cur \in pending /\ cur \in 1..stored /\ cur \in SampleIds
  BY MaxSamplesNat DEF FinishSample, ScanInv, TypeOK, SampleIds
<1>2. Q \in SUBSET Names /\ \A n \in Q : known[n] = truth[n]
  BY <1>1, CompleteTrue
<1> HIDE DEF Q
<1>3. CanFinish(Q, known)
  BY <1>2, FinishAllowed
<1>4. ASSUME diff[cur] # {} PROVE ActWithout(Q)[cur] # {}
  <2>1. PICK b \in diff[cur] : TRUE
    BY <1>4
  <2>2. PICK p \in act[cur] : \E l \in truth[p.name] \ known[p.name] : p.name \in Names
    BY <1>1, OwnerIsCandidate
  <2>3. p.name \notin Q
    BY <1>2, <2>2
  <2>4. p \in ActWithout(Q)[cur]
    BY <1>1, <1>2, <2>3, ActWithoutIs
  <2> QED
    BY <2>4
<1>5. /\ Finished(Q)
      /\ pending' = IF diff[cur] = {} THEN pending \ {cur} ELSE pending
      /\ changed' = (changed \/ diff[cur] = {} \/ Q # {})
      /\ pc' = "scan"
      /\ todo' = todo \ {cur}
      /\ UNCHANGED <<truth, known, stored, diff, cur, bits, pairs, triples, ded>>
  BY <1>3, <1>4 DEF FinishSample, Q, world
<1>6. New({}) /\ \A k \in {} : k[1] \in Q
  BY DEF New
<1>7. known' = KnownWith({}) /\ diff' = DiffWithout({})
  BY <1>5, KnownWithNone, DiffWithoutNone
<1>8. \A n \in Q : KnownWith({})[n] = truth[n]
  BY <1>2, KnownWithNone
<1>9. /\ StoreInv'
      /\ status' \in [Names -> {"absent", "work", "known"}]
      /\ known' \in [Names -> SUBSET AllLocalBits]
      /\ single' \in [Names -> BOOLEAN]
      /\ locs' \in [Names -> SUBSET (SampleIds \X Patterns)]
      /\ diff' \in [SampleIds -> SUBSET DeviceBits]
      /\ act' \in [SampleIds -> SUBSET Patterns]
  BY <1>2, <1>5, <1>6, <1>7, <1>8, FinishStep
<1>10. changed' \in BOOLEAN
  BY <1>5
<1>11. TypeOK'
  BY <1>5, <1>9, <1>10 DEF TypeOK
<1>12. ScanInv' /\ NeverFails'
  BY <1>5 DEF ScanInv, NeverFails
<1> QED
  BY <1>9, <1>11, <1>12

LEMMA EndScanStep ==
    ASSUME IInv, EndScan
    PROVE  IInv'
<1> USE DEF IInv
<1>1. /\ StoreInv'
      /\ UNCHANGED <<truth, status, known, single, locs, stored, diff, act, pending>>
  BY ScanOnly DEF EndScan
<1>2. \A d \in Deductions : d[2] \in truth[d[1]]
  BY DEF Deductions, Paired, ScanInv
<1>3. Deductions \subseteq Names \X AllLocalBits
  BY DEF Deductions
<1>4. TypeOK'
  BY <1>1, <1>3 DEF TypeOK, EndScan
<1>5. ScanInv' /\ NeverFails'
  BY <1>1, <1>2 DEF ScanInv, NeverFails, EndScan
<1> QED
  BY <1>1, <1>4, <1>5

LEMMA ApplyTripleStep ==
    ASSUME IInv, NEW n \in Names, NEW l \in AllLocalBits, ApplyTriple(n, l)
    PROVE  IInv'
<1> USE DEF IInv
<1>1. l \in truth[n]
  <2>1. <<n, l>> \in ded
    BY DEF ApplyTriple
  <2> QED
    BY <2>1 DEF ScanInv
<1>2. KnownBitOk(n, l)
  BY <1>1, KnownBitStep
<1>3. /\ AddKnownBit(n, l)
      /\ ded' = ded \ {<<n, l>>}
      /\ UNCHANGED <<truth, pc, todo, cur, bits, changed, pairs, triples>>
  BY <1>2 DEF ApplyTriple, world
<1>4. /\ StoreInv'
      /\ status' \in [Names -> {"absent", "work", "known"}]
      /\ known' \in [Names -> SUBSET AllLocalBits]
      /\ diff' \in [SampleIds -> SUBSET DeviceBits]
      /\ UNCHANGED <<single, locs, stored, act, pending>>
  BY <1>1, <1>3, KnownBitStep
<1>5. TypeOK'
  BY <1>3, <1>4 DEF TypeOK
<1> QED
  BY <1>3, <1>4, <1>5 DEF ScanInv, NeverFails

LEMMA EndRoundStep ==
    ASSUME IInv, EndRound
    PROVE  IInv'
<1> DEFINE Q == SinglesFound
<1> USE DEF IInv
<1>1. Q \in SUBSET Names /\ \A n \in Q : known[n] = truth[n]
  BY DEF SinglesFound, IsSingle, StoreInv, Sound, SinglesTrue
<1> HIDE DEF Q
<1>2. CanFinish(Q, known)
  BY <1>1, FinishAllowed
<1>3. /\ Finished(Q)
      /\ UNCHANGED <<truth, known, stored, diff, pending>>
      /\ \/ BeginRound
         \/ pc' = "idle" /\ UNCHANGED <<todo, cur, bits, changed, pairs, triples, ded>>
  BY <1>2 DEF EndRound, Q, world
<1>4. New({}) /\ \A k \in {} : k[1] \in Q
  BY DEF New
<1>5. known' = KnownWith({}) /\ diff' = DiffWithout({})
  BY <1>3, KnownWithNone, DiffWithoutNone
<1>6. \A n \in Q : KnownWith({})[n] = truth[n]
  BY <1>1, KnownWithNone
<1>7. /\ StoreInv'
      /\ status' \in [Names -> {"absent", "work", "known"}]
      /\ known' \in [Names -> SUBSET AllLocalBits]
      /\ single' \in [Names -> BOOLEAN]
      /\ locs' \in [Names -> SUBSET (SampleIds \X Patterns)]
      /\ diff' \in [SampleIds -> SUBSET DeviceBits]
      /\ act' \in [SampleIds -> SUBSET Patterns]
  BY <1>1, <1>3, <1>4, <1>5, <1>6, FinishStep
<1>8. TypeOK'
  BY <1>3, <1>7 DEF TypeOK, BeginRound
<1>9. ScanInv' /\ NeverFails'
  BY <1>3 DEF ScanInv, NeverFails, BeginRound
<1> QED
  BY <1>7, <1>8, <1>9

-----------------------------------------------------------------------------
(* The theorems.                                                           *)

LEMMA InitInv == Init => IInv
<1> SUFFICES ASSUME Init PROVE IInv
  OBVIOUS
<1>1. TypeOK
  <2>1. /\ stored \in 0..MaxSamples
        /\ pending \subseteq 1..stored
        /\ cur \in 0..stored
    BY MaxSamplesNat DEF Init
  <2>2. /\ status \in [Names -> {"absent", "work", "known"}]
        /\ known \in [Names -> SUBSET AllLocalBits]
        /\ single \in [Names -> BOOLEAN]
        /\ locs \in [Names -> SUBSET (SampleIds \X Patterns)]
    BY DEF Init
  <2>3. /\ diff \in [SampleIds -> SUBSET DeviceBits]
        /\ act \in [SampleIds -> SUBSET Patterns]
    BY DEF Init
  <2>4. /\ truth \in Truths
        /\ pc \in {"idle", "scan", "judge", "triples", "failed"}
        /\ todo \subseteq pending
        /\ bits \subseteq DeviceBits
        /\ changed \in BOOLEAN
        /\ pairs \subseteq Names \X Names \X AllLocalBits
        /\ triples \subseteq Names \X Names \X Names \X AllLocalBits
        /\ ded \subseteq Names \X AllLocalBits
    BY DEF Init
  <2> QED
    BY <2>1, <2>2, <2>3, <2>4 DEF TypeOK
<1>2. Sound /\ Exact /\ IndexAgree /\ OwnersDisjoint /\ Unused /\ AbsentEmpty /\ SinglesTrue
  BY DEF Init, Sound, Exact, IndexAgree, OwnersDisjoint, Disjoint, Unused, AbsentEmpty,
     SinglesTrue
<1>3. Explained
  BY DEF Init, Explained
<1>4. ScanInv /\ NeverFails
  BY DEF Init, ScanInv, NeverFails
<1> QED
  BY <1>1, <1>2, <1>3, <1>4 DEF IInv, StoreInv

LEMMA NextInv == IInv /\ [Next]_vars => IInv'
<1> SUFFICES ASSUME IInv, [Next]_vars PROVE IInv'
  OBVIOUS
<1>1. CASE \E n \in Names : Want(n)
  BY <1>1, WantStep
<1>2. CASE \E n \in Names : ForceBits(n)
  BY <1>2, ForceStep
<1>3. CASE \E P \in Designs : AddSample(P)
  BY <1>3, AddSampleStep
<1>4. CASE \E from, to \in Global : RenameGlobal(from, to)
  BY <1>4, RenameStep
<1>5. CASE Process
  BY <1>5, RoundStep DEF Process
<1>6. CASE ProcessStep
  BY <1>6, PickStep, JudgeStep, FinishSampleStep, EndScanStep, ApplyTripleStep, EndRoundStep
  DEF ProcessStep
<1>7. CASE UNCHANGED vars
  BY <1>7, StutterStep
<1> QED
  BY <1>1, <1>2, <1>3, <1>4, <1>5, <1>6, <1>7 DEF Next

\* For every device, every choice of names, tile lists and designs and any
\* number of samples, the invariant holds at every step of every operation.
THEOREM Invariance == Spec => []IInv
  BY InitInv, NextInv, PTL DEF Spec

\* The state always has its type.
THEOREM TypeCorrect == Spec => []TypeOK
<1>1. IInv => TypeOK
  BY DEF IInv
<1> QED
  BY <1>1, Invariance, PTL

\* Every bit credited to a name is its own (add_known_bit_*, the triple rule).
THEOREM DeductionSound == Spec => []Sound
<1>1. IInv => Sound
  BY DEF IInv, StoreInv
<1> QED
  BY <1>1, Invariance, PTL

\* A name declared known has all of its bits (the finishing rules).
THEOREM DeductionExact == Spec => []Exact
<1>1. IInv => Exact
  BY DEF IInv, StoreInv
<1> QED
  BY <1>1, Invariance, PTL

\* The bits left in a sample are those its waiting patterns owe.
THEOREM SamplesExplained == Spec => []Explained
<1>1. IInv => Explained
  BY DEF IInv, StoreInv
<1> QED
  BY <1>1, Invariance, PTL

\* locs and the samples' pattern sets never fall out of step.
THEOREM IndicesAgree == Spec => []IndexAgree
<1>1. IInv => IndexAgree
  BY DEF IInv, StoreInv
<1> QED
  BY <1>1, Invariance, PTL

\* No assert and no fail() of the engine is reachable on samples of a device.
THEOREM NoPanic == Spec => []NeverFails
<1>1. IInv => NeverFails
  BY DEF IInv
<1> QED
  BY <1>1, Invariance, PTL
-----------------------------------------------------------------------------
(* The engine implements the oracle.                                       *)

\* A step that forgets nothing.
Grows ==
    /\ truth' = truth
    /\ \A n \in Names : known[n] \subseteq known'[n]
    /\ \A n \in Names : status[n] = "known" => status'[n] = "known"

LEMMA StoreGrows ==
    ASSUME UNCHANGED store, UNCHANGED world
    PROVE  Grows
  BY DEF Grows, store, world

LEMMA FinishedGrows ==
    ASSUME IInv, NEW Q, Finished(Q), UNCHANGED <<truth, known>>
    PROVE  Grows
  BY DEF Grows, Finished

LEMMA KnownBitGrows ==
    ASSUME IInv, NEW n \in Names, NEW l, AddKnownBit(n, l), UNCHANGED world
    PROVE  Grows
<1>1. CASE UNCHANGED store
  BY <1>1, StoreGrows
<1>2. CASE /\ ~(status[n] = "known" \/ l \in known[n])
           /\ status' = [status EXCEPT ![n] = "work"]
           /\ known' = [known EXCEPT ![n] = @ \cup {l}]
  <2>1. truth' = truth
    BY DEF world
  <2>2. \A m \in Names : known[m] \subseteq known'[m]
    BY <1>2 DEF IInv, TypeOK
  <2>3. \A m \in Names : status[m] = "known" => status'[m] = "known"
    BY <1>2 DEF IInv, TypeOK
  <2> QED
    BY <2>1, <2>2, <2>3 DEF Grows
<1> QED
  BY <1>1, <1>2 DEF AddKnownBit

LEMMA PanicGrows == ASSUME Panic PROVE Grows
  BY StoreGrows DEF Panic

LEMMA WantGrows == ASSUME IInv, NEW n \in Names, Want(n) PROVE Grows
  BY DEF Want, world, Grows, IInv, TypeOK

LEMMA ForceGrows == ASSUME IInv, NEW n \in Names, ForceBits(n) PROVE Grows
<1>1. CASE UNCHANGED vars
  BY <1>1, StoreGrows DEF vars
<1>2. CASE Panic
  BY <1>2, PanicGrows
<1>3. CASE /\ known' = KnownWith(Missing(n))
           /\ Finished({n})
           /\ UNCHANGED world
  <2>1. \A m \in Names : known[m] \subseteq known'[m]
    BY <1>3 DEF KnownWith
  <2> QED
    BY <1>3, <2>1 DEF Grows, Finished, world
<1> QED
  BY <1>1, <1>2, <1>3 DEF ForceBits

LEMMA AddSampleGrows == ASSUME IInv, NEW P \in Designs, AddSample(P) PROVE Grows
<1> DEFINE waiting == {p \in P : status[p.name] # "known"}
           waitingNames == {p.name : p \in waiting}
<1>1. CASE UNCHANGED vars
  BY <1>1, StoreGrows DEF vars
<1>2. CASE Panic
  BY <1>2, PanicGrows
<1>3. CASE /\ status' = [n \in Names |-> IF n \in waitingNames THEN "work" ELSE status[n]]
           /\ UNCHANGED <<world, known, scan>>
  <2>1. \A n \in waitingNames : status[n] # "known"
    OBVIOUS
  <2> HIDE DEF waitingNames
  <2> QED
    BY <1>3, <2>1 DEF Grows, world
<1> QED
  BY <1>1, <1>2, <1>3 DEF AddSample

LEMMA ScanGrows == ASSUME IInv, ProcessStep PROVE Grows
<1>1. ASSUME NEW s \in SampleIds, PickSample(s) PROVE Grows
  BY <1>1, StoreGrows DEF PickSample
<1>2. ASSUME NEW b \in DeviceBits, Judge(b) PROVE Grows
  <2> DEFINE C == Cands(cur, b)
  <2>1. CASE UNCHANGED <<world, store>>
    BY <2>1, StoreGrows
  <2>2. CASE Panic
    BY <2>2, PanicGrows
  <2>3. CASE \E c \in C : AddKnownBit(c[1].name, c[2]) /\ UNCHANGED world
    <3>1. PICK c \in C : AddKnownBit(c[1].name, c[2]) /\ UNCHANGED world
      BY <2>3
    <3>2. c[1].name \in Names
      <4>1. cur \in pending /\ cur \in SampleIds
        BY <1>2, MaxSamplesNat DEF Judge, IInv, ScanInv, TypeOK, SampleIds
      <4>2. c[1] \in act[cur]
        BY <3>1 DEF Cands
      <4> QED
        BY <4>1, <4>2, PatternName DEF IInv, TypeOK
    <3> QED
      BY <3>1, <3>2, KnownBitGrows
  <2> QED
    BY <1>2, <2>1, <2>2, <2>3 DEF Judge
<1>3. ASSUME FinishSample PROVE Grows
  BY <1>3, PanicGrows, FinishedGrows DEF FinishSample, world
<1>4. ASSUME EndScan PROVE Grows
  BY <1>4, StoreGrows DEF EndScan
<1>5. ASSUME NEW n \in Names, NEW l \in AllLocalBits, ApplyTriple(n, l) PROVE Grows
  BY <1>5, PanicGrows, KnownBitGrows DEF ApplyTriple
<1>6. ASSUME EndRound PROVE Grows
  BY <1>6, PanicGrows, FinishedGrows DEF EndRound, world
<1> QED
  BY <1>1, <1>2, <1>3, <1>4, <1>5, <1>6 DEF ProcessStep

LEMMA GrowLearns == ASSUME IInv, IInv', Grows PROVE Oracle!Learn
<1>1. known' \in [Names -> SUBSET AllLocalBits]
  BY DEF IInv, TypeOK
<1>2. \A n \in Names : known'[n] \subseteq truth[n]
  BY DEF IInv, StoreInv, Sound, Grows
<1>3. \A n \in Names : status'[n] = "known" => known'[n] = truth[n]
  BY DEF IInv, StoreInv, Exact, Grows
<1> QED
  BY <1>1, <1>2, <1>3 DEF Oracle!Learn, Grows

LEMMA RenameMerges ==
    ASSUME IInv, NEW from \in Global, NEW to \in Global, RenameGlobal(from, to)
    PROVE  Oracle!Learn \/ Oracle!Merge(from, to)
<1> DEFINE merged == known[from] \cup known[to]
           anyKnown == \E n \in {from, to} : status[n] = "known"
<1>1. from # to /\ truth[from] = truth[to] /\ from \in Names /\ to \in Names
  BY DEF RenameGlobal, Names
<1>2. CASE Panic
  <2>1. IInv'
    BY RenameStep
  <2> QED
    BY <1>2, <2>1, PanicGrows, GrowLearns
<1>3. CASE /\ anyKnown
           /\ status' = [status EXCEPT ![from] = "absent", ![to] = "known"]
           /\ known' = [known EXCEPT ![from] = {}, ![to] = merged]
           /\ UNCHANGED world
  <2>1. {n \in Names : status'[n] = "known"}
           = ({n \in Names : status[n] = "known"} \ {from}) \cup {to}
    BY <1>1, <1>3 DEF IInv, TypeOK
  <2>2. {from, to} \cap {n \in Names : status[n] = "known"} # {}
    BY <1>1, <1>3
  <2> QED
    BY <1>1, <1>3, <2>1, <2>2 DEF Oracle!Merge, world
<1>4. CASE /\ ~anyKnown
           /\ \/ status' = [status EXCEPT ![from] = "absent", ![to] = "work"]
              \/ status' = [status EXCEPT ![from] = "absent", ![to] = @]
           /\ known' = [known EXCEPT ![from] = {}, ![to] = merged]
           /\ UNCHANGED world
  <2>1. {n \in Names : status'[n] = "known"}
           = {n \in Names : status[n] = "known"} \ {from}
    BY <1>1, <1>4 DEF IInv, TypeOK
  <2>2. {from, to} \cap {n \in Names : status[n] = "known"} = {}
    BY <1>1, <1>4
  <2> QED
    BY <1>1, <1>4, <2>1, <2>2 DEF Oracle!Merge, world
<1> QED
  BY <1>2, <1>3, <1>4 DEF RenameGlobal

LEMMA StepImplements ==
    IInv /\ IInv' /\ [Next]_vars => [Oracle!Next]_(Oracle!vars)
<1> SUFFICES ASSUME IInv, IInv', [Next]_vars PROVE [Oracle!Next]_(Oracle!vars)
  OBVIOUS
<1>1. CASE \E n \in Names : Want(n)
  BY <1>1, WantGrows, GrowLearns DEF Oracle!Next
<1>2. CASE \E n \in Names : ForceBits(n)
  BY <1>2, ForceGrows, GrowLearns DEF Oracle!Next
<1>3. CASE \E P \in Designs : AddSample(P)
  BY <1>3, AddSampleGrows, GrowLearns DEF Oracle!Next
<1>4. CASE \E from, to \in Global : RenameGlobal(from, to)
  BY <1>4, RenameMerges DEF Oracle!Next, Names
<1>5. CASE Process
  BY <1>5, StoreGrows, GrowLearns DEF Oracle!Next, Process
<1>6. CASE ProcessStep
  BY <1>6, ScanGrows, GrowLearns DEF Oracle!Next
<1>7. CASE UNCHANGED vars
  BY <1>7 DEF vars, world, store, Oracle!vars
<1> QED
  BY <1>1, <1>2, <1>3, <1>4, <1>5, <1>6, <1>7 DEF Next

LEMMA InitImplements == Init => Oracle!Init
<1> SUFFICES ASSUME Init PROVE Oracle!Init
  OBVIOUS
<1>1. truth \in [Names -> SUBSET AllLocalBits]
  BY TruthsFit DEF Init, AllLocalBits
<1>2. {n \in Names : status[n] = "known"} = {}
  BY DEF Init
<1> QED
  BY <1>1, <1>2 DEF Init, Oracle!Init

\* Every behaviour of the engine, seen through what it knows and what it calls
\* known, is a behaviour of the oracle its callers rely on.
THEOREM Implementation == Spec => ImplementsOracle
  BY InitImplements, StepImplements, Invariance, PTL DEF Spec, Oracle!Spec, ImplementsOracle
-----------------------------------------------------------------------------
(* When process() returns there is nothing left to find.                   *)

Undecided(s, b) == Cands(s, b) # {} /\ ~IsSingle(Cands(s, b))

\* One more scan of s would find nothing.
Quiet(s) ==
    /\ \A b \in diff[s] : Undecided(s, b)
    /\ diff[s] # {}
    /\ Complete(s) = {}

\* As long as a round has found nothing, its verdicts are about the samples as
\* they are; the triple rule, which does not report, is the exception.
QuietInv ==
    /\ pc \in {"scan", "judge"} /\ ~changed => \A s \in pending \ todo : Quiet(s)
    /\ pc = "judge" /\ ~changed => \A b \in diff[cur] \ bits : Undecided(cur, b)
    /\ pc = "triples" /\ ~changed /\ Deductions = {} =>
          ded = {} /\ \A s \in pending : Quiet(s)

\* The verdicts read the stored samples and indices, and nothing else.
LEMMA QuietSame ==
    ASSUME UNCHANGED <<locs, diff, act>>, NEW s
    PROVE  /\ \A b : Undecided(s, b)' <=> Undecided(s, b)
           /\ Quiet(s)' <=> Quiet(s)
  BY DEF Quiet, Undecided, Cands, Possible, Complete, IsSingle, At

LEMMA DeductionsSame ==
    ASSUME UNCHANGED <<pairs, triples>>
    PROVE  Deductions' = Deductions
  BY DEF Deductions, Paired

\* Finishing nobody changes nothing.
LEMMA FinishNobody ==
    ASSUME TypeOK, Finished({})
    PROVE  UNCHANGED <<status, single, locs, act>>
  BY DEF TypeOK, Finished, ActWithout

LEMMA QuietRound == ASSUME BeginRound, UNCHANGED pending PROVE QuietInv'
  BY DEF BeginRound, QuietInv

LEMMA QuietAway == ASSUME pc' \in {"idle", "failed"} PROVE QuietInv'
  BY DEF QuietInv

LEMMA QuietPick ==
    ASSUME IInv, QuietInv, NEW s \in SampleIds, PickSample(s)
    PROVE  QuietInv'
<1>1. /\ pc = "scan" /\ pc' = "judge" /\ cur' = s /\ bits' = diff[s]
      /\ UNCHANGED <<locs, diff, act, pending, todo, changed>>
  BY DEF PickSample, store
<1>2. ~changed' => \A x \in pending' \ todo' : Quiet(x)'
  BY <1>1, QuietSame DEF QuietInv
<1>3. diff'[cur'] \ bits' = {}
  BY <1>1
<1> QED
  BY <1>1, <1>2, <1>3 DEF QuietInv

LEMMA QuietJudge ==
    ASSUME IInv, QuietInv, NEW b \in DeviceBits, Judge(b)
    PROVE  QuietInv'
<1> DEFINE C == Cands(cur, b)
<1>1. CASE pc' = "failed"
  BY <1>1, QuietAway
<1>2. CASE changed' = TRUE /\ pc' = pc
  BY <1>2 DEF Judge, QuietInv
<1>3. CASE /\ b \in diff[cur] => Undecided(cur, b)
           /\ bits' = bits \ {b}
           /\ UNCHANGED <<store, pc, todo, cur, changed>>
  <2>1. UNCHANGED <<locs, diff, act, pending>> /\ pc = "judge"
    BY <1>3 DEF store, Judge
  <2>2. ~changed' => \A x \in pending' \ todo' : Quiet(x)'
    BY <1>3, <2>1, QuietSame DEF QuietInv
  <2>3. ~changed' => \A x \in diff'[cur'] \ bits' : Undecided(cur, x)'
    BY <1>3, <2>1, QuietSame DEF QuietInv
  <2> QED
    BY <1>3, <2>1, <2>2, <2>3 DEF QuietInv
<1> HIDE DEF C
<1>4. \/ b \notin diff[cur] /\ bits' = bits \ {b} /\ UNCHANGED <<store, pc, todo, cur, changed>>
      \/ Panic
      \/ C # {} /\ ~IsSingle(C) /\ bits' = bits \ {b}
            /\ UNCHANGED <<store, pc, todo, cur, changed>>
      \/ changed' = TRUE /\ pc' = pc
  BY DEF Judge, C
<1> QED
  BY <1>1, <1>2, <1>3, <1>4 DEF Panic, Undecided, C

LEMMA QuietFinish ==
    ASSUME IInv, QuietInv, FinishSample
    PROVE  QuietInv'
<1> DEFINE Q == Complete(cur)
<1>1. CASE Panic
  BY <1>1, QuietAway DEF Panic
<1>2. CASE ~Panic /\ (diff[cur] = {} \/ Q # {})
  BY <1>2 DEF FinishSample, QuietInv
<1>3. CASE ~Panic /\ ~changed /\ diff[cur] # {} /\ Q = {}
  <2>1. /\ pc = "judge" /\ bits = {} /\ pc' = "scan"
        /\ UNCHANGED <<locs, diff, act, pending>>
        /\ todo' = todo \ {cur}
    BY <1>3, FinishNobody DEF FinishSample, IInv
  <2>2. Quiet(cur)
    BY <1>3, <2>1 DEF QuietInv, Quiet
  <2>3. \A s \in pending \ (todo \ {cur}) : Quiet(s)
    BY <1>3, <2>1, <2>2 DEF QuietInv
  <2> QED
    BY <2>1, <2>3, QuietSame DEF QuietInv
<1>4. CASE ~Panic /\ changed
  BY <1>4 DEF FinishSample, QuietInv
<1> QED
  BY <1>1, <1>2, <1>3, <1>4

LEMMA QuietEndScan ==
    ASSUME IInv, QuietInv, EndScan
    PROVE  QuietInv'
<1>1. /\ pc = "scan" /\ pc' = "triples" /\ todo = {} /\ ded' = Deductions
      /\ UNCHANGED <<locs, diff, act, pending, changed, pairs, triples>>
  BY DEF EndScan, store
<1> QED
  BY <1>1, QuietSame, DeductionsSame DEF QuietInv

LEMMA QuietTriple ==
    ASSUME IInv, QuietInv, NEW n \in Names, NEW l \in AllLocalBits, ApplyTriple(n, l)
    PROVE  QuietInv'
<1>1. CASE Panic
  BY <1>1, QuietAway DEF Panic
<1>2. CASE ~Panic
  <2>1. pc = "triples" /\ ded # {} /\ UNCHANGED <<pc, changed, pairs, triples>>
    BY <1>2 DEF ApplyTriple
  <2> QED
    BY <2>1, DeductionsSame DEF QuietInv
<1> QED
  BY <1>1, <1>2

LEMMA QuietEndRound ==
    ASSUME IInv, QuietInv, EndRound
    PROVE  QuietInv'
  BY QuietAway, QuietRound DEF EndRound, Panic

LEMMA QuietNext == IInv /\ QuietInv /\ [Next]_vars => QuietInv'
<1> SUFFICES ASSUME IInv, QuietInv, [Next]_vars PROVE QuietInv'
  OBVIOUS
<1>1. ASSUME NEW n \in Names, Want(n) \/ ForceBits(n) PROVE QuietInv'
  <2>1. pc' = "idle" \/ pc' = "failed"
    BY <1>1 DEF Want, ForceBits, Panic, scan, vars
  <2> QED
    BY <2>1, QuietAway
<1>2. ASSUME NEW P \in Designs, AddSample(P) PROVE QuietInv'
  <2>1. pc' = "idle" \/ pc' = "failed"
    BY <1>2 DEF AddSample, Panic, scan, vars
  <2> QED
    BY <2>1, QuietAway
<1>3. ASSUME NEW from \in Global, NEW to \in Global, RenameGlobal(from, to) PROVE QuietInv'
  <2>1. pc' = "idle" \/ pc' = "failed"
    BY <1>3 DEF RenameGlobal, Panic, scan, vars
  <2> QED
    BY <2>1, QuietAway
<1>4. CASE Process
  BY <1>4, QuietRound DEF Process, store
<1>5. CASE ProcessStep
  BY <1>5, QuietPick, QuietJudge, QuietFinish, QuietEndScan, QuietTriple, QuietEndRound
  DEF ProcessStep
<1>6. CASE UNCHANGED vars
  <2>1. UNCHANGED <<locs, diff, act, pending, pc, todo, cur, bits, changed, pairs, triples, ded>>
    BY <1>6 DEF vars, store, scan
  <2> QED
    BY <2>1, QuietSame, DeductionsSame DEF QuietInv
<1> QED
  BY <1>1, <1>2, <1>3, <1>4, <1>5, <1>6 DEF Next

\* process() returns only from a round that finished no single and reported
\* nothing found.
LEMMA QuietReturn ==
    ASSUME IInv, QuietInv, [Next]_vars, pc = "triples", pc' = "idle", Deductions = {}
    PROVE  Settled'
<1>1. EndRound
  BY DEF Next, Want, ForceBits, AddSample, RenameGlobal, Process, ProcessStep, PickSample,
     Judge, FinishSample, EndScan, ApplyTriple, Panic, vars, scan
<1>2. /\ Finished(SinglesFound) /\ SinglesFound = {} /\ ~changed
      /\ UNCHANGED <<known, diff, pending>>
  BY <1>1 DEF EndRound, Panic, BeginRound
<1>3. UNCHANGED <<status, single, locs, act>>
  BY <1>2, FinishNobody DEF IInv
<1>4. \A s \in pending : Quiet(s)
  BY <1>2 DEF QuietInv
<1>5. \A s \in pending' : Quiet(s)'
  BY <1>2, <1>3, <1>4, QuietSame
<1>6. SinglesFound' = {}
  BY <1>2, <1>3 DEF SinglesFound, IsSingle
<1> QED
  BY <1>5, <1>6 DEF Settled, Quiet, Undecided

\* In whatever order samples and bits are visited, when process() returns from a
\* round in which the triple rule found nothing, one more round would find nothing.
THEOREM SettledOnReturn == Spec => ReturnsSettled
<1>1. Init => QuietInv
  BY DEF Init, QuietInv
<1>2. Spec => [](IInv /\ QuietInv)
  BY <1>1, QuietNext, Invariance, PTL DEF Spec
<1>3. IInv /\ QuietInv /\ [Next]_vars =>
         [pc = "triples" /\ pc' = "idle" /\ Deductions = {} => Settled']_vars
  BY QuietReturn
<1> QED
  BY <1>2, <1>3, PTL DEF Spec, ReturnsSettled
=============================================================================
