-------------------------- MODULE HammerBatchProofs --------------------------
(***************************************************************************)
(* Proofs about the batches of the hammer: that they hold exactly what     *)
(* their fuzzers ask, for any keys, values and generators; and about their *)
(* codewords, for any number and size of fuzzers, any shuffle, any device. *)
(***************************************************************************)
EXTENDS HammerBatch, HammerCode, FiniteSetTheorems, WellFoundedInduction, TLAPS

-----------------------------------------------------------------------------
(* One entry and one demand.                                               *)

LEMMA DemandKinds ==
    ASSUME NEW v \in Demands
    PROVE  v.kind \in {"unset", "base", "any", "fuzz", "multi"}
  BY DEF Demands, Unset

LEMMA EntryKinds ==
    ASSUME NEW cv \in Entries
    PROVE  cv.kind \in {"unset", "base", "any", "fuzz", "multi"}
  BY DEF Entries, Unset

LEMMA EntryType ==
    ASSUME NEW v \in Demands, NEW i \in Nat
    PROVE  Entry(v, i) \in Entries /\ Entry(v, i).kind = v.kind
  BY DemandKinds DEF Demands, Entries, Entry, Unset

LEMMA MergedType ==
    ASSUME NEW cv \in Entries, NEW v \in Demands, NEW i \in Nat,
           Merged(cv, v, i).kind # "clash"
    PROVE  Merged(cv, v, i) \in Entries
<1> DEFINE r == Merged(cv, v, i)
<1>1. CASE v.kind = "unset"
  BY <1>1 DEF Merged
<1>2. CASE cv.kind = "unset" /\ v.kind # "unset"
  <2>1. r = Entry(v, i)
    BY <1>2 DEF Merged
  <2> QED
    BY <2>1, EntryType
<1>3. CASE cv.kind = "base" /\ v.kind \in {"base", "any"}
  BY <1>3 DEF Merged, Clash
<1>4. CASE cv.kind = "any" /\ v.kind = "base"
  <2>1. r = v
    BY <1>4 DEF Merged, Clash
  <2> QED
    BY <1>4, <2>1 DEF Demands, Entries, Unset
<1>5. CASE cv.kind = "any" /\ v.kind = "any"
  <2>1. cv.vals \in SUBSET Values
    BY <1>5 DEF Entries, Unset
  <2>2. cv.vals \cap v.vals # {} /\ r = [kind |-> "any", vals |-> cv.vals \cap v.vals]
    BY <1>5 DEF Merged, Narrowed, Clash
  <2>3. [kind |-> "any", vals |-> cv.vals \cap v.vals]
           \in [kind : {"any"}, vals : (SUBSET Values) \ {{}}]
    BY <2>1, <2>2
  <2> HIDE DEF r
  <2>4. r \in Entries
    BY <2>2, <2>3 DEF Entries
  <2> QED
    BY <2>4 DEF r
<1>6. CASE cv.kind = "any" /\ v.kind = "fuzz"
  <2>1. r = Entry(v, i)
    BY <1>6 DEF Merged, Clash
  <2> QED
    BY <2>1, EntryType
<1>7. CASE cv.kind = "fuzz" /\ v.kind = "any"
  BY <1>7 DEF Merged, Clash
<1>8. ASSUME ~(v.kind = "unset"), ~(cv.kind = "unset"),
             ~(cv.kind = "base" /\ v.kind \in {"base", "any"}),
             ~(cv.kind = "any" /\ v.kind \in {"base", "any", "fuzz"}),
             ~(cv.kind = "fuzz" /\ v.kind = "any")
      PROVE  FALSE
  BY <1>8 DEF Merged, Clash
<1> QED
  BY <1>1, <1>2, <1>3, <1>4, <1>5, <1>6, <1>7, <1>8

\* The two matrices decide alike.
LEMMA AgreesIsMerged ==
    ASSUME NEW cv \in Entries, NEW v \in Demands, NEW i \in Nat
    PROVE  Agrees(cv, v) <=> Merged(cv, v, i).kind # "clash"
<1>1. CASE v.kind = "unset"
  BY <1>1, EntryKinds DEF Agrees, Merged
<1>2. CASE cv.kind = "unset" /\ v.kind # "unset"
  BY <1>2, EntryType, DemandKinds DEF Agrees, Merged
<1>3. CASE cv.kind = "base" /\ v.kind # "unset"
  BY <1>3, DemandKinds DEF Agrees, Merged, Clash
<1>4. CASE cv.kind = "any" /\ v.kind = "base"
  BY <1>4 DEF Agrees, Merged, Clash
<1>5. CASE cv.kind = "any" /\ v.kind = "any"
  BY <1>5 DEF Agrees, Merged, Narrowed, Clash
<1>6. CASE cv.kind = "any" /\ v.kind = "fuzz"
  <2>1. Entry(v, i).kind # "clash"
    BY <1>6, EntryType
  <2> QED
    BY <1>6, <2>1 DEF Agrees, Merged, BothIn, Clash
<1>7. CASE cv.kind = "any" /\ v.kind = "multi"
  BY <1>7 DEF Agrees, Merged, Clash
<1>8. CASE cv.kind = "fuzz" /\ v.kind # "unset"
  BY <1>8, DemandKinds DEF Agrees, Merged, BothIn, Clash
<1>9. CASE cv.kind = "multi" /\ v.kind # "unset"
  BY <1>9, DemandKinds DEF Agrees, Merged, Clash
<1> QED
  BY <1>1, <1>2, <1>3, <1>4, <1>5, <1>6, <1>7, <1>8, <1>9, EntryKinds, DemandKinds

\* A further demand v of fuzzer n is met by the merged entry, and the demands met
\* before still are.
LEMMA MergeMeets ==
    ASSUME NEW U \in SUBSET Nat, NEW D \in [U -> Demands],
           \A i \in U : D[i].kind # "unset",
           NEW n \in Nat, n \notin U,
           NEW cv \in Entries, Met(D, cv),
           NEW v \in Demands, v.kind # "unset",
           Merged(cv, v, n).kind # "clash"
    PROVE  Met([i \in U \cup {n} |-> IF i = n THEN v ELSE D[i]], Merged(cv, v, n))
<1> DEFINE E == [i \in U \cup {n} |-> IF i = n THEN v ELSE D[i]]
           r == Merged(cv, v, n)
<1>0. /\ DOMAIN E = U \cup {n} /\ E[n] = v /\ \A i \in U : E[i] = D[i] /\ i # n
      /\ DOMAIN D = U
  OBVIOUS
<1> SUFFICES Met(E, r)
  OBVIOUS
<1> HIDE DEF E
<1>1. CASE cv.kind = "unset"
  <2>1. U = {} /\ r = Entry(v, n)
    BY <1>1 DEF Met, Merged
  <2>2. CASE v.kind = "base"
    BY <1>0, <2>1, <2>2 DEF Met, Entry
  <2>3. CASE v.kind = "any"
    <3>1. r = v /\ v.vals \in SUBSET Values
      BY <2>1, <2>3 DEF Entry, Demands, Unset
    <3> QED
      BY <1>0, <2>1, <2>3, <3>1 DEF Met
  <2>4. CASE v.kind = "fuzz"
    <3>1. v = [kind |-> "fuzz", from |-> v.from, to |-> v.to]
      BY <2>4 DEF Demands, Unset
    <3>2. r = [kind |-> "fuzz", owner |-> n, from |-> v.from, to |-> v.to]
      BY <2>1, <2>4 DEF Entry
    <3> HIDE DEF r
    <3> QED
      BY <1>0, <2>1, <3>1, <3>2 DEF Met
  <2>5. CASE v.kind = "multi"
    <3>1. v = [kind |-> "multi", val |-> v.val]
      BY <2>5 DEF Demands, Unset
    <3>2. r = [kind |-> "multi", owner |-> n, val |-> v.val]
      BY <2>1, <2>5 DEF Entry
    <3> HIDE DEF r
    <3> QED
      BY <1>0, <2>1, <3>1, <3>2 DEF Met
  <2> QED
    BY <2>2, <2>3, <2>4, <2>5, DemandKinds
<1>2. CASE cv.kind = "base"
  <2>1. r = cv /\ ((v.kind = "base" /\ v.val = cv.val) \/ (v.kind = "any" /\ cv.val \in v.vals))
    BY <1>2, DemandKinds DEF Merged, Clash
  <2>2. v = cv \/ (v.kind = "any" /\ cv.val \in v.vals)
    BY <1>2, <2>1 DEF Demands, Entries, Unset
  <2> HIDE DEF r
  <2> QED
    BY <1>0, <1>2, <2>1, <2>2 DEF Met
<1>3. CASE cv.kind = "any" /\ v.kind = "base"
  <2>1. r = v /\ v.val \in cv.vals
    BY <1>3 DEF Merged, Clash
  <2>2. \A i \in U : D[i].kind = "any" /\ v.val \in D[i].vals
    BY <1>0, <1>3, <2>1 DEF Met
  <2> HIDE DEF r
  <2> QED
    BY <1>0, <1>3, <2>1, <2>2 DEF Met
<1>4. CASE cv.kind = "any" /\ v.kind = "any"
  <2>1. r = [kind |-> "any", vals |-> cv.vals \cap v.vals]
    BY <1>4 DEF Merged, Narrowed, Clash
  <2>2. /\ \A i \in U : D[i].kind = "any"
        /\ cv.vals = {x \in Values : \A i \in U : x \in D[i].vals}
    BY <1>0, <1>4 DEF Met
  <2> HIDE DEF r
  <2>3. cv.vals \cap v.vals = {x \in Values : \A i \in DOMAIN E : x \in E[i].vals}
    BY <1>0, <2>2
  <2> QED
    BY <1>0, <1>4, <2>1, <2>2, <2>3 DEF Met
<1>5. CASE cv.kind = "any" /\ v.kind = "fuzz"
  <2>1. /\ r = [kind |-> "fuzz", owner |-> n, from |-> v.from, to |-> v.to]
        /\ v.from \in cv.vals /\ v.to \in cv.vals
    BY <1>5 DEF Merged, Entry, Clash
  <2>2. \A i \in U : D[i].kind = "any" /\ {v.from, v.to} \subseteq D[i].vals
    BY <1>0, <1>5, <2>1 DEF Met
  <2>3. v = [kind |-> "fuzz", from |-> v.from, to |-> v.to]
    BY <1>5 DEF Demands, Unset
  <2> HIDE DEF r
  <2> QED
    BY <1>0, <2>1, <2>2, <2>3 DEF Met
<1>6. CASE cv.kind = "fuzz"
  <2>1. r = cv /\ v.kind = "any" /\ {cv.from, cv.to} \subseteq v.vals
    BY <1>6, DemandKinds DEF Merged, Clash
  <2>2. cv.owner # n
    BY <1>0, <1>6 DEF Met
  <2> HIDE DEF r
  <2> QED
    BY <1>0, <1>6, <2>1, <2>2 DEF Met
<1>7. CASE cv.kind = "any" /\ v.kind = "multi"
  BY <1>7 DEF Merged, Clash
<1>8. CASE cv.kind = "multi"
  BY <1>8, DemandKinds DEF Merged, Clash
<1> QED
  BY <1>1, <1>2, <1>3, <1>4, <1>5, <1>6, <1>7, <1>8, DemandKinds, EntryKinds

-----------------------------------------------------------------------------
(* One batch and one fuzzer.                                               *)

BatchType == [kv : [Keys -> Entries], fuzzers : Seq(Made)]

BatchMet(b) == \A k \in Keys : Met(Asked(b, k), b.kv[k])

IInv == TypeOK /\ DemandsMet

LEMMA SitesType ==
    ASSUME TypeOK, NEW g \in DOMAIN fgens
    PROVE  fgens[g].sites \subseteq Sites
<1>1. fgens[g] \in Generators
  BY DEF TypeOK
<1> QED
  BY <1>1, GeneratorsFit

LEMMA MadeType ==
    ASSUME TypeOK, NEW f \in Made
    PROVE  f.kv \in [Keys -> Demands] /\ f.sad \in SUBSET Props
<1>1. PICK g \in DOMAIN fgens : \E s \in fgens[g].sites :
          f = [gen |-> g, kv |-> s.kv, sad |-> s.sad]
  BY DEF Made
<1>2. PICK s \in fgens[g].sites : f = [gen |-> g, kv |-> s.kv, sad |-> s.sad]
  BY <1>1
<1>3. s \in Sites
  BY SitesType
<1> QED
  BY <1>2, <1>3 DEF Sites

LEMMA GeneratedMade ==
    ASSUME TypeOK, NEW g \in DOMAIN fgens, NEW S, NEW kv, NEW f \in Generated(g, S, kv)
    PROVE  f \in Made /\ f.gen = g /\ IsOk(kv, f.kv) /\ (S # {} => ~(S \subseteq f.sad))
  BY DEF Made, Generated, ShowsMore

\* is_ok and install_fuzzer decide alike, for the whole of a fuzzer.
LEMMA OkIsInstalls ==
    ASSUME NEW M, NEW b \in [kv : [Keys -> Entries], fuzzers : Seq(M)],
           NEW dem \in [Keys -> Demands]
    PROVE  IsOk(b.kv, dem) <=> Installs(b, dem)
<1>1. Len(b.fuzzers) + 1 \in Nat
  OBVIOUS
<1>2. \A k \in Keys : b.kv[k] \in Entries /\ dem[k] \in Demands
  OBVIOUS
<1> QED
  BY <1>1, <1>2, AgreesIsMerged DEF IsOk, Installs, NewKv

LEMMA EmptyType == EmptyBatch \in BatchType /\ BatchMet(EmptyBatch)
<1>1. EmptyBatch \in BatchType
  BY DEF EmptyBatch, BatchType, Entries
<1>2. ASSUME NEW k \in Keys PROVE Met(Asked(EmptyBatch, k), EmptyBatch.kv[k])
  BY DEF EmptyBatch, Met, Asked, Unset
<1> QED
  BY <1>1, <1>2 DEF BatchMet

LEMMA WithType ==
    ASSUME TypeOK, NEW b \in BatchType, NEW f \in Made, Installs(b, f.kv)
    PROVE  With(b, f) \in BatchType
<1>1. f.kv \in [Keys -> Demands]
  BY MadeType
<1>2. ASSUME NEW k \in Keys PROVE NewKv(b, f.kv)[k] \in Entries
  <2>1. b.kv[k] \in Entries /\ f.kv[k] \in Demands /\ Len(b.fuzzers) + 1 \in Nat
    BY <1>1 DEF BatchType
  <2>2. NewKv(b, f.kv)[k] = Merged(b.kv[k], f.kv[k], Len(b.fuzzers) + 1)
    BY DEF NewKv
  <2>3. Merged(b.kv[k], f.kv[k], Len(b.fuzzers) + 1).kind # "clash"
    BY <2>2 DEF Installs
  <2> QED
    BY <2>1, <2>2, <2>3, MergedType
<1>3. NewKv(b, f.kv) \in [Keys -> Entries]
  BY <1>2 DEF NewKv
<1>4. Append(b.fuzzers, f) \in Seq(Made)
  BY DEF BatchType
<1> QED
  BY <1>3, <1>4 DEF With, BatchType

LEMMA WithMet ==
    ASSUME TypeOK, NEW b \in BatchType, BatchMet(b), NEW f \in Made, Installs(b, f.kv)
    PROVE  BatchMet(With(b, f))
<1> SUFFICES ASSUME NEW k \in Keys
             PROVE  Met(Asked(With(b, f), k), With(b, f).kv[k])
  BY DEF BatchMet
<1> DEFINE n == Len(b.fuzzers) + 1
           U == {j \in DOMAIN b.fuzzers : b.fuzzers[j].kv[k].kind # "unset"}
           D == Asked(b, k)
           cv == b.kv[k]
           v == f.kv[k]
<1>1. cv \in Entries /\ v \in Demands /\ n \in Nat /\ n \notin U /\ U \in SUBSET Nat
  <2>1. f.kv \in [Keys -> Demands]
    BY MadeType
  <2> QED
    BY <2>1 DEF BatchType
<1>2. Met(D, cv)
  BY DEF BatchMet
<1>3. With(b, f).kv[k] = Merged(cv, v, n)
  BY DEF With, NewKv
<1>4. Merged(cv, v, n).kind # "clash"
  BY DEF Installs, NewKv
<1>5. D \in [U -> Demands] /\ \A i \in U : D[i].kind # "unset"
  <2>1. ASSUME NEW i \in U PROVE b.fuzzers[i].kv[k] \in Demands
    <3>1. b.fuzzers[i] \in Made
      BY DEF BatchType
    <3> QED
      BY <3>1, MadeType
  <2> QED
    BY <2>1 DEF Asked
<1>6. /\ DOMAIN Append(b.fuzzers, f) = DOMAIN b.fuzzers \cup {n}
      /\ Append(b.fuzzers, f)[n] = f
      /\ \A i \in DOMAIN b.fuzzers : Append(b.fuzzers, f)[i] = b.fuzzers[i]
  BY DEF BatchType
<1>7. With(b, f).fuzzers = Append(b.fuzzers, f)
  BY DEF With
<1>8. CASE v.kind = "unset"
  <2>1. Merged(cv, v, n) = cv
    BY <1>8 DEF Merged
  <2>2. Asked(With(b, f), k) = D
    <3>1. {j \in DOMAIN Append(b.fuzzers, f) :
              Append(b.fuzzers, f)[j].kv[k].kind # "unset"} = U
      BY <1>6, <1>8
    <3> QED
      BY <1>6, <1>7, <3>1 DEF Asked
  <2> QED
    BY <1>2, <1>3, <2>1, <2>2
<1>9. CASE v.kind # "unset"
  <2>1. Asked(With(b, f), k) = [i \in U \cup {n} |-> IF i = n THEN v ELSE D[i]]
    <3>1. {j \in DOMAIN Append(b.fuzzers, f) :
              Append(b.fuzzers, f)[j].kv[k].kind # "unset"} = U \cup {n}
      BY <1>6, <1>9
    <3>2. \A i \in U : D[i] = b.fuzzers[i].kv[k]
      BY DEF Asked
    <3> QED
      BY <1>6, <1>7, <3>1, <3>2 DEF Asked
  <2> HIDE DEF U, D, cv, v, n
  <2> QED
    BY <1>1, <1>2, <1>3, <1>4, <1>5, <1>9, <2>1, MergeMeets
<1> QED
  BY <1>8, <1>9

-----------------------------------------------------------------------------
(* Session::install_fuzzer.                                                *)

LEMMA InstallStep ==
    ASSUME IInv, NEW g \in DOMAIN fgens, NEW S \in SUBSET Props, Install(g, S),
           UNCHANGED fgens
    PROVE  /\ batches' \in Seq(BatchType)
           /\ \A i \in DOMAIN batches' : BatchMet(batches'[i])
           /\ chain' = chain \/ chain' \in [gen : DOMAIN fgens, sad : (SUBSET Props) \ {{}}] \cup {NoChain}
           /\ pc' \in {pc, "failed"}
<1> USE DEF IInv
<1> DEFINE all == Append(batches, EmptyBatch)
<1>0. batches \in Seq(BatchType) /\ \A i \in DOMAIN batches : BatchMet(batches[i])
  BY DEF TypeOK, BatchType, DemandsMet, BatchMet
<1>1. CASE UNCHANGED <<batches, chain>> /\ pc' = "failed"
  BY <1>0, <1>1
<1>2. ASSUME NEW i \in 1..Len(all), NEW f \in Generated(g, S, all[i].kv),
             Installs(all[i], f.kv),
             batches' = IF i > Len(batches) THEN Append(batches, With(EmptyBatch, f))
                        ELSE [batches EXCEPT ![i] = With(@, f)],
             chain' = IF StillSad(S, f) = {} THEN NoChain
                      ELSE [gen |-> g, sad |-> StillSad(S, f)],
             UNCHANGED pc
      PROVE  /\ batches' \in Seq(BatchType)
             /\ \A j \in DOMAIN batches' : BatchMet(batches'[j])
             /\ chain' \in [gen : DOMAIN fgens, sad : (SUBSET Props) \ {{}}] \cup {NoChain}
             /\ pc' \in {pc, "failed"}
  <2>1. f \in Made /\ f.sad \in SUBSET Props
    BY GeneratedMade, MadeType
  <2>2. StillSad(S, f) \in SUBSET Props
    BY <2>1 DEF StillSad
  <2>3. chain' \in [gen : DOMAIN fgens, sad : (SUBSET Props) \ {{}}] \cup {NoChain}
    BY <1>2, <2>2
  <2>4. CASE i > Len(batches)
    <3>1. all[i] = EmptyBatch
      BY <1>0, <2>4, EmptyType
    <3>2. With(EmptyBatch, f) \in BatchType /\ BatchMet(With(EmptyBatch, f))
      BY <1>2, <2>1, <3>1, EmptyType, WithType, WithMet
    <3>3. batches' = Append(batches, With(EmptyBatch, f))
      BY <1>2, <2>4
    <3> HIDE DEF all
    <3> QED
      BY <1>0, <1>2, <2>3, <3>2, <3>3
  <2>5. CASE ~(i > Len(batches))
    <3>1. i \in DOMAIN batches /\ all[i] = batches[i]
      BY <1>0, <2>5, EmptyType
    <3>2. With(batches[i], f) \in BatchType /\ BatchMet(With(batches[i], f))
      BY <1>0, <1>2, <2>1, <3>1, WithType, WithMet
    <3>3. batches' = [batches EXCEPT ![i] = With(batches[i], f)]
      BY <1>2, <2>5
    <3> HIDE DEF all
    <3> QED
      BY <1>0, <1>2, <2>3, <3>1, <3>2, <3>3
  <2> QED
    BY <2>4, <2>5
<1> QED
  BY <1>1, <1>2 DEF Install

-----------------------------------------------------------------------------
(* The invariant.                                                          *)

LEMMA InitInv == Init => IInv
<1> SUFFICES ASSUME Init PROVE IInv
  OBVIOUS
<1>1. TypeOK
  BY DEF Init, TypeOK
<1>2. DemandsMet
  BY DEF Init, DemandsMet
<1> QED
  BY <1>1, <1>2 DEF IInv

LEMMA PrepStep ==
    ASSUME IInv, pc = "prep", NEW g \in DOMAIN fgens, NEW S \in SUBSET Props,
           Install(g, S), left' \in Seq(Nat), Len(left') = Len(left), UNCHANGED fgens
    PROVE  IInv'
<1>1. /\ batches' \in Seq(BatchType)
      /\ \A i \in DOMAIN batches' : BatchMet(batches'[i])
      /\ chain' = chain \/ chain' \in [gen : DOMAIN fgens, sad : (SUBSET Props) \ {{}}] \cup {NoChain}
      /\ pc' \in {pc, "failed"}
  BY InstallStep
<1>2. Made' = Made
  BY DEF Made
<1>3. TypeOK'
  BY <1>1, <1>2 DEF IInv, TypeOK, BatchType
<1>4. DemandsMet'
  BY <1>1 DEF DemandsMet, BatchMet
<1> QED
  BY <1>3, <1>4 DEF IInv

LEMMA NextInv == IInv /\ [Next]_vars => IInv'
<1> SUFFICES ASSUME IInv, [Next]_vars PROVE IInv'
  OBVIOUS
<1>1. ASSUME NEW G \in Generators, AddFuzzer(G) PROVE IInv'
  <2>1. fgens' \in Seq(Generators) /\ batches' = <<>> /\ chain' = NoChain
    BY <1>1 DEF AddFuzzer, IInv, TypeOK
  <2>2. TypeOK'
    BY <1>1, <2>1 DEF AddFuzzer, IInv, TypeOK
  <2>3. DemandsMet'
    BY <2>1 DEF DemandsMet
  <2> QED
    BY <2>2, <2>3 DEF IInv
<1>2. CASE Run
  <2>1. left' \in Seq(Nat) /\ Len(left') = Len(fgens)
    <3>1. \A g \in 1..Len(fgens) : fgens[g].dup \in Nat
      BY GeneratorsFit DEF IInv, TypeOK
    <3> QED
      BY <1>2, <3>1 DEF Run, IInv, TypeOK
  <2>2. TypeOK'
    BY <1>2, <2>1 DEF Run, IInv, TypeOK, Made
  <2>3. DemandsMet'
    BY <1>2 DEF Run, IInv, DemandsMet
  <2> QED
    BY <2>2, <2>3 DEF IInv
<1>3. ASSUME NEW g \in 1..Len(fgens), Start(g) PROVE IInv'
  <2>1. g \in DOMAIN fgens /\ g \in DOMAIN left
    BY <1>3 DEF Start, IInv, TypeOK
  <2>2. left' \in Seq(Nat) /\ Len(left') = Len(left)
    BY <1>3, <2>1 DEF Start, IInv, TypeOK
  <2> QED
    BY <1>3, <2>1, <2>2, PrepStep DEF Start
<1>4. CASE Follow
  <2>1. chain.gen \in DOMAIN fgens /\ chain.sad \in SUBSET Props
    BY <1>4 DEF Follow, IInv, TypeOK
  <2>2. left' \in Seq(Nat) /\ Len(left') = Len(left)
    BY <1>4 DEF Follow, IInv, TypeOK
  <2> QED
    BY <1>4, <2>1, <2>2, PrepStep DEF Follow
<1>5. CASE Finish
  BY <1>5 DEF Finish, IInv, TypeOK, DemandsMet, Made
<1>6. CASE UNCHANGED vars
  BY <1>6 DEF vars, IInv, TypeOK, DemandsMet, Made
<1> QED
  BY <1>1, <1>2, <1>3, <1>4, <1>5, <1>6 DEF Next

LEMMA Invariance == Spec => []IInv
  BY InitInv, NextInv, PTL DEF Spec

\* The state always has its type.
THEOREM TypeCorrect == Spec => []TypeOK
<1>1. IInv => TypeOK
  BY DEF IInv
<1> QED
  BY <1>1, Invariance, PTL

\* However fuzzers are packed, a batch's entries are exactly the joint demand of
\* its fuzzers (Batch::install_fuzzer).
THEOREM BatchesMeetDemands == Spec => []DemandsMet
<1>1. IInv => DemandsMet
  BY DEF IInv
<1> QED
  BY <1>1, Invariance, PTL

\* Fuzzer::is_ok answers for install_fuzzer: what one accepts the other takes.
THEOREM NeverRefused == Spec => []MatricesAgree
<1>1. IInv => MatricesAgree
  <2> SUFFICES ASSUME IInv, NEW g \in DOMAIN fgens, NEW s \in fgens[g].sites,
                      NEW i \in DOMAIN batches
               PROVE  IsOk(batches[i].kv, s.kv) <=> Installs(batches[i], s.kv)
    BY DEF MatricesAgree
  <2>1. s.kv \in [Keys -> Demands]
    BY SitesType DEF IInv, Sites
  <2>2. batches \in Seq(BatchType)
    BY DEF IInv, TypeOK, BatchType
  <2>3. batches[i] \in BatchType
    BY <2>2
  <2> QED
    BY <2>1, <2>3, OkIsInstalls DEF BatchType
<1> QED
  BY <1>1, Invariance, PTL

\* A chain that goes on has strictly less left to show (FpgaFuzzerChainGen).
THEOREM ChainsEnd == Spec => ChainShrinks
<1> DEFINE Shrinks ==
       chain # NoChain =>
          \/ pc' = "failed"
          \/ chain' = NoChain
          \/ /\ chain'.gen = chain.gen
             /\ chain'.sad \subseteq chain.sad /\ chain'.sad # chain.sad
<1>1. ASSUME IInv, Next, chain # NoChain PROVE Shrinks
  <2>1. Follow \/ Finish
    BY <1>1 DEF Next, AddFuzzer, Run, Start, IInv, TypeOK
  <2>2. Follow
    BY <1>1, <2>1 DEF Finish
  <2> DEFINE g == chain.gen
             S == chain.sad
             all == Append(batches, EmptyBatch)
  <2>3. g \in DOMAIN fgens /\ S # {}
    BY <1>1 DEF IInv, TypeOK
  <2>4. CASE pc' = "failed"
    BY <2>4
  <2>5. ASSUME NEW i \in 1..Len(all), NEW f \in Generated(g, S, all[i].kv),
               chain' = IF StillSad(S, f) = {} THEN NoChain
                        ELSE [gen |-> g, sad |-> StillSad(S, f)]
        PROVE  Shrinks
    <3>1. ~(S \subseteq f.sad)
      BY <1>1, <2>3, GeneratedMade DEF IInv
    <3>2. StillSad(S, f) = f.sad \cap S
      BY <2>3 DEF StillSad
    <3> QED
      BY <2>5, <3>1, <3>2
  <2>6. Install(g, S)
    BY <2>2 DEF Follow
  <2> QED
    BY <2>4, <2>5, <2>6 DEF Install
<1>2. IInv /\ [Next]_vars => [Shrinks]_vars
  BY <1>1
<1> QED
  BY <1>2, Invariance, PTL DEF Spec, ChainShrinks

\* An empty batch takes whatever a generator offers it.
LEMMA EmptyPassed ==
    ASSUME IInv, NEW g \in DOMAIN fgens, NEW S \in SUBSET Props, MayPass(g, S, EmptyBatch)
    PROVE  \/ fgens[g].sites = {}
           \/ S # {} /\ \A s \in fgens[g].sites : S \subseteq s.sad
<1>1. ASSUME NEW s \in fgens[g].sites
      PROVE  IsOk(EmptyBatch.kv, s.kv) /\ Installs(EmptyBatch, s.kv)
  <2>1. s.kv \in [Keys -> Demands]
    BY SitesType DEF IInv, Sites
  <2>2. IsOk(EmptyBatch.kv, s.kv)
    BY DEF IsOk, EmptyBatch, Agrees, Unset
  <2> QED
    BY <2>1, <2>2, EmptyType, OkIsInstalls DEF BatchType
<1>2. Generated(g, S, EmptyBatch.kv) = {}
  <2>1. ASSUME NEW f \in Generated(g, S, EmptyBatch.kv) PROVE Installs(EmptyBatch, f.kv)
    BY <1>1 DEF Generated
  <2> QED
    BY <2>1 DEF MayPass
<1>3. ASSUME NEW s \in fgens[g].sites PROVE S # {} /\ S \subseteq s.sad
  <2>1. ~(S # {} => ShowsMore(S, s))
    BY <1>1, <1>2 DEF Generated
  <2> QED
    BY <2>1 DEF ShowsMore
<1> QED
  BY <1>3

\* Preparation panics only for a generator without sites or with a property that
\* is sad at all of them ("failed to generate fuzzer on empty batch").
THEOREM PanicJustified == Spec => []FailsOnlyIfHopeless
<1>1. Init => FailsOnlyIfHopeless
  BY DEF Init, FailsOnlyIfHopeless
<1>2. ASSUME IInv, NEW g \in DOMAIN fgens, NEW S \in SUBSET Props, Install(g, S),
             pc # "failed", UNCHANGED fgens
      PROVE  FailsOnlyIfHopeless'
  <2> DEFINE all == Append(batches, EmptyBatch)
  <2>1. CASE pc' = pc
    BY <1>2, <2>1 DEF FailsOnlyIfHopeless
  <2>2. CASE \A j \in 1..Len(all) : MayPass(g, S, all[j])
    <3>1. batches \in Seq(BatchType)
      BY <1>2 DEF IInv, TypeOK, BatchType
    <3>2. Len(all) \in 1..Len(all) /\ all[Len(all)] = EmptyBatch
      BY <3>1, EmptyType
    <3>3. MayPass(g, S, EmptyBatch)
      BY <2>2, <3>2
    <3>4. \/ fgens[g].sites = {}
          \/ S # {} /\ \A s \in fgens[g].sites : S \subseteq s.sad
      BY <1>2, <3>3, EmptyPassed
    <3>5. fgens[g].sites = {} \/ \E p \in Props : \A s \in fgens[g].sites : p \in s.sad
      BY <1>2, <3>4
    <3> QED
      BY <1>2, <3>5 DEF FailsOnlyIfHopeless
  <2> QED
    BY <1>2, <2>1, <2>2 DEF Install
<1>3. IInv /\ FailsOnlyIfHopeless /\ [Next]_vars => FailsOnlyIfHopeless'
  <2> SUFFICES ASSUME IInv, FailsOnlyIfHopeless, [Next]_vars PROVE FailsOnlyIfHopeless'
    OBVIOUS
  <2>1. ASSUME NEW G \in Generators, AddFuzzer(G) PROVE FailsOnlyIfHopeless'
    BY <2>1 DEF AddFuzzer, FailsOnlyIfHopeless
  <2>2. CASE Run
    BY <2>2 DEF Run, FailsOnlyIfHopeless
  <2>3. ASSUME NEW g \in 1..Len(fgens), Start(g) PROVE FailsOnlyIfHopeless'
    <3>1. g \in DOMAIN fgens
      BY DEF IInv, TypeOK
    <3> QED
      BY <1>2, <2>3, <3>1 DEF Start
  <2>4. CASE Follow
    <3>1. chain.gen \in DOMAIN fgens /\ chain.sad \in SUBSET Props
      BY <2>4 DEF Follow, IInv, TypeOK
    <3> QED
      BY <1>2, <2>4, <3>1 DEF Follow
  <2>5. CASE Finish
    BY <2>5 DEF Finish, FailsOnlyIfHopeless
  <2>6. CASE UNCHANGED vars
    BY <2>6 DEF vars, FailsOnlyIfHopeless
  <2> QED
    BY <2>1, <2>2, <2>3, <2>4, <2>5, <2>6 DEF Next
<1> QED
  BY <1>1, <1>3, Invariance, PTL DEF Spec

-----------------------------------------------------------------------------
(* Properties and the fuzzers that showed them.                            *)

\* HappyAt of any batches.
HappyIn(B, g, p) ==
    UNION {{<<i, j>> : j \in {m \in DOMAIN B[i].fuzzers :
                /\ B[i].fuzzers[m].gen = g
                /\ p \notin B[i].fuzzers[m].sad}} : i \in DOMAIN B}

LEMMA HappyMember ==
    ASSUME NEW B, NEW g, NEW p
    PROVE  /\ \A i, j : <<i, j>> \in HappyIn(B, g, p) <=>
                 /\ i \in DOMAIN B /\ j \in DOMAIN B[i].fuzzers
                 /\ B[i].fuzzers[j].gen = g /\ p \notin B[i].fuzzers[j].sad
           /\ \A x \in HappyIn(B, g, p) : x = <<x[1], x[2]>>
  BY DEF HappyIn

\* Fuzzer f joins batch i, or is the first of a new one; x is its place.
Joined(B, C, i, old, f, x) ==
    /\ \E M : old \in Seq(M)
    /\ x = <<i, Len(old) + 1>>
    /\ DOMAIN C = DOMAIN B \cup {i}
    /\ \A j \in DOMAIN B : j # i => C[j] = B[j]
    /\ C[i].fuzzers = Append(old, f)
    /\ i \in DOMAIN B => old = B[i].fuzzers
    /\ i \notin DOMAIN B => old = <<>>

\* The place x, if fuzzer f of generator g shows p there.
Shown(f, g, p, x) == IF f.gen = g /\ p \notin f.sad THEN {x} ELSE {}

LEMMA HappyJoin ==
    ASSUME NEW B, NEW C, NEW i, NEW old, NEW f, NEW x, Joined(B, C, i, old, f, x),
           NEW g, NEW p
    PROVE  x \notin HappyIn(B, g, p) /\ HappyIn(C, g, p) = HappyIn(B, g, p) \cup Shown(f, g, p, x)
<1> DEFINE n == Len(old) + 1
<1>1. /\ DOMAIN Append(old, f) = DOMAIN old \cup {n} /\ n \notin DOMAIN old
      /\ Append(old, f)[n] = f
      /\ \A j \in DOMAIN old : Append(old, f)[j] = old[j]
  BY DEF Joined
<1>2. /\ x = <<i, n>>
      /\ DOMAIN C = DOMAIN B \cup {i}
      /\ \A j \in DOMAIN B : j # i => C[j] = B[j]
      /\ C[i].fuzzers = Append(old, f)
      /\ i \in DOMAIN B => old = B[i].fuzzers
      /\ i \notin DOMAIN B => old = <<>>
  BY DEF Joined
<1>3. x \notin HappyIn(B, g, p)
  BY <1>1, <1>2, HappyMember
<1>4. ASSUME NEW a, NEW b
      PROVE  <<a, b>> \in HappyIn(C, g, p) <=>
                <<a, b>> \in HappyIn(B, g, p) \cup Shown(f, g, p, x)
  <2>1. CASE a # i
    BY <1>2, <2>1, HappyMember DEF Shown
  <2>2. CASE a = i /\ b = n
    BY <1>1, <1>2, <1>3, <2>2, HappyMember DEF Shown
  <2>3. CASE a = i /\ b # n
    <3>1. <<a, b>> \in HappyIn(C, g, p) <=>
             b \in DOMAIN old /\ old[b].gen = g /\ p \notin old[b].sad
      <4>1. i \in DOMAIN C /\ C[i].fuzzers = Append(old, f)
        BY <1>2
      <4>2. <<i, b>> \in HappyIn(C, g, p) <=>
               /\ b \in DOMAIN Append(old, f)
               /\ Append(old, f)[b].gen = g /\ p \notin Append(old, f)[b].sad
        BY <4>1, HappyMember
      <4>3. \A j \in DOMAIN old : Append(old, f)[j] = old[j]
        BY <1>1
      <4>4. b \in DOMAIN Append(old, f) <=> b \in DOMAIN old
        BY <1>1, <2>3
      <4> QED
        BY <2>3, <4>2, <4>3, <4>4
    <3>2. <<a, b>> \in HappyIn(B, g, p) <=>
             b \in DOMAIN old /\ old[b].gen = g /\ p \notin old[b].sad
      BY <1>2, <2>3, HappyMember
    <3> QED
      BY <1>2, <2>3, <3>1, <3>2 DEF Shown
  <2> QED
    BY <2>1, <2>2, <2>3
<1>5. \A y \in HappyIn(C, g, p) \cup HappyIn(B, g, p) \cup Shown(f, g, p, x) : y = <<y[1], y[2]>>
  BY <1>2, HappyMember DEF Shown
<1>6. HappyIn(C, g, p) = HappyIn(B, g, p) \cup Shown(f, g, p, x)
  BY <1>4, <1>5
<1> QED
  BY <1>3, <1>6

\* What Session::install_fuzzer adds, unless it panics.
LEMMA InstallAdds ==
    ASSUME IInv, NEW g \in DOMAIN fgens, NEW S \in SUBSET Props, Install(g, S),
           UNCHANGED fgens
    PROVE  \/ pc' = "failed"
           \/ \E f \in Made : \E x :
                 /\ pc' = pc /\ f.gen = g
                 /\ chain' = IF StillSad(S, f) = {} THEN NoChain
                             ELSE [gen |-> g, sad |-> StillSad(S, f)]
                 /\ \A h, p : /\ x \notin HappyAt(h, p)
                              /\ HappyAt(h, p)' = HappyAt(h, p) \cup Shown(f, h, p, x)
<1> DEFINE all == Append(batches, EmptyBatch)
<1>1. CASE pc' = "failed"
  BY <1>1
<1>2. ASSUME NEW i \in 1..Len(all), NEW f \in Generated(g, S, all[i].kv),
             batches' = IF i > Len(batches) THEN Append(batches, With(EmptyBatch, f))
                        ELSE [batches EXCEPT ![i] = With(@, f)],
             chain' = IF StillSad(S, f) = {} THEN NoChain
                      ELSE [gen |-> g, sad |-> StillSad(S, f)],
             UNCHANGED pc
      PROVE  \E x : \A h, p :
                 /\ x \notin HappyAt(h, p)
                 /\ HappyAt(h, p)' = HappyAt(h, p) \cup Shown(f, h, p, x)
  <2>1. f \in Made /\ f.gen = g
    BY GeneratedMade DEF IInv
  <2>2. batches \in Seq(BatchType)
    BY DEF IInv, TypeOK, BatchType
  <2> DEFINE old == IF i \in DOMAIN batches THEN batches[i].fuzzers ELSE <<>>
  <2>3. /\ old \in Seq(Made)
        /\ DOMAIN batches' = DOMAIN batches \cup {i}
        /\ \A j \in DOMAIN batches : j # i => batches'[j] = batches[j]
        /\ batches'[i].fuzzers = Append(old, f)
    <3>1. CASE i > Len(batches)
      <4>1. i = Len(batches) + 1 /\ i \notin DOMAIN batches
        BY <2>2, <3>1, EmptyType
      <4>2. batches' = Append(batches, With(EmptyBatch, f))
        BY <1>2, <3>1
      <4>3. With(EmptyBatch, f).fuzzers = Append(<<>>, f)
        BY DEF With, EmptyBatch
      <4> HIDE DEF all
      <4> QED
        BY <2>1, <2>2, <4>1, <4>2, <4>3
    <3>2. CASE ~(i > Len(batches))
      <4>1. i \in DOMAIN batches
        BY <2>2, <3>2, EmptyType
      <4>2. batches' = [batches EXCEPT ![i] = With(batches[i], f)]
        BY <1>2, <3>2
      <4>3. With(batches[i], f).fuzzers = Append(batches[i].fuzzers, f)
        BY DEF With
      <4>4. batches[i] \in BatchType
        BY <2>2, <4>1
      <4> HIDE DEF all
      <4> QED
        BY <2>1, <2>2, <4>1, <4>2, <4>3, <4>4 DEF BatchType
    <3> QED
      BY <3>1, <3>2
  <2>4. /\ i \in DOMAIN batches => old = batches[i].fuzzers
        /\ i \notin DOMAIN batches => old = <<>>
    OBVIOUS
  <2> HIDE DEF old
  <2> DEFINE x == <<i, Len(old) + 1>>
  <2>5. Joined(batches, batches', i, old, f, x)
    BY <2>3, <2>4 DEF Joined
  <2> HIDE DEF x
  <2>6. ASSUME NEW h, NEW p
        PROVE  /\ x \notin HappyAt(h, p)
               /\ HappyAt(h, p)' = HappyAt(h, p) \cup Shown(f, h, p, x)
    <3>1. /\ x \notin HappyIn(batches, h, p)
          /\ HappyIn(batches', h, p) = HappyIn(batches, h, p) \cup Shown(f, h, p, x)
      BY <2>5, HappyJoin
    <3>2. HappyAt(h, p) = HappyIn(batches, h, p) /\ HappyAt(h, p)' = HappyIn(batches', h, p)
      BY DEF HappyIn, HappyAt
    <3> QED
      BY <3>1, <3>2
  <2> QED
    BY <2>6
<1>3. ASSUME NEW i \in 1..Len(all), NEW f \in Generated(g, S, all[i].kv)
      PROVE  f \in Made /\ f.gen = g
  BY GeneratedMade DEF IInv
<1>4. CASE pc' # "failed"
  <2>1. PICK i \in 1..Len(all) : \E f \in Generated(g, S, all[i].kv) :
           /\ batches' = IF i > Len(batches) THEN Append(batches, With(EmptyBatch, f))
                         ELSE [batches EXCEPT ![i] = With(@, f)]
           /\ chain' = IF StillSad(S, f) = {} THEN NoChain
                       ELSE [gen |-> g, sad |-> StillSad(S, f)]
           /\ UNCHANGED pc
    BY <1>4 DEF Install
  <2>2. PICK f \in Generated(g, S, all[i].kv) :
           /\ batches' = IF i > Len(batches) THEN Append(batches, With(EmptyBatch, f))
                         ELSE [batches EXCEPT ![i] = With(@, f)]
           /\ chain' = IF StillSad(S, f) = {} THEN NoChain
                       ELSE [gen |-> g, sad |-> StillSad(S, f)]
           /\ UNCHANGED pc
    BY <2>1
  <2>3. f \in Made /\ f.gen = g
    BY <1>3
  <2>4. PICK x : \A h, p :
                 /\ x \notin HappyAt(h, p)
                 /\ HappyAt(h, p)' = HappyAt(h, p) \cup Shown(f, h, p, x)
    BY <1>2, <2>2
  <2> QED
    BY <2>2, <2>3, <2>4
<1> QED
  BY <1>1, <1>4

\* What generator g owes property p: installations to start, and a chain to go on.
Owed(g, p) == left[g] + (IF chain.gen = g /\ p \in chain.sad THEN 1 ELSE 0)

Paid(g, p) ==
    /\ IsFiniteSet(HappyAt(g, p))
    /\ Cardinality(HappyAt(g, p)) + Owed(g, p) >= fgens[g].dup

\* No property is forgotten on the way.
AllPaid ==
    /\ pc \in {"prep", "ready"} => \A g \in DOMAIN fgens, p \in Props : Paid(g, p)
    /\ pc = "ready" => chain = NoChain /\ \A g \in DOMAIN fgens : left[g] = 0

LEMMA StillEnough ==
    ASSUME NEW n \in Nat, NEW a \in Nat, NEW b \in Nat, NEW c \in Nat, NEW d \in Nat,
           NEW e \in Nat, NEW m \in Nat, a + c <= b + d + e, n + a + c >= m
    PROVE  n + e + b + d >= m
  OBVIOUS

\* One installation of generator g, of a chain that has S still to show.
LEMMA InstallPays ==
    ASSUME IInv, pc = "prep", NEW g \in DOMAIN fgens, NEW S \in SUBSET Props,
           Install(g, S), UNCHANGED fgens, left' \in Seq(Nat), Len(left') = Len(left),
           chain # NoChain => chain.gen = g /\ chain.sad = S,
           chain = NoChain => S = {},
           \A h \in DOMAIN fgens : h # g => left'[h] = left[h],
           left[g] = left'[g] + (IF S = {} THEN 1 ELSE 0),
           \A h \in DOMAIN fgens, p \in Props : Paid(h, p)
    PROVE  pc' = "failed" \/ (pc' = "prep" /\ \A h \in DOMAIN fgens, p \in Props : Paid(h, p)')
<1>1. CASE pc' = "failed"
  BY <1>1
<1>2. ASSUME NEW f \in Made, NEW x,
             pc' = pc /\ f.gen = g,
             chain' = IF StillSad(S, f) = {} THEN NoChain
                      ELSE [gen |-> g, sad |-> StillSad(S, f)],
             \A h, p : /\ x \notin HappyAt(h, p)
                       /\ HappyAt(h, p)' = HappyAt(h, p) \cup Shown(f, h, p, x),
             NEW h \in DOMAIN fgens, NEW p \in Props
      PROVE  Paid(h, p)'
  <2>1. /\ left[h] \in Nat /\ left'[h] \in Nat
        /\ fgens'[h].dup = fgens[h].dup /\ fgens[h].dup \in Nat
        /\ h \in 1..Len(fgens) /\ h # 0
    <3>1. fgens \in Seq(Generators) /\ left \in Seq(Nat) /\ Len(left) = Len(fgens)
      BY DEF IInv, TypeOK
    <3>2. h \in 1..Len(fgens) /\ h \in 1..Len(left) /\ h \in 1..Len(left')
      BY <3>1
    <3>3. left[h] \in Nat /\ left'[h] \in Nat
      BY <3>1, <3>2
    <3>4. fgens[h] \in Generators
      BY <3>1, <3>2
    <3> QED
      BY <3>2, <3>3, <3>4, GeneratorsFit
  <2>2. /\ IsFiniteSet(HappyAt(h, p)) /\ Cardinality(HappyAt(h, p)) \in Nat
        /\ Cardinality(HappyAt(h, p)) + Owed(h, p) >= fgens[h].dup
    BY FS_CardinalityType DEF Paid
  <2>3. x \notin HappyAt(h, p) /\ HappyAt(h, p)' = HappyAt(h, p) \cup Shown(f, h, p, x)
    BY <1>2
  <2>4. f.sad \in SUBSET Props
    BY MadeType DEF IInv
  <2> DEFINE c == IF chain.gen = h /\ p \in chain.sad THEN 1 ELSE 0
             d == IF chain'.gen = h /\ p \in chain'.sad THEN 1 ELSE 0
             new == IF h = g /\ p \notin f.sad THEN 1 ELSE 0
  <2>5. c = IF h = g /\ p \in S THEN 1 ELSE 0
    BY DEF NoChain
  <2>6. d = IF h = g /\ p \in StillSad(S, f) THEN 1 ELSE 0
    BY <1>2 DEF NoChain
  <2>7. /\ IsFiniteSet(HappyAt(h, p)')
        /\ Cardinality(HappyAt(h, p)') = Cardinality(HappyAt(h, p)) + new
    <3>1. CASE h = g /\ p \notin f.sad
      <4>1. HappyAt(h, p)' = HappyAt(h, p) \cup {x}
        BY <1>2, <2>3, <3>1 DEF Shown
      <4> QED
        BY <2>2, <2>3, <3>1, <4>1, FS_AddElement
    <3>2. CASE ~(h = g /\ p \notin f.sad)
      <4>1. HappyAt(h, p)' = HappyAt(h, p)
        BY <1>2, <2>3, <3>2 DEF Shown
      <4> QED
        BY <2>2, <3>2, <4>1
    <3> QED
      BY <3>1, <3>2
  <2>8. Owed(h, p) = left[h] + c /\ Owed(h, p)' = left'[h] + d
    BY DEF Owed
  <2>9. left[h] + c <= left'[h] + d + new
    <3>1. CASE h # g
      BY <2>1, <2>5, <2>6, <3>1
    <3>2. CASE h = g /\ S = {}
      <4>1. StillSad(S, f) = f.sad /\ c = 0 /\ left[h] = left'[h] + 1
        BY <2>5, <3>2 DEF StillSad
      <4>2. d + new = 1 /\ d \in Nat /\ new \in Nat
        BY <2>6, <3>2, <4>1
      <4> HIDE DEF c, d, new
      <4> QED
        BY <2>1, <4>1, <4>2
    <3>3. CASE h = g /\ S # {}
      <4>1. StillSad(S, f) = f.sad \cap S /\ left[h] = left'[h]
        BY <3>3, <2>1 DEF StillSad
      <4>2. c <= d + new /\ c \in Nat /\ d \in Nat /\ new \in Nat
        BY <2>5, <2>6, <3>3, <4>1
      <4> HIDE DEF c, d, new
      <4> QED
        BY <2>1, <4>1, <4>2
    <3> QED
      BY <3>1, <3>2, <3>3
  <2>10. c \in Nat /\ d \in Nat /\ new \in Nat
    OBVIOUS
  <2> HIDE DEF c, d, new
  <2>11. Cardinality(HappyAt(h, p)') + Owed(h, p)' >= fgens'[h].dup
    <3>1. PICK n \in Nat : n = Cardinality(HappyAt(h, p))
      BY <2>2
    <3>2. n + left[h] + c >= fgens[h].dup
      BY <2>1, <2>2, <2>8, <2>10, <3>1
    <3>3. n + new + left'[h] + d >= fgens[h].dup
      BY <2>1, <2>9, <2>10, <3>1, <3>2, StillEnough
    <3>4. Cardinality(HappyAt(h, p)') + Owed(h, p)' = n + new + left'[h] + d
      BY <2>1, <2>7, <2>8, <2>10, <3>1
    <3> QED
      BY <2>1, <3>3, <3>4
  <2> QED
    BY <2>7, <2>11 DEF Paid
<1> QED
  <2>1. CASE pc' # "failed"
    <3>1. PICK f \in Made : \E x :
             /\ pc' = pc /\ f.gen = g
             /\ chain' = IF StillSad(S, f) = {} THEN NoChain
                         ELSE [gen |-> g, sad |-> StillSad(S, f)]
             /\ \A h, p : /\ x \notin HappyAt(h, p)
                          /\ HappyAt(h, p)' = HappyAt(h, p) \cup Shown(f, h, p, x)
      BY <2>1, InstallAdds
    <3> QED
      BY <1>2, <3>1
  <2> QED
    BY <1>1, <2>1

LEMMA PaidNext == IInv /\ AllPaid /\ [Next]_vars => AllPaid'
<1> SUFFICES ASSUME IInv, AllPaid, [Next]_vars PROVE AllPaid'
  OBVIOUS
<1>1. ASSUME NEW G \in Generators, AddFuzzer(G) PROVE AllPaid'
  BY <1>1 DEF AddFuzzer, AllPaid
<1>2. CASE Run
  <2>1. ASSUME NEW g \in DOMAIN fgens, NEW p \in Props PROVE Paid(g, p)'
    <3>1. HappyAt(g, p)' = {}
      BY <1>2 DEF Run, IInv, TypeOK, HappyAt
    <3>2. fgens[g].dup \in Nat /\ fgens'[g].dup = fgens[g].dup /\ left'[g] = fgens[g].dup
      BY <1>2, GeneratorsFit DEF Run, IInv, TypeOK
    <3>3. Owed(g, p)' = fgens[g].dup
      BY <1>2, <3>2 DEF Run, IInv, TypeOK, Owed, NoChain
    <3>4. Cardinality(HappyAt(g, p)') = 0 /\ IsFiniteSet(HappyAt(g, p)')
      BY <3>1, FS_EmptySet
    <3> QED
      BY <3>2, <3>3, <3>4 DEF Paid
  <2> QED
    BY <1>2, <2>1 DEF Run, AllPaid
<1>3. ASSUME NEW g \in 1..Len(fgens), Start(g) PROVE AllPaid'
  <2>1. g \in DOMAIN fgens /\ g \in DOMAIN left /\ left \in Seq(Nat) /\ pc = "prep"
        /\ chain = NoChain /\ Len(left) = Len(fgens)
    BY <1>3 DEF Start, IInv, TypeOK
  <2>2. left' \in Seq(Nat) /\ Len(left') = Len(left) /\ left[g] = left'[g] + 1
        /\ \A h \in DOMAIN fgens : h # g => left'[h] = left[h]
    <3>1. left' = [left EXCEPT ![g] = @ - 1] /\ left[g] > 0 /\ left[g] \in Nat
      BY <1>3, <2>1 DEF Start
    <3>2. left[g] - 1 \in Nat /\ left[g] = (left[g] - 1) + 1
      BY <3>1
    <3>3. DOMAIN fgens = DOMAIN left
      BY <2>1 DEF IInv, TypeOK
    <3> QED
      BY <2>1, <3>1, <3>2, <3>3
  <2>3. Install(g, {}) /\ UNCHANGED fgens
    BY <1>3 DEF Start
  <2>4. \A h \in DOMAIN fgens, p \in Props : Paid(h, p)
    BY <2>1 DEF AllPaid
  <2>5. pc' = "failed" \/ (pc' = "prep" /\ \A h \in DOMAIN fgens, p \in Props : Paid(h, p)')
    BY <2>1, <2>2, <2>3, <2>4, InstallPays
  <2> QED
    BY <2>3, <2>5 DEF AllPaid
<1>4. CASE Follow
  <2>1. chain.gen \in DOMAIN fgens /\ chain.sad \in SUBSET Props /\ chain.sad # {}
        /\ pc = "prep" /\ chain # NoChain
    BY <1>4 DEF Follow, IInv, TypeOK
  <2>2. left' = left /\ left \in Seq(Nat) /\ Len(left) = Len(fgens)
    BY <1>4 DEF Follow, IInv, TypeOK
  <2>3. Install(chain.gen, chain.sad) /\ UNCHANGED fgens
    BY <1>4 DEF Follow
  <2>4. \A h \in DOMAIN fgens, p \in Props : Paid(h, p)
    BY <2>1 DEF AllPaid
  <2>5. left[chain.gen] \in Nat
    BY <2>1, <2>2 DEF IInv, TypeOK
  <2>6. pc' = "failed" \/ (pc' = "prep" /\ \A h \in DOMAIN fgens, p \in Props : Paid(h, p)')
    BY <2>1, <2>2, <2>3, <2>4, <2>5, InstallPays
  <2> QED
    BY <2>3, <2>6 DEF AllPaid
<1>5. CASE Finish
  <2>1. ASSUME NEW g \in DOMAIN fgens, NEW p \in Props PROVE Paid(g, p)'
    BY <1>5 DEF Finish, AllPaid, Paid, Owed, HappyAt
  <2> QED
    BY <1>5, <2>1 DEF Finish, AllPaid, IInv, TypeOK
<1>6. CASE UNCHANGED vars
  BY <1>6 DEF vars, AllPaid, Paid, Owed, HappyAt
<1> QED
  BY <1>1, <1>2, <1>3, <1>4, <1>5, <1>6 DEF Next

\* When the batches are ready, every property was shown as often as its generator
\* was to be repeated, whichever sites chance picked (FpgaFuzzerChainGen).
THEOREM NothingLeftSad == Spec => []EveryPropExercised
<1>1. Init => AllPaid
  BY DEF Init, AllPaid
<1>2. IInv /\ AllPaid => EveryPropExercised
  <2> SUFFICES ASSUME IInv, AllPaid, pc = "ready", NEW g \in DOMAIN fgens, NEW p \in Props
               PROVE  Cardinality(HappyAt(g, p)) >= fgens[g].dup
    BY DEF EveryPropExercised
  <2>1. Owed(g, p) = 0
    BY DEF AllPaid, Owed, NoChain
  <2>2. Cardinality(HappyAt(g, p)) \in Nat /\ fgens[g].dup \in Nat
    BY FS_CardinalityType, GeneratorsFit DEF AllPaid, Paid, IInv, TypeOK
  <2> QED
    BY <2>1, <2>2 DEF AllPaid, Paid
<1> QED
  BY <1>1, <1>2, PaidNext, Invariance, PTL DEF Spec

-----------------------------------------------------------------------------
(* The codewords of a batch (HammerCode).                                  *)

\* The words in use are told apart, by numbers below cw.
WordsBelow == \A x \in DOMAIN code : code[x] < cw

\* Where the batch is.
BatchAt ==
    /\ stage # "failed" => width < MaxWidth
    /\ stage \notin {"code", "failed"} => todo = {}
    /\ stage \in {"code", "run"} => skip = {}
    /\ stage = "diagnose" => Fails(skip)
    /\ stage = "report" => Fails(skip) /\ Irreducible
    /\ stage = "ok" => ~Fails({})
    /\ stage = "ok" => found = [x \in Switches |->
                  {p \in Positions : Seen(p, {}) # {} /\ Seen(p, {}) = OneBits(code[x])}]

CodeInv == CodeTypeOK /\ WordsBelow /\ CodesFit /\ BatchAt

\* Two switches, of fuzzers that are not left out, set position p.
Meet(p, S, x, y) ==
    x \in react[p] /\ y \in react[p] /\ x # y /\ x[1] \notin S /\ y[1] \notin S

-----------------------------------------------------------------------------
(* Binary notation.                                                        *)

\* Every nonempty set of numbers has a least one.
LEMMA LeastNat ==
    ASSUME NEW T \in SUBSET Nat, T # {}
    PROVE  \E n \in T : \A m \in T : n <= m
<1> DEFINE U == {1..n : n \in T}
<1>1. U \subseteq FiniteSubsetsOf(Nat) /\ U # {}
  <2>1. ASSUME NEW n \in T PROVE 1..n \in FiniteSubsetsOf(Nat)
    <3>1. n \in Int /\ 1 \in Int /\ 1..n \subseteq Nat
      OBVIOUS
    <3>2. IsFiniteSet(1..n)
      BY <3>1, FS_Interval
    <3> QED
      BY <3>1, <3>2 DEF FiniteSubsetsOf
  <2> QED
    BY <2>1 DEF FiniteSubsetsOf
<1>2. PICK x \in U : \A y \in U : <<y, x>> \notin StrictSubsetOrdering(Nat)
  <2> HIDE DEF U
  <2> QED
    BY <1>1, FS_StrictSubsetOrderingWellFounded, WFMin
<1>3. PICK n \in T : x = 1..n
  BY <1>2
<1>4. ASSUME NEW m \in T, m < n PROVE FALSE
  <2>1. 1..m \subseteq 1..n /\ 1..m # 1..n
    <3>1. n \in 1..n /\ n \notin 1..m
      BY <1>4
    <3> QED
      BY <1>4, <3>1
  <2>2. <<1..m, x>> \in StrictSubsetOrdering(Nat)
    BY <2>1, <1>3 DEF StrictSubsetOrdering
  <2> QED
    BY <2>2, <1>2
<1> QED
  BY <1>4

\* Induction up to MaxWidth, over the widths of which something holds.
LEMMA WidthInduction ==
    ASSUME NEW T, 0 \in T, \A w \in 0..(MaxWidth - 1) : w \in T => w + 1 \in T
    PROVE  \A w \in 0..MaxWidth : w \in T
<1> SUFFICES ASSUME NEW v \in 0..MaxWidth, v \notin T PROVE FALSE
  OBVIOUS
<1> DEFINE U == {w \in 0..MaxWidth : w \notin T}
<1>1. U \subseteq Nat /\ U # {}
  BY MaxWidthNat
<1>2. PICK w \in U : \A u \in U : w <= u
  <2> HIDE DEF U
  <2> QED
    BY <1>1, LeastNat
<1>3. w \in Nat /\ w # 0 /\ w <= MaxWidth /\ MaxWidth \in Nat
  BY MaxWidthNat
<1>4. w - 1 \in 0..(MaxWidth - 1) /\ w - 1 \notin U
  BY <1>2, <1>3
<1>5. w - 1 \in T
  BY <1>3, <1>4
<1> QED
  BY <1>3, <1>4, <1>5

LEMMA PowerFacts ==
    /\ 2^0 = 1
    /\ \A w \in 0..MaxWidth : 2^w \in Nat \ {0}
    /\ \A w \in 0..MaxWidth : 2^w <= 2^(w + 1)
<1>1. 2^0 = 1
  OBVIOUS
<1> DEFINE T == {w \in 0..MaxWidth : 2^w \in Nat \ {0}}
<1>2. \A w \in 0..MaxWidth : w \in T
  <2>1. 0 \in T
    BY <1>1, MaxWidthNat
  <2>2. ASSUME NEW w \in 0..(MaxWidth - 1), w \in T PROVE w + 1 \in T
    <3>1. w + 1 \in 0..MaxWidth /\ w \in 0..MaxWidth
      BY MaxWidthNat
    <3>2. 2^(w + 1) = 2 * 2^w /\ 2^w \in Nat \ {0}
      BY <2>2, <3>1, Powers
    <3>3. 2^(w + 1) \in Nat \ {0}
      BY <3>2
    <3> QED
      BY <3>1, <3>3
  <2> HIDE DEF T
  <2> QED
    BY <2>1, <2>2, WidthInduction
<1>3. \A w \in 0..MaxWidth : 2^w \in Nat \ {0}
  BY <1>2
<1> QED
  BY <1>1, <1>3, Powers

\* A number below 2^w has no digit from w on.
LEMMA DigitsBelow ==
    ASSUME NEW w \in 0..MaxWidth, NEW n \in 0..(2^w - 1)
    PROVE  OneBits(n) \subseteq 0..(w - 1)
<1> DEFINE T == {v \in 0..MaxWidth : v >= w => n < 2^v}
<1>1. n \in Nat /\ n < 2^w
  BY PowerFacts
<1>2. \A v \in 0..MaxWidth : v \in T
  <2>1. 0 \in T
    <3>1. w <= 0 => w = 0 /\ n < 2^0
      <4>1. CASE w = 0
        BY <1>1, <4>1
      <4> QED
        BY <4>1
    <3> QED
      BY <1>1, <3>1, MaxWidthNat
  <2>2. ASSUME NEW v \in 0..(MaxWidth - 1), v \in T PROVE v + 1 \in T
    <3>1. v \in 0..MaxWidth /\ v + 1 \in 0..MaxWidth /\ w \in Nat /\ v \in Nat
      BY MaxWidthNat
    <3>2. 2^v <= 2^(v + 1) /\ 2^v \in Nat /\ 2^(v + 1) \in Nat
      BY <3>1, PowerFacts
    <3>3. CASE v + 1 = w
      BY <1>1, <3>1, <3>3
    <3>4. CASE v + 1 # w
      BY <2>2, <1>1, <3>1, <3>2, <3>4
    <3> QED
      BY <3>3, <3>4
  <2> HIDE DEF T
  <2> QED
    BY <2>1, <2>2, WidthInduction
<1>3. ASSUME NEW i \in 0..(MaxWidth - 1), i >= w PROVE (n \div 2^i) % 2 # 1
  <2>1. i \in 0..MaxWidth
    BY MaxWidthNat
  <2>2. n < 2^i /\ 2^i \in Nat
    BY <1>2, <1>3, <2>1, PowerFacts
  <2>3. \A d \in Nat : n < d => (n \div d) % 2 = 0
    <3>1. \A d \in Nat : n < d => n \div d = 0
      BY <1>1
    <3>2. 0 % 2 = 0
      OBVIOUS
    <3> QED
      BY <3>1, <3>2
  <2> QED
    BY <2>2, <2>3
<1>4. \A i \in OneBits(n) : i \in 0..(MaxWidth - 1) /\ (n \div 2^i) % 2 = 1
  BY DEF OneBits
<1>5. \A i \in OneBits(n) : ~(i >= w)
  BY <1>3, <1>4
<1> QED
  BY <1>4, <1>5, MaxWidthNat

\* The digits of half a number.
LEMMA HalfDigits ==
    ASSUME NEW n \in Nat, NEW i \in 0..MaxWidth
    PROVE  n \div 2^(i + 1) = (n \div 2) \div 2^i
<1> DEFINE d == 2^i
<1>1. 2^(i + 1) = 2 * d /\ d \in Nat \ {0}
  BY Powers, PowerFacts
<1> HIDE DEF d
<1>2. n \div (2 * d) = (n \div 2) \div d
  BY <1>1
<1> QED
  BY <1>1, <1>2 DEF d

\* Numbers are told apart by their digits.
LEMMA DigitsTell ==
    ASSUME NEW w \in 0..MaxWidth, NEW m \in 0..(2^w - 1), NEW n \in 0..(2^w - 1),
           OneBits(m) = OneBits(n)
    PROVE  m = n
<1> DEFINE Digit(x, i) == (x \div 2^i) % 2
           Same(x, y, v) == \A i \in 0..(v - 1) : Digit(x, i) = Digit(y, i)
           T == {v \in 0..MaxWidth :
                   \A x, y \in 0..(2^v - 1) : Same(x, y, v) => x = y}
<1>1. \A v \in 0..MaxWidth : v \in T
  <2>1. 0 \in T
    <3>1. 0 \in 0..MaxWidth
      BY MaxWidthNat
    <3>2. \A x \in 0..(2^0 - 1) : x = 0
      BY PowerFacts
    <3> QED
      BY <3>1, <3>2
  <2>2. ASSUME NEW v \in 0..(MaxWidth - 1), v \in T PROVE v + 1 \in T
    <3>1. v \in 0..MaxWidth /\ v + 1 \in 0..MaxWidth /\ v \in Nat
      BY MaxWidthNat
    <3>2. ASSUME NEW x \in 0..(2^(v + 1) - 1), NEW y \in 0..(2^(v + 1) - 1), Same(x, y, v + 1)
          PROVE  x = y
      <4>1. 2^(v + 1) = 2 * 2^v /\ 2^v \in Nat /\ x \in Nat /\ y \in Nat
        BY <3>1, Powers, PowerFacts
      <4>2. x \div 2 \in 0..(2^v - 1) /\ y \div 2 \in 0..(2^v - 1)
        <5>1. \A d \in Nat : \A z \in 0..(2 * d - 1) : z \div 2 \in 0..(d - 1)
          OBVIOUS
        <5> QED
          BY <4>1, <5>1
      <4>3. ASSUME NEW i \in 0..(v - 1) PROVE Digit(x \div 2, i) = Digit(y \div 2, i)
        <5>1. i + 1 \in 0..((v + 1) - 1) /\ i \in 0..MaxWidth
          BY <3>1, MaxWidthNat
        <5>2. Digit(x, i + 1) = Digit(y, i + 1)
          BY <3>2, <5>1
        <5> QED
          BY <4>1, <5>1, <5>2, HalfDigits
      <4>4. x \div 2 = y \div 2
        BY <2>2, <4>2, <4>3
      <4>5. x % 2 = y % 2
        <5>1. 0 \in 0..((v + 1) - 1)
          BY <3>1
        <5>2. Digit(x, 0) = Digit(y, 0)
          BY <3>2, <5>1
        <5>3. x \div 1 = x /\ y \div 1 = y
          BY <4>1
        <5> QED
          BY <5>2, <5>3, PowerFacts
      <4>6. x = 2 * (x \div 2) + (x % 2) /\ y = 2 * (y \div 2) + (y % 2)
        BY <4>1
      <4> QED
        BY <4>4, <4>5, <4>6
    <3> QED
      BY <3>1, <3>2
  <2> HIDE DEF T
  <2> QED
    BY <2>1, <2>2, WidthInduction
<1>2. ASSUME NEW i \in 0..(w - 1) PROVE Digit(m, i) = Digit(n, i)
  <2>1. i \in 0..(MaxWidth - 1) /\ i \in 0..MaxWidth
    BY MaxWidthNat
  <2>2. m \in Nat /\ n \in Nat /\ 2^i \in Nat \ {0}
    BY <2>1, PowerFacts
  <2>3. Digit(m, i) \in {0, 1} /\ Digit(n, i) \in {0, 1}
    BY <2>2
  <2>4. Digit(m, i) = 1 <=> Digit(n, i) = 1
    BY <2>1 DEF OneBits
  <2> QED
    BY <2>3, <2>4
<1> QED
  BY <1>1, <1>2

\* Numbers below 2^w are told apart by their w low digits.
LEMMA Binary ==
    \A w \in 0..MaxWidth :
        /\ 2^w \in Nat /\ 2^w <= 2^(w + 1)
        /\ \A n \in 0..(2^w - 1) : OneBits(n) \subseteq 0..(w - 1)
        /\ \A m, n \in 0..(2^w - 1) : OneBits(m) = OneBits(n) => m = n
  BY PowerFacts, DigitsBelow, DigitsTell

-----------------------------------------------------------------------------
(* Words.                                                                  *)

\* The words of a coded batch: subsets of the runs, of one size, all different.
LEMMA WordFacts ==
    ASSUME CodeTypeOK, CodesFit, todo = {}, stage # "failed"
    PROVE  /\ width \in Nat \ {0}
           /\ \A x \in Switches : /\ OneBits(code[x]) \subseteq 0..(width - 1)
                                  /\ OneBits(code[x]) # {}
                                  /\ IsFiniteSet(OneBits(code[x]))
                                  /\ Cardinality(OneBits(code[x])) = Half(width)
           /\ \A x, y \in Switches : OneBits(code[x]) = OneBits(code[y]) => x = y
<1>1. width \in Nat \ {0} /\ width \in 0..MaxWidth
  BY MaxWidthNat DEF CodeTypeOK
<1>2. DOMAIN code = Switches /\ \A x \in Switches : code[x] \in 0..(2^width - 1)
  BY DEF CodeTypeOK
<1>3. \A x \in Switches : OneBits(code[x]) \subseteq 0..(width - 1)
  BY <1>1, <1>2, Binary
<1>4. IsFiniteSet(0..(width - 1))
  BY <1>1, FS_Interval
<1>5. \A x \in Switches : IsFiniteSet(OneBits(code[x]))
  BY <1>3, <1>4, FS_Subset
<1>6. \A x \in Switches : Cardinality(OneBits(code[x])) = Half(width)
  BY <1>2 DEF CodesFit
<1>7. Half(width) # 0
  BY <1>1 DEF Half
<1>8. \A x \in Switches : OneBits(code[x]) # {}
  BY <1>6, <1>7, FS_EmptySet
<1>9. ASSUME NEW x \in Switches, NEW y \in Switches, OneBits(code[x]) = OneBits(code[y])
      PROVE  x = y
  <2>1. code[x] = code[y]
    BY <1>1, <1>2, <1>9, Binary
  <2> QED
    BY <1>2, <2>1 DEF CodesFit
<1> QED
  BY <1>1, <1>3, <1>5, <1>6, <1>8, <1>9

\* A position that two switches set shows no switch's word.
LEMMA MeetFails ==
    ASSUME CodeTypeOK, CodesFit, todo = {}, stage # "failed", NEW S, NEW p \in Positions,
           NEW x \in Switches, NEW y \in Switches, Meet(p, S, x, y)
    PROVE  Fails(S)
<1>1. OneBits(code[x]) \subseteq Seen(p, S) /\ OneBits(code[y]) \subseteq Seen(p, S)
  BY WordFacts DEF Seen, Meet
<1>2. Seen(p, S) # {}
  BY <1>1, WordFacts
<1>3. ASSUME NEW z \in Switches, OneBits(code[z]) = Seen(p, S) PROVE FALSE
  <2>1. OneBits(code[x]) = OneBits(code[z])
    BY <1>1, <1>3, WordFacts, FS_Subset
  <2>2. OneBits(code[y]) = OneBits(code[z])
    BY <1>1, <1>3, WordFacts, FS_Subset
  <2> QED
    BY <2>1, <2>2, WordFacts DEF Meet
<1> QED
  BY <1>2, <1>3 DEF Fails

\* A position that one switch sets shows its word.
LEMMA AloneSeen ==
    ASSUME CodeTypeOK, CodesFit, todo = {}, stage # "failed", NEW S, NEW p \in Positions,
           NEW x \in react[p], x[1] \notin S,
           \A y \in react[p] : y[1] \notin S => y = x
    PROVE  x \in Switches /\ Seen(p, S) = OneBits(code[x])
<1>1. x \in Switches
  BY DEF CodeTypeOK
<1>2. OneBits(code[x]) \subseteq 0..(width - 1)
  BY <1>1, WordFacts
<1> QED
  BY <1>1, <1>2 DEF Seen

\* A failing batch has a position two switches set.
LEMMA FailsMeet ==
    ASSUME CodeTypeOK, CodesFit, todo = {}, stage # "failed", NEW S, Fails(S)
    PROVE  \E p \in Positions : \E x, y \in Switches : Meet(p, S, x, y)
<1>1. PICK p \in Positions : /\ Seen(p, S) # {}
                             /\ \A x \in Switches : OneBits(code[x]) # Seen(p, S)
  BY DEF Fails
<1>2. PICK x \in react[p] : x[1] \notin S
  BY <1>1 DEF Seen
<1>3. react[p] \subseteq Switches
  BY DEF CodeTypeOK
<1>4. ~(\A y \in react[p] : y[1] \notin S => y = x)
  BY <1>1, <1>2, AloneSeen
<1> QED
  BY <1>2, <1>3, <1>4 DEF Meet

-----------------------------------------------------------------------------
(* The invariant.                                                          *)

LEMMA CodeInitInv == CodeInit => CodeInv
<1> SUFFICES ASSUME CodeInit PROVE CodeInv
  OBVIOUS
<1>1. Switches \ todo = {} /\ todo = Switches
  BY DEF CodeInit
<1>2. code \in [Switches \ todo -> 0..(2^width - 1)] /\ DOMAIN code = {}
  BY <1>1 DEF CodeInit, NoCode
<1>3. 2^1 \in Nat
  BY MaxWidthNat, Binary
<1>4. width \in 1..MaxWidth /\ cw \in 0..2^width
  BY <1>3, MaxWidthNat DEF CodeInit
<1>5. react \in [Positions -> SUBSET Switches] /\ found \in [Switches -> SUBSET Positions]
  BY DEF CodeInit, NoReact
<1>6. CodeTypeOK
  BY <1>1, <1>2, <1>4, <1>5 DEF CodeTypeOK, CodeInit
<1>7. WordsBelow /\ CodesFit
  BY <1>2 DEF WordsBelow, CodesFit
<1>8. BatchAt
  BY MaxWidthNat DEF CodeInit, BatchAt
<1> QED
  BY <1>6, <1>7, <1>8 DEF CodeInv

\* Widening starts all over; a batch that cannot be widened keeps its words.
LEMMA WidenInv == CodeInv /\ Widen => CodeInv'
<1> SUFFICES ASSUME CodeInv, Widen PROVE CodeInv'
  OBVIOUS
<1> USE DEF CodeInv
<1>1. Switches' = Switches /\ Fuzzers' = Fuzzers /\ width \in Nat /\ width' = width + 1
  BY DEF Widen, Switches, Fuzzers, CodeTypeOK
<1>2. CASE width' < MaxWidth
  <2>1. cw' = 0 /\ code' = NoCode /\ todo' = Switches /\ stage' = "code"
    BY <1>2 DEF Widen
  <2>2. 2^(width + 1) \in Nat /\ width' \in 1..MaxWidth
    BY <1>1, <1>2, MaxWidthNat, Binary
  <2>3. code' \in [Switches \ todo' -> 0..(2^width' - 1)] /\ DOMAIN code' = {}
    BY <2>1 DEF NoCode
  <2>4. cw' \in 0..2^width'
    BY <1>1, <2>1, <2>2
  <2>5. CodeTypeOK'
    BY <1>1, <2>1, <2>2, <2>3, <2>4 DEF CodeTypeOK, Widen
  <2> QED
    BY <1>2, <2>1, <2>3, <2>5 DEF WordsBelow, CodesFit, BatchAt, Widen
<1>3. CASE ~(width' < MaxWidth)
  <2>1. UNCHANGED <<cw, code, todo>> /\ stage' = "failed"
    BY <1>3 DEF Widen
  <2>2. width' = MaxWidth /\ width \in 0..MaxWidth /\ width' \in 0..MaxWidth
    BY <1>1, <1>3, MaxWidthNat DEF Widen, BatchAt, CodeTypeOK
  <2>3. 2^width \in Nat /\ 2^width' \in Nat /\ 2^width <= 2^width'
    BY <1>1, <2>2, Binary
  <2>4. \A n \in 0..(2^width - 1) : n \in 0..(2^width' - 1)
    BY <2>3
  <2>5. \A n \in 0..2^width : n \in 0..2^width'
    BY <2>3
  <2>6. code' \in [Switches' \ todo' -> 0..(2^width' - 1)]
    BY <1>1, <2>1, <2>4 DEF CodeTypeOK
  <2>7. cw' \in 0..2^width'
    BY <2>1, <2>5 DEF CodeTypeOK
  <2>8. CodeTypeOK'
    BY <1>1, <2>1, <2>2, <2>6, <2>7, MaxWidthNat DEF CodeTypeOK, Widen
  <2>9. WordsBelow'
    BY <2>1 DEF WordsBelow
  <2> QED
    BY <2>1, <2>8, <2>9 DEF CodesFit, BatchAt
<1> QED
  BY <1>2, <1>3

\* A switch gets a word nobody has, of the right size.
LEMMA AssignInv == ASSUME CodeInv, NEW x \in Switches, Assign(x) PROVE CodeInv'
<1> USE DEF CodeInv
<1>1. /\ Switches' = Switches /\ Fuzzers' = Fuzzers /\ width' = width
      /\ DOMAIN code = Switches \ todo /\ x \in todo /\ stage = "code" /\ stage' = stage
  BY DEF Assign, Switches, Fuzzers, CodeTypeOK
<1>2. width \in 0..MaxWidth /\ 2^width \in Nat /\ cw \in Nat /\ cw < 2^width
  BY MaxWidthNat, Binary DEF Assign, Exhausted, CodeTypeOK
<1>3. /\ DOMAIN code' = Switches \ todo' /\ code'[x] = cw
      /\ \A y \in DOMAIN code : y # x /\ code'[y] = code[y]
  BY <1>1 DEF Assign, CodeTypeOK
<1>4. \A y \in Switches \ todo' : y = x \/ y \in DOMAIN code
  BY <1>1 DEF Assign
<1>5. \A y \in DOMAIN code : code[y] \in 0..(2^width - 1)
  BY DEF CodeTypeOK
<1>6. code' \in [Switches \ todo' -> 0..(2^width - 1)]
  BY <1>2, <1>3, <1>4, <1>5 DEF Assign
<1>7. cw' = cw + 1 /\ cw' \in 0..2^width
  BY <1>2 DEF Assign, NextWord
<1>8. CodeTypeOK'
  BY <1>1, <1>6, <1>7 DEF CodeTypeOK, Assign
<1>9. \A y \in DOMAIN code : code[y] \in Nat /\ code[y] < cw
  BY <1>2, <1>5 DEF WordsBelow
<1>10. WordsBelow'
  BY <1>2, <1>3, <1>4, <1>7, <1>9 DEF WordsBelow
<1>11. ASSUME NEW y \in DOMAIN code', NEW z \in DOMAIN code', code'[y] = code'[z]
       PROVE  y = z
  <2>1. y = x \/ y \in DOMAIN code
    BY <1>3, <1>4
  <2>2. z = x \/ z \in DOMAIN code
    BY <1>3, <1>4
  <2>3. CASE y \in DOMAIN code /\ z \in DOMAIN code
    BY <1>1, <1>3, <1>11, <2>3 DEF CodesFit
  <2>4. CASE y = x /\ z \in DOMAIN code
    BY <1>2, <1>3, <1>9, <1>11, <2>4
  <2>5. CASE z = x /\ y \in DOMAIN code
    BY <1>2, <1>3, <1>9, <1>11, <2>5
  <2> QED
    BY <2>1, <2>2, <2>3, <2>4, <2>5
<1>12. \A y \in DOMAIN code' : Cardinality(OneBits(code'[y])) = Half(width)
  BY <1>1, <1>3, <1>4 DEF CodesFit, Assign, Fits
<1>13. CodesFit'
  BY <1>1, <1>11, <1>12 DEF CodesFit
<1>14. BatchAt'
  BY <1>1 DEF BatchAt, Assign
<1> QED
  BY <1>8, <1>10, <1>13, <1>14

\* The other steps leave the words alone.
LEMMA CodeStepInv == CodeInv /\ [CodeNext]_codeVars => CodeInv'
<1> SUFFICES ASSUME CodeInv, [CodeNext]_codeVars PROVE CodeInv'
  OBVIOUS
<1> USE DEF CodeInv
<1>1. CASE Widen
  BY <1>1, WidenInv
<1>2. CASE \E x \in Switches : Assign(x)
  BY <1>2, AssignInv
<1>3. CASE Skip
  <2>1. width \in 0..MaxWidth /\ 2^width \in Nat /\ cw \in Nat /\ cw < 2^width
    BY <1>3, MaxWidthNat, Binary DEF Skip, Exhausted, CodeTypeOK
  <2>2. cw' = cw + 1 /\ cw' \in 0..2^width
    BY <1>3, <2>1 DEF Skip
  <2>3. Switches' = Switches /\ Fuzzers' = Fuzzers
    BY <1>3 DEF Skip, Switches, Fuzzers
  <2>4. CodeTypeOK'
    BY <1>3, <2>2, <2>3 DEF CodeTypeOK, Skip
  <2>5. \A y \in DOMAIN code : code[y] \in Nat
    BY <2>1 DEF CodeTypeOK
  <2>6. WordsBelow'
    BY <1>3, <2>1, <2>2, <2>5 DEF WordsBelow, Skip
  <2> QED
    BY <1>3, <2>4, <2>6 DEF Skip, CodesFit, BatchAt
<1>4. ASSUME UNCHANGED <<bitsOf, width, cw, todo, code>>,
             stage \notin {"failed"}, stage' \notin {"failed"},
             react' \in [Positions -> SUBSET Switches],
             found' \in [Switches -> SUBSET Positions], skip' \subseteq Fuzzers,
             stage' \in {"run", "ok", "diagnose", "report"}
      PROVE  CodeTypeOK' /\ WordsBelow' /\ CodesFit'
  <2>1. Switches' = Switches /\ Fuzzers' = Fuzzers
    BY <1>4 DEF Switches, Fuzzers
  <2>2. CodeTypeOK'
    BY <1>4, <2>1 DEF CodeTypeOK
  <2> QED
    BY <1>4, <2>2 DEF WordsBelow, CodesFit
<1>5. CASE Build
  <2>1. CodeTypeOK' /\ WordsBelow' /\ CodesFit'
    BY <1>4, <1>5 DEF Build, CodeTypeOK
  <2> QED
    BY <1>5, <2>1 DEF Build, BatchAt
<1>6. CASE Postproc
  <2>1. found' \in [Switches -> SUBSET Positions]
    BY <1>6 DEF Postproc, CodeTypeOK
  <2>2. CodeTypeOK' /\ WordsBelow' /\ CodesFit'
    BY <1>4, <1>6, <2>1 DEF Postproc, CodeTypeOK
  <2>3. Switches' = Switches /\ stage = "run" /\ skip = {} /\ todo = {} /\ width < MaxWidth
    BY <1>6 DEF Postproc, Switches, Fuzzers, BatchAt
  <2>4. CASE Fails({})
    <3>1. Fails({})'
      BY <1>6, <2>3, <2>4 DEF Postproc, Fails, Seen
    <3> QED
      BY <1>6, <2>2, <2>3, <2>4, <3>1 DEF Postproc, BatchAt
  <2>5. CASE ~Fails({})
    <3>1. ~Fails({})' /\ stage' = "ok"
      BY <1>6, <2>3, <2>5 DEF Postproc, Fails, Seen
    <3>2. found' = [x \in Switches |->
                  {p \in Positions : Seen(p, {})' # {} /\ Seen(p, {})' = OneBits(code'[x])}]
      BY <1>6, <2>5 DEF Postproc, Seen
    <3> QED
      BY <1>6, <2>2, <2>3, <3>1, <3>2 DEF Postproc, BatchAt
  <2> QED
    BY <2>4, <2>5
<1>7. ASSUME stage = "diagnose", stage' = "diagnose", NEW S, S \subseteq Fuzzers, Fails(S),
             skip' = S, UNCHANGED <<bitsOf, width, cw, todo, code, react, found>>
      PROVE  CodeInv'
  <2>1. CodeTypeOK' /\ WordsBelow' /\ CodesFit'
    BY <1>4, <1>7 DEF CodeTypeOK
  <2>2. Fails(S)'
    BY <1>7 DEF Fails, Seen, Switches, Fuzzers
  <2>3. Fails(skip)'
    BY <1>7, <2>2
  <2> QED
    BY <1>7, <2>1, <2>3 DEF BatchAt
<1>8. ASSUME NEW C \in SUBSET Fuzzers, ReduceFast(C) PROVE CodeInv'
  <2>1. skip \cup C \subseteq Fuzzers
    BY DEF CodeTypeOK
  <2> QED
    BY <1>7, <1>8, <2>1 DEF ReduceFast
<1>9. ASSUME NEW f \in Fuzzers, ReduceSlow(f) PROVE CodeInv'
  <2>1. skip \cup {f} \subseteq Fuzzers
    BY DEF CodeTypeOK
  <2> QED
    BY <1>7, <1>9, <2>1 DEF ReduceSlow
<1>10. CASE Report
  <2>1. CodeTypeOK' /\ WordsBelow' /\ CodesFit'
    BY <1>4, <1>10 DEF Report, CodeTypeOK
  <2>2. Fails(skip) /\ Irreducible /\ todo = {} /\ width < MaxWidth
    BY <1>10 DEF Report, BatchAt
  <2>3. (Fails(skip) /\ Irreducible)'
    BY <1>10, <2>2 DEF Report, Fails, Seen, Irreducible, Left, Switches, Fuzzers
  <2> QED
    BY <1>10, <2>1, <2>2, <2>3 DEF Report, BatchAt
<1>11. CASE UNCHANGED codeVars
  <2>1. Switches' = Switches /\ Fuzzers' = Fuzzers
    BY <1>11 DEF codeVars, Switches, Fuzzers
  <2>2. CodeTypeOK'
    BY <1>11, <2>1 DEF codeVars, CodeTypeOK
  <2>3. BatchAt'
    BY <1>11, <2>1 DEF codeVars, BatchAt, Fails, Seen, Irreducible, Left
  <2> QED
    BY <1>11, <2>2, <2>3 DEF codeVars, WordsBelow, CodesFit
<1> QED
  BY <1>1, <1>2, <1>3, <1>5, <1>6, <1>8, <1>9, <1>10, <1>11 DEF CodeNext

-----------------------------------------------------------------------------
(* The theorems.                                                           *)

\* Coding, decoding and diagnosis keep the invariant.
THEOREM CodeInvariance == CodeSpec => []CodeInv
  BY CodeInitInv, CodeStepInv, PTL DEF CodeSpec

\* Words stay below the width's limit and belong to switches (prep_batch).
THEOREM CodesTypeCorrect == CodeSpec => []CodeTypeOK
<1>1. CodeInv => CodeTypeOK
  BY DEF CodeInv
<1> QED
  BY CodeInvariance, <1>1, PTL

\* No two switches of a batch share a word, and all words have as many bits
\* (prep_batch), for batches of any size.
THEOREM WordsTellApart == CodeSpec => []CodesFit
<1>1. CodeInv => CodesFit
  BY DEF CodeInv
<1> QED
  BY CodeInvariance, <1>1, PTL

\* Decoding is exact: it fails just when two switches meet in a position, and else
\* credits every position to the one switch it reacts to (postproc_batch).
THEOREM DecodingExact == CodeSpec => []Attributed
<1>1. ASSUME CodeInv, stage = "ok", NEW p \in Positions
      PROVE  /\ \A x, y \in react[p] : x = y
             /\ \A x \in Switches : p \in found[x] <=> x \in react[p]
  <2> USE <1>1 DEF CodeInv
  <2>0. todo = {} /\ ~Fails({}) /\ react[p] \subseteq Switches
    BY DEF BatchAt, CodeTypeOK
  <2>1. \A x, y \in react[p] : x = y
    BY <2>0, MeetFails DEF Meet
  <2>2. ASSUME NEW x \in react[p] PROVE x \in Switches /\ Seen(p, {}) = OneBits(code[x])
    BY <2>0, <2>1, AloneSeen
  <2>3. ASSUME NEW x \in Switches
        PROVE  p \in found[x] <=> Seen(p, {}) # {} /\ Seen(p, {}) = OneBits(code[x])
    BY <2>3 DEF BatchAt
  <2>4. ASSUME NEW x \in Switches, x \in react[p] PROVE p \in found[x]
    BY <2>0, <2>2, <2>3, <2>4, WordFacts
  <2>5. ASSUME NEW x \in Switches, p \in found[x] PROVE x \in react[p]
    <3>1. Seen(p, {}) # {} /\ Seen(p, {}) = OneBits(code[x])
      BY <2>3, <2>5
    <3>2. PICK y \in react[p] : TRUE
      BY <3>1 DEF Seen
    <3>3. OneBits(code[y]) = OneBits(code[x]) /\ y \in Switches
      BY <2>2, <3>1, <3>2
    <3> QED
      BY <2>0, <3>2, <3>3, WordFacts
  <2> QED
    BY <2>1, <2>4, <2>5
<1>2. ASSUME CodeInv, stage = "diagnose"
      PROVE  \E p \in Positions : \E x, y \in react[p] : x # y
  <2>1. todo = {} /\ Fails(skip)
    BY <1>2 DEF CodeInv, BatchAt
  <2>2. PICK p \in Positions : \E x, y \in Switches : Meet(p, skip, x, y)
    BY <1>2, <2>1, FailsMeet DEF CodeInv
  <2> QED
    BY <2>2 DEF Meet
<1>3. CodeInv => Attributed
  BY <1>1, <1>2 DEF Attributed
<1> QED
  BY CodeInvariance, <1>3, PTL

\* However the random cuts fall, the diagnosis ends with the fuzzers of two switches
\* that meet in a position, and no others (diagnose_cw_fail).
THEOREM DiagnosisMinimal == CodeSpec => []DiagnosisSharp
<1>1. ASSUME CodeInv, stage = "report"
      PROVE  /\ Left # {}
             /\ \E f, g \in Left :
                   /\ Left = {f, g}
                   /\ \E p \in Positions : \E x, y \in react[p] :
                         x # y /\ x[1] = f /\ y[1] = g
  <2> USE <1>1 DEF CodeInv
  <2>1. todo = {} /\ Fails(skip) /\ Irreducible
    BY DEF BatchAt
  <2>2. PICK p \in Positions : \E x, y \in Switches : Meet(p, skip, x, y)
    BY <2>1, FailsMeet
  <2>3. PICK x \in Switches, y \in Switches : Meet(p, skip, x, y)
    BY <2>2
  <2>4. \A z \in Switches : z[1] \in Fuzzers
    BY DEF Switches
  <2>5. x[1] \in Left /\ y[1] \in Left
    BY <2>3, <2>4 DEF Meet, Left
  <2>6. ASSUME NEW h \in Left PROVE h = x[1] \/ h = y[1]
    <3>1. SUFFICES ASSUME h # x[1], h # y[1] PROVE FALSE
      OBVIOUS
    <3>2. Meet(p, skip \cup {h}, x, y)
      BY <2>3, <3>1 DEF Meet
    <3>3. Fails(skip \cup {h})
      BY <2>1, <3>2, MeetFails
    <3> QED
      BY <2>1, <3>3 DEF Irreducible
  <2>7. Left = {x[1], y[1]}
    BY <2>5, <2>6
  <2> QED
    BY <2>3, <2>5, <2>7 DEF Meet
<1>2. CodeInv => DiagnosisSharp
  BY <1>1 DEF DiagnosisSharp
<1> QED
  BY CodeInvariance, <1>2, PTL
=============================================================================
