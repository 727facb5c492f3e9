----------------------------- MODULE OcrJobProofs ------------------------------
(***************************************************************************)
(* Proofs about one run of the OCR job (OcrJob) and about the grouping of  *)
(* fragments (FragmentGrouping), for any fragments, balloons, boxes and    *)
(* owner decisions; and that all parts of WorkerParts have their types.    *)
(***************************************************************************)
EXTENDS WorkerPartsProofs, SequenceTheorems

-----------------------------------------------------------------------------
(***************************************************************************)
(* OcrJob.  The candidates are a list that grows balloon by balloon and    *)
(* then by the loose fragments; the regions that are posted are some of    *)
(* them.                                                                   *)
(***************************************************************************)
(* What the instance calls a cardinality is one. *)
LEMMA OcrCardinality == \A S : Ocr!Cardinality(S) = Cardinality(S)
BY DEF Ocr!Cardinality, Cardinality

(* And what it calls a finite set. *)
LEMMA OcrFinite == \A S : Ocr!IsFiniteSet(S) <=> IsFiniteSet(S)
BY DEF Ocr!IsFiniteSet, IsFiniteSet

(* The list of a finite set has each element of it at one place. *)
LEMMA ListOfSet ==
    ASSUME NEW S, IsFiniteSet(S)
    PROVE  /\ Ocr!SetToSeq(S) \in Seq(S) /\ Len(Ocr!SetToSeq(S)) = Cardinality(S)
           /\ \A i, j \in 1 .. Cardinality(S) :
                 i # j => Ocr!SetToSeq(S)[i] # Ocr!SetToSeq(S)[j]
           /\ \A x \in S : \E i \in 1 .. Cardinality(S) : Ocr!SetToSeq(S)[i] = x
<1> DEFINE n == Cardinality(S)
           l == Ocr!SetToSeq(S)
<1>1. n \in Nat /\ Cardinality(1 .. n) = n /\ IsFiniteSet(1 .. n) /\ ExistsBijection(1 .. n, S)
  <2>1. n \in Nat /\ ExistsBijection(1 .. n, S)
    BY FS_CardinalityType
  <2> HIDE DEF n
  <2> QED BY <2>1, FS_Interval
<1>2. \E f \in [1 .. n -> S] : Ocr!IsInjective(f)
  BY <1>1 DEF ExistsBijection, Bijection, Injection, Ocr!IsInjective, IsInjective
<1>3. l = CHOOSE f \in [1 .. n -> S] : Ocr!IsInjective(f)
  BY OcrCardinality DEF Ocr!SetToSeq
<1> HIDE DEF l
<1>4. l \in [1 .. n -> S] /\ Ocr!IsInjective(l)
  BY <1>2, <1>3
<1>5. \A i, j \in 1 .. n : i # j => l[i] # l[j]
  BY <1>4 DEF Ocr!IsInjective
<1>6. l \in Injection(1 .. n, S)
  BY <1>4, <1>5 DEF Injection, IsInjective
<1>7. l \in Surjection(1 .. n, S)
  <2> HIDE DEF n
  <2>1. Cardinality(1 .. n) = Cardinality(S)
    BY <1>1 DEF n
  <2> QED BY <1>6, <2>1, FS_Injection
<1>8. \A x \in S : \E i \in 1 .. n : l[i] = x
  BY <1>7 DEF Surjection
<1>9. l \in Seq(S) /\ Len(l) = n
  <2> HIDE DEF n
  <2> QED BY <1>1, <1>4
<1> QED BY <1>5, <1>8, <1>9 DEF l

(* A set that is added to a list is at its end, each element at one place. *)
LEMMA SetAdded ==
    ASSUME NEW C, NEW cs \in Seq(C), NEW S \in SUBSET C, IsFiniteSet(S)
    PROVE  LET new == cs \o Ocr!SetToSeq(S)
           IN  /\ new \in Seq(C) /\ Len(new) \in Nat /\ Len(cs) \in Nat /\ Len(cs) <= Len(new)
               /\ \A i \in 1 .. Len(cs) : new[i] = cs[i]
               /\ \A i \in Len(cs) + 1 .. Len(new) : new[i] \in S
               /\ \A i, j \in Len(cs) + 1 .. Len(new) : i # j => new[i] # new[j]
               /\ \A x \in S : \E i \in Len(cs) + 1 .. Len(new) : new[i] = x
<1> DEFINE l == Ocr!SetToSeq(S)
           m == Cardinality(S)
           n == Len(cs)
           new == cs \o l
<1>1. /\ l \in Seq(S) /\ Len(l) = m /\ m \in Nat
      /\ \A i, j \in 1 .. m : i # j => l[i] # l[j]
      /\ \A x \in S : \E i \in 1 .. m : l[i] = x
  <2>1. m \in Nat
    BY FS_CardinalityType
  <2> QED BY <2>1, ListOfSet
<1> HIDE DEF l, m
<1>2. l \in Seq(C)
  BY <1>1
<1>3. /\ new \in Seq(C) /\ Len(new) = n + m
      /\ \A i \in 1 .. n + m : new[i] = IF i <= n THEN cs[i] ELSE l[i - n]
  <2>1. /\ new \in Seq(C) /\ Len(new) = n + Len(l)
        /\ \A i \in 1 .. n + Len(l) : new[i] = IF i <= n THEN cs[i] ELSE l[i - n]
    BY <1>2, ConcatProperties
  <2>2. Len(l) = m
    BY <1>1
  <2> QED BY <2>1, <2>2
<1>4. n \in Nat
  OBVIOUS
<1> HIDE DEF n, new
<1>5. l \in [1 .. m -> S]
  BY <1>1
<1>6. \A i \in n + 1 .. n + m : i - n \in 1 .. m /\ new[i] = l[i - n]
  BY <1>1, <1>3, <1>4
<1>7. ASSUME NEW x \in S PROVE \E i \in n + 1 .. n + m : new[i] = x
  <2>1. PICK i \in 1 .. m : l[i] = x
    BY <1>1
  <2>2. i + n \in n + 1 .. n + m /\ (i + n) - n = i
    BY <1>1, <1>4
  <2>3. PICK j \in n + 1 .. n + m : j - n = i
    BY <2>2
  <2> QED BY <1>6, <2>1, <2>3
<1>8. ASSUME NEW i \in n + 1 .. n + m, NEW j \in n + 1 .. n + m, i # j PROVE new[i] # new[j]
  <2>1. i - n # j - n
    BY <1>1, <1>4, <1>8
  <2>2. i - n \in 1 .. m /\ j - n \in 1 .. m /\ new[i] = l[i - n] /\ new[j] = l[j - n]
    BY <1>6
  <2>3. l[i - n] # l[j - n]
    BY <1>1, <2>1, <2>2
  <2> QED BY <2>2, <2>3
<1>9. \A i \in n + 1 .. n + m : new[i] \in S
  BY <1>5, <1>6
<1>10. \A i \in 1 .. n : new[i] = cs[i]
  BY <1>1, <1>3, <1>4
<1>11. Len(new) \in Nat /\ n <= Len(new)
  BY <1>1, <1>3, <1>4
<1>12. /\ \A i \in n + 1 .. Len(new) : new[i] \in S
       /\ \A i, j \in n + 1 .. Len(new) : i # j => new[i] # new[j]
       /\ \A x \in S : \E i \in n + 1 .. Len(new) : new[i] = x
  BY <1>3, <1>7, <1>8, <1>9
<1> QED BY <1>3, <1>4, <1>10, <1>11, <1>12, Zenon DEF n, new, l

Container == {"whole", "split", "review", "own"}
Balloon == Ocr!ToSet(Balloons)
Candidates == [fragments : SUBSET OcrFragment, balloon : Balloon \cup {"none"}, container : Container]

Holds(cs, f) == \E i \in DOMAIN cs : f \in cs[i].fragments
ApartIn(cs) == \A i, j \in DOMAIN cs : i # j => cs[i].fragments \cap cs[j].fragments = {}

(* The list with some more groups, each as one candidate. *)
Grown(cs, gs, b, got) == cs \o Ocr!SetToSeq({Ocr!Candidate(g, b, got[g]) : g \in gs})

(* The groups of some more fragments are added. *)
LEMMA GroupsAdded ==
    ASSUME IsFiniteSet(OcrFragment), NEW A \in SUBSET OcrFragment,
           NEW shares \in Ocr!Partitions(A), NEW b \in Balloon \cup {"none"},
           NEW got \in [shares -> Container],
           NEW cs \in Seq(Candidates), ApartIn(cs), \A f \in A : ~Holds(cs, f)
    PROVE  LET new == Grown(cs, shares, b, got) IN
           /\ new \in Seq(Candidates) /\ ApartIn(new)
           /\ \A f : Holds(new, f) <=> Holds(cs, f) \/ f \in A
           /\ Len(cs) <= Len(new) /\ \A i \in 1 .. Len(cs) : new[i] = cs[i]
           /\ \A i \in Len(cs) + 1 .. Len(new) :
                 /\ new[i].fragments \in shares /\ new[i].balloon = b
                 /\ new[i].container = got[new[i].fragments]
           /\ \A i, j \in Len(cs) + 1 .. Len(new) :
                 i # j => new[i].fragments # new[j].fragments
<1> DEFINE Of(g) == Ocr!Candidate(g, b, got[g])
           S == {Of(g) : g \in shares}
           new == Grown(cs, shares, b, got)
           n == Len(cs)
           k == Len(new)
<1>1. /\ shares \subseteq SUBSET A /\ UNION shares = A /\ {} \notin shares
      /\ \A g, h \in shares : g = h \/ g \cap h = {}
  BY DEF Ocr!Partitions
<1>2. IsFiniteSet(S)
  <2>1. IsFiniteSet(shares)
    <3>1. IsFiniteSet(A)
      BY FS_Subset
    <3>2. IsFiniteSet(SUBSET A)
      BY <3>1, FS_SUBSET
    <3> QED BY <1>1, <3>2, FS_Subset
  <2>2. [g \in shares |-> Of(g)] \in Surjection(shares, S)
    BY DEF Surjection
  <2> QED BY <2>1, <2>2, FS_Surjection
<1>3. \A g \in shares : /\ Of(g) \in Candidates
                        /\ Of(g).fragments = g /\ Of(g).balloon = b /\ Of(g).container = got[g]
  BY <1>1 DEF Ocr!Candidate, Candidates
<1>4. S \in SUBSET Candidates
  BY <1>3
<1>5. /\ \A x \in S : /\ x.fragments \in shares /\ x.balloon = b
                       /\ x.container = got[x.fragments] /\ x = Of(x.fragments)
      /\ \A g \in shares : \E x \in S : x.fragments = g
  BY <1>3
<1> HIDE DEF S, Of
<1>6. /\ new \in Seq(Candidates) /\ k \in Nat /\ n \in Nat /\ n <= k
      /\ \A i \in 1 .. n : new[i] = cs[i]
      /\ \A i \in n + 1 .. k : new[i] \in S
      /\ \A i, j \in n + 1 .. k : i # j => new[i] # new[j]
      /\ \A x \in S : \E i \in n + 1 .. k : new[i] = x
  <2>1. new = cs \o Ocr!SetToSeq(S)
    BY DEF Grown, S, Of
  <2> HIDE DEF new
  <2> QED BY <1>2, <1>4, <2>1, SetAdded DEF n, k
<1>7. DOMAIN new = 1 .. k /\ DOMAIN cs = 1 .. n
  BY <1>6
<1> HIDE DEF n, k, new
<1>8. \A i, j \in n + 1 .. k : i # j => new[i].fragments # new[j].fragments
  <2> SUFFICES ASSUME NEW i \in n + 1 .. k, NEW j \in n + 1 .. k, i # j,
                      new[i].fragments = new[j].fragments
               PROVE  FALSE
    OBVIOUS
  <2>1. new[i] = new[j]
    BY <1>5, <1>6
  <2> QED BY <1>6, <2>1
<1>9. \A f : Holds(new, f) <=> Holds(cs, f) \/ f \in A
  <2>1. ASSUME NEW f, Holds(new, f) PROVE Holds(cs, f) \/ f \in A
    <3>1. PICK i \in 1 .. k : f \in new[i].fragments
      BY <1>7, <2>1 DEF Holds
    <3>2. CASE i \in 1 .. n
      BY <1>6, <1>7, <3>1, <3>2 DEF Holds
    <3>3. CASE i \in n + 1 .. k
      BY <1>1, <1>5, <1>6, <3>1, <3>3
    <3> QED BY <1>6, <3>2, <3>3
  <2>2. ASSUME NEW f, Holds(cs, f) PROVE Holds(new, f)
    BY <1>6, <1>7, <2>2 DEF Holds
  <2>3. ASSUME NEW f \in A PROVE Holds(new, f)
    <3>1. PICK x \in S : f \in x.fragments
      BY <1>1, <1>5
    <3>2. PICK i \in n + 1 .. k : new[i] = x
      BY <1>6
    <3> QED BY <1>6, <1>7, <3>1, <3>2 DEF Holds
  <2> QED BY <2>1, <2>2, <2>3
<1>10. ApartIn(new)
  <2> SUFFICES ASSUME NEW i \in 1 .. k, NEW j \in 1 .. k, i < j
               PROVE  new[i].fragments \cap new[j].fragments = {}
    BY <1>6, <1>7 DEF ApartIn
  <2>1. CASE j \in 1 .. n
    <3>1. i \in 1 .. n
      BY <1>6, <2>1
    <3>2. new[i] = cs[i] /\ new[j] = cs[j]
      BY <1>6, <2>1, <3>1
    <3> QED BY <1>7, <2>1, <3>1, <3>2 DEF ApartIn
  <2>2. CASE j \in n + 1 .. k /\ i \in 1 .. n
    <3>1. new[j].fragments \subseteq A
      BY <1>1, <1>5, <1>6, <2>2
    <3>2. \A f \in new[i].fragments : Holds(cs, f)
      BY <1>6, <1>7, <2>2 DEF Holds
    <3> QED BY <3>1, <3>2
  <2>3. CASE j \in n + 1 .. k /\ i \in n + 1 .. k
    <3>1. new[i].fragments \in shares /\ new[j].fragments \in shares
      BY <1>5, <1>6, <2>3
    <3> QED BY <1>1, <1>6, <1>8, <2>3, <3>1
  <2> QED BY <1>6, <2>1, <2>2, <2>3
<1> QED BY <1>5, <1>6, <1>8, <1>9, <1>10 DEF n, k, new, S, Of

-----------------------------------------------------------------------------
(* The fragments that a balloon or a partition that is done with has. *)
OfBalloons == {f \in OcrFragment : home[f] \in Balloon \ Ocr!ToSet(todo)}
OfPartitions == {f \in Ocr!Assigned("loose") : Ocr!Partition(f) \notin Ocr!ToSet(todo)}

OcrTypes ==
    /\ yolo \in BOOLEAN
    /\ home \in [OcrFragment -> Balloon \cup {"loose", "unseen"}]
    /\ candidates \in Seq(Candidates) /\ merged \in Seq(Candidates)
    /\ pc \in {"balloons", "loose"} => todo \in Seq(Ocr!ToSet(todo)) /\ Ocr!IsInjective(todo)
    /\ pc = "balloons" => Ocr!ToSet(todo) \subseteq Balloon
    /\ pc \in {"fetch", "detect"} => candidates = <<>>
    /\ pc \in {"fetch", "detect", "balloons"} => merged = <<>>
    /\ posted.regions # {} => pc \in {"post", "ended"}

(* What has been grouped is in one candidate, and nothing else is. *)
GroupedOnce ==
    /\ ApartIn(candidates) /\ ApartIn(merged)
    /\ pc = "balloons" =>
          /\ \A f : Holds(candidates, f) <=> f \in OfBalloons
          /\ \A i \in DOMAIN candidates : candidates[i].balloon \in Balloon \ Ocr!ToSet(todo)
    /\ pc = "loose" =>
          /\ \A f : Holds(candidates, f) <=> f \in Ocr!Seen /\ home[f] # "loose"
          /\ \A f : Holds(merged, f) <=> f \in OfPartitions
          /\ \A i \in DOMAIN merged : merged[i].balloon = "none"
    /\ pc \in {"read", "order", "post"} => \A f : Holds(candidates, f) <=> f \in Ocr!Seen

(* A text and its origin for each candidate. *)
TextsKept ==
    /\ DOMAIN origin = DOMAIN texts
    /\ \A i \in DOMAIN texts : origin[i].crop \in {0, i}
    /\ pc \in {"read", "order", "post"} => DOMAIN texts = DOMAIN candidates
    /\ pc = "read" => ~Ocr!UseLocalOcr
    /\ pc \in {"order", "post"} /\ Ocr!UseLocalOcr =>
          \A i \in DOMAIN texts : texts[i] = Ocr!OwnText(candidates[i])

(* What is posted are the candidates that are kept. *)
PostedKept ==
    /\ pc = "post" => posted.regions = Ocr!Ordered
    /\ \A r \in posted.regions : r.index \in DOMAIN candidates

OcrInv == OcrTypes /\ GroupedOnce /\ TextsKept /\ PostedKept

(* What is left to be grouped once the first is. *)
LEMMA TodoStep ==
    ASSUME NEW s, s \in Seq(Ocr!ToSet(s)), Ocr!IsInjective(s), s # <<>>
    PROVE  /\ Tail(s) \in Seq(Ocr!ToSet(Tail(s))) /\ Ocr!IsInjective(Tail(s))
           /\ Ocr!ToSet(s) = {Head(s)} \cup Ocr!ToSet(Tail(s))
           /\ Head(s) \notin Ocr!ToSet(Tail(s))
<1> DEFINE n == Len(s)
           t == Tail(s)
           T == Ocr!ToSet(s)
<1>1. /\ n \in Nat /\ n > 0 /\ s \in [1 .. n -> T] /\ DOMAIN s = 1 .. n
      /\ t \in Seq(T) /\ Len(t) = n - 1 /\ DOMAIN t = 1 .. n - 1
      /\ Head(s) = s[1] /\ \A i \in 1 .. n - 1 : t[i] = s[i + 1]
  OBVIOUS
<1>2. \A i, j \in 1 .. n : s[i] = s[j] => i = j
  BY <1>1 DEF Ocr!IsInjective
<1>3. T = {s[i] : i \in 1 .. n} /\ Ocr!ToSet(t) = {t[i] : i \in 1 .. n - 1}
  BY <1>1 DEF Ocr!ToSet
<1> HIDE DEF n, t, T
<1>4. t \in [1 .. n - 1 -> Ocr!ToSet(t)]
  <2>1. t \in [1 .. n - 1 -> T]
    BY <1>1
  <2> QED BY <1>1, <1>3, <2>1
<1>5. t \in Seq(Ocr!ToSet(t))
  BY <1>1, <1>4
<1>6. Ocr!IsInjective(t)
  BY <1>1, <1>2 DEF Ocr!IsInjective
<1>7. \A x : x \in T <=> x = s[1] \/ x \in Ocr!ToSet(t)
  <2>1. ASSUME NEW i \in 1 .. n PROVE s[i] = s[1] \/ s[i] \in Ocr!ToSet(t)
    <3>1. CASE i = 1
      BY <3>1
    <3>2. CASE i # 1
      <4>1. i - 1 \in 1 .. n - 1 /\ t[i - 1] = s[i]
        BY <1>1, <3>2
      <4> QED BY <1>3, <4>1
    <3> QED BY <3>1, <3>2
  <2>2. \A i \in 1 .. n - 1 : i + 1 \in 1 .. n /\ t[i] = s[i + 1]
    BY <1>1
  <2>3. 1 \in 1 .. n
    BY <1>1
  <2> QED BY <1>3, <2>1, <2>2, <2>3
<1>8. s[1] \notin Ocr!ToSet(t)
  <2> SUFFICES ASSUME NEW i \in 1 .. n - 1, t[i] = s[1] PROVE FALSE
    BY <1>3
  <2>1. i + 1 \in 1 .. n /\ 1 \in 1 .. n /\ s[i + 1] = s[1] /\ i + 1 # 1
    BY <1>1
  <2> QED BY <1>2, <2>1
<1> QED BY <1>1, <1>5, <1>6, <1>7, <1>8 DEF t, T

(* Two lists of candidates that have nothing in common, one after the other. *)
LEMMA ListsAdded ==
    ASSUME NEW cs \in Seq(Candidates), NEW ds \in Seq(Candidates), ApartIn(cs), ApartIn(ds),
           \A f : ~(Holds(cs, f) /\ Holds(ds, f))
    PROVE  LET new == cs \o ds IN
           /\ new \in Seq(Candidates) /\ ApartIn(new)
           /\ \A f : Holds(new, f) <=> Holds(cs, f) \/ Holds(ds, f)
           /\ DOMAIN cs \subseteq DOMAIN new
           /\ \A i \in DOMAIN new :
                 \/ i \in DOMAIN cs /\ new[i] = cs[i]
                 \/ i \notin DOMAIN cs /\ \E j \in DOMAIN ds : new[i] = ds[j]
<1> DEFINE n == Len(cs)
           m == Len(ds)
           new == cs \o ds
<1>1. /\ n \in Nat /\ m \in Nat /\ DOMAIN cs = 1 .. n /\ DOMAIN ds = 1 .. m
      /\ new \in Seq(Candidates) /\ Len(new) = n + m /\ DOMAIN new = 1 .. n + m
      /\ \A i \in 1 .. n + m : new[i] = IF i <= n THEN cs[i] ELSE ds[i - n]
  BY ConcatProperties
<1> HIDE DEF n, m, new
<1>2. \A i \in 1 .. n : i \in 1 .. n + m /\ new[i] = cs[i]
  BY <1>1
<1>3. \A i \in 1 .. n + m : i \notin 1 .. n => i - n \in 1 .. m /\ new[i] = ds[i - n]
  BY <1>1
<1>4. \A f : Holds(new, f) <=> Holds(cs, f) \/ Holds(ds, f)
  <2>1. ASSUME NEW f, Holds(ds, f) PROVE Holds(new, f)
    <3>1. PICK i \in 1 .. m : f \in ds[i].fragments
      BY <1>1, <2>1 DEF Holds
    <3>2. PICK j \in 1 .. n + m : j - n = i /\ j \notin 1 .. n
      <4>1. (i + n) - n = i /\ i + n \in 1 .. n + m /\ i + n \notin 1 .. n
        BY <1>1
      <4> QED BY <4>1
    <3> QED BY <1>1, <1>3, <3>1, <3>2 DEF Holds
  <2> QED BY <1>1, <1>2, <1>3, <2>1 DEF Holds
<1>5. ApartIn(new)
  <2> SUFFICES ASSUME NEW i \in 1 .. n + m, NEW j \in 1 .. n + m, i < j
               PROVE  new[i].fragments \cap new[j].fragments = {}
    BY <1>1 DEF ApartIn
  <2>1. CASE j \in 1 .. n
    <3>1. i \in 1 .. n /\ i # j
      BY <1>1, <2>1
    <3> QED BY <1>1, <1>2, <2>1, <3>1 DEF ApartIn
  <2>2. CASE i \in 1 .. n /\ j \notin 1 .. n
    BY <1>1, <1>2, <1>3, <2>2 DEF Holds
  <2>3. CASE i \notin 1 .. n /\ j \notin 1 .. n
    <3>1. i - n # j - n
      BY <1>1
    <3> QED BY <1>1, <1>3, <2>3, <3>1 DEF ApartIn
  <2>4. j \in 1 .. n => i \in 1 .. n
    BY <1>1
  <2> QED BY <2>1, <2>2, <2>3, <2>4
<1>6. ASSUME NEW i \in 1 .. n + m
      PROVE  \/ i \in 1 .. n /\ new[i] = cs[i]
             \/ i \notin 1 .. n /\ \E j \in 1 .. m : new[i] = ds[j]
  <2>1. CASE i \in 1 .. n
    BY <1>2, <2>1
  <2>2. CASE i \notin 1 .. n
    BY <1>3, <2>2
  <2> QED BY <2>1, <2>2
<1>7. /\ new \in Seq(Candidates) /\ DOMAIN new = 1 .. n + m /\ DOMAIN cs = 1 .. n /\ DOMAIN ds = 1 .. m
  BY <1>1
<1> HIDE DEF ApartIn, Holds
<1> QED BY <1>2, <1>4, <1>5, <1>6, <1>7 DEF new

(* The first step of a run changes nothing that has been grouped. *)
LEMMA StillNothing ==
    ASSUME OcrInv, UNCHANGED <<yolo, home, candidates, merged, todo, texts, origin, posted>>,
           pc = "fetch", pc' = "detect"
    PROVE  OcrInv'
<1>1. OcrTypes'
  BY DEF OcrInv, OcrTypes
<1>2. GroupedOnce'
  BY DEF OcrInv, GroupedOnce
<1>3. TextsKept'
  BY DEF OcrInv, TextsKept
<1>4. PostedKept'
  BY DEF OcrInv, PostedKept
<1> QED BY <1>1, <1>2, <1>3, <1>4 DEF OcrInv

(* Nothing is grouped when the balloons have been found. *)
LEMMA DetectStep ==
    ASSUME Ocr!OcrAssumption, OcrInv, Ocr!Detect
    PROVE  OcrInv'
<1>1. /\ pc = "detect" /\ pc' = "balloons" /\ yolo' \in BOOLEAN
      /\ home' \in [OcrFragment -> {"loose", "unseen"} \cup IF yolo' THEN Balloon ELSE {}]
      /\ todo' = IF yolo' THEN Balloons ELSE <<>>
      /\ UNCHANGED <<candidates, merged, texts, origin, posted>>
  BY DEF Ocr!Detect, Ocr!Goto, Ocr!Reading, Balloon
<1>2. candidates = <<>> /\ merged = <<>> /\ posted.regions = {}
  BY <1>1 DEF OcrInv, OcrTypes
<1>3. /\ todo' \in Seq(Ocr!ToSet(todo')) /\ Ocr!IsInjective(todo') /\ Ocr!ToSet(todo') \subseteq Balloon
      /\ Ocr!ToSet(todo') = IF yolo' THEN Balloon ELSE {}
  <2>1. CASE yolo'
    BY <1>1, <2>1 DEF Ocr!OcrAssumption, Balloon
  <2>2. CASE ~yolo'
    BY <1>1, <2>2 DEF Ocr!ToSet, Ocr!IsInjective
  <2> QED BY <2>1, <2>2
<1>4. Balloon \cap {"none", "loose", "unseen"} = {}
  BY DEF Ocr!OcrAssumption, Balloon
<1>5. \A f : ~Holds(<<>>, f)
  BY DEF Holds
<1>6. ApartIn(<<>>)
  BY DEF ApartIn
<1>7. OcrTypes'
  BY <1>1, <1>2, <1>3 DEF OcrInv, OcrTypes, Balloon
<1>8. GroupedOnce'
  <2>1. OfBalloons' = {}
    BY <1>1, <1>3, <1>4 DEF OfBalloons, Balloon
  <2> QED BY <1>1, <1>2, <1>5, <1>6, <2>1 DEF GroupedOnce
<1>9. TextsKept'
  BY <1>1 DEF OcrInv, TextsKept
<1>10. PostedKept'
  BY <1>1, <1>2 DEF PostedKept
<1> QED BY <1>7, <1>8, <1>9, <1>10 DEF OcrInv

(* What one balloon adds to the candidates: its fragments, each in one of them. *)
AddsBalloon(new, b) ==
    /\ new \in Seq(Candidates) /\ ApartIn(new)
    /\ \A f : Holds(new, f) <=> Holds(candidates, f) \/ f \in Ocr!Assigned(b)
    /\ DOMAIN candidates \subseteq DOMAIN new
    /\ \A i \in DOMAIN candidates : new[i] = candidates[i]
    /\ \A i \in DOMAIN new \ DOMAIN candidates : new[i].balloon = b

LEMMA BalloonAdded ==
    ASSUME Ocr!OcrAssumption, OcrInv, Ocr!GroupBalloon
    PROVE  AddsBalloon(candidates', Head(todo))
<1> DEFINE b == Head(todo)
           A == Ocr!Assigned(b)
<1>1. /\ pc = "balloons" /\ todo \in Seq(Ocr!ToSet(todo)) /\ Ocr!IsInjective(todo) /\ todo # <<>>
      /\ Ocr!ToSet(todo) \subseteq Balloon
      /\ candidates \in Seq(Candidates) /\ ApartIn(candidates)
      /\ \A f : Holds(candidates, f) <=> f \in OfBalloons
  BY DEF OcrInv, OcrTypes, GroupedOnce, Ocr!GroupBalloon
<1>2. b \in Ocr!ToSet(todo) /\ b \in Balloon
  BY <1>1, TodoStep
<1>3. A \in SUBSET OcrFragment /\ \A f \in A : ~Holds(candidates, f)
  BY <1>1, <1>2 DEF Ocr!Assigned, OfBalloons
<1>4. DOMAIN candidates = 1 .. Len(candidates) /\ Len(candidates) \in Nat
  BY <1>1
<1>5. CASE A = {} /\ candidates' = candidates
  BY <1>1, <1>5 DEF AddsBalloon
<1>6. CASE A = {} /\ candidates' = Append(candidates, Ocr!Candidate({}, b, "whole"))
  <2> DEFINE n == Len(candidates)
             new == candidates'
  <2>1. Ocr!Candidate({}, b, "whole") \in Candidates
    BY <1>2 DEF Ocr!Candidate, Candidates, Container
  <2>2. /\ new \in Seq(Candidates) /\ DOMAIN new = 1 .. n + 1
        /\ \A i \in 1 .. n : new[i] = candidates[i]
        /\ new[n + 1] = Ocr!Candidate({}, b, "whole")
    BY <1>1, <1>6, <2>1
  <2> HIDE DEF n, new
  <2>3. n \in Nat /\ DOMAIN candidates = 1 .. n
    BY <1>4 DEF n
  <2>4. new[n + 1].fragments = {} /\ new[n + 1].balloon = b
    BY <2>2 DEF Ocr!Candidate
  <2>5. \A i \in 1 .. n + 1 : i \in 1 .. n \/ i = n + 1
    BY <2>3
  <2>6. ApartIn(new)
    <3> SUFFICES ASSUME NEW i \in 1 .. n + 1, NEW j \in 1 .. n + 1, i # j
                 PROVE  new[i].fragments \cap new[j].fragments = {}
      BY <2>2 DEF ApartIn
    <3>1. CASE i \in 1 .. n /\ j \in 1 .. n
      BY <1>1, <2>2, <2>3, <3>1 DEF ApartIn
    <3>2. CASE i = n + 1 \/ j = n + 1
      BY <2>4, <3>2
    <3> QED BY <2>5, <3>1, <3>2
  <2>7. \A f : Holds(new, f) <=> Holds(candidates, f)
    BY <2>2, <2>3, <2>4, <2>5 DEF Holds
  <2>8. \A i \in DOMAIN new \ DOMAIN candidates : i = n + 1
    BY <2>2, <2>3, <2>5
  <2>9. DOMAIN candidates \subseteq DOMAIN new
    BY <2>2, <2>3
  <2>10. AddsBalloon(new, b)
    BY <1>6, <2>2, <2>3, <2>4, <2>6, <2>7, <2>8, <2>9 DEF AddsBalloon
  <2> QED BY <2>10 DEF new
<1>7. ASSUME NEW shares \in Ocr!Partitions(A), NEW got \in [shares -> Ocr!Containers(shares)],
             candidates' = candidates \o Ocr!SetToSeq({Ocr!Candidate(g, b, got[g]) : g \in shares})
      PROVE  AddsBalloon(candidates', b)
  <2>1. got \in [shares -> Container]
    BY DEF Ocr!Containers, Container
  <2> DEFINE n == Len(candidates)
             new == candidates'
             m == Len(new)
  <2> HIDE DEF A, b
  <2>2. /\ new \in Seq(Candidates) /\ ApartIn(new)
        /\ \A f : Holds(new, f) <=> Holds(candidates, f) \/ f \in A
        /\ n <= m /\ \A i \in 1 .. n : new[i] = candidates[i]
        /\ \A i \in n + 1 .. m : /\ new[i].fragments \in shares /\ new[i].balloon = b
                                 /\ new[i].container = got[new[i].fragments]
        /\ \A i, j \in n + 1 .. m : i # j => new[i].fragments # new[j].fragments
    <3> DEFINE all == Grown(candidates, shares, b, got)
    <3>1. IsFiniteSet(OcrFragment) /\ A \in SUBSET OcrFragment /\ b \in Balloon \cup {"none"}
      BY <1>2, <1>3, OcrFinite DEF Ocr!OcrAssumption
    <3>2. candidates \in Seq(Candidates) /\ ApartIn(candidates) /\ \A f \in A : ~Holds(candidates, f)
      BY <1>1, <1>3
    <3>3. /\ all \in Seq(Candidates) /\ ApartIn(all)
          /\ \A f : Holds(all, f) <=> Holds(candidates, f) \/ f \in A
          /\ Len(candidates) <= Len(all)
          /\ \A i \in 1 .. Len(candidates) : all[i] = candidates[i]
          /\ \A i \in Len(candidates) + 1 .. Len(all) :
                /\ all[i].fragments \in shares /\ all[i].balloon = b
                /\ all[i].container = got[all[i].fragments]
          /\ \A i, j \in Len(candidates) + 1 .. Len(all) :
                i # j => all[i].fragments # all[j].fragments
      BY <2>1, <3>1, <3>2, GroupsAdded
    <3>4. new = all
      BY <1>7 DEF Grown
    <3> HIDE DEF all, new
    <3> QED BY <3>3, <3>4
  <2>3. n \in Nat /\ m \in Nat /\ DOMAIN candidates = 1 .. n /\ DOMAIN new = 1 .. m
    BY <1>1, <2>2
  <2> HIDE DEF n, m, new
  <2>4. \A i \in DOMAIN new \ DOMAIN candidates : i \in n + 1 .. m
    BY <2>2, <2>3
  <2>5. DOMAIN candidates \subseteq DOMAIN new
    BY <2>2, <2>3
  <2> QED BY <2>2, <2>3, <2>4, <2>5 DEF AddsBalloon, new, A, b
<1>8. \/ A = {} /\ candidates' = candidates
      \/ A = {} /\ candidates' = Append(candidates, Ocr!Candidate({}, b, "whole"))
      \/ \E shares \in Ocr!Partitions(A) : \E got \in [shares -> Ocr!Containers(shares)] :
            candidates' = candidates \o Ocr!SetToSeq({Ocr!Candidate(g, b, got[g]) : g \in shares})
  BY Zenon DEF Ocr!GroupBalloon
<1> QED BY <1>5, <1>6, <1>7, <1>8

LEMMA BalloonStep ==
    ASSUME Ocr!OcrAssumption, OcrInv, Ocr!GroupBalloon
    PROVE  OcrInv'
<1> DEFINE b == Head(todo)
           new == candidates'
<1>1. /\ pc = "balloons" /\ pc' = "balloons" /\ todo' = Tail(todo) /\ todo # <<>>
      /\ UNCHANGED <<yolo, home, merged, texts, origin, posted>>
  BY DEF Ocr!GroupBalloon, Ocr!pageVars, Ocr!Reading
<1>2. /\ todo \in Seq(Ocr!ToSet(todo)) /\ Ocr!IsInjective(todo)
      /\ Ocr!ToSet(todo) \subseteq Balloon /\ posted.regions = {}
  BY <1>1 DEF OcrInv, OcrTypes
<1>3. /\ todo' \in Seq(Ocr!ToSet(todo')) /\ Ocr!IsInjective(todo')
      /\ Ocr!ToSet(todo) = {b} \cup Ocr!ToSet(todo') /\ b \notin Ocr!ToSet(todo')
  BY <1>1, <1>2, TodoStep
<1>4. AddsBalloon(new, b)
  BY BalloonAdded
<1> HIDE DEF b
<1>5. OcrTypes'
  BY <1>1, <1>2, <1>3, <1>4 DEF OcrInv, OcrTypes, AddsBalloon
<1>6. \A i \in DOMAIN candidates : candidates[i].balloon # b
  BY <1>1, <1>3 DEF OcrInv, GroupedOnce
<1>7. GroupedOnce'
  <2>1. \A f : f \in OfBalloons' <=> f \in OfBalloons \/ f \in Ocr!Assigned(b)
    BY <1>1, <1>2, <1>3 DEF OfBalloons, Ocr!Assigned, Balloon
  <2>2. \A f : Holds(new, f) <=> f \in OfBalloons'
    BY <1>1, <1>4, <2>1 DEF OcrInv, GroupedOnce, AddsBalloon
  <2>3. \A i \in DOMAIN new : new[i].balloon \in Balloon \ Ocr!ToSet(todo')
    BY <1>1, <1>2, <1>3, <1>4 DEF OcrInv, GroupedOnce, AddsBalloon
  <2>4. ApartIn(new) /\ ApartIn(merged)
    BY <1>4 DEF OcrInv, GroupedOnce, AddsBalloon
  <2> QED BY <1>1, <2>2, <2>3, <2>4 DEF GroupedOnce, Balloon
<1>8. TextsKept'
  BY <1>1 DEF OcrInv, TextsKept
<1>9. PostedKept'
  BY <1>1, <1>2 DEF PostedKept
<1> QED BY <1>5, <1>7, <1>8, <1>9 DEF OcrInv

(* After the last balloon, the loose fragments are what is left. *)
LEMMA BalloonsDoneStep ==
    ASSUME Ocr!OcrAssumption, OcrInv, Ocr!BalloonsDone
    PROVE  OcrInv'
<1> DEFINE L == Ocr!Assigned("loose")
           S == {Ocr!Partition(f) : f \in L}
           l == Ocr!SetToSeq(S)
           n == Cardinality(S)
<1>1. /\ pc = "balloons" /\ pc' = "loose" /\ todo = <<>> /\ todo' = l
      /\ UNCHANGED <<yolo, home, place, candidates, merged, texts, origin, posted>>
  BY DEF Ocr!BalloonsDone, Ocr!Goto, Ocr!pageVars, Ocr!Reading
<1>2. merged = <<>> /\ posted.regions = {}
  BY <1>1 DEF OcrInv, OcrTypes
<1>3. IsFiniteSet(S)
  <2>1. IsFiniteSet(L)
    BY OcrFinite, FS_Subset DEF Ocr!OcrAssumption, Ocr!Assigned
  <2>2. [f \in L |-> Ocr!Partition(f)] \in Surjection(L, S)
    BY DEF Surjection
  <2> QED BY <2>1, <2>2, FS_Surjection
<1> HIDE DEF S, n
<1>4. /\ l \in Seq(S) /\ Len(l) = n /\ n \in Nat
      /\ \A i, j \in 1 .. n : i # j => l[i] # l[j]
      /\ \A x \in S : \E i \in 1 .. n : l[i] = x
  <2>1. n \in Nat
    BY <1>3, FS_CardinalityType DEF n
  <2> QED BY <1>3, <2>1, ListOfSet DEF n
<1> HIDE DEF l
<1>5. l \in [1 .. n -> S] /\ DOMAIN l = 1 .. n
  BY <1>4
<1>6. Ocr!ToSet(l) = S
  BY <1>4, <1>5 DEF Ocr!ToSet
<1>7. l \in Seq(Ocr!ToSet(l)) /\ Ocr!IsInjective(l)
  BY <1>4, <1>5, <1>6 DEF Ocr!IsInjective
<1>8. OcrTypes'
  BY <1>1, <1>2, <1>7 DEF OcrInv, OcrTypes
<1>9. GroupedOnce'
  <2>1. OfBalloons = {f \in OcrFragment : home[f] \in Balloon}
    BY <1>1 DEF OfBalloons, Ocr!ToSet
  <2>2. \A f : f \in OfBalloons <=> f \in Ocr!Seen /\ home[f] # "loose"
    <3>1. Balloon \cap {"none", "loose", "unseen"} = {}
      BY DEF Ocr!OcrAssumption, Balloon
    <3>2. home \in [OcrFragment -> Balloon \cup {"loose", "unseen"}]
      BY DEF OcrInv, OcrTypes
    <3> QED BY <2>1, <3>1, <3>2 DEF Ocr!Seen
  <2>3. Ocr!Seen' = Ocr!Seen
    BY <1>1 DEF Ocr!Seen
  <2>4. \A f : Holds(candidates', f) <=> f \in Ocr!Seen' /\ home'[f] # "loose"
    BY <1>1, <2>2, <2>3 DEF OcrInv, GroupedOnce
  <2>5. \A f \in L : Ocr!Partition(f) \in Ocr!ToSet(l)
    BY <1>6 DEF S
  <2>6. OfPartitions' = {}
    BY <1>1, <2>5 DEF OfPartitions, Ocr!Assigned, Ocr!Partition
  <2>7. \A f : ~Holds(merged', f)
    BY <1>1, <1>2 DEF Holds
  <2>8. \A i \in DOMAIN merged' : merged'[i].balloon = "none"
    BY <1>1, <1>2
  <2>9. ApartIn(candidates') /\ ApartIn(merged')
    BY <1>1 DEF OcrInv, GroupedOnce
  <2> QED BY <1>1, <2>4, <2>6, <2>7, <2>8, <2>9 DEF GroupedOnce
<1>10. TextsKept'
  BY <1>1 DEF OcrInv, TextsKept
<1>11. PostedKept'
  BY <1>1, <1>2 DEF PostedKept
<1> QED BY <1>8, <1>9, <1>10, <1>11 DEF OcrInv

(* One partition of the loose fragments. *)
LEMMA LooseStep ==
    ASSUME Ocr!OcrAssumption, OcrInv, Ocr!GroupLoose
    PROVE  OcrInv'
<1> DEFINE A == {f \in Ocr!Assigned("loose") : Ocr!Partition(f) = Head(todo)}
           new == merged'
           n == Len(merged)
           m == Len(new)
<1>1. /\ pc = "loose" /\ pc' = "loose" /\ todo' = Tail(todo) /\ todo # <<>>
      /\ UNCHANGED <<yolo, home, place, candidates, texts, origin, posted>>
  BY DEF Ocr!GroupLoose, Ocr!pageVars, Ocr!Reading
<1>2. /\ todo \in Seq(Ocr!ToSet(todo)) /\ Ocr!IsInjective(todo) /\ posted.regions = {}
      /\ merged \in Seq(Candidates) /\ ApartIn(merged)
      /\ \A f : Holds(merged, f) <=> f \in OfPartitions
      /\ \A i \in DOMAIN merged : merged[i].balloon = "none"
  BY <1>1 DEF OcrInv, OcrTypes, GroupedOnce
<1>3. /\ todo' \in Seq(Ocr!ToSet(todo')) /\ Ocr!IsInjective(todo')
      /\ Ocr!ToSet(todo) = {Head(todo)} \cup Ocr!ToSet(todo') /\ Head(todo) \notin Ocr!ToSet(todo')
  BY <1>1, <1>2, TodoStep
<1>4. IsFiniteSet(OcrFragment) /\ A \in SUBSET OcrFragment
  BY OcrFinite DEF Ocr!OcrAssumption, Ocr!Assigned
<1>5. \A f \in A : ~Holds(merged, f)
  BY <1>2, <1>3 DEF OfPartitions
<1>6. PICK gs \in Ocr!Partitions(A) :
         \E got \in [gs -> IF yolo THEN {"own"} ELSE {"own", "review"}] :
            merged' = Ocr!Gather(merged, Ocr!SetToSeq({Ocr!Candidate(g, "none", got[g]) : g \in gs}))
  BY Zenon DEF Ocr!GroupLoose
<1>7. PICK got \in [gs -> IF yolo THEN {"own"} ELSE {"own", "review"}] :
         merged' = Ocr!Gather(merged, Ocr!SetToSeq({Ocr!Candidate(g, "none", got[g]) : g \in gs}))
  BY <1>6
<1>8. merged' = Grown(merged, gs, "none", got)
  BY <1>7 DEF Grown, Ocr!Gather
<1>9. got \in [gs -> Container]
  BY DEF Container
<1>10. /\ new \in Seq(Candidates) /\ ApartIn(new)
       /\ \A f : Holds(new, f) <=> Holds(merged, f) \/ f \in A
       /\ n <= m /\ \A i \in 1 .. n : new[i] = merged[i]
       /\ \A i \in n + 1 .. m : new[i].balloon = "none"
  <2> HIDE DEF A
  <2> DEFINE b == "none"
             all == Grown(merged, gs, b, got)
  <2>1. b \in Balloon \cup {"none"}
    OBVIOUS
  <2> HIDE DEF b
  <2>2. /\ all \in Seq(Candidates) /\ ApartIn(all)
        /\ \A f : Holds(all, f) <=> Holds(merged, f) \/ f \in A
        /\ Len(merged) <= Len(all)
        /\ \A i \in 1 .. Len(merged) : all[i] = merged[i]
        /\ \A i \in Len(merged) + 1 .. Len(all) :
              /\ all[i].fragments \in gs /\ all[i].balloon = b
              /\ all[i].container = got[all[i].fragments]
        /\ \A i, j \in Len(merged) + 1 .. Len(all) : i # j => all[i].fragments # all[j].fragments
    <3>1. merged \in Seq(Candidates) /\ ApartIn(merged)
      BY <1>2
    <3> QED BY <1>4, <1>5, <1>9, <2>1, <3>1, GroupsAdded
  <2>3. new = all
    BY <1>8 DEF b
  <2> HIDE DEF all, new
  <2> QED BY <2>2, <2>3 DEF b
<1>11. \A i \in DOMAIN new : new[i].balloon = "none"
  <2>1. n \in Nat /\ m \in Nat /\ DOMAIN merged = 1 .. n /\ DOMAIN new = 1 .. m
    BY <1>2, <1>10
  <2> HIDE DEF n, m, new
  <2>2. \A i \in 1 .. m : i \in 1 .. n \/ i \in n + 1 .. m
    BY <2>1
  <2> QED BY <1>2, <1>10, <2>1, <2>2
<1>12. OcrTypes'
  BY <1>1, <1>2, <1>3, <1>10 DEF OcrInv, OcrTypes
<1>13. GroupedOnce'
  <2>1. \A f : f \in OfPartitions' <=> f \in OfPartitions \/ f \in A
    <3>1. \A f : /\ f \in Ocr!Assigned("loose")' <=> f \in Ocr!Assigned("loose")
                 /\ Ocr!Partition(f)' = Ocr!Partition(f)
      BY <1>1 DEF Ocr!Assigned, Ocr!Partition
    <3> QED BY <1>3, <3>1 DEF OfPartitions
  <2>2. \A f : Holds(merged', f) <=> f \in OfPartitions'
    BY <1>2, <1>10, <2>1
  <2>3. Ocr!Seen' = Ocr!Seen
    BY <1>1 DEF Ocr!Seen
  <2>4. \A f : Holds(candidates', f) <=> f \in Ocr!Seen' /\ home'[f] # "loose"
    BY <1>1, <2>3 DEF OcrInv, GroupedOnce
  <2>5. ApartIn(candidates') /\ ApartIn(merged')
    BY <1>1, <1>10 DEF OcrInv, GroupedOnce
  <2> QED BY <1>1, <1>11, <2>2, <2>4, <2>5 DEF GroupedOnce
<1>14. TextsKept'
  BY <1>1 DEF OcrInv, TextsKept
<1>15. PostedKept'
  BY <1>1, <1>2 DEF PostedKept
<1> QED BY <1>12, <1>13, <1>14, <1>15 DEF OcrInv

(* After the last partition the list is whole: it has all that was seen. *)
LEMMA GatheredStep ==
    ASSUME Ocr!OcrAssumption, OcrInv, Ocr!Gathered
    PROVE  OcrInv'
<1> DEFINE new == candidates'
           read == yolo /\ ~Ocr!UseLocalOcr
<1>1. /\ pc = "loose" /\ todo = <<>> /\ candidates' = candidates \o merged
      /\ texts' = [i \in DOMAIN new |-> IF read THEN "unfit" ELSE Ocr!OwnText(candidates'[i])]
      /\ origin' = [i \in DOMAIN new |-> Ocr!NoOrigin]
      /\ pc' = IF read THEN "read" ELSE "order"
      /\ UNCHANGED <<job, blank, yolo, home, merged, todo, posted>>
  BY DEF Ocr!Gathered, Ocr!Goto, Ocr!pageVars
<1>2. /\ candidates \in Seq(Candidates) /\ merged \in Seq(Candidates) /\ posted.regions = {}
      /\ ApartIn(candidates) /\ ApartIn(merged)
      /\ \A f : Holds(candidates, f) <=> f \in Ocr!Seen /\ home[f] # "loose"
      /\ \A f : Holds(merged, f) <=> f \in OfPartitions
      /\ \A i \in DOMAIN merged : merged[i].balloon = "none"
  BY <1>1 DEF OcrInv, OcrTypes, GroupedOnce
<1>3. \A f : f \in OfPartitions <=> f \in Ocr!Assigned("loose")
  BY <1>1 DEF OfPartitions, Ocr!ToSet
<1>4. /\ new \in Seq(Candidates) /\ ApartIn(new)
      /\ \A f : Holds(new, f) <=> Holds(candidates, f) \/ Holds(merged, f)
      /\ DOMAIN candidates \subseteq DOMAIN new
      /\ \A i \in DOMAIN new :
            \/ i \in DOMAIN candidates /\ new[i] = candidates[i]
            \/ i \notin DOMAIN candidates /\ \E j \in DOMAIN merged : new[i] = merged[j]
  <2>1. \A f : ~(Holds(candidates, f) /\ Holds(merged, f))
    BY <1>2, <1>3 DEF Ocr!Assigned
  <2>2. candidates \in Seq(Candidates) /\ merged \in Seq(Candidates) /\ ApartIn(candidates) /\ ApartIn(merged)
    BY <1>2
  <2> DEFINE all == candidates \o merged
  <2>3. /\ all \in Seq(Candidates) /\ ApartIn(all)
        /\ \A f : Holds(all, f) <=> Holds(candidates, f) \/ Holds(merged, f)
        /\ DOMAIN candidates \subseteq DOMAIN all
        /\ \A i \in DOMAIN all :
              \/ i \in DOMAIN candidates /\ all[i] = candidates[i]
              \/ i \notin DOMAIN candidates /\ \E j \in DOMAIN merged : all[i] = merged[j]
    BY <2>1, <2>2, ListsAdded
  <2>4. new = all
    BY <1>1
  <2> HIDE DEF all, new
  <2> QED BY <2>3, <2>4
<1>5. OcrTypes'
  BY <1>1, <1>2, <1>4 DEF OcrInv, OcrTypes
<1>6. GroupedOnce'
  <2>1. \A f : Holds(candidates', f) <=> f \in Ocr!Seen'
    <3>1. \A f : f \in Ocr!Seen => (f \in Ocr!Assigned("loose") <=> home[f] = "loose")
      BY DEF Ocr!Seen, Ocr!Assigned
    <3>2. \A f : f \in Ocr!Assigned("loose") => f \in Ocr!Seen
      BY DEF Ocr!Seen, Ocr!Assigned
    <3>3. Ocr!Seen' = Ocr!Seen
      BY <1>1 DEF Ocr!Seen
    <3> QED BY <1>2, <1>3, <1>4, <3>1, <3>2, <3>3
  <2>2. ApartIn(candidates') /\ ApartIn(merged')
    BY <1>1, <1>2, <1>4
  <2>3. pc' # "balloons" /\ pc' # "loose"
    BY <1>1
  <2> QED BY <2>1, <2>2, <2>3 DEF GroupedOnce
<1>7. TextsKept'
  <2>1. DOMAIN texts' = DOMAIN candidates' /\ DOMAIN origin' = DOMAIN candidates'
    BY <1>1
  <2>2. \A i \in DOMAIN texts' : origin'[i].crop \in {0, i}
    BY <1>1, <2>1 DEF Ocr!NoOrigin
  <2>3. pc' = "read" => ~Ocr!UseLocalOcr'
    BY <1>1 DEF Ocr!UseLocalOcr
  <2>4. Ocr!UseLocalOcr' => \A i \in DOMAIN texts' : texts'[i] = Ocr!OwnText(candidates[i])'
    BY <1>1 DEF Ocr!UseLocalOcr, Ocr!OwnText
  <2> QED BY <2>1, <2>2, <2>3, <2>4 DEF TextsKept
<1>8. PostedKept'
  BY <1>1, <1>2 DEF PostedKept
<1> QED BY <1>5, <1>6, <1>7, <1>8 DEF OcrInv

(* While a vision model reads, the texts change and the candidates do not. *)
LEMMA ReadStep ==
    ASSUME OcrInv, pc = "read", pc' \in {"read", "order", "ended"},
           UNCHANGED <<yolo, home, candidates, merged, todo, posted>>, UNCHANGED job,
           DOMAIN texts' = DOMAIN texts, DOMAIN origin' = DOMAIN texts,
           \A i \in DOMAIN texts : origin'[i].crop \in {0, i}
    PROVE  OcrInv'
<1>1. posted.regions = {}
  BY DEF OcrInv, OcrTypes
<1>2. OcrTypes'
  BY <1>1 DEF OcrInv, OcrTypes
<1>3. GroupedOnce'
  <2>1. Ocr!Seen' = Ocr!Seen
    BY DEF Ocr!Seen
  <2> QED BY <2>1 DEF OcrInv, GroupedOnce
<1>4. TextsKept'
  <2>1. Ocr!UseLocalOcr' = Ocr!UseLocalOcr
    BY DEF Ocr!UseLocalOcr
  <2> QED BY <2>1 DEF OcrInv, TextsKept
<1>5. PostedKept'
  BY <1>1 DEF PostedKept
<1> QED BY <1>2, <1>3, <1>4, <1>5 DEF OcrInv

(* A reply that is merged gives a candidate the text of its own crop. *)
LEMMA MergeStep ==
    ASSUME OcrInv, NEW k \in 1 .. Ocr!Chunks, Ocr!MergeChunk(k)
    PROVE  OcrInv'
<1> DEFINE r == replies[k]
           About(c) == {i \in DOMAIN r.said : Ocr!Id(i) = c /\ r.said[i] # "none"}
           Saw(c) == CHOOSE i \in About(c) : TRUE
<1>1. /\ pc = "read" /\ UNCHANGED <<job, yolo, home, candidates, merged, todo, posted>>
  BY DEF Ocr!MergeChunk, Ocr!pageVars
<1>2. \A c \in DOMAIN texts : origin[c].crop \in {0, c}
  BY DEF OcrInv, TextsKept
<1>3. DOMAIN origin = DOMAIN texts
  BY DEF OcrInv, TextsKept
<1>4. CASE ~r.whole
  <2>1. pc' = "ended" /\ UNCHANGED <<texts, origin>>
    BY <1>4 DEF Ocr!MergeChunk, Ocr!End
  <2> QED BY <1>1, <1>2, <1>3, <2>1, ReadStep
<1>5. CASE r.whole
  <2>1. /\ pc' = pc
        /\ texts' = [c \in DOMAIN texts |-> IF r.stray = c THEN "text"
                        ELSE IF About(c) # {} THEN r.said[Saw(c)] ELSE texts[c]]
        /\ origin' = [c \in DOMAIN texts |-> IF r.stray = c THEN [crop |-> 0, by |-> r.by]
                        ELSE IF About(c) # {} THEN [crop |-> Saw(c), by |-> r.by]
                        ELSE origin[c]]
    BY <1>5, Zenon DEF Ocr!MergeChunk
  <2>2. \A c : About(c) # {} => Saw(c) \in About(c)
    OBVIOUS
  <2>3. \A c : \A i \in About(c) : i = c
    BY DEF Ocr!Id
  <2> HIDE DEF About, Saw, r
  <2>4. \A c : About(c) # {} => Saw(c) = c
    BY <2>2, <2>3
  <2>5. DOMAIN texts' = DOMAIN texts /\ DOMAIN origin' = DOMAIN texts
    BY <2>1
  <2>6. ASSUME NEW c \in DOMAIN texts PROVE origin'[c].crop \in {0, c}
    <3>1. \/ origin'[c] = [crop |-> 0, by |-> r.by]
          \/ About(c) # {} /\ origin'[c] = [crop |-> Saw(c), by |-> r.by]
          \/ origin'[c] = origin[c]
      BY <2>1
    <3> QED BY <1>2, <2>4, <3>1
  <2> QED BY <1>1, <2>1, <2>5, <2>6, ReadStep
<1> QED BY <1>4, <1>5

(* The region of a candidate in the callback. *)
Region(i) ==
    [index |-> i, panel |-> Ocr!PanelOf(i),
     order |-> Ocr!Cardinality({j \in {h \in DOMAIN candidates : Ocr!Kept(h)} :
                                   Ocr!PanelOf(j) = Ocr!PanelOf(i) /\ j <= i}),
     cleanupEligible |-> candidates[i].container # "review"]

(* There is one region for each candidate that is kept. *)
LEMMA OrderedIs ==
    /\ Ocr!Ordered = {Region(i) : i \in {h \in DOMAIN candidates : Ocr!Kept(h)}}
    /\ \A i : Region(i).index = i
<1>1. Ocr!Ordered = {Region(i) : i \in {h \in DOMAIN candidates : Ocr!Kept(h)}}
  BY Zenon DEF Ocr!Ordered, Region
<1> QED BY <1>1 DEF Region

(* What is posted are the candidates that are kept. *)
LEMMA OrderStep ==
    ASSUME OcrInv, Ocr!Order
    PROVE  OcrInv'
<1>1. /\ pc = "order" /\ pc' = "post"
      /\ posted'.regions = Ocr!Ordered
      /\ UNCHANGED <<job, blank, place, yolo, home, candidates, merged, todo, texts, origin>>
  BY DEF Ocr!Order, Ocr!Goto, Ocr!pageVars, Ocr!Reading
<1>2. OcrTypes'
  BY <1>1 DEF OcrInv, OcrTypes
<1>3. GroupedOnce'
  <2>1. Ocr!Seen' = Ocr!Seen
    BY <1>1 DEF Ocr!Seen
  <2> QED BY <1>1, <2>1 DEF OcrInv, GroupedOnce
<1>4. TextsKept'
  <2>1. Ocr!UseLocalOcr' = Ocr!UseLocalOcr
    BY <1>1 DEF Ocr!UseLocalOcr
  <2>2. \A c : Ocr!OwnText(c)' = Ocr!OwnText(c)
    BY <1>1 DEF Ocr!OwnText
  <2> QED BY <1>1, <2>1, <2>2 DEF OcrInv, TextsKept
<1>5. PostedKept'
  <2>1. Ocr!Ordered' = Ocr!Ordered
    BY <1>1 DEF Ocr!Ordered, Ocr!PanelOf, Ocr!Kept
  <2>2. \A r \in Ocr!Ordered : r.index \in DOMAIN candidates
    BY OrderedIs
  <2> QED BY <1>1, <2>1, <2>2 DEF PostedKept
<1> QED BY <1>2, <1>3, <1>4, <1>5 DEF OcrInv

(* A run ends, with the callback delivered or without. *)
LEMMA EndStep ==
    ASSUME OcrInv, pc' = "ended",
           UNCHANGED <<yolo, home, candidates, merged, todo, texts, origin, posted>>
    PROVE  OcrInv'
<1>1. OcrTypes'
  BY DEF OcrInv, OcrTypes
<1>2. GroupedOnce'
  BY DEF OcrInv, GroupedOnce
<1>3. TextsKept'
  BY DEF OcrInv, TextsKept
<1>4. PostedKept'
  BY DEF OcrInv, PostedKept
<1> QED BY <1>1, <1>2, <1>3, <1>4 DEF OcrInv

(* OcrInv is inductive. *)
LEMMA OcrStep ==
    ASSUME Ocr!OcrAssumption, OcrInv, [Ocr!Next]_(Ocr!vars)
    PROVE  OcrInv'
<1>1. CASE Ocr!Fetch
  BY <1>1, StillNothing DEF Ocr!Fetch, Ocr!Goto, Ocr!pageVars, Ocr!Reading
<1>2. CASE Ocr!Detect
  BY <1>2, DetectStep
<1>3. CASE Ocr!GroupBalloon
  BY <1>3, BalloonStep
<1>4. CASE Ocr!BalloonsDone
  BY <1>4, BalloonsDoneStep
<1>5. CASE Ocr!GroupLoose
  BY <1>5, LooseStep
<1>6. CASE Ocr!Gathered
  BY <1>6, GatheredStep
<1>7. ASSUME NEW k \in 1 .. Ocr!Chunks, Ocr!ChunkSilent(k) \/ Ocr!ChunkRead(k) \/ Ocr!CropsRead(k)
      PROVE  OcrInv'
  <2>1. /\ pc = "read" /\ UNCHANGED <<pc, yolo, home, candidates, merged, todo, posted, texts, origin>>
        /\ UNCHANGED job
    BY <1>7 DEF Ocr!ChunkSilent, Ocr!ChunkRead, Ocr!CropsRead, Ocr!Due, Ocr!Reply, Ocr!pageVars
  <2> QED BY <2>1, ReadStep DEF OcrInv, TextsKept
<1>8. ASSUME NEW k \in 1 .. Ocr!Chunks, Ocr!MergeChunk(k) PROVE OcrInv'
  BY <1>8, MergeStep
<1>9. CASE Ocr!ChunksDone
  BY <1>9, ReadStep
     DEF Ocr!ChunksDone, Ocr!Goto, Ocr!End, Ocr!pageVars, Ocr!Reading, OcrInv, TextsKept
<1>10. CASE Ocr!Order
  BY <1>10, OrderStep
<1>11. CASE Ocr!FetchRefused \/ Ocr!Post \/ Ocr!Raises
  BY <1>11, EndStep
     DEF Ocr!FetchRefused, Ocr!Post, Ocr!Raises, Ocr!End, Ocr!pageVars, Ocr!Reading
<1>12. CASE UNCHANGED Ocr!vars
  <2>1. UNCHANGED <<pc, job, yolo, home, blank, place, todo, merged, candidates, texts, origin, posted>>
    BY <1>12 DEF Ocr!vars
  <2>2. OcrTypes'
    BY <2>1 DEF OcrInv, OcrTypes
  <2>3. GroupedOnce'
    <3>1. \A f : /\ f \in Ocr!Assigned("loose")' <=> f \in Ocr!Assigned("loose")
                 /\ Ocr!Partition(f)' = Ocr!Partition(f)
      BY <2>1 DEF Ocr!Assigned, Ocr!Partition
    <3>2. OfBalloons' = OfBalloons /\ OfPartitions' = OfPartitions /\ Ocr!Seen' = Ocr!Seen
      BY <2>1, <3>1 DEF OfBalloons, OfPartitions, Ocr!Seen
    <3> QED BY <2>1, <3>2 DEF OcrInv, GroupedOnce
  <2>4. TextsKept'
    <3>1. Ocr!UseLocalOcr' = Ocr!UseLocalOcr
      BY <2>1 DEF Ocr!UseLocalOcr
    <3>2. \A c : Ocr!OwnText(c)' = Ocr!OwnText(c)
      BY <2>1 DEF Ocr!OwnText
    <3> QED BY <2>1, <3>1, <3>2 DEF OcrInv, TextsKept
  <2>5. PostedKept'
    <3>1. Ocr!Ordered' = Ocr!Ordered
      BY <2>1 DEF Ocr!Ordered, Ocr!PanelOf, Ocr!Kept
    <3> QED BY <2>1, <3>1 DEF OcrInv, PostedKept
  <2> QED BY <2>2, <2>3, <2>4, <2>5 DEF OcrInv
<1> QED BY <1>1, <1>2, <1>3, <1>4, <1>5, <1>6, <1>7, <1>8, <1>9, <1>10, <1>11, <1>12 DEF Ocr!Next

(* A run begins with nothing. *)
LEMMA OcrBegins == ASSUME Ocr!Init PROVE OcrInv
<1>1. /\ pc = "fetch" /\ yolo = FALSE /\ home = [f \in OcrFragment |-> "unseen"]
      /\ candidates = <<>> /\ merged = <<>> /\ texts = <<>> /\ origin = <<>>
      /\ posted.regions = {}
  BY DEF Ocr!Init, Ocr!Nowhere
<1>2. ApartIn(<<>>)
  BY DEF ApartIn
<1>3. OcrTypes
  <2>1. <<>> \in Seq(Candidates)
    OBVIOUS
  <2>2. home \in [OcrFragment -> Balloon \cup {"loose", "unseen"}]
    BY <1>1
  <2> QED BY <1>1, <2>1, <2>2 DEF OcrTypes
<1>4. GroupedOnce /\ TextsKept /\ PostedKept
  BY <1>1, <1>2 DEF GroupedOnce, TextsKept, PostedKept
<1> QED BY <1>3, <1>4 DEF OcrInv

(* Only this part moves, if it is the one that was chosen. *)
LEMMA OcrMoves ==
    ASSUME [Next]_vars, part' = "ocr"
    PROVE  part = "ocr" /\ [Ocr!Next]_(Ocr!vars)
BY DEF Next, vars, request, ocrOnly, Ocr!vars

WhileOcr == part = "ocr" => OcrInv

(* OcrInv holds in every state of an OCR run. *)
LEMMA OcrInvariant == Spec => []WhileOcr
<1>1. Init => WhileOcr
  BY OcrBegins DEF Init, WhileOcr
<1>2. WhileOcr /\ [Next]_vars => WhileOcr'
  BY PartsAssumption, OcrMoves, OcrStep DEF WhileOcr
<1> QED BY <1>1, <1>2, PTL DEF Spec

(* A fragment that the engine found is in at most one region of the callback, and
   if its text is the engine's own, or YOLO failed, it is in one: whatever the
   fragments, the balloons, the partitions and their grouping. *)
THEOREM EveryFragmentOnce == Spec => []FragmentsOnce
<1>1. WhileOcr => FragmentsOnce
  <2> SUFFICES ASSUME OcrInv, pc = "post", NEW f \in Ocr!Seen
      PROVE  /\ Cardinality(Ocr!With(f)) <= 1
             /\ (Ocr!UseLocalOcr /\ f \notin blank) \/ ~yolo => Cardinality(Ocr!With(f)) = 1
    BY OcrCardinality DEF WhileOcr, FragmentsOnce, Ocr!FragmentsOnce
  <2>1. /\ posted.regions = {Region(i) : i \in {h \in DOMAIN candidates : Ocr!Kept(h)}}
        /\ ApartIn(candidates) /\ Holds(candidates, f)
        /\ DOMAIN texts = DOMAIN candidates
        /\ Ocr!UseLocalOcr => \A i \in DOMAIN texts : texts[i] = Ocr!OwnText(candidates[i])
    BY OrderedIs DEF OcrInv, PostedKept, GroupedOnce, TextsKept
  <2>2. PICK i \in DOMAIN candidates : f \in candidates[i].fragments
    BY <2>1 DEF Holds
  <2>3. \A j \in DOMAIN candidates : f \in candidates[j].fragments => j = i
    BY <2>1, <2>2 DEF ApartIn
  <2>4. Ocr!With(f) = {r \in posted.regions : f \in candidates[r.index].fragments}
    BY DEF Ocr!With
  <2>5. Ocr!With(f) = {Region(j) : j \in {h \in {i} : Ocr!Kept(h)}}
    <3>1. ASSUME NEW r, r \in Ocr!With(f) PROVE Ocr!Kept(i) /\ r = Region(i)
      <4>1. PICK j \in DOMAIN candidates : Ocr!Kept(j) /\ r = Region(j)
        BY <2>1, <2>4, <3>1
      <4>2. f \in candidates[j].fragments
        BY <2>4, <3>1, <4>1, OrderedIs
      <4> QED BY <2>3, <4>1, <4>2
    <3>2. Ocr!Kept(i) => Region(i) \in Ocr!With(f)
      BY <2>1, <2>2, <2>4, OrderedIs
    <3> QED BY <3>1, <3>2
  <2>6. CASE Ocr!Kept(i)
    <3>1. Ocr!With(f) = {Region(i)}
      BY <2>5, <2>6
    <3> QED BY <3>1, FS_Singleton
  <2>7. CASE ~Ocr!Kept(i)
    <3>1. Ocr!With(f) = {}
      BY <2>5, <2>7
    <3>2. Cardinality(Ocr!With(f)) = 0
      BY <3>1, FS_EmptySet
    <3>3. ~(Ocr!UseLocalOcr /\ f \notin blank) /\ yolo
      BY <2>1, <2>2, <2>7 DEF Ocr!Kept, Ocr!OwnText, OcrInv, OcrTypes
    <3> QED BY <3>2, <3>3
  <2> QED BY <2>6, <2>7
<1> QED BY <1>1, OcrInvariant, PTL

(* The text of a posted region was read off its own crop, or a model named a crop
   it was not shown: for any number of chunks, of any size, merged in any order. *)
THEOREM TextsAreTheirOwn == Spec => []TextIsItsOwn
<1>1. WhileOcr => TextIsItsOwn
  <2> SUFFICES ASSUME OcrInv, pc = "post", NEW i \in Ocr!Posted PROVE origin[i].crop \in {0, i}
    BY DEF WhileOcr, TextIsItsOwn, Ocr!TextIsItsOwn
  <2>1. i \in DOMAIN candidates
    BY DEF OcrInv, PostedKept, Ocr!Posted
  <2> QED BY <2>1 DEF OcrInv, TextsKept
<1> QED BY <1>1, OcrInvariant, PTL
-----------------------------------------------------------------------------
(***************************************************************************)
(* FragmentGrouping.  Components, the parts of a component that is         *)
(* rejected, and the pieces of one that is too large: each of them         *)
(* partitions the fragments it is about, and so does what they come to.    *)
(***************************************************************************)
(* What the instance calls a cardinality is one. *)
LEMMA GroupingCardinality == \A S : Grouping!Cardinality(S) = Cardinality(S)
BY DEF Grouping!Cardinality, Cardinality

(* And what it calls a finite set. *)
LEMMA GroupingFinite == \A S : Grouping!IsFiniteSet(S) <=> IsFiniteSet(S)
BY DEF Grouping!IsFiniteSet, IsFiniteSet

(* Some sets of a finite set have a smallest among them. *)
LEMMA Smallest ==
    ASSUME NEW S, IsFiniteSet(S), NEW T \in SUBSET SUBSET S, T # {}
    PROVE  \E c \in T : \A d \in T : d \subseteq c => d = c
<1>1. FiniteSubsetsOf(S) = SUBSET S
  BY FS_FiniteSubsetsOfFinite
<1>2. IsWellFoundedOn(StrictSubsetOrdering(S), SUBSET S)
  BY <1>1, FS_StrictSubsetOrderingWellFounded
<1>3. PICK c \in T : \A d \in T : <<d, c>> \notin StrictSubsetOrdering(S)
  BY <1>2, WFMin
<1>4. ASSUME NEW d \in T, d \subseteq c, d # c PROVE FALSE
  <2>1. <<d, c>> \in (SUBSET S) \X (SUBSET S)
    OBVIOUS
  <2>2. <<d, c>> \in StrictSubsetOrdering(S)
    BY <1>4, <2>1 DEF StrictSubsetOrdering
  <2> QED BY <1>3, <2>2
<1> QED BY <1>4

(* A partition of each member of a partition gives one of the whole. *)
LEMMA Refined ==
    ASSUME NEW S, NEW P, Grouping!IsPartition(P, S),
           NEW Q, \A c \in P : Grouping!IsPartition(Q[c], c)
    PROVE  Grouping!IsPartition(UNION {Q[c] : c \in P}, S)
<1> DEFINE all == UNION {Q[c] : c \in P}
<1>1. UNION P = S /\ {} \notin P /\ \A c, d \in P : c = d \/ c \cap d = {}
  BY DEF Grouping!IsPartition
<1>2. \A c \in P : /\ UNION Q[c] = c /\ {} \notin Q[c]
                    /\ \A x, y \in Q[c] : x = y \/ x \cap y = {}
  BY DEF Grouping!IsPartition
<1>3. \A x : x \in all <=> \E c \in P : x \in Q[c]
  OBVIOUS
<1> HIDE DEF all
<1>4. UNION all = S
  <2>1. ASSUME NEW x \in all PROVE x \subseteq S
    BY <1>1, <1>2, <1>3
  <2>2. ASSUME NEW f \in S PROVE \E x \in all : f \in x
    <3>1. PICK c \in P : f \in c
      BY <1>1
    <3>2. PICK x \in Q[c] : f \in x
      BY <1>2, <3>1
    <3> QED BY <1>3, <3>2
  <2> QED BY <2>1, <2>2
<1>5. {} \notin all
  BY <1>2, <1>3
<1>6. ASSUME NEW x \in all, NEW y \in all PROVE x = y \/ x \cap y = {}
  <2>1. PICK c \in P : x \in Q[c]
    BY <1>3
  <2>2. PICK d \in P : y \in Q[d]
    BY <1>3
  <2>3. x \subseteq c /\ y \subseteq d
    BY <1>2, <2>1, <2>2
  <2> QED BY <1>1, <1>2, <2>1, <2>2, <2>3
<1> QED BY <1>4, <1>5, <1>6 DEF all, Grouping!IsPartition

(* The single fragments of a set partition it. *)
LEMMA SinglyApart == \A c : Grouping!IsPartition(Grouping!Singly(c), c)
BY DEF Grouping!IsPartition, Grouping!Singly

(* The components partition the fragments: the smallest sets that no edge leaves. *)
LEMMA ComponentsApart ==
    ASSUME NEW S, NEW budget
    PROVE  Grouping!IsPartition(Grouping!Components(S, budget), S)
<1> DEFINE edges == {e \in S \X S : /\ Grouping!ShouldMerge(e[1], e[2], S, budget)
                                    /\ ~Grouping!WaistVeto(e[1], e[2])}
           Closed(c) == \A e \in edges : e[1] \in c <=> e[2] \in c
           closed == {c \in (SUBSET S) \ {{}} : Closed(c)}
           all == {c \in closed : \A d \in closed : d \subseteq c => d = c}
<1>1. Grouping!Components(S, budget) = all
  BY DEF Grouping!Components
<1>2. \A e \in edges : e[1] \in S /\ e[2] \in S
  OBVIOUS
<1> HIDE DEF edges
<1>3. /\ \A c : c \in closed <=> c \subseteq S /\ c # {} /\ Closed(c)
      /\ \A c : c \in all <=> c \in closed /\ \A d \in closed : d \subseteq c => d = c
  OBVIOUS
<1>4. \A c, d \in closed : /\ c \cap d # {} => c \cap d \in closed
                           /\ c \ d # {} => c \ d \in closed
  BY <1>3
<1> HIDE DEF closed, all
<1>5. ASSUME NEW c \in all, NEW d \in all, c \cap d # {} PROVE c = d
  <2>1. c \cap d \in closed
    BY <1>3, <1>4, <1>5
  <2> QED BY <1>3, <2>1
<1>6. ASSUME NEW f \in S PROVE \E c \in all : f \in c
  <2> DEFINE m == {g \in S : \A c \in closed : f \in c => g \in c}
  <2>1. S \in closed
    BY <1>2, <1>3
  <2>2. Closed(m)
    <3> SUFFICES ASSUME NEW e \in edges PROVE e[1] \in m <=> e[2] \in m
      OBVIOUS
    <3>1. \A c \in closed : e[1] \in c <=> e[2] \in c
      BY <1>3
    <3> QED BY <1>2, <3>1
  <2>3. f \in m /\ m \in closed
    BY <1>3, <2>2
  <2>4. ASSUME NEW d \in closed, d \subseteq m PROVE d = m
    <3>1. CASE f \in d
      BY <2>4, <3>1
    <3>2. CASE f \notin d
      <4>1. m \ d \in closed
        BY <1>4, <2>3, <3>2
      <4>2. m \subseteq m \ d
        BY <2>3, <3>2, <4>1
      <4> QED BY <1>3, <2>4, <4>2
    <3> QED BY <3>1, <3>2
  <2> QED BY <1>3, <2>3, <2>4
<1> QED BY <1>1, <1>3, <1>5, <1>6 DEF Grouping!IsPartition

(* What is defined for each node of a graph by the node's own and by what its
   successors have: such a function exists, the union of all that can be reached. *)
IsTree(f, N, own, below) == f = [n \in N |-> own[n] \cup UNION {f[p] : p \in below[n]}]

LEMMA TreeExists ==
    ASSUME NEW N, NEW own, NEW below, \A n \in N : below[n] \subseteq N
    PROVE  \E f : IsTree(f, N, own, below)
<1> DEFINE Closed(K) == \A k \in K : below[k] \subseteq K
           Reach(n) == {k \in N : \A K \in SUBSET N : n \in K /\ Closed(K) => k \in K}
           f == [n \in N |-> UNION {own[k] : k \in Reach(n)}]
<1>1. ASSUME NEW n \in N
      PROVE  \A k : k \in Reach(n) <=> k = n \/ \E p \in below[n] : k \in Reach(p)
  <2> DEFINE K == {n} \cup UNION {Reach(p) : p \in below[n]}
  <2>1. K \in SUBSET N
    OBVIOUS
  <2>2. ASSUME NEW p \in N PROVE p \in Reach(p) /\ Closed(Reach(p))
    OBVIOUS
  <2>3. \A p \in below[n] : p \in N /\ p \in Reach(p) /\ Closed(Reach(p))
    BY <2>2
  <2>4. ASSUME NEW k \in K, NEW q \in below[k] PROVE q \in K
    <3>1. CASE k = n
      BY <2>3, <2>4, <3>1
    <3>2. CASE \E p \in below[n] : k \in Reach(p)
      <4>1. PICK p \in below[n] : k \in Reach(p)
        BY <3>2
      <4>2. q \in Reach(p)
        BY <2>3, <2>4, <4>1
      <4> QED BY <4>2
    <3> QED BY <3>1, <3>2
  <2>5. Reach(n) \subseteq K
    BY <2>1, <2>4
  <2>6. ASSUME NEW p \in below[n], NEW k \in Reach(p) PROVE k \in Reach(n)
    <3> SUFFICES ASSUME NEW L \in SUBSET N, n \in L, Closed(L) PROVE k \in L
      OBVIOUS
    <3> QED BY <2>6
  <2>7. n \in Reach(n)
    BY <2>2
  <2> QED BY <2>5, <2>6, <2>7
<1> HIDE DEF Reach
<1>2. ASSUME NEW n \in N PROVE f[n] = own[n] \cup UNION {f[p] : p \in below[n]}
  <2>1. \A p \in below[n] : p \in N /\ f[p] = UNION {own[k] : k \in Reach(p)}
    OBVIOUS
  <2>2. f[n] = UNION {own[k] : k \in Reach(n)}
    OBVIOUS
  <2> HIDE DEF f
  <2>3. ASSUME NEW x, x \in f[n] PROVE x \in own[n] \/ \E p \in below[n] : x \in f[p]
    <3>1. PICK k \in Reach(n) : x \in own[k]
      BY <2>2, <2>3
    <3> QED BY <1>1, <2>1, <3>1
  <2>4. ASSUME NEW x, x \in own[n] \/ \E p \in below[n] : x \in f[p] PROVE x \in f[n]
    BY <1>1, <2>1, <2>2, <2>4
  <2> QED BY <2>3, <2>4
<1>3. f = [n \in N |-> own[n] \cup UNION {f[p] : p \in below[n]}]
  <2>1. f = [n \in N |-> f[n]]
    OBVIOUS
  <2> HIDE DEF f
  <2> QED BY <1>2, <2>1
<1> QED BY <1>3 DEF IsTree

(* A partition of c with no member that is too large. *)
Fits(P, c) == Grouping!IsPartition(P, c) /\ \A x \in P : ~Grouping!Oversized(x)

(* A set of one is neither too large nor rejected. *)
LEMMA SingleFits ==
    /\ \A c : Fits(Grouping!Singly(c), c)
    /\ \A c : \A x \in Grouping!Singly(c) : ~(Cardinality(x) > 1) /\ ~Grouping!Vetoed(x)
<1>1. ASSUME NEW c, NEW x \in Grouping!Singly(c) PROVE Cardinality(x) = 1
  BY FS_Singleton DEF Grouping!Singly
<1> QED BY <1>1, SinglyApart, GroupingCardinality DEF Fits, Grouping!Oversized, Grouping!Vetoed

(* f is what SplitOversized defines. *)
IsPieces(f, S, n) ==
    f = [b \in 0 .. n |-> [c \in SUBSET S |->
            IF b \div 2 < 1 THEN Grouping!Singly(c)
            ELSE UNION {IF Grouping!Oversized(p) THEN f[b \div 2][p] ELSE {p} :
                           p \in Grouping!Components(c, b \div 2)}]]

(* The recursion of SplitOversized has a solution. *)
LEMMA PiecesExist ==
    ASSUME NEW S, NEW n \in Nat
    PROVE  \E f : IsPieces(f, S, n)
<1> DEFINE N == (0 .. n) \X (SUBSET S)
           Cut(b, c) == Grouping!Components(c, b \div 2)
           own == [m \in N |-> IF m[1] \div 2 < 1 THEN Grouping!Singly(m[2])
                               ELSE {p \in Cut(m[1], m[2]) : ~Grouping!Oversized(p)}]
           below == [m \in N |-> IF m[1] \div 2 < 1 THEN {}
                                 ELSE {<<m[1] \div 2, p>> :
                                          p \in {q \in Cut(m[1], m[2]) : Grouping!Oversized(q)}}]
<1>1. \A b \in 0 .. n : b \div 2 \in 0 .. n
  OBVIOUS
<1>2. \A b : \A c \in SUBSET S : \A p \in Cut(b, c) : p \in SUBSET S
  BY ComponentsApart DEF Grouping!IsPartition
<1> HIDE DEF Cut
<1>3. \A m \in N : below[m] \subseteq N
  <2> TAKE m \in N
  <2>1. m[1] \in 0 .. n /\ m[2] \in SUBSET S
    OBVIOUS
  <2>2. \A p \in Cut(m[1], m[2]) : <<m[1] \div 2, p>> \in N
    BY <1>1, <1>2, <2>1
  <2>3. below[m] = IF m[1] \div 2 < 1 THEN {}
                   ELSE {<<m[1] \div 2, p>> : p \in {q \in Cut(m[1], m[2]) : Grouping!Oversized(q)}}
    OBVIOUS
  <2> HIDE DEF N, below
  <2> QED BY <2>2, <2>3
<1>4. PICK t : IsTree(t, N, own, below)
  <2> HIDE DEF N, own, below
  <2> QED BY <1>3, TreeExists
<1> DEFINE f == [b \in 0 .. n |-> [c \in SUBSET S |-> t[<<b, c>>]]]
<1>5. ASSUME NEW b \in 0 .. n, NEW c \in SUBSET S
      PROVE  t[<<b, c>>] = IF b \div 2 < 1 THEN Grouping!Singly(c)
                           ELSE UNION {IF Grouping!Oversized(p) THEN t[<<b \div 2, p>>] ELSE {p} :
                                          p \in Cut(b, c)}
  <2> DEFINE m == <<b, c>>
  <2>1. m \in N /\ m[1] = b /\ m[2] = c
    OBVIOUS
  <2>2. own[m] = IF b \div 2 < 1 THEN Grouping!Singly(c) ELSE {p \in Cut(b, c) : ~Grouping!Oversized(p)}
    BY <2>1
  <2>3. below[m] = IF b \div 2 < 1 THEN {}
                   ELSE {<<b \div 2, p>> : p \in {q \in Cut(b, c) : Grouping!Oversized(q)}}
    BY <2>1
  <2> HIDE DEF N, own, below, m
  <2>4. t[m] = own[m] \cup UNION {t[k] : k \in below[m]}
    BY <1>4, <2>1 DEF IsTree
  <2>5. CASE b \div 2 < 1
    <3>1. below[m] = {} /\ own[m] = Grouping!Singly(c)
      BY <2>2, <2>3, <2>5
    <3>2. t[m] = Grouping!Singly(c)
      BY <2>4, <3>1
    <3> QED BY <2>5, <3>2 DEF m
  <2>6. CASE ~(b \div 2 < 1)
    <3> DEFINE Of(p) == IF Grouping!Oversized(p) THEN t[<<b \div 2, p>>] ELSE {p}
    <3>1. \A x : x \in t[m] <=> \/ x \in Cut(b, c) /\ ~Grouping!Oversized(x)
                                \/ \E p \in Cut(b, c) : Grouping!Oversized(p) /\ x \in t[<<b \div 2, p>>]
      <4>1. \A x : x \in own[m] <=> x \in Cut(b, c) /\ ~Grouping!Oversized(x)
        BY <2>2, <2>6
      <4>2. \A k : k \in below[m] <=> \E p \in Cut(b, c) : Grouping!Oversized(p) /\ k = <<b \div 2, p>>
        BY <2>3, <2>6
      <4>3. \A x : x \in t[m] <=> x \in own[m] \/ \E k \in below[m] : x \in t[k]
        BY <2>4
      <4> QED BY <4>1, <4>2, <4>3
    <3>2. \A x : x \in UNION {Of(p) : p \in Cut(b, c)} <=> \E p \in Cut(b, c) : x \in Of(p)
      OBVIOUS
    <3>3. t[m] = UNION {Of(p) : p \in Cut(b, c)}
      BY <3>1, <3>2
    <3> QED BY <2>6, <3>3 DEF m
  <2> QED BY <2>5, <2>6
<1>6. \A b \in 0 .. n : \A c \in SUBSET S : f[b][c] = t[<<b, c>>]
  OBVIOUS
<1>7. ASSUME NEW b \in 0 .. n, NEW c \in SUBSET S
      PROVE  t[<<b, c>>] = IF b \div 2 < 1 THEN Grouping!Singly(c)
                           ELSE UNION {IF Grouping!Oversized(p) THEN f[b \div 2][p] ELSE {p} :
                                          p \in Grouping!Components(c, b \div 2)}
  <2>1. \A p \in Cut(b, c) : f[b \div 2][p] = t[<<b \div 2, p>>]
    BY <1>1, <1>2, <1>6
  <2> DEFINE Old(p) == IF Grouping!Oversized(p) THEN t[<<b \div 2, p>>] ELSE {p}
             New(p) == IF Grouping!Oversized(p) THEN f[b \div 2][p] ELSE {p}
  <2>2. \A p \in Cut(b, c) : Old(p) = New(p)
    BY <2>1
  <2>3. t[<<b, c>>] = IF b \div 2 < 1 THEN Grouping!Singly(c) ELSE UNION {Old(p) : p \in Cut(b, c)}
    BY <1>5
  <2> HIDE DEF Old, New
  <2>4. UNION {Old(p) : p \in Cut(b, c)} = UNION {New(p) : p \in Cut(b, c)}
    BY <2>2
  <2>5. Cut(b, c) = Grouping!Components(c, b \div 2)
    BY DEF Cut
  <2> QED BY <2>3, <2>4, <2>5 DEF New
<1>8. IsPieces(f, S, n)
  BY <1>7 DEF IsPieces
<1> QED BY <1>8

(* What is too large is cut into pieces that fit: down to single fragments if no
   budget is small enough. *)
LEMMA PiecesFit ==
    ASSUME NEW S, S # {}, NEW n \in Nat
    PROVE  Fits(Grouping!SplitOversized(S, n), S)
<1> DEFINE f == CHOOSE g : g = [b \in 0 .. n |-> [c \in SUBSET S |->
                   IF b \div 2 < 1 THEN Grouping!Singly(c)
                   ELSE UNION {IF Grouping!Oversized(p) THEN g[b \div 2][p] ELSE {p} :
                                  p \in Grouping!Components(c, b \div 2)}]]
<1>1. Grouping!SplitOversized(S, n) = f[n][S]
  BY DEF Grouping!SplitOversized
<1>2. IsPieces(f, S, n)
  <2> DEFINE Body(g) == [b \in 0 .. n |-> [c \in SUBSET S |->
                   IF b \div 2 < 1 THEN Grouping!Singly(c)
                   ELSE UNION {IF Grouping!Oversized(p) THEN g[b \div 2][p] ELSE {p} :
                                  p \in Grouping!Components(c, b \div 2)}]]
  <2>1. f = CHOOSE g : g = Body(g)
    OBVIOUS
  <2>2. \A g : g = Body(g) <=> IsPieces(g, S, n)
    BY DEF IsPieces
  <2> HIDE DEF Body, f
  <2>3. PICK g : g = Body(g)
    BY <2>2, PiecesExist
  <2>4. f = Body(f)
    BY <2>1, <2>3
  <2> QED BY <2>2, <2>4
<1> HIDE DEF f
<1> DEFINE Of(b, p) == IF Grouping!Oversized(p) THEN f[b \div 2][p] ELSE {p}
           Good(b) == \A c \in SUBSET S : c # {} => Fits(f[b][c], c)
           T == {m \in Nat : \A b \in 0 .. n : b <= m => Good(b)}
<1>3. ASSUME NEW b \in 0 .. n, NEW c \in SUBSET S
      PROVE  f[b][c] = IF b \div 2 < 1 THEN Grouping!Singly(c)
                       ELSE UNION {Of(b, p) : p \in Grouping!Components(c, b \div 2)}
  <2> DEFINE Row(d) == [e \in SUBSET S |->
                          IF d \div 2 < 1 THEN Grouping!Singly(e)
                          ELSE UNION {Of(d, p) : p \in Grouping!Components(e, d \div 2)}]
  <2>1. f = [d \in 0 .. n |-> Row(d)]
    BY <1>2 DEF IsPieces
  <2>2. f[b] = Row(b)
    <3> HIDE DEF Row
    <3> QED BY <2>1
  <2> HIDE DEF Of
  <2> QED BY <2>2
<1> HIDE DEF Of
<1>4. ASSUME NEW b \in 0 .. n, b \div 2 >= 1 => Good(b \div 2) PROVE Good(b)
  <2> SUFFICES ASSUME NEW c \in SUBSET S, c # {} PROVE Fits(f[b][c], c)
    OBVIOUS
  <2>1. CASE b \div 2 < 1
    BY <1>3, <2>1, SingleFits
  <2>2. CASE ~(b \div 2 < 1)
    <3> DEFINE P == Grouping!Components(c, b \div 2)
               Q == [p \in P |-> Of(b, p)]
    <3>1. Grouping!IsPartition(P, c)
      BY ComponentsApart
    <3>2. \A p \in P : p \in SUBSET S /\ p # {}
      BY <3>1 DEF Grouping!IsPartition
    <3>3. Good(b \div 2)
      BY <1>4, <2>2
    <3>4. \A p \in P : Fits(Q[p], p)
      <4> TAKE p \in P
      <4>1. CASE Grouping!Oversized(p)
        <5>1. Q[p] = f[b \div 2][p]
          BY <4>1 DEF Of
        <5> QED BY <3>2, <3>3, <5>1
      <4>2. CASE ~Grouping!Oversized(p)
        <5>1. Q[p] = {p}
          BY <4>2 DEF Of
        <5>2. Grouping!IsPartition({p}, p)
          BY <3>2 DEF Grouping!IsPartition
        <5> QED BY <4>2, <5>1, <5>2 DEF Fits
      <4> QED BY <4>1, <4>2
    <3> HIDE DEF P
    <3>5. f[b][c] = UNION {Q[p] : p \in P}
      <4>1. f[b][c] = UNION {Of(b, p) : p \in P}
        BY <1>3, <2>2 DEF P
      <4>2. \A p \in P : Q[p] = Of(b, p)
        OBVIOUS
      <4> HIDE DEF Q
      <4> QED BY <4>1, <4>2
    <3> HIDE DEF Q
    <3>6. Grouping!IsPartition(UNION {Q[p] : p \in P}, c)
      BY <3>1, <3>4, Refined DEF Fits
    <3>7. \A x \in UNION {Q[p] : p \in P} : ~Grouping!Oversized(x)
      BY <3>4 DEF Fits
    <3> QED BY <3>5, <3>6, <3>7 DEF Fits
  <2> QED BY <2>1, <2>2
<1> HIDE DEF Good
<1>5. 0 \in T
  <2>1. Good(0)
    BY <1>4
  <2> QED BY <2>1
<1>6. ASSUME NEW m \in T PROVE m + 1 \in T
  <2> SUFFICES ASSUME NEW b \in 0 .. n, b <= m + 1 PROVE Good(b)
    OBVIOUS
  <2>1. m \in Nat /\ \A d \in 0 .. n : d <= m => Good(d)
    OBVIOUS
  <2>2. b \div 2 >= 1 => b \div 2 \in 0 .. n /\ b \div 2 <= m
    BY <2>1
  <2> QED BY <1>4, <2>1, <2>2
<1>7. T = Nat
  <2> HIDE DEF T
  <2>1. T \in SUBSET Nat
    BY DEF T
  <2> QED BY <1>5, <1>6, <2>1, Induction
<1>8. Good(n)
  BY <1>7
<1> QED BY <1>1, <1>8 DEF Good

-----------------------------------------------------------------------------
(* The parts of a component that is rejected and can be cut. *)
Below(c) == IF Grouping!Vetoed(c) /\ Grouping!CanSplit(c) THEN scene.parts[c] ELSE {}

(* What a component comes to if it is not cut into parts. *)
Leaf(c, budget) ==
    IF ~Grouping!Vetoed(c) THEN Grouping!Bound(c, budget)
    ELSE IF Grouping!CanSplit(c) THEN {} ELSE Grouping!Singly(c)

(* j and g are what Judged and BoundComponent define. *)
IsJudged(j, C) == j = [c \in SUBSET C |-> {c} \cup UNION {j[p] : p \in Below(c)}]
IsBounded(g, C, budget) ==
    g = [c \in SUBSET C |-> Leaf(c, budget) \cup UNION {g[p] : p \in Below(c)}]

(* The parts of a component partition it, and none of them is all of it. *)
LEMMA BelowIs ==
    ASSUME Grouping!GroupingAssumption, scene \in Scenes,
           NEW c \in SUBSET Fragment, Grouping!Vetoed(c), Grouping!CanSplit(c)
    PROVE  /\ Grouping!IsPartition(Below(c), c)
           /\ \A p \in Below(c) : p # c /\ p # {} /\ p \in SUBSET c
<1> DEFINE P == scene.parts[c]
<1>1. Below(c) = P
  BY DEF Below
<1>2. Cardinality(P) >= 2
  BY GroupingCardinality DEF Grouping!CanSplit
<1>3. P # {}
  BY <1>2, FS_EmptySet
<1>4. Grouping!IsPartition(P, c)
  BY <1>3 DEF Grouping!GroupingAssumption
<1>5. ASSUME NEW p \in P, p = c PROVE FALSE
  <2>1. P = {c}
    <3>1. c \in P /\ UNION P = c /\ {} \notin P /\ \A q \in P : q = c \/ q \cap c = {}
      BY <1>4, <1>5 DEF Grouping!IsPartition
    <3> HIDE DEF P
    <3>2. \A q \in P : q \subseteq c /\ q # {}
      BY <3>1
    <3>3. \A q \in P : q = c
      BY <3>1, <3>2
    <3> QED BY <3>1, <3>3
  <2>2. Cardinality(P) = 1
    BY <2>1, FS_Singleton
  <2> HIDE DEF P
  <2> QED BY <1>2, <2>2
<1> QED BY <1>1, <1>4, <1>5 DEF Grouping!IsPartition

(* Both recursions have solutions, and these are what the operators are about. *)
LEMMA TreesExist ==
    ASSUME Grouping!GroupingAssumption, scene \in Scenes, NEW C \in SUBSET Fragment, NEW budget
    PROVE  /\ \E j : IsJudged(j, C) /\ Grouping!Judged(C) = j[C]
           /\ \E g : IsBounded(g, C, budget) /\ Grouping!BoundComponent(C, budget) = g[C]
<1> DEFINE below == [c \in SUBSET C |-> Below(c)]
           one == [c \in SUBSET C |-> {c}]
           leaf == [c \in SUBSET C |-> Leaf(c, budget)]
           N == SUBSET C
<1>1. \A c \in SUBSET C : below[c] \subseteq SUBSET C
  <2>1. \A c \in SUBSET C : Below(c) \subseteq SUBSET C
    BY BelowIs DEF Below
  <2> QED BY <2>1
<1>2. \E j : IsTree(j, N, one, below)
  <2> HIDE DEF one, below
  <2> QED BY <1>1, TreeExists
<1>3. \E g : IsTree(g, N, leaf, below)
  <2> HIDE DEF leaf, below
  <2> QED BY <1>1, TreeExists
<1>4. \A f : IsTree(f, N, one, below) => IsJudged(f, C)
  BY DEF IsTree, IsJudged
<1>5. \A f : IsTree(f, N, leaf, below) => IsBounded(f, C, budget)
  BY DEF IsTree, IsBounded
<1> HIDE DEF one, leaf, below
<1>6. \E j : IsJudged(j, C) /\ Grouping!Judged(C) = j[C]
  <2> DEFINE Body(f) == [c \in SUBSET C |->
                {c} \cup (IF Grouping!Vetoed(c) /\ Grouping!CanSplit(c)
                          THEN UNION {f[p] : p \in scene.parts[c]} ELSE {})]
             j == CHOOSE f : f = Body(f)
  <2>1. Grouping!Judged(C) = j[C]
    BY DEF Grouping!Judged
  <2>2. \A f : f = Body(f) <=> IsJudged(f, C)
    <3> TAKE f
    <3>1. \A c \in SUBSET C : (IF Grouping!Vetoed(c) /\ Grouping!CanSplit(c)
                                THEN UNION {f[p] : p \in scene.parts[c]} ELSE {})
                              = UNION {f[p] : p \in Below(c)}
      BY DEF Below
    <3> QED BY <3>1 DEF IsJudged
  <2> HIDE DEF Body
  <2>3. j = Body(j)
    BY <1>2, <1>4, <2>2
  <2> HIDE DEF j
  <2> QED BY <2>1, <2>2, <2>3
<1>7. \E g : IsBounded(g, C, budget) /\ Grouping!BoundComponent(C, budget) = g[C]
  <2> DEFINE Body(f) == [c \in SUBSET C |->
                IF ~Grouping!Vetoed(c) THEN Grouping!Bound(c, budget)
                ELSE IF Grouping!CanSplit(c) THEN Grouping!Parts(c, f)
                ELSE Grouping!Singly(c)]
             g == CHOOSE f : f = Body(f)
  <2>1. Grouping!BoundComponent(C, budget) = g[C]
    BY DEF Grouping!BoundComponent
  <2>2. \A f : f = Body(f) <=> IsBounded(f, C, budget)
    <3> TAKE f
    <3>1. \A c \in SUBSET C : (IF ~Grouping!Vetoed(c) THEN Grouping!Bound(c, budget)
                                ELSE IF Grouping!CanSplit(c) THEN Grouping!Parts(c, f)
                                ELSE Grouping!Singly(c))
                              = Leaf(c, budget) \cup UNION {f[p] : p \in Below(c)}
      BY DEF Below, Leaf, Grouping!Parts
    <3> QED BY <3>1 DEF IsBounded
  <2> HIDE DEF Body
  <2>3. g = Body(g)
    BY <1>3, <1>5, <2>2
  <2> HIDE DEF g
  <2> QED BY <2>1, <2>2, <2>3
<1> QED BY <1>6, <1>7

(* x was cut from a component in J that was too large. *)
CutFrom(x, J) == \E k \in J : x \subseteq k /\ Grouping!Oversized(k)

(* P is what c comes to, and J are the components the veto was asked about. *)
Owned(P, J, c) ==
    /\ Fits(P, c)
    /\ \A k \in J : k \subseteq c /\ k # {}
    /\ \A x \in P : Grouping!Vetoed(x) => CutFrom(x, J)
    /\ \A x \in P : Cardinality(x) > 1 /\ ~CutFrom(x, J) =>
          x \in J /\ \A d \in J : d \cap x # {} => x \subseteq d

(* A component that is not cut into parts. *)
LEMMA LeafOwned ==
    ASSUME NEW c, c # {}, NEW budget \in Nat, ~(Grouping!Vetoed(c) /\ Grouping!CanSplit(c))
    PROVE  Owned(Leaf(c, budget), {c}, c)
<1>1. CASE Grouping!Vetoed(c)
  <2>1. Leaf(c, budget) = Grouping!Singly(c)
    BY <1>1 DEF Leaf
  <2> QED BY <2>1, SingleFits DEF Owned
<1>2. CASE ~Grouping!Vetoed(c) /\ Grouping!Oversized(c)
  <2>1. Leaf(c, budget) = Grouping!SplitOversized(c, budget)
    BY <1>2 DEF Leaf, Grouping!Bound
  <2>2. Fits(Leaf(c, budget), c)
    BY <2>1, PiecesFit
  <2>3. \A x \in Leaf(c, budget) : x \subseteq c
    BY <2>2 DEF Fits, Grouping!IsPartition
  <2> QED BY <1>2, <2>2, <2>3 DEF Owned, CutFrom
<1>3. CASE ~Grouping!Vetoed(c) /\ ~Grouping!Oversized(c)
  <2>1. Leaf(c, budget) = {c}
    BY <1>3 DEF Leaf, Grouping!Bound
  <2>2. Fits({c}, c)
    BY <1>3 DEF Fits, Grouping!IsPartition
  <2> QED BY <1>3, <2>1, <2>2 DEF Owned
<1> QED BY <1>1, <1>2, <1>3

(* What h has for the members of B. *)
AllOf(h, B) == UNION {h[p] : p \in B}

(* What some parts come to, the whole comes to. *)
LEMMA PartsOwned ==
    ASSUME NEW c, NEW B, Grouping!IsPartition(B, c),
           NEW g, NEW j, \A p \in B : Owned(g[p], j[p], p)
    PROVE  /\ Owned(AllOf(g, B), AllOf(j, B), c)
           /\ c # {} => Owned(AllOf(g, B), {c} \cup AllOf(j, B), c)
<1> DEFINE P == AllOf(g, B)
           Js == AllOf(j, B)
<1>1. (\A x : x \in P <=> \E p \in B : x \in g[p]) /\ (\A x : x \in Js <=> \E p \in B : x \in j[p])
  BY DEF AllOf
<1>2. Fits(P, c)
  <2>1. Grouping!IsPartition(P, c)
    BY Refined DEF Owned, Fits, AllOf
  <2>2. \A x \in P : ~Grouping!Oversized(x)
    BY <1>1 DEF Owned, Fits
  <2> QED BY <2>1, <2>2 DEF Fits
<1> HIDE DEF P, Js
<1>3. \A p \in B : p \subseteq c
  BY DEF Grouping!IsPartition
<1>4. \A k \in Js : k \subseteq c /\ k # {}
  BY <1>1, <1>3 DEF Owned
<1>5. ASSUME NEW x \in P
      PROVE  /\ x \subseteq c
             /\ Grouping!Vetoed(x) => CutFrom(x, Js)
             /\ Cardinality(x) > 1 /\ ~CutFrom(x, Js) =>
                   x \in Js /\ \A d \in Js : d \cap x # {} => x \subseteq d
  <2>1. PICK p \in B : x \in g[p]
    BY <1>1
  <2>2. Owned(g[p], j[p], p)
    OBVIOUS
  <2>3. x \subseteq p /\ x # {}
    BY <2>1, <2>2 DEF Owned, Fits, Grouping!IsPartition
  <2>4. CutFrom(x, j[p]) => CutFrom(x, Js)
    BY <1>1 DEF CutFrom
  <2>5. ASSUME Cardinality(x) > 1, ~CutFrom(x, Js)
        PROVE  x \in Js /\ \A d \in Js : d \cap x # {} => x \subseteq d
    <3>1. x \in j[p] /\ \A d \in j[p] : d \cap x # {} => x \subseteq d
      BY <2>1, <2>2, <2>4, <2>5 DEF Owned
    <3>2. ASSUME NEW d \in Js, d \cap x # {} PROVE d \in j[p]
      <4>1. PICK q \in B : d \in j[q]
        BY <1>1
      <4>2. d \subseteq q
        BY <4>1 DEF Owned
      <4>3. q = p
        BY <2>3, <3>2, <4>2 DEF Grouping!IsPartition
      <4> QED BY <4>1, <4>3
    <3> QED BY <1>1, <3>1, <3>2
  <2> QED BY <1>3, <2>1, <2>2, <2>3, <2>4, <2>5 DEF Owned
<1>6. Owned(P, Js, c)
  BY <1>2, <1>4, <1>5 DEF Owned
<1>7. ASSUME c # {} PROVE Owned(P, {c} \cup Js, c)
  <2>1. \A x \in P : CutFrom(x, Js) => CutFrom(x, {c} \cup Js)
    BY DEF CutFrom
  <2>2. \A k \in {c} \cup Js : k \subseteq c /\ k # {}
    BY <1>4, <1>7
  <2>3. ASSUME NEW x \in P, Cardinality(x) > 1, ~CutFrom(x, {c} \cup Js)
        PROVE  x \in {c} \cup Js /\ \A d \in {c} \cup Js : d \cap x # {} => x \subseteq d
    BY <1>5, <2>1, <2>3
  <2> QED BY <1>2, <1>5, <2>1, <2>2, <2>3 DEF Owned
<1> QED BY <1>6, <1>7 DEF P, Js

(* What a component comes to, however often its parts are cut again. *)
LEMMA ComponentOwned ==
    ASSUME Grouping!GroupingAssumption, scene \in Scenes,
           NEW C \in SUBSET Fragment, C # {}, NEW budget \in Nat
    PROVE  Owned(Grouping!BoundComponent(C, budget), Grouping!Judged(C), C)
<1>1. PICK j : IsJudged(j, C) /\ Grouping!Judged(C) = j[C]
  BY TreesExist
<1>2. PICK g : IsBounded(g, C, budget) /\ Grouping!BoundComponent(C, budget) = g[C]
  BY TreesExist
<1>3. IsFiniteSet(C)
  BY FS_Subset, GroupingFinite DEF Grouping!GroupingAssumption
<1> DEFINE T == {c \in SUBSET C : c # {} /\ ~Owned(g[c], j[c], c)}
<1>4. ASSUME T # {} PROVE FALSE
  <2>1. PICK c \in T : \A d \in T : d \subseteq c => d = c
    <3> HIDE DEF T
    <3>1. T \in SUBSET SUBSET C
      BY DEF T
    <3> QED BY <1>3, <1>4, <3>1, Smallest
  <2>2. c \in SUBSET C /\ c # {} /\ c \in SUBSET Fragment
    OBVIOUS
  <2>3. /\ j[c] = {c} \cup AllOf(j, Below(c))
        /\ g[c] = Leaf(c, budget) \cup AllOf(g, Below(c))
    BY <1>1, <1>2, <2>2 DEF IsJudged, IsBounded, AllOf
  <2>4. CASE ~(Grouping!Vetoed(c) /\ Grouping!CanSplit(c))
    <3>1. Below(c) = {}
      BY <2>4 DEF Below
    <3>2. j[c] = {c} /\ g[c] = Leaf(c, budget)
      BY <2>3, <3>1 DEF AllOf
    <3> QED BY <2>2, <2>4, <3>2, LeafOwned
  <2>5. CASE Grouping!Vetoed(c) /\ Grouping!CanSplit(c)
    <3>1. /\ Grouping!IsPartition(Below(c), c)
          /\ \A p \in Below(c) : p # c /\ p # {} /\ p \in SUBSET c
      BY <2>2, <2>5, BelowIs
    <3>2. \A p \in Below(c) : Owned(g[p], j[p], p)
      BY <2>1, <2>2, <3>1
    <3>3. Leaf(c, budget) = {}
      BY <2>5 DEF Leaf
    <3>4. g[c] = AllOf(g, Below(c))
      BY <2>3, <3>3
    <3>5. Owned(AllOf(g, Below(c)), {c} \cup AllOf(j, Below(c)), c)
      BY <2>2, <3>1, <3>2, PartsOwned
    <3> QED BY <2>3, <3>4, <3>5
  <2> QED BY <2>4, <2>5
<1> QED BY <1>1, <1>2, <1>4

(* What all fragments come to: of S, not of a component. *)
LEMMA GroupsOwned ==
    ASSUME Grouping!GroupingAssumption, scene \in Scenes,
           NEW S \in SUBSET Fragment, NEW budget \in Nat
    PROVE  Owned(Grouping!GroupFragments(S, budget),
                 UNION {Grouping!Judged(c) : c \in Grouping!Components(S, budget)}, S)
<1> DEFINE B == Grouping!Components(S, budget)
           g == [c \in B |-> Grouping!BoundComponent(c, budget)]
           j == [c \in B |-> Grouping!Judged(c)]
<1>1. Grouping!IsPartition(B, S)
  BY ComponentsApart
<1>2. \A c \in B : c \in SUBSET Fragment /\ c # {}
  BY <1>1 DEF Grouping!IsPartition
<1> HIDE DEF B
<1>3. \A c \in B : Owned(g[c], j[c], c)
  BY <1>2, ComponentOwned
<1>4. Owned(AllOf(g, B), AllOf(j, B), S)
  <2> HIDE DEF g, j
  <2> QED BY <1>1, <1>3, PartsOwned
<1>5. AllOf(g, B) = Grouping!GroupFragments(S, budget)
  <2>1. Grouping!GroupFragments(S, budget) = UNION {Grouping!BoundComponent(c, budget) : c \in B}
    BY DEF Grouping!GroupFragments, B
  <2> QED BY <2>1 DEF AllOf
<1>6. AllOf(j, B) = UNION {Grouping!Judged(c) : c \in B}
  BY DEF AllOf
<1> HIDE DEF g, j
<1> QED BY <1>4, <1>5, <1>6 DEF B

(* No more than a step of this part changes what the scene says. *)
LEMMA SceneStays ==
    ASSUME UNCHANGED scene
    PROVE  /\ \A c : Grouping!Vetoed(c)' <=> Grouping!Vetoed(c)
           /\ \A c : Grouping!Oversized(c)' <=> Grouping!Oversized(c)
           /\ \A c : Grouping!Piece(c)' <=> Grouping!Piece(c)
<1>1. \A c : Grouping!Vetoed(c)' <=> Grouping!Vetoed(c)
  BY DEF Grouping!Vetoed
<1>2. \A c : Grouping!Oversized(c)' <=> Grouping!Oversized(c)
  BY DEF Grouping!Oversized, Grouping!Width, Grouping!Height, Grouping!X, Grouping!Y,
         Grouping!W, Grouping!H, Grouping!Low, Grouping!High
<1>3. \A S, b, f, g : Grouping!ShouldMerge(f, g, S, b)' <=> Grouping!ShouldMerge(f, g, S, b)
  BY DEF Grouping!ShouldMerge, Grouping!Vertical, Grouping!X, Grouping!Y, Grouping!W,
         Grouping!H, Grouping!Overlap, Grouping!Low, Grouping!High
<1>4. \A f, g : Grouping!WaistVeto(f, g)' <=> Grouping!WaistVeto(f, g)
  BY DEF Grouping!WaistVeto, Grouping!BoxesOverlap, Grouping!X, Grouping!Y, Grouping!W,
         Grouping!H, Grouping!Overlap, Grouping!Low, Grouping!High
<1>5. \A S, b : Grouping!Components(S, b)' = Grouping!Components(S, b)
  BY <1>3, <1>4 DEF Grouping!Components
<1>6. \A c : Grouping!Judged(c)' = Grouping!Judged(c)
  BY DEF Grouping!Judged, Grouping!Vetoed, Grouping!CanSplit
<1>7. \A c : Grouping!Piece(c)' <=> Grouping!Piece(c)
  BY <1>2, <1>5, <1>6 DEF Grouping!Piece
<1> QED BY <1>1, <1>2, <1>7

(* Groups that partition the fragments, fit and are not rejected as a whole. *)
Sound(gs) ==
    /\ Fits(gs, Fragment)
    /\ \A g \in gs : Grouping!Vetoed(g) => Grouping!Piece(g)

(* Each group of several, but the pieces, has its own decision. *)
Decided(gs, decisions) ==
    \A g \in gs : Cardinality(g) > 1 /\ ~Grouping!Piece(g) => \A f \in g : decisions[f] = g

GroupingInv ==
    /\ scene \in Scenes
    /\ pc \in {"group", "join", "done"}
    /\ pc = "group" => groups = {Fragment} /\ joined = FALSE
    /\ pc # "group" => Sound(groups)
    /\ pc # "group" /\ (pc = "done" \/ ~joined) => Decided(groups, decision)

(* The groups of the first pass. *)
LEMMA FirstGroups ==
    ASSUME Grouping!GroupingAssumption, scene \in Scenes
    PROVE  LET gs == Grouping!GroupFragments(Fragment, Budget)
               comps == Grouping!Components(Fragment, Budget)
           IN  Sound(gs) /\ Decided(gs, [f \in Fragment |-> Grouping!LastJudged(f, comps)])
<1> DEFINE gs == Grouping!GroupFragments(Fragment, Budget)
           comps == Grouping!Components(Fragment, Budget)
           J == UNION {Grouping!Judged(c) : c \in comps}
<1>1. Owned(gs, J, Fragment)
  BY GroupsOwned DEF Grouping!GroupingAssumption
<1>2. \A x : Grouping!Piece(x) <=> CutFrom(x, J)
  BY DEF Grouping!Piece, CutFrom
<1>3. \A f : Grouping!LastJudged(f, comps) =
                CHOOSE c \in {k \in J : f \in k} : \A d \in {k \in J : f \in k} : c \subseteq d
  BY DEF Grouping!LastJudged
<1> HIDE DEF gs, comps, J
<1>4. Sound(gs)
  BY <1>1, <1>2 DEF Owned, Sound
<1>5. ASSUME NEW g \in gs, Cardinality(g) > 1, ~Grouping!Piece(g), NEW f \in g
      PROVE  f \in Fragment /\ Grouping!LastJudged(f, comps) = g
  <2> DEFINE about == {k \in J : f \in k}
  <2>1. g \in J /\ \A d \in J : d \cap g # {} => g \subseteq d
    BY <1>1, <1>2, <1>5 DEF Owned
  <2>2. g \in about /\ \A d \in about : g \subseteq d
    BY <2>1
  <2>3. f \in Fragment
    BY <1>1 DEF Owned, Fits, Grouping!IsPartition
  <2>4. \A c \in about : (\A d \in about : c \subseteq d) => c = g
    BY <2>2
  <2>5. Grouping!LastJudged(f, comps) = CHOOSE c \in about : \A d \in about : c \subseteq d
    BY <1>3
  <2> HIDE DEF about
  <2> QED BY <2>2, <2>3, <2>4, <2>5
<1>6. Decided(gs, [f \in Fragment |-> Grouping!LastJudged(f, comps)])
  BY <1>5 DEF Decided
<1> QED BY <1>4, <1>6 DEF gs, comps

(* Two groups are joined only into one that fits and is not rejected. *)
LEMMA JoinSound ==
    ASSUME Grouping!GroupingAssumption, scene \in Scenes, Sound(groups),
           NEW A \in groups, NEW B \in groups, A # B, Grouping!Joins(A, B)
    PROVE  Sound(Grouping!Joined(A, B))
<1> DEFINE x == A \cup B
           J == UNION {Grouping!Judged(c) : c \in Grouping!Components(x, JoinBudget)}
           new == (groups \ {A, B}) \cup {x}
<1>1. /\ UNION groups = Fragment /\ {} \notin groups
      /\ \A g, h \in groups : g = h \/ g \cap h = {}
      /\ \A g \in groups : ~Grouping!Oversized(g)
      /\ \A g \in groups : Grouping!Vetoed(g) => Grouping!Piece(g)
  BY DEF Sound, Fits, Grouping!IsPartition
<1>2. x \in SUBSET Fragment
  BY <1>1
<1>3. Owned({x}, J, x)
  <2>1. Owned(Grouping!GroupFragments(x, JoinBudget), J, x)
    BY <1>2, GroupsOwned DEF Grouping!GroupingAssumption
  <2>2. Grouping!GroupFragments(x, JoinBudget) = {x}
    BY DEF Grouping!Joins
  <2> QED BY <2>1, <2>2
<1> HIDE DEF J
<1>4. ~Grouping!Oversized(x)
  BY <1>3 DEF Owned, Fits
<1>5. ~Grouping!Vetoed(x)
  <2>1. \A k \in J : k \subseteq x
    BY <1>3 DEF Owned
  <2>2. \A k \in J : x \subseteq k => k = x
    BY <2>1
  <2>3. ~CutFrom(x, J)
    BY <1>4, <2>2 DEF CutFrom
  <2> QED BY <1>3, <2>3 DEF Owned
<1>6. UNION new = Fragment /\ {} \notin new
  <2>1. {} \notin new
    BY <1>1
  <2>2. \A g \in new : g \subseteq Fragment
    BY <1>1, <1>2
  <2>3. ASSUME NEW f \in Fragment PROVE \E g \in new : f \in g
    <3>1. PICK g \in groups : f \in g
      BY <1>1
    <3>2. g \in new \/ g = A \/ g = B
      OBVIOUS
    <3>3. x \in new
      OBVIOUS
    <3> QED BY <3>1, <3>2, <3>3
  <2> HIDE DEF new
  <2> QED BY <2>1, <2>2, <2>3
<1>7. \A g, h \in new : g = h \/ g \cap h = {}
  BY <1>1
<1>8. Grouping!Joined(A, B) = new
  BY DEF Grouping!Joined
<1> HIDE DEF new
<1>9. \A g \in new : g \in groups \/ g = x
  BY DEF new
<1> QED BY <1>1, <1>4, <1>5, <1>6, <1>7, <1>8, <1>9 DEF Sound, Fits, Grouping!IsPartition

(* GroupingInv is inductive. *)
LEMMA GroupingStep ==
    ASSUME Grouping!GroupingAssumption, GroupingInv, [Grouping!Next]_(Grouping!vars)
    PROVE  GroupingInv'
<1>1. scene \in Scenes /\ UNCHANGED scene
  BY DEF GroupingInv, Grouping!Next, Grouping!Group, Grouping!JoinPair, Grouping!JoinDone,
         Grouping!vars
<1>2. \A gs : Sound(gs) => Sound(gs)'
  BY <1>1, SceneStays DEF Sound, Fits, Grouping!IsPartition
<1>3. \A gs, decisions : Decided(gs, decisions) => Decided(gs, decisions)'
  BY <1>1, SceneStays DEF Decided
<1>4. CASE Grouping!Group
  <2> DEFINE gs == Grouping!GroupFragments(Fragment, Budget)
             ds == [f \in Fragment |-> Grouping!LastJudged(f, Grouping!Components(Fragment, Budget))]
  <2>1. Sound(gs) /\ Decided(gs, ds)
    BY <1>1, FirstGroups
  <2>2. groups' = gs /\ decision' = ds /\ pc' \in {"join", "done"}
    BY <1>4 DEF Grouping!Group
  <2> HIDE DEF gs, ds
  <2>3. Sound(groups)' /\ Decided(groups, decision)'
    BY <1>2, <1>3, <2>1, <2>2
  <2> QED BY <1>1, <2>2, <2>3 DEF GroupingInv
<1>5. CASE Grouping!JoinPair
  <2>1. pc = "join" /\ pc' = "join" /\ joined' = TRUE
    BY <1>5 DEF Grouping!JoinPair
  <2>2. PICK A \in groups, B \in groups :
           A # B /\ Grouping!Joins(A, B) /\ groups' = Grouping!Joined(A, B)
    BY <1>5 DEF Grouping!JoinPair
  <2>3. Sound(Grouping!Joined(A, B))
    BY <1>1, <2>1, <2>2, JoinSound DEF GroupingInv
  <2>4. Sound(groups)'
    BY <1>2, <2>2, <2>3
  <2> QED BY <1>1, <2>1, <2>4 DEF GroupingInv
<1>6. CASE Grouping!JoinDone
  <2>1. pc = "join" /\ pc' = "done" /\ UNCHANGED <<groups, joined>> /\ decision' = Grouping!Record
    BY <1>6 DEF Grouping!JoinDone
  <2>2. Sound(groups) /\ (~joined => Decided(groups, decision))
    BY <2>1 DEF GroupingInv
  <2>3. ASSUME NEW g \in groups, Cardinality(g) > 1, ~Grouping!Piece(g), NEW f \in g
        PROVE  Grouping!Record[f] = g
    <3>1. f \in Fragment /\ \A h \in groups : f \in h => h = g
      BY <2>2, <2>3 DEF Sound, Fits, Grouping!IsPartition
    <3>2. (CHOOSE c \in groups : f \in c) = g
      BY <2>3, <3>1
    <3>3. Grouping!Record[f] = IF joined THEN g ELSE decision[f]
      BY <2>3, <3>1, <3>2, GroupingCardinality DEF Grouping!Record
    <3> QED BY <2>2, <2>3, <3>3 DEF Decided
  <2>4. Decided(groups, Grouping!Record)
    BY <2>3 DEF Decided
  <2>5. Sound(groups)' /\ Decided(groups, decision)'
    BY <1>2, <1>3, <2>1, <2>2, <2>4
  <2> QED BY <1>1, <2>1, <2>5 DEF GroupingInv
<1>7. CASE UNCHANGED Grouping!vars
  <2>1. UNCHANGED <<pc, scene, groups, joined, decision>>
    BY <1>7 DEF Grouping!vars
  <2> QED BY <1>2, <1>3, <2>1 DEF GroupingInv
<1> QED BY <1>4, <1>5, <1>6, <1>7 DEF Grouping!Next

(* Only this part moves, if it is the one that was chosen. *)
LEMMA GroupingMoves ==
    ASSUME [Next]_vars, part' = "grouping"
    PROVE  part = "grouping" /\ [Grouping!Next]_(Grouping!vars)
BY DEF Next, vars, request, sceneOnly, Grouping!vars

WhileGrouping == part = "grouping" => GroupingInv

(* GroupingInv holds in every state of a grouping. *)
LEMMA GroupingInvariant == Spec => []WhileGrouping
<1>1. Init => WhileGrouping
  BY DEF Init, WhileGrouping, Grouping!Init, GroupingInv
<1>2. WhileGrouping /\ [Next]_vars => WhileGrouping'
  BY PartsAssumption, GroupingMoves, GroupingStep DEF WhileGrouping
<1> QED BY <1>1, <1>2, PTL DEF Spec

(* The groups partition the fragments, through every cut and every join. *)
THEOREM GroupsArePartition == Spec => []GroupsPartition
<1>1. WhileGrouping => GroupsPartition
  BY DEF WhileGrouping, GroupingInv, GroupsPartition, Grouping!GroupsPartition, Sound, Fits,
         Grouping!IsPartition
<1> QED BY <1>1, GroupingInvariant, PTL

(* What the owner decision rejects is not one region, but as a piece of what was
   too large: a join of two groups never makes it one again. *)
THEOREM VetoIsKept == Spec => []NoVetoedGroup
<1>1. WhileGrouping => NoVetoedGroup
  BY DEF WhileGrouping, GroupingInv, NoVetoedGroup, Grouping!NoVetoedGroup, Sound
<1> QED BY <1>1, GroupingInvariant, PTL

(* No group of several fragments covers more of the page than it may. *)
THEOREM GroupsFit == Spec => []NoOversizedGroup
<1>1. WhileGrouping => NoOversizedGroup
  BY DEF WhileGrouping, GroupingInv, NoOversizedGroup, Grouping!NoOversizedGroup, Sound, Fits
<1> QED BY <1>1, GroupingInvariant, PTL

(* The owner decision that a fragment carries in the end is about its group. *)
THEOREM DecisionsAreTheirOwn == Spec => []DecisionIsItsOwn
<1>1. WhileGrouping => DecisionIsItsOwn
  BY GroupingCardinality
     DEF WhileGrouping, GroupingInv, DecisionIsItsOwn, Grouping!DecisionIsItsOwn, Decided
<1> QED BY <1>1, GroupingInvariant, PTL
-----------------------------------------------------------------------------
(***************************************************************************)
(* The types of all parts.  The invariants above have most of them; what   *)
(* is left are the names in the chains of the QA job, the chunks of the    *)
(* OCR job and the calls of the accounting.                                *)
(***************************************************************************)
(* The names a chain of the QA job is made of. *)
QaNames == {job.vlm, job.llm, ConfigVlm, ConfigLlm, "default", "local"} \cup Qa!ToSet(Spares)

(* o is what Once defines for the first n models of a chain. *)
IsOnce(o, chain, n) ==
    o = [k \in 0 .. n |->
            IF k = 0 THEN <<>>
            ELSE IF chain[k] \in {"none"} \cup Qa!ToSet(o[k - 1]) THEN o[k - 1]
            ELSE Append(o[k - 1], chain[k])]

(* The recursion of Once has a solution. *)
LEMMA OnceExists ==
    ASSUME NEW chain, NEW n \in Nat
    PROVE  \E o : IsOnce(o, chain, n)
<1> DEFINE S == {m \in Nat : \E o : IsOnce(o, chain, m)}
<1>1. 0 \in S
  <2>1. IsOnce([k \in 0 .. 0 |-> <<>>], chain, 0)
    BY DEF IsOnce
  <2> QED BY <2>1
<1>2. ASSUME NEW m \in S PROVE m + 1 \in S
  <2>1. PICK o : IsOnce(o, chain, m)
    OBVIOUS
  <2> DEFINE last1 == IF chain[m + 1] \in {"none"} \cup Qa!ToSet(o[m]) THEN o[m] ELSE Append(o[m], chain[m + 1])
             g == [k \in 0 .. m + 1 |-> IF k = m + 1 THEN last1 ELSE o[k]]
             Grows(k, f) == IF chain[k] \in {"none"} \cup Qa!ToSet(f) THEN f ELSE Append(f, chain[k])
  <2>2. m \in Nat
    OBVIOUS
  <2>3. ASSUME NEW k \in 0 .. m + 1
        PROVE  g[k] = IF k = 0 THEN <<>> ELSE Grows(k, g[k - 1])
    <3>1. CASE k = m + 1
      <4>1. g[k] = last1 /\ k # 0 /\ k - 1 = m /\ g[k - 1] = o[m]
        BY <2>2, <3>1
      <4> QED BY <3>1, <4>1
    <3>2. CASE k \in 0 .. m
      <4>1. g[k] = o[k] /\ (k # 0 => k - 1 \in 0 .. m + 1 /\ k - 1 # m + 1 /\ g[k - 1] = o[k - 1])
        BY <2>2, <3>2
      <4>2. o[k] = IF k = 0 THEN <<>> ELSE Grows(k, o[k - 1])
        BY <2>1, <3>2 DEF IsOnce
      <4> QED BY <4>1, <4>2
    <3> QED BY <2>2, <3>1, <3>2
  <2>4. IsOnce(g, chain, m + 1)
    <3>1. g = [k \in 0 .. m + 1 |-> IF k = 0 THEN <<>> ELSE Grows(k, g[k - 1])]
      <4>1. g = [k \in 0 .. m + 1 |-> g[k]]
        OBVIOUS
      <4> HIDE DEF g, Grows
      <4> QED BY <2>3, <4>1
    <3> HIDE DEF g
    <3> QED BY <3>1 DEF IsOnce
  <2> QED BY <2>2, <2>4
<1>3. S = Nat
  <2> HIDE DEF S
  <2>1. S \in SUBSET Nat BY DEF S
  <2> QED BY <1>1, <1>2, <2>1, Induction
<1> QED BY <1>3

(* A chain has no name that it was not given. *)
LEMMA OnceKeeps ==
    ASSUME NEW N, NEW chain \in Seq(N)
    PROVE  Qa!Once(chain) \in Seq(N \ {"none"})
<1> DEFINE n == Len(chain)
           once == CHOOSE o : o = [k \in 0 .. n |->
                        IF k = 0 THEN <<>>
                        ELSE IF chain[k] \in {"none"} \cup Qa!ToSet(o[k - 1]) THEN o[k - 1]
                        ELSE Append(o[k - 1], chain[k])]
<1>1. n \in Nat /\ \A k \in 1 .. n : chain[k] \in N
  OBVIOUS
<1>2. Qa!Once(chain) = once[n]
  BY DEF Qa!Once
<1>3. IsOnce(once, chain, n)
  <2>1. \E o : IsOnce(o, chain, n)
    BY <1>1, OnceExists
  <2> HIDE DEF n
  <2> QED BY <2>1 DEF IsOnce
<1> HIDE DEF once, n
<1> DEFINE S == {m \in Nat : m <= n => once[m] \in Seq(N \ {"none"})}
<1>4. 0 \in S
  BY <1>1, <1>3 DEF IsOnce
<1>5. ASSUME NEW m \in S PROVE m + 1 \in S
  <2> SUFFICES ASSUME m + 1 <= n PROVE once[m + 1] \in Seq(N \ {"none"})
    OBVIOUS
  <2>1. m \in Nat /\ once[m] \in Seq(N \ {"none"}) /\ chain[m + 1] \in N /\ m + 1 \in 0 .. n
    BY <1>1
  <2>2. once[m + 1] = IF chain[m + 1] \in {"none"} \cup Qa!ToSet(once[m]) THEN once[m]
                      ELSE Append(once[m], chain[m + 1])
    <3>1. once[m + 1] = IF m + 1 = 0 THEN <<>>
                        ELSE IF chain[m + 1] \in {"none"} \cup Qa!ToSet(once[(m + 1) - 1]) THEN once[(m + 1) - 1]
                        ELSE Append(once[(m + 1) - 1], chain[m + 1])
      BY <1>3, <2>1 DEF IsOnce
    <3>2. m + 1 # 0 /\ (m + 1) - 1 = m
      BY <2>1
    <3> QED BY <3>1, <3>2
  <2> QED BY <2>1, <2>2
<1>6. n \in S
  <2>1. S = Nat
    <3> HIDE DEF S
    <3>1. S \in SUBSET Nat BY DEF S
    <3> QED BY <1>4, <1>5, <3>1, Induction
  <2> QED BY <1>1, <2>1
<1> QED BY <1>2, <1>6, <1>1

(* Whoever is asked has a name from the job or the configuration. *)
LEMMA ChainsNamed ==
    ASSUME Qa!QaAssumption
    PROVE  /\ Qa!VlmChain \in Seq(QaNames) /\ Qa!LlmChain \in Seq(QaNames)
           /\ Qa!HybridChain(pass) \in Seq(QaNames)
<1> DEFINE N == QaNames \cup {"none"}
<1>1. /\ {job.vlm, job.llm, ConfigVlm, ConfigLlm, "default", "local"} \subseteq QaNames
      /\ Spares \in Seq(QaNames)
  <2>1. \A i \in DOMAIN Spares : Spares[i] \in Qa!ToSet(Spares)
    BY DEF Qa!ToSet
  <2>2. \A i \in DOMAIN Spares : Spares[i] \in QaNames
    BY <2>1 DEF QaNames
  <2>3. Spares \in Seq(STRING)
    BY DEF Qa!QaAssumption
  <2> HIDE DEF QaNames
  <2>4. Spares \in Seq(QaNames)
    BY <2>2, <2>3
  <2> QED BY <2>4 DEF QaNames
<1>2. N \ {"none"} \subseteq QaNames /\ QaNames \subseteq N /\ "none" \in N
  OBVIOUS
<1> HIDE DEF QaNames, N
<1>3. \A chain \in Seq(N) : Qa!Once(chain) \in Seq(QaNames)
  <2> TAKE chain \in Seq(N)
  <2>1. Qa!Once(chain) \in Seq(N \ {"none"})
    BY OnceKeeps
  <2> QED BY <1>2, <2>1
<1>4. Qa!LocalModel \in Seq(QaNames)
  BY <1>1 DEF Qa!LocalModel
<1>5. ASSUME NEW user \in {job.vlm, job.llm}, NEW global \in {ConfigVlm, ConfigLlm}
      PROVE  Qa!UserThenGlobal(user, global) \in Seq(QaNames)
  <2> DEFINE chosen == Qa!First(Qa!First(user, global), "default")
             other == IF job.fallbacks /\ provider = "configured" THEN global ELSE "none"
  <2>1. chosen \in N /\ other \in N
    BY <1>1, <1>2 DEF Qa!First
  <2>2. Qa!UserThenGlobal(user, global) = IF provider \in {"none", "ollama"} THEN <<>> ELSE Qa!Once(<<chosen, other>>)
    BY DEF Qa!UserThenGlobal
  <2> HIDE DEF chosen, other
  <2>3. <<chosen, other>> \in Seq(N)
    BY <2>1
  <2>4. Qa!Once(<<chosen, other>>) \in Seq(QaNames) /\ <<>> \in Seq(QaNames)
    <3>1. <<>> \in Seq(QaNames)
      OBVIOUS
    <3> QED BY <1>3, <2>3, <3>1, Zenon
  <2> QED BY <2>2, <2>4, Zenon
<1>6. Qa!VlmChain \in Seq(QaNames)
  <2> DEFINE primary == Qa!First(Qa!First(job.vlm, ConfigVlm), "default")
             others == IF job.fallbacks /\ provider = "configured" THEN <<ConfigVlm>> \o Spares ELSE <<>>
  <2>1. primary \in N
    BY <1>1, <1>2 DEF Qa!First
  <2>2. others \in Seq(N)
    <3>1. <<ConfigVlm>> \in Seq(N) /\ Spares \in Seq(N)
      BY <1>1, <1>2
    <3>2. <<ConfigVlm>> \o Spares \in Seq(N)
      BY <3>1
    <3> QED BY <3>2
  <2>3. Qa!VlmChain = IF provider = "none" THEN <<>> ELSE IF provider = "ollama" THEN Qa!LocalModel
                      ELSE Qa!Once(<<primary>> \o others)
    BY DEF Qa!VlmChain
  <2> HIDE DEF primary, others
  <2>4. <<primary>> \o others \in Seq(N)
    <3>1. <<primary>> \in Seq(N)
      BY <2>1
    <3> QED BY <2>2, <3>1
  <2>5. Qa!Once(<<primary>> \o others) \in Seq(QaNames) /\ <<>> \in Seq(QaNames)
    <3>1. <<>> \in Seq(QaNames)
      OBVIOUS
    <3> QED BY <1>3, <2>4, <3>1, Zenon
  <2> QED BY <1>4, <2>3, <2>5, Zenon
<1>7. Qa!LlmChain \in Seq(QaNames)
  BY <1>4, <1>5 DEF Qa!LlmChain
<1>8. Qa!HybridChain(pass) \in Seq(QaNames)
  <2> DEFINE a == Qa!UserThenGlobal(IF pass = 1 THEN job.llm ELSE job.vlm, IF pass = 1 THEN ConfigLlm ELSE ConfigVlm)
             b == IF (pass = 1 => Qa!Targets # {}) /\ (provider = "ollama" \/ ~job.localDisabled)
                    THEN Qa!LocalModel ELSE <<>>
  <2>1. a \in Seq(QaNames)
    BY <1>5
  <2>2. b \in Seq(QaNames)
    BY <1>4
  <2>3. Qa!HybridChain(pass) = a \o b
    BY DEF Qa!HybridChain
  <2> HIDE DEF a, b
  <2> QED BY <2>1, <2>2, <2>3
<1> QED BY <1>6, <1>7, <1>8

(* The types of a QA run, with the chain of models named and the edits bounded: one
   revision comes from the prepare step, the others are edits. *)
QaTypes ==
    /\ Qa!TypeOK
    /\ legs \in Seq(QaNames)
    /\ revision <= pass - 1 + MaxEdits

(* Every step keeps them. *)
LEMMA QaTypesStep ==
    ASSUME Qa!QaAssumption, QaInv, QaTypes, [Qa!Next]_(Qa!vars), Shapes'
    PROVE  QaTypes'
<1> DEFINE Reads == Qa!NothingToAsk \/ Qa!Bypass \/ Qa!FetchRefused \/ Qa!NoPage \/ Qa!Refetch \/ Qa!Account
                    \/ Qa!Post \/ Qa!Raises \/ UNCHANGED Qa!vars
           Talks == Qa!NoReply \/ Qa!Garbage \/ Qa!Reply
<1>1. Qa!TypeOK /\ MaxEdits \in Nat /\ revision \in 0 .. MaxEdits + 1 /\ pass \in 1 .. 2
  BY DEF QaTypes, Qa!TypeOK, Qa!QaAssumption
<1>2. judged' \in [QaRegion -> Qa!Verdicts \cup Qa!Unusable \cup {"none"}] /\ page' \in [QaRegion -> Qa!Looks]
  BY DEF Shapes
<1>3. Reads \/ Talks \/ Qa!Fetch \/ Qa!View \/ Qa!Chain \/ Qa!Prepare \/ Qa!Edit
  BY DEF Qa!Next
<1>4. Reads =>
        /\ pc' \in {"bypass", "post", "ended", "chain", pc} /\ outcome' \in {"completed", "raised", outcome}
        /\ UNCHANGED <<job, page, revision, pass, provider, legs, heard, stray, checked, shown, asks>>
        /\ prepared' = prepared \/ prepared' = Qa!Fixes
  BY DEF Qa!NothingToAsk, Qa!Bypass, Qa!FetchRefused, Qa!NoPage, Qa!Refetch, Qa!Account, Qa!Post,
         Qa!Raises, Qa!vars, Qa!Goto, Qa!End
<1>5. Talks =>
        /\ UNCHANGED <<pc, outcome, job, page, revision, pass, provider, shown, prepared>>
        /\ legs' = Tail(legs) /\ legs # <<>>
        /\ heard' \in {TRUE, heard}
        /\ asks' = [r \in QaRegion |-> IF r \in Qa!Due THEN asks[r] + 1 ELSE asks[r]]
  BY DEF Qa!NoReply, Qa!Garbage, Qa!Reply, Qa!Asking, Qa!Asked
<1>6. Qa!Fetch =>
        /\ pc' \in {"view", "chain"} /\ provider' \in {job.provider, "none"}
        /\ UNCHANGED <<outcome, job, page, revision, pass, legs, heard, stray, checked, shown, prepared, asks>>
  BY DEF Qa!Fetch, Qa!Goto
<1>7. Qa!View =>
        /\ pc' = "chain" /\ shown' = 0
        /\ UNCHANGED <<outcome, job, page, revision, pass, provider, legs, heard, stray, checked, prepared, asks>>
  BY DEF Qa!View, Qa!Goto
<1>8. Qa!Chain =>
        /\ pc' = "ask" /\ heard' = FALSE
        /\ legs' \in {Qa!VlmChain, Qa!LlmChain, Qa!HybridChain(pass)}
        /\ UNCHANGED <<outcome, job, page, revision, pass, provider, stray, checked, shown, prepared, asks>>
  BY DEF Qa!Chain, Qa!Goto
<1>9. Qa!Prepare =>
        /\ pc' = "refetch" /\ pass = 1 /\ pass' = 2
        /\ revision' = revision + 1 /\ shown' = revision + 1 /\ prepared' = Qa!Fixes
        /\ stray' = FALSE /\ checked' = Qa!All("none") /\ asks' = Qa!All(0)
        /\ UNCHANGED <<outcome, job, provider, legs, heard>>
  BY DEF Qa!Prepare, Qa!Clean, Qa!Goto
<1>10. Qa!Edit =>
        /\ revision' = revision + 1 /\ revision < pass - 1 + MaxEdits
        /\ UNCHANGED <<pc, outcome, job, page, pass, provider, legs, heard, stray, checked, shown, prepared, asks>>
  BY DEF Qa!Edit
<1>11. /\ pc' \in {"fetch", "bypass", "view", "chain", "ask", "refetch", "post", "ended"}
       /\ outcome' \in {"none", "completed", "raised"} /\ job' \in QaJobs /\ UNCHANGED job
  <2>1. /\ pc \in {"fetch", "bypass", "view", "chain", "ask", "refetch", "post", "ended"}
        /\ outcome \in {"none", "completed", "raised"} /\ job \in QaJobs
    BY <1>1 DEF Qa!TypeOK
  <2> HIDE DEF Reads, Talks
  <2>2. UNCHANGED job
    BY <1>3, <1>4, <1>5, <1>6, <1>7, <1>8, <1>9, <1>10
  <2>3. outcome' \in {"none", "completed", "raised"}
    BY <1>3, <1>4, <1>5, <1>6, <1>7, <1>8, <1>9, <1>10, <2>1
  <2>4. pc' \in {"fetch", "bypass", "view", "chain", "ask", "refetch", "post", "ended"}
    BY <1>3, <1>4, <1>5, <1>6, <1>7, <1>8, <1>9, <1>10, <2>1
  <2> QED BY <2>1, <2>2, <2>3, <2>4
<1>12. /\ revision' \in 0 .. MaxEdits + 1 /\ shown' \in -1 .. revision' /\ pass' \in 1 .. 2
       /\ revision' <= pass' - 1 + MaxEdits
  <2>1. shown \in -1 .. revision /\ revision <= pass - 1 + MaxEdits
    BY <1>1 DEF QaTypes, Qa!TypeOK
  <2> HIDE DEF Reads, Talks
  <2>2. CASE UNCHANGED <<revision, shown, pass>>
    BY <1>1, <2>1, <2>2
  <2>3. CASE Qa!View
    BY <1>1, <1>7, <2>1, <2>3
  <2>4. CASE Qa!Prepare
    BY <1>1, <1>9, <2>1, <2>4
  <2>5. CASE Qa!Edit
    BY <1>1, <1>10, <2>1, <2>5
  <2> QED BY <1>3, <1>4, <1>5, <1>6, <1>8, <2>2, <2>3, <2>4, <2>5
<1>13. provider' \in {job'.provider, "none"} /\ heard' \in BOOLEAN
  <2>1. provider \in {job.provider, "none"} /\ heard \in BOOLEAN
    BY <1>1 DEF Qa!TypeOK
  <2> HIDE DEF Reads, Talks
  <2> QED BY <1>3, <1>4, <1>5, <1>6, <1>7, <1>8, <1>9, <1>10, <1>11, <2>1
<1>14. legs' \in Seq(QaNames)'
  <2>1. QaNames' = QaNames /\ legs \in Seq(QaNames)
    BY <1>11 DEF QaNames, QaTypes
  <2>2. CASE Talks
    <3>1. legs' = Tail(legs) /\ legs # <<>>
      BY <1>5, <2>2
    <3> QED BY <2>1, <3>1
  <2>3. CASE Qa!Chain
    BY <1>8, <2>1, <2>3, ChainsNamed
  <2>4. CASE UNCHANGED legs
    BY <2>1, <2>4
  <2> HIDE DEF Reads, Talks
  <2> QED BY <1>3, <1>4, <1>6, <1>7, <1>9, <1>10, <2>2, <2>3, <2>4
<1>15. Qa!ToSet(legs)' \subseteq QaNames'
  BY <1>14 DEF Qa!ToSet
<1>16. /\ prepared' \in [QaRegion -> Qa!Verdicts \cup {"twice", "none"}]
       /\ asks' \in [QaRegion -> Nat]
  <2>1. prepared \in [QaRegion -> Qa!Verdicts \cup {"twice", "none"}] /\ asks \in [QaRegion -> Nat]
    BY <1>1 DEF Qa!TypeOK
  <2>2. Qa!Fixes \in [QaRegion -> Qa!Verdicts \cup {"twice", "none"}]
    <3>1. judged \in [QaRegion -> Qa!Verdicts \cup Qa!Unusable \cup {"none"}] /\ Qa!Targets \in SUBSET QaRegion
      BY DEF QaInv, Shapes, Qa!Targets
    <3>2. Qa!All("none") \in [QaRegion -> Qa!Verdicts \cup {"twice", "none"}]
      BY DEF Qa!All
    <3> QED BY <3>1, <3>2, SanitizeKeeps DEF Qa!Fixes
  <2> HIDE DEF Reads, Talks
  <2>3. prepared' \in {prepared, Qa!Fixes}
    BY <1>3, <1>4, <1>5, <1>6, <1>7, <1>8, <1>9, <1>10
  <2>4. CASE Talks
    BY <1>5, <2>1, <2>2, <2>3, <2>4
  <2>5. CASE Qa!Prepare
    <3>1. Qa!All(0) \in [QaRegion -> Nat]
      BY DEF Qa!All
    <3> QED BY <1>9, <2>1, <2>2, <2>3, <2>5, <3>1
  <2>6. CASE UNCHANGED asks
    BY <2>1, <2>2, <2>3, <2>6
  <2> QED BY <1>3, <1>4, <1>6, <1>7, <1>8, <1>10, <2>4, <2>5, <2>6
<1>17. stray' \in BOOLEAN /\ checked' \in Qa!Checks'
  <2>1. stray \in BOOLEAN /\ checked \in Qa!Checks
    BY <1>1 DEF Qa!TypeOK
  <2>2. UNCHANGED page => Qa!Checks' = Qa!Checks
    BY DEF Qa!Checks, Qa!Uncertain
  <2>3. CASE UNCHANGED <<stray, checked, page>>
    BY <2>1, <2>2, <2>3
  <2>4. CASE Qa!Prepare
    <3>1. Qa!All("none") \in Qa!Checks'
      BY DEF Qa!All, Qa!Checks
    <3> QED BY <1>9, <2>4, <3>1
  <2>5. CASE Qa!Reply
    <3>1. PICK answers, other \in BOOLEAN,
               checks \in IF Qa!Mode = "vlm" \/ pass = 2 THEN Qa!Checks ELSE {Qa!All("none")} :
             IF Qa!Mode = "vlm"
               THEN checked' = Qa!SetDefault(checked, Qa!Recognised(checks)) /\ UNCHANGED stray
               ELSE checked' = Qa!Recognised(checks) /\ stray' = other
      BY <2>5 DEF Qa!Reply
    <3>2. checks \in Qa!Checks
      BY DEF Qa!All, Qa!Checks
    <3>3. Qa!Recognised(checks) \in Qa!Checks
      BY <3>2 DEF Qa!Recognised, Qa!Checks
    <3>4. Qa!SetDefault(checked, Qa!Recognised(checks)) \in Qa!Checks
      BY <2>1, <3>3 DEF Qa!SetDefault, Qa!Checks
    <3>5. UNCHANGED page
      BY <1>5, <2>5
    <3> QED BY <2>1, <2>2, <3>1, <3>3, <3>4, <3>5
  <2>6. CASE Qa!NoReply \/ Qa!Garbage
    <3>1. UNCHANGED <<stray, checked>>
      BY <2>6 DEF Qa!NoReply, Qa!Garbage
    <3> QED BY <1>5, <2>3, <2>6, <3>1
  <2>7. Talks => Qa!NoReply \/ Qa!Garbage \/ Qa!Reply
    OBVIOUS
  <2> HIDE DEF Reads, Talks
  <2> QED BY <1>3, <1>4, <1>6, <1>7, <1>8, <1>10, <2>3, <2>4, <2>5, <2>6, <2>7
<1> QED BY <1>2, <1>11, <1>12, <1>13, <1>14, <1>15, <1>16, <1>17 DEF QaTypes, Qa!TypeOK, QaNames

(* They hold when a run begins. *)
LEMMA QaTypesBegin == ASSUME Qa!QaAssumption, Qa!Init PROVE QaTypes
<1>1. /\ Qa!All("none") \in [QaRegion -> {"none"}] /\ Qa!All(0) \in [QaRegion -> Nat]
      /\ Qa!All("none") \in Qa!Checks
  BY DEF Qa!All, Qa!Checks
<1>2. legs \in Seq(QaNames) /\ Qa!ToSet(legs) \subseteq {}
  BY DEF Qa!Init, Qa!ToSet
<1>3. /\ pass = 1 /\ revision = 0 /\ shown = -1 /\ page \in [QaRegion -> Qa!Looks]
      /\ judged \in [QaRegion -> Qa!Verdicts \cup Qa!Unusable \cup {"none"}]
      /\ prepared \in [QaRegion -> Qa!Verdicts \cup {"twice", "none"}]
      /\ checked \in Qa!Checks /\ asks \in [QaRegion -> Nat]
  BY <1>1 DEF Qa!Init
<1>4. /\ pc = "fetch" /\ job \in QaJobs /\ provider = job.provider /\ heard = FALSE /\ stray = FALSE
      /\ outcome = "none" /\ MaxEdits \in Nat
  BY DEF Qa!Init, Qa!QaAssumption
<1>5. revision \in 0 .. MaxEdits + 1 /\ shown \in -1 .. revision /\ pass \in 1 .. 2
      /\ revision <= pass - 1 + MaxEdits
  BY <1>3, <1>4
<1>6. Qa!TypeOK
  BY <1>2, <1>3, <1>4, <1>5 DEF Qa!TypeOK
<1> QED BY <1>2, <1>5, <1>6 DEF QaTypes

(* What CostTypes does not say. *)
CostCounts ==
    /\ priced \subseteq Costs!Model /\ unchecked \subseteq Costs!Model
    /\ phase \in {"boot", "up", "exited"}
    /\ \A j \in Job : Costs!Calls(j) <= MaxCalls

(* Every step keeps it. *)
LEMMA CostCountsStep ==
    ASSUME Costs!CostAssumption, CostInv, CostCounts, [Costs!CostNext]_(Costs!costVars)
    PROVE  CostCounts'
<1> USE DEF CostCounts
<1>1. ASSUME UNCHANGED made PROVE (\A j \in Job : Costs!Calls(j) <= MaxCalls)'
  BY <1>1 DEF Costs!Calls
<1>2. ASSUME NEW m \in Costs!Model,
             Costs!PriceFound(m) \/ Costs!PriceNotFound(m) \/ Costs!NotServed(m)
      PROVE  CostCounts'
  BY <1>1, <1>2 DEF Costs!PriceFound, Costs!PriceNotFound, Costs!NotServed
<1>3. CASE Costs!Serve
  BY <1>1, <1>3 DEF Costs!Serve
<1>4. ASSUME NEW j \in Job, \/ Costs!Dispatch(j) \/ Costs!Fan(j) \/ Costs!Join(j)
                            \/ Costs!Report(j) \/ Costs!Abandon(j)
      PROVE  CostCounts'
  BY <1>1, <1>4 DEF Costs!Dispatch, Costs!Fan, Costs!Join, Costs!Report, Costs!Abandon
<1>5. ASSUME NEW t \in Costs!Threads, Costs!Record(t) PROVE CostCounts'
  <2>1. t[1] \in Job
    BY DEF Costs!Threads
  <2>2. made \in [Job -> Seq(CostCall)] /\ Len(made[t[1]]) < MaxCalls /\ MaxCalls \in Nat
    BY <1>5 DEF Costs!Record, Costs!Calls, CostInv, CostTypes, Costs!CostAssumption
  <2>3. PICK call : made' = [made EXCEPT ![t[1]] = Append(made[t[1]], call)]
    BY <1>5 DEF Costs!Record
  <2>4. \A j \in Job : Len(made'[j]) <= MaxCalls
    <3> SUFFICES ASSUME NEW j \in Job PROVE Len(made'[j]) <= MaxCalls
      OBVIOUS
    <3>1. CASE j = t[1]
      <4>1. made'[j] = Append(made[j], call) /\ made[j] \in Seq(CostCall)
        BY <2>1, <2>2, <2>3, <3>1
      <4>2. Len(made'[j]) = Len(made[j]) + 1 /\ Len(made[j]) \in Nat
        BY <4>1
      <4> QED BY <2>2, <3>1, <4>2
    <3>2. CASE j # t[1]
      BY <2>2, <2>3, <3>2 DEF Costs!Calls
    <3> QED BY <3>1, <3>2
  <2>5. UNCHANGED <<priced, unchecked, phase>>
    BY <1>5 DEF Costs!Record
  <2> QED BY <2>4, <2>5 DEF Costs!Calls
<1>6. CASE UNCHANGED Costs!costVars
  BY <1>1, <1>6 DEF Costs!costVars
<1> QED BY <1>2, <1>3, <1>4, <1>5, <1>6 DEF Costs!CostNext

(* It holds when the process starts. *)
LEMMA CostCountsBegin == ASSUME Costs!CostAssumption, Costs!CostInit PROVE CostCounts
<1>1. \A j \in Job : Costs!Calls(j) = 0
  BY DEF Costs!CostInit, Costs!Calls
<1> QED BY <1>1 DEF CostCounts, Costs!CostInit, Costs!CostAssumption

(* What OcrTypes does not say.  Chunks are counted when the candidates are all there. *)
OcrCounts ==
    /\ pc \in {"fetch", "detect", "balloons", "loose", "read", "order", "post", "ended"}
    /\ job \in OcrJobs /\ outcome \in {"none", "completed", "raised"}
    /\ blank \subseteq Ocr!Seen /\ place \in [OcrFragment -> Place]
    /\ \A i \in DOMAIN candidates : candidates[i].fragments \subseteq Ocr!Seen
    /\ pc \in {"fetch", "detect", "balloons", "loose"} => replies = <<>> /\ crops = {}
    /\ crops \subseteq DOMAIN candidates
    /\ \E R : replies \in Seq(R)
    /\ Len(replies) <= Ocr!Chunks
    /\ merging \subseteq DOMAIN replies

(* There are as many chunks as it takes. *)
LEMMA ChunksNat ==
    ASSUME Ocr!OcrAssumption, candidates \in Seq(Candidates), crops \subseteq DOMAIN candidates
    PROVE  Ocr!Chunks \in Nat
<1>1. IsFiniteSet(DOMAIN candidates)
  <2>1. Len(candidates) \in Nat /\ DOMAIN candidates = 1 .. Len(candidates)
    OBVIOUS
  <2> QED BY <2>1, FS_Interval
<1>2. Ocr!Cardinality(crops) \in Nat
  BY <1>1, FS_Subset, FS_CardinalityType, OcrCardinality
<1>3. ChunkSize \in Nat \ {0}
  BY DEF Ocr!OcrAssumption
<1> QED BY <1>2, <1>3 DEF Ocr!Chunks

(* And so there are in the state after a step. *)
LEMMA ChunksNatNext ==
    ASSUME Ocr!OcrAssumption, candidates' \in Seq(Candidates), crops' \subseteq DOMAIN candidates'
    PROVE  Ocr!Chunks' \in Nat
<1>1. IsFiniteSet(DOMAIN candidates')
  <2>1. Len(candidates') \in Nat /\ DOMAIN candidates' = 1 .. Len(candidates')
    OBVIOUS
  <2> QED BY <2>1, FS_Interval
<1>2. Ocr!Cardinality(crops') \in Nat
  BY <1>1, FS_Subset, FS_CardinalityType, OcrCardinality
<1>3. ChunkSize \in Nat \ {0}
  BY DEF Ocr!OcrAssumption
<1> QED BY <1>2, <1>3 DEF Ocr!Chunks

(* A step that leaves the page and the replies alone. *)
LEMMA CountsStay ==
    ASSUME OcrCounts, UNCHANGED <<job, home, blank, place, candidates, crops, replies, merging>>,
           pc' \in {"fetch", "detect", "balloons", "loose", "read", "order", "post", "ended"},
           pc' \in {"fetch", "detect", "balloons", "loose"} => pc \in {"fetch", "detect", "balloons", "loose"},
           outcome' \in {"none", "completed", "raised"}
    PROVE  OcrCounts'
<1>1. Ocr!Seen' = Ocr!Seen /\ Ocr!Chunks' = Ocr!Chunks
  BY DEF Ocr!Seen, Ocr!Chunks
<1> QED BY <1>1 DEF OcrCounts

(* Every step keeps OcrCounts. *)
LEMMA OcrCountsStep ==
    ASSUME Ocr!OcrAssumption, OcrInv, OcrCounts, [Ocr!Next]_(Ocr!vars), OcrInv'
    PROVE  OcrCounts'
<1>1. CASE \/ Ocr!Fetch \/ Ocr!FetchRefused \/ Ocr!BalloonsDone \/ Ocr!GroupLoose \/ Ocr!ChunksDone
           \/ Ocr!Order \/ Ocr!Post \/ Ocr!Raises \/ UNCHANGED Ocr!vars
  <2>1. outcome \in {"none", "completed", "raised"}
        /\ pc \in {"fetch", "detect", "balloons", "loose", "read", "order", "post", "ended"}
    BY DEF OcrCounts
  <2>2. CASE Ocr!Fetch
    BY <2>1, <2>2, CountsStay DEF Ocr!Fetch, Ocr!Goto, Ocr!pageVars, Ocr!Reading
  <2>3. CASE Ocr!FetchRefused \/ Ocr!Post \/ Ocr!Raises
    BY <2>1, <2>3, CountsStay
       DEF Ocr!FetchRefused, Ocr!Post, Ocr!Raises, Ocr!End, Ocr!pageVars, Ocr!Reading
  <2>4. CASE Ocr!BalloonsDone \/ Ocr!GroupLoose
    BY <2>1, <2>4, CountsStay
       DEF Ocr!BalloonsDone, Ocr!GroupLoose, Ocr!Goto, Ocr!pageVars, Ocr!Reading
  <2>5. CASE Ocr!ChunksDone \/ Ocr!Order
    BY <2>1, <2>5, CountsStay
       DEF Ocr!ChunksDone, Ocr!Order, Ocr!Goto, Ocr!End, Ocr!pageVars, Ocr!Reading
  <2>6. CASE UNCHANGED Ocr!vars
    BY <2>1, <2>6, CountsStay DEF Ocr!vars
  <2> QED BY <1>1, <2>2, <2>3, <2>4, <2>5, <2>6
<1>2. CASE Ocr!Detect
  <2>1. /\ pc = "detect" /\ pc' = "balloons" /\ UNCHANGED <<job, candidates, crops, replies, merging, outcome>>
    BY <1>2 DEF Ocr!Detect, Ocr!Goto, Ocr!Reading
  <2>2. PICK there \in SUBSET OcrFragment :
          /\ \A f \in OcrFragment : home'[f] = "unseen" <=> f \notin there
          /\ place' \in [OcrFragment -> Place]
          /\ IF Ocr!UseLocalOcr THEN blank' \in SUBSET there ELSE blank' = there
    BY <1>2 DEF Ocr!Detect
  <2>3. blank' \subseteq Ocr!Seen'
    BY <2>2 DEF Ocr!Seen
  <2>4. candidates' = <<>> /\ Ocr!Chunks' = Ocr!Chunks
    BY <2>1 DEF OcrInv, OcrTypes, Ocr!Chunks
  <2> QED BY <2>1, <2>2, <2>3, <2>4 DEF OcrCounts
<1>3. CASE Ocr!GroupBalloon \/ Ocr!Gathered
  <2>1. /\ pc \in {"balloons", "loose"} /\ pc' \in {"balloons", "read", "order"}
        /\ UNCHANGED <<job, home, blank, place, replies, merging, outcome>>
    BY <1>3 DEF Ocr!GroupBalloon, Ocr!Gathered, Ocr!Goto, Ocr!pageVars, Ocr!Reading
  <2>2. \A i \in DOMAIN candidates' : candidates'[i].fragments \subseteq Ocr!Seen'
    <3> SUFFICES ASSUME NEW i \in DOMAIN candidates', NEW f \in candidates'[i].fragments
                 PROVE  f \in Ocr!Seen'
      OBVIOUS
    <3>1. Holds(candidates', f)
      BY DEF Holds
    <3>2. CASE pc' = "balloons"
      <4>1. f \in OfBalloons'
        BY <3>1, <3>2 DEF OcrInv, GroupedOnce
      <4>2. "unseen" \notin Balloon
        BY DEF Ocr!OcrAssumption, Balloon
      <4> QED BY <4>1, <4>2 DEF OfBalloons, Ocr!Seen
    <3>3. CASE pc' \in {"read", "order"}
      BY <3>1, <3>3 DEF OcrInv, GroupedOnce
    <3> QED BY <2>1, <3>2, <3>3
  <2>3. replies = <<>> /\ merging = {} /\ crops = {}
    BY <2>1 DEF OcrCounts
  <2>4. crops' \subseteq DOMAIN candidates' /\ (pc' = "balloons" => crops' = {})
    BY <1>3, <2>1, <2>3 DEF Ocr!GroupBalloon, Ocr!Gathered, Ocr!Goto, Ocr!Reading
  <2>5. Ocr!Chunks' \in Nat
    <3>1. candidates' \in Seq(Candidates)
      BY DEF OcrInv, OcrTypes
    <3> QED BY <2>4, <3>1, ChunksNatNext
  <2>6. Ocr!Seen' = Ocr!Seen
    BY <2>1 DEF Ocr!Seen
  <2>7. \E R : replies' \in Seq(R)
    BY <2>1 DEF OcrCounts
  <2> QED BY <2>1, <2>2, <2>3, <2>4, <2>5, <2>6, <2>7 DEF OcrCounts
<1>4. ASSUME NEW k \in 1 .. Ocr!Chunks, Ocr!ChunkSilent(k) \/ Ocr!ChunkRead(k) \/ Ocr!CropsRead(k)
      PROVE  OcrCounts'
  <2>1. /\ pc = "read" /\ k = Len(replies) + 1 /\ k <= Ocr!Chunks
        /\ UNCHANGED <<pc, job, home, blank, place, candidates, crops, outcome>>
        /\ merging' = merging \cup {k}
        /\ \E r : replies' = Append(replies, r)
    BY <1>4 DEF Ocr!ChunkSilent, Ocr!ChunkRead, Ocr!CropsRead, Ocr!Due, Ocr!Reply, Ocr!pageVars
  <2>2. PICK R, r : replies \in Seq(R) /\ replies' = Append(replies, r)
    BY <2>1 DEF OcrCounts
  <2>3. replies \in Seq(R \cup {r})
    BY <2>2
  <2>4. replies' \in Seq(R \cup {r}) /\ Len(replies') = k /\ DOMAIN replies' = DOMAIN replies \cup {k}
    BY <2>1, <2>2, <2>3
  <2>5. Ocr!Seen' = Ocr!Seen /\ Ocr!Chunks' = Ocr!Chunks
    BY <2>1 DEF Ocr!Seen, Ocr!Chunks
  <2> QED BY <2>1, <2>4, <2>5 DEF OcrCounts
<1>5. ASSUME NEW k \in 1 .. Ocr!Chunks, Ocr!MergeChunk(k) PROVE OcrCounts'
  <2>1. /\ pc = "read" /\ k \in merging /\ merging' = merging \ {k}
        /\ replies' = [replies EXCEPT ![k] = Ocr!Taken]
        /\ UNCHANGED <<job, home, blank, place, candidates, crops>>
    BY <1>5 DEF Ocr!MergeChunk, Ocr!pageVars
  <2>2. pc' \in {pc, "ended"} /\ outcome' \in {outcome, "raised"}
    BY <1>5 DEF Ocr!MergeChunk, Ocr!End
  <2>3. PICK R : replies \in Seq(R)
    BY DEF OcrCounts
  <2>4. replies' \in Seq(R \cup {Ocr!Taken}) /\ Len(replies') = Len(replies) /\ DOMAIN replies' = DOMAIN replies
    <3>1. k \in DOMAIN replies /\ replies \in Seq(R \cup {Ocr!Taken})
      BY <2>1, <2>3 DEF OcrCounts
    <3> QED BY <2>1, <3>1
  <2>5. Ocr!Seen' = Ocr!Seen /\ Ocr!Chunks' = Ocr!Chunks
    BY <2>1 DEF Ocr!Seen, Ocr!Chunks
  <2> QED BY <2>1, <2>2, <2>4, <2>5 DEF OcrCounts
<1> QED BY <1>1, <1>2, <1>3, <1>4, <1>5 DEF Ocr!Next

(* It holds when a run begins. *)
LEMMA OcrCountsBegin == ASSUME Ocr!OcrAssumption, Ocr!Init PROVE OcrCounts
<1>1. /\ pc = "fetch" /\ job \in OcrJobs /\ outcome = "none" /\ blank = {} /\ candidates = <<>>
      /\ replies = <<>> /\ merging = {} /\ crops = {} /\ place = [f \in OcrFragment |-> CHOOSE p \in Place : TRUE]
  BY DEF Ocr!Init
<1>2. place \in [OcrFragment -> Place]
  BY <1>1 DEF Ocr!OcrAssumption
<1>3. candidates \in Seq(Candidates) /\ Len(replies) = 0 /\ replies \in Seq({})
  BY <1>1
<1>4. Ocr!Chunks \in Nat
  BY <1>1, <1>3, ChunksNat
<1> QED BY <1>1, <1>2, <1>3, <1>4 DEF OcrCounts

(* The models behind the texts are noted: behind those that are merged, and behind
   those of the chunks that are not merged yet. *)
Noted == Ocr!ToSet(used) \cup {"engine", "unnamed"}

ReadersKept ==
    /\ used \in Seq(Ocr!ToSet(used))
    /\ \A c \in DOMAIN origin : origin[c].by \in Noted
    /\ \A k \in merging :
          \/ replies[k].by \in Noted
          \/ replies[k].stray = 0 /\ \A c \in DOMAIN replies[k].said : replies[k].said[c] = "none"
    /\ pc = "post" => posted.models = Ocr!ToSet(used)

(* A model that is noted is in the list, with those that were there before. *)
LEMMA UseNames ==
    ASSUME NEW list, list \in Seq(Ocr!ToSet(list)), NEW model
    PROVE  LET new == Ocr!Use(list, model) IN
           /\ new \in Seq(Ocr!ToSet(new))
           /\ Ocr!ToSet(new) = Ocr!ToSet(list) \cup {model}
<1> DEFINE S == Ocr!ToSet(list)
           n == Len(list)
           new == Append(list, model)
<1>1. /\ n \in Nat /\ DOMAIN list = 1 .. n /\ list \in Seq(S \cup {model})
      /\ S = {list[i] : i \in 1 .. n}
  BY DEF Ocr!ToSet
<1> HIDE DEF S
<1>2. /\ new \in Seq(S \cup {model}) /\ Len(new) = n + 1 /\ DOMAIN new = 1 .. n + 1
      /\ new[n + 1] = model /\ \A i \in 1 .. n : new[i] = list[i]
  BY <1>1
<1> HIDE DEF n, new
<1>3. \A i \in 1 .. n + 1 : i \in 1 .. n \/ i = n + 1
  BY <1>1
<1>4. Ocr!ToSet(new) = S \cup {model}
  <2>1. Ocr!ToSet(new) = {new[i] : i \in 1 .. n + 1}
    BY <1>2 DEF Ocr!ToSet
  <2>2. 1 .. n \subseteq 1 .. n + 1 /\ n + 1 \in 1 .. n + 1
    BY <1>1
  <2> QED BY <1>1, <1>2, <1>3, <2>1, <2>2
<1>5. CASE model \in S
  BY <1>5 DEF Ocr!Use, S
<1>6. CASE model \notin S
  <2>1. Ocr!Use(list, model) = new
    BY <1>6 DEF Ocr!Use, S, new
  <2> QED BY <1>2, <1>4, <2>1 DEF S
<1> QED BY <1>5, <1>6

(* A reply is one more, and its model is noted unless it said nothing. *)
LEMMA ReplyNames ==
    ASSUME OcrCounts, ReadersKept, pc = "read", NEW k, k = Len(replies) + 1, NEW r,
           replies' = Append(replies, r), merging' = merging \cup {k}, UNCHANGED <<pc, origin, posted>>,
           \/ used' = used /\ r.by = "unnamed"
           \/ used' = Ocr!Use(used, r.by)
           \/ used' = used /\ r.stray = 0 /\ \A c \in DOMAIN r.said : r.said[c] = "none"
    PROVE  ReadersKept'
<1>1. PICK R : replies \in Seq(R)
  BY DEF OcrCounts
<1>2. replies \in Seq(R \cup {r})
  BY <1>1
<1>3. replies'[k] = r /\ \A j \in DOMAIN replies : replies'[j] = replies[j]
  BY <1>2
<1>4. used' \in Seq(Ocr!ToSet(used')) /\ Noted \subseteq Noted'
  BY UseNames DEF ReadersKept, Noted
<1>5. \/ r.by \in Noted'
      \/ r.stray = 0 /\ \A c \in DOMAIN r.said : r.said[c] = "none"
  BY UseNames DEF ReadersKept, Noted
<1>6. \A c \in DOMAIN origin' : origin'[c].by \in Noted'
  BY <1>4 DEF ReadersKept
<1>7. \A j \in merging' :
          \/ replies'[j].by \in Noted'
          \/ replies'[j].stray = 0 /\ \A c \in DOMAIN replies'[j].said : replies'[j].said[c] = "none"
  <2> TAKE j \in merging'
  <2>1. CASE j = k
    BY <1>3, <1>5, <2>1
  <2>2. CASE j \in merging
    <3>1. replies'[j] = replies[j]
      BY <1>3, <2>2 DEF OcrCounts
    <3> QED BY <1>4, <2>2, <3>1 DEF ReadersKept
  <2> QED BY <2>1, <2>2
<1> QED BY <1>4, <1>6, <1>7 DEF ReadersKept

(* A text that is merged has its model noted. *)
LEMMA MergeNames ==
    ASSUME OcrInv, OcrCounts, ReadersKept, NEW k \in 1 .. Ocr!Chunks, Ocr!MergeChunk(k)
    PROVE  ReadersKept'
<1> DEFINE r == replies[k]
           About(c) == {i \in DOMAIN r.said : Ocr!Id(i) = c /\ r.said[i] # "none"}
           Saw(c) == CHOOSE i \in About(c) : TRUE
<1>1. /\ pc = "read" /\ k \in merging /\ merging' = merging \ {k}
      /\ replies' = [replies EXCEPT ![k] = Ocr!Taken]
      /\ pc' \in {pc, "ended"} /\ UNCHANGED <<used, posted>>
  BY DEF Ocr!MergeChunk, Ocr!End
<1>2. Noted' = Noted
  BY <1>1 DEF Noted
<1>3. \A j \in merging' : replies'[j] = replies[j]
  BY <1>1 DEF OcrCounts
<1>4. \/ r.by \in Noted
      \/ r.stray = 0 /\ \A c \in DOMAIN r.said : r.said[c] = "none"
  BY <1>1 DEF ReadersKept
<1>5. 0 \notin DOMAIN texts /\ DOMAIN origin = DOMAIN texts
  <2>1. DOMAIN texts = DOMAIN candidates /\ candidates \in Seq(Candidates)
    BY <1>1 DEF OcrInv, OcrTypes, TextsKept
  <2> QED BY <2>1 DEF OcrInv, TextsKept
<1>6. \A c \in DOMAIN origin' : origin'[c].by \in Noted
  <2>1. CASE ~r.whole
    <3>1. origin' = origin
      BY <2>1 DEF Ocr!MergeChunk
    <3> QED BY <3>1 DEF ReadersKept
  <2>2. CASE r.whole
    <3>1. origin' = [c \in DOMAIN texts |-> IF r.stray = c THEN [crop |-> 0, by |-> r.by]
                        ELSE IF About(c) # {} THEN [crop |-> Saw(c), by |-> r.by]
                        ELSE origin[c]]
      BY <2>2, Zenon DEF Ocr!MergeChunk
    <3>2. \A c : About(c) # {} => \E i \in DOMAIN r.said : r.said[i] # "none"
      OBVIOUS
    <3> HIDE DEF About, Saw, r
    <3>3. DOMAIN origin' = DOMAIN texts
      BY <3>1
    <3>4. ASSUME NEW c \in DOMAIN texts PROVE origin'[c].by \in Noted
      <4>1. \/ r.stray = c /\ origin'[c] = [crop |-> 0, by |-> r.by]
            \/ About(c) # {} /\ origin'[c] = [crop |-> Saw(c), by |-> r.by]
            \/ origin'[c] = origin[c]
        BY <3>1
      <4>2. r.stray = c \/ About(c) # {} => r.by \in Noted
        BY <1>4, <1>5, <3>2
      <4> QED BY <1>5, <4>1, <4>2 DEF ReadersKept
    <3> QED BY <3>3, <3>4
  <2> QED BY <2>1, <2>2
<1> QED BY <1>1, <1>2, <1>3, <1>6 DEF ReadersKept

(* Every step keeps ReadersKept. *)
LEMMA ReadersStep ==
    ASSUME OcrInv, OcrCounts, ReadersKept, [Ocr!Next]_(Ocr!vars)
    PROVE  ReadersKept'
<1>1. ASSUME UNCHANGED <<used, origin, replies, merging, posted>>, pc' = "post" => pc = "post"
      PROVE  ReadersKept'
  BY <1>1 DEF ReadersKept, Noted
<1>2. CASE \/ Ocr!Fetch \/ Ocr!FetchRefused \/ Ocr!Detect \/ Ocr!GroupBalloon \/ Ocr!BalloonsDone
           \/ Ocr!GroupLoose \/ Ocr!ChunksDone \/ Ocr!Post \/ Ocr!Raises
  <2>1. UNCHANGED <<used, origin, replies, merging, posted>>
    BY <1>2 DEF Ocr!Fetch, Ocr!FetchRefused, Ocr!Detect, Ocr!GroupBalloon, Ocr!BalloonsDone,
                Ocr!GroupLoose, Ocr!ChunksDone, Ocr!Post, Ocr!Raises, Ocr!Reading
  <2>2. pc' # "post"
    BY <1>2 DEF Ocr!Fetch, Ocr!FetchRefused, Ocr!Detect, Ocr!GroupBalloon, Ocr!BalloonsDone,
                Ocr!GroupLoose, Ocr!ChunksDone, Ocr!Post, Ocr!Raises, Ocr!Goto, Ocr!End
  <2> QED BY <1>1, <2>1, <2>2
<1>3. CASE Ocr!Gathered
  <2>1. /\ origin' = [i \in DOMAIN candidates' |-> Ocr!NoOrigin]
        /\ pc' \in {"read", "order"} /\ UNCHANGED <<used, replies, merging>>
    BY <1>3 DEF Ocr!Gathered, Ocr!Goto
  <2>2. \A c \in DOMAIN origin' : origin'[c].by = "engine"
    BY <2>1 DEF Ocr!NoOrigin
  <2> QED BY <2>1, <2>2 DEF ReadersKept, Noted
<1>4. ASSUME NEW k \in 1 .. Ocr!Chunks, Ocr!ChunkSilent(k) PROVE ReadersKept'
  <2>1. /\ pc = "read" /\ k = Len(replies) + 1 /\ merging' = merging \cup {k} /\ used' = used
        /\ UNCHANGED <<pc, origin, posted>>
        /\ \E r : /\ replies' = Append(replies, r) /\ r.stray = 0
                  /\ \A c \in DOMAIN r.said : r.said[c] = "none"
    BY <1>4 DEF Ocr!ChunkSilent, Ocr!Due, Ocr!Reply, Ocr!Nothing
  <2> QED BY <2>1, ReplyNames
<1>5. ASSUME NEW k \in 1 .. Ocr!Chunks, Ocr!ChunkRead(k) \/ Ocr!CropsRead(k) PROVE ReadersKept'
  <2>1. /\ pc = "read" /\ k = Len(replies) + 1 /\ merging' = merging \cup {k}
        /\ UNCHANGED <<pc, origin, posted>>
    BY <1>5 DEF Ocr!ChunkRead, Ocr!CropsRead, Ocr!Due, Ocr!Reply
  <2>2. ASSUME NEW words, NEW extra, NEW whole, NEW by, Ocr!Reply(k, words, extra, whole, by),
               \/ used' = used /\ by = "unnamed"
               \/ used' = Ocr!Use(used, by)
        PROVE  ReadersKept'
    <3> DEFINE r == [said |-> words, stray |-> extra, whole |-> whole, by |-> by]
    <3>1. replies' = Append(replies, r) /\ r.by = by
      BY <2>2 DEF Ocr!Reply
    <3> HIDE DEF r
    <3> QED BY <2>1, <2>2, <3>1, ReplyNames
  <2>3. CASE Ocr!ChunkRead(k)
    <3>1. PICK by, words, extra, whole : /\ Ocr!Reply(k, words, extra, whole, by)
                                        /\ used' = Ocr!Use(used, by)
      BY <2>3, Zenon DEF Ocr!ChunkRead
    <3> QED BY <2>2, <3>1
  <2>4. CASE Ocr!CropsRead(k)
    <3>1. PICK words \in [Ocr!InChunk(k) -> Ocr!Readings \cup {"none"}],
               plain \in BOOLEAN, whole \in BOOLEAN :
             /\ Ocr!Reply(k, words, 0, whole, IF plain THEN "unnamed" ELSE "local")
             /\ used' = IF plain THEN used ELSE Ocr!Use(used, "local")
      BY <2>4, Zenon DEF Ocr!CropsRead
    <3>2. CASE plain
      BY <2>2, <3>1, <3>2
    <3>3. CASE ~plain
      BY <2>2, <3>1, <3>3
    <3> QED BY <3>2, <3>3
  <2> QED BY <1>5, <2>3, <2>4
<1>6. ASSUME NEW k \in 1 .. Ocr!Chunks, Ocr!MergeChunk(k) PROVE ReadersKept'
  BY <1>6, MergeNames
<1>7. CASE Ocr!Order
  <2>1. posted'.models = Ocr!ToSet(used) /\ UNCHANGED <<used, origin, replies, merging>>
    BY <1>7 DEF Ocr!Order, Ocr!Reading
  <2> QED BY <2>1 DEF ReadersKept, Noted
<1>8. CASE UNCHANGED Ocr!vars
  BY <1>1, <1>8 DEF Ocr!vars
<1> QED BY <1>2, <1>3, <1>4, <1>5, <1>6, <1>7, <1>8 DEF Ocr!Next

(* It holds when a run begins. *)
LEMMA ReadersBegin == ASSUME Ocr!Init PROVE ReadersKept
<1>1. used = <<>> /\ origin = <<>> /\ merging = {} /\ pc = "fetch"
  BY DEF Ocr!Init
<1> QED BY <1>1 DEF ReadersKept

PartTypes ==
    /\ part = "qa" => QaInv /\ QaTypes
    /\ part = "ocr" => OcrInv /\ OcrCounts /\ ReadersKept
    /\ part = "costs" => CostInv /\ CostCounts

(* These hold in every state of the parts. *)
LEMMA TypesInvariant == Spec => [](CallbackInv /\ WhileOcr /\ CostsInv /\ PartTypes)
<1> DEFINE Invs == CallbackInv /\ WhileOcr /\ CostsInv
           Next2 == [Next]_vars /\ Invs /\ Invs'
<1>1. Init /\ Invs => PartTypes
  <2> SUFFICES ASSUME Init, Invs PROVE PartTypes
    OBVIOUS
  <2>1. part = "qa" => QaTypes
    BY PartsAssumption, QaTypesBegin DEF Init
  <2>2. part = "ocr" => OcrCounts /\ ReadersKept
    BY PartsAssumption, OcrCountsBegin, ReadersBegin DEF Init
  <2>3. part = "costs" => CostCounts
    BY PartsAssumption, CostCountsBegin DEF Init
  <2> QED BY <2>1, <2>2, <2>3 DEF PartTypes, CallbackInv, WhileOcr, CostsInv
<1>2. PartTypes /\ Next2 => PartTypes'
  <2> SUFFICES ASSUME PartTypes, [Next]_vars, Invs, Invs' PROVE PartTypes'
    OBVIOUS
  <2>1. CASE part' = "qa"
    <3>1. part = "qa" /\ [Qa!Next]_(Qa!vars)
      BY <2>1, QaMoves
    <3>2. QaInv /\ QaTypes /\ QaInv'
      BY <2>1, <3>1 DEF PartTypes, CallbackInv
    <3>3. QaTypes'
      BY <3>1, <3>2, PartsAssumption, QaTypesStep DEF QaInv
    <3> QED BY <2>1, <3>2, <3>3 DEF PartTypes
  <2>2. CASE part' = "ocr"
    <3>1. part = "ocr" /\ [Ocr!Next]_(Ocr!vars)
      BY <2>2, OcrMoves
    <3>2. OcrInv /\ OcrCounts /\ ReadersKept /\ OcrInv'
      BY <2>2, <3>1 DEF PartTypes, WhileOcr
    <3>3. OcrCounts' /\ ReadersKept'
      BY <3>1, <3>2, PartsAssumption, OcrCountsStep, ReadersStep
    <3> QED BY <2>2, <3>2, <3>3 DEF PartTypes
  <2>3. CASE part' = "costs"
    <3>1. part = "costs" /\ [Costs!CostNext]_(Costs!costVars)
      BY <2>3, CostsMove
    <3>2. CostInv /\ CostCounts /\ CostInv'
      BY <2>3, <3>1 DEF PartTypes, CostsInv
    <3>3. CostCounts'
      BY <3>1, <3>2, PartsAssumption, CostCountsStep
    <3> QED BY <2>3, <3>2, <3>3 DEF PartTypes
  <2>4. CASE part' \notin {"qa", "ocr", "costs"}
    BY <2>4 DEF PartTypes
  <2> QED BY <2>1, <2>2, <2>3, <2>4
<1>3. Spec => []Invs
  BY CallbackInvariant, OcrInvariant, CostsInvariant, PTL
<1> QED BY <1>1, <1>2, <1>3, PTL DEF Spec

(* Every text of an OCR callback is the engine's, or the model that read it is named
   in the callback: whatever the models of the job, the number of the chunks and the
   order in which they end. *)
THEOREM ReadersNamed == Spec => []ReadersAreNamed
<1>1. PartTypes => ReadersAreNamed
  <2> SUFFICES ASSUME OcrInv, ReadersKept, pc = "post", NEW i \in Ocr!Posted
               PROVE  origin[i].by \in posted.models \cup {"engine", "unnamed"}
    BY DEF PartTypes, ReadersAreNamed, Ocr!ReadersAreNamed
  <2>1. i \in DOMAIN origin
    BY DEF OcrInv, PostedKept, TextsKept, Ocr!Posted
  <2> QED BY <2>1 DEF ReadersKept, Noted
<1> QED BY <1>1, TypesInvariant, PTL

(* Every part has its types in every state (TypeOK): the chains of the QA job name
   only models of the job and of the configuration, no more than the edits and the
   prepare step change the page, and there are no more replies than chunks. *)
THEOREM PartsTypeCorrect == Spec => []TypeOK
<1> DEFINE Invs == /\ CallbackInv /\ WhileOcr /\ CostsInv /\ PartTypes
                   /\ ModelsInv /\ SlotsInv /\ OutcomesInv
<1>1. Invs => TypeOK
  <2> SUFFICES ASSUME Invs PROVE TypeOK
    OBVIOUS
  <2>1. part = "qa" => Qa!TypeOK
    BY DEF PartTypes, QaTypes
  <2>2. part = "ocr" => Ocr!TypeOK
    <3> SUFFICES ASSUME OcrInv, OcrCounts PROVE Ocr!TypeOK
      BY DEF PartTypes
    <3>1. yolo \in BOOLEAN /\ DOMAIN texts = DOMAIN origin
      BY DEF OcrInv, OcrTypes, TextsKept
    <3>2. home \in [OcrFragment -> Ocr!ToSet(Balloons) \cup {"loose", "unseen"}]
      BY DEF OcrInv, OcrTypes, Balloon
    <3> QED BY <3>1, <3>2 DEF OcrCounts, Ocr!TypeOK
  <2>3. part = "costs" => Costs!CostTypeOK
    BY DEF PartTypes, CostInv, CostTypes, CostCounts, Costs!CostTypeOK
  <2>4. part = "cleanup" => Cleanup!CleanupTypeOK
    BY DEF OutcomesInv, CleanupInv
  <2>5. part = "models" => Models!TypeOK
    BY DEF ModelsInv, ManagerInv
  <2>6. part = "rate" => Rate!RateTypeOK
    BY DEF SlotsInv, RateInv
  <2> QED BY <2>1, <2>2, <2>3, <2>4, <2>5, <2>6 DEF TypeOK
<1>2. Spec => []Invs
  BY TypesInvariant, ModelsInvariant, RateInvariant, OutcomesInvariant, PTL
<1> QED BY <1>1, <1>2, PTL
================================================================================
