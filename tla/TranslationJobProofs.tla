-------------------------- MODULE TranslationJobProofs --------------------------
(***************************************************************************)
(* Proofs about one run of process_translation (TranslationJob), for pages *)
(* and conversations of any length: how a pass is cut into chunks, what is *)
(* asked for, and what the callback makes of it.                           *)
(***************************************************************************)
EXTENDS TranslationJob, SequenceTheorems, WellFoundedInduction, TLAPS

(* What holds of 0, and of n + 1 with n, holds of every number: the induction that
   the chunks need, over a set instead of a predicate. *)
LEMMA Induction ==
    ASSUME NEW S \in SUBSET Nat, 0 \in S, \A n \in S : n + 1 \in S
    PROVE  S = Nat
<1> SUFFICES ASSUME Nat \ S # {} PROVE FALSE
  OBVIOUS
<1>1. IsWellFoundedOn(OpToRel(<, Nat), Nat)
  BY NatLessThanWellFounded
<1>2. PICK n \in Nat \ S : \A m \in Nat \ S : <<m, n>> \notin OpToRel(<, Nat)
  BY <1>1, WFMin
<1>3. \A m \in Nat \ S : ~(m < n)
  BY <1>2 DEF OpToRel
<1>4. n # 0 /\ n - 1 \in Nat
  OBVIOUS
<1>5. n - 1 \in S
  BY <1>3, <1>4
<1> QED BY <1>4, <1>5
-----------------------------------------------------------------------------
(***************************************************************************)
(* The chunks of a pass.  Cut(units)[n] is the list of chunks after n      *)
(* units; that it is one, has what the units have, and has nothing twice   *)
(* is shown for one unit more at a time.                                   *)
(***************************************************************************)
IsList(units) == units \in Seq(SUBSET Region)

Apart(sets) == \A i, j \in DOMAIN sets : i # j => sets[i] \cap sets[j] = {}

Has(sets, x) == \E k \in DOMAIN sets : x \in sets[k]

(* f is what Cut defines, up to n units. *)
IsCut(f, units, n) ==
    f = [k \in 0 .. n |-> IF k = 0 THEN <<>> ELSE Put(f[k - 1], units[k])]

(* The recursion of Cut has a solution, which Cut is. *)
LEMMA CutStep ==
    ASSUME NEW units, IsList(units)
    PROVE  /\ Cut(units)[0] = <<>>
           /\ \A n \in 1 .. Len(units) : Cut(units)[n] = Put(Cut(units)[n - 1], units[n])
<1> DEFINE S == {n \in Nat : \E f : IsCut(f, units, n)}
<1>1. 0 \in S
  <2>1. IsCut([k \in 0 .. 0 |-> <<>>], units, 0)
    BY DEF IsCut
  <2> QED BY <2>1
<1>2. ASSUME NEW n \in S PROVE n + 1 \in S
  <2>1. PICK f : IsCut(f, units, n)
    OBVIOUS
  <2> DEFINE g == [k \in 0 .. n + 1 |-> IF k = n + 1 THEN Put(f[n], units[n + 1]) ELSE f[k]]
  <2>2. n \in Nat
    OBVIOUS
  <2>3. ASSUME NEW k \in 0 .. n + 1
        PROVE  g[k] = IF k = 0 THEN <<>> ELSE Put(g[k - 1], units[k])
    <3>1. CASE k = n + 1
      BY <2>2, <3>1
    <3>2. CASE k \in 0 .. n
      <4>1. g[k] = f[k] /\ (k # 0 => k - 1 \in 0 .. n + 1 /\ k - 1 # n + 1 /\ g[k - 1] = f[k - 1])
        BY <2>2, <3>2
      <4>2. f[k] = IF k = 0 THEN <<>> ELSE Put(f[k - 1], units[k])
        BY <2>1, <3>2 DEF IsCut
      <4> QED BY <4>1, <4>2
    <3> QED BY <2>2, <3>1, <3>2
  <2>4. IsCut(g, units, n + 1)
    BY <2>3 DEF IsCut
  <2> QED BY <2>2, <2>4
<1>3. S = Nat
  <2> HIDE DEF S
  <2>1. S \in SUBSET Nat BY DEF S
  <2> QED BY <1>1, <1>2, <2>1, Induction
<1>4. Len(units) \in Nat
  BY DEF IsList
<1>5. \E f : f = [k \in 0 .. Len(units) |-> IF k = 0 THEN <<>> ELSE Put(f[k - 1], units[k])]
  BY <1>3, <1>4 DEF IsCut
<1>6. Cut(units) = [k \in 0 .. Len(units) |-> IF k = 0 THEN <<>> ELSE Put(Cut(units)[k - 1], units[k])]
  BY <1>5 DEF Cut
<1> QED BY <1>4, <1>6

(* A unit that is put adds itself and nothing else, and keeps the chunks apart. *)
LEMMA PutKeeps ==
    ASSUME NEW chunks, IsList(chunks), Apart(chunks), NEW unit \in SUBSET Region,
           \A x \in unit : ~Has(chunks, x)
    PROVE  /\ IsList(Put(chunks, unit)) /\ Apart(Put(chunks, unit))
           /\ \A x : Has(Put(chunks, unit), x) <=> Has(chunks, x) \/ x \in unit
<1> DEFINE n == Len(chunks)
           new == Put(chunks, unit)
<1>1. n \in Nat /\ chunks \in [1 .. n -> SUBSET Region] /\ DOMAIN chunks = 1 .. n
  BY DEF IsList
<1>2. CASE unit = {}
  BY <1>2 DEF Put
<1>3. CASE unit # {} /\ chunks # <<>> /\ Fits(Last(chunks), unit)
  <2>1. new = [chunks EXCEPT ![n] = chunks[n] \cup unit] /\ n \in 1 .. n
    BY <1>1, <1>3 DEF Put
  <2> HIDE DEF new
  <2>2. /\ new \in [1 .. n -> SUBSET Region]
        /\ new[n] = chunks[n] \cup unit /\ \A k \in 1 .. n : k # n => new[k] = chunks[k]
    BY <1>1, <2>1
  <2> HIDE DEF n
  <2>3. IsList(new) /\ DOMAIN new = 1 .. n
    BY <1>1, <2>2 DEF IsList
  <2>4. Apart(new)
    BY <1>1, <2>2, <2>3 DEF Apart, Has
  <2>5. \A x : Has(new, x) <=> Has(chunks, x) \/ x \in unit
    BY <1>1, <2>1, <2>2, <2>3 DEF Has
  <2> QED BY <2>3, <2>4, <2>5 DEF new
<1>4. CASE unit # {} /\ ~(chunks # <<>> /\ Fits(Last(chunks), unit))
  <2>1. new = Append(chunks, unit)
    BY <1>4 DEF Put
  <2> HIDE DEF new
  <2>2. /\ IsList(new) /\ DOMAIN new = 1 .. n + 1
        /\ new[n + 1] = unit /\ \A k \in 1 .. n : new[k] = chunks[k]
    BY <1>1, <2>1 DEF IsList
  <2>3. Apart(new)
    BY <1>1, <2>2 DEF Apart, Has
  <2>4. \A x : Has(new, x) <=> Has(chunks, x) \/ x \in unit
    BY <1>1, <2>2 DEF Has
  <2> QED BY <2>2, <2>3, <2>4 DEF new
<1> QED BY <1>2, <1>3, <1>4

(* After any number of units the chunks have what those units have, each region
   in one chunk. *)
LEMMA CutParts ==
    ASSUME NEW units, IsList(units), Apart(units), NEW n \in 0 .. Len(units)
    PROVE  /\ IsList(Cut(units)[n]) /\ Apart(Cut(units)[n])
           /\ \A x : Has(Cut(units)[n], x) <=> \E i \in 1 .. n : x \in units[i]
<1> DEFINE Good(m) == /\ IsList(Cut(units)[m]) /\ Apart(Cut(units)[m])
                      /\ \A x : Has(Cut(units)[m], x) <=> \E i \in 1 .. m : x \in units[i]
           S == {m \in Nat : m <= Len(units) => Good(m)}
<1>1. Len(units) \in Nat /\ units \in [1 .. Len(units) -> SUBSET Region]
  BY DEF IsList
<1>2. 0 \in S
  <2>1. IsList(<<>>) /\ Apart(<<>>) /\ \A x : ~Has(<<>>, x)
    BY DEF IsList, Apart, Has
  <2> QED BY <2>1, CutStep
<1>3. ASSUME NEW m \in S PROVE m + 1 \in S
  <2> SUFFICES ASSUME m + 1 <= Len(units) PROVE Good(m + 1)
    OBVIOUS
  <2>1. m \in Nat /\ Good(m) /\ m + 1 \in 1 .. Len(units)
    BY <1>1
  <2> DEFINE chunks == Cut(units)[m]
             unit == units[m + 1]
  <2>2. Cut(units)[m + 1] = Put(chunks, unit)
    BY <2>1, CutStep
  <2>3. unit \in SUBSET Region
    BY <1>1, <2>1
  <2>4. \A x \in unit : ~Has(chunks, x)
    <3> SUFFICES ASSUME NEW x \in unit, NEW i \in 1 .. m, x \in units[i] PROVE FALSE
      BY <2>1
    <3>1. i # m + 1 /\ i \in DOMAIN units /\ m + 1 \in DOMAIN units
      BY <1>1, <2>1
    <3> QED BY <3>1 DEF Apart
  <2>5. IsList(chunks) /\ Apart(chunks) /\ \A x : Has(chunks, x) <=> \E i \in 1 .. m : x \in units[i]
    BY <2>1
  <2> HIDE DEF chunks
  <2>6. /\ IsList(Put(chunks, unit)) /\ Apart(Put(chunks, unit))
        /\ \A x : Has(Put(chunks, unit), x) <=> Has(chunks, x) \/ x \in unit
    BY <2>3, <2>4, <2>5, PutKeeps
  <2>7. \A x : Has(Put(chunks, unit), x) <=> \E i \in 1 .. m + 1 : x \in units[i]
    BY <2>1, <2>5, <2>6
  <2> QED BY <2>2, <2>6, <2>7
<1>4. S = Nat
  <2> HIDE DEF S
  <2>1. S \in SUBSET Nat BY DEF S
  <2> QED BY <1>2, <1>3, <2>1, Induction
<1> QED BY <1>1, <1>4

(* The units of a set of regions have each of them once. *)
LEMMA UnitsParts ==
    ASSUME conversations \in Conversations, NEW rs \in SUBSET Region
    PROVE  /\ IsList(Units(rs)) /\ Apart(Units(rs))
           /\ \A x : Has(Units(rs), x) <=> x \in rs
<1> DEFINE c == Len(conversations)
           p == Len(Page)
           told == [i \in DOMAIN conversations |-> conversations[i] \cap rs]
           rest == [i \in DOMAIN Page |-> {Page[i]} \cap Ungrouped(rs)]
<1>1. /\ c \in Nat /\ conversations \in [1 .. c -> SUBSET Region] /\ DOMAIN conversations = 1 .. c
      /\ \A i, j \in 1 .. c : i # j => conversations[i] \cap conversations[j] = {}
  BY TranslationAssumption
<1>2. /\ p \in Nat /\ Page \in [1 .. p -> Region] /\ DOMAIN Page = 1 .. p
      /\ (\A i, j \in 1 .. p : i # j => Page[i] # Page[j])
      /\ (\A x \in Region : \E i \in 1 .. p : Page[i] = x)
  BY TranslationAssumption DEF IsInjective, Region, ToSet
<1> HIDE DEF c, p
<1>3. told \in [1 .. c -> SUBSET Region] /\ rest \in [1 .. p -> SUBSET Region]
  BY <1>1, <1>2 DEF Ungrouped
<1>4. IsList(told) /\ Len(told) = c /\ IsList(rest) /\ Len(rest) = p
  BY <1>1, <1>2, <1>3 DEF IsList
<1>5. Units(rs) = told \o rest
  BY DEF Units
<1>6. /\ IsList(Units(rs)) /\ DOMAIN Units(rs) = 1 .. c + p
      /\ \A i \in 1 .. c + p : Units(rs)[i] = IF i <= c THEN told[i] ELSE rest[i - c]
  <2> HIDE DEF told, rest
  <2>1. told \in Seq(SUBSET Region) /\ rest \in Seq(SUBSET Region)
    BY <1>4 DEF IsList
  <2>2. /\ Units(rs) \in Seq(SUBSET Region) /\ Len(Units(rs)) = c + p
        /\ \A i \in 1 .. c + p : Units(rs)[i] = IF i <= c THEN told[i] ELSE rest[i - c]
    BY <1>4, <1>5, <2>1, ConcatProperties
  <2> QED BY <2>2 DEF IsList
<1>7. ASSUME NEW i \in 1 .. c + p, NEW x
      PROVE  x \in Units(rs)[i] <=>
                IF i <= c THEN i \in 1 .. c /\ x \in conversations[i] /\ x \in rs
                ELSE i - c \in 1 .. p /\ x = Page[i - c] /\ x \in Ungrouped(rs)
  <2>1. CASE i <= c
    <3>1. i \in 1 .. c /\ Units(rs)[i] = told[i]
      <4> HIDE DEF told, rest
      <4> QED BY <1>1, <1>2, <1>6, <2>1
    <3>2. told[i] = conversations[i] \cap rs
      BY <1>1, <3>1
    <3> QED BY <2>1, <3>1, <3>2
  <2>2. CASE ~(i <= c)
    <3>1. i - c \in 1 .. p
      BY <1>1, <1>2, <2>2
    <3>2. Units(rs)[i] = {Page[i - c]} \cap Ungrouped(rs)
      BY <1>2, <1>6, <2>2, <3>1
    <3> QED BY <2>2, <3>1, <3>2
  <2> QED BY <2>1, <2>2
<1> HIDE DEF told, rest
<1>8. Apart(Units(rs))
  <2> SUFFICES ASSUME NEW i \in 1 .. c + p, NEW j \in 1 .. c + p, i # j, NEW x,
                      x \in Units(rs)[i], x \in Units(rs)[j]
               PROVE  FALSE
    BY <1>6 DEF Apart
  <2>1. CASE i <= c /\ j <= c
    <3>1. i \in 1 .. c /\ j \in 1 .. c /\ x \in conversations[i] /\ x \in conversations[j]
      BY <1>7, <2>1
    <3> QED BY <1>1, <3>1
  <2>2. CASE i <= c /\ ~(j <= c)
    <3>1. i \in 1 .. c /\ x \in conversations[i] /\ x \in Ungrouped(rs)
      BY <1>7, <2>2
    <3> QED BY <1>1, <3>1 DEF Ungrouped
  <2>3. CASE ~(i <= c) /\ j <= c
    <3>1. j \in 1 .. c /\ x \in conversations[j] /\ x \in Ungrouped(rs)
      BY <1>7, <2>3
    <3> QED BY <1>1, <3>1 DEF Ungrouped
  <2>4. CASE ~(i <= c) /\ ~(j <= c)
    <3>1. i - c \in 1 .. p /\ j - c \in 1 .. p /\ x = Page[i - c] /\ x = Page[j - c]
      BY <1>7, <2>4
    <3>2. i - c # j - c
      BY <1>1, <1>2
    <3> QED BY <1>2, <3>1, <3>2
  <2> QED BY <2>1, <2>2, <2>3, <2>4
<1>9. ASSUME NEW x PROVE Has(Units(rs), x) <=> x \in rs
  <2>1. ASSUME NEW i \in 1 .. c + p, x \in Units(rs)[i] PROVE x \in rs
    BY <1>7, <2>1 DEF Ungrouped
  <2>2. ASSUME x \in rs, NEW i \in 1 .. c, x \in conversations[i] PROVE Has(Units(rs), x)
    <3>1. i \in 1 .. c + p /\ i <= c
      BY <1>1, <1>2
    <3>2. x \in Units(rs)[i]
      BY <1>7, <2>2, <3>1
    <3> QED BY <1>6, <3>1, <3>2 DEF Has
  <2>3. ASSUME x \in rs, \A i \in 1 .. c : x \notin conversations[i] PROVE Has(Units(rs), x)
    <3>1. PICK i \in 1 .. p : Page[i] = x
      BY <1>2, <2>3
    <3>2. x \in Ungrouped(rs)
      BY <1>1, <2>3 DEF Ungrouped
    <3>3. c + i \in 1 .. c + p /\ ~(c + i <= c) /\ (c + i) - c = i
      BY <1>1, <1>2
    <3>4. x \in Units(rs)[c + i]
      BY <1>7, <3>1, <3>2, <3>3
    <3> QED BY <1>6, <3>3, <3>4 DEF Has
  <2> QED BY <1>6, <2>1, <2>2, <2>3 DEF Has
<1> QED BY <1>6, <1>8, <1>9

(* The chunks of a set of regions have each of them in exactly one chunk, however
   long the page is and whatever conversations it has (chunk_regions_by_conversation). *)
THEOREM ChunksPartition ==
    ASSUME conversations \in Conversations, NEW rs \in SUBSET Region
    PROVE  /\ IsList(Chunks(rs)) /\ Apart(Chunks(rs))
           /\ \A x : Has(Chunks(rs), x) <=> x \in rs
<1>1. /\ IsList(Units(rs)) /\ Apart(Units(rs)) /\ \A x : Has(Units(rs), x) <=> x \in rs
      /\ Len(Units(rs)) \in 0 .. Len(Units(rs)) /\ DOMAIN Units(rs) = 1 .. Len(Units(rs))
  BY UnitsParts DEF IsList
<1> QED BY <1>1, CutParts DEF Chunks, Has
-----------------------------------------------------------------------------
(***************************************************************************)
(* The run.  A region is asked for while it has no valid text, and the     *)
(* chunks of a pass have it once; what its last text was decides whether   *)
(* it has a text now, and why not.                                         *)
(***************************************************************************)
Entries == [regions : SUBSET Region, state : {"queued", "asking", "finished", "merged"},
            reply : [Region -> Texts \cup {"none"}]]

Shapes ==
    /\ pc \in {"fetch", "pool", "singly", "post", "ended"}
    /\ kind \in [Region -> Skips \cup {"target"}] /\ conversations \in Conversations
    /\ pass \in 0 .. 3 /\ asked \in SUBSET Targets
    /\ answers \in Seq(Entries)
    /\ mapping \in [Region -> Texts \cup {"none"}] /\ said \in [Region -> Texts \cup {"none"}]
    /\ resolved \in [Region -> {"good", "none"}]
    /\ reason \in [Region -> {"none", "rejected", "unavailable"}]
    /\ outcome \in {"none", "completed", "unavailable", "raised"}
    /\ asks \in [Region -> Nat]

(* The chunks of a pass have its regions once each, and who is in a chunk that has
   been sent was asked for in this pass. *)
Sent ==
    pc = "pool" =>
        /\ \A r \in asked : \E i \in DOMAIN answers : r \in answers[i].regions
        /\ \A i, j \in DOMAIN answers : i # j => answers[i].regions \cap answers[j].regions = {}
        /\ \A i \in DOMAIN answers : \A r \in answers[i].regions :
              r \in asked /\ asks[r] = IF answers[i].state = "queued" THEN pass - 1 ELSE pass

(* Which pass it is, and how often a region was asked for in it and before. *)
Counted ==
    /\ pc = "fetch" => pass = 0 /\ outcome = "none" /\ said = All("none")
    /\ pc = "pool" => pass \in {1, 2} /\ outcome = "none"
    /\ pc = "singly" => pass = 3 /\ outcome = "none" /\ \A r \in asked : asks[r] = 2
    /\ pc = "post" => outcome = "none"
    /\ pc = "pool" /\ pass = 1 => asked = Targets
    /\ \A r \in Region : asks[r] <= pass

(* A region has a text if and only if its last one was valid, is asked for only
   without one, and the reason of a failure is noted when it is judged. *)
Texted ==
    /\ \A r \in Region : resolved[r] = "good" <=> said[r] = "good"
    /\ \A r \in asked : resolved[r] = "none"
    /\ pass \in {2, 3} \/ pc = "post" =>
          \A r \in Targets : said[r] = "none" => reason[r] = "unavailable"

RunInv == Shapes /\ Sent /\ Counted /\ Texted /\ EveryRegionAccounted /\ SilenceIsRetried

(* The chunks that are submitted have what is asked for, and are all queued. *)
LEMMA Submitted ==
    ASSUME conversations \in Conversations, UNCHANGED conversations,
           NEW p, NEW rs \in SUBSET Region, Submit(p, rs)
    PROVE  /\ answers' \in Seq(Entries) /\ mapping' \in [Region -> Texts \cup {"none"}]
           /\ pc' = "pool" /\ pass' = p /\ asked' = rs
           /\ \A r \in rs : \E i \in DOMAIN answers' : r \in answers'[i].regions
           /\ \A i, j \in DOMAIN answers' : i # j => answers'[i].regions \cap answers'[j].regions = {}
           /\ \A i \in DOMAIN answers' : answers'[i].state = "queued" /\ answers'[i].regions \subseteq rs
<1> DEFINE chunks == Chunks(rs)
           n == Len(chunks)
<1>1. /\ n \in Nat /\ chunks \in [1 .. n -> SUBSET Region] /\ DOMAIN chunks = 1 .. n
      /\ Apart(chunks) /\ \A x : Has(chunks, x) <=> x \in rs
  BY ChunksPartition DEF IsList
<1>2. /\ answers' = [i \in DOMAIN chunks |-> Chunk(chunks[i], "queued", All("none"))]
      /\ pc' = "pool" /\ pass' = p /\ asked' = rs /\ mapping' = All("none")
  BY DEF Submit, Goto
<1> HIDE DEF chunks, n
<1>3. All("none") \in [Region -> Texts \cup {"none"}]
  BY DEF All
<1>4. answers' \in [1 .. n -> Entries]
  BY <1>1, <1>2, <1>3 DEF Chunk, Entries
<1>5. answers' \in Seq(Entries) /\ DOMAIN answers' = 1 .. n
  BY <1>1, <1>4
<1>6. \A i \in 1 .. n : answers'[i].regions = chunks[i] /\ answers'[i].state = "queued"
  BY <1>1, <1>2 DEF Chunk
<1> QED BY <1>1, <1>2, <1>3, <1>5, <1>6 DEF Has, Apart

(* What a step of the pool keeps: each thread has a chunk of its own. *)
LEMMA ThreadKeeps ==
    ASSUME RunInv, NEW i \in DOMAIN answers, ThreadStep(i)
    PROVE  RunInv'
<1> USE DEF RunInv, Shapes
<1> DEFINE n == Len(answers)
<1>0. /\ n \in Nat /\ DOMAIN answers = 1 .. n /\ answers \in [1 .. n -> Entries] /\ answers[i] \in Entries
      /\ asks \in [Region -> Nat]
  OBVIOUS
<1>1. /\ pc = "pool" /\ UNCHANGED <<pc, page, pass, asked, resolved, reason, posted, outcome, said>>
      /\ Targets' = Targets
  BY DEF ThreadStep, Start, Finish, Merge, page, Targets, IsTarget
<1>2. /\ UNCHANGED <<pc, kind, conversations, pass, asked, resolved, reason, posted, outcome, said>>
      /\ outcome = "none"
  BY <1>1 DEF page, Counted
<1>3. /\ answers' \in Seq(Entries) /\ DOMAIN answers' = DOMAIN answers
      /\ \A j \in DOMAIN answers : answers'[j].regions = answers[j].regions
      /\ \A j \in DOMAIN answers : j # i => answers'[j].state = answers[j].state
      /\ answers'[i].state # "queued"
  <2>1. CASE Start(i)
    <3>1. answers' = [answers EXCEPT ![i].state = "asking"]
      BY <2>1 DEF Start
    <3> HIDE DEF RunInv, n
    <3>2. answers' \in [1 .. n -> Entries]
      BY <1>0, <3>1 DEF Entries
    <3> QED BY <1>0, <3>1, <3>2
  <2>2. CASE Finish(i)
    <3>1. PICK reply \in Replies : answers' = [answers EXCEPT ![i] = Chunk(answers[i].regions, "finished", reply)]
      BY <2>2 DEF Finish
    <3>2. Chunk(answers[i].regions, "finished", reply) \in Entries
      BY <1>0 DEF Chunk, Entries, Replies
    <3> HIDE DEF RunInv, n
    <3>3. answers' \in [1 .. n -> Entries]
      BY <1>0, <3>1, <3>2
    <3> QED BY <1>0, <3>1, <3>3 DEF Chunk
  <2>3. CASE Merge(i)
    <3>1. answers' = [answers EXCEPT ![i] = Chunk(answers[i].regions, "merged", All("none"))]
      BY <2>3 DEF Merge
    <3>2. Chunk(answers[i].regions, "merged", All("none")) \in Entries
      BY <1>0 DEF Chunk, Entries, All
    <3> HIDE DEF RunInv, n
    <3>3. answers' \in [1 .. n -> Entries]
      BY <1>0, <3>1, <3>2
    <3> QED BY <1>0, <3>1, <3>3 DEF Chunk
  <2> QED BY <2>1, <2>2, <2>3 DEF ThreadStep
<1>4. mapping' \in [Region -> Texts \cup {"none"}]
  <2>1. answers[i].reply \in [Region -> Texts \cup {"none"}]
    BY <1>0 DEF Entries
  <2> QED BY <2>1 DEF ThreadStep, Start, Finish, Merge
<1>5. /\ asks' \in [Region -> Nat]
      /\ \A r \in Region : asks'[r] =
            IF r \in answers[i].regions /\ answers[i].state = "queued" THEN asks[r] + 1 ELSE asks[r]
  <2>1. CASE Start(i)
    BY <1>0, <2>1 DEF Start
  <2>2. CASE Finish(i) \/ Merge(i)
    BY <1>0, <2>2 DEF Finish, Merge
  <2> QED BY <2>1, <2>2 DEF ThreadStep
<1>6. Sent'
  <2>1. \A r \in asked' : \E j \in DOMAIN answers' : r \in answers'[j].regions
    BY <1>1, <1>2, <1>3 DEF Sent
  <2>2. \A j, k \in DOMAIN answers' : j # k => answers'[j].regions \cap answers'[k].regions = {}
    BY <1>1, <1>3 DEF Sent
  <2>3. ASSUME NEW j \in DOMAIN answers, NEW r \in answers[j].regions
        PROVE  r \in asked' /\ asks'[r] = IF answers'[j].state = "queued" THEN pass' - 1 ELSE pass'
    <3>1. r \in asked /\ asks[r] = (IF answers[j].state = "queued" THEN pass - 1 ELSE pass) /\ r \in Region
      BY <1>1 DEF Sent, Targets
    <3>2. CASE j = i
      BY <1>2, <1>3, <1>5, <3>1, <3>2
    <3>3. CASE j # i
      <4>1. r \notin answers[i].regions
        BY <1>1, <3>3 DEF Sent
      <4> QED BY <1>2, <1>3, <1>5, <3>1, <3>3, <4>1
    <3> QED BY <3>2, <3>3
  <2> QED BY <1>3, <2>1, <2>2, <2>3, ZenonT(60) DEF Sent
<1>7. Counted'
  <2>1. ASSUME NEW r \in Region PROVE asks'[r] <= pass
    <3>1. CASE r \in answers[i].regions /\ answers[i].state = "queued"
      BY <1>1, <1>5, <3>1 DEF Sent
    <3>2. CASE ~(r \in answers[i].regions /\ answers[i].state = "queued")
      BY <1>5, <3>2 DEF Counted
    <3> QED BY <3>1, <3>2
  <2> QED BY <1>1, <1>2, <2>1 DEF Counted
<1>8. Texted'
  BY <1>1, <1>2 DEF Texted
<1> QED BY <1>1, <1>2, <1>3, <1>4, <1>5, <1>6, <1>7, <1>8 DEF EveryRegionAccounted, SilenceIsRetried, Skips
(* The targets are submitted, or there are none. *)
LEMMA FetchKeeps == ASSUME RunInv, Fetch PROVE RunInv'
<1> USE DEF RunInv, Shapes
<1>1. /\ pc = "fetch" /\ pass = 0 /\ outcome = "none" /\ said = All("none")
      /\ UNCHANGED <<kind, conversations, resolved, reason, posted, outcome, said, asks>> /\ Targets' = Targets
      /\ outcome' = "none" /\ Targets \in SUBSET Region
  BY DEF Fetch, page, Counted, Targets, IsTarget
<1>2. \A r \in Region : said[r] = "none" /\ asks[r] = 0
  BY <1>1 DEF All, Counted
<1>3. CASE Targets = {}
  <2>1. pc' = "post" /\ UNCHANGED <<pass, asked, answers, mapping>>
    BY <1>3 DEF Fetch, Goto
  <2> QED BY <1>1, <1>3, <2>1 DEF Sent, Counted, Texted, EveryRegionAccounted, SilenceIsRetried
<1>4. CASE Targets # {}
  <2>1. Submit(1, Targets)
    BY <1>4 DEF Fetch
  <2>2. /\ answers' \in Seq(Entries) /\ mapping' \in [Region -> Texts \cup {"none"}]
        /\ pc' = "pool" /\ pass' = 1 /\ asked' = Targets
        /\ \A r \in asked' : \E i \in DOMAIN answers' : r \in answers'[i].regions
        /\ \A i, j \in DOMAIN answers' : i # j => answers'[i].regions \cap answers'[j].regions = {}
        /\ \A i \in DOMAIN answers' : answers'[i].state = "queued" /\ answers'[i].regions \subseteq Targets
    BY <1>1, <2>1, Submitted
  <2>3. Sent'
    BY <1>1, <1>2, <2>2 DEF Sent
  <2>4. Counted' /\ Texted'
    BY <1>1, <1>2, <2>2 DEF Counted, Texted
  <2> QED BY <1>1, <2>2, <2>3, <2>4 DEF EveryRegionAccounted, SilenceIsRetried
<1> QED BY <1>3, <1>4

(* What fails in a pass, and only that, goes into the next one. *)
LEMMA JudgeKeeps == ASSUME RunInv, Judge PROVE RunInv'
<1> USE DEF RunInv, Shapes
<1>1. /\ pc = "pool" /\ outcome = "none" /\ outcome' = "none" /\ Targets' = Targets /\ Targets \in SUBSET Region
      /\ UNCHANGED <<kind, conversations, posted, outcome, asks>>
  BY DEF Judge, page, Counted, Targets, IsTarget
<1>2. /\ resolved' = [r \in Region |-> IF r \in asked /\ Valid(mapping[r]) THEN mapping[r] ELSE resolved[r]]
      /\ reason' = [r \in Region |-> IF r \in Failed THEN NoteFailure(mapping[r]) ELSE reason[r]]
      /\ said' = [r \in Region |-> IF r \in asked THEN mapping[r] ELSE said[r]]
  BY DEF Judge
<1>3. /\ resolved' \in [Region -> {"good", "none"}] /\ reason' \in [Region -> {"none", "rejected", "unavailable"}]
      /\ said' \in [Region -> Texts \cup {"none"}]
  BY <1>2 DEF Valid, NoteFailure
<1>4. Failed \in SUBSET Targets /\ Failed \subseteq asked /\ \A r \in Failed : resolved'[r] = "none"
  BY <1>1, <1>2 DEF Failed, Texted
<1>5. \A r \in Region : resolved'[r] = "good" <=> said'[r] = "good"
  BY <1>2 DEF Texted, Valid
<1>6. \A r \in asked : asks[r] = pass
  BY <1>1 DEF Judge, Sent
<1>7. \A r \in Targets : said'[r] = "none" => reason'[r] = "unavailable"
  <2> SUFFICES ASSUME NEW r \in Targets, said'[r] = "none" PROVE reason'[r] = "unavailable"
    OBVIOUS
  <2>1. CASE r \in asked
    BY <1>1, <1>2, <2>1 DEF Failed, Valid, NoteFailure
  <2>2. CASE r \notin asked
    <3>1. pass = 2 /\ said[r] = "none" /\ reason'[r] = reason[r]
      BY <1>1, <1>2, <2>2 DEF Counted, Failed
    <3> QED BY <3>1 DEF Texted
  <2> QED BY <2>1, <2>2
<1>8. CASE Failed # {} /\ pass = 1
  <2>1. Submit(2, Failed)
    BY <1>8 DEF Judge
  <2>2. /\ answers' \in Seq(Entries) /\ mapping' \in [Region -> Texts \cup {"none"}]
        /\ pc' = "pool" /\ pass' = 2 /\ asked' = Failed
        /\ \A r \in asked' : \E i \in DOMAIN answers' : r \in answers'[i].regions
        /\ \A i, j \in DOMAIN answers' : i # j => answers'[i].regions \cap answers'[j].regions = {}
        /\ \A i \in DOMAIN answers' : answers'[i].state = "queued" /\ answers'[i].regions \subseteq Failed
    BY <1>1, <1>4, <2>1, Submitted
  <2>3. Sent'
    BY <1>1, <1>4, <1>6, <1>8, <2>2 DEF Sent
  <2>4. Counted'
    BY <1>1, <1>8, <2>2 DEF Counted
  <2>5. Texted'
    BY <1>1, <1>4, <1>5, <1>7, <2>2 DEF Texted
  <2> QED BY <1>1, <1>3, <1>4, <2>2, <2>3, <2>4, <2>5 DEF EveryRegionAccounted, SilenceIsRetried
<1>9. CASE ~(Failed # {} /\ pass = 1)
  <2>1. /\ answers' = <<>> /\ mapping' = All("none") /\ asked' \in {{}, Failed}
        /\ \/ pc' = "singly" /\ pass = 2 /\ pass' = 3
           \/ pc' = "post" /\ pass' = pass /\ asked' = {}
    BY <1>9 DEF Judge, Goto
  <2>2. answers' \in Seq(Entries) /\ mapping' \in [Region -> Texts \cup {"none"}]
    BY <2>1 DEF All
  <2>3. Counted'
    BY <1>1, <1>4, <1>6, <2>1 DEF Counted
  <2>4. Texted'
    BY <1>1, <1>4, <1>5, <1>7, <2>1 DEF Texted
  <2> QED BY <1>1, <1>3, <1>4, <2>1, <2>2, <2>3, <2>4 DEF Sent, EveryRegionAccounted, SilenceIsRetried
<1> QED BY <1>8, <1>9

(* A region on its own gets its text, or its reason. *)
LEMMA SinglyKeeps == ASSUME RunInv, Singly PROVE RunInv'
<1> USE DEF RunInv, Shapes
<1>1. PICK r \in asked, text \in Texts \cup {"none"} :
         /\ said' = [said EXCEPT ![r] = text]
         /\ resolved' = [resolved EXCEPT ![r] = IF Valid(TranslateText(text)) THEN TranslateText(text) ELSE "none"]
         /\ reason' = IF Valid(TranslateText(text)) THEN reason
                      ELSE [reason EXCEPT ![r] = LastReason(r, TranslateText(text))]
         /\ asks' = [asks EXCEPT ![r] = @ + 1]
         /\ asked' = asked \ {r}
         /\ pc' \in {"post", "singly"}
  BY DEF Singly, Goto
<1>2. /\ pc = "singly" /\ pass = 3 /\ outcome = "none" /\ outcome' = "none" /\ Targets' = Targets
      /\ UNCHANGED <<kind, conversations, pass, answers, mapping, posted, outcome>>
      /\ r \in Targets /\ Targets \in SUBSET Region /\ asks[r] = 2
  BY DEF Singly, page, Counted, Targets, IsTarget
<1>3. /\ said' = [said EXCEPT ![r] = text]
      /\ resolved' = [resolved EXCEPT ![r] = IF text = "good" THEN "good" ELSE "none"]
      /\ reason' = IF text = "good" THEN reason ELSE [reason EXCEPT ![r] = "unavailable"]
  BY <1>1 DEF Valid, TranslateText, LastReason, NoteFailure
<1>4. /\ said' \in [Region -> Texts \cup {"none"}] /\ resolved' \in [Region -> {"good", "none"}]
      /\ reason' \in [Region -> {"none", "rejected", "unavailable"}] /\ asks' \in [Region -> Nat]
      /\ asked' \in SUBSET Targets
  BY <1>1, <1>2, <1>3
<1>5. Counted'
  BY <1>1, <1>2 DEF Counted
<1>6. Texted'
  BY <1>1, <1>2, <1>3 DEF Texted
<1> QED BY <1>1, <1>2, <1>4, <1>5, <1>6 DEF Sent, EveryRegionAccounted, SilenceIsRetried

(* The callback and the end of a run. *)
LEMMA EndKeeps ==
    ASSUME RunInv, FetchFails \/ SinglyFails \/ Post \/ PostFails PROVE RunInv'
<1> USE DEF RunInv, Shapes
<1>1. /\ pc # "ended" /\ pc' = "ended" /\ Targets' = Targets /\ Targets \in SUBSET Region
      /\ UNCHANGED <<kind, conversations, pass, asked, answers, mapping, resolved, reason, said>>
  BY DEF FetchFails, SinglyFails, Post, PostFails, Goto, page, Targets, IsTarget
<1>2. asks' \in [Region -> Nat] /\ \A r \in Region : asks'[r] <= pass
  <2>1. CASE SinglyFails
    <3>1. PICK r \in asked : asks' = [asks EXCEPT ![r] = @ + 1]
      BY <2>1 DEF SinglyFails
    <3> QED BY <1>1, <2>1, <3>1 DEF SinglyFails, Counted
  <2>2. CASE ~SinglyFails
    <3>1. asks' = asks
      BY <2>2 DEF FetchFails, Post, PostFails
    <3> QED BY <3>1 DEF Counted
  <2> QED BY <2>1, <2>2
<1>3. Sent' /\ Counted'
  BY <1>1, <1>2 DEF Sent, Counted
<1>4. Texted'
  BY <1>1 DEF Texted
<1>5. CASE Post
  <2>1. /\ pc = "post" /\ posted' = Callback
        /\ outcome' = IF AllFailed /\ Unavailable # {} THEN "unavailable" ELSE "completed"
    BY <1>5 DEF Post
  <2>2. EveryRegionAccounted'
    <3> SUFFICES ASSUME NEW r \in Region
                 PROVE  /\ r \in posted'.skipped <=> posted'.translations[r] = "absent"
                        /\ r \notin posted'.skipped =>
                              posted'.translations[r] = IF Valid(said'[r]) THEN "good" ELSE "none"
      BY DEF EveryRegionAccounted
    <3>1. r \in posted'.skipped <=> kind[r] \in Skips
      BY <2>1 DEF Callback
    <3>2. posted'.translations[r] = IF kind[r] = "target" THEN resolved[r] ELSE "absent"
      BY <2>1 DEF Callback
    <3> QED BY <1>1, <3>1, <3>2 DEF Skips, Valid, Texted
  <2>3. SilenceIsRetried'
    <3> SUFFICES ASSUME outcome' = "completed", AllFailed', NEW r \in Targets PROVE said'[r] = "bad"
      BY <1>1 DEF SilenceIsRetried
    <3>1. AllFailed /\ Unavailable = {} /\ resolved[r] = "none" /\ r \in Region
      BY <1>1, <2>1 DEF AllFailed
    <3>2. reason[r] # "unavailable"
      BY <3>1 DEF Unavailable
    <3> QED BY <1>1, <2>1, <3>1, <3>2 DEF Texted, Texts
  <2> QED BY <1>1, <1>2, <1>3, <1>4, <2>1, <2>2, <2>3
<1>6. CASE ~Post
  <2>1. outcome' = "raised"
    BY <1>6 DEF FetchFails, SinglyFails, PostFails
  <2> QED BY <1>1, <1>2, <1>3, <1>4, <2>1 DEF EveryRegionAccounted, SilenceIsRetried
<1> QED BY <1>5, <1>6

(* The invariant of a run holds. *)
LEMMA RunInvariant == Spec => []RunInv
<1>1. Init => RunInv
  <2> SUFFICES ASSUME Init PROVE RunInv
    OBVIOUS
  <2>1. /\ All("none") \in [Region -> {"none"}] /\ All(0) \in [Region -> {0}]
        /\ \A r \in Region : All("none")[r] = "none" /\ All(0)[r] = 0
    BY DEF All
  <2>2. Shapes
    BY <2>1 DEF Init, Shapes
  <2> QED BY <2>1, <2>2 DEF Init, RunInv, Sent, Counted, Texted, EveryRegionAccounted, SilenceIsRetried
<1>2. RunInv /\ [Next]_vars => RunInv'
  <2> SUFFICES ASSUME RunInv, UNCHANGED vars PROVE RunInv'
    BY ThreadKeeps, FetchKeeps, JudgeKeeps, SinglyKeeps, EndKeeps DEF Next
  <2> QED BY DEF vars, page, RunInv, Shapes, Sent, Counted, Texted, EveryRegionAccounted, SilenceIsRetried,
              Targets, IsTarget, AllFailed
<1> QED BY <1>1, <1>2, PTL DEF Spec

(* A pass asks for each of its regions exactly once, for any page, any conversations
   and any order in which the threads work and the answers are merged; three asks are
   the most (AskedOncePerPass). *)
THEOREM OneAskPerPass == Spec => []AskedOncePerPass
<1>1. RunInv => AskedOncePerPass
  <2> SUFFICES ASSUME RunInv PROVE AskedOncePerPass
    OBVIOUS
  <2>1. \A r \in Region : asks[r] <= pass
    BY DEF RunInv, Counted
  <2>2. ASSUME pc = "pool", \A i \in DOMAIN answers : answers[i].state = "merged", NEW r \in asked
        PROVE  asks[r] = pass
    BY <2>2 DEF RunInv, Sent
  <2> QED BY <2>1, <2>2 DEF AskedOncePerPass
<1> QED BY <1>1, RunInvariant, PTL

(* Every region of the page is in the callback once, as skipped or with the text that
   it was last given, if that was valid (EveryRegionAccounted). *)
THEOREM CallbackIsWhole == Spec => []EveryRegionAccounted
<1>1. RunInv => EveryRegionAccounted
  BY DEF RunInv
<1> QED BY <1>1, RunInvariant, PTL

(* A run with nothing to show completes only if each target was answered, however
   badly, when it was last asked for (SilenceIsRetried). *)
THEOREM NoAnswerIsRetried == Spec => []SilenceIsRetried
<1>1. RunInv => SilenceIsRetried
  BY DEF RunInv
<1> QED BY <1>1, RunInvariant, PTL

(* Nothing takes away a valid text, and its region is not asked for again, whichever
   answer comes late (AcceptedStays). *)
THEOREM ValidTextIsFinal == Spec => AcceptedStays
<1> DEFINE Stays == \A r \in Region : resolved[r] = "good" => resolved'[r] = "good" /\ asks'[r] = asks[r]
<1>1. RunInv /\ Next => Stays
  <2> SUFFICES ASSUME RunInv, Next, NEW r \in Region, resolved[r] = "good"
               PROVE  resolved'[r] = "good" /\ asks'[r] = asks[r]
    OBVIOUS
  <2> USE DEF RunInv, Shapes
  <2>1. r \notin asked
    BY DEF Texted
  <2>2. ASSUME NEW i \in DOMAIN answers, ThreadStep(i) PROVE resolved'[r] = "good" /\ asks'[r] = asks[r]
    <3>1. CASE Start(i)
      <4>1. r \notin answers[i].regions
        BY <2>1, <3>1 DEF Start, Sent
      <4> QED BY <3>1, <4>1 DEF Start
    <3>2. CASE Finish(i) \/ Merge(i)
      BY <3>2 DEF Finish, Merge
    <3> QED BY <2>2, <3>1, <3>2 DEF ThreadStep
  <2>3. CASE Judge
    BY <2>1, <2>3 DEF Judge
  <2>4. CASE Singly
    <3>1. PICK q \in asked, text \in Texts \cup {"none"} :
             /\ asks' = [asks EXCEPT ![q] = @ + 1]
             /\ resolved' = [resolved EXCEPT ![q] =
                                IF Valid(TranslateText(text)) THEN TranslateText(text) ELSE "none"]
      BY <2>4 DEF Singly
    <3> QED BY <2>1, <3>1
  <2>5. CASE SinglyFails
    <3>1. PICK q \in asked : asks' = [asks EXCEPT ![q] = @ + 1]
      BY <2>5 DEF SinglyFails
    <3> QED BY <2>1, <2>5, <3>1 DEF SinglyFails
  <2>6. CASE Fetch \/ FetchFails \/ Post \/ PostFails
    BY <2>6 DEF Fetch, FetchFails, Post, PostFails
  <2> QED BY <2>2, <2>3, <2>4, <2>5, <2>6 DEF Next
<1>2. RunInv /\ [Next]_vars => [Stays]_vars
  BY <1>1
<1> QED BY <1>2, RunInvariant, PTL DEF Spec, AcceptedStays
-----------------------------------------------------------------------------
(***************************************************************************)
(* The types: replies are about targets only, and there are none outside   *)
(* a pool.                                                                 *)
(***************************************************************************)
RepliesKept ==
    /\ pc # "pool" => answers = <<>>
    /\ \A i \in DOMAIN answers : answers[i].reply \in Replies
    /\ mapping \in Replies

(* A pass begins without replies. *)
LEMMA NoReplies ==
    ASSUME NEW p, NEW rs, Submit(p, rs), UNCHANGED kind
    PROVE  RepliesKept'
<1>1. Replies' = Replies /\ All("none") \in Replies
  BY DEF Replies, IsTarget, All
<1>2. /\ mapping' = All("none") /\ pc' = "pool"
      /\ answers' = [i \in DOMAIN Chunks(rs) |-> Chunk(Chunks(rs)[i], "queued", All("none"))]
  BY DEF Submit, Goto
<1>3. \A i \in DOMAIN answers' : answers'[i].reply = All("none")
  BY <1>2 DEF Chunk
<1> QED BY <1>1, <1>2, <1>3 DEF RepliesKept

(* Every step keeps the replies. *)
LEMMA RepliesStep == ASSUME RunInv, RepliesKept, [Next]_vars PROVE RepliesKept'
<1> USE DEF RepliesKept
<1>1. kind' = kind /\ Replies' = Replies /\ All("none") \in Replies
  <2>1. kind' = kind
    BY DEF Next, Fetch, FetchFails, ThreadStep, Start, Finish, Merge, Judge, Singly, SinglyFails, Post,
           PostFails, page, vars
  <2> QED BY <2>1 DEF Replies, IsTarget, All
<1>2. CASE UNCHANGED <<answers, mapping>> /\ pc # "pool" /\ pc' # "pool"
  BY <1>1, <1>2
<1>3. CASE UNCHANGED vars
  BY <1>1, <1>3 DEF vars
<1>4. CASE Fetch /\ Targets # {}
  BY <1>1, <1>4, NoReplies DEF Fetch
<1>5. ASSUME NEW i \in DOMAIN answers, ThreadStep(i) PROVE RepliesKept'
  <2>1. answers \in Seq(Entries) /\ pc = "pool" /\ pc' = "pool"
    BY <1>5 DEF RunInv, Shapes, ThreadStep, Start, Finish, Merge
  <2>2. CASE Start(i)
    <3>1. answers' = [answers EXCEPT ![i].state = "asking"] /\ mapping' = mapping
      BY <2>2 DEF Start
    <3> QED BY <1>1, <2>1, <3>1
  <2>3. CASE Finish(i)
    <3>1. PICK reply \in Replies : answers' = [answers EXCEPT ![i] = Chunk(answers[i].regions, "finished", reply)]
      BY <2>3 DEF Finish
    <3>2. Chunk(answers[i].regions, "finished", reply).reply = reply /\ mapping' = mapping
      BY <2>3 DEF Finish, Chunk
    <3> QED BY <1>1, <2>1, <3>1, <3>2
  <2>4. CASE Merge(i)
    <3>1. /\ answers' = [answers EXCEPT ![i] = Chunk(answers[i].regions, "merged", All("none"))]
          /\ mapping' = [r \in Region |->
                            IF answers[i].reply[r] = "none" THEN mapping[r] ELSE answers[i].reply[r]]
      BY <2>4 DEF Merge
    <3>2. Chunk(answers[i].regions, "merged", All("none")).reply = All("none")
      BY DEF Chunk
    <3>3. mapping' \in Replies
      BY <3>1 DEF Replies
    <3> QED BY <1>1, <2>1, <3>1, <3>2, <3>3
  <2> QED BY <1>5, <2>2, <2>3, <2>4 DEF ThreadStep
<1>6. CASE Judge
  <2>1. CASE Failed # {} /\ pass = 1
    BY <1>1, <1>6, <2>1, NoReplies DEF Judge
  <2>2. CASE ~(Failed # {} /\ pass = 1)
    <3>1. answers' = <<>> /\ mapping' = All("none") /\ pc' \in {"singly", "post"}
      BY <1>6, <2>2 DEF Judge, Goto
    <3> QED BY <1>1, <3>1
  <2> QED BY <2>1, <2>2
<1>7. (Fetch /\ Targets = {}) \/ FetchFails \/ Singly \/ SinglyFails \/ Post \/ PostFails
          => UNCHANGED <<answers, mapping>> /\ pc # "pool" /\ pc' # "pool"
  BY DEF Fetch, FetchFails, Singly, SinglyFails, Post, PostFails, Goto
<1> QED BY <1>2, <1>3, <1>4, <1>5, <1>6, <1>7 DEF Next

(* The type invariant holds: what is being answered are regions that are asked for,
   and only targets of the page get a text. *)
THEOREM TypeCorrect == Spec => []TypeOK
<1>1. Init => RepliesKept
  BY DEF Init, RepliesKept, Replies, All
<1>2. RepliesKept /\ RunInv /\ [Next]_vars => RepliesKept'
  BY RepliesStep
<1>3. RepliesKept /\ RunInv => TypeOK
  <2> SUFFICES ASSUME RepliesKept, RunInv PROVE TypeOK
    OBVIOUS
  <2>1. Shapes
    BY DEF RunInv
  <2>2. \A i \in DOMAIN answers : answers[i].regions \subseteq asked
    BY DEF RunInv, Sent, RepliesKept
  <2>3. \A i \in DOMAIN answers : answers[i].state \in {"queued", "asking", "finished", "merged"}
    <3> SUFFICES ASSUME NEW i \in DOMAIN answers PROVE answers[i] \in Entries
      BY DEF Entries
    <3>1. answers \in Seq(Entries)
      BY <2>1 DEF Shapes
    <3> QED BY <3>1
  <2> QED BY <2>1, <2>2, <2>3 DEF Shapes, RepliesKept, TypeOK
<1> QED BY <1>1, <1>2, <1>3, RunInvariant, PTL DEF Spec
=============================================================================
