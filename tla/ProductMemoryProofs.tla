------------------------- MODULE ProductMemoryProofs -------------------------
(***************************************************************************)
(* Proofs about ProductMemory, for any identities, versions and number of  *)
(* observations, overlapping calls and crashes: which identities a product *)
(* collects, and what it counts.                                           *)
(***************************************************************************)
EXTENDS ProductMemory, FiniteSetTheorems, TLAPS

-----------------------------------------------------------------------------
(* Identities.                                                             *)

\* The quality of an identity is at most 4.
LEMMA QualityRange == \A i : Quality(i) \in 0 .. 4
BY DEF Quality, Points

\* Maker and model are worth as much as a codename, and all three the most.
LEMMA QualityOf ==
  ASSUME NEW i, Specific(i.maker), Specific(i.model)
  PROVE  Quality(i) = IF Specific(i.code) THEN 4 ELSE 2
BY DEF Quality, Points

\* A product that is known for its maker and model only has no codename to lose.
LEMMA WeakHasNoCode ==
  ASSUME NEW i, NEW j, SameModel(i, j), Quality(i) < Quality(j)
  PROVE  ~Specific(i.code)
<1>1. Specific(i.maker) /\ Specific(i.model)
  BY DEF SameModel
<1>2. Quality(i) = IF Specific(i.code) THEN 4 ELSE 2
  BY <1>1, QualityOf
<1>3. QED BY <1>2, QualityRange

\* Sharing a codename, or maker and model, is mutual.
LEMMA SameIsSymmetric ==
  \A i, j : (SameCode(i, j) <=> SameCode(j, i)) /\ (SameModel(i, j) <=> SameModel(j, i))
BY DEF SameCode, SameModel

-----------------------------------------------------------------------------
(* A memory is sound when every product lists itself, shares no identity   *)
(* with another, is the best known of the identities it lists and knows no *)
(* other codename than its own, and related products are equally specific. *)

Lists(p)    == \A k \in DOMAIN p : k \in p[k].aliases
Distinct(p) == \A j, k \in DOMAIN p : j # k => p[j].aliases \cap p[k].aliases = {}
Ranked(p)   == \A k \in DOMAIN p : \A i \in p[k].aliases : i # k => Quality(i) < Quality(k)
Coded(p)    == \A k \in DOMAIN p : \A i \in p[k].aliases : Specific(i.code) => i.code = k.code
Folded(p)   == \A j, k \in DOMAIN p :
                 SameCode(j, k) \/ SameModel(j, k) => Quality(j) = Quality(k)

Sound(p) == Lists(p) /\ Distinct(p) /\ Ranked(p) /\ Coded(p) /\ Folded(p)

\* How an identity is resolved: to the product that lists it, to a better known one, or
\* to a new one that nothing better known fits.
LEMMA ResolvedCases ==
  ASSUME NEW p, NEW shown, NEW key \in Resolved(p, shown), Sound(p)
  PROVE  \/ key \in DOMAIN p /\ shown \in p[key].aliases
         \/ /\ \A k \in DOMAIN p : shown \notin p[k].aliases
            /\ key \in DOMAIN p /\ Compatible(key, shown, shown) /\ Quality(key) > Quality(shown)
         \/ /\ \A k \in DOMAIN p : shown \notin p[k].aliases
            /\ key = shown /\ key \notin DOMAIN p
            /\ \A k \in DOMAIN p : Compatible(k, shown, shown) => Quality(k) <= Quality(shown)
<1> DEFINE named == {k \in DOMAIN p : shown \in p[k].aliases}
           fits  == {k \in DOMAIN p : Compatible(k, shown, shown)}
           best  == {k \in fits : \A j \in fits : Quality(j) <= Quality(k)}
           known == \E k \in best : Quality(k) > Quality(shown)
<1>1. CASE named # {}
  <2>1. key \in named
    BY <1>1 DEF Resolved
  <2>2. QED BY <2>1
<1>2. CASE named = {} /\ known
  <2>1. key \in best
    BY <1>2 DEF Resolved
  <2>2. PICK k \in best : Quality(k) > Quality(shown)
    BY <1>2
  <2>3. Quality(k) <= Quality(key)
    BY <2>1, <2>2
  <2>4. Quality(key) > Quality(shown)
    BY <2>2, <2>3, QualityRange
  <2>5. QED BY <1>2, <2>1, <2>4
<1>3. CASE named = {} /\ ~known
  <2>1. key = shown
    BY <1>3 DEF Resolved
  <2>2. key \notin DOMAIN p
    BY <1>3, <2>1 DEF Sound, Lists
  <2>3. ASSUME NEW k \in fits PROVE \E m \in best : Quality(k) <= Quality(m)
    <3> DEFINE Has(n) == \E m \in fits : Quality(m) = n
    <3>1. \A m \in fits : Quality(m) \in 0 .. 4
      BY QualityRange
    <3>2. ASSUME NEW n \in 0 .. 4, Has(n), \A m \in fits : Quality(m) <= n
          PROVE  \E m \in best : Quality(k) <= Quality(m)
      BY <3>2
    <3>3. CASE Has(4)
      BY <3>1, <3>2, <3>3
    <3>4. CASE ~Has(4) /\ Has(3)
      <4>1. \A m \in fits : Quality(m) <= 3
        BY <3>1, <3>4
      <4>2. QED BY <3>2, <3>4, <4>1
    <3>5. CASE ~Has(4) /\ ~Has(3) /\ Has(2)
      <4>1. \A m \in fits : Quality(m) <= 2
        BY <3>1, <3>5
      <4>2. QED BY <3>2, <3>5, <4>1
    <3>6. CASE ~Has(4) /\ ~Has(3) /\ ~Has(2) /\ Has(1)
      <4>1. \A m \in fits : Quality(m) <= 1
        BY <3>1, <3>6
      <4>2. QED BY <3>2, <3>6, <4>1
    <3>7. CASE ~Has(4) /\ ~Has(3) /\ ~Has(2) /\ ~Has(1)
      <4>1. \A m \in fits : Quality(m) <= 0
        BY <3>1, <3>7
      <4>2. Has(0)
        BY <3>1, <4>1
      <4>3. QED BY <3>2, <4>1, <4>2
    <3>8. QED BY <3>3, <3>4, <3>5, <3>6, <3>7
  <2>4. ASSUME NEW k \in DOMAIN p, Compatible(k, shown, shown)
        PROVE  Quality(k) <= Quality(shown)
    <3>1. PICK m \in best : Quality(k) <= Quality(m)
      BY <2>3, <2>4
    <3>2. ~(Quality(m) > Quality(shown))
      BY <1>3
    <3>3. QED BY <3>1, <3>2, QualityRange
  <2>5. QED BY <1>3, <2>1, <2>2, <2>4
<1>4. QED BY <1>1, <1>2, <1>3

\* What is filed under a product lists the product's codename only.
LEMMA ShownFits ==
  ASSUME NEW p, NEW shown, NEW key \in Resolved(p, shown), Sound(p)
  PROVE  /\ shown # key => Quality(shown) < Quality(key)
         /\ Specific(shown.code) => shown.code = key.code
<1>1. CASE key \in DOMAIN p /\ shown \in p[key].aliases
  BY <1>1 DEF Sound, Ranked, Coded
<1>2. CASE Compatible(key, shown, shown) /\ Quality(key) > Quality(shown)
  <2>1. Quality(shown) < Quality(key)
    BY <1>2, QualityRange
  <2>2. SameCode(key, shown) \/ SameModel(shown, key)
    BY <1>2, SameIsSymmetric DEF Compatible
  <2>3. SameModel(shown, key) => ~Specific(shown.code)
    BY <2>1, WeakHasNoCode
  <2>4. QED BY <2>1, <2>2, <2>3 DEF SameCode
<1>3. CASE key = shown
  BY <1>3
<1>4. QED BY <1>1, <1>2, <1>3, ResolvedCases

Own(p, key)         == IF key \in DOMAIN p THEN p[key].aliases ELSE {}
Gone(p, key, shown) == Weaker(Known(p, key), key, shown)
Taken(p, gone)      == UNION {p[k].aliases : k \in gone}

\* record_observation keeps the memory sound.
LEMMA ObservedSound ==
  ASSUME NEW p, NEW shown, NEW key \in Resolved(p, shown), NEW v, Sound(p)
  PROVE  Sound(Observed(p, key, shown, v))
<1> DEFINE q    == Observed(p, key, shown, v)
           gone == Gone(p, key, shown)
           own  == Own(p, key)
<1> HIDE DEF q, gone
<1>1. /\ gone \subseteq DOMAIN p \ {key}
      /\ DOMAIN q = (DOMAIN p \cup {key}) \ gone
      /\ q[key].aliases = own \cup gone \cup Taken(p, gone) \cup {shown}
      /\ \A k \in DOMAIN q \ {key} : q[k].aliases = p[k].aliases
  <2> DEFINE known  == Known(p, key)
             merged == Absorb(known[key], known, gone)
  <2>1. DOMAIN known = DOMAIN p \cup {key}
    BY DEF Known
  <2>2. \A k \in DOMAIN p : known[k] = p[k]
    BY DEF Known
  <2>3. known[key].aliases = own
    BY DEF Known, NewProduct, Own
  <2>4. gone \subseteq DOMAIN p \ {key}
    BY <2>1 DEF gone, Weaker, Gone
  <2>5. q = [k \in DOMAIN known \ gone |-> IF k = key THEN Count(merged, shown, v) ELSE known[k]]
    BY DEF q, gone, Observed, Gone
  <2> HIDE DEF known, own
  <2>6. DOMAIN q = (DOMAIN p \cup {key}) \ gone /\ key \in DOMAIN q
    BY <2>1, <2>4, <2>5
  <2>7. \A k \in DOMAIN q \ {key} : q[k].aliases = p[k].aliases
    BY <2>1, <2>2, <2>5, <2>6
  <2>8. merged.aliases = known[key].aliases \cup gone \cup UNION {known[k].aliases : k \in gone}
    BY DEF Absorb
  <2>9. UNION {known[k].aliases : k \in gone} = UNION {p[k].aliases : k \in gone}
    BY <2>2, <2>4
  <2>10. Count(merged, shown, v).aliases = merged.aliases \cup {shown}
    BY DEF Count, Absorb
  <2>11. q[key] = Count(merged, shown, v)
    BY <2>1, <2>4, <2>5
  <2> HIDE DEF merged
  <2>12. q[key].aliases = own \cup gone \cup Taken(p, gone) \cup {shown}
    BY <2>3, <2>8, <2>9, <2>10, <2>11 DEF Taken
  <2>13. QED BY <2>4, <2>6, <2>7, <2>12
<1>2. \A k \in gone : Compatible(k, key, shown) /\ Quality(k) < Quality(key)
  BY DEF gone, Gone, Weaker
<1>3. \A k \in DOMAIN p \ {key} : Compatible(k, key, shown) /\ Quality(k) < Quality(key) => k \in gone
  BY DEF gone, Gone, Weaker, Known
<1>4. ASSUME NEW i \in q[key].aliases
      PROVE  \/ key \in DOMAIN p /\ i \in p[key].aliases
             \/ \E k \in gone : i \in p[k].aliases
             \/ i = shown
  BY <1>1, <1>4 DEF Sound, Lists, Own, Taken
<1>5. Lists(q)
  <2> SUFFICES ASSUME NEW k \in DOMAIN q PROVE k \in q[k].aliases
    BY DEF Lists
  <2>1. CASE k # key
    BY <1>1, <2>1 DEF Sound, Lists
  <2>2. CASE k = key /\ key \in DOMAIN p
    BY <1>1, <2>2 DEF Sound, Lists, Own
  <2>3. CASE k = key /\ key \notin DOMAIN p
    <3>1. key = shown
      BY <2>3, ResolvedCases
    <3>2. QED BY <1>1, <2>3, <3>1
  <2>4. QED BY <2>1, <2>2, <2>3
<1>6. Distinct(q)
  <2>1. ASSUME NEW k \in DOMAIN q \ {key}, NEW i \in q[key].aliases PROVE i \notin q[k].aliases
    <3>1. k \in DOMAIN p /\ k \notin gone /\ q[k].aliases = p[k].aliases
      BY <1>1
    <3>2. CASE key \in DOMAIN p /\ i \in p[key].aliases
      BY <3>1, <3>2 DEF Sound, Distinct
    <3>3. CASE \E g \in gone : i \in p[g].aliases
      BY <1>1, <3>1, <3>3 DEF Sound, Distinct
    <3>4. CASE i = shown
      <4>1. CASE key \in DOMAIN p /\ shown \in p[key].aliases
        BY <3>1, <3>4, <4>1 DEF Sound, Distinct
      <4>2. CASE \A m \in DOMAIN p : shown \notin p[m].aliases
        BY <3>1, <3>4, <4>2
      <4>3. QED BY <4>1, <4>2, ResolvedCases
    <3>5. QED BY <1>4, <3>2, <3>3, <3>4
  <2>2. ASSUME NEW j \in DOMAIN q \ {key}, NEW k \in DOMAIN q \ {key}, j # k
        PROVE  q[j].aliases \cap q[k].aliases = {}
    BY <1>1, <2>2 DEF Sound, Distinct
  <2>3. QED BY <2>1, <2>2 DEF Distinct
<1>7. Ranked(q)
  <2> SUFFICES ASSUME NEW k \in DOMAIN q, NEW i \in q[k].aliases, i # k
               PROVE  Quality(i) < Quality(k)
    BY DEF Ranked
  <2>1. CASE k # key
    BY <1>1, <2>1 DEF Sound, Ranked
  <2>2. CASE k = key
    <3>1. CASE key \in DOMAIN p /\ i \in p[key].aliases
      BY <2>2, <3>1 DEF Sound, Ranked
    <3>2. ASSUME NEW g \in gone, i \in p[g].aliases PROVE Quality(i) < Quality(key)
      <4>1. Quality(g) < Quality(key) /\ (i # g => Quality(i) < Quality(g))
        BY <1>1, <1>2, <3>2 DEF Sound, Ranked
      <4>2. QED BY <4>1, QualityRange
    <3>3. CASE i = shown
      BY <2>2, <3>3, ShownFits
    <3>4. QED BY <1>4, <2>2, <3>1, <3>2, <3>3
  <2>3. QED BY <2>1, <2>2
<1>8. Coded(q)
  <2> SUFFICES ASSUME NEW k \in DOMAIN q, NEW i \in q[k].aliases, Specific(i.code)
               PROVE  i.code = k.code
    BY DEF Coded
  <2>1. CASE k # key
    BY <1>1, <2>1 DEF Sound, Coded
  <2>2. CASE k = key
    <3>1. CASE key \in DOMAIN p /\ i \in p[key].aliases
      BY <2>2, <3>1 DEF Sound, Coded
    <3>2. ASSUME NEW g \in gone, i \in p[g].aliases PROVE i.code = key.code
      <4>1. i.code = g.code /\ Specific(g.code)
        BY <1>1, <3>2 DEF Sound, Coded, Specific
      <4>2. SameCode(g, key) \/ SameModel(g, key) \/ SameCode(g, shown)
        BY <1>2 DEF Compatible
      <4>3. ~SameModel(g, key)
        BY <1>2, <4>1, WeakHasNoCode
      <4>4. SameCode(g, shown) => g.code = key.code
        BY ShownFits DEF SameCode
      <4>5. QED BY <4>1, <4>2, <4>3, <4>4 DEF SameCode
    <3>3. CASE i = shown
      BY <2>2, <3>3, ShownFits
    <3>4. QED BY <1>4, <2>2, <3>1, <3>2, <3>3
  <2>3. QED BY <2>1, <2>2
<1>9. Folded(q)
  <2>1. ASSUME NEW k \in DOMAIN q \ {key}, SameCode(k, key) \/ SameModel(k, key)
        PROVE  Quality(k) = Quality(key)
    <3>1. k \in DOMAIN p /\ k \notin gone
      BY <1>1
    <3>2. CASE key \in DOMAIN p
      BY <2>1, <3>1, <3>2 DEF Sound, Folded
    <3>3. CASE key \notin DOMAIN p
      <4>1. key = shown /\ Quality(k) <= Quality(key)
        BY <2>1, <3>1, <3>3, ResolvedCases DEF Compatible
      <4>2. ~(Quality(k) < Quality(key))
        BY <1>3, <2>1, <3>1 DEF Compatible
      <4>3. QED BY <4>1, <4>2, QualityRange
    <3>4. QED BY <3>2, <3>3
  <2>2. ASSUME NEW j \in DOMAIN q \ {key}, NEW k \in DOMAIN q \ {key},
               SameCode(j, k) \/ SameModel(j, k)
        PROVE  Quality(j) = Quality(k)
    BY <1>1, <2>2 DEF Sound, Folded
  <2>3. QED BY <2>1, <2>2, SameIsSymmetric DEF Folded
<1>10. Sound(q)
  BY <1>5, <1>6, <1>7, <1>8, <1>9 DEF Sound
<1>11. QED BY <1>10 DEF q

-----------------------------------------------------------------------------
(* The file.  Whatever calls interleave, a text that parses is one that    *)
(* some call wrote, and what a call writes is sound.                       *)

HoldsSound(f) == f.kind = "whole" => Sound(f.products)

Holds(x) == \/ x = Idle
            \/ /\ x = [pc |-> x.pc, fd |-> x.fd, mem |-> x.mem]
               /\ x.pc # "idle" /\ Sound(x.mem)

Memories ==
  /\ HoldsSound(file) /\ HoldsSound(staging)
  /\ call = [c \in Calls |-> call[c]]
  /\ \A c \in Calls : Holds(call[c])

\* An empty memory is sound.
LEMMA EmptySound == Sound(<<>>)
BY DEF Sound, Lists, Distinct, Ranked, Coded, Folded

\* What a call loads is sound: a torn file counts as empty.
LEMMA LoadedSound == ASSUME Memories PROVE Sound(Loaded)
BY EmptySound DEF Memories, HoldsSound, Loaded

\* What a write leaves is the call's memory or a torn text.
LEMMA TextSound ==
  ASSUME NEW before, NEW mem, Sound(mem), NEW f \in Text(before, mem) PROVE HoldsSound(f)
BY DEF Text, Whole, Torn, HoldsSound

\* An observation is filed into a sound memory.
LEMMA BeginSound == ASSUME Memories, NEW c \in Calls, Begin(c) PROVE Memories'
<1>1. PICK shown \in Identities, v \in Versions :
        \E key \in Resolved(Loaded, shown) :
          call' = [call EXCEPT ![c] = [pc |-> "open", fd |-> "none",
                                       mem |-> Observed(Loaded, key, shown, v)]]
  BY DEF Begin
<1>2. PICK key \in Resolved(Loaded, shown) :
        call' = [call EXCEPT ![c] = [pc |-> "open", fd |-> "none",
                                     mem |-> Observed(Loaded, key, shown, v)]]
  BY <1>1
<1> DEFINE mem == Observed(Loaded, key, shown, v)
<1>3. Sound(mem)
  BY LoadedSound, ObservedSound
<1> HIDE DEF mem
<1>4. call' = [call EXCEPT ![c] = [pc |-> "open", fd |-> "none", mem |-> mem]]
  BY <1>2 DEF mem
<1>5. Holds([pc |-> "open", fd |-> "none", mem |-> mem])
  BY <1>3 DEF Holds
<1>6. call' = [d \in Calls |-> call'[d]] /\ \A d \in Calls : Holds(call[d])'
  BY <1>4, <1>5 DEF Memories, Holds
<1>7. file' = file /\ staging' = staging
  BY DEF Begin
<1>8. QED BY <1>6, <1>7 DEF Memories, HoldsSound

\* A step of a call in progress holds on to what it writes.
LEMMA StillHolds ==
  ASSUME NEW x, Holds(x), x.pc # "idle", NEW pc, pc # "idle"
  PROVE  /\ Holds([x EXCEPT !.pc = pc]) /\ [x EXCEPT !.pc = pc].pc = pc /\ Sound(x.mem)
<1>1. x = [pc |-> x.pc, fd |-> x.fd, mem |-> x.mem] /\ Sound(x.mem)
  BY DEF Holds, Idle
<1>2. PICK a, b, m : x = [pc |-> a, fd |-> b, mem |-> m]
  BY <1>1
<1>3. x.mem = m /\ [x EXCEPT !.pc = pc] = [pc |-> pc, fd |-> b, mem |-> m]
  BY <1>2
<1>4. QED BY <1>1, <1>3 DEF Holds

\* A call keeps its memory when its descriptor moves.
LEMMA StillHoldsFd ==
  ASSUME NEW x, Holds(x), x.pc # "idle", NEW fd
  PROVE  Holds([x EXCEPT !.fd = fd])
<1>1. x = [pc |-> x.pc, fd |-> x.fd, mem |-> x.mem] /\ Sound(x.mem)
  BY DEF Holds, Idle
<1>2. PICK a, b, m : x = [pc |-> a, fd |-> b, mem |-> m]
  BY <1>1
<1>3. x.mem = m /\ x.pc = a /\ [x EXCEPT !.fd = fd] = [pc |-> a, fd |-> fd, mem |-> m]
  BY <1>2
<1>4. QED BY <1>1, <1>3 DEF Holds

\* Emptying the temporary file leaves nothing unsound.
LEMMA OpenSound == ASSUME Memories, NEW c \in Calls, Open(c) PROVE Memories'
<1>1. Holds(call[c]) /\ call[c].pc # "idle"
  BY DEF Memories, Open
<1>2. Holds([call[c] EXCEPT !.pc = "write", !.fd = "staging"])
  <2> DEFINE y == [call[c] EXCEPT !.pc = "write"]
  <2>1. Holds(y) /\ y.pc # "idle"
    BY <1>1, StillHolds
  <2> HIDE DEF y
  <2>2. Holds([y EXCEPT !.fd = "staging"])
    BY <2>1, StillHoldsFd
  <2>3. QED BY <2>2 DEF y
<1>3. call' = [call EXCEPT ![c] = [call[c] EXCEPT !.pc = "write", !.fd = "staging"]]
  BY DEF Memories, Open
<1>4. call' = [d \in Calls |-> call'[d]] /\ \A d \in Calls : Holds(call[d])'
  BY <1>2, <1>3 DEF Memories, Holds
<1>5. file' = file /\ staging' = Torn
  BY DEF Open
<1>6. QED BY <1>4, <1>5 DEF Memories, HoldsSound, Torn

\* Writing puts a sound memory in place, or a torn text.
LEMMA WriteSound == ASSUME Memories, NEW c \in Calls, Write(c) PROVE Memories'
<1>1. Holds(call[c]) /\ call[c].pc # "idle"
  BY DEF Memories, Write
<1>2. Holds([call[c] EXCEPT !.pc = "replace"]) /\ Sound(call[c].mem)
  BY <1>1, StillHolds
<1>3. call' = [call EXCEPT ![c] = [call[c] EXCEPT !.pc = "replace"]]
  BY DEF Memories, Write, Move
<1>4. call' = [d \in Calls |-> call'[d]] /\ \A d \in Calls : Holds(call[d])'
  BY <1>2, <1>3 DEF Memories, Holds
<1>5. HoldsSound(file)' /\ HoldsSound(staging)'
  <2>1. CASE staging' \in Text(staging, call[c].mem) /\ file' = file
    BY <1>2, <2>1, TextSound DEF Memories, HoldsSound
  <2>2. CASE file' \in Text(file, call[c].mem) /\ staging' = staging
    BY <1>2, <2>2, TextSound DEF Memories, HoldsSound
  <2>3. CASE file' = file /\ staging' = staging
    BY <2>3 DEF Memories, HoldsSound
  <2>4. QED BY <2>1, <2>2, <2>3 DEF Write
<1>6. QED BY <1>4, <1>5 DEF Memories

\* The rename moves a sound memory.
LEMMA ReplaceSound == ASSUME Memories, NEW c \in Calls, Replace(c) PROVE Memories'
<1>1. CASE staging = NoFile
  <2>1. call' = [call EXCEPT ![c] = Idle] /\ file' = file /\ staging' = staging
    BY <1>1 DEF Replace
  <2>2. call' = [d \in Calls |-> call'[d]] /\ \A d \in Calls : Holds(call[d])'
    BY <2>1 DEF Memories, Holds
  <2>3. QED BY <2>1, <2>2 DEF Memories, HoldsSound
<1>2. CASE staging # NoFile
  <2>1. /\ file' = staging /\ staging' = NoFile
        /\ call' = [d \in Calls |-> IF d = c \/ call[d].pc = "idle" THEN Idle
                                     ELSE [call[d] EXCEPT !.fd = Renamed(@)]]
    BY <1>2 DEF Replace
  <2>2. ASSUME NEW d \in Calls PROVE Holds(call[d])'
    <3>1. CASE d = c \/ call[d].pc = "idle"
      BY <2>1, <3>1 DEF Holds
    <3>2. CASE d # c /\ call[d].pc # "idle"
      <4>1. Holds([call[d] EXCEPT !.fd = Renamed(call[d].fd)])
        BY <3>2, StillHoldsFd DEF Memories
      <4>2. call'[d] = [call[d] EXCEPT !.fd = Renamed(call[d].fd)]
        BY <2>1, <3>2
      <4>3. QED BY <4>1, <4>2 DEF Holds
    <3>3. QED BY <3>1, <3>2
  <2>3. call' = [d \in Calls |-> call'[d]]
    BY <2>1
  <2>4. HoldsSound(file)' /\ HoldsSound(staging)'
    BY <2>1 DEF Memories, HoldsSound, NoFile
  <2>5. QED BY <2>2, <2>3, <2>4 DEF Memories
<1>3. QED BY <1>1, <1>2

\* Every step keeps all memories sound.
LEMMA MemoriesNext == Memories /\ [Next]_vars => Memories'
<1> SUFFICES ASSUME Memories, [Next]_vars PROVE Memories'
  OBVIOUS
<1>1. CASE UNCHANGED vars
  BY <1>1 DEF vars, Memories, HoldsSound, Holds
<1>2. CASE Crash
  BY <1>2 DEF Crash, Memories, HoldsSound, Holds
<1>3. QED BY <1>1, <1>2, BeginSound, OpenSound, WriteSound, ReplaceSound DEF Next

\* Every memory that is on disk or about to be written is sound (product_memory.py,
\* record_observation), for any overlap of calls and any crashes.
THEOREM SoundInvariant == Spec => []Memories
<1>1. Init => Memories
  BY DEF Init, Memories, HoldsSound, Holds, NoFile
<1>2. QED BY <1>1, MemoriesNext, PTL DEF Spec

\* An identity leads to one product only, whatever was recorded first and whatever was
\* merged since (product_memory.py, _canonical_product_key and _merge_product).
THEOREM ProductTheorem == Spec => []OneProductEach
<1>1. Memories => OneProductEach
  BY LoadedSound DEF OneProductEach, Sound, Lists, Distinct
<1>2. QED BY <1>1, SoundInvariant, PTL

\* No product ever collects two codenames, although maker and model alone are enough to
\* be merged (product_memory.py, _compatible_product_key and _merge_weaker_products).
THEOREM CodenameTheorem == Spec => []OneCodenameEach
<1>1. Memories => OneCodenameEach
  BY LoadedSound DEF OneCodenameEach, Sound, Coded
<1>2. QED BY <1>1, SoundInvariant, PTL

\* Related products on disk are equally specific: every weaker one has been folded into
\* the stronger (README.md: "Weak early identities are folded into stronger later
\* matches"; product_memory.py, _merge_weaker_products).
THEOREM FoldedTheorem == Spec => []WeakOnesAreFolded
<1>1. Memories => WeakOnesAreFolded
  BY LoadedSound DEF WeakOnesAreFolded, Sound, Folded
<1>2. QED BY <1>1, SoundInvariant, PTL

-----------------------------------------------------------------------------
(* Sums.  What a sum over a finite set is follows from the least set for   *)
(* which it would be something else.                                       *)

Pick(s) == CHOOSE x \in s : TRUE

\* g[s] is the sum of f over s, for every subset s of S.
Steps(f, S, g) == g = [s \in SUBSET S |-> IF s = {} THEN 0 ELSE f[Pick(s)] + g[s \ {Pick(s)}]]

\* A nonempty set has the element it picks.
LEMMA Picked == \A s : s # {} => Pick(s) \in s
BY DEF Pick

\* SumFunctionOnSet goes through the set in the order of Pick.
LEMMA TotalIs == ASSUME NEW f, NEW S PROVE SumFunctionOnSet(f, S) = (CHOOSE g : Steps(f, S, g))[S]
BY DEF SumFunctionOnSet, FoldFunctionOnSet, MapThenFoldSet, Steps, Pick

\* Among the subsets of a finite set there are least ones.
LEMMA Least ==
  ASSUME NEW S, IsFiniteSet(S), NEW B, B \subseteq SUBSET S, B # {}
  PROVE  \E m \in B : \A n \in B : n \subseteq m => n = m
<1>1. IsWellFoundedOn(StrictSubsetOrdering(S), SUBSET S)
  BY FS_StrictSubsetOrderingWellFounded, FS_FiniteSubsetsOfFinite
<1>2. PICK m \in B : \A n \in B : ~(<<n, m>> \in StrictSubsetOrdering(S))
  BY <1>1, WFMin
<1>3. QED BY <1>2 DEF StrictSubsetOrdering

\* Two tables of sums agree where both are defined.
LEMMA StepsAgree ==
  ASSUME NEW f, NEW S, IsFiniteSet(S), NEW T, NEW g, NEW h, Steps(f, S, g), Steps(f, T, h), T \subseteq S
  PROVE  h[T] = g[T]
<1> DEFINE B == {s \in SUBSET T : g[s] # h[s]}
<1>1. SUFFICES ASSUME B # {} PROVE FALSE
  BY <1>1
<1>2. IsFiniteSet(T)
  BY FS_Subset
<1>3. PICK m \in B : \A n \in B : n \subseteq m => n = m
  <2>1. B \subseteq SUBSET T
    OBVIOUS
  <2> HIDE DEF B
  <2>2. QED BY <1>1, <1>2, <2>1, Least
<1>4. m # {}
  BY DEF Steps
<1>5. Pick(m) \in m
  BY <1>4, Picked
<1>6. m \ {Pick(m)} \notin B
  BY <1>3, <1>5
<1>7. g[m \ {Pick(m)}] = h[m \ {Pick(m)}]
  BY <1>6
<1>8. g[m] = f[Pick(m)] + g[m \ {Pick(m)}] /\ h[m] = f[Pick(m)] + h[m \ {Pick(m)}]
  BY <1>4 DEF Steps
<1>9. QED BY <1>7, <1>8

\* Every finite set has a table of sums.
LEMMA StepsExist == ASSUME NEW f, NEW S, IsFiniteSet(S) PROVE \E g : Steps(f, S, g)
<1> DEFINE B == {s \in SUBSET S : ~\E g : Steps(f, s, g)}
<1>1. SUFFICES ASSUME B # {} PROVE FALSE
  BY <1>1
<1>2. PICK m \in B : \A n \in B : n \subseteq m => n = m
  <2>1. B \subseteq SUBSET S
    OBVIOUS
  <2> HIDE DEF B
  <2>2. QED BY <1>1, <2>1, Least
<1> DEFINE table(s) == CHOOSE g : Steps(f, s, g)
           whole    == [s \in SUBSET m |-> IF s = {} THEN 0
                                           ELSE f[Pick(s)] + table(s \ {Pick(s)})[s \ {Pick(s)}]]
<1>3. ASSUME NEW s \in SUBSET m, s # m PROVE Steps(f, s, table(s))
  BY <1>2, <1>3
<1>4. ASSUME NEW s \in SUBSET m, s # m PROVE table(s)[s] = whole[s]
  <2>1. Steps(f, s, table(s)) /\ IsFiniteSet(s)
    BY <1>3, <1>4, FS_Subset
  <2>2. CASE s = {}
    BY <2>1, <2>2 DEF Steps
  <2>3. CASE s # {}
    <3> DEFINE t == s \ {Pick(s)}
    <3>1. t \in SUBSET m /\ t # m /\ t \subseteq s
      BY <1>4
    <3>2. Steps(f, t, table(t))
      BY <1>3, <3>1
    <3> HIDE DEF table
    <3>3. table(t)[t] = table(s)[t]
      BY <2>1, <3>1, <3>2, StepsAgree
    <3>4. table(s)[s] = f[Pick(s)] + table(s)[t]
      BY <2>1, <2>3 DEF Steps
    <3>5. QED BY <2>3, <3>3, <3>4
  <2>4. QED BY <2>2, <2>3
<1>5. ASSUME NEW s \in SUBSET m, s # {}
      PROVE  whole[s] = f[Pick(s)] + whole[s \ {Pick(s)}]
  <2>1. Pick(s) \in s
    BY <1>5, Picked
  <2>2. s \ {Pick(s)} \in SUBSET m /\ s \ {Pick(s)} # m
    BY <2>1
  <2>3. table(s \ {Pick(s)})[s \ {Pick(s)}] = whole[s \ {Pick(s)}]
    BY <1>4, <2>2
  <2>4. whole[s] = f[Pick(s)] + table(s \ {Pick(s)})[s \ {Pick(s)}]
    BY <1>5
  <2>5. QED BY <2>3, <2>4
<1>6. whole = [s \in SUBSET m |-> whole[s]] /\ ({} \in SUBSET m => whole[{}] = 0)
  OBVIOUS
<1> HIDE DEF whole
<1>7. Steps(f, m, whole)
  BY <1>5, <1>6 DEF Steps
<1>8. QED BY <1>2, <1>7

\* A sum over nothing.
LEMMA SumEmpty == ASSUME NEW f PROVE SumFunctionOnSet(f, {}) = 0
<1> DEFINE g == CHOOSE g : Steps(f, {}, g)
<1>1. Steps(f, {}, g)
  BY StepsExist, FS_EmptySet
<1> HIDE DEF g
<1>2. g[{}] = 0
  BY <1>1 DEF Steps
<1>3. QED BY <1>2, TotalIs DEF g

\* A sum is its picked element and the sum of the others.
LEMMA SumPick ==
  ASSUME NEW f, NEW S, IsFiniteSet(S), S # {}
  PROVE  SumFunctionOnSet(f, S) = f[Pick(S)] + SumFunctionOnSet(f, S \ {Pick(S)})
<1> DEFINE T == S \ {Pick(S)}
           g == CHOOSE g : Steps(f, S, g)
           h == CHOOSE h : Steps(f, T, h)
<1>1. Steps(f, S, g)
  BY StepsExist
<1>2. IsFiniteSet(T) /\ T \subseteq S
  BY FS_Subset
<1>3. Steps(f, T, h)
  BY <1>2, StepsExist
<1>4. SumFunctionOnSet(f, S) = g[S] /\ SumFunctionOnSet(f, T) = h[T]
  BY TotalIs
<1> HIDE DEF g, h, T
<1>5. h[T] = g[T]
  BY <1>1, <1>2, <1>3, StepsAgree
<1>6. g[S] = f[Pick(S)] + g[T]
  BY <1>1 DEF Steps, T
<1>7. QED BY <1>4, <1>5, <1>6 DEF T

\* A sum of naturals is one.
LEMMA SumNat ==
  ASSUME NEW f, NEW S, IsFiniteSet(S), \A x \in S : f[x] \in Nat
  PROVE  SumFunctionOnSet(f, S) \in Nat
<1> DEFINE B == {s \in SUBSET S : SumFunctionOnSet(f, s) \notin Nat}
<1>1. SUFFICES ASSUME B # {} PROVE FALSE
  BY <1>1
<1>2. PICK m \in B : \A n \in B : n \subseteq m => n = m
  <2>1. B \subseteq SUBSET S
    OBVIOUS
  <2> HIDE DEF B
  <2>2. QED BY <1>1, <2>1, Least
<1>3. m # {}
  BY SumEmpty
<1>4. Pick(m) \in m /\ IsFiniteSet(m)
  BY <1>3, Picked, FS_Subset
<1>5. SumFunctionOnSet(f, m \ {Pick(m)}) \in Nat
  BY <1>2, <1>4
<1>6. SumFunctionOnSet(f, m) = f[Pick(m)] + SumFunctionOnSet(f, m \ {Pick(m)})
  BY <1>3, <1>4, SumPick
<1>7. QED BY <1>4, <1>5, <1>6

\* Any element may be taken first.
LEMMA SumRemove ==
  ASSUME NEW f, NEW S, IsFiniteSet(S), \A x \in S : f[x] \in Nat, NEW x \in S
  PROVE  SumFunctionOnSet(f, S) = f[x] + SumFunctionOnSet(f, S \ {x})
<1> DEFINE B == {s \in SUBSET S : \E y \in s : SumFunctionOnSet(f, s) # f[y] + SumFunctionOnSet(f, s \ {y})}
<1>1. SUFFICES ASSUME B # {} PROVE FALSE
  BY <1>1
<1>2. PICK m \in B : \A n \in B : n \subseteq m => n = m
  <2>1. B \subseteq SUBSET S
    OBVIOUS
  <2> HIDE DEF B
  <2>2. QED BY <1>1, <2>1, Least
<1>3. PICK y \in m : SumFunctionOnSet(f, m) # f[y] + SumFunctionOnSet(f, m \ {y})
  OBVIOUS
<1> DEFINE z == Pick(m)
<1>4. z \in m /\ IsFiniteSet(m)
  BY <1>3, Picked, FS_Subset
<1>5. SumFunctionOnSet(f, m) = f[z] + SumFunctionOnSet(f, m \ {z})
  BY <1>3, <1>4, SumPick
<1> HIDE DEF z
<1>6. y # z
  BY <1>3, <1>5
<1>7. m \ {y} \notin B /\ m \ {z} \notin B
  BY <1>2, <1>3, <1>4
<1>8. m \ {y} \in SUBSET S /\ m \ {z} \in SUBSET S /\ y \in m \ {z} /\ z \in m \ {y}
  BY <1>3, <1>4, <1>6
<1>9. SumFunctionOnSet(f, m \ {z}) = f[y] + SumFunctionOnSet(f, (m \ {z}) \ {y})
  BY <1>7, <1>8
<1>10. SumFunctionOnSet(f, m \ {y}) = f[z] + SumFunctionOnSet(f, (m \ {y}) \ {z})
  BY <1>7, <1>8
<1>11. (m \ {z}) \ {y} = (m \ {y}) \ {z}
  OBVIOUS
<1>12. SumFunctionOnSet(f, (m \ {y}) \ {z}) \in Nat
  <2>1. IsFiniteSet((m \ {y}) \ {z}) /\ (m \ {y}) \ {z} \subseteq S
    BY <1>4, FS_Subset
  <2>2. QED BY <2>1, SumNat
<1>13. f[y] \in Nat /\ f[z] \in Nat
  BY <1>3, <1>4
<1>14. QED BY SMTT(30), <1>3, <1>5, <1>9, <1>10, <1>11, <1>12, <1>13

\* A sum depends on the values over the set only.
LEMMA SumSame ==
  ASSUME NEW f, NEW g, NEW S, IsFiniteSet(S), \A x \in S : f[x] = g[x]
  PROVE  SumFunctionOnSet(f, S) = SumFunctionOnSet(g, S)
<1> DEFINE B == {s \in SUBSET S : SumFunctionOnSet(f, s) # SumFunctionOnSet(g, s)}
<1>1. SUFFICES ASSUME B # {} PROVE FALSE
  BY <1>1
<1>2. PICK m \in B : \A n \in B : n \subseteq m => n = m
  <2>1. B \subseteq SUBSET S
    OBVIOUS
  <2> HIDE DEF B
  <2>2. QED BY <1>1, <2>1, Least
<1>3. m # {}
  BY SumEmpty
<1>4. Pick(m) \in m /\ IsFiniteSet(m)
  BY <1>3, Picked, FS_Subset
<1>5. SumFunctionOnSet(f, m \ {Pick(m)}) = SumFunctionOnSet(g, m \ {Pick(m)})
  BY <1>2, <1>4
<1>6. /\ SumFunctionOnSet(f, m) = f[Pick(m)] + SumFunctionOnSet(f, m \ {Pick(m)})
      /\ SumFunctionOnSet(g, m) = g[Pick(m)] + SumFunctionOnSet(g, m \ {Pick(m)})
  BY <1>3, <1>4, SumPick
<1>7. QED BY <1>4, <1>5, <1>6

\* The sum over two disjoint sets.
LEMMA SumSplit ==
  ASSUME NEW f, NEW S, IsFiniteSet(S), \A x \in S : f[x] \in Nat, NEW T \in SUBSET S
  PROVE  SumFunctionOnSet(f, S) = SumFunctionOnSet(f, T) + SumFunctionOnSet(f, S \ T)
<1> DEFINE B == {s \in SUBSET S : SumFunctionOnSet(f, S) # SumFunctionOnSet(f, s) + SumFunctionOnSet(f, S \ s)}
<1>1. SUFFICES ASSUME B # {} PROVE FALSE
  BY <1>1
<1>2. PICK m \in B : \A n \in B : n \subseteq m => n = m
  <2>1. B \subseteq SUBSET S
    OBVIOUS
  <2> HIDE DEF B
  <2>2. QED BY <1>1, <2>1, Least
<1>3. m # {}
  <2>1. S \ {} = S /\ SumFunctionOnSet(f, S) \in Nat
    BY SumNat
  <2>2. SumFunctionOnSet(f, S) = SumFunctionOnSet(f, {}) + SumFunctionOnSet(f, S \ {})
    BY <2>1, SumEmpty
  <2>3. QED BY <2>2
<1>4. PICK x \in m : TRUE
  BY <1>3
<1> DEFINE n == m \ {x}
           r == S \ n
<1>5. n \notin B /\ n \in SUBSET S
  BY <1>2
<1>6. SumFunctionOnSet(f, S) = SumFunctionOnSet(f, n) + SumFunctionOnSet(f, r)
  BY <1>5
<1>7. IsFiniteSet(m) /\ IsFiniteSet(n) /\ IsFiniteSet(r) /\ IsFiniteSet(S \ m) /\ m \subseteq S
  BY FS_Subset
<1>8. r \ {x} = S \ m /\ x \in r /\ r \subseteq S
  BY <1>4, <1>7
<1>9. SumFunctionOnSet(f, m) = f[x] + SumFunctionOnSet(f, n)
  BY <1>4, <1>7, SumRemove
<1>10. SumFunctionOnSet(f, r) = f[x] + SumFunctionOnSet(f, S \ m)
  <2> HIDE DEF r
  <2>1. SumFunctionOnSet(f, r) = f[x] + SumFunctionOnSet(f, r \ {x})
    BY <1>7, <1>8, SumRemove
  <2>2. QED BY <1>8, <2>1
<1>11. SumFunctionOnSet(f, n) \in Nat /\ SumFunctionOnSet(f, S \ m) \in Nat /\ f[x] \in Nat
  <2>1. n \subseteq S /\ S \ m \subseteq S /\ x \in S
    BY <1>4, <1>7
  <2>2. QED BY <1>7, <2>1, SumNat
<1>12. SumFunctionOnSet(f, S) # SumFunctionOnSet(f, m) + SumFunctionOnSet(f, S \ m)
  OBVIOUS
<1> HIDE DEF n, r
<1>13. QED BY <1>6, <1>9, <1>10, <1>11, <1>12

\* The sum of two functions.
LEMMA SumPlus ==
  ASSUME NEW f, NEW g, NEW h, NEW S, IsFiniteSet(S),
         \A x \in S : f[x] \in Nat /\ g[x] \in Nat /\ h[x] = f[x] + g[x]
  PROVE  SumFunctionOnSet(h, S) = SumFunctionOnSet(f, S) + SumFunctionOnSet(g, S)
<1> DEFINE B == {s \in SUBSET S : SumFunctionOnSet(h, s) # SumFunctionOnSet(f, s) + SumFunctionOnSet(g, s)}
<1>1. SUFFICES ASSUME B # {} PROVE FALSE
  BY <1>1
<1>2. PICK m \in B : \A n \in B : n \subseteq m => n = m
  <2>1. B \subseteq SUBSET S
    OBVIOUS
  <2> HIDE DEF B
  <2>2. QED BY <1>1, <2>1, Least
<1>3. m # {}
  <2>1. SumFunctionOnSet(h, {}) = SumFunctionOnSet(f, {}) + SumFunctionOnSet(g, {})
    BY SumEmpty
  <2>2. QED BY <2>1
<1> DEFINE x == Pick(m)
           n == m \ {x}
<1>4. x \in m /\ IsFiniteSet(m)
  BY <1>3, Picked, FS_Subset
<1>5. SumFunctionOnSet(h, n) = SumFunctionOnSet(f, n) + SumFunctionOnSet(g, n)
  BY <1>2, <1>4
<1>6. /\ SumFunctionOnSet(f, m) = f[x] + SumFunctionOnSet(f, n)
      /\ SumFunctionOnSet(g, m) = g[x] + SumFunctionOnSet(g, n)
      /\ SumFunctionOnSet(h, m) = h[x] + SumFunctionOnSet(h, n)
  BY <1>3, <1>4, SumPick
<1>7. SumFunctionOnSet(f, n) \in Nat /\ SumFunctionOnSet(g, n) \in Nat
  <2>1. IsFiniteSet(n) /\ n \subseteq S
    BY <1>4, FS_Subset
  <2>2. QED BY <2>1, SumNat
<1>8. f[x] \in Nat /\ g[x] \in Nat /\ h[x] = f[x] + g[x]
  BY <1>4
<1> HIDE DEF x, n
<1>9. QED BY <1>5, <1>6, <1>7, <1>8

\* A sum of zeros.
LEMMA SumZero ==
  ASSUME NEW f, NEW S, IsFiniteSet(S), \A x \in S : f[x] = 0 PROVE SumFunctionOnSet(f, S) = 0
<1> DEFINE n == SumFunctionOnSet(f, S)
<1>1. \A x \in S : f[x] \in Nat /\ f[x] = f[x] + f[x]
  OBVIOUS
<1>2. n = n + n
  BY <1>1, SumPlus
<1>3. n \in Nat
  BY <1>1, SumNat
<1> HIDE DEF n
<1>4. \A k \in Nat : k = k + k => k = 0
  OBVIOUS
<1>5. n = 0
  BY <1>2, <1>3, <1>4
<1>6. QED BY <1>5 DEF n

\* A sum of sums may be taken in either order.
LEMMA SumSwap ==
  ASSUME NEW f, NEW h, NEW S, IsFiniteSet(S), NEW V, IsFiniteSet(V),
         \A x \in S, v \in V : f[x][v] \in Nat /\ h[v][x] = f[x][v],
         NEW a, \A v \in V : a[v] = SumFunctionOnSet(h[v], S),
         NEW b, \A x \in S : b[x] = SumFunctionOnSet(f[x], V)
  PROVE  SumFunctionOnSet(a, V) = SumFunctionOnSet(b, S)
<1> DEFINE row(s) == [v \in V |-> SumFunctionOnSet(h[v], s)]
           B      == {s \in SUBSET S : SumFunctionOnSet(row(s), V) # SumFunctionOnSet(b, s)}
<1>1. SUFFICES ASSUME B # {} PROVE FALSE
  <2>1. SumFunctionOnSet(row(S), V) = SumFunctionOnSet(b, S)
    BY <1>1
  <2>2. \A v \in V : a[v] = row(S)[v]
    OBVIOUS
  <2> HIDE DEF row
  <2>3. QED BY <2>1, <2>2, SumSame
<1>2. PICK m \in B : \A n \in B : n \subseteq m => n = m
  <2>1. B \subseteq SUBSET S
    OBVIOUS
  <2> HIDE DEF B
  <2>2. QED BY <1>1, <2>1, Least
<1>3. SumFunctionOnSet(row(m), V) # SumFunctionOnSet(b, m) /\ m \subseteq S
  OBVIOUS
<1>4. m # {}
  <2> DEFINE r == row({})
  <2>1. \A v \in V : r[v] = 0
    BY SumEmpty
  <2> HIDE DEF r
  <2>2. SumFunctionOnSet(r, V) = 0
    BY <2>1, SumZero
  <2>3. SumFunctionOnSet(b, {}) = 0
    BY SumEmpty
  <2>4. QED BY <1>3, <2>2, <2>3 DEF r
<1>5. PICK x \in m : TRUE
  BY <1>4
<1> DEFINE n == m \ {x}
<1>6. IsFiniteSet(m) /\ IsFiniteSet(n) /\ n \subseteq S /\ x \in S
  BY <1>3, <1>5, FS_Subset
<1>7. SumFunctionOnSet(row(n), V) = SumFunctionOnSet(b, n)
  <2>1. n \notin B
    BY <1>2, <1>5
  <2>2. QED BY <1>6, <2>1
<1>8. ASSUME NEW v \in V
      PROVE  row(m)[v] = f[x][v] + row(n)[v] /\ f[x][v] \in Nat /\ row(n)[v] \in Nat
  <2>1. \A y \in S : h[v][y] \in Nat
    OBVIOUS
  <2>2. SumFunctionOnSet(h[v], m) = h[v][x] + SumFunctionOnSet(h[v], n)
    BY SMTT(30), <1>3, <1>6, <2>1, SumRemove
  <2>3. SumFunctionOnSet(h[v], n) \in Nat
    BY <1>6, <2>1, SumNat
  <2>4. QED BY <1>6, <2>2, <2>3
<1>9. SumFunctionOnSet(row(m), V) = SumFunctionOnSet(f[x], V) + SumFunctionOnSet(row(n), V)
  <2> DEFINE rm == row(m)
             rn == row(n)
             fx == f[x]
  <2>1. \A v \in V : fx[v] \in Nat /\ rn[v] \in Nat /\ rm[v] = fx[v] + rn[v]
    BY <1>8
  <2> HIDE DEF rm, rn, fx
  <2>2. SumFunctionOnSet(rm, V) = SumFunctionOnSet(fx, V) + SumFunctionOnSet(rn, V)
    BY <2>1, SumPlus
  <2>3. QED BY <2>2 DEF rm, rn, fx
<1>10. SumFunctionOnSet(b, m) = SumFunctionOnSet(f[x], V) + SumFunctionOnSet(b, n)
  <2>1. \A y \in S : b[y] \in Nat
    BY SumNat
  <2>2. QED BY <1>3, <1>5, <1>6, <2>1, SumRemove
<1> HIDE DEF row, n
<1>11. QED BY <1>3, <1>7, <1>9, <1>10

-----------------------------------------------------------------------------
(* Counts.  What a product counts is what its versions count, and filing   *)
(* an observation adds one to the whole memory.                            *)

Size(p) == Observations(p, DOMAIN p)

Counted(p) == /\ IsMemory(p) /\ IsFiniteSet(DOMAIN p)
              /\ \A k \in DOMAIN p : p[k].observations = SumFunction(p[k].versions)

\* The sums of the model are over the domains of its functions.
LEMMA SumsAre ==
  /\ \A p, S : Observations(p, S) = SumFunctionOnSet([k \in S |-> p[k].observations], S)
  /\ \A p, S, v : OfVersion(p, S, v) = SumFunctionOnSet([k \in S |-> p[k].versions[v]], S)
  /\ \A r \in Product : SumFunction(r.versions) = SumFunctionOnSet(r.versions, Versions)
BY DEF Observations, OfVersion, SumFunction, Product

\* A part of a memory counts a natural number.
LEMMA ObservationsNat ==
  ASSUME NEW p, Counted(p), NEW S \in SUBSET DOMAIN p
  PROVE  IsFiniteSet(S) /\ Observations(p, S) \in Nat
<1>1. IsFiniteSet(S)
  BY FS_Subset DEF Counted
<1> DEFINE f == [k \in S |-> p[k].observations]
<1>2. \A k \in S : f[k] \in Nat
  BY DEF Counted, IsMemory, Product
<1> HIDE DEF f
<1>3. SumFunctionOnSet(f, S) \in Nat
  BY <1>1, <1>2, SumNat
<1>4. QED BY <1>1, <1>3, SumsAre DEF f

\* An empty memory counts nothing.
LEMMA EmptyCounted == Counted(<<>>) /\ Size(<<>>) = 0
<1>1. DOMAIN <<>> = {}
  OBVIOUS
<1>2. Counted(<<>>)
  BY <1>1, FS_EmptySet DEF Counted, IsMemory
<1>3. Size(<<>>) = SumFunctionOnSet([k \in {} |-> <<>>[k].observations], {})
  BY <1>1, SumsAre DEF Size
<1>4. QED BY <1>2, <1>3, SumEmpty

\* A new product counts nothing.
LEMMA NewCounted == NewProduct \in Product /\ NewProduct.observations = SumFunction(NewProduct.versions)
<1>1. NewProduct \in Product
  BY DEF NewProduct, Product
<1> DEFINE zero == NewProduct.versions
<1>2. \A v \in Versions : zero[v] = 0
  BY DEF NewProduct
<1> HIDE DEF zero
<1>3. SumFunctionOnSet(zero, Versions) = 0
  BY <1>2, SumZero, VersionsAssumption
<1>4. QED BY <1>1, <1>3, SumsAre DEF zero, NewProduct

\* The memory in which the product is sure to be there counts the same.
LEMMA KnownCounted ==
  ASSUME NEW p, Counted(p), NEW key \in Identities
  PROVE  /\ Counted(Known(p, key)) /\ Size(Known(p, key)) = Size(p)
         /\ DOMAIN Known(p, key) = DOMAIN p \cup {key}
<1> DEFINE q == Known(p, key)
           f == [k \in DOMAIN p |-> p[k].observations]
           g == [k \in DOMAIN q |-> q[k].observations]
<1>1. DOMAIN q = DOMAIN p \cup {key} /\ \A k \in DOMAIN p : q[k] = p[k]
  BY DEF Known
<1>2. key \notin DOMAIN p => q[key] = NewProduct
  BY DEF Known
<1>3. IsFiniteSet(DOMAIN q)
  BY <1>1, FS_AddElement DEF Counted
<1> HIDE DEF q
<1>4. Counted(q)
  <2>1. ASSUME NEW k \in DOMAIN q
        PROVE  q[k] \in Product /\ q[k].observations = SumFunction(q[k].versions)
    <3>1. CASE k \in DOMAIN p
      BY <1>1, <3>1 DEF Counted, IsMemory
    <3>2. CASE k \notin DOMAIN p
      BY <1>1, <1>2, <3>2, NewCounted
    <3>3. QED BY <3>1, <3>2
  <2>2. QED BY <1>1, <1>3, <2>1 DEF Counted, IsMemory
<1>5. \A k \in DOMAIN q : g[k] \in Nat
  BY <1>4 DEF Counted, IsMemory, Product
<1>6. \A k \in DOMAIN p : g[k] = f[k]
  BY <1>1
<1>7. key \notin DOMAIN p => g[key] = 0
  BY <1>1, <1>2 DEF NewProduct
<1>8. Size(p) = SumFunctionOnSet(f, DOMAIN p) /\ Size(q) = SumFunctionOnSet(g, DOMAIN q)
  BY SumsAre DEF Size
<1>9. Size(p) \in Nat
  BY ObservationsNat DEF Size
<1> HIDE DEF f, g
<1>10. SumFunctionOnSet(g, DOMAIN p) = SumFunctionOnSet(f, DOMAIN p)
  BY <1>6, SumSame DEF Counted
<1>11. CASE key \in DOMAIN p
  <2>1. DOMAIN q = DOMAIN p
    BY <1>1, <1>11
  <2>2. QED BY <1>1, <1>4, <1>8, <1>10, <2>1 DEF q
<1>12. CASE key \notin DOMAIN p
  <2>1. DOMAIN q \ {key} = DOMAIN p /\ key \in DOMAIN q
    BY <1>1, <1>12
  <2>2. SumFunctionOnSet(g, DOMAIN q) = g[key] + SumFunctionOnSet(g, DOMAIN q \ {key})
    BY <1>3, <1>5, <2>1, SumRemove
  <2>3. Size(q) = Size(p)
    BY <1>7, <1>8, <1>9, <1>10, <1>12, <2>1, <2>2
  <2>4. QED BY <1>1, <1>4, <2>3 DEF q
<1>13. QED BY <1>11, <1>12

\* Merging adds up the products, and their versions alike.
LEMMA AbsorbCounted ==
  ASSUME NEW p, Counted(p), NEW key \in DOMAIN p, NEW gone \in SUBSET DOMAIN p
  PROVE  /\ Absorb(p[key], p, gone) \in Product
         /\ Absorb(p[key], p, gone).observations = SumFunction(Absorb(p[key], p, gone).versions)
         /\ Absorb(p[key], p, gone).observations = p[key].observations + Observations(p, gone)
<1> DEFINE r     == Absorb(p[key], p, gone)
           own   == p[key].versions
           of    == [k \in gone |-> p[k].versions]
           taken == [v \in Versions |-> OfVersion(p, gone, v)]
<1>1. /\ r = [observations |-> p[key].observations + Observations(p, gone), aliases |-> r.aliases,
              versions     |-> [v \in Versions |-> own[v] + taken[v]]]
      /\ r.aliases = p[key].aliases \cup gone \cup UNION {p[k].aliases : k \in gone}
  BY DEF Absorb
<1>2. /\ \A k \in DOMAIN p : /\ p[k] \in Product /\ p[k].observations = SumFunctionOnSet(p[k].versions, Versions)
                             /\ p[k].versions \in [Versions -> Nat] /\ p[k].observations \in Nat
      /\ DOMAIN p \subseteq Identities
  <2>1. \A k \in DOMAIN p : p[k] \in Product /\ p[k].observations = SumFunction(p[k].versions)
    BY DEF Counted, IsMemory
  <2>2. \A k \in DOMAIN p : p[k].versions \in [Versions -> Nat] /\ p[k].observations \in Nat
    BY <2>1 DEF Product
  <2>3. QED BY <2>1, <2>2, SumsAre DEF Counted, IsMemory
<1>3. IsFiniteSet(gone) /\ Observations(p, gone) \in Nat
  BY ObservationsNat
<1>4. \A k \in gone, v \in Versions : of[k][v] \in Nat
  BY <1>2
<1>5. ASSUME NEW v \in Versions PROVE taken[v] \in Nat
  <2> DEFINE f == [k \in gone |-> p[k].versions[v]]
  <2>1. \A k \in gone : f[k] \in Nat
    BY <1>4
  <2>2. taken[v] = SumFunctionOnSet(f, gone)
    BY SumsAre
  <2> HIDE DEF f, taken
  <2>3. QED BY <1>3, <2>1, <2>2, SumNat
<1>6. SumFunctionOnSet(taken, Versions) = Observations(p, gone)
  <2> DEFINE each == [k \in gone |-> p[k].observations]
             by   == [v \in Versions |-> [k \in gone |-> p[k].versions[v]]]
  <2>1. SumFunctionOnSet(each, gone) = Observations(p, gone)
    BY SumsAre
  <2>2. \A k \in gone : each[k] = SumFunctionOnSet(of[k], Versions)
    BY <1>2
  <2>3. \A v \in Versions : taken[v] = SumFunctionOnSet(by[v], gone)
    BY SumsAre
  <2>4. \A k \in gone, v \in Versions : of[k][v] \in Nat /\ by[v][k] = of[k][v]
    BY <1>4
  <2> HIDE DEF of, taken, each, by
  <2>5. SumFunctionOnSet(taken, Versions) = SumFunctionOnSet(each, gone)
    BY SMTT(30), <1>3, <2>2, <2>3, <2>4, SumSwap, VersionsAssumption
  <2>6. QED BY <2>1, <2>5
<1>7. own \in [Versions -> Nat] /\ p[key].observations \in Nat /\ p[key].observations = SumFunctionOnSet(own, Versions)
  BY <1>2
<1> DEFINE all == [v \in Versions |-> own[v] + taken[v]]
<1>8. \A v \in Versions : own[v] \in Nat /\ taken[v] \in Nat /\ all[v] = own[v] + taken[v]
  <2> HIDE DEF taken, own
  <2>1. QED BY <1>5, <1>7
<1>9. r.versions = all /\ r.observations = p[key].observations + Observations(p, gone)
  BY <1>1
<1>10. all \in [Versions -> Nat]
  <2> HIDE DEF taken, own
  <2>1. QED BY <1>8
<1>11. SumFunctionOnSet(all, Versions) = r.observations
  <2> HIDE DEF taken, own, all, r
  <2>1. SumFunctionOnSet(all, Versions) = SumFunctionOnSet(own, Versions) + SumFunctionOnSet(taken, Versions)
    BY <1>8, SumPlus, VersionsAssumption
  <2>2. QED BY <1>6, <1>7, <1>9, <2>1
<1>12. r.aliases \subseteq Identities
  <2>1. \A k \in DOMAIN p : p[k].aliases \subseteq Identities
    BY <1>2 DEF Product
  <2>2. QED BY <1>1, <1>2, <2>1
<1>13. r \in Product
  <2>1. r = [observations |-> r.observations, aliases |-> r.aliases, versions |-> all]
    BY <1>1, <1>9
  <2>2. r.observations \in Nat
    BY <1>3, <1>7, <1>9
  <2> HIDE DEF r, all
  <2>3. QED BY <1>10, <1>12, <2>1, <2>2 DEF Product
<1> HIDE DEF r, all
<1>14. r.observations = SumFunction(r.versions)
  BY <1>9, <1>11, <1>13, SumsAre
<1>15. QED BY <1>9, <1>13, <1>14 DEF r

\* An observation counts once in the product and once in its version.
LEMMA CountCounted ==
  ASSUME NEW r \in Product, r.observations = SumFunction(r.versions), NEW shown \in Identities, NEW v \in Versions
  PROVE  /\ Count(r, shown, v) \in Product
         /\ Count(r, shown, v).observations = SumFunction(Count(r, shown, v).versions)
         /\ Count(r, shown, v).observations = r.observations + 1
<1> DEFINE s == Count(r, shown, v)
           f == r.versions
           g == [f EXCEPT ![v] = @ + 1]
<1>1. r.observations \in Nat /\ f \in [Versions -> Nat] /\ r.aliases \subseteq Identities
  BY DEF Product
<1>2. s = [observations |-> r.observations + 1, aliases |-> r.aliases \cup {shown}, versions |-> g]
  BY DEF Count
<1>3. g \in [Versions -> Nat] /\ g[v] = f[v] + 1 /\ \A w \in Versions \ {v} : g[w] = f[w]
  BY <1>1
<1>4. s \in Product
  BY <1>1, <1>2, <1>3 DEF Product
<1> HIDE DEF f, g, s
<1>5. SumFunctionOnSet(f, Versions) = f[v] + SumFunctionOnSet(f, Versions \ {v})
  BY <1>1, SumRemove, VersionsAssumption
<1>6. SumFunctionOnSet(g, Versions) = g[v] + SumFunctionOnSet(g, Versions \ {v})
  BY <1>3, SumRemove, VersionsAssumption
<1>7. IsFiniteSet(Versions \ {v})
  BY FS_Subset, VersionsAssumption
<1>8. SumFunctionOnSet(f, Versions \ {v}) = SumFunctionOnSet(g, Versions \ {v})
  BY <1>3, <1>7, SumSame
<1>9. SumFunctionOnSet(f, Versions \ {v}) \in Nat /\ f[v] \in Nat
  BY <1>1, <1>7, SumNat
<1>10. SumFunctionOnSet(g, Versions) = SumFunctionOnSet(f, Versions) + 1
  BY <1>3, <1>5, <1>6, <1>8, <1>9
<1>11. SumFunctionOnSet(f, Versions) = r.observations
  BY SumsAre DEF f
<1>12. s.versions = g /\ s.observations = r.observations + 1
  BY <1>2
<1>13. s.observations = SumFunction(s.versions)
  BY <1>4, <1>10, <1>11, <1>12, SumsAre
<1>14. QED BY <1>4, <1>12, <1>13 DEF s

\* Filing an observation adds one to the memory, whatever is merged on the way.
LEMMA ObservedCounted ==
  ASSUME NEW p, Counted(p), NEW shown \in Identities, NEW v \in Versions, NEW key \in Identities
  PROVE  Counted(Observed(p, key, shown, v)) /\ Size(Observed(p, key, shown, v)) = Size(p) + 1
<1> DEFINE known  == Known(p, key)
           gone   == Weaker(known, key, shown)
           merged == Absorb(known[key], known, gone)
           new    == Count(merged, shown, v)
           q      == Observed(p, key, shown, v)
           rest   == DOMAIN known \ gone
<1>1. Counted(known) /\ Size(known) = Size(p) /\ key \in DOMAIN known /\ DOMAIN known \subseteq Identities
  <2>1. Counted(known) /\ Size(known) = Size(p) /\ DOMAIN known = DOMAIN p \cup {key}
    BY KnownCounted
  <2> HIDE DEF known
  <2>2. QED BY <2>1 DEF Counted, IsMemory
<1>2. q = [k \in rest |-> IF k = key THEN new ELSE known[k]]
  BY DEF Observed
<1> HIDE DEF q, known
<1>3. gone \in SUBSET DOMAIN known /\ key \notin gone
  BY DEF Weaker
<1> HIDE DEF gone
<1>4. merged \in Product /\ merged.observations = SumFunction(merged.versions)
      /\ merged.observations = known[key].observations + Observations(known, gone)
  BY <1>1, <1>3, AbsorbCounted
<1> HIDE DEF merged
<1>5. new \in Product /\ new.observations = SumFunction(new.versions) /\ new.observations = merged.observations + 1
  BY <1>4, CountCounted
<1> HIDE DEF new
<1>6. DOMAIN q = rest /\ key \in rest /\ q[key] = new /\ \A k \in rest \ {key} : q[k] = known[k]
  BY <1>1, <1>2, <1>3
<1>7. IsFiniteSet(rest) /\ IsFiniteSet(rest \ {key})
  BY <1>1, FS_Subset DEF Counted
<1>8. Counted(q)
  <2>1. ASSUME NEW k \in DOMAIN q
        PROVE  q[k] \in Product /\ q[k].observations = SumFunction(q[k].versions)
    <3>1. CASE k = key
      BY <1>5, <1>6, <3>1
    <3>2. CASE k # key
      BY <1>1, <1>6, <3>2 DEF Counted, IsMemory
    <3>3. QED BY <3>1, <3>2
  <2>2. QED BY <1>1, <1>6, <1>7, <2>1 DEF Counted, IsMemory
<1> DEFINE f == [k \in DOMAIN known |-> known[k].observations]
           g == [k \in rest |-> q[k].observations]
           h == [k \in gone |-> known[k].observations]
<1>9. /\ \A k \in DOMAIN known : f[k] \in Nat
      /\ f[key] = known[key].observations
      /\ \A k \in gone : f[k] = h[k]
  BY <1>1, <1>3 DEF Counted, IsMemory, Product
<1>10. /\ \A k \in rest : g[k] \in Nat
       /\ g[key] = new.observations
       /\ \A k \in rest \ {key} : g[k] = f[k]
  BY <1>1, <1>6, <1>8 DEF Counted, IsMemory, Product
<1>11. /\ Size(known) = SumFunctionOnSet(f, DOMAIN known)
       /\ Size(q) = SumFunctionOnSet(g, rest)
       /\ Observations(known, gone) = SumFunctionOnSet(h, gone)
  BY <1>6, SumsAre DEF Size
<1> HIDE DEF f, g, h
<1>12. IsFiniteSet(gone) /\ SumFunctionOnSet(f, gone) = SumFunctionOnSet(h, gone)
  <2>1. IsFiniteSet(gone)
    BY <1>1, <1>3, FS_Subset DEF Counted
  <2>2. QED BY <1>9, <2>1, SumSame
<1>13. SumFunctionOnSet(f, DOMAIN known) = SumFunctionOnSet(f, gone) + SumFunctionOnSet(f, rest)
  BY <1>1, <1>3, <1>9, SumSplit DEF Counted
<1>14. SumFunctionOnSet(f, rest) = f[key] + SumFunctionOnSet(f, rest \ {key})
  <2>1. \A k \in rest : f[k] \in Nat
    BY <1>9
  <2>2. QED BY <1>6, <1>7, <2>1, SumRemove
<1>15. SumFunctionOnSet(g, rest) = g[key] + SumFunctionOnSet(g, rest \ {key})
  BY <1>6, <1>7, <1>10, SumRemove
<1>16. SumFunctionOnSet(g, rest \ {key}) = SumFunctionOnSet(f, rest \ {key})
  BY <1>7, <1>10, SumSame
<1>17. SumFunctionOnSet(f, rest \ {key}) \in Nat /\ SumFunctionOnSet(f, gone) \in Nat /\ f[key] \in Nat
  <2>1. \A k \in rest \ {key} : f[k] \in Nat
    BY <1>9
  <2>2. \A k \in gone : f[k] \in Nat
    BY <1>3, <1>9
  <2> HIDE DEF rest
  <2>3. QED BY <1>1, <1>7, <1>9, <1>12, <2>1, <2>2, SumNat
<1> HIDE DEF rest
<1>18. Size(q) = Size(p) + 1
  BY <1>1, <1>4, <1>5, <1>9, <1>10, <1>11, <1>12, <1>13, <1>14, <1>15, <1>16, <1>17
<1>19. QED BY <1>8, <1>18 DEF q

-----------------------------------------------------------------------------
(* Accounts.  A memory that is about to be written counts one observation  *)
(* more than were written when it was loaded; once another call has        *)
(* renamed the file under its descriptor, that one has been counted too.   *)
(* As long as no two calls overlap the counts are exact.                   *)

FileCounts(f, n) == \/ f \in {NoFile, Torn}
                    \/ f = Whole(f.products) /\ Counted(f.products) /\ Size(f.products) <= n

CallCounts(x, n) == \/ x = Idle
                    \/ /\ x.pc \in {"open", "write", "replace"}
                       /\ x.fd \in {"none", "staging", "file", "gone"}
                       /\ Counted(x.mem)
                       /\ Size(x.mem) <= IF x.fd \in {"none", "staging"} THEN n + 1 ELSE n

Entries == /\ FileCounts(file, recorded) /\ FileCounts(staging, recorded + 1)
           /\ \A c \in Calls : CallCounts(call[c], recorded)

Numbers == /\ begun \in 0 .. MaxRecords /\ recorded \in Nat
           /\ overlapped \in BOOLEAN /\ crashed \in 0 .. MaxCrashes
           /\ IsFiniteSet(InFlight) /\ recorded + Cardinality(InFlight) <= begun

Exact ==
  ~overlapped =>
    /\ \A c, d \in InFlight : c = d
    /\ file # Torn /\ Size(Loaded) = recorded
    /\ \A c \in InFlight : /\ Size(call[c].mem) = recorded + 1
                           /\ call[c].pc = "write" => call[c].fd = "staging" /\ staging = Torn
                           /\ call[c].pc = "replace" => staging = Whole(call[c].mem)

Accounts == Entries /\ Numbers /\ Exact

\* A memory counts a natural number.
LEMMA SizeNat == ASSUME NEW p, Counted(p) PROVE Size(p) \in Nat
BY ObservationsNat DEF Size

\* What is within the count stays so when the count grows.
LEMMA CountsGrow ==
  ASSUME NEW n \in Nat
  PROVE  /\ \A f : FileCounts(f, n) => FileCounts(f, n + 1)
         /\ \A x : CallCounts(x, n) => CallCounts(x, n + 1)
<1>1. ASSUME NEW f, FileCounts(f, n) PROVE FileCounts(f, n + 1)
  BY <1>1, SizeNat DEF FileCounts
<1>2. ASSUME NEW x, CallCounts(x, n) PROVE CallCounts(x, n + 1)
  BY <1>2, SizeNat DEF CallCounts
<1>3. QED BY <1>1, <1>2

\* What a call loads counts at most what was written.
LEMMA LoadedCounted ==
  ASSUME Entries, recorded \in Nat PROVE Counted(Loaded) /\ Size(Loaded) \in Nat /\ Size(Loaded) <= recorded
<1>1. CASE file \in {NoFile, Torn}
  <2>1. Loaded = <<>>
    BY <1>1 DEF Loaded, NoFile, Torn
  <2>2. QED BY <2>1, EmptyCounted
<1>2. CASE file = Whole(file.products) /\ Counted(file.products) /\ Size(file.products) <= recorded
  <2>1. Loaded = file.products
    BY <1>2 DEF Loaded, Whole
  <2>2. QED BY <1>2, <2>1, SizeNat
<1>3. QED BY <1>1, <1>2 DEF Entries, FileCounts

\* An observation is filed under the identity shown or one that is known.
LEMMA ResolvedKnown == ASSUME NEW p, NEW shown PROVE Resolved(p, shown) \subseteq DOMAIN p \cup {shown}
BY DEF Resolved

\* A call at work is in flight and has a memory.
LEMMA AtWork ==
  ASSUME Entries, NEW c \in Calls, call[c].pc # "idle"
  PROVE  /\ c \in InFlight /\ call[c].pc \in {"open", "write", "replace"}
         /\ Counted(call[c].mem) /\ Size(call[c].mem) \in Nat
         /\ call[c].fd \in {"none", "staging", "file", "gone"}
         /\ Size(call[c].mem) <= IF call[c].fd \in {"none", "staging"} THEN recorded + 1 ELSE recorded
<1>1. call[c] # Idle
  BY DEF Idle
<1>2. QED BY <1>1, SizeNat DEF Entries, CallCounts, InFlight

\* A step that changes call c only, and leaves it at work, leaves all in flight.
LEMMA SameInFlight ==
  ASSUME NEW c \in InFlight, call'[c].pc # "idle", \A d \in Calls \ {c} : call'[d] = call[d]
  PROVE  InFlight' = InFlight
BY DEF InFlight

\* Opening the file changes neither what is known nor how many calls are at work.
LEMMA OpenAccounts == ASSUME Memories, Accounts, NEW c \in Calls, Open(c) PROVE Accounts'
<1>1. call[c].pc = "open" /\ staging' = Torn /\ UNCHANGED <<file, begun, recorded, overlapped, crashed>>
  BY DEF Open
<1>2. /\ call'[c].pc = "write" /\ call'[c].fd = "staging" /\ call'[c].mem = call[c].mem
      /\ \A d \in Calls \ {c} : call'[d] = call[d]
  <2>1. call[c] = [pc |-> call[c].pc, fd |-> call[c].fd, mem |-> call[c].mem]
    BY <1>1 DEF Memories, Holds, Idle
  <2>2. call' = [call EXCEPT ![c] = [call[c] EXCEPT !.pc = "write", !.fd = "staging"]]
    BY DEF Memories, Open
  <2>3. call'[c] = [call[c] EXCEPT !.pc = "write", !.fd = "staging"]
    BY <2>2 DEF Memories
  <2>4. call'[c].pc = "write" /\ call'[c].fd = "staging" /\ call'[c].mem = call[c].mem
    BY <2>1, <2>3
  <2>5. QED BY <2>2, <2>4 DEF Memories
<1>3. /\ c \in InFlight /\ Counted(call[c].mem) /\ Size(call[c].mem) \in Nat
      /\ Size(call[c].mem) <= recorded + 1
  BY <1>1, AtWork DEF Accounts, Numbers
<1>4. InFlight' = InFlight
  BY <1>2, <1>3, SameInFlight
<1>5. Entries'
  <2>1. CallCounts(call'[c], recorded)
    BY <1>2, <1>3 DEF CallCounts
  <2>2. \A d \in Calls : CallCounts(call'[d], recorded)
    BY <1>2, <2>1 DEF Accounts, Entries
  <2>3. FileCounts(file', recorded) /\ FileCounts(staging', recorded + 1)
    BY <1>1 DEF Accounts, Entries, FileCounts
  <2>4. QED BY <1>1, <2>2, <2>3 DEF Entries
<1>6. Numbers'
  BY <1>1, <1>4 DEF Accounts, Numbers
<1>7. Exact'
  <2> SUFFICES ASSUME ~overlapped'
               PROVE  /\ \A a, b \in InFlight' : a = b
                      /\ file' # Torn /\ Size(Loaded)' = recorded'
                      /\ \A d \in InFlight' :
                           /\ Size(call[d].mem)' = recorded' + 1
                           /\ call'[d].pc = "write" => call'[d].fd = "staging" /\ staging' = Torn
                           /\ call'[d].pc = "replace" => staging' = Whole(call'[d].mem)
    BY DEF Exact
  <2>1. /\ \A a, b \in InFlight : a = b
        /\ file # Torn /\ Size(Loaded) = recorded /\ Size(call[c].mem) = recorded + 1
    BY <1>1, <1>3 DEF Accounts, Exact
  <2>2. Loaded' = Loaded
    BY <1>1 DEF Loaded
  <2>3. \A d \in InFlight' : d = c
    BY <1>3, <1>4, <2>1
  <2>4. Size(call[c].mem)' = recorded + 1 /\ Size(Loaded)' = recorded
    BY <1>2, <2>1, <2>2
  <2>5. QED BY <1>1, <1>2, <1>4, <2>1, <2>3, <2>4
<1>8. QED BY <1>5, <1>6, <1>7 DEF Accounts

\* A call that begins has filed one observation into what was there.
LEMMA BeginAccounts == ASSUME Memories, Accounts, NEW c \in Calls, Begin(c) PROVE Accounts'
<1>1. PICK shown \in Identities, v \in Versions :
        \E key \in Resolved(Loaded, shown) :
          call' = [call EXCEPT ![c] = [pc |-> "open", fd |-> "none",
                                       mem |-> Observed(Loaded, key, shown, v)]]
  BY DEF Begin
<1>2. PICK key \in Resolved(Loaded, shown) :
        call' = [call EXCEPT ![c] = [pc |-> "open", fd |-> "none",
                                     mem |-> Observed(Loaded, key, shown, v)]]
  BY <1>1
<1>3. /\ call[c].pc = "idle" /\ begun < MaxRecords /\ begun' = begun + 1
      /\ overlapped' = (overlapped \/ InFlight # {})
      /\ UNCHANGED <<file, staging, recorded, crashed>>
  BY DEF Begin
<1>4. /\ Entries /\ recorded \in Nat /\ begun \in 0 .. MaxRecords /\ crashed \in 0 .. MaxCrashes
      /\ IsFiniteSet(InFlight) /\ recorded + Cardinality(InFlight) <= begun /\ overlapped \in BOOLEAN
  BY DEF Accounts, Numbers
<1> DEFINE mem == Observed(Loaded, key, shown, v)
<1>5. Counted(mem) /\ Size(mem) = Size(Loaded) + 1 /\ Size(Loaded) \in Nat /\ Size(Loaded) <= recorded
  <2>1. Counted(Loaded) /\ Size(Loaded) \in Nat /\ Size(Loaded) <= recorded
    BY <1>4, LoadedCounted
  <2>2. key \in Identities
    BY <2>1, ResolvedKnown DEF Counted, IsMemory
  <2>3. Counted(mem) /\ Size(mem) = Size(Loaded) + 1
    BY <2>1, <2>2, ObservedCounted
  <2>4. QED BY <2>1, <2>3
<1> HIDE DEF mem
<1>6. /\ call'[c] = [pc |-> "open", fd |-> "none", mem |-> mem]
      /\ \A d \in Calls \ {c} : call'[d] = call[d]
  BY <1>2 DEF mem, Memories
<1>7. call'[c].pc = "open" /\ call'[c].fd = "none" /\ call'[c].mem = mem
  BY <1>6
<1>8. InFlight' = InFlight \cup {c} /\ c \notin InFlight
  BY <1>3, <1>6, <1>7 DEF InFlight
<1>9. Entries'
  <2>1. CallCounts(call'[c], recorded)
    BY <1>4, <1>5, <1>7 DEF CallCounts
  <2>2. \A d \in Calls : CallCounts(call'[d], recorded)
    BY <1>4, <1>6, <2>1 DEF Entries
  <2>3. QED BY <1>3, <1>4, <2>2 DEF Entries
<1>10. Numbers'
  <2>1. IsFiniteSet(InFlight') /\ Cardinality(InFlight') = Cardinality(InFlight) + 1
    BY <1>4, <1>8, FS_AddElement
  <2>2. Cardinality(InFlight) \in Nat
    BY <1>4, FS_CardinalityType
  <2>3. recorded' + Cardinality(InFlight') <= begun'
    BY <1>3, <1>4, <2>1, <2>2
  <2>4. QED BY <1>3, <1>4, <2>1, <2>3, BoundsAssumption DEF Numbers
<1>11. Exact'
  <2> SUFFICES ASSUME ~overlapped'
               PROVE  /\ \A a, b \in InFlight' : a = b
                      /\ file' # Torn /\ Size(Loaded)' = recorded'
                      /\ \A d \in InFlight' :
                           /\ Size(call[d].mem)' = recorded' + 1
                           /\ call'[d].pc = "write" => call'[d].fd = "staging" /\ staging' = Torn
                           /\ call'[d].pc = "replace" => staging' = Whole(call'[d].mem)
    BY DEF Exact
  <2>1. ~overlapped /\ InFlight' = {c}
    BY <1>3, <1>8
  <2>2. file # Torn /\ Size(Loaded) = recorded
    BY <2>1 DEF Accounts, Exact
  <2>3. Loaded' = Loaded
    BY <1>3 DEF Loaded
  <2>4. Size(call[c].mem)' = recorded + 1 /\ Size(Loaded)' = recorded
    BY <1>5, <1>7, <2>2, <2>3
  <2>5. QED BY <1>3, <1>7, <2>1, <2>2, <2>4
<1>12. QED BY <1>9, <1>10, <1>11 DEF Accounts

\* A write puts the call's memory where its descriptor points.
LEMMA WriteAccounts == ASSUME Memories, Accounts, NEW c \in Calls, Write(c) PROVE Accounts'
<1>1. call[c].pc = "write" /\ UNCHANGED <<begun, recorded, overlapped, crashed>>
  BY DEF Write
<1>2. /\ call'[c].pc = "replace" /\ call'[c].fd = call[c].fd /\ call'[c].mem = call[c].mem
      /\ \A d \in Calls \ {c} : call'[d] = call[d]
  <2>1. call[c] = [pc |-> call[c].pc, fd |-> call[c].fd, mem |-> call[c].mem]
    BY <1>1 DEF Memories, Holds, Idle
  <2>2. call' = [call EXCEPT ![c] = [call[c] EXCEPT !.pc = "replace"]]
    BY DEF Memories, Write, Move
  <2>3. call'[c] = [call[c] EXCEPT !.pc = "replace"]
    BY <2>2 DEF Memories
  <2>4. call'[c].pc = "replace" /\ call'[c].fd = call[c].fd /\ call'[c].mem = call[c].mem
    BY <2>1, <2>3
  <2>5. QED BY <2>2, <2>4 DEF Memories
<1>3. /\ c \in InFlight /\ Counted(call[c].mem) /\ Size(call[c].mem) \in Nat
      /\ call[c].fd \in {"none", "staging", "file", "gone"}
      /\ Size(call[c].mem) <= IF call[c].fd \in {"none", "staging"} THEN recorded + 1 ELSE recorded
  BY <1>1, AtWork DEF Accounts
<1>4. InFlight' = InFlight
  BY <1>2, <1>3, SameInFlight
<1>5. Entries /\ recorded \in Nat
  BY DEF Accounts, Numbers
<1>6. ASSUME NEW before, NEW f \in Text(before, call[c].mem)
      PROVE  /\ f = Torn \/ f = Whole(call[c].mem)
             /\ before = Torn => f = Whole(call[c].mem)
             /\ \A n : Size(call[c].mem) <= n => FileCounts(f, n)
  <2>1. /\ f = Torn \/ f = Whole(call[c].mem)
        /\ before = Torn => f = Whole(call[c].mem)
    BY <1>6 DEF Text
  <2>2. f = Whole(call[c].mem) => f.products = call[c].mem
    BY DEF Whole
  <2>3. QED BY <1>3, <2>1, <2>2 DEF FileCounts
<1>7. Entries'
  <2>1. CallCounts(call'[c], recorded)
    BY <1>2, <1>3 DEF CallCounts
  <2>2. \A d \in Calls : CallCounts(call'[d], recorded)
    BY <1>2, <1>5, <2>1 DEF Entries
  <2>3. FileCounts(file', recorded) /\ FileCounts(staging', recorded + 1)
    <3>1. CASE call[c].fd = "staging" /\ staging' \in Text(staging, call[c].mem) /\ file' = file
      BY <1>3, <1>5, <1>6, <3>1 DEF Entries
    <3>2. CASE call[c].fd = "file" /\ file' \in Text(file, call[c].mem) /\ staging' = staging
      BY <1>3, <1>5, <1>6, <3>2 DEF Entries
    <3>3. CASE file' = file /\ staging' = staging
      BY <1>5, <3>3 DEF Entries
    <3>4. QED BY <3>1, <3>2, <3>3 DEF Write
  <2>4. QED BY <1>1, <2>2, <2>3 DEF Entries
<1>8. Numbers'
  BY <1>1, <1>4 DEF Accounts, Numbers
<1>9. Exact'
  <2> SUFFICES ASSUME ~overlapped'
               PROVE  /\ \A a, b \in InFlight' : a = b
                      /\ file' # Torn /\ Size(Loaded)' = recorded'
                      /\ \A d \in InFlight' :
                           /\ Size(call[d].mem)' = recorded' + 1
                           /\ call'[d].pc = "write" => call'[d].fd = "staging" /\ staging' = Torn
                           /\ call'[d].pc = "replace" => staging' = Whole(call'[d].mem)
    BY DEF Exact
  <2>1. /\ \A a, b \in InFlight : a = b
        /\ file # Torn /\ Size(Loaded) = recorded /\ Size(call[c].mem) = recorded + 1
        /\ call[c].fd = "staging" /\ staging = Torn
    BY <1>1, <1>3 DEF Accounts, Exact
  <2>2. file' = file /\ staging' = Whole(call[c].mem)
    <3>1. staging' \in Text(staging, call[c].mem) /\ file' = file
      BY <2>1 DEF Write
    <3>2. QED BY <1>6, <2>1, <3>1
  <2>3. Loaded' = Loaded
    BY <2>2 DEF Loaded
  <2>4. \A d \in InFlight' : d = c
    BY <1>3, <1>4, <2>1
  <2>5. Size(call[c].mem)' = recorded + 1 /\ Size(Loaded)' = recorded
    BY <1>2, <2>1, <2>3
  <2>6. QED BY <1>1, <1>2, <1>4, <2>1, <2>2, <2>4, <2>5
<1>10. QED BY <1>7, <1>8, <1>9 DEF Accounts

\* A rename counts one observation, and the descriptors of other calls move on.
LEMMA ReplaceAccounts == ASSUME Memories, Accounts, NEW c \in Calls, Replace(c) PROVE Accounts'
<1>1. call[c].pc = "replace" /\ UNCHANGED <<begun, overlapped, crashed>>
  BY DEF Replace
<1>2. /\ Entries /\ recorded \in Nat /\ begun \in 0 .. MaxRecords /\ crashed \in 0 .. MaxCrashes
      /\ IsFiniteSet(InFlight) /\ recorded + Cardinality(InFlight) <= begun /\ overlapped \in BOOLEAN
  BY DEF Accounts, Numbers
<1>3. c \in InFlight
  BY <1>1, <1>2, AtWork
<1>4. ~overlapped => /\ \A a, b \in InFlight : a = b
                     /\ staging = Whole(call[c].mem) /\ Size(call[c].mem) = recorded + 1
  BY <1>1, <1>3 DEF Accounts, Exact
<1>5. /\ call'[c] = Idle
      /\ \A d \in Calls \ {c} : (call'[d].pc = "idle") <=> (call[d].pc = "idle")
  <2>1. CASE call' = [call EXCEPT ![c] = Idle]
    BY <2>1 DEF Memories
  <2>2. CASE call' = [d \in Calls |-> IF d = c \/ call[d].pc = "idle" THEN Idle
                                       ELSE [call[d] EXCEPT !.fd = Renamed(@)]]
    <3>1. ASSUME NEW d \in Calls \ {c}, call[d].pc # "idle" PROVE call'[d].pc = call[d].pc
      <4>1. call[d] = [pc |-> call[d].pc, fd |-> call[d].fd, mem |-> call[d].mem]
        BY <3>1 DEF Memories, Holds, Idle
      <4>2. call'[d] = [call[d] EXCEPT !.fd = Renamed(call[d].fd)]
        BY <2>2, <3>1
      <4>3. QED BY <4>1, <4>2
    <3>2. \A d \in Calls \ {c} : call[d].pc = "idle" => call'[d] = Idle
      BY <2>2
    <3>3. QED BY <2>2, <3>1, <3>2 DEF Idle
  <2>3. QED BY <2>1, <2>2 DEF Replace
<1>6. InFlight' = InFlight \ {c}
  BY <1>5 DEF InFlight, Idle
<1>7. IsFiniteSet(InFlight') /\ Cardinality(InFlight') + 1 = Cardinality(InFlight) /\ Cardinality(InFlight') \in Nat
  <2>1. IsFiniteSet(InFlight') /\ Cardinality(InFlight') = Cardinality(InFlight) - 1
    BY <1>2, <1>3, <1>6, FS_RemoveElement
  <2>2. Cardinality(InFlight) \in Nat /\ Cardinality(InFlight') \in Nat
    BY <1>2, <2>1, FS_CardinalityType
  <2>3. QED BY <2>1, <2>2
<1>8. CASE staging = NoFile
  <2>1. call' = [call EXCEPT ![c] = Idle] /\ UNCHANGED <<file, staging, recorded>>
    BY <1>8 DEF Replace
  <2>2. \A d \in Calls : CallCounts(call'[d], recorded)
    BY <1>2, <2>1 DEF Entries, CallCounts, Memories
  <2>3. Entries'
    BY <1>2, <2>1, <2>2 DEF Entries
  <2>4. Numbers'
    BY <1>1, <1>2, <1>7, <2>1 DEF Numbers
  <2>5. overlapped
    BY <1>2, <1>4, <1>8 DEF Whole, NoFile
  <2>6. Exact'
    BY <1>1, <2>5 DEF Exact
  <2>7. QED BY <2>3, <2>4, <2>6 DEF Accounts
<1>9. CASE staging # NoFile
  <2>1. /\ file' = staging /\ staging' = NoFile /\ recorded' = recorded + 1
        /\ call' = [d \in Calls |-> IF d = c \/ call[d].pc = "idle" THEN Idle
                                     ELSE [call[d] EXCEPT !.fd = Renamed(@)]]
    BY <1>9 DEF Replace
  <2>2. ASSUME NEW d \in Calls PROVE CallCounts(call'[d], recorded + 1)
    <3>1. CASE d = c \/ call[d].pc = "idle"
      BY <2>1, <3>1 DEF CallCounts
    <3>2. CASE d # c /\ call[d].pc # "idle"
      <4>1. call[d] = [pc |-> call[d].pc, fd |-> call[d].fd, mem |-> call[d].mem]
        BY <3>2 DEF Memories, Holds, Idle
      <4>2. call'[d] = [call[d] EXCEPT !.fd = Renamed(call[d].fd)]
        BY <2>1, <3>2
      <4>3. call'[d].pc = call[d].pc /\ call'[d].fd = Renamed(call[d].fd) /\ call'[d].mem = call[d].mem
        BY <4>1, <4>2
      <4>4. /\ call[d].pc \in {"open", "write", "replace"}
            /\ Counted(call[d].mem) /\ Size(call[d].mem) \in Nat
            /\ call[d].fd \in {"none", "staging", "file", "gone"}
            /\ Size(call[d].mem) <= IF call[d].fd \in {"none", "staging"} THEN recorded + 1 ELSE recorded
        BY <1>2, <3>2, AtWork
      <4>5. call'[d].fd \in {"none", "file", "gone"}
        BY <4>3, <4>4 DEF Renamed
      <4>6. Size(call[d].mem) <= recorded + 1
        BY <1>2, <4>4
      <4>7. QED BY <1>2, <4>3, <4>4, <4>5, <4>6 DEF CallCounts
    <3>3. QED BY <3>1, <3>2
  <2>3. Entries'
    <3>1. FileCounts(file', recorded + 1) /\ FileCounts(staging', recorded + 2)
      BY <1>2, <2>1 DEF Entries, FileCounts
    <3>2. recorded' = recorded + 1 /\ recorded' + 1 = recorded + 2
      BY <1>2, <2>1
    <3>3. QED BY <2>2, <3>1, <3>2 DEF Entries
  <2>4. Numbers'
    BY <1>1, <1>2, <1>7, <2>1 DEF Numbers
  <2>5. Exact'
    <3> SUFFICES ASSUME ~overlapped'
                 PROVE  InFlight' = {} /\ file' # Torn /\ Size(Loaded)' = recorded'
      BY DEF Exact
    <3>1. /\ \A a, b \in InFlight : a = b
          /\ staging = Whole(call[c].mem) /\ Size(call[c].mem) = recorded + 1
      BY <1>1, <1>4
    <3>2. InFlight' = {}
      BY <1>3, <1>6, <3>1
    <3>3. file' # Torn /\ Loaded' = call[c].mem
      BY <2>1, <3>1 DEF Loaded, Whole, Torn
    <3>4. QED BY <2>1, <3>1, <3>2, <3>3
  <2>6. QED BY <2>3, <2>4, <2>5 DEF Accounts
<1>10. QED BY <1>8, <1>9

\* A crash forgets what was not written yet.
LEMMA CrashAccounts == ASSUME Accounts, Crash PROVE Accounts'
<1>1. /\ call' = [c \in Calls |-> Idle] /\ crashed < MaxCrashes /\ crashed' = crashed + 1
      /\ UNCHANGED <<file, staging, begun, recorded, overlapped>>
  BY DEF Crash
<1>2. InFlight' = {}
  BY <1>1 DEF InFlight, Idle
<1>3. Entries'
  BY <1>1 DEF Accounts, Entries, CallCounts
<1>4. Numbers'
  <2>1. IsFiniteSet({}) /\ Cardinality({}) = 0 /\ Cardinality(InFlight) \in Nat
    BY FS_EmptySet, FS_CardinalityType DEF Accounts, Numbers
  <2>2. recorded <= begun
    BY <2>1 DEF Accounts, Numbers
  <2>3. QED BY <1>1, <1>2, <2>1, <2>2, BoundsAssumption DEF Accounts, Numbers
<1>5. Exact'
  <2>1. Loaded' = Loaded
    BY <1>1 DEF Loaded
  <2>2. Size(Loaded)' = Size(Loaded)
    BY <2>1
  <2>3. QED BY <1>1, <1>2, <2>2 DEF Accounts, Exact
<1>6. QED BY <1>3, <1>4, <1>5 DEF Accounts

\* Every step keeps the accounts.
LEMMA AccountsNext == Memories /\ Accounts /\ [Next]_vars => Accounts'
<1> SUFFICES ASSUME Memories, Accounts, [Next]_vars PROVE Accounts'
  OBVIOUS
<1>1. CASE UNCHANGED vars
  <2>1. /\ file' = file /\ staging' = staging /\ call' = call /\ begun' = begun
        /\ recorded' = recorded /\ overlapped' = overlapped /\ crashed' = crashed
    BY <1>1 DEF vars
  <2>2. InFlight' = InFlight /\ Loaded' = Loaded
    BY <2>1 DEF InFlight, Loaded
  <2>3. Entries' /\ Numbers'
    BY <2>1, <2>2 DEF Accounts, Entries, Numbers
  <2>4. Exact'
    BY <2>1, <2>2 DEF Accounts, Exact
  <2>5. QED BY <2>3, <2>4 DEF Accounts
<1>2. CASE Crash
  BY <1>2, CrashAccounts
<1>3. QED BY <1>1, <1>2, BeginAccounts, OpenAccounts, WriteAccounts, ReplaceAccounts DEF Next

\* The accounts hold for any overlap of calls and any crashes (product_memory.py,
\* record_observation).
THEOREM AccountsInvariant == Spec => []Accounts
<1>1. Init => Accounts
  <2> SUFFICES ASSUME Init PROVE Accounts
    OBVIOUS
  <2>1. InFlight = {} /\ Loaded = <<>>
    BY DEF Init, InFlight, Idle, Loaded, NoFile
  <2>2. Entries
    BY DEF Init, Entries, FileCounts, CallCounts
  <2>3. Numbers
    <3>1. IsFiniteSet(InFlight) /\ Cardinality(InFlight) = 0
      BY <2>1, FS_EmptySet
    <3>2. begun = 0 /\ recorded = 0 /\ crashed = 0 /\ overlapped = FALSE
      BY DEF Init
    <3>3. begun \in 0 .. MaxRecords /\ crashed \in 0 .. MaxCrashes
      BY <3>2, BoundsAssumption
    <3>4. overlapped \in BOOLEAN
      BY <3>2
    <3>5. recorded \in Nat /\ recorded + Cardinality(InFlight) <= begun
      BY <3>1, <3>2
    <3>6. QED BY <3>1, <3>3, <3>4, <3>5 DEF Numbers
  <2>4. Exact
    BY <2>1, EmptyCounted DEF Init, Exact, NoFile, Torn
  <2>5. QED BY <2>2, <2>3, <2>4 DEF Accounts
<1>2. QED BY <1>1, AccountsNext, SoundInvariant, PTL DEF Spec

\* Every file is missing, torn or a whole memory, and every call holds one
\* (product_memory.py, _load and _save).
THEOREM TypeCorrect == Spec => []TypeOK
<1>1. Accounts => TypeOK
  <2> SUFFICES ASSUME Accounts PROVE TypeOK
    OBVIOUS
  <2>1. IsFile(file) /\ IsFile(staging)
    BY DEF Accounts, Entries, FileCounts, Counted, IsFile
  <2>2. ASSUME NEW c \in Calls
        PROVE  \/ call[c] = Idle
               \/ /\ call[c].pc \in {"open", "write", "replace"}
                  /\ call[c].fd \in {"none", "staging", "file", "gone"}
                  /\ IsMemory(call[c].mem)
    BY DEF Accounts, Entries, CallCounts, Counted
  <2>3. recorded \in 0 .. begun
    <3>1. Cardinality(InFlight) \in Nat
      BY FS_CardinalityType DEF Accounts, Numbers
    <3>2. QED BY <3>1, BoundsAssumption DEF Accounts, Numbers
  <2>4. QED BY <2>1, <2>2, <2>3 DEF Accounts, Numbers, TypeOK
<1>2. QED BY <1>1, AccountsInvariant, PTL

\* However products are merged, each counts what its versions count; the file never
\* counts more observations than were written, and exactly those unless two calls
\* overlapped, crashes included (product_memory.py, record_observation, _merge_product
\* and _merge_version).
THEOREM NothingIsLostTheorem == Spec => []NothingIsLost
<1>1. Accounts => NothingIsLost
  <2> SUFFICES ASSUME Accounts PROVE NothingIsLost
    OBVIOUS
  <2>1. Counted(Loaded) /\ Size(Loaded) <= recorded
    BY LoadedCounted DEF Accounts, Numbers
  <2>2. ~overlapped => file # Torn /\ Size(Loaded) = recorded
    BY DEF Accounts, Exact
  <2>3. QED BY <2>1, <2>2 DEF NothingIsLost, Counted, Size
<1>2. QED BY <1>1, AccountsInvariant, PTL

=============================================================================
