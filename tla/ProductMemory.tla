---------------------------- MODULE ProductMemory ----------------------------
(***************************************************************************)
(* ProductMemoryEngine: knowledge/product_memory.json, one file for all    *)
(* sessions.  A cycle loads it, files its observation under the product    *)
(* the device is recognised as, folds weaker identities of that product    *)
(* into it and writes the whole file back, through a temporary name that   *)
(* all writers share.                                                      *)
(*                                                                         *)
(* The watchers' threads and the control application record without any    *)
(* lock, so calls overlap; a descriptor opened on the temporary file goes  *)
(* on writing to it after another call has renamed it.  A product keeps    *)
(* its counts and its aliases here; the lists a version collects are       *)
(* capped copies of the same observations.                                 *)
(***************************************************************************)
EXTENDS Integers, FiniteSets, Functions, TLC

CONSTANTS Calls,      \* calls of record_observation that may overlap
          Identities, \* [maker, model, code] a profile may show
          Vague,      \* values that identify nothing: unknown, android, generic...
          Versions,   \* version keys
          MaxRecords, \* bound on observations
          MaxCrashes  \* bound on crashes

ASSUME IdentitiesAssumption == \A i \in Identities : i = [maker |-> i.maker, model |-> i.model, code |-> i.code]
ASSUME VersionsAssumption   == IsFiniteSet(Versions)
ASSUME BoundsAssumption     == MaxRecords \in Nat /\ MaxCrashes \in Nat

VARIABLES file,       \* product_memory.json
          staging,    \* product_memory.json.tmp
          call,       \* per call: what it is about to write, and where
          begun,      \* observations begun
          recorded,   \* history: observations written
          overlapped, \* history: two calls were in progress at once
          crashed     \* history: number of crashes

vars == <<file, staging, call, begun, recorded, overlapped, crashed>>

NoFile   == [kind |-> "none"]
Torn     == [kind |-> "torn"]
Whole(p) == [kind |-> "whole", products |-> p]

Idle     == [pc |-> "idle"]
InFlight == {c \in Calls : call[c].pc # "idle"}

(***************************************************************************)
(* Identities: what counts as the same product.                            *)
(***************************************************************************)
Specific(value) == value \notin Vague

Points(value, n) == IF Specific(value) THEN n ELSE 0

\* _identity_quality: a codename tells more than the maker and the model.
Quality(i) == Points(i.maker, 1) + Points(i.model, 1) + Points(i.code, 2)

SameCode(i, j)  == Specific(i.code) /\ i.code = j.code
SameModel(i, j) == Specific(i.maker) /\ Specific(i.model) /\ i.maker = j.maker /\ i.model = j.model

\* Mutant of Compatible: the model name alone is taken for the product.
Compatible_ByModel(i, j, shown) == i.code = shown.code \/ i.model = j.model

\* _compatible_product_key, with the identity the device shows now.
Compatible(i, j, shown) == SameCode(i, j) \/ SameModel(i, j) \/ SameCode(i, shown)

\* Mutant of Resolved: a weak identity always gets a product of its own.
Resolved_AsShown(p, shown) ==
  LET named == {k \in DOMAIN p : shown \in p[k].aliases} IN IF named # {} THEN named ELSE {shown}

\* Mutant of Resolved: the codename is left out of the key of a new product.
Resolved_NoCode(p, shown) ==
  LET named == {k \in DOMAIN p : shown \in p[k].aliases}
  IN  IF named # {} THEN named ELSE {[shown EXCEPT !.code = "unknown"]}

\* _canonical_product_key: the product that lists the identity as an alias,
\* else a better known compatible one, else the identity itself.  Between
\* products of equal quality the order of the file decides.
Resolved(p, shown) ==
  LET named == {k \in DOMAIN p : shown \in p[k].aliases}
      fits  == {k \in DOMAIN p : Compatible(k, shown, shown)}
      best  == {k \in fits : \A j \in fits : Quality(j) <= Quality(k)}
  IN  IF named # {} THEN named
      ELSE IF \E k \in best : Quality(k) > Quality(shown) THEN best
      ELSE {shown}

NewProduct == [observations |-> 0, aliases |-> {}, versions |-> [v \in Versions |-> 0]]

Known(p, key) == [k \in DOMAIN p \cup {key} |-> IF k \in DOMAIN p THEN p[k] ELSE NewProduct]

\* _merge_weaker_products: what is folded into key.
Weaker(p, key, shown) ==
  {k \in DOMAIN p \ {key} : Compatible(k, key, shown) /\ Quality(k) < Quality(key)}

\* Mutant of Absorb: the merged products' own counts are dropped.
Absorb_Forgets(product, p, gone) ==
  [product EXCEPT !.aliases = @ \cup gone \cup UNION {p[k].aliases : k \in gone}]

Observations(p, gone) == SumFunction([k \in gone |-> p[k].observations])
OfVersion(p, gone, v) == SumFunction([k \in gone |-> p[k].versions[v]])

\* _merge_product and _merge_version.
Absorb(product, p, gone) ==
  [observations |-> product.observations + Observations(p, gone),
   aliases      |-> product.aliases \cup gone \cup UNION {p[k].aliases : k \in gone},
   versions     |-> [v \in Versions |-> product.versions[v] + OfVersion(p, gone, v)]]

Count(product, shown, v) ==
  [observations |-> product.observations + 1,
   aliases      |-> product.aliases \cup {shown},
   versions     |-> [product.versions EXCEPT ![v] = @ + 1]]

\* Mutant of Observed: what was folded into another product is kept as well.
Observed_KeepsBoth(p, key, shown, v) ==
  LET known == Known(p, key)
      merged == Absorb(known[key], known, Weaker(known, key, shown))
  IN  [known EXCEPT ![key] = Count(merged, shown, v)]

\* record_observation in memory, once the product is resolved.
Observed(p, key, shown, v) ==
  LET known  == Known(p, key)
      gone   == Weaker(known, key, shown)
      merged == Absorb(known[key], known, gone)
  IN  [k \in DOMAIN known \ gone |-> IF k = key THEN Count(merged, shown, v) ELSE known[k]]

(***************************************************************************)
(* The file.                                                               *)
(***************************************************************************)
\* _load: a file that is missing or does not parse is an empty memory.
Loaded == IF file.kind = "whole" THEN file.products ELSE <<>>

Init == /\ file = NoFile
        /\ staging = NoFile
        /\ call = [c \in Calls |-> Idle]
        /\ begun = 0
        /\ recorded = 0
        /\ overlapped = FALSE
        /\ crashed = 0

Move(c, pc) == call' = [call EXCEPT ![c].pc = pc]

\* The call loads the memory and files its observation.
Begin(c) ==
  /\ call[c].pc = "idle"
  /\ begun < MaxRecords
  /\ \E shown \in Identities, v \in Versions : \E key \in Resolved(Loaded, shown) :
       call' = [call EXCEPT ![c] = [pc |-> "open", fd |-> "none", mem |-> Observed(Loaded, key, shown, v)]]
  /\ begun' = begun + 1
  /\ overlapped' = (overlapped \/ InFlight # {})
  /\ UNCHANGED <<file, staging, recorded, crashed>>

\* write_text opens the temporary file and empties it, whoever else writes it.
Open(c) ==
  /\ call[c].pc = "open"
  /\ staging' = Torn
  /\ call' = [call EXCEPT ![c].pc = "write", ![c].fd = "staging"]
  /\ UNCHANGED <<file, begun, recorded, overlapped, crashed>>

\* Two texts written over one another need not parse.
Text(before, mem) == {Whole(mem)} \cup (IF before = Torn THEN {} ELSE {Torn})

Write(c) ==
  /\ call[c].pc = "write"
  /\ \/ /\ call[c].fd = "staging"
        /\ staging' \in Text(staging, call[c].mem)
        /\ UNCHANGED file
     \/ /\ call[c].fd = "file"
        /\ file' \in Text(file, call[c].mem)
        /\ UNCHANGED staging
     \/ /\ call[c].fd = "gone"
        /\ UNCHANGED <<file, staging>>
  /\ Move(c, "replace")
  /\ UNCHANGED <<begun, recorded, overlapped, crashed>>

\* Where the descriptors point after the rename.
Renamed(fd) == CASE fd = "staging" -> "file" [] fd = "file" -> "gone" [] OTHER -> fd

\* replace fails when another call has already renamed the shared name.
Replace(c) ==
  /\ call[c].pc = "replace"
  /\ IF staging = NoFile
     THEN /\ call' = [call EXCEPT ![c] = Idle]
          /\ UNCHANGED <<file, staging, recorded>>
     ELSE /\ file' = staging
          /\ staging' = NoFile
          /\ call' = [d \in Calls |-> IF d = c \/ call[d].pc = "idle" THEN Idle
                                       ELSE [call[d] EXCEPT !.fd = Renamed(@)]]
          /\ recorded' = recorded + 1
  /\ UNCHANGED <<begun, overlapped, crashed>>

Crash == /\ crashed < MaxCrashes
         /\ InFlight # {}
         /\ call' = [c \in Calls |-> Idle]
         /\ crashed' = crashed + 1
         /\ UNCHANGED <<file, staging, begun, recorded, overlapped>>

Next == Crash \/ \E c \in Calls : Begin(c) \/ Open(c) \/ Write(c) \/ Replace(c)

Spec == Init /\ [][Next]_vars

(***************************************************************************)
(* Properties.                                                             *)
(***************************************************************************)
Product == [observations : Nat, aliases : SUBSET Identities, versions : [Versions -> Nat]]

IsMemory(p) == /\ DOMAIN p \subseteq Identities
               /\ \A k \in DOMAIN p : p[k] \in Product
IsFile(f)   == f \in {NoFile, Torn} \/ (f = Whole(f.products) /\ IsMemory(f.products))

\* Every file is missing, torn or a whole memory, and every call holds one.
TypeOK ==
  /\ IsFile(file) /\ IsFile(staging)
  /\ \A c \in Calls : \/ call[c] = Idle
                      \/ /\ call[c].pc \in {"open", "write", "replace"}
                         /\ call[c].fd \in {"none", "staging", "file", "gone"}
                         /\ IsMemory(call[c].mem)
  /\ begun \in 0..MaxRecords /\ recorded \in 0..begun
  /\ overlapped \in BOOLEAN /\ crashed \in 0..MaxCrashes

\* An identity leads to at most one product, whichever of the products was
\* recorded first and whatever was merged since: _canonical_product_key takes
\* the first product that lists it.
OneProductEach ==
  \A j, k \in DOMAIN Loaded : k \in Loaded[k].aliases /\ (j # k => Loaded[j].aliases \cap Loaded[k].aliases = {})

\* Lessons of one device never reach another: a product never collects two
\* codenames, although maker and model alone are enough to be merged.
OneCodenameEach ==
  \A k \in DOMAIN Loaded : \A i, j \in Loaded[k].aliases :
    Specific(i.code) /\ Specific(j.code) => i.code = j.code

\* README.md:144: "Weak early identities are folded into stronger later matches
\* ... and equally specific related variants remain separate".
WeakOnesAreFolded ==
  \A j, k \in DOMAIN Loaded : (SameCode(j, k) \/ SameModel(j, k)) => Quality(j) = Quality(k)

\* Merging loses no observation: every product's count is that of its versions,
\* and unless calls overlapped the file holds every observation it was given,
\* crashes between any two file operations included.
NothingIsLost ==
  /\ \A k \in DOMAIN Loaded : Loaded[k].observations = SumFunction(Loaded[k].versions)
  /\ Observations(Loaded, DOMAIN Loaded) <= recorded
  /\ ~overlapped => file # Torn /\ Observations(Loaded, DOMAIN Loaded) = recorded

=============================================================================
