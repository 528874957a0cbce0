-------------------------- MODULE AcquisitionProofs --------------------------
(***************************************************************************)
(* Proofs about Acquisition, for any kinds of files, any sizes, any hosts  *)
(* and any number of cycles.                                               *)
(***************************************************************************)
EXTENDS Acquisition, TLAPS

Origins  == {"nobody", "operator", "resolver", "downloader", "build"}
Contents == [size : Nat, whole : BOOLEAN, from : Origins]
States   == Kinds \cup {"never", "gone", "building"}
Cycles   == [executes : BOOLEAN, got : Kinds \cup {"none"}, bare : BOOLEAN,
             outcome : Outcomes, staged : SUBSET Origins]

Waiting   == {"envbuild", "building"}
Searching == {"gate", "ask", "asking", "resolve"}

Types ==
  /\ host \in HostTypes /\ src \in [Kinds -> Contents] /\ plan \in BOOLEAN
  /\ research \in {"none", "torn", "fresh", "stale"} /\ transcript \in {"none", "norepo", "other"}
  /\ proc \in [Procs -> States] /\ proc["child"] # "never"
  /\ cyc \in Cycles
  /\ pc = "check" => cyc.got \in Candidates
  /\ pc \in Waiting => proc["child"] # "gone"
  /\ proc["child"] # "gone" => pc \in Waiting

-----------------------------------------------------------------------------
(* Types.                                                                  *)

\* Between cycles the locals are typed and there is no outcome.
LEMMA NoCycleType == NoCycle \in Cycles /\ NoCycle.outcome = "none"
BY DEF NoCycle, Cycles, Outcomes

\* A missing file is nobody's.
LEMMA AbsentType == Absent \in Contents /\ Absent.from = "nobody"
BY DEF Absent, Contents, Origins

\* What the image builder stages is a set of origins.
LEMMA StagedType == ASSUME Types PROVE Staged \in SUBSET Origins
BY DEF Types, Staged, UsableFiles, Contents

\* Quarantine moves files, it makes none.
LEMMA QuarantineType == ASSUME Types PROVE Quarantined \in [Kinds -> Contents]
BY AbsentType DEF Types, Quarantined

\* The steps of the world.
LEMMA WorldTypes == ASSUME Types PROVE World => Types'
<1>1. CASE Age
  BY <1>1 DEF Age, Others, Types
<1>2. CASE InstallRepo
  BY <1>2 DEF InstallRepo, Others, Types, HostTypes
<1>3. CASE Drop
  <2>1. [size |-> 200, whole |-> TRUE, from |-> "operator"] \in Contents
    BY DEF Contents, Origins
  <2>2. QED BY <1>3, <2>1 DEF Drop, Others, Types
<1>4. CASE Crash
  BY <1>4, NoCycleType DEF Crash, Types, Procs, States, Waiting
<1>5. CASE OrphanExits
  BY <1>5 DEF OrphanExits, Others, Types, Procs, States
<1>6. ASSUME NEW p \in Procs, BeginCopy(p) PROVE Types'
  <2>1. PICK n \in Kinds \cap {"ota", "boot", "bundle"}, s \in Sizes :
          /\ src' = [src EXCEPT ![n] = [size |-> s, whole |-> FALSE, from |-> "build"]]
          /\ proc' = [proc EXCEPT ![p] = n]
    BY <1>6 DEF BeginCopy
  <2>2. [size |-> s, whole |-> FALSE, from |-> "build"] \in Contents
    BY SizesAssumption DEF Contents, Origins
  <2>3. n # "gone" /\ n # "never"
    BY KindsAssumption DEF AllKinds
  <2>4. QED BY <1>6, <2>1, <2>2, <2>3 DEF BeginCopy, Others, Types, Procs, States
<1>7. ASSUME NEW p \in Procs, EndCopy(p) PROVE Types'
  <2>1. PICK s \in Sizes :
          src' = [src EXCEPT ![proc[p]] = [size |-> s, whole |-> TRUE, from |-> "build"]]
    BY <1>7 DEF EndCopy
  <2>2. [size |-> s, whole |-> TRUE, from |-> "build"] \in Contents
    BY SizesAssumption DEF Contents, Origins
  <2>3. proc[p] # "gone"
    BY <1>7, KindsAssumption DEF AllKinds, EndCopy
  <2>4. QED BY <1>7, <2>1, <2>2, <2>3 DEF EndCopy, Others, Types, Procs, States
<1>8. QED BY <1>1, <1>2, <1>3, <1>4, <1>5, <1>6, <1>7 DEF World

\* The build the resolver asks for, and the end of a wait.
LEMMA RequestTypes ==
  ASSUME Types, pc \notin Waiting, NEW bare \in BOOLEAN
  PROVE  Request(bare) =>
           /\ host' = host /\ crashed' = crashed
           /\ proc' \in [Procs -> States] /\ proc'["child"] # "never" /\ proc'["orphan"] = proc["orphan"]
           /\ cyc' \in Cycles /\ cyc'.outcome = cyc.outcome /\ cyc'.staged = cyc.staged
           /\ \/ pc' = "build" /\ proc'["child"] = "gone"
              \/ pc' = "envbuild" /\ proc'["child"] # "gone"
BY ZenonT(40) DEF Request, To, Types, Procs, States, Cycles, Waiting

\* A wait that ends, by exit or by timeout, leaves no child, and only a timeout makes
\* an orphan.
LEMMA WaitEnds ==
  ASSUME Types
  PROVE  Exit \/ Timeout =>
           /\ proc' \in [Procs -> States] /\ proc'["child"] = "gone"
           /\ proc'["orphan"] = "never" => proc["orphan"] = "never"
BY DEF Exit, Timeout, Types, Procs, States

\* The steps of a search.
LEMMA SearchTypes == ASSUME Types PROVE Search => Types'
<1> USE DEF To, Files
<1>1. CASE Stage
  <2>1. PICK executes \in BOOLEAN :
          IF Staged = {} THEN To("gate", [NoCycle EXCEPT !.executes = executes])
          ELSE To("classify", [NoCycle EXCEPT !.executes = executes, !.outcome = "ready", !.staged = Staged])
    BY <1>1 DEF Stage
  <2>2. [NoCycle EXCEPT !.executes = executes] \in Cycles
    BY NoCycleType DEF Cycles
  <2>3. [NoCycle EXCEPT !.executes = executes, !.outcome = "ready", !.staged = Staged] \in Cycles
    BY NoCycleType, StagedType DEF Cycles, Outcomes
  <2>4. QED BY <1>1, <2>1, <2>2, <2>3 DEF Stage, Types, Waiting
<1>2. CASE Gate
  <2>1. [cyc EXCEPT !.outcome = "deferred"] \in Cycles
    BY DEF Types, Cycles, Outcomes
  <2>2. QED BY <1>2, <2>1, QuarantineType DEF Gate, Types, Waiting
<1>3. CASE Resolve
  <2>1. CASE research # "fresh" /\ To("build", cyc) /\ Files
    BY <1>3, <2>1 DEF Resolve, Types, Waiting
  <2>2. CASE \E bare \in BOOLEAN : Request(bare) /\ UNCHANGED <<src, research, plan, transcript>>
    BY <1>3, <2>2, RequestTypes DEF Resolve, Types, Waiting
  <2>3. ASSUME NEW n \in Candidates, NEW s \in Sizes, NEW copy \in Copies(s, "resolver"),
               src' = [src EXCEPT ![n] = copy], To("check", [cyc EXCEPT !.got = n]),
               UNCHANGED <<research, plan, transcript, proc>>
        PROVE  Types'
    <3>1. copy \in Contents
      BY SizesAssumption DEF Copies, Contents, Origins
    <3>2. /\ [cyc EXCEPT !.got = n] \in Cycles /\ [cyc EXCEPT !.got = n].got = n
      BY DEF Types, Cycles, Candidates
    <3>3. QED BY <1>3, <2>3, <3>1, <3>2 DEF Resolve, Types, Waiting
  <2>4. QED BY <1>3, <2>1, <2>2, <2>3 DEF Resolve
<1>4. CASE Check
  <2>1. CASE src' = [src EXCEPT ![cyc.got] = Absent] /\ Request(FALSE) /\ UNCHANGED <<research, plan, transcript>>
    BY <1>4, <2>1, RequestTypes, AbsentType DEF Check, Types, Waiting
  <2>2. CASE /\ research' = "fresh" /\ To("restage", [cyc EXCEPT !.got = "none"])
             /\ UNCHANGED <<src, plan, transcript, proc>>
    <3>1. [cyc EXCEPT !.got = "none"] \in Cycles
      BY DEF Types, Cycles
    <3>2. QED BY <1>4, <2>2, <3>1 DEF Check, Types, Waiting
  <2>3. QED BY <1>4, <2>1, <2>2 DEF Check
<1>5. CASE EnvBuildEnds
  <2>1. [cyc EXCEPT !.bare = FALSE] \in Cycles
    BY DEF Types, Cycles
  <2>2. /\ proc' \in [Procs -> States] /\ proc'["child"] = "gone"
        /\ pc' \in {"restage", "build"} /\ cyc' = [cyc EXCEPT !.bare = FALSE] /\ host' = host
    BY <1>5, WaitEnds DEF EnvBuildEnds
  <2>3. QED BY <1>5, <2>1, <2>2 DEF EnvBuildEnds, Types, Waiting
<1>6. CASE Restage
  <2>1. [cyc EXCEPT !.outcome = "resolved_from_trusted_source", !.staged = Staged] \in Cycles
    BY StagedType DEF Types, Cycles, Outcomes
  <2>2. QED BY <1>6, <2>1 DEF Restage, Types, Waiting
<1>7. CASE Build
  <2>1. [cyc EXCEPT !.outcome = "blocked_by_host_prerequisite"] \in Cycles
    BY DEF Types, Cycles, Outcomes
  <2>2. QED BY <1>7, <2>1 DEF Build, Types, Waiting, Procs, States
<1>8. CASE BuildEnds
  <2>1. proc' \in [Procs -> States] /\ proc'["child"] = "gone"
    BY <1>8, WaitEnds DEF BuildEnds
  <2>2. QED BY <1>8, <2>1 DEF BuildEnds, Types, Waiting
<1>9. CASE Collect
  <2>1. [cyc EXCEPT !.outcome = IF Staged = {} THEN "build_pending" ELSE "built_from_source",
                    !.staged = Staged] \in Cycles
    BY StagedType DEF Types, Cycles, Outcomes
  <2>2. QED BY <1>9, <2>1 DEF Collect, Types, Waiting
<1>10. CASE Classify
  BY <1>10, QuarantineType, NoCycleType DEF Classify, Types, Waiting
<1>11. CASE Download
  <2>1. ASSUME NEW n \in Candidates, NEW s \in Sizes, NEW copy \in Copies(s, "downloader")
        PROVE  [src EXCEPT ![n] = copy] \in [Kinds -> Contents]
    <3>1. copy \in Contents
      BY SizesAssumption DEF Copies, Contents, Origins
    <3>2. QED BY <3>1 DEF Types
  <2>2. src' \in [Kinds -> Contents]
    BY <1>11, <2>1 DEF Download, Types
  <2>3. QED BY <1>11, <2>2 DEF Download, Types, Waiting
<1>12. CASE Ask("ask", "asking") \/ Ask("ask_last", "asking_last")
  BY <1>12 DEF Ask, Types, Waiting
<1>13. CASE Answer("asking", "resolve", cyc) \/ Answer("asking_last", "idle", NoCycle)
  BY <1>13, NoCycleType DEF Answer, Types, Waiting
<1>14. QED BY <1>1, <1>2, <1>3, <1>4, <1>5, <1>6, <1>7, <1>8, <1>9, <1>10, <1>11, <1>12, <1>13 DEF Search

\* The typed form of the state is an invariant.
LEMMA TypesCorrect == Spec => []Types
<1>1. Init => Types
  <2> SUFFICES ASSUME Init PROVE Types
    OBVIOUS
  <2>1. /\ host \in HostTypes /\ src \in [Kinds -> Contents] /\ cyc \in Cycles /\ pc = "idle"
        /\ research = "none" /\ transcript = "none"
    BY HostsAssumption, AbsentType, NoCycleType DEF Init
  <2>2. proc \in [Procs -> States] /\ proc["child"] = "gone"
    BY DEF Init, Procs, States
  <2>3. plan \in BOOLEAN
    BY Zenon DEF Init
  <2>4. QED BY <2>1, <2>2, <2>3 DEF Types, Waiting
<1>2. Types /\ [Next]_vars => Types'
  BY WorldTypes, SearchTypes DEF Next, vars, Types
<1>3. QED BY <1>1, <1>2, PTL DEF Spec

\* Files and locals keep their types, and a call waits exactly while the process
\* it started is there (orchestrator.py, source_builder.py).
THEOREM TypeCorrect == Spec => []TypeOK
<1>1. Types => TypeOK
  BY DEF Types, TypeOK, Contents, Cycles, States, Candidates, Waiting
<1>2. QED BY <1>1, TypesCorrect, PTL

-----------------------------------------------------------------------------
(* The plan: it is never removed, and nothing that follows from a build    *)
(* precedes it.                                                            *)

Planned == /\ FallbackIsPlanned
           /\ transcript = "norepo" => plan
           /\ pc \in {"building", "collect"} => plan

\* Every step keeps the plan that an outcome promises.
LEMMA PlannedStep == ASSUME Types, Planned PROVE [Next]_vars => Planned'
<1> USE DEF To, Files, Planned, FallbackIsPlanned
<1>1. cyc \in Cycles
  BY DEF Types
<1>2. CASE UNCHANGED vars
  BY <1>2 DEF vars
<1>3. CASE Age \/ InstallRepo \/ Drop \/ OrphanExits
  BY <1>3 DEF Age, InstallRepo, Drop, OrphanExits, Others
<1>4. CASE \E p \in Procs : BeginCopy(p) \/ EndCopy(p)
  BY <1>4 DEF BeginCopy, EndCopy, Others
<1>5. CASE Crash
  BY <1>5, NoCycleType DEF Crash
<1>6. CASE Stage
  <2>1. pc' \in {"gate", "classify"} /\ cyc'.outcome \in {"none", "ready"} /\ UNCHANGED <<plan, transcript>>
    BY <1>6, NoCycleType DEF Stage, Cycles
  <2>2. QED BY <2>1
<1>7. CASE Gate
  <2>1. /\ pc' \in {"classify", "ask", "resolve"} /\ UNCHANGED <<plan, transcript>>
        /\ cyc'.outcome = "deferred" \/ cyc' = cyc
    BY <1>1, <1>7 DEF Gate, Cycles
  <2>2. QED BY <2>1
<1>8. CASE Resolve \/ Check
  <2>1. pc' \in {"build", "envbuild", "check", "restage"} /\ cyc'.outcome = cyc.outcome
        /\ UNCHANGED <<plan, transcript>>
    BY <1>1, <1>8 DEF Resolve, Check, Request, Cycles
  <2>2. QED BY <2>1
<1>9. CASE EnvBuildEnds
  <2>1. pc' \in {"build", "restage"} /\ cyc'.outcome = cyc.outcome /\ UNCHANGED <<plan, transcript>>
    BY <1>1, <1>9 DEF EnvBuildEnds, Cycles
  <2>2. QED BY <2>1
<1>10. CASE Restage
  <2>1. /\ pc' \in {"build", "classify"} /\ UNCHANGED <<plan, transcript>>
        /\ cyc' = cyc \/ cyc'.outcome = "resolved_from_trusted_source"
    BY <1>1, <1>10 DEF Restage, Cycles
  <2>2. QED BY <2>1
<1>11. CASE Build
  <2>1. CASE transcript = "norepo"
    BY <1>11, <2>1 DEF Build
  <2>2. CASE transcript # "norepo"
    BY <1>11, <2>2 DEF Build
  <2>3. QED BY <2>1, <2>2
<1>12. CASE BuildEnds
  BY <1>12 DEF BuildEnds
<1>13. CASE Collect
  BY <1>13 DEF Collect
<1>14. CASE Classify
  BY <1>14, NoCycleType DEF Classify
<1>15. CASE Download \/ Ask("ask", "asking") \/ Ask("ask_last", "asking_last")
  BY <1>15 DEF Download, Ask
<1>16. CASE Answer("asking", "resolve", cyc) \/ Answer("asking_last", "idle", NoCycle)
  BY <1>16, NoCycleType DEF Answer
<1>17. QED BY <1>2, <1>3, <1>4, <1>5, <1>6, <1>7, <1>8, <1>9, <1>10, <1>11, <1>12, <1>13, <1>14, <1>15,
              <1>16 DEF Next, Search, World

\* A search that ends without artifacts leaves a plan of the build on disk
\* (source_builder.py).
THEOREM PlannedTheorem == Spec => []FallbackIsPlanned
<1>1. Init => Planned
  BY NoCycleType DEF Init, Planned, FallbackIsPlanned
<1>2. Planned => FallbackIsPlanned
  BY DEF Planned
<1>3. QED BY <1>1, <1>2, PlannedStep, TypesCorrect, PTL DEF Spec

-----------------------------------------------------------------------------
(* The origin of the files.  What a search stages was supplied since it    *)
(* began: FirmwareDownloader only works after the search.                  *)

Supplied(by) == \A n \in Kinds : Usable(n) => src[n].from \in by

Origin ==
  /\ OutcomeIsHonest
  /\ pc \in Searching \cup {"envbuild", "build", "building", "collect"} => Supplied({"build", "operator"})
  /\ pc = "restage" => Supplied({"resolver", "build", "operator"})
  /\ pc = "check" => \A n \in Kinds : Usable(n) =>
        src[n].from \in {"build", "operator"} \/ (n = cyc.got /\ src[n].from = "resolver")

\* Whether a file can be used depends on the file and on the maker of the device.
LEMMA UsableSame ==
  ASSUME NEW n \in Kinds, src'[n] = src[n], host'.samsung = host.samsung
  PROVE  Usable(n)' <=> Usable(n)
BY DEF Usable, Present

\* A missing file is not usable.
LEMMA UsableAbsent == ASSUME NEW n \in Kinds, src[n] = Absent PROVE ~Usable(n)
BY DEF Usable, Present

\* A file that has been removed is not usable.
LEMMA UsableGone == ASSUME NEW n \in Kinds, src'[n] = Absent PROVE ~Usable(n)'
BY DEF Usable, Present

\* A quarantine makes nothing usable.
LEMMA QuarantineUsable ==
  ASSUME Types, src' = Quarantined, host' = host, NEW n \in Kinds, Usable(n)'
  PROVE  Usable(n) /\ src'[n] = src[n]
<1>1. src'[n] = src[n] \/ src'[n] = Absent
  BY DEF Quarantined
<1>2. QED BY <1>1, UsableSame, UsableGone

\* A step that writes one file.
LEMMA WriteUsable ==
  ASSUME Types, NEW n \in Kinds, NEW f \in Contents, src' = [src EXCEPT ![n] = f], host' = host
  PROVE  /\ src'[n] = f
         /\ \A m \in Kinds : m # n => src'[m] = src[m] /\ (Usable(m)' <=> Usable(m))
<1>1. src'[n] = f /\ \A m \in Kinds : m # n => src'[m] = src[m]
  BY DEF Types
<1>2. QED BY <1>1, UsableSame

\* Nothing that is usable is staged by nobody.
LEMMA StagedOrigin ==
  ASSUME NEW by, Supplied(by), Staged # {}
  PROVE  Staged \cap by # {}
BY DEF Staged, UsableFiles, Supplied

\* Nothing staged means nothing usable.
LEMMA NoneStaged == Staged = {} => \A n \in Kinds : ~Usable(n)
BY DEF Staged, UsableFiles

\* A copy by a build, or by the operator.
LEMMA OthersWrite ==
  ASSUME Types, Origin, NEW n \in Kinds, NEW f \in Contents, f.from \in {"build", "operator"},
         src' = [src EXCEPT ![n] = f], host' = host, pc' = pc, cyc' = cyc
  PROVE  Origin'
<1>1. /\ src'[n].from \in {"build", "operator"}
      /\ \A m \in Kinds : m # n => src'[m] = src[m] /\ (Usable(m)' <=> Usable(m))
  BY WriteUsable
<1>2. QED BY <1>1 DEF Origin, OutcomeIsHonest, Supplied

\* A step that leaves the files alone.
LEMMA FilesSame ==
  ASSUME src' = src, host'.samsung = host.samsung
  PROVE  \A n \in Kinds : src'[n] = src[n] /\ (Usable(n)' <=> Usable(n))
BY UsableSame

\* Operator, processes and crashes leave the origins as they were told.
LEMMA OriginWorld == ASSUME Types, Origin PROVE World => Origin'
<1>1. CASE Age \/ OrphanExits \/ InstallRepo
  <2>1. src' = src /\ host'.samsung = host.samsung /\ pc' = pc /\ cyc' = cyc
    BY <1>1 DEF Age, OrphanExits, InstallRepo, Others, Types, HostTypes
  <2>2. QED BY <2>1, FilesSame DEF Origin, OutcomeIsHonest, Supplied
<1>2. CASE Drop
  <2>1. /\ [size |-> 200, whole |-> TRUE, from |-> "operator"] \in Contents
        /\ [size |-> 200, whole |-> TRUE, from |-> "operator"].from \in {"build", "operator"}
    BY DEF Contents, Origins
  <2>2. QED BY <1>2, <2>1, OthersWrite DEF Drop, Others
<1>3. CASE Crash
  BY <1>3, NoCycleType DEF Crash, Origin, OutcomeIsHonest, Searching
<1>4. ASSUME NEW p \in Procs, BeginCopy(p) PROVE Origin'
  <2>1. PICK n \in Kinds \cap {"ota", "boot", "bundle"}, s \in Sizes :
          src' = [src EXCEPT ![n] = [size |-> s, whole |-> FALSE, from |-> "build"]]
    BY <1>4 DEF BeginCopy
  <2>2. /\ [size |-> s, whole |-> FALSE, from |-> "build"] \in Contents
        /\ [size |-> s, whole |-> FALSE, from |-> "build"].from \in {"build", "operator"}
    BY SizesAssumption DEF Contents, Origins
  <2>3. QED BY <1>4, <2>1, <2>2, OthersWrite DEF BeginCopy, Others
<1>5. ASSUME NEW p \in Procs, EndCopy(p) PROVE Origin'
  <2>1. PICK s \in Sizes :
          src' = [src EXCEPT ![proc[p]] = [size |-> s, whole |-> TRUE, from |-> "build"]]
    BY <1>5 DEF EndCopy
  <2>2. /\ [size |-> s, whole |-> TRUE, from |-> "build"] \in Contents
        /\ [size |-> s, whole |-> TRUE, from |-> "build"].from \in {"build", "operator"}
    BY SizesAssumption DEF Contents, Origins
  <2>3. QED BY <1>5, <2>1, <2>2, OthersWrite DEF EndCopy, Others
<1>6. QED BY <1>1, <1>2, <1>3, <1>4, <1>5 DEF World

\* Every stage of the search tells the origin of what it takes.
LEMMA OriginSearch == ASSUME Types, Origin PROVE Search => Origin'
<1> USE DEF To, Files
<1>1. cyc \in Cycles
  BY DEF Types
<1>2. CASE Stage
  <2>1. src' = src /\ host' = host /\ cyc'.outcome \in {"none", "ready"}
        /\ (pc' = "classify" \/ (pc' = "gate" /\ Staged = {}))
    BY <1>2, NoCycleType DEF Stage, Cycles
  <2>2. pc' = "gate" => \A n \in Kinds : ~Usable(n)'
    <3>1. Staged = {} => \A n \in Kinds : ~Usable(n)
      BY NoneStaged
    <3>2. \A n \in Kinds : Usable(n)' <=> Usable(n)
      BY <2>1, FilesSame
    <3>3. QED BY <2>1, <3>1, <3>2
  <2>3. QED BY <2>1, <2>2 DEF Origin, OutcomeIsHonest, Supplied, Searching
<1>3. CASE Gate
  <2>1. /\ src' = Quarantined /\ host' = host /\ pc = "gate" /\ pc' \in {"classify", "ask", "resolve"}
        /\ cyc'.outcome = "deferred" \/ cyc' = cyc
    BY <1>1, <1>3 DEF Gate, Cycles
  <2>2. Supplied({"build", "operator"})
    BY <2>1 DEF Origin, Searching
  <2>3. Supplied({"build", "operator"})'
    BY <2>1, <2>2, QuarantineUsable DEF Supplied
  <2>4. QED BY <2>1, <2>3 DEF Origin, OutcomeIsHonest, Searching
<1>4. CASE Resolve
  <2>1. pc = "resolve" /\ Supplied({"build", "operator"})
    BY <1>4 DEF Resolve, Origin, Searching
  <2>2. CASE To("build", cyc) /\ Files
    <3>1. Supplied({"build", "operator"})'
      BY <2>1, <2>2, FilesSame DEF Supplied
    <3>2. QED BY <2>2, <3>1 DEF Origin, OutcomeIsHonest
  <2>3. CASE \E bare \in BOOLEAN : Request(bare) /\ UNCHANGED <<src, research, plan, transcript>>
    <3>1. /\ host' = host /\ src' = src /\ pc' \in {"build", "envbuild"}
          /\ cyc'.outcome = cyc.outcome /\ cyc'.staged = cyc.staged
      BY <2>1, <2>3, RequestTypes DEF Waiting
    <3>2. Supplied({"build", "operator"})'
      BY <2>1, <3>1, FilesSame DEF Supplied
    <3>3. QED BY <3>1, <3>2 DEF Origin, OutcomeIsHonest
  <2>4. ASSUME NEW n \in Candidates, NEW s \in Sizes, NEW copy \in Copies(s, "resolver"),
               src' = [src EXCEPT ![n] = copy], To("check", [cyc EXCEPT !.got = n])
        PROVE  Origin'
    <3>1. copy \in Contents /\ n \in Kinds /\ copy.from = "resolver"
      BY SizesAssumption DEF Copies, Contents, Origins, Candidates
    <3>2. /\ cyc'.got = n /\ cyc'.outcome = cyc.outcome /\ cyc'.staged = cyc.staged
          /\ host' = host /\ pc' = "check"
      BY <1>1, <2>4 DEF Cycles
    <3>3. /\ src'[n] = copy
          /\ \A m \in Kinds : m # n => src'[m] = src[m] /\ (Usable(m)' <=> Usable(m))
      BY <2>4, <3>1, <3>2, WriteUsable
    <3>4. QED BY <2>1, <3>1, <3>2, <3>3 DEF Origin, OutcomeIsHonest, Supplied, Searching
  <2>5. QED BY <1>4, <2>2, <2>3, <2>4 DEF Resolve
<1>5. CASE Check
  <2>1. /\ pc = "check" /\ cyc.got \in Kinds
        /\ \A n \in Kinds : Usable(n) =>
             src[n].from \in {"build", "operator"} \/ (n = cyc.got /\ src[n].from = "resolver")
    BY <1>5 DEF Check, Origin, Types, Candidates
  <2>2. CASE src' = [src EXCEPT ![cyc.got] = Absent] /\ Request(FALSE)
    <3>1. /\ host' = host /\ pc' \in {"build", "envbuild"}
          /\ cyc'.outcome = cyc.outcome /\ cyc'.staged = cyc.staged
      BY <2>1, <2>2, RequestTypes DEF Waiting
    <3>2. /\ \A m \in Kinds : m = cyc.got => ~Usable(m)'
          /\ \A m \in Kinds : m # cyc.got => src'[m] = src[m] /\ (Usable(m)' <=> Usable(m))
      <4>1. src'[cyc.got] = Absent
        BY <2>1, <2>2 DEF Types
      <4>2. \A m \in Kinds : m = cyc.got => ~Usable(m)'
        BY <4>1, UsableGone
      <4>3. QED BY <2>1, <2>2, <3>1, <4>2, AbsentType, WriteUsable
    <3>3. Supplied({"build", "operator"})'
      BY <2>1, <3>2 DEF Supplied
    <3>4. QED BY <3>1, <3>3 DEF Origin, OutcomeIsHonest
  <2>3. CASE src[cyc.got].size > 10 /\ To("restage", [cyc EXCEPT !.got = "none"]) /\ src' = src
    <3>1. /\ host' = host /\ pc' = "restage" /\ src' = src
          /\ cyc'.outcome = cyc.outcome /\ cyc'.staged = cyc.staged
      BY <1>1, <2>3 DEF Cycles
    <3>2. Supplied({"resolver", "build", "operator"})'
      BY <2>1, <3>1, FilesSame DEF Supplied
    <3>3. QED BY <3>1, <3>2 DEF Origin, OutcomeIsHonest, Searching
  <2>4. QED BY <1>5, <2>2, <2>3 DEF Check
<1>6. CASE EnvBuildEnds
  <2>1. /\ src' = src /\ host' = host /\ pc = "envbuild" /\ pc' \in {"restage", "build"}
        /\ cyc'.outcome = cyc.outcome /\ cyc'.staged = cyc.staged
    BY <1>1, <1>6 DEF EnvBuildEnds, Cycles
  <2>2. Supplied({"build", "operator"})'
    BY <2>1, FilesSame DEF Origin, Supplied
  <2>3. QED BY <2>1, <2>2 DEF Origin, OutcomeIsHonest, Supplied, Searching
<1>7. CASE Restage
  <2>1. pc = "restage" /\ src' = src /\ host' = host /\ Supplied({"resolver", "build", "operator"})
    BY <1>7 DEF Restage, Origin
  <2>2. CASE Staged = {}
    <3>1. pc' = "build" /\ cyc' = cyc
      BY <1>7, <2>2 DEF Restage
    <3>2. \A n \in Kinds : ~Usable(n)'
      <4>1. \A n \in Kinds : ~Usable(n)
        BY <2>2, NoneStaged
      <4>2. QED BY <2>1, <4>1, FilesSame
    <3>3. QED BY <3>1, <3>2 DEF Origin, OutcomeIsHonest, Supplied
  <2>3. CASE Staged # {}
    <3>1. pc' = "classify" /\ cyc'.outcome = "resolved_from_trusted_source" /\ cyc'.staged = Staged
      BY <1>1, <1>7, <2>3 DEF Restage, Cycles
    <3>2. Staged \cap {"resolver", "build", "operator"} # {}
      BY <2>1, <2>3, StagedOrigin
    <3>3. QED BY <3>1, <3>2 DEF Origin, OutcomeIsHonest, Searching
  <2>4. QED BY <2>2, <2>3
<1>8. CASE Build
  <2>1. /\ pc = "build" /\ src' = src /\ host' = host /\ pc' \in {"classify", "collect", "building"}
        /\ cyc' = cyc \/ cyc'.outcome = "blocked_by_host_prerequisite"
    BY <1>1, <1>8 DEF Build, Cycles
  <2>2. Supplied({"build", "operator"})'
    BY <2>1, FilesSame DEF Origin, Supplied
  <2>3. QED BY <2>1, <2>2 DEF Origin, OutcomeIsHonest, Searching
<1>9. CASE BuildEnds
  <2>1. pc = "building" /\ src' = src /\ host' = host /\ pc' = "collect" /\ cyc' = cyc
    BY <1>9 DEF BuildEnds
  <2>2. Supplied({"build", "operator"})'
    BY <2>1, FilesSame DEF Origin, Supplied
  <2>3. QED BY <2>1, <2>2 DEF Origin, OutcomeIsHonest, Searching
<1>10. CASE Collect
  <2>1. /\ pc' = "classify" /\ cyc'.staged = Staged
        /\ cyc'.outcome = IF Staged = {} THEN "build_pending" ELSE "built_from_source"
    BY <1>1, <1>10 DEF Collect, Cycles
  <2>2. Supplied({"build", "operator"})
    BY <1>10 DEF Collect, Origin
  <2>3. Staged # {} => Staged \cap {"build", "operator"} # {}
    BY <2>2, StagedOrigin
  <2>4. QED BY <2>1, <2>3 DEF Origin, OutcomeIsHonest, Searching
<1>11. CASE Classify
  <2>1. cyc' = NoCycle /\ pc' \in {"idle", "ask_last", "download"}
    BY <1>11 DEF Classify
  <2>2. QED BY <2>1, NoCycleType DEF Origin, OutcomeIsHonest, Searching
<1>12. CASE Download \/ Ask("ask_last", "asking_last")
  BY <1>12 DEF Download, Ask, Origin, OutcomeIsHonest, Searching
<1>13. CASE Answer("asking_last", "idle", NoCycle)
  BY <1>13, NoCycleType DEF Answer, Origin, OutcomeIsHonest, Searching
<1>14. CASE Ask("ask", "asking") \/ Answer("asking", "resolve", cyc)
  <2>1. /\ src' = src /\ host' = host /\ pc \in Searching /\ pc' \in {"asking", "resolve"} /\ cyc' = cyc
    BY <1>14 DEF Ask, Answer, Searching
  <2>2. Supplied({"build", "operator"})'
    BY <2>1, FilesSame DEF Origin, Supplied
  <2>3. QED BY <2>1, <2>2 DEF Origin, OutcomeIsHonest
<1>15. QED BY <1>2, <1>3, <1>4, <1>5, <1>6, <1>7, <1>8, <1>9, <1>10, <1>11, <1>12, <1>13, <1>14 DEF Search

\* What the cycle says about the origin of its artifacts is so
\* (orchestrator.py, the outcomes of the source acquisition).
THEOREM HonestTheorem == Spec => []OutcomeIsHonest
<1>1. Init => Origin
  BY NoCycleType DEF Init, Origin, OutcomeIsHonest, Searching
<1>2. Types /\ Origin /\ [Next]_vars => Origin'
  <2> SUFFICES ASSUME Types, Origin, [Next]_vars PROVE Origin'
    OBVIOUS
  <2>1. CASE UNCHANGED vars
    <3>1. src' = src /\ host' = host /\ pc' = pc /\ cyc' = cyc
      BY <2>1 DEF vars
    <3>2. QED BY <3>1, FilesSame DEF Origin, OutcomeIsHonest, Supplied
  <2>2. QED BY <2>1, OriginWorld, OriginSearch DEF Next
<1>3. Origin => OutcomeIsHonest
  BY DEF Origin
<1>4. QED BY <1>1, <1>2, <1>3, TypesCorrect, PTL DEF Spec

-----------------------------------------------------------------------------
(* What a search may overwrite, as long as no build outlives its wait.     *)

Harmless ==
  proc["orphan"] = "never" =>
    /\ pc \in Searching => \A n \in Kinds : Usable(n) => n = "mine"
    /\ pc = "download" => \A n \in Kinds : n = "mine" \/ ~Plausible(src, n)

\* A step that leaves the files alone and goes nowhere near a download.
LEMMA HarmlessSame ==
  ASSUME Harmless, src' = src, host'.samsung = host.samsung,
         proc'["orphan"] = "never" => proc["orphan"] = "never",
         pc' \in Searching => pc \in Searching,
         pc' = "download" => pc = "download"
  PROVE  Harmless'
BY FilesSame DEF Harmless, Plausible

\* A step that leads away from a search.
LEMMA HarmlessAway ==
  ASSUME pc' \notin Searching, pc' # "download" PROVE Harmless'
BY DEF Harmless

\* Every step keeps the search away from usable files.
LEMMA HarmlessStep == ASSUME Types, Harmless PROVE [Next]_vars => Harmless'
<1> USE DEF To, Files
<1>1. proc \in [Procs -> States] /\ proc["child"] # "never"
  BY DEF Types
<1>2. CASE UNCHANGED vars \/ Age \/ OrphanExits \/ InstallRepo
  <2>1. /\ src' = src /\ host'.samsung = host.samsung /\ pc' = pc
        /\ proc'["orphan"] = "never" => proc["orphan"] = "never"
    BY <1>1, <1>2 DEF vars, Age, OrphanExits, InstallRepo, Others, Types, HostTypes, Procs
  <2>2. QED BY <2>1, HarmlessSame
<1>3. CASE Drop
  <2>1. [size |-> 200, whole |-> TRUE, from |-> "operator"] \in Contents
    BY DEF Contents, Origins
  <2>2. /\ "mine" \in Kinds /\ pc' = pc /\ proc' = proc /\ host' = host
        /\ src' = [src EXCEPT !["mine"] = [size |-> 200, whole |-> TRUE, from |-> "operator"]]
    BY <1>3 DEF Drop, Others
  <2>3. \A m \in Kinds : m # "mine" => src'[m] = src[m] /\ (Usable(m)' <=> Usable(m))
    BY <2>1, <2>2, WriteUsable
  <2>4. QED BY <2>2, <2>3 DEF Harmless, Plausible
<1>4. CASE Crash
  BY <1>4, HarmlessAway DEF Crash, Searching
<1>5. ASSUME NEW p \in Procs, BeginCopy(p) \/ EndCopy(p) PROVE Harmless'
  <2>1. CASE p = "child"
    <3>1. proc["child"] # "gone" /\ pc' = pc
      BY <1>5, <2>1, KindsAssumption DEF BeginCopy, EndCopy, Others, AllKinds
    <3>2. pc' \in Waiting
      BY <3>1 DEF Types
    <3>3. QED BY <3>2, HarmlessAway DEF Waiting, Searching
  <2>2. CASE p = "orphan"
    <3>1. proc'["orphan"] # "never"
      BY <1>1, <1>5, <2>2, KindsAssumption DEF BeginCopy, EndCopy, AllKinds, Procs
    <3>2. QED BY <3>1 DEF Harmless
  <2>3. QED BY <2>1, <2>2 DEF Procs
<1>6. CASE Stage
  <2>1. src' = src /\ host' = host /\ (pc' = "classify" \/ (pc' = "gate" /\ Staged = {}))
    BY <1>6 DEF Stage
  <2>2. pc' = "gate" => \A n \in Kinds : ~Usable(n)'
    <3>1. Staged = {} => \A n \in Kinds : ~Usable(n)
      BY NoneStaged
    <3>2. \A n \in Kinds : Usable(n)' <=> Usable(n)
      BY <2>1, FilesSame
    <3>3. QED BY <2>1, <3>1, <3>2
  <2>3. QED BY <2>1, <2>2 DEF Harmless, Searching
<1>7. CASE Gate
  <2>1. /\ src' = Quarantined /\ host' = host /\ proc' = proc /\ pc = "gate"
        /\ pc' \in {"classify", "ask", "resolve"}
    BY <1>7 DEF Gate
  <2>2. QED BY <2>1, QuarantineUsable DEF Harmless, Searching
<1>8. CASE Resolve \/ Check \/ EnvBuildEnds \/ Restage \/ Build \/ BuildEnds \/ Collect
           \/ Download \/ Ask("ask_last", "asking_last") \/ Answer("asking_last", "idle", NoCycle)
  <2>1. pc' \in {"build", "envbuild", "check", "restage", "classify", "collect", "building", "ask_last",
                 "asking_last", "idle"}
    BY <1>8 DEF Resolve, Request, Check, EnvBuildEnds, Restage, Build, BuildEnds, Collect, Download, Ask, Answer
  <2>2. QED BY SMTT(30), <2>1, HarmlessAway DEF Searching
<1>9. CASE Ask("ask", "asking") \/ Answer("asking", "resolve", cyc)
  <2>1. /\ src' = src /\ host' = host /\ proc' = proc /\ pc \in Searching /\ pc' \in {"asking", "resolve"}
    BY <1>9 DEF Ask, Answer, Searching
  <2>2. QED BY <2>1, HarmlessSame
<1>10. CASE Classify
  <2>1. CASE pc' = "download"
    <3>1. src' = Quarantined /\ \A n \in Kinds : ~Plausible(Quarantined, n)
      BY <1>10, <2>1 DEF Classify
    <3>2. QED BY <2>1, <3>1 DEF Harmless, Searching
  <2>2. CASE pc' # "download"
    <3>1. pc' \notin Searching
      BY <1>10, <2>2 DEF Classify, Searching
    <3>2. QED BY <2>2, <3>1, HarmlessAway
  <2>3. QED BY <2>1, <2>2
<1>11. QED BY <1>2, <1>3, <1>4, <1>5, <1>6, <1>7, <1>8, <1>9, <1>10 DEF Next, Search, World

\* One step of a search, with no build under way.
LEMMA KeepsStep ==
  ASSUME Types, Harmless, Next, proc["orphan"] = "never", proc["child"] = "gone",
         NEW n \in Kinds \ {cyc.got}, Usable(n), src[n].size >= 1, ~Rejected(n)
  PROVE  Usable(n)'
<1> USE DEF To, Files
<1>1. CASE src' = src /\ host'.samsung = host.samsung
  BY <1>1, FilesSame
<1>2. CASE src' = Quarantined /\ host' = host
  <2>1. Quarantined = src
    BY DEF Quarantined, Usable
  <2>2. QED BY <1>2, <2>1, FilesSame
<1>3. CASE Drop
  <2>1. [size |-> 200, whole |-> TRUE, from |-> "operator"] \in Contents
    BY DEF Contents, Origins
  <2>2. n # "mine"
    BY <1>3 DEF Drop, Usable
  <2>3. QED BY ZenonT(40), <1>3, <2>1, <2>2, WriteUsable DEF Drop
<1>4. CASE Resolve
  <2>1. CASE src' = src /\ host' = host
    BY <1>1, <2>1
  <2>2. ASSUME NEW m \in Candidates, NEW s \in Sizes, NEW copy \in Copies(s, "resolver"),
               src' = [src EXCEPT ![m] = copy], host' = host
        PROVE  Usable(n)'
    <3>1. copy \in Contents /\ m \in Kinds /\ m # "mine"
      BY SizesAssumption DEF Copies, Contents, Origins, Candidates
    <3>2. n = "mine"
      BY <1>4 DEF Harmless, Resolve, Searching
    <3>3. QED BY <2>2, <3>1, <3>2, WriteUsable
  <2>3. QED BY <1>4, <2>1, <2>2 DEF Resolve, Request
<1>5. CASE Check
  <2>1. CASE src' = src /\ host' = host
    BY <1>1, <2>1
  <2>2. CASE src' = [src EXCEPT ![cyc.got] = Absent] /\ host' = host
    <3>1. cyc.got \in Kinds
      BY <1>5 DEF Check, Types, Candidates
    <3>2. QED BY <2>2, <3>1, AbsentType, WriteUsable
  <2>3. QED BY <1>5, <2>1, <2>2 DEF Check, Request
<1>6. CASE Download
  <2>1. CASE src' = src
    BY <1>1, <1>6, <2>1 DEF Download
  <2>2. ASSUME NEW m \in Candidates, NEW s \in Sizes, NEW copy \in Copies(s, "downloader"),
               src' = [src EXCEPT ![m] = copy]
        PROVE  Usable(n)'
    <3>1. copy \in Contents /\ m \in Kinds /\ m # "mine"
      BY SizesAssumption DEF Copies, Contents, Origins, Candidates
    <3>2. n = "mine" \/ ~Plausible(src, n)
      BY <1>6 DEF Harmless, Download
    <3>3. n # "gsi"
      BY DEF Usable
    <3>4. n = "mine"
      BY <3>2, <3>3 DEF Plausible
    <3>5. QED BY <1>6, <2>2, <3>1, <3>4, WriteUsable DEF Download
  <2>3. QED BY <1>6, <2>1, <2>2 DEF Download
<1>7. CASE \E p \in Procs : BeginCopy(p) \/ EndCopy(p)
  BY <1>7, KindsAssumption DEF BeginCopy, EndCopy, Procs, AllKinds
<1>8. CASE Gate
  BY <1>2, <1>8 DEF Gate
<1>9. CASE Classify
  <2>1. (src' = src \/ src' = Quarantined) /\ host' = host
    BY <1>9 DEF Classify
  <2>2. QED BY <1>1, <1>2, <2>1
<1>10. CASE Age \/ InstallRepo \/ Crash \/ OrphanExits
  BY <1>1, <1>10 DEF Age, InstallRepo, Crash, OrphanExits, Types, HostTypes
<1>11. CASE Stage \/ EnvBuildEnds \/ Restage \/ Build \/ BuildEnds \/ Collect
            \/ Ask("ask", "asking") \/ Answer("asking", "resolve", cyc)
            \/ Ask("ask_last", "asking_last") \/ Answer("asking_last", "idle", NoCycle)
  <2>1. src' = src /\ host' = host
    BY <1>11 DEF Stage, EnvBuildEnds, Restage, Build, BuildEnds, Collect, Ask, Answer
  <2>2. QED BY <1>1, <2>1
<1>12. QED BY <1>3, <1>4, <1>5, <1>6, <1>7, <1>8, <1>9, <1>10, <1>11 DEF Next, Search, World

\* As long as no build outlives its wait, no step takes away a file that could
\* be installed (firmware_downloader.py, starter_troubleshooting.py).
THEOREM KeepsTheorem == Spec => KeepsInstallable
<1>1. Init => Harmless
  BY DEF Init, Harmless, Searching
<1>2. Types /\ Harmless /\ [Next]_vars =>
        [proc["orphan"] = "never" /\ proc["child"] = "gone"
           => \A n \in Kinds \ {cyc.got} :
                Usable(n) /\ src[n].size >= 1 /\ ~Rejected(n) => Usable(n)']_vars
  BY KeepsStep
<1>3. QED BY <1>1, <1>2, HarmlessStep, TypesCorrect, PTL DEF Spec, KeepsInstallable
==============================================================================
