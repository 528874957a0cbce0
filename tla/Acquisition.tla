---------------------------- MODULE Acquisition ----------------------------
(***************************************************************************)
(* How a session gets the files it will flash: one runtime cycle at a time *)
(* stages what is in artifacts/os-source (image_builder), and, when that   *)
(* is not enough, asks for research, downloads (source_resolver), builds   *)
(* (source_builder) and, as remediation of a source blocker, downloads     *)
(* again (FirmwareDownloader).  Build scripts are processes of their own:  *)
(* a timeout ends the wait for them, not what they have started.           *)
(*                                                                         *)
(* A file is known by the kind its name gives it; its content is a size in *)
(* MiB, whether it is whole, and who put it there.  Which page, URL or     *)
(* model answer leads to a file is left open.                              *)
(***************************************************************************)
EXTENDS Integers, FiniteSets

CONSTANTS Kinds,  \* kinds of files that occur
          Sizes,  \* sizes a download or a build may have, in MiB
          Hosts   \* machines and devices: records of HostTypes

(* ota    a ZIP with an update binary      boot   boot.img, a fastboot image
   twrp   twrp-<codename>.img              gsi    system-arm64-ab.img.xz
   wrong  an OTA named for another ABI     bundle stock-hardening-...tar.gz
   mine   update.zip, put there by the operator                            *)
AllKinds == {"ota", "boot", "twrp", "gsi", "wrong", "bundle", "mine"}

HostTypes == [repo : BOOLEAN,      \* Android's repo tool is installed
              builds : BOOLEAN,    \* policy.allow_long_source_builds
              command : BOOLEAN,   \* FORGEOS_ANDROID_BUILD_COMMAND
              env : BOOLEAN,       \* FORGEOS_ALLOW_SOURCE_BUILDS
              codename : BOOLEAN,  \* the device's codename is known
              samsung : BOOLEAN]

ASSUME KindsAssumption == Kinds \subseteq AllKinds
ASSUME SizesAssumption == Sizes \subseteq Nat
ASSUME HostsAssumption == Hosts \subseteq HostTypes

VARIABLES host,
          src,        \* artifacts/os-source: per kind its content
          research,   \* firmware_sources.json: "none", "torn", "fresh" or "stale"
          plan,       \* source-build-plan.json has been written
          transcript, \* build-transcript.json: "none", "norepo" or "other"
          proc,       \* build processes: "never", "gone", "building" or the kind being copied
          pc, cyc,    \* the cycle and its locals
          crashed     \* history

vars == <<host, src, research, plan, transcript, proc, pc, cyc, crashed>>

Absent     == [size |-> 0, whole |-> FALSE, from |-> "nobody"]
Present(n) == src[n] # Absent
Procs      == {"child", "orphan"}

NoCycle == [executes |-> FALSE, got |-> "none", bare |-> FALSE, outcome |-> "none", staged |-> {}]

Init ==
  /\ host \in Hosts
  /\ src = [n \in Kinds |-> Absent]
  /\ research = "none" /\ plan = FALSE /\ transcript = "none"
  /\ proc = [child |-> "gone", orphan |-> "never"]
  /\ pc = "idle" /\ cyc = NoCycle /\ crashed = FALSE

-----------------------------------------------------------------------------
(* What the tools make of the files.                                       *)

\* image_builder: a ZIP must open, which a truncated one does not; an image must
\* have a name it knows and one MiB.
Usable(n) ==
  /\ Present(n)
  /\ \/ n \in {"ota", "wrong", "mine"} /\ src[n].whole
     \/ n \in (IF host.samsung THEN {"boot", "twrp"} ELSE {"boot"}) /\ src[n].size >= 1
UsableFiles == {n \in Kinds : Usable(n)}

\* Who supplied what image_builder stages; it is ready when there is someone.
Staged == {src[n].from : n \in UsableFiles}

\* _has_plausible_source_artifact
Plausible(files, n) == n # "gsi" /\ files[n].size >= 1

\* _built_outputs
Output(n) == n # "gsi" /\ src[n].size > 10

\* _artifact_rejection_reason
Rejected(n) == n \in {"gsi", "wrong"} /\ Present(n)

\* StarterTroubleshootingLoop: rejected files are moved to artifacts/rejected when
\* there is no other file.
Quarantined == IF \A n \in Kinds : Present(n) => Rejected(n)
               THEN [n \in Kinds |-> Absent] ELSE src

-----------------------------------------------------------------------------
(* The world.                                                              *)

Others == UNCHANGED <<pc, cyc>>

Age         == /\ research = "fresh" /\ research' = "stale"
               /\ UNCHANGED <<host, src, plan, transcript, proc, crashed>> /\ Others
InstallRepo == /\ ~host.repo /\ host' = [host EXCEPT !.repo = TRUE]
               /\ UNCHANGED <<src, research, plan, transcript, proc, crashed>> /\ Others
Drop        == /\ "mine" \in Kinds /\ ~Present("mine")
               /\ src' = [src EXCEPT !["mine"] = [size |-> 200, whole |-> TRUE, from |-> "operator"]]
               /\ UNCHANGED <<host, research, plan, transcript, proc, crashed>> /\ Others

\* The program dies; a build it has started goes on.
Crash == /\ ~crashed /\ crashed' = TRUE
         /\ pc' = "idle" /\ cyc' = NoCycle
         /\ proc' = IF proc["child"] = "gone" THEN proc
                    ELSE [child |-> "gone", orphan |-> proc["child"]]
         /\ UNCHANGED <<host, src, research, plan, transcript>>

\* A build script copies a result of more than 10 MiB with cp, and exits.
BeginCopy(p) ==
  /\ proc[p] = "building"
  /\ \E n \in Kinds \cap {"ota", "boot", "bundle"}, s \in Sizes :
       /\ src' = [src EXCEPT ![n] = [size |-> s, whole |-> FALSE, from |-> "build"]]
       /\ proc' = [proc EXCEPT ![p] = n]
  /\ UNCHANGED <<host, research, plan, transcript, crashed>> /\ Others
EndCopy(p) ==
  /\ proc[p] \in Kinds
  /\ \E s \in {x \in Sizes : x > 10} :
       src' = [src EXCEPT ![proc[p]] = [size |-> s, whole |-> TRUE, from |-> "build"]]
  /\ proc' = [proc EXCEPT ![p] = "building"]
  /\ UNCHANGED <<host, research, plan, transcript, crashed>> /\ Others
OrphanExits ==
  /\ proc["orphan"] = "building" /\ proc' = [proc EXCEPT !["orphan"] = "gone"]
  /\ UNCHANGED <<host, src, research, plan, transcript, crashed>> /\ Others

-----------------------------------------------------------------------------
(* _resolve_missing_source_artifacts.                                      *)

To(p, c) == pc' = p /\ cyc' = c /\ UNCHANGED <<host, crashed>>
Files    == UNCHANGED <<src, research, plan, transcript, proc>>

\* Mutant of Stage: the search goes on whatever is staged.
Stage_AlwaysSearches ==
  /\ pc = "idle"
  /\ \E executes \in BOOLEAN : To("gate", [NoCycle EXCEPT !.executes = executes])
  /\ Files

\* A cycle begins, with or without workers: image_builder looks at the files.
Stage ==
  /\ pc = "idle"
  /\ \E executes \in BOOLEAN :
       IF Staged = {} THEN To("gate", [NoCycle EXCEPT !.executes = executes])
       ELSE To("classify", [NoCycle EXCEPT !.executes = executes, !.outcome = "ready", !.staged = Staged])
  /\ Files

\* The gate before the search never says no: it is told the machine may act.  Then
\* the search is put off without workers, on a research-only path, and without the
\* attestation of lawful use.
Gate ==
  /\ pc = "gate"
  /\ src' = Quarantined
  /\ \/ To("classify", [cyc EXCEPT !.outcome = "deferred"])
     \/ cyc.executes /\ To(IF research = "none" THEN "ask" ELSE "resolve", cyc)
  /\ UNCHANGED <<research, plan, transcript, proc>>

\* ResearchWorker writes its answer, or the fallback, in place.
Ask(at, then) ==
  /\ pc = at /\ research' = "torn" /\ To(then, cyc)
  /\ UNCHANGED <<src, plan, transcript, proc>>
Answer(at, then, c) ==
  /\ pc = at /\ research' = "fresh" /\ To(then, c)
  /\ UNCHANGED <<src, plan, transcript, proc>>

\* _write_build_request, and the configured build when the environment has one.
\* bare: there was no candidate.
Request(bare) ==
  IF host.env /\ host.command
  THEN /\ proc' = [proc EXCEPT !["child"] = "building"]
       /\ To("envbuild", [cyc EXCEPT !.bare = bare, !.got = "none"])
  ELSE /\ To("build", [cyc EXCEPT !.got = "none"])
       /\ UNCHANGED proc

\* What the research, the pages of trusted hosts and the models may lead to: files
\* of any kind but the operator's own and the bundle only a build makes.
Candidates == Kinds \ {"mine", "bundle"}

\* A copy that a connection closed early has cut off is not told from a whole one.
Copies(s, by) == {[size |-> s, whole |-> w, from |-> by] : w \in BOOLEAN}

\* source_resolver.run up to the end of the download of its best candidate.
Resolve ==
  /\ pc = "resolve"
  /\ \/ /\ research # "fresh"
        /\ To("build", cyc)
        /\ Files
     \/ /\ research = "fresh"
        /\ \E bare \in BOOLEAN : Request(bare)
        /\ UNCHANGED <<src, research, plan, transcript>>
     \/ /\ research = "fresh"
        /\ \E n \in Candidates, s \in Sizes : \E copy \in Copies(s, "resolver") :
             /\ src' = [src EXCEPT ![n] = copy]
             /\ To("check", [cyc EXCEPT !.got = n])
        /\ UNCHANGED <<research, plan, transcript, proc>>

\* The size is looked at when the file has its name; touch_fetched_at.
Check ==
  /\ pc = "check"
  /\ \/ /\ src[cyc.got].size <= 10
        /\ src' = [src EXCEPT ![cyc.got] = Absent]
        /\ Request(FALSE)
        /\ UNCHANGED <<research, plan, transcript>>
     \/ /\ src[cyc.got].size > 10
        /\ research' = "fresh"
        /\ To("restage", [cyc EXCEPT !.got = "none"])
        /\ UNCHANGED <<src, plan, transcript, proc>>

\* The wait for a build ends with its exit, or with the timeout, which leaves
\* what the script has started running.
Exit == proc["child"] = "building" /\ proc' = [proc EXCEPT !["child"] = "gone"]

\* Mutant of Timeout: the call goes on and still has the process.
Timeout_Keeps == proc["child"] # "gone" /\ proc' = proc

Timeout == /\ proc["child"] # "gone" /\ proc["orphan"] \in {"never", "gone"}
           /\ proc' = [child |-> "gone", orphan |-> proc["child"]]

EnvBuildEnds ==
  /\ pc = "envbuild"
  /\ Exit \/ Timeout
  /\ IF cyc.bare /\ \E n \in Kinds : Output(n)
     THEN To("restage", [cyc EXCEPT !.bare = FALSE])
     ELSE To("build", [cyc EXCEPT !.bare = FALSE])
  /\ UNCHANGED <<src, research, plan, transcript>>

\* Mutant of Restage: an "ok" of the resolver is taken for staged artifacts.
Restage_Trusts ==
  /\ pc = "restage"
  /\ To("classify", [cyc EXCEPT !.outcome = "resolved_from_trusted_source", !.staged = Staged])
  /\ Files

\* image_builder again: what the resolver found may be of no use to it.
Restage ==
  /\ pc = "restage"
  /\ IF Staged = {} THEN To("build", cyc)
     ELSE To("classify", [cyc EXCEPT !.outcome = "resolved_from_trusted_source", !.staged = Staged])
  /\ Files

-----------------------------------------------------------------------------
(* source_builder.                                                         *)

\* _select_strategy: the operator's command; LineageOS for a known device, unless the
\* research says it is not supported; a bundle of the stock system for some goals;
\* else generic Android.  The scripts of two of them end at once without repo.
Strategies == IF host.command THEN {"configured"}
              ELSE {"stock", "aosp"} \cup (IF host.codename THEN {"lineage"} ELSE {})
Fails(strategy) == strategy \in {"lineage", "aosp"} /\ ~host.repo

\* Mutant of Build: the plan is only written when nothing is going to run.
Build_RunsFirst ==
  /\ pc = "build"
  /\ \/ /\ transcript = "norepo"
        /\ To("classify", [cyc EXCEPT !.outcome = "blocked_by_host_prerequisite"])
        /\ Files
     \/ /\ transcript # "norepo"
        /\ \/ /\ ~host.builds /\ plan' = TRUE /\ To("collect", cyc) /\ UNCHANGED <<transcript, proc>>
           \/ /\ host.builds /\ \E strategy \in Strategies : Fails(strategy) /\ UNCHANGED plan
              /\ transcript' = "norepo" /\ To("collect", cyc) /\ UNCHANGED proc
           \/ /\ host.builds /\ \E strategy \in Strategies : ~Fails(strategy) /\ UNCHANGED plan
              /\ proc' = [proc EXCEPT !["child"] = "building"]
              /\ To("building", cyc) /\ UNCHANGED transcript
        /\ UNCHANGED <<src, research>>

\* A transcript that says the repo tool is missing ends the search; otherwise the
\* plan is written and, if the policy allows, its script is run.
Build ==
  /\ pc = "build"
  /\ \/ /\ transcript = "norepo"
        /\ To("classify", [cyc EXCEPT !.outcome = "blocked_by_host_prerequisite"])
        /\ Files
     \/ /\ transcript # "norepo"
        /\ plan' = TRUE
        /\ \/ ~host.builds /\ To("collect", cyc) /\ UNCHANGED <<transcript, proc>>
           \/ /\ host.builds /\ \E strategy \in Strategies : Fails(strategy)
              /\ transcript' = "norepo" /\ To("collect", cyc) /\ UNCHANGED proc
           \/ /\ host.builds /\ \E strategy \in Strategies : ~Fails(strategy)
              /\ proc' = [proc EXCEPT !["child"] = "building"]
              /\ To("building", cyc) /\ UNCHANGED transcript
        /\ UNCHANGED <<src, research>>

BuildEnds ==
  /\ pc = "building"
  /\ Exit \/ Timeout
  /\ transcript' = "other" /\ To("collect", cyc)
  /\ UNCHANGED <<src, research, plan>>

Collect ==
  /\ pc = "collect"
  /\ To("classify", [cyc EXCEPT !.outcome = IF Staged = {} THEN "build_pending" ELSE "built_from_source",
                                !.staged = Staged])
  /\ Files

-----------------------------------------------------------------------------
(* The remediation of a source blocker, later in the cycle.                *)

\* The second round of starter troubleshooting; then research if there is none
\* yet, or the download.  Which blocker is found, and whether the machine may act
\* on it, is SessionRuntime's.
Classify ==
  /\ pc = "classify"
  /\ \/ To("idle", NoCycle) /\ UNCHANGED src
     \/ /\ src' = Quarantined
        /\ \/ (~cyc.executes \/ research # "none") /\ To("idle", NoCycle)
           \/ cyc.executes /\ research = "none" /\ To("ask_last", NoCycle)
           \/ /\ cyc.executes
              /\ To(IF host.codename /\ \A n \in Kinds : ~Plausible(Quarantined, n) THEN "download" ELSE "ask_last",
                    NoCycle)
  /\ UNCHANGED <<research, plan, transcript, proc>>

\* FirmwareDownloader's least size of a download from LineageOS, TWRP or GSI, which
\* is only fetched when the file is not there already ...
MinSize(n) == CASE n = "ota" -> 50 [] n = "twrp" -> 5 [] n = "gsi" -> 100
Offered(n, s) == n \in {"ota", "twrp", "gsi"} /\ ~Present(n) /\ s >= MinSize(n)

\* ... and of what a model names, which replaces a file of that name.
Hinted(s) == s >= 5

\* resolve_and_download: LineageOS, TWRP and GSI in turn, then the model's hint; a
\* file gets its name when its size is known to do.
Download ==
  /\ pc = "download"
  /\ \/ \E n \in Candidates, s \in Sizes : \E copy \in Copies(s, "downloader") :
          /\ Offered(n, s) \/ Hinted(s)
          /\ src' = [src EXCEPT ![n] = copy]
     \/ src' = src
  /\ To("ask_last", cyc)
  /\ UNCHANGED <<research, plan, transcript, proc>>

Search == \/ Stage \/ Gate \/ Resolve \/ Check \/ EnvBuildEnds \/ Restage \/ Build \/ BuildEnds
          \/ Collect \/ Classify \/ Download
          \/ Ask("ask", "asking") \/ Answer("asking", "resolve", cyc)
          \/ Ask("ask_last", "asking_last") \/ Answer("asking_last", "idle", NoCycle)

World == \/ Age \/ InstallRepo \/ Drop \/ Crash \/ OrphanExits
         \/ \E p \in Procs : BeginCopy(p) \/ EndCopy(p)

Next == Search \/ World

Spec == Init /\ [][Next]_vars
-----------------------------------------------------------------------------
(* Properties.                                                             *)

Outcomes == {"none", "ready", "deferred", "resolved_from_trusted_source",
             "blocked_by_host_prerequisite", "built_from_source", "build_pending"}

\* Files and locals keep their types, and a call waits for a process it started.
TypeOK ==
  /\ host \in HostTypes /\ cyc.outcome \in Outcomes
  /\ \A n \in Kinds : src[n].size \in Nat /\ src[n].whole \in BOOLEAN
  /\ research \in {"none", "torn", "fresh", "stale"} /\ transcript \in {"none", "norepo", "other"}
  /\ proc \in [Procs -> Kinds \cup {"never", "gone", "building"}]
  /\ pc = "check" => cyc.got \in Kinds
  /\ (pc \in {"envbuild", "building"}) = (proc["child"] # "gone")

\* What the cycle says about the origin of its artifacts is so: a resolution or a
\* build has supplied one that image_builder staged, or the operator has in the
\* meantime; never a leftover of an earlier download.
OutcomeIsHonest ==
  /\ cyc.outcome = "resolved_from_trusted_source" =>
       cyc.staged \cap {"resolver", "build", "operator"} # {}
  /\ cyc.outcome = "built_from_source" => cyc.staged \cap {"build", "operator"} # {}

\* "fall back to a local source-build plan when no acceptable package is found":
\* the plan is on disk whenever the search ends without artifacts.
FallbackIsPlanned ==
  cyc.outcome \in {"build_pending", "blocked_by_host_prerequisite"} => plan

\* As long as no build outlives its timeout, no step of a search takes away a file
\* that could be installed: neither a failed download nor a quarantine.  A package
\* of less than one MiB is left out: image_builder would stage it, but
\* _has_plausible_source_artifact does not see it, and one that a crash saved from
\* Check may be replaced by a download.
KeepsInstallable ==
  [][proc["orphan"] = "never" /\ proc["child"] = "gone"
       => \A n \in Kinds \ {cyc.got} :
            Usable(n) /\ src[n].size >= 1 /\ ~Rejected(n) => Usable(n)']_vars
=============================================================================
