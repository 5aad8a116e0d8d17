------------------------------- MODULE ModelStore -------------------------------
(***************************************************************************)
(* The models of a checkout, from the policy to the clients: ./up init and *)
(* edits of the overlay, ./up pull and download_model.py, build_gguf.py,   *)
(* llama-swap-runner.py config, the workers llama-swap starts through      *)
(* run-server.py (or one that is served directly), and ./pi-local.         *)
(*                                                                         *)
(* The programs share files only - the overlay, models/, artifacts/ and    *)
(* the project root, llama-swap.yaml - and no lock.  A download and a      *)
(* build hold what they read at their start while the others go on.  A     *)
(* file that huggingface_hub fetches appears whole; one that the converter *)
(* or the quantizer writes, and a sidecar being written, are there partial *)
(* first.  A step that fails and a program that is killed are faults.      *)
(***************************************************************************)
EXTENDS ModelCatalog, FiniteSets

CONSTANTS
    Catalog,    \* the tracked sidecars, in the order of their files
    FileOrder,  \* the files of models/, tracked or built, in order
    BasePolicy, \* serve-policy.yaml
    Presets,    \* the overlays that init writes
    Edits,      \* the overlays that a user makes of them
    OldFiles,   \* the locations of files from an older checkout, per start
    Base,       \* the type of the conversion, --outtype
    Built,      \* per type or quantization, and model: the file and slug it gets
    Asked,      \* bound: the models named with --model
    MaxFaults,  \* bound: faults in a behaviour
    MaxRuns     \* bound: downloads and builds started

\* The sidecar of a build names neither a kind nor a context length.
BuiltSidecar(r, quant) ==
    [r EXCEPT !.file = Built[quant][r.name].file, !.slug = Built[quant][r.name].slug,
              !.kind = Absent, !.native = 0, !.envProfile = r.profile,
              !.format = "gguf", !.path = <<Built[quant][r.name].file>>, !.slugMarks = {},
              !.mmproj = <<>>, !.provider = "local_build", !.files = <<>>,
              !.snapshot = FALSE, !.dir = <<>>]

----------------------------------------------------------------------------
(* What the tracked sidecars and policies have in common, and the programs *)
(* take for granted: route-config.py reports equal slugs, to who runs it.  *)

Sidecars ==
    [file : STRING, slug : STRING, name : STRING, stem : STRING, kind : STRING,
     native : Nat, profile : STRING, envProfile : STRING,
     format : {"gguf", "safetensors", "mlx"}, path : Seq(STRING),
     marks : SUBSET STRING, slugMarks : SUBSET STRING, mmproj : Seq(STRING),
     provider : STRING, files : Seq(Seq(STRING)), snapshot : BOOLEAN, dir : Seq(STRING)]

\* What GGUFs are built of.
Sources == {r \in ToSet(Catalog) : r.format = "safetensors"}

\* The sidecars that models/ can hold.
Known == ToSet(Catalog) \cup {BuiltSidecar(r, quant) : r \in Sources, quant \in DOMAIN Built}

ASSUME CatalogAssumption ==
    /\ ToSet(Catalog) \subseteq Sidecars
    /\ FileOrder \in Seq(STRING)
    /\ \A i \in DOMAIN Catalog : Catalog[i].file \in ToSet(FileOrder)
    /\ \A r, other \in ToSet(Catalog) : r.file = other.file => r = other
ASSUME BuildAssumption ==
    /\ Base \in DOMAIN Built
    /\ \A quant \in DOMAIN Built, r \in Sources :
         Built[quant][r.name].file \in ToSet(FileOrder)
ASSUME PolicyAssumption ==
    /\ \A policy \in {BasePolicy} \cup Presets \cup Edits :
         "enabled" \in DOMAIN policy /\ policy.enabled \in Seq(STRING)
    /\ \A policy \in Presets \cup Edits :
         "state" \in DOMAIN policy /\ policy.state = "whole"
    /\ Asked \subseteq STRING
ASSUME BoundAssumption == MaxFaults \in Nat /\ MaxRuns \in Nat

\* A slug is the name of one sidecar.
ASSUME SlugAssumption ==
    \A r, other \in Known :
        r.slug = other.slug => r.file = other.file /\ r.path = other.path

\* The two places that name a profile do not name two, nor "auto"; a native window
\* is 4096 tokens at least, when it is stated.
ASSUME ProfileAssumption ==
    \A r \in ToSet(Catalog) :
        /\ r.envProfile \in {r.profile, Absent} \/ r.profile = Absent
        /\ "auto" \notin {r.profile, r.envProfile}
        /\ r.native \notin 1 .. 3

VARIABLES
    overlay,    \* serve-policy.local.yaml
    index,      \* models/
    disk,       \* the artifacts at the root and below artifacts/
    pull,       \* the download: records and queue as it read them
    build,      \* the build: its source and what it makes
    swapYaml,   \* llama-swap.yaml: a set, empty before the first
    server,     \* what serves: nothing, llama-swap with its models, one worker
    worker,     \* the last worker started
    pi,         \* Pi's provider entry and default model
    faults, runs \* history: faults and runs so far

files == <<overlay, index, disk, swapYaml>>
vars == <<files, pull, build, server, worker, pi, faults, runs>>

Policy == EffectivePolicy(BasePolicy, overlay)
AllRecords == Records(FileOrder, index)

NoOverlay == [state |-> "absent", enabled |-> <<>>, groups |-> <<>>]
NoPull == [pc |-> "idle", records |-> <<>>, queue |-> <<>>, asked |-> <<>>,
           all |-> FALSE, want |-> <<>>]
NoBuild == [pc |-> "idle", source |-> {}, quant |-> Base]
NoWorker == [slug |-> "none", outcome |-> "none", ctx |-> 0]
NoPi == [models |-> <<>>, default |-> "none"]

Init ==
    /\ overlay = NoOverlay
    /\ index = [f \in {Catalog[i].file : i \in DOMAIN Catalog} |->
                   {r \in ToSet(Catalog) : r.file = f}]
    /\ \E old \in OldFiles : disk = [l \in old |-> "whole"]
    /\ pull = NoPull
    /\ build = NoBuild
    /\ swapYaml = {}
    /\ server = [mode |-> "none", models |-> <<>>]
    /\ worker = NoWorker
    /\ pi = NoPi
    /\ faults = 0
    /\ runs = 0

Fault == faults < MaxFaults /\ faults' = faults + 1
Run == runs < MaxRuns /\ runs' = runs + 1

----------------------------------------------------------------------------
(* The overlay.  init keeps one that is there, whatever it holds, unless   *)
(* it is forced; it writes in place.                                       *)

InitPolicy(preset, force) ==
    /\ overlay.state = "absent" \/ force
    /\ \/ overlay' = preset /\ UNCHANGED faults
       \/ Fault /\ overlay' = [preset EXCEPT !.state = "torn"]
    /\ UNCHANGED <<index, disk, swapYaml, pull, build, server, worker, pi, runs>>

EditPolicy(edit) ==
    /\ overlay.state = "whole"
    /\ overlay' = edit
    /\ UNCHANGED <<index, disk, swapYaml, pull, build, server, worker, pi, faults, runs>>

----------------------------------------------------------------------------
(* Downloads.                                                              *)

DownloadUnchanged ==
    UNCHANGED <<overlay, index, swapYaml, build, server, worker, pi>>

\* --enabled: what the policy enables and is not on disk yet; --model: one.
StartDownload(slugs, all) ==
    /\ pull.pc # "running"
    /\ Readable(index) /\ slugs # <<>>
    /\ Run
    /\ pull' = [pc |-> "running", records |-> AllRecords, queue |-> slugs,
                asked |-> slugs, all |-> all, want |-> <<>>]
    /\ DownloadUnchanged /\ UNCHANGED <<disk, faults>>

NextModel ==
    /\ pull.pc = "running" /\ pull.want = <<>> /\ pull.queue # <<>>
    /\ LET found == Selected(pull.records, Head(pull.queue))
       IN  \/ \E r \in found :
                 \/ /\ pull.all /\ ArtifactPresent(r, disk)
                    /\ pull' = [pull EXCEPT !.queue = Tail(@)]
                 \/ /\ ~(pull.all /\ ArtifactPresent(r, disk))
                    /\ r.provider = "huggingface"
                    /\ pull' = [pull EXCEPT !.queue = Tail(@), !.want = Destinations(r)]
                 \/ /\ ~(pull.all /\ ArtifactPresent(r, disk))
                    /\ r.provider # "huggingface"
                    /\ pull' = [pull EXCEPT !.pc = "failed"]
           \/ found = {} /\ pull' = [pull EXCEPT !.pc = "failed"]
    /\ DownloadUnchanged /\ UNCHANGED <<disk, faults, runs>>

\* One file after the other; each appears under its name when it is whole.
FetchFile ==
    /\ pull.pc = "running" /\ pull.want # <<>>
    /\ \/ /\ disk' = [l \in DOMAIN disk \cup {Head(pull.want)} |->
                         IF l = Head(pull.want) THEN "whole" ELSE disk[l]]
          /\ pull' = [pull EXCEPT !.want = Tail(@)]
          /\ UNCHANGED faults
       \/ Fault /\ pull' = [pull EXCEPT !.pc = "failed"] /\ UNCHANGED disk
    /\ DownloadUnchanged /\ UNCHANGED runs

EndDownload ==
    /\ pull.pc = "running" /\ pull.want = <<>> /\ pull.queue = <<>>
    /\ pull' = [pull EXCEPT !.pc = "done"]
    /\ DownloadUnchanged /\ UNCHANGED <<disk, faults, runs>>

----------------------------------------------------------------------------
(* build_gguf.py: convert, quantize when asked to, write the sidecar.      *)

Output(r, quant) == Root(<<Built[quant][r.name].file>>)
Put(location, state) ==
    [l \in DOMAIN disk \cup {location} |-> IF l = location THEN state ELSE disk[l]]

BuildUnchanged == UNCHANGED <<overlay, swapYaml, pull, server, worker, pi>>

\* The anchor of the snapshot is looked for at the project root only.
StartBuild(r, quant) ==
    /\ build.pc = "idle" /\ r.format = "safetensors"
    /\ Readable(index) /\ r \in ToSet(AllRecords)
    /\ Exists(disk, Root(r.path))
    /\ Run
    /\ build' = [pc |-> "convert", source |-> {r}, quant |-> quant]
    /\ disk' = Put(Output(r, Base), "partial")
    /\ BuildUnchanged /\ UNCHANGED <<index, faults>>

EndConvert ==
    /\ build.pc = "convert"
    /\ \E r \in build.source :
          disk' = IF build.quant = Base THEN Put(Output(r, Base), "whole")
                  ELSE [Put(Output(r, build.quant), "partial")
                            EXCEPT ![Output(r, Base)] = "whole"]
    /\ build' = [build EXCEPT !.pc = IF build.quant = Base THEN "sidecar" ELSE "quantize"]
    /\ BuildUnchanged /\ UNCHANGED <<index, faults, runs>>

EndQuantize ==
    /\ build.pc = "quantize"
    /\ \E r \in build.source : disk' = Put(Output(r, build.quant), "whole")
    /\ build' = [build EXCEPT !.pc = "sidecar"]
    /\ BuildUnchanged /\ UNCHANGED <<index, faults, runs>>

SidecarFile(r) == Built[build.quant][r.name].file
WriteSidecar(r, content) ==
    index' = [f \in DOMAIN index \cup {SidecarFile(r)} |->
                 IF f = SidecarFile(r) THEN content ELSE index[f]]

\* open(..., "w") empties the file before anything is written to it.
OpenSidecar ==
    /\ build.pc = "sidecar"
    /\ \E r \in build.source : WriteSidecar(r, Torn)
    /\ build' = [build EXCEPT !.pc = "dump"]
    /\ BuildUnchanged /\ UNCHANGED <<disk, faults, runs>>

DumpSidecar ==
    /\ build.pc = "dump"
    /\ \E r \in build.source : WriteSidecar(r, {BuiltSidecar(r, build.quant)})
    /\ build' = NoBuild
    /\ BuildUnchanged /\ UNCHANGED <<disk, faults, runs>>

\* The converter or the quantizer fails, or the build is killed.
BuildDies ==
    /\ build.pc # "idle" /\ Fault
    /\ build' = NoBuild
    /\ BuildUnchanged /\ UNCHANGED <<index, disk, runs>>

----------------------------------------------------------------------------
(* llama-swap: its configuration, the proxy and the workers it starts.     *)

WriteSwapConfig ==
    /\ Readable(index)
    /\ swapYaml' = {BuildSwapConfig(AllRecords, Policy, disk)}
    /\ UNCHANGED <<overlay, index, disk, pull, build, server, worker, pi, faults, runs>>

StartSwap ==
    /\ \E config \in swapYaml : server' = [mode |-> "swap", models |-> config.models]
    /\ worker' = NoWorker
    /\ UNCHANGED <<files, pull, build, pi, faults, runs>>

\* A worker reads the index for itself; a torn file or an unknown slug ends
\* it.  llama-server may allocate a smaller window than it is asked for.
RunWorker(slug) ==
    LET found == IF Readable(index) THEN FindBySlug(AllRecords, slug) ELSE {}
    IN  \/ /\ found = {}
           /\ worker' = [slug |-> slug, outcome |-> "no sidecar", ctx |-> 0]
           /\ UNCHANGED faults
        \/ \E r \in found :
              LET outcome == StartOutcome(r, disk)
                  ctx == IF outcome = "ready"
                         THEN BackendArgs(r, SettingsOf(r, disk)).ctx ELSE 0
              IN  \/ /\ worker' = [slug |-> slug, outcome |-> outcome, ctx |-> ctx]
                     /\ UNCHANGED faults
                  \/ /\ outcome = "ready" /\ SelectBackend(r) = "llama" /\ Fault
                     /\ worker' = [slug |-> slug, outcome |-> outcome, ctx |-> ctx \div 2]

StartWorker(slug) ==
    /\ server.mode = "swap" /\ slug \in DOMAIN server.models
    /\ RunWorker(slug)
    /\ UNCHANGED <<files, pull, build, server, pi, runs>>

UnloadWorker ==
    /\ server.mode = "swap" /\ worker # NoWorker
    /\ worker' = NoWorker
    /\ UNCHANGED <<files, pull, build, server, pi, faults, runs>>

\* ./up model: the worker's own port is the endpoint; one that does not
\* start changes nothing.
ServeDirectly(slug) ==
    /\ server.mode # "swap"
    /\ RunWorker(slug)
    /\ worker'.outcome = "ready"
    /\ server' = [mode |-> "direct", models |-> <<>>]
    /\ UNCHANGED <<files, pull, build, pi, runs>>

----------------------------------------------------------------------------
(* The clients.                                                            *)

ApiIds ==
    IF server.mode = "swap" THEN {<<slug>> : slug \in DOMAIN server.models}
    ELSE {BackendArgs(r, SettingsOf(r, disk)).alias : r \in FindBySlug(AllRecords, worker.slug)}

Resolved ==
    IF server.mode = "swap" THEN ResolveKind(AllRecords, ApiIds, "chat")
    ELSE ResolveDirect(AllRecords, ApiIds, worker.slug)

\* Only a loaded model is asked for the window its server allocated, and of
\* the servers only llama-server states one under /props.
Probed(r) ==
    worker.slug = r.slug /\ worker.outcome = "ready" /\ SelectBackend(r) = "llama"

\* A probe that fails leaves the profile's window.
OfferedWindow(r, answers) ==
    IF Probed(r) /\ answers THEN LiveWindow(PiWindow(r), worker.ctx) ELSE PiWindow(r)

\* Those llama-swap's /running calls ready; one that failed to start is not.
Loaded(slugs) == IF worker.outcome = "ready" THEN slugs \cap {worker.slug} ELSE {}

\* The model asked for, else the only one, the loaded one, the last, the first.
Defaults(slugs, asked) ==
    CASE asked # "none" -> slugs \cap {asked}
      [] asked = "none" /\ Loaded(slugs) # {} -> Loaded(slugs)
      [] asked = "none" /\ Loaded(slugs) = {} /\ pi.default \in slugs -> {pi.default}
      [] OTHER -> slugs

Offered(records, answers) ==
    [s \in {r.slug : r \in records} |->
        OfferedWindow(CHOOSE r \in records : r.slug = s, answers)]

\* The probe of the loaded model's window is answered or not.  An endpoint
\* without a known model leaves no choice, and Pi as it is.
ConfigurePi(asked, answers) ==
    /\ server.mode # "none"
    /\ LET records == Resolved
           models == Offered(records, answers)
       IN  \E choice \in Defaults({r.slug : r \in records}, asked) :
             pi' = [models |-> models, default |-> choice]
    /\ UNCHANGED <<files, pull, build, server, worker, faults, runs>>

----------------------------------------------------------------------------
Slugs == {r.slug : r \in Known}

Next ==
    \/ \E preset \in Presets, force \in BOOLEAN : InitPolicy(preset, force)
    \/ \E edit \in Edits : EditPolicy(edit)
    \/ StartDownload(Policy.enabled, TRUE)
    \/ \E slug \in Asked : StartDownload(<<slug>>, FALSE)
    \/ NextModel \/ FetchFile \/ EndDownload
    \/ \E r \in ToSet(AllRecords), quant \in DOMAIN Built : StartBuild(r, quant)
    \/ EndConvert \/ EndQuantize \/ OpenSidecar \/ DumpSidecar \/ BuildDies
    \/ WriteSwapConfig \/ StartSwap
    \/ \E slug \in Slugs : StartWorker(slug) \/ ServeDirectly(slug)
    \/ UnloadWorker
    \/ \E asked \in Asked \cup {"none"}, answers \in BOOLEAN : ConfigurePi(asked, answers)

Spec == Init /\ [][Next]_vars

----------------------------------------------------------------------------
(* Properties.                                                             *)

\* What the variables range over.
TypeOK ==
    /\ overlay.state \in {"absent", "torn", "whole"}
    /\ \A f \in DOMAIN index : f \in ToSet(FileOrder) /\ Cardinality(index[f]) <= 1
    /\ \A l \in DOMAIN disk : disk[l] \in {"whole", "partial"}
    /\ pull.pc \in {"idle", "running", "done", "failed"}
    /\ build.pc \in {"idle", "convert", "quantize", "sidecar", "dump"}
    /\ server.mode \in {"none", "swap", "direct"}
    /\ faults \in 0..MaxFaults /\ runs \in 0..MaxRuns

\* A download that ends well leaves every model it was asked for where the
\* programs that serve it look, whatever rule placed its files (main and
\* download_record of download_model.py, resolve_artifact of artifacts.py),
\* if its sidecar lists the file they look for among those it downloads.
PullMeansPresent ==
    pull.pc = "done" =>
        \A i \in DOMAIN pull.asked :
            \A r \in Selected(pull.records, pull.asked[i]) :
                ListsAnchor(r) => ArtifactPresent(r, disk)

\* A worker that llama-swap starts for a model it advertises, and that finds
\* a sidecar for it, finds the model's file: build_config and ServerSettings
\* resolve the path independently, with downloads and builds in between.
WorkerFindsArtifact ==
    server.mode = "swap" => worker.outcome # "no model file"

\* When the doctor finds every enabled model downloaded, a configuration
\* written now leaves none out and serves each of them, and a model it would
\* skip is one the doctor warns of (doctor_checks, build_config).
DoctorAgrees ==
    Readable(index) /\ Policy.enabled # <<>> =>
        LET config == BuildSwapConfig(AllRecords, Policy, disk)
            line(slug) == DoctorLine(AllRecords, slug, disk)
        IN  \A slug \in ToSet(Policy.enabled) :
              /\ line(slug) = "ok" <=> slug \in DOMAIN config.models
              /\ line(slug) = "warn" <=> slug \in config.skipped

\* Whoever asks whether a model is there gets the same answer: the download
\* that brought it, llama-swap's configuration, the doctor and the worker.
PresenceAgrees == PullMeansPresent /\ DoctorAgrees /\ WorkerFindsArtifact

\* Pi is never told of a larger window than the launcher asks the server
\* for; nor, of a loaded model whose llama-server answers the probe, than it
\* allocated: an overstated value lets requests overflow
\* (apply_live_context).  When the probe fails, nothing is promised of a
\* smaller allocation.  The sidecar must name its profile, for Pi does not
\* infer one from the file's name.
PiWindowFits ==
    [][pi' # pi =>
        \A r \in ToSet(AllRecords) :
            r.slug \in DOMAIN pi'.models /\ r.profile # Absent =>
                /\ pi'.models[r.slug] <= SettingsOf(r, disk).ctx
                /\ Probed(r) =>
                     \A model \in Asked \cup {"none"} :
                       ConfigurePi(model, TRUE) => pi'.models[r.slug] < worker.ctx]_vars

\* No slug is the alias, or another name, of another sidecar.
NamesApart(records) ==
    \A r, other \in ToSet(records) : Matches(<<r.slug>>, other) => other = r

\* The clients of llama-swap agree on the chat models: OpenCode, when it
\* accepts the endpoint, offers those that Pi offers, and llama-swap's own
\* metadata calls exactly these chat (each reads the sidecars for itself).  As
\* long as no slug is another sidecar's alias: a GGUF built of Ouro has such an
\* alias, and Pi would then take it for both.
ClientsAgree ==
    server.mode = "swap" /\ NamesApart(AllRecords) =>
        LET openCode == OpenCodeModels(AllRecords, ApiIds)
        IN  openCode # {} =>
              /\ openCode = ResolveKind(AllRecords, ApiIds, "chat")
              /\ \A r \in openCode : SwapModel(r).kind = "chat"

\* A sidecar in which route-config.py finds no error is served with the
\* window its profile asks for, unless that is the generic one: validation
\* and ServerSettings prefer different fields for the profile and one of
\* them caps the window at the native one, the other refuses it.
AcceptedFits ==
    \A i \in DOMAIN AllRecords :
        LET r == AllRecords[i]
            s == SettingsOf(r, disk)
        IN  ~HasError(AllRecords, i) /\ NamedProfile(r, "generic") # "generic" =>
                s.ctx = ProfileCtx(s.profile)

\* README.md: "llama-swap skips enabled models that aren't downloaded, so a
\* partial download still starts", and build_config: "so llama-swap only
\* advertises models that can load".
AdvertisedCanLoad ==
    server.mode = "swap" => worker.outcome \in {"none", "ready"}

============================================================================
