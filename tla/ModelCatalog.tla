----------------------------- MODULE ModelCatalog -----------------------------
(***************************************************************************)
(* What the programs of the checkout make of a sidecar (models/*.json):    *)
(* where its files are looked for and downloaded to, with which profile    *)
(* and context it is served, and how llama-swap, Pi, OpenCode, the router  *)
(* and the doctor present it.  Each reads the sidecars on its own; the     *)
(* operators keep those readings apart.                                    *)
(*                                                                         *)
(* A sidecar is a record                                                   *)
(*   file      its name in models/            slug, name   of the model    *)
(*   kind      chat, decision, ocr or Absent  native       window, 0: none *)
(*   profile   launcher.profile or Absent     envProfile   PROFILE, ditto  *)
(*   format    of the artifact                path         local_path      *)
(*   marks     substrings, in the lower-cased file name, that profiles are *)
(*             inferred from                  slugMarks    in the slug     *)
(*   stem      the slugified name             mmproj       <<>>: none      *)
(*   provider, files, snapshot, dir           of its download entry        *)
(* Paths are sequences of names.  A location is <<place>> \o path, where   *)
(* the place is the project root or artifacts/ (MODEL_DIR).  The disk maps *)
(* a location to "whole" or "partial"; windows are in units of 1024 tokens.*)
(***************************************************************************)
EXTENDS Naturals, Sequences, SequencesExt

Absent == "absent"
Torn == {}      \* what a sidecar file holds whose writer was stopped
Root(path) == <<"root">> \o path
Store(path) == <<"store">> \o path
Exists(disk, location) == location \in DOMAIN disk
Least(a, b) == IF a < b THEN a ELSE b

----------------------------------------------------------------------------
(* Profiles (profiles.py): an ordered search of the file name, and the     *)
(* window and alias each profile asks for.                                 *)

InferenceOrder ==
    << <<{"glm-ocr"}, "glm-ocr">>,
       <<{"qwen3-coder-next"}, "qwen3-coder-next">>,
       <<{"kev"}, "mlx-kev">>,
       <<{"qwen3-coder-480b"}, "qwen3-coder-480b">>,
       <<{"qwen2.5-coder"}, "qwen2.5-coder-transformers">>,
       <<{"qwen3.6", "mtp"}, "qwen3.6-mtp">>,
       <<{"qwen3.6"}, "qwen3.6">>,
       <<{"qwen3.8", "mtp"}, "qwen3.8-mtp">>,
       <<{"qwen3.8"}, "qwen3.8">>,
       <<{"122b"}, "qwen3.5-122b">>,
       <<{"qwen3.5"}, "qwen3.5">>,
       <<{"gemma"}, "gemma4">>,
       <<{"ouro"}, "ouro">>,
       <<{"bonsai", "mlx"}, "mlx-bonsai">> >>

InferProfile(marks, requested) ==
    LET hits == {i \in DOMAIN InferenceOrder : InferenceOrder[i][1] \subseteq marks}
    IN  CASE requested # "auto" -> requested
          [] requested = "auto" /\ hits = {} -> "generic"
          [] OTHER -> InferenceOrder[CHOOSE i \in hits : \A j \in hits : i <= j][2]

ProfileCtx(profile) ==
    CASE profile = "ouro" -> 8
      [] profile \in {"gemma4", "glm-ocr", "qwen2.5-coder-transformers"} -> 32
      [] profile = "mlx-kev" -> 64
      [] profile \in {"qwen3.5-122b", "qwen3.8"} -> 128
      [] OTHER -> 256

ProfileAlias(profile, stem) ==
    CASE profile = "qwen3-coder-next" -> "qwen3-coder-next"
      [] profile = "qwen3.8-mtp" -> "qwen38-27b-mtp"
      [] profile = "qwen3.6-mtp" -> "qwen36-27b-mtp"
      [] profile \in {"qwen3-coder-480b", "qwen3-coder-480b-mlx"} ->
            "qwen3-coder-480b-a35b-instruct"
      [] profile = "ouro" -> "ouro-2.6b-thinking"
      [] OTHER -> stem

----------------------------------------------------------------------------
(* Where artifacts are (artifacts.py) and where downloads land             *)
(* (download_model.py).                                                    *)

ResolveArtifact(path, disk) ==
    IF Exists(disk, Root(path)) THEN Root(path) ELSE Store(path)
ArtifactPresent(r, disk) == Exists(disk, ResolveArtifact(r.path, disk))

\* The slip the comment in download_record warns of: nested twice.
LocalDirNested(r) ==
    CASE r.dir # <<>> -> r.dir
      [] OTHER -> Front(r.path)

\* A file next to the repository's own anchor: snapshots get a folder of
\* their own, single files and shards keep their path below artifacts/.
LocalDir(r) ==
    CASE r.dir # <<>> -> r.dir
      [] r.dir = <<>> /\ r.snapshot /\ r.format # "gguf" -> Front(r.path)
      [] OTHER -> <<>>

\* The download entry lists the file that local_path names: below local_dir, beside
\* that file in a snapshot, under its own path else.  Ouro's does not.
ListsAnchor(r) ==
    \E i \in DOMAIN r.files :
        \/ r.dir # <<>> /\ r.path = r.dir \o r.files[i]
        \/ /\ r.dir = <<>> /\ r.snapshot /\ r.format # "gguf"
           /\ r.path = Front(r.path) \o r.files[i]
        \/ /\ r.dir = <<>> /\ ~(r.snapshot /\ r.format # "gguf")
           /\ r.path = r.files[i]

Destinations(r) == [i \in DOMAIN r.files |-> Store(LocalDir(r) \o r.files[i])]

----------------------------------------------------------------------------
(* The index.  It maps a file of models/ to the set of what it holds, one  *)
(* sidecar or, when torn, none; the order is that of the file names.       *)
(* load_index, load_model_records and build_config fail on a torn file;    *)
(* onboard's load_records and Pi's load_sidecars skip it, and let the last *)
(* of several equal slugs win.                                             *)

Readable(index) == \A f \in DOMAIN index : index[f] # Torn

Records(order, index) ==
    LET present(f) == f \in DOMAIN index /\ index[f] # Torn
        read[i \in 0 .. Len(order)] ==
          IF i = 0 THEN <<>>
          ELSE IF present(order[i])
               THEN Append(read[i - 1], CHOOSE r \in index[order[i]] : TRUE)
               ELSE read[i - 1]
    IN  read[Len(order)]

FindBySlug(records, slug) == {r \in ToSet(records) :
    /\ r.slug = slug
    /\ \A i \in DOMAIN records :
          records[i].slug = slug => \E j \in 1..i : records[j] = r}

LastBySlug(records, slug) == {r \in ToSet(records) :
    /\ r.slug = slug
    /\ \A i \in DOMAIN records :
          records[i].slug = slug => \E j \in i..Len(records) : records[j] = r}

\* resolve_record also takes a file name, a path or a model's name.
Selected(records, selector) ==
    LET hits == {i \in DOMAIN records : selector \in {records[i].slug, records[i].name}}
    IN  {records[i] : i \in {j \in hits : \A k \in hits : j <= k}}

----------------------------------------------------------------------------
(* What a worker serves: ServerSettings of settings.py, the command lines  *)
(* the launchers build, and their checks before the server starts.         *)

SettingsOf(r, disk) ==
    LET env == IF r.envProfile = Absent THEN "auto" ELSE r.envProfile
        named == IF r.profile \in {Absent, "auto"} THEN env ELSE r.profile
        profile == InferProfile(r.marks, named)
        requested == ProfileCtx(profile)
        projector == IF ~Exists(disk, Root(r.mmproj)) /\ Exists(disk, Store(r.mmproj))
                     THEN Store(r.mmproj) ELSE Root(r.mmproj)
    IN  [model   |-> ResolveArtifact(r.path, disk),
         mmproj  |-> IF r.mmproj = <<>> THEN <<>> ELSE projector,
         profile |-> profile,
         alias   |-> r.slug,
         ctx     |-> IF r.native > 0 THEN Least(requested, r.native) ELSE requested]

\* llama-swap sets MODEL_SLUG and no PROFILE, so the slug decides.
SelectBackend(r) ==
    CASE "ouro" \in r.slugMarks -> "ouro"
      [] "ouro" \notin r.slugMarks /\ r.slugMarks \cap {"mlx", "bonsai"} # {} -> "mlx"
      [] r.slugMarks = {"qwen25-coder-7b-instruct"} -> "transformers"
      [] OTHER -> "llama"

\* What the server is given: one file with its window and alias, or a folder.
LlamaArgs(s) == [model |-> s.model, ctx |-> s.ctx, alias |-> <<s.alias>>]
FolderArgs(s) == [model |-> Front(s.model), ctx |-> s.ctx, alias |-> Front(s.model)]
BackendArgs(r, s) == IF SelectBackend(r) = "llama" THEN LlamaArgs(s) ELSE FolderArgs(s)

Validate(r, s, disk) ==
    CASE ~Exists(disk, s.model) -> "no model file"
      [] SelectBackend(r) = "llama" /\ s.mmproj # <<>> /\ ~Exists(disk, s.mmproj) ->
            "no projector"
      [] s.profile = "mlx-kev" /\ ~Exists(disk, Front(s.model) \o <<"head.pt">>) ->
            "no head"
      [] OTHER -> "ok"

\* The servers need every file of the model whole, and llama-server a GGUF.
CanLoad(r, s, disk) ==
    LET place == <<Head(s.model)>> \o LocalDir(r)
    IN  /\ disk[s.model] = "whole"
        /\ \A i \in DOMAIN r.files : r.files[i] # r.mmproj =>
              LET shard == place \o r.files[i]
              IN  Exists(disk, shard) /\ disk[shard] = "whole"
        /\ SelectBackend(r) = "llama" => r.format = "gguf"

StartOutcome(r, disk) ==
    LET s == SettingsOf(r, disk)
        checked == Validate(r, s, disk)
    IN  CASE checked # "ok" -> checked
          [] checked = "ok" /\ CanLoad(r, s, disk) -> "ready"
          [] OTHER -> "cannot load"

----------------------------------------------------------------------------
(* serve-policy: the tracked base, and the host's overlay merged over it,  *)
(* key by key for objects, whole for lists (policy.py).                    *)

EffectivePolicy(base, overlay) ==
    IF overlay.state # "whole" THEN base
    ELSE [enabled |-> overlay.enabled,
          groups  |-> [g \in DOMAIN base.groups \cup DOMAIN overlay.groups |->
                          IF g \in DOMAIN overlay.groups
                          THEN overlay.groups[g] ELSE base.groups[g]]]

(* llama-swap's configuration (llama_swap/config.py).                      *)

NamedProfile(r, default) ==
    CASE r.envProfile # Absent -> r.envProfile
      [] r.envProfile = Absent /\ r.profile # Absent -> r.profile
      [] OTHER -> default

SwapModel(r) ==
    [kind  |-> IF r.kind = Absent THEN "chat" ELSE r.kind,
     check |-> IF NamedProfile(r, "auto") = "mlx-kev" THEN "/v1/models" ELSE "/health"]

Servable(r) ==
    \/ r.format \in {"gguf", "safetensors", "mlx"}
    \/ NamedProfile(r, "auto") \in {"ouro", "qwen3-coder-480b-mlx"}

\* No enabled model means no filter.
Hot(r, policy) == policy.enabled = <<>> \/ r.slug \in ToSet(policy.enabled)

PruneRouting(groups, served) ==
    [g \in {h \in DOMAIN groups : groups[h] \cap served # {}} |-> groups[g] \cap served]

BuildSwapConfig(records, policy, disk) ==
    LET candidates == {r \in ToSet(records) : Servable(r) /\ Hot(r, policy)}
        skipped == {r.slug : r \in {c \in candidates : ~ArtifactPresent(c, disk)}}
        served == {r.slug : r \in {c \in candidates : ArtifactPresent(c, disk)}}
        last(slug) == CHOOSE r \in LastBySlug(SelectSeq(records,
                          LAMBDA c : c \in candidates /\ ArtifactPresent(c, disk)), slug) : TRUE
    IN  [models  |-> [slug \in served |-> SwapModel(last(slug))],
         skipped |-> skipped,
         groups  |-> IF skipped = {} THEN policy.groups ELSE PruneRouting(policy.groups, served)]

----------------------------------------------------------------------------
(* The doctor's line for an enabled model (onboard.py).                    *)

DoctorLine(records, slug, disk) ==
    LET found == LastBySlug(records, slug)
    IN  CASE found = {} -> "fail"
          [] \E r \in found : ArtifactPresent(r, disk) -> "ok"
          [] OTHER -> "warn"

----------------------------------------------------------------------------
(* Pi (pi_bootstrap.py) and OpenCode (opencode_bootstrap.py).  An id of    *)
(* /v1/models is a sequence: the one name of an alias, or a folder.        *)

KindOf(r) == IF r.kind = Absent THEN "chat" ELSE r.kind
PiProfile(r) == IF r.profile = Absent THEN "generic" ELSE r.profile

\* A plan that does not cap the window.
PiWindowUncapped(r) == ProfileCtx(PiProfile(r))

PiWindow(r) ==
    LET requested == ProfileCtx(PiProfile(r))
    IN  IF r.native > 0 THEN Least(requested, r.native) ELSE requested

\* model_identity.py: the slug, or the folder a server was started with,
\* whole or by its last name.
AcceptableIds(r) ==
    LET folder == Front(r.path)
    IN  {<<r.slug>>, Root(folder), Store(folder)}
            \cup (IF folder = <<>> THEN {} ELSE {<<Last(folder)>>})

Matches(id, r) ==
    \/ id \in {<<r.slug>>, <<r.name>>, <<ProfileAlias(PiProfile(r), r.stem)>>}
    \/ id \in AcceptableIds(r)

FirstMatch(records, id) ==
    LET hits == {i \in DOMAIN records : Matches(id, records[i])}
    IN  {records[i] : i \in {j \in hits : \A k \in hits : j <= k}}

\* A resolution that forgets the kind.
ResolveAnyKind(records, ids, kind) == UNION {FirstMatch(records, id) : id \in ids}

\* The endpoint's models of one kind; a directly served one is taken as it is.
ResolveKind(records, ids, kind) ==
    {r \in UNION {FirstMatch(records, id) : id \in ids} : KindOf(r) = kind}
ResolveDirect(records, ids, slug) ==
    {r \in LastBySlug(records, slug) : \E id \in ids : Matches(id, r)}

Headroom == 2
LiveWindow(window, live) == Least(window, IF live > Headroom THEN live - Headroom ELSE 1)

\* OpenCode takes slugs only, and gives up on an id it does not know.
OpenCodeModels(records, ids) ==
    LET known == [id \in ids |-> UNION {LastBySlug(records, s) : s \in {id[i] : i \in 1..Len(id)}}]
    IN  IF \E id \in ids : Len(id) # 1 \/ known[id] = {} THEN {}
        ELSE {r \in UNION {known[id] : id \in ids} : KindOf(r) = "chat"}

----------------------------------------------------------------------------
(* The router's validation of the sidecars (route-config.py).              *)

ModelKinds == {"chat", "decision", "ocr", "embedding"}

\* A validation that lets a profile ask for more than the native window.
HasErrorUncapped(records, i) ==
    \/ \E j \in 1..(i - 1) : records[j].slug = records[i].slug
    \/ records[i].kind \notin ModelKinds
    \/ records[i].native = 0

HasError(records, i) ==
    LET r == records[i]
        named == NamedProfile(r, "generic")
    IN  \/ \E j \in 1..(i - 1) : records[j].slug = r.slug
        \/ r.kind \notin ModelKinds
        \/ r.native = 0
        \/ named # "generic" /\ ProfileCtx(named) > r.native

============================================================================
