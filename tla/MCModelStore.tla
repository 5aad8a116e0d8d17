------------------------------ MODULE MCModelStore ------------------------------
(* One sidecar of each way in which the tracked catalogue places, profiles   *)
(* and serves a model.                                                      *)
EXTENDS ModelStore

Gguf == [kind |-> "chat", native |-> 256, format |-> "gguf", marks |-> {},
         slugMarks |-> {}, mmproj |-> <<>>, provider |-> "huggingface",
         snapshot |-> FALSE, dir |-> <<>>]
With(common, own) == [f \in DOMAIN common \cup DOMAIN own |->
                         IF f \in DOMAIN own THEN own[f] ELSE common[f]]

Ocr == With(Gguf, [file |-> "GLM-OCR-Q8_0.gguf", slug |-> "glm-ocr-q8_0", name |-> "GLM-OCR",
    stem |-> "glm-ocr", kind |-> "ocr", native |-> 128, profile |-> "glm-ocr",
    envProfile |-> "glm-ocr", marks |-> {"glm-ocr"}, path |-> <<"ocr.gguf">>,
    mmproj |-> <<"mmproj.gguf">>, files |-> << <<"ocr.gguf">>, <<"mmproj.gguf">> >>])
Mistral == With(Gguf, [file |-> "Mistral-7B.gguf", slug |-> "mistral-7b",
    name |-> "Mistral-7B", stem |-> "mistral-7b", native |-> 32, profile |-> "generic",
    envProfile |-> "generic", path |-> <<"mistral.gguf">>, files |-> << <<"mistral.gguf">> >>])
Shards == With(Gguf, [file |-> "Qwen3.5-122B.gguf", slug |-> "qwen35-122b",
    name |-> "Qwen3.5-122B-A10B", stem |-> "qwen3", profile |-> "qwen3.5-122b",
    envProfile |-> "qwen3.5-122b", marks |-> {"122b", "qwen3.5"},
    path |-> <<"UD", "one.gguf">>, files |-> << <<"UD", "one.gguf">> >>])
Snapshot == With(Gguf, [file |-> "Qwen3.6-27B.safetensors", slug |-> "qwen36-27b-unsloth",
    name |-> "Qwen3.6-27B", stem |-> "qwen3", profile |-> "qwen3.6",
    envProfile |-> "qwen3.6", format |-> "safetensors", snapshot |-> TRUE,
    path |-> <<"Qwen3.6-27B", "index.json">>, files |-> << <<"index.json">> >>])
\* One that names no profile: route-config.py warns of it and goes on.
Quantized == With(Gguf, [file |-> "Qwen3.6-27B-Q6_K.gguf", slug |-> "qwen36-27b-q6k",
    name |-> "Qwen3.6-27B", stem |-> "qwen3", profile |-> Absent, envProfile |-> Absent,
    marks |-> {"qwen3.6"}, path |-> <<"Qwen3.6-27B-Q6_K.gguf">>,
    files |-> << <<"Qwen3.6-27B-Q6_K.gguf">> >>])
\* One that understates its native window: route-config.py refuses it.
Careless == With(Gguf, [file |-> "Careless.gguf", slug |-> "careless", name |-> "Careless",
    stem |-> "careless", native |-> 128, profile |-> "qwen3.6", envProfile |-> "qwen3.6",
    path |-> <<"careless.gguf">>, files |-> << <<"careless.gguf">> >>])
Kev == With(Gguf, [file |-> "kev-4b-mlx-8bit", slug |-> "kev-4b-mlx-8bit", name |-> "Kev-4B",
    stem |-> "kev-4b", kind |-> "decision", profile |-> "mlx-kev", envProfile |-> "mlx-kev",
    format |-> "mlx", marks |-> {}, slugMarks |-> {"mlx"}, snapshot |-> TRUE,
    path |-> <<"kev", "config.json">>, files |-> << <<"config.json">>, <<"head.pt">> >>])

MCCatalog == <<Careless, Ocr, Mistral, Shards, Quantized, Snapshot, Kev>>
DefaultCatalog == <<Ocr, Mistral>>
MCFileOrder == <<"Careless.gguf", "GLM-OCR-Q8_0.gguf", "Mistral-7B.gguf",
                 "Qwen3.5-122B.gguf", "Qwen3.6-27B-BF16.gguf", "Qwen3.6-27B-Q6_K.gguf",
                 "Qwen3.6-27B.safetensors", "kev-4b-mlx-8bit">>
GgufOf(r, file, slug) == r.name :> [file |-> file, slug |-> slug]
MCBuilt ==
    [BF16 |-> GgufOf(Snapshot, "Qwen3.6-27B-BF16.gguf", "qwen3-6-27b-bf16"),
     Q6_K |-> GgufOf(Snapshot, "Qwen3.6-27B-Q6_K.gguf", "qwen3-6-27b-q6-k")]

Enable(chat, resident) ==
    [state |-> "whole", enabled |-> chat \o resident,
     groups |-> [main |-> ToSet(chat)] @@
                IF resident = <<>> THEN <<>> ELSE [small |-> ToSet(resident)]]
MCBase == Enable(<<"mistral-7b">>, <<"glm-ocr-q8_0">>)
MCPresets == {Enable(<<"qwen35-122b">>, <<"kev-4b-mlx-8bit">>)}
MCEdits == {Enable(<<"qwen36-27b-q6k">>, <<>>)}
MCOldFiles == {{Root(Mistral.path)}, {Root(Snapshot.path)}}
NoOldFiles == {{}}
============================================================================
