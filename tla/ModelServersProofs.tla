-------------------------- MODULE ModelServersProofs --------------------------
(***************************************************************************)
(* What serves a model, for any catalogue and any number of programs: its  *)
(* files, which are ModelStore's, and its processes, HostProcesses's.      *)
(*                                                                         *)
(* ModelStore.  Whether a model is there is asked by four programs at      *)
(* different times; what makes their answers agree is that nobody takes an *)
(* artifact away, so the invariant follows presence from a download's      *)
(* queue (PullInv) and from a configuration (ConfigInv) to the worker that *)
(* is started later.  Everything else is that models/ only ever holds      *)
(* sidecars of Known under their own names (IndexInv, BuildInv), of which  *)
(* a slug names one.                                                       *)
(*                                                                         *)
(* HostProcesses.  What an owner has running depends on how far it is, and *)
(* the ways into "stop" and "ended" are many; Progress says, per owner,    *)
(* what holds where.  Distinct says that a run folder has one owner; a kev *)
(* owner comes to popen with a folder only because its second look for the *)
(* checkout is the one after mkdir, which is Second; Undisturbed follows   *)
(* the checkout from a clone to the start of a server.                     *)
(***************************************************************************)
EXTENDS ModelStore, HostProcesses, FiniteSetTheorems, SequenceTheorems,
        WellFoundedInduction, TLAPS

(***************************************************************************)
(* The inductive invariant of ModelStore.                                  *)
(***************************************************************************)

\* models/ holds known sidecars, each under its own name.
IndexInv == \A f \in DOMAIN index : \A r \in index[f] : r \in Known /\ r.file = f

\* A build is made of a tracked snapshot.
BuildInv ==
    /\ DOMAIN build = {"pc", "source", "quant"}
    /\ build.quant \in DOMAIN Built
    /\ build.source \subseteq Sources

\* Whatever a configuration serves was there when it was written, and still is.
AllPresent(models) ==
    \A slug \in DOMAIN models : \E r \in Known : r.slug = slug /\ ArtifactPresent(r, disk)
ConfigInv ==
    /\ \A config \in swapYaml : AllPresent(config.models)
    /\ server.mode = "swap" => AllPresent(server.models)

\* A worker that is ready has a window, or half of it, of two units at least.
WorkerInv ==
    /\ server.mode = "swap" => worker.outcome # "no model file"
    /\ worker.outcome = "ready" => worker.ctx \in Nat /\ worker.ctx >= 2

\* The sidecars that were read are known ones, and a slug is the name of one of them.
ReadWell(records) ==
    /\ Len(records) \in Nat /\ DOMAIN records = 1 .. Len(records)
    /\ ToSet(records) \subseteq Known
    /\ \A r, other \in ToSet(records) : r.slug = other.slug => r = other

\* Of what a download was asked for, the models it is through with are present, or
\* what is missing of the last one is still wanted.
Handled(i) == i \in 1 .. Len(pull.asked) - Len(pull.queue)
PullInv ==
    /\ DOMAIN pull = {"pc", "records", "queue", "asked", "all", "want"}
    /\ pull.pc \in {"running", "done"} =>
        /\ ReadWell(pull.records)
        /\ pull.asked \in Seq(STRING) /\ pull.queue \in Seq(STRING)
        /\ pull.want \in Seq(ToSet(pull.want))
        /\ Len(pull.queue) <= Len(pull.asked)
        /\ \A j \in 1 .. Len(pull.queue) :
             pull.queue[j] = pull.asked[Len(pull.asked) - Len(pull.queue) + j]
        /\ \A i \in DOMAIN pull.asked : Handled(i) =>
             \A r \in Selected(pull.records, pull.asked[i]) : ListsAnchor(r) =>
                 ArtifactPresent(r, disk) \/ Store(r.path) \in ToSet(pull.want)
        /\ pull.pc = "done" => pull.queue = <<>> /\ pull.want = <<>>

\* The strengthening of ModelStore.
StoreInv ==
    /\ overlay.enabled \in Seq(STRING)
    /\ IndexInv /\ BuildInv /\ ConfigInv /\ WorkerInv /\ PullInv


(***************************************************************************)
(* What the readers of models/ get from it.                                *)
(***************************************************************************)

\* A set of naturals that is not empty has a least element.
LEMMA LeastExists ==
    ASSUME NEW S \in SUBSET Nat, S # {}
    PROVE  \E x \in S : \A y \in S : x <= y
<1>1. PICK x \in S : \A y \in S : ~ (<<y, x>> \in OpToRel(<, Nat))
  BY NatLessThanWellFounded, WFMin
<1>2. OpToRel(<, Nat) = {ss \in Nat \X Nat : ss[1] < ss[2]}
  BY DEF OpToRel
<1>3. ASSUME NEW y \in S PROVE x <= y
  <2>1. <<y, x>> \notin OpToRel(<, Nat)
    BY <1>1
  <2>2. ~ (y < x)
    BY <1>2, <2>1
  <2> QED
    BY <2>2
<1> QED
  BY <1>3

\* g[i] is what Records has read after the first i files.
Readings(order, idx, n, g) ==
    g = [i \in 0 .. n |->
           IF i = 0 THEN <<>>
           ELSE IF order[i] \in DOMAIN idx /\ idx[order[i]] # Torn
                THEN Append(g[i - 1], CHOOSE r \in idx[order[i]] : TRUE)
                ELSE g[i - 1]]

\* The recursion of Records has a solution for every number of files.
LEMMA ReadingsExist ==
    ASSUME NEW order, NEW idx, NEW n \in Nat
    PROVE  \E g : Readings(order, idx, n, g)
<1> DEFINE Missing == {k \in Nat : ~ \E g : Readings(order, idx, k, g)}
           Whole(i) == order[i] \in DOMAIN idx /\ idx[order[i]] # Torn
           Grown(i, s) == IF Whole(i)
                          THEN Append(s, CHOOSE r \in idx[order[i]] : TRUE) ELSE s
<1>1. SUFFICES ASSUME n \in Missing PROVE FALSE
  OBVIOUS
<1>2. PICK k \in Missing : \A j \in Missing : k <= j
  <2>1. Missing \in SUBSET Nat /\ Missing # {}
    BY <1>1
  <2> HIDE DEF Missing
  <2> QED
    BY <2>1, LeastExists
<1>3. ASSUME NEW m, NEW g
      PROVE  Readings(order, idx, m, g) <=>
               g = [i \in 0 .. m |-> IF i = 0 THEN <<>> ELSE Grown(i, g[i - 1])]
  BY DEF Readings
<1> HIDE DEF Grown
<1>4. CASE k = 0
  <2> DEFINE g == [i \in 0 .. 0 |-> <<>>]
  <2>1. g = [i \in 0 .. 0 |-> IF i = 0 THEN <<>> ELSE Grown(i, g[i - 1])]
    OBVIOUS
  <2> HIDE DEF g
  <2>2. Readings(order, idx, 0, g)
    BY <1>3, <2>1
  <2> QED
    BY <1>2, <1>4, <2>2
<1>5. CASE k # 0
  <2>1. k - 1 \in Nat /\ k \in Nat /\ k - 1 \notin Missing
    BY <1>2, <1>5
  <2>2. PICK g : Readings(order, idx, k - 1, g)
    BY <2>1
  <2> DEFINE h == [i \in 0 .. k |-> IF i = k THEN Grown(k, g[k - 1]) ELSE g[i]]
  <2>3. g = [i \in 0 .. k - 1 |-> IF i = 0 THEN <<>> ELSE Grown(i, g[i - 1])]
    BY <1>3, <2>2
  <2>4. \A i \in 0 .. k - 1 : g[i] = IF i = 0 THEN <<>> ELSE Grown(i, g[i - 1])
    BY <2>3
  <2>5. h[k] = Grown(k, g[k - 1]) /\ \A i \in 0 .. k - 1 : h[i] = g[i]
    BY <2>1
  <2>6. ASSUME NEW i \in 0 .. k PROVE h[i] = IF i = 0 THEN <<>> ELSE Grown(i, h[i - 1])
    <3>1. CASE i = k
      <4>1. h[k - 1] = g[k - 1]
        BY <1>5, <2>1, <2>5
      <4> QED
        BY <1>5, <2>5, <3>1, <4>1
    <3>2. CASE i # k
      <4>1. i \in 0 .. k - 1 /\ (i # 0 => i - 1 \in 0 .. k - 1)
        BY <2>1, <2>6, <3>2
      <4> QED
        BY <2>4, <2>5, <4>1
    <3> QED
      BY <3>1, <3>2
  <2>7. h = [i \in 0 .. k |-> h[i]]
    OBVIOUS
  <2> HIDE DEF h
  <2>8. h = [i \in 0 .. k |-> IF i = 0 THEN <<>> ELSE Grown(i, h[i - 1])]
    BY <2>6, <2>7
  <2>9. Readings(order, idx, k, h)
    BY <1>3, <2>8
  <2> QED
    BY <1>2, <2>9
<1> QED
  BY <1>4, <1>5

\* What the readers take from the files that are there and not torn.
Held(idx) == {CHOOSE r \in idx[f] : TRUE : f \in {f \in DOMAIN idx : idx[f] # Torn}}

\* Records lists what the files hold.
LEMMA RecordsHeld ==
    ASSUME NEW order, Len(order) \in Nat, NEW idx
    PROVE  Records(order, idx) \in Seq(Held(idx))
<1> DEFINE n == Len(order)
           read[i \in 0 .. n] ==
             IF i = 0 THEN <<>>
             ELSE IF order[i] \in DOMAIN idx /\ idx[order[i]] # Torn
                  THEN Append(read[i - 1], CHOOSE r \in idx[order[i]] : TRUE)
                  ELSE read[i - 1]
<1>1. Records(order, idx) = read[n]
  BY DEF Records
<1>2. PICK g : Readings(order, idx, n, g)
  BY ReadingsExist
<1>3. Readings(order, idx, n, read)
  BY <1>2 DEF Readings
<1> HIDE DEF read
<1> DEFINE Wrong == {i \in 0 .. n : read[i] \notin Seq(Held(idx))}
<1>4. \A i \in 0 .. n :
        read[i] = IF i = 0 THEN <<>>
                  ELSE IF order[i] \in DOMAIN idx /\ idx[order[i]] # Torn
                       THEN Append(read[i - 1], CHOOSE r \in idx[order[i]] : TRUE)
                       ELSE read[i - 1]
  BY <1>3 DEF Readings
<1>5. Wrong = {}
  <2>1. SUFFICES ASSUME Wrong # {} PROVE FALSE
    OBVIOUS
  <2>2. PICK w \in Wrong : \A j \in Wrong : w <= j
    <3>1. Wrong \in SUBSET Nat
      OBVIOUS
    <3> HIDE DEF Wrong
    <3> QED
      BY <2>1, <3>1, LeastExists
  <2>3. w # 0
    <3>1. 0 \in 0 .. n
      OBVIOUS
    <3>2. read[0] = <<>> /\ <<>> \in Seq(Held(idx))
      BY <1>4, <3>1
    <3> QED
      BY <2>2, <3>2
  <2>4. w - 1 \in 0 .. n /\ w \in 0 .. n /\ ~ (w <= w - 1)
    BY <2>2, <2>3
  <2>5. read[w - 1] \in Seq(Held(idx))
    BY <2>2, <2>4
  <2>6. CASE order[w] \in DOMAIN idx /\ idx[order[w]] # Torn
    <3>1. (CHOOSE r \in idx[order[w]] : TRUE) \in Held(idx)
      BY <2>6 DEF Held
    <3>2. read[w] = Append(read[w - 1], CHOOSE r \in idx[order[w]] : TRUE)
      BY <1>4, <2>3, <2>4, <2>6
    <3>3. read[w] \in Seq(Held(idx))
      BY <2>5, <3>1, <3>2
    <3> QED
      BY <2>2, <3>3
  <2>7. CASE ~ (order[w] \in DOMAIN idx /\ idx[order[w]] # Torn)
    <3>1. read[w] = read[w - 1]
      BY <1>4, <2>3, <2>4, <2>7
    <3> QED
      BY <2>2, <2>5, <3>1
  <2> QED
    BY <2>6, <2>7
<1>6. n \in 0 .. n
  OBVIOUS
<1> QED
  BY <1>1, <1>5, <1>6


\* Whatever is read from models/ is read well.
LEMMA AllRecordsReadWell ==
    ASSUME IndexInv PROVE ReadWell(AllRecords)
<1>1. AllRecords \in Seq(Held(index))
  BY CatalogAssumption, RecordsHeld, LenProperties DEF AllRecords
<1>2. Len(AllRecords) \in Nat /\ DOMAIN AllRecords = 1 .. Len(AllRecords)
  BY <1>1, LenProperties
<1>3. ToSet(AllRecords) \subseteq Held(index)
  BY <1>1, <1>2, ElementOfSeq DEF ToSet
<1>4. \A r \in Held(index) :
        r \in Known /\ r.file \in DOMAIN index /\ r = CHOOSE s \in index[r.file] : TRUE
  <2>1. TAKE r \in Held(index)
  <2>2. PICK f \in DOMAIN index : index[f] # Torn /\ r = CHOOSE s \in index[f] : TRUE
    BY <2>1 DEF Held
  <2>3. r \in index[f]
    BY <2>2 DEF Torn
  <2>4. r.file = f /\ r \in Known
    BY <2>2, <2>3 DEF IndexInv
  <2> QED
    BY <2>2, <2>4
<1>5. \A r, other \in Held(index) : r.slug = other.slug => r.file = other.file
  BY <1>4, SlugAssumption
<1>6. \A r, other \in Held(index) : r.slug = other.slug => r = other
  BY <1>4, <1>5
<1> QED
  BY <1>2, <1>3, <1>4, <1>6 DEF ReadWell

\* With one sidecar for a slug, the first with that slug is the last.
LEMMA OneOfSlug ==
    ASSUME NEW records, ReadWell(records), NEW slug
    PROVE  /\ FindBySlug(records, slug) = {r \in ToSet(records) : r.slug = slug}
           /\ LastBySlug(records, slug) = {r \in ToSet(records) : r.slug = slug}
<1>1. \A i \in DOMAIN records : i \in 1 .. i /\ i \in i .. Len(records)
  BY DEF ReadWell
<1>2. \A i \in DOMAIN records, r \in ToSet(records) :
        r.slug = slug /\ records[i].slug = slug => records[i] = r
  BY DEF ReadWell, ToSet
<1> QED
  BY <1>1, <1>2 DEF FindBySlug, LastBySlug

\* A selector picks one sidecar at most.
LEMMA SelectsOne ==
    ASSUME NEW records, ReadWell(records), NEW selector
    PROVE  \A r, other \in Selected(records, selector) :
             r = other /\ r \in ToSet(records)
<1> DEFINE hits == {i \in DOMAIN records :
                      selector \in {records[i].slug, records[i].name}}
<1>1. \A i, j \in hits : (\A k \in hits : i <= k) /\ (\A k \in hits : j <= k) => i = j
  BY DEF ReadWell
<1>2. \A i \in hits : records[i] \in ToSet(records)
  BY DEF ToSet
<1>3. Selected(records, selector) =
        {records[i] : i \in {j \in hits : \A k \in hits : j <= k}}
  BY DEF Selected
<1> HIDE DEF hits
<1> QED
  BY <1>1, <1>2, <1>3

\* What is known of a known sidecar.
LEMMA KnownAre ==
    ASSUME NEW r \in Known
    PROVE  /\ r.format \in {"gguf", "safetensors", "mlx"}
           /\ r.native \in Nat /\ r.native \notin 1 .. 3
           /\ r.envProfile \in {r.profile, Absent} \/ r.profile = Absent
           /\ "auto" \notin {r.profile, r.envProfile}
           /\ r.provider = "huggingface" => r.files \in Seq(Seq(STRING))
           /\ r.format = "safetensors" => r \in ToSet(Catalog)
<1>1. CASE r \in ToSet(Catalog)
  BY <1>1, CatalogAssumption, ProfileAssumption DEF Sidecars
<1>2. CASE r \notin ToSet(Catalog)
  <2>1. PICK c \in Sources, quant \in DOMAIN Built : r = BuiltSidecar(c, quant)
    BY <1>2 DEF Known
  <2>2. c \in Sidecars /\ "auto" # c.profile
    BY CatalogAssumption, ProfileAssumption DEF Sources
  <2>3. /\ r.format = "gguf" /\ r.native = 0 /\ r.envProfile = c.profile
        /\ r.profile = c.profile /\ r.provider = "local_build"
    BY <2>1, <2>2 DEF BuiltSidecar, Sidecars
  <2> QED
    BY <2>2, <2>3
<1> QED
  BY <1>1, <1>2

\* A sidecar that is being built is a known one, under its own name.
LEMMA BuiltIsKnown ==
    ASSUME NEW r \in Sources, NEW quant \in DOMAIN Built
    PROVE  /\ BuiltSidecar(r, quant) \in Known
           /\ BuiltSidecar(r, quant).file = Built[quant][r.name].file
<1>1. r \in Sidecars
  BY CatalogAssumption DEF Sources
<1>2. BuiltSidecar(r, quant).file = Built[quant][r.name].file
  BY <1>1 DEF BuiltSidecar, Sidecars
<1> QED
  BY <1>2 DEF Known

(***************************************************************************)
(* Where files are.                                                        *)
(***************************************************************************)

\* A file that is in either place is present, and stays so while files are added.
LEMMA PresentIs ==
    ASSUME NEW r, NEW d
    PROVE  ArtifactPresent(r, d) <=> Root(r.path) \in DOMAIN d \/ Store(r.path) \in DOMAIN d
BY DEF ArtifactPresent, ResolveArtifact, Exists

\* The tail of a sequence, and what it leaves out.
LEMMA TailIs ==
    ASSUME NEW S, NEW s \in Seq(S), s # <<>>
    PROVE  /\ Tail(s) \in Seq(S) /\ Len(Tail(s)) = Len(s) - 1
           /\ Len(s) \in Nat \ {0} /\ DOMAIN s = 1 .. Len(s)
           /\ Head(s) = s[1] /\ \A i \in 1 .. Len(s) - 1 : Tail(s)[i] = s[i + 1]
           /\ ToSet(s) = {Head(s)} \cup ToSet(Tail(s))
<1>1. /\ Tail(s) \in Seq(S) /\ Len(Tail(s)) = Len(s) - 1
      /\ Len(s) \in Nat \ {0} /\ DOMAIN s = 1 .. Len(s)
      /\ Head(s) = s[1] /\ \A i \in 1 .. Len(s) - 1 : Tail(s)[i] = s[i + 1]
  BY HeadTailProperties, EmptySeq, LenProperties
<1>2. DOMAIN Tail(s) = 1 .. Len(s) - 1
  BY <1>1, LenProperties
<1>3. \A i \in 1 .. Len(s) : i = 1 \/ (i - 1 \in 1 .. Len(s) - 1 /\ (i - 1) + 1 = i)
  BY <1>1
<1>4. \A i \in 1 .. Len(s) - 1 : i + 1 \in 1 .. Len(s)
  BY <1>1
<1>5. 1 \in 1 .. Len(s)
  BY <1>1
<1>6. ASSUME NEW x \in ToSet(s) PROVE x = Head(s) \/ x \in ToSet(Tail(s))
  <2>1. PICK i \in 1 .. Len(s) : x = s[i]
    BY <1>1 DEF ToSet
  <2>2. i # 1 => Tail(s)[i - 1] = x /\ i - 1 \in DOMAIN Tail(s)
    BY <1>1, <1>2, <1>3, <2>1
  <2> QED
    BY <1>1, <2>1, <2>2 DEF ToSet
<1>7. ASSUME NEW x, x = Head(s) \/ x \in ToSet(Tail(s)) PROVE x \in ToSet(s)
  <2>1. CASE x = Head(s)
    BY <1>1, <1>5, <2>1 DEF ToSet
  <2>2. CASE x \in ToSet(Tail(s))
    BY <1>1, <1>2, <1>4, <2>2 DEF ToSet
  <2> QED
    BY <1>7, <2>1, <2>2
<1>8. ToSet(s) = {Head(s)} \cup ToSet(Tail(s))
  BY <1>6, <1>7
<1> QED
  BY <1>1, <1>8

\* A sequence is one of its own elements.
LEMMA SeqOfOwn ==
    ASSUME NEW S, NEW s \in Seq(S) PROVE s \in Seq(ToSet(s))
<1>1. Len(s) \in Nat /\ DOMAIN s = 1 .. Len(s) /\ s \in [1 .. Len(s) -> S]
  BY LenProperties
<1>2. s \in [1 .. Len(s) -> ToSet(s)]
  BY <1>1 DEF ToSet
<1> QED
  BY <1>1, <1>2, SeqDef

\* A download entry that lists the file the programs look for puts it there.
LEMMA WantedIsListed ==
    ASSUME NEW r \in Known, r.provider = "huggingface"
    PROVE  /\ Destinations(r) \in Seq(ToSet(Destinations(r)))
           /\ ListsAnchor(r) => Store(r.path) \in ToSet(Destinations(r))
<1>1. r.files \in Seq(Seq(STRING))
  BY KnownAre
<1>2. Len(r.files) \in Nat /\ DOMAIN r.files = 1 .. Len(r.files)
  BY <1>1, LenProperties
<1>3. DOMAIN Destinations(r) = 1 .. Len(r.files)
  BY <1>2 DEF Destinations
<1>4. Destinations(r) \in [1 .. Len(r.files) -> ToSet(Destinations(r))]
  <2>1. Destinations(r) = [i \in 1 .. Len(r.files) |-> Destinations(r)[i]]
    BY <1>2 DEF Destinations
  <2>2. \A i \in 1 .. Len(r.files) : Destinations(r)[i] \in ToSet(Destinations(r))
    BY <1>3 DEF ToSet
  <2> QED
    BY <2>1, <2>2
<1>5. Destinations(r) \in Seq(ToSet(Destinations(r)))
  BY <1>2, <1>4, SeqDef
<1>6. ASSUME ListsAnchor(r) PROVE Store(r.path) \in ToSet(Destinations(r))
  <2>1. PICK i \in DOMAIN r.files : r.path = LocalDir(r) \o r.files[i]
    <3>1. PICK i \in DOMAIN r.files :
            \/ r.dir # <<>> /\ r.path = r.dir \o r.files[i]
            \/ /\ r.dir = <<>> /\ r.snapshot /\ r.format # "gguf"
               /\ r.path = Front(r.path) \o r.files[i]
            \/ /\ r.dir = <<>> /\ ~(r.snapshot /\ r.format # "gguf")
               /\ r.path = r.files[i]
      BY <1>6 DEF ListsAnchor
    <3>2. r.files[i] \in Seq(STRING)
      BY <1>1, <1>2, ElementOfSeq
    <3>3. <<>> \o r.files[i] = r.files[i]
      BY <3>2, ConcatEmptySeq
    <3> QED
      BY <3>1, <3>3 DEF LocalDir
  <2>2. Destinations(r)[i] = Store(r.path)
    BY <2>1 DEF Destinations
  <2> QED
    BY <1>2, <1>3, <2>1, <2>2 DEF ToSet
<1> QED
  BY <1>5, <1>6


(***************************************************************************)
(* Who changes what.                                                       *)
(***************************************************************************)

\* The steps of one program each: of who writes the policy, of a download, of a build, of
\* llama-swap or a server that runs without it, and of Pi's bootstrap.
PolicyStep ==
    \/ \E preset \in Presets, force \in BOOLEAN : InitPolicy(preset, force)
    \/ \E edit \in Edits : EditPolicy(edit)
DownloadStep ==
    \/ StartDownload(Policy.enabled, TRUE)
    \/ \E slug \in Asked : StartDownload(<<slug>>, FALSE)
    \/ NextModel \/ FetchFile \/ EndDownload
BuildStep ==
    \/ \E r \in ToSet(AllRecords), quant \in DOMAIN Built : StartBuild(r, quant)
    \/ EndConvert \/ EndQuantize \/ OpenSidecar \/ DumpSidecar \/ BuildDies
ServeStep ==
    \/ WriteSwapConfig \/ StartSwap \/ UnloadWorker
    \/ \E slug \in Slugs : StartWorker(slug) \/ ServeDirectly(slug)
PiStep ==
    \E model \in Asked \cup {"none"}, says \in BOOLEAN : ConfigurePi(model, says)

\* A step is one program's, and leaves the others' state alone.
LEMMA OneProgram ==
    ASSUME Next
    PROVE  \/ /\ PolicyStep
              /\ UNCHANGED <<index, disk, swapYaml, pull, build, server, worker, pi>>
           \/ /\ DownloadStep
              /\ UNCHANGED <<overlay, index, swapYaml, build, server, worker, pi>>
           \/ BuildStep /\ UNCHANGED <<overlay, swapYaml, pull, server, worker, pi>>
           \/ ServeStep /\ UNCHANGED <<overlay, index, disk, pull, build, pi>>
           \/ /\ PiStep
              /\ UNCHANGED <<overlay, index, disk, swapYaml, pull, build, server, worker>>
<1>1. PolicyStep \/ DownloadStep \/ BuildStep \/ ServeStep \/ PiStep
  BY DEF Next, PolicyStep, DownloadStep, BuildStep, ServeStep, PiStep
<1>2. PolicyStep => UNCHANGED <<index, disk, swapYaml, pull, build, server, worker, pi>>
  BY DEF PolicyStep, InitPolicy, EditPolicy
<1>3. DownloadStep => UNCHANGED <<overlay, index, swapYaml, build, server, worker, pi>>
  BY DEF DownloadStep, StartDownload, NextModel, FetchFile, EndDownload, DownloadUnchanged
<1>4. BuildStep => UNCHANGED <<overlay, swapYaml, pull, server, worker, pi>>
  BY DEF BuildStep, StartBuild, EndConvert, EndQuantize, OpenSidecar, DumpSidecar,
         BuildDies, BuildUnchanged
<1>5. ServeStep => UNCHANGED <<overlay, index, disk, pull, build, pi>>
  BY DEF ServeStep, WriteSwapConfig, StartSwap, UnloadWorker, StartWorker, ServeDirectly,
         files
<1>6. PiStep =>
        UNCHANGED <<overlay, index, disk, swapYaml, pull, build, server, worker>>
  BY DEF PiStep, ConfigurePi, files
<1> QED
  BY <1>1, <1>2, <1>3, <1>4, <1>5, <1>6

\* No program removes an artifact.
LEMMA DiskGrows ==
    ASSUME [Next]_vars PROVE DOMAIN disk \subseteq DOMAIN disk'
<1>1. ASSUME DownloadStep PROVE DOMAIN disk \subseteq DOMAIN disk'
  BY <1>1 DEF DownloadStep, StartDownload, NextModel, FetchFile, EndDownload
<1>2. ASSUME BuildStep PROVE DOMAIN disk \subseteq DOMAIN disk'
  BY <1>2 DEF BuildStep, StartBuild, EndConvert, EndQuantize, OpenSidecar, DumpSidecar,
              BuildDies, Put
<1>3. CASE UNCHANGED vars
  BY <1>3 DEF vars, files
<1> QED
  BY <1>1, <1>2, <1>3, OneProgram

\* The overlay lists slugs, and so does the policy.
LEMMA OverlayStep ==
    ASSUME overlay.enabled \in Seq(STRING), PolicyStep
    PROVE  overlay'.enabled \in Seq(STRING)
<1>1. CASE \E preset \in Presets, force \in BOOLEAN : InitPolicy(preset, force)
  <2>1. PICK preset \in Presets, force \in BOOLEAN : InitPolicy(preset, force)
    BY <1>1
  <2>2. "enabled" \in DOMAIN preset /\ preset.enabled \in Seq(STRING)
    BY PolicyAssumption
  <2> QED
    BY <2>1, <2>2 DEF InitPolicy
<1>2. CASE \E edit \in Edits : EditPolicy(edit)
  BY <1>2, PolicyAssumption DEF EditPolicy
<1> QED
  BY <1>1, <1>2 DEF PolicyStep

\* So does the policy that is in force.
LEMMA PolicyLists ==
    ASSUME overlay.enabled \in Seq(STRING)
    PROVE  Policy.enabled \in Seq(STRING)
BY PolicyAssumption DEF Policy, EffectivePolicy

\* A build writes the sidecar of a snapshot of the catalogue, under its own name.
LEMMA BuildInvStep ==
    ASSUME IndexInv, BuildInv, BuildStep
    PROVE  IndexInv' /\ BuildInv'
<1>1. CASE \E r \in ToSet(AllRecords), quant \in DOMAIN Built : StartBuild(r, quant)
  <2>1. PICK r \in ToSet(AllRecords), quant \in DOMAIN Built : StartBuild(r, quant)
    BY <1>1
  <2>2. r \in Sources
    BY <2>1, AllRecordsReadWell, KnownAre DEF ReadWell, StartBuild, Sources
  <2>3. build' = [pc |-> "convert", source |-> {r}, quant |-> quant] /\ index' = index
    BY <2>1 DEF StartBuild
  <2> QED
    BY <2>2, <2>3 DEF IndexInv, BuildInv
<1>2. CASE EndConvert
  BY <1>2 DEF EndConvert, IndexInv, BuildInv
<1>3. CASE EndQuantize
  BY <1>3 DEF EndQuantize, IndexInv, BuildInv
<1>4. CASE OpenSidecar
  <2>1. IndexInv'
    BY <1>4 DEF OpenSidecar, WriteSidecar, Torn, IndexInv
  <2>2. BuildInv'
    BY <1>4 DEF OpenSidecar, BuildInv
  <2> QED
    BY <2>1, <2>2
<1>5. CASE DumpSidecar
  <2>1. PICK r \in build.source : WriteSidecar(r, {BuiltSidecar(r, build.quant)})
    BY <1>5 DEF DumpSidecar
  <2>2. /\ BuiltSidecar(r, build.quant) \in Known
        /\ BuiltSidecar(r, build.quant).file = SidecarFile(r)
    BY BuiltIsKnown DEF BuildInv, SidecarFile
  <2>3. IndexInv'
    BY <2>1, <2>2 DEF WriteSidecar, IndexInv
  <2>4. BuildInv'
    BY <1>5, BuildAssumption DEF DumpSidecar, NoBuild, BuildInv
  <2> QED
    BY <2>3, <2>4
<1>6. CASE BuildDies
  BY <1>6, BuildAssumption DEF BuildDies, NoBuild, IndexInv, BuildInv
<1> QED
  BY <1>1, <1>2, <1>3, <1>4, <1>5, <1>6 DEF BuildStep

\* What is present stays present.
LEMMA PresentStays ==
    ASSUME DOMAIN disk \subseteq DOMAIN disk', NEW models, AllPresent(models)
    PROVE  AllPresent(models)'
<1>1. \A r : ArtifactPresent(r, disk) => ArtifactPresent(r, disk')
  BY PresentIs
<1> QED
  BY <1>1 DEF AllPresent


(***************************************************************************)
(* llama-swap and its workers.                                             *)
(***************************************************************************)

\* What is served, and what is skipped, of the sidecars that are read.
LEMMA ConfigIs ==
    ASSUME NEW records, NEW policy, NEW d
    PROVE  LET hot == {r \in ToSet(records) : Servable(r) /\ Hot(r, policy)}
               config == BuildSwapConfig(records, policy, d)
           IN  /\ DOMAIN config.models =
                    {r.slug : r \in {c \in hot : ArtifactPresent(c, d)}}
               /\ config.skipped = {r.slug : r \in {c \in hot : ~ArtifactPresent(c, d)}}
               /\ \A slug \in DOMAIN config.models :
                    \E r \in ToSet(records) : r.slug = slug /\ ArtifactPresent(r, d)
BY DEF BuildSwapConfig

\* llama-swap serves what was present when its configuration was written.
LEMMA ConfigStep ==
    ASSUME IndexInv, ConfigInv, ServeStep, UNCHANGED disk
    PROVE  ConfigInv'
<1>1. ASSUME NEW models, AllPresent(models) PROVE AllPresent(models)'
  BY <1>1, PresentStays
<1>2. CASE WriteSwapConfig
  <2>1. AllPresent(BuildSwapConfig(AllRecords, Policy, disk).models)
    BY ConfigIs, AllRecordsReadWell DEF ReadWell, AllPresent
  <2>2. swapYaml' = {BuildSwapConfig(AllRecords, Policy, disk)} /\ server' = server
    BY <1>2 DEF WriteSwapConfig
  <2> QED
    BY <1>1, <2>1, <2>2 DEF ConfigInv
<1>3. CASE StartSwap
  <2>1. PICK config \in swapYaml : server' = [mode |-> "swap", models |-> config.models]
    BY <1>3 DEF StartSwap
  <2>2. swapYaml' = swapYaml
    BY <1>3 DEF StartSwap, files
  <2> QED
    BY <1>1, <2>1, <2>2 DEF ConfigInv
<1>4. CASE UnloadWorker
  <2>1. swapYaml' = swapYaml /\ server' = server
    BY <1>4 DEF UnloadWorker, files
  <2> QED
    BY <1>1, <2>1 DEF ConfigInv
<1>5. CASE \E slug \in Slugs : StartWorker(slug)
  <2>1. swapYaml' = swapYaml /\ server' = server
    BY <1>5 DEF StartWorker, files
  <2> QED
    BY <1>1, <2>1 DEF ConfigInv
<1>6. CASE \E slug \in Slugs : ServeDirectly(slug)
  <2>1. swapYaml' = swapYaml /\ server' = [mode |-> "direct", models |-> <<>>]
    BY <1>6 DEF ServeDirectly, files
  <2> QED
    BY <1>1, <2>1 DEF ConfigInv
<1> QED
  BY <1>2, <1>3, <1>4, <1>5, <1>6 DEF ServeStep

\* The window of a worker, for any sidecar and disk.
LEMMA WindowIs ==
    ASSUME NEW r \in Known, NEW d
    PROVE  LET s == SettingsOf(r, d) IN
           /\ s.ctx \in Nat /\ s.ctx >= 4
           /\ BackendArgs(r, s).ctx = s.ctx
           /\ s.ctx = IF r.native > 0 THEN Least(ProfileCtx(s.profile), r.native)
                      ELSE ProfileCtx(s.profile)
           /\ r.profile # Absent => s.profile = r.profile
           /\ r.profile = Absent /\ r.envProfile # Absent => s.profile = r.envProfile
<1> DEFINE s == SettingsOf(r, d)
           env == IF r.envProfile = Absent THEN "auto" ELSE r.envProfile
           named == IF r.profile \in {Absent, "auto"} THEN env ELSE r.profile
<1>1. /\ s.profile = InferProfile(r.marks, named)
      /\ s.ctx = IF r.native > 0 THEN Least(ProfileCtx(s.profile), r.native)
                 ELSE ProfileCtx(s.profile)
  BY DEF SettingsOf
<1>2. BackendArgs(r, s).ctx = s.ctx
  BY DEF BackendArgs, LlamaArgs, FolderArgs
<1>3. /\ r.native \in Nat /\ r.native \notin 1 .. 3
      /\ "auto" \notin {r.profile, r.envProfile}
  BY KnownAre
<1> HIDE DEF s
<1>4. ProfileCtx(s.profile) \in Nat /\ ProfileCtx(s.profile) >= 4
  BY DEF ProfileCtx
<1>5. s.ctx \in Nat /\ s.ctx >= 4
  BY <1>1, <1>3, <1>4 DEF Least
<1>6. named # "auto" => s.profile = named
  BY <1>1 DEF InferProfile
<1>7. r.profile # Absent => named = r.profile
  BY <1>3
<1>8. r.profile = Absent /\ r.envProfile # Absent => named = r.envProfile
  OBVIOUS
<1> QED
  BY <1>1, <1>2, <1>3, <1>5, <1>6, <1>7, <1>8 DEF s

\* A worker finds the file of a model that is present.
LEMMA StartFinds ==
    ASSUME NEW r, NEW d, ArtifactPresent(r, d)
    PROVE  StartOutcome(r, d) # "no model file"
<1>1. Exists(d, SettingsOf(r, d).model)
  BY DEF ArtifactPresent, SettingsOf
<1>2. Validate(r, SettingsOf(r, d), d) # "no model file"
  BY <1>1 DEF Validate
<1> QED
  BY <1>2 DEF StartOutcome

\* What a worker that is started comes to.
LEMMA WorkerRuns ==
    ASSUME IndexInv, NEW slug, RunWorker(slug)
    PROVE  /\ worker'.outcome = "ready" => worker'.ctx \in Nat /\ worker'.ctx >= 2
           /\ worker'.outcome = "no model file" =>
                \E r \in ToSet(AllRecords) : r.slug = slug /\ ~ArtifactPresent(r, disk)
<1> DEFINE found == IF Readable(index) THEN FindBySlug(AllRecords, slug) ELSE {}
<1>1. ReadWell(AllRecords)
  BY AllRecordsReadWell
<1>2. \A r \in found : r \in ToSet(AllRecords) /\ r.slug = slug /\ r \in Known
  BY <1>1, OneOfSlug DEF ReadWell
<1>3. CASE worker' = [slug |-> slug, outcome |-> "no sidecar", ctx |-> 0]
  BY <1>3
<1>4. ASSUME NEW r \in found, NEW ctx,
             LET outcome == StartOutcome(r, disk)
                 window == IF outcome = "ready"
                           THEN BackendArgs(r, SettingsOf(r, disk)).ctx ELSE 0
             IN  /\ worker' = [slug |-> slug, outcome |-> outcome, ctx |-> ctx]
                 /\ ctx = window \/ (outcome = "ready" /\ ctx = window \div 2)
      PROVE  /\ worker'.outcome = "ready" => worker'.ctx \in Nat /\ worker'.ctx >= 2
             /\ worker'.outcome = "no model file" =>
                  \E q \in ToSet(AllRecords) : q.slug = slug /\ ~ArtifactPresent(q, disk)
  <2> DEFINE window == SettingsOf(r, disk).ctx
             outcome == StartOutcome(r, disk)
  <2>1. window \in Nat /\ window >= 4 /\ BackendArgs(r, SettingsOf(r, disk)).ctx = window
    BY <1>2, WindowIs
  <2>2. worker'.outcome = outcome /\ worker'.ctx = ctx
    BY <1>4
  <2>3. outcome = "ready" => ctx = window \/ ctx = window \div 2
    BY <1>4, <2>1
  <2> HIDE DEF window, outcome
  <2>4. outcome = "ready" => ctx \in Nat /\ ctx >= 2
    BY <2>1, <2>3
  <2>5. outcome = "no model file" => ~ArtifactPresent(r, disk)
    BY StartFinds DEF outcome
  <2> QED
    BY <1>2, <2>2, <2>4, <2>5
<1> QED
  BY <1>3, <1>4 DEF RunWorker

\* What a configuration served was present when it was written and still is, and the
\* worker reads a sidecar of the same slug, hence of the same file.
LEMMA WorkerStep ==
    ASSUME IndexInv, ConfigInv, WorkerInv, ServeStep
    PROVE  WorkerInv'
<1>1. CASE WriteSwapConfig
  BY <1>1 DEF WriteSwapConfig, WorkerInv
<1>2. CASE StartSwap \/ UnloadWorker
  <2>1. worker' = NoWorker
    BY <1>2 DEF StartSwap, UnloadWorker
  <2>2. worker'.outcome = "none"
    BY <2>1 DEF NoWorker
  <2> QED
    BY <2>2 DEF WorkerInv
<1>3. ASSUME NEW slug \in Slugs, StartWorker(slug) PROVE WorkerInv'
  <2>1. RunWorker(slug) /\ server' = server /\ slug \in DOMAIN server.models
        /\ server.mode = "swap"
    BY <1>3 DEF StartWorker
  <2>2. PICK q \in Known : q.slug = slug /\ ArtifactPresent(q, disk)
    BY <2>1 DEF ConfigInv, AllPresent
  <2>3. \A r \in ToSet(AllRecords) : r.slug = slug => ArtifactPresent(r, disk)
    <3>1. TAKE r \in ToSet(AllRecords)
    <3>2. HAVE r.slug = slug
    <3>3. r.path = q.path
      BY <2>2, <3>2, AllRecordsReadWell, SlugAssumption DEF ReadWell
    <3> QED
      BY <2>2, <3>3, PresentIs
  <2> QED
    BY <2>1, <2>3, WorkerRuns DEF WorkerInv
<1>4. ASSUME NEW slug \in Slugs, ServeDirectly(slug) PROVE WorkerInv'
  <2>1. RunWorker(slug) /\ server'.mode = "direct"
    BY <1>4 DEF ServeDirectly
  <2> QED
    BY <2>1, WorkerRuns DEF WorkerInv
<1> QED
  BY <1>1, <1>2, <1>3, <1>4 DEF ServeStep


(***************************************************************************)
(* Downloads.                                                              *)
(***************************************************************************)

\* Files that are added leave a download where it was.
LEMMA PullStays ==
    ASSUME PullInv, pull' = pull, DOMAIN disk \subseteq DOMAIN disk'
    PROVE  PullInv'
<1>1. \A r : ArtifactPresent(r, disk) => ArtifactPresent(r, disk')
  BY PresentIs
<1> QED
  BY <1>1 DEF PullInv, Handled

\* A download starts with everything left to do.
LEMMA PullStarts ==
    ASSUME IndexInv, NEW slugs \in Seq(STRING), NEW all \in BOOLEAN,
           StartDownload(slugs, all)
    PROVE  PullInv'
<1>1. pull' = [pc |-> "running", records |-> AllRecords, queue |-> slugs,
               asked |-> slugs, all |-> all, want |-> <<>>]
  BY DEF StartDownload
<1>2. ReadWell(AllRecords)
  BY AllRecordsReadWell
<1>3. <<>> \in Seq(ToSet(<<>>))
  OBVIOUS
<1>4. Len(slugs) \in Nat /\ DOMAIN slugs = 1 .. Len(slugs)
  BY LenProperties
<1>5. \A i : i \notin 1 .. Len(slugs) - Len(slugs)
  BY <1>4
<1>6. \A j \in 1 .. Len(slugs) : Len(slugs) - Len(slugs) + j = j
  BY <1>4
<1> QED
  BY <1>1, <1>2, <1>3, <1>4, <1>5, <1>6 DEF PullInv, Handled

\* The next model of the queue is skipped because it is there, or its files are wanted.
LEMMA PullNext ==
    ASSUME PullInv, NextModel
    PROVE  PullInv'
<1> DEFINE slugs == pull.asked
           queue == pull.queue
           records == pull.records
           k == Len(slugs) - Len(queue)
<1>1. /\ pull.pc = "running" /\ pull.want = <<>> /\ queue # <<>> /\ disk' = disk
      /\ DOMAIN pull = {"pc", "records", "queue", "asked", "all", "want"}
  BY DEF NextModel, PullInv
<1>2. CASE pull' = [pull EXCEPT !.pc = "failed"]
  BY <1>1, <1>2 DEF PullInv
<1>3. ASSUME NEW r \in Selected(records, Head(queue)), NEW want,
             pull' = [pull EXCEPT !.queue = Tail(@), !.want = want],
             want \in Seq(ToSet(want)),
             ListsAnchor(r) => ArtifactPresent(r, disk) \/ Store(r.path) \in ToSet(want)
      PROVE  PullInv'
  <2>1. /\ pull'.pc = "running" /\ pull'.records = records /\ pull'.asked = slugs
        /\ pull'.queue = Tail(queue) /\ pull'.want = want
        /\ DOMAIN pull' = {"pc", "records", "queue", "asked", "all", "want"}
    BY <1>1, <1>3
  <2>2. /\ ReadWell(records) /\ slugs \in Seq(STRING) /\ queue \in Seq(STRING)
        /\ Len(queue) <= Len(slugs)
        /\ \A j \in 1 .. Len(queue) : queue[j] = slugs[k + j]
        /\ \A i \in DOMAIN slugs : i \in 1 .. k =>
             \A q \in Selected(records, slugs[i]) :
                 ListsAnchor(q) => ArtifactPresent(q, disk)
    BY <1>1 DEF PullInv, Handled, ToSet
  <2>3. /\ Tail(queue) \in Seq(STRING) /\ Len(Tail(queue)) = Len(queue) - 1
        /\ Len(queue) \in Nat \ {0} /\ Head(queue) = queue[1]
        /\ \A j \in 1 .. Len(queue) - 1 : Tail(queue)[j] = queue[j + 1]
    BY <1>1, <2>2, TailIs
  <2>4. Len(slugs) \in Nat /\ DOMAIN slugs = 1 .. Len(slugs)
    BY <2>2, LenProperties
  <2> HIDE DEF slugs, queue, records
  <2>5. /\ Len(slugs) - Len(Tail(queue)) = k + 1 /\ k \in Nat
        /\ Len(Tail(queue)) <= Len(slugs)
    BY <2>2, <2>3, <2>4
  <2>6. \A j \in 1 .. Len(Tail(queue)) : Tail(queue)[j] = slugs[k + 1 + j]
    <3>1. TAKE j \in 1 .. Len(Tail(queue))
    <3>2. j \in 1 .. Len(queue) - 1 /\ j + 1 \in 1 .. Len(queue) /\ k + (j + 1) = k + 1 + j
      BY <2>3, <2>5
    <3> HIDE DEF k
    <3> QED
      BY <2>2, <2>3, <3>2
  <2>7. Head(queue) = slugs[k + 1]
    BY <2>2, <2>3
  <2> HIDE DEF k
  <2>8. ASSUME NEW i \in DOMAIN slugs, i \in 1 .. k + 1,
               NEW q \in Selected(records, slugs[i]), ListsAnchor(q)
        PROVE  ArtifactPresent(q, disk) \/ Store(q.path) \in ToSet(want)
    <3>1. i \in 1 .. k \/ i = k + 1
      BY <2>5, <2>8
    <3>2. CASE i \in 1 .. k
      BY <2>2, <2>8, <3>2
    <3>3. CASE i = k + 1
      <4>1. q = r
        BY <1>3, <2>2, <2>7, <2>8, <3>3, SelectsOne DEF records, queue
      <4> QED
        BY <1>3, <2>8, <4>1
    <3> QED
      BY <3>1, <3>2, <3>3
  <2>9. /\ pull'.asked \in Seq(STRING) /\ pull'.queue \in Seq(STRING)
        /\ pull'.want \in Seq(ToSet(pull'.want)) /\ ReadWell(pull'.records)
        /\ Len(pull'.queue) <= Len(pull'.asked)
    BY <1>3, <2>1, <2>2, <2>3, <2>5
  <2>10. \A j \in 1 .. Len(pull'.queue) :
           pull'.queue[j] = pull'.asked[Len(pull'.asked) - Len(pull'.queue) + j]
    BY <2>1, <2>5, <2>6
  <2>11. \A i \in DOMAIN pull'.asked : i \in 1 .. Len(pull'.asked) - Len(pull'.queue) =>
           \A q \in Selected(pull'.records, pull'.asked[i]) : ListsAnchor(q) =>
               ArtifactPresent(q, disk') \/ Store(q.path) \in ToSet(pull'.want)
    BY <1>1, <2>1, <2>5, <2>8
  <2>12. pull'.pc # "done"
    BY <2>1
  <2> QED
    BY <2>1, <2>9, <2>10, <2>11, <2>12 DEF PullInv, Handled
<1>4. ASSUME NEW r \in Selected(records, Head(queue)), ArtifactPresent(r, disk),
             pull' = [pull EXCEPT !.queue = Tail(@)]
      PROVE  PullInv'
  <2>1. pull' = [pull EXCEPT !.queue = Tail(@), !.want = <<>>]
    BY <1>1, <1>4
  <2>2. <<>> \in Seq(ToSet(<<>>))
    OBVIOUS
  <2> QED
    BY <1>3, <1>4, <2>1, <2>2
<1>5. ASSUME NEW r \in Selected(records, Head(queue)), r.provider = "huggingface",
             pull' = [pull EXCEPT !.queue = Tail(@), !.want = Destinations(r)]
      PROVE  PullInv'
  <2>1. r \in Known
    BY <1>1, <1>5, SelectsOne DEF PullInv, ReadWell
  <2> QED
    BY <1>3, <1>5, <2>1, WantedIsListed
<1> HIDE DEF records, queue
<1> QED
  BY <1>2, <1>4, <1>5 DEF NextModel, records, queue

\* A file that is fetched is there, and no longer wanted.
LEMMA PullFetch ==
    ASSUME PullInv, FetchFile
    PROVE  PullInv'
<1> DEFINE want == pull.want
<1>1. /\ pull.pc = "running" /\ want # <<>>
      /\ DOMAIN pull = {"pc", "records", "queue", "asked", "all", "want"}
  BY DEF FetchFile, PullInv
<1>2. CASE pull' = [pull EXCEPT !.pc = "failed"]
  BY <1>1, <1>2 DEF PullInv
<1>3. CASE /\ disk' = [l \in DOMAIN disk \cup {Head(want)} |->
                          IF l = Head(want) THEN "whole" ELSE disk[l]]
           /\ pull' = [pull EXCEPT !.want = Tail(@)]
  <2>1. /\ pull'.pc = "running" /\ pull'.records = pull.records /\ pull'.asked = pull.asked
        /\ pull'.queue = pull.queue /\ pull'.want = Tail(want)
        /\ DOMAIN pull' = {"pc", "records", "queue", "asked", "all", "want"}
    BY <1>1, <1>3
  <2>2. want \in Seq(ToSet(want))
    BY <1>1 DEF PullInv
  <2> HIDE DEF want
  <2>3. Tail(want) \in Seq(ToSet(want)) /\ ToSet(want) = {Head(want)} \cup ToSet(Tail(want))
    BY <1>1, <2>2, TailIs
  <2>4. Tail(want) \in Seq(ToSet(Tail(want)))
    BY <2>3, SeqOfOwn
  <2>5. DOMAIN disk' = DOMAIN disk \cup {Head(want)}
    BY <1>3
  <2>6. ASSUME NEW r, ArtifactPresent(r, disk) \/ Store(r.path) \in ToSet(want)
        PROVE  ArtifactPresent(r, disk') \/ Store(r.path) \in ToSet(Tail(want))
    BY <2>3, <2>5, <2>6, PresentIs
  <2> QED
    BY <1>1, <2>1, <2>4, <2>6 DEF PullInv, Handled, want
<1> QED
  BY <1>2, <1>3 DEF FetchFile

\* A download keeps its promise about the part of its queue it is through with.
LEMMA PullStep ==
    ASSUME IndexInv, overlay.enabled \in Seq(STRING), PullInv, DownloadStep
    PROVE  PullInv'
<1>1. CASE StartDownload(Policy.enabled, TRUE)
  BY <1>1, PolicyLists, PullStarts
<1>2. ASSUME NEW slug \in Asked, StartDownload(<<slug>>, FALSE) PROVE PullInv'
  <2>1. slug \in STRING
    BY PolicyAssumption
  <2>2. <<slug>> \in Seq(STRING)
    BY <2>1
  <2> QED
    BY <1>2, <2>2, PullStarts
<1>3. CASE NextModel
  BY <1>3, PullNext
<1>4. CASE FetchFile
  BY <1>4, PullFetch
<1>5. CASE EndDownload
  <2>1. pull.pc = "running" /\ pull.want = <<>> /\ pull.queue = <<>> /\ disk' = disk
        /\ pull' = [pull EXCEPT !.pc = "done"]
    BY <1>5 DEF EndDownload
  <2> QED
    BY <2>1 DEF PullInv, Handled
<1> QED
  BY <1>1, <1>2, <1>3, <1>4, <1>5 DEF DownloadStep


(***************************************************************************)
(* The invariant is inductive.                                             *)
(***************************************************************************)

\* At the start models/ holds the tracked sidecars, and nothing else has happened.
LEMMA StoreInit == Init => StoreInv
<1>1. SUFFICES ASSUME Init PROVE StoreInv
  OBVIOUS
<1>2. overlay.enabled \in Seq(STRING)
  BY <1>1 DEF Init, NoOverlay
<1>3. IndexInv
  BY <1>1 DEF Init, IndexInv, Known
<1>4. BuildInv
  BY <1>1, BuildAssumption DEF Init, NoBuild, BuildInv
<1>5. ConfigInv
  BY <1>1 DEF Init, ConfigInv
<1>6. WorkerInv
  BY <1>1 DEF Init, NoWorker, WorkerInv
<1>7. PullInv
  BY <1>1 DEF Init, NoPull, PullInv
<1> QED
  BY <1>2, <1>3, <1>4, <1>5, <1>6, <1>7 DEF StoreInv

\* Every step keeps it: each program its own part, and the others' because none of
\* them takes an artifact away.
LEMMA StoreNext == StoreInv /\ [Next]_vars => StoreInv'
<1>1. SUFFICES ASSUME StoreInv, [Next]_vars PROVE StoreInv'
  OBVIOUS
<1>2. /\ overlay.enabled \in Seq(STRING)
      /\ IndexInv /\ BuildInv /\ ConfigInv /\ WorkerInv /\ PullInv
  BY <1>1 DEF StoreInv
<1>3. DOMAIN disk \subseteq DOMAIN disk'
  BY <1>1, DiskGrows
<1>4. overlay'.enabled \in Seq(STRING)
  <2>1. CASE UNCHANGED overlay
    BY <1>2, <2>1
  <2>2. CASE PolicyStep
    BY <1>2, <2>2, OverlayStep
  <2> QED
    BY <1>1, <2>1, <2>2, OneProgram DEF vars, files
<1>5. IndexInv' /\ BuildInv'
  <2>1. CASE UNCHANGED <<index, build>>
    BY <1>2, <2>1 DEF IndexInv, BuildInv
  <2>2. CASE BuildStep
    BY <1>2, <2>2, BuildInvStep
  <2> QED
    BY <1>1, <2>1, <2>2, OneProgram DEF vars, files
<1>6. ConfigInv'
  <2>1. CASE UNCHANGED <<swapYaml, server>>
    <3>1. ASSUME NEW models, AllPresent(models) PROVE AllPresent(models)'
      BY <1>3, <3>1, PresentStays
    <3> QED
      BY <1>2, <2>1, <3>1 DEF ConfigInv
  <2>2. CASE ServeStep /\ UNCHANGED disk
    BY <1>2, <2>2, ConfigStep
  <2> QED
    BY <1>1, <2>1, <2>2, OneProgram DEF vars, files
<1>7. WorkerInv'
  <2>1. CASE UNCHANGED <<server, worker>>
    BY <1>2, <2>1 DEF WorkerInv
  <2>2. CASE ServeStep
    BY <1>2, <2>2, WorkerStep
  <2> QED
    BY <1>1, <2>1, <2>2, OneProgram DEF vars, files
<1>8. PullInv'
  <2>1. CASE UNCHANGED pull
    BY <1>2, <1>3, <2>1, PullStays
  <2>2. CASE DownloadStep
    BY <1>2, <2>2, PullStep
  <2> QED
    BY <1>1, <2>1, <2>2, OneProgram DEF vars, files
<1> QED
  BY <1>4, <1>5, <1>6, <1>7, <1>8 DEF StoreInv

\* What is known of the files, the download, the build, the configuration and the
\* worker in every state the programs reach.
THEOREM StoreInductive == Spec => []StoreInv
<1>1. Init => StoreInv
  BY StoreInit
<1>2. StoreInv /\ [Next]_vars => StoreInv'
  BY StoreNext
<1> QED
  BY <1>1, <1>2, PTL DEF Spec

(***************************************************************************)
(* Whether a model is there.                                               *)
(***************************************************************************)

\* A download that is done has handled every model it was asked for.
LEMMA PulledIsPresent == PullInv => PullMeansPresent
<1>1. SUFFICES ASSUME PullInv, pull.pc = "done", NEW i \in DOMAIN pull.asked,
                      NEW r \in Selected(pull.records, pull.asked[i]), ListsAnchor(r)
               PROVE  ArtifactPresent(r, disk)
  BY DEF PullMeansPresent
<1>2. pull.asked \in Seq(STRING) /\ pull.queue = <<>> /\ pull.want = <<>>
  BY <1>1 DEF PullInv
<1>3. i \in 1 .. Len(pull.asked) - Len(pull.queue)
  BY <1>1, <1>2, LenProperties
<1>4. ArtifactPresent(r, disk) \/ Store(r.path) \in ToSet(pull.want)
  BY <1>1, <1>3 DEF PullInv, Handled
<1> QED
  BY <1>2, <1>4 DEF ToSet

\* The doctor and the configuration look at the same sidecar, since a slug has one.
LEMMA DoctorAndConfig == IndexInv => DoctorAgrees
<1>1. SUFFICES ASSUME IndexInv, Policy.enabled # <<>>, NEW slug \in ToSet(Policy.enabled)
               PROVE  LET config == BuildSwapConfig(AllRecords, Policy, disk)
                          line == DoctorLine(AllRecords, slug, disk)
                      IN  /\ line = "ok" <=> slug \in DOMAIN config.models
                          /\ line = "warn" <=> slug \in config.skipped
  BY DEF DoctorAgrees
<1> DEFINE config == BuildSwapConfig(AllRecords, Policy, disk)
           line == DoctorLine(AllRecords, slug, disk)
           hot == {r \in ToSet(AllRecords) : Servable(r) /\ Hot(r, Policy)}
           found == {r \in ToSet(AllRecords) : r.slug = slug}
<1>2. ReadWell(AllRecords)
  BY <1>1, AllRecordsReadWell
<1>3. \A r \in found : r \in hot
  BY <1>1, <1>2, KnownAre DEF ReadWell, Servable, Hot
<1>4. \A r, other \in found : r = other
  BY <1>2 DEF ReadWell
<1>5. /\ slug \in DOMAIN config.models <=> \E r \in found : ArtifactPresent(r, disk)
      /\ slug \in config.skipped <=> \E r \in found : ~ArtifactPresent(r, disk)
  <2>1. /\ DOMAIN config.models = {r.slug : r \in {c \in hot : ArtifactPresent(c, disk)}}
        /\ config.skipped = {r.slug : r \in {c \in hot : ~ArtifactPresent(c, disk)}}
    BY ConfigIs
  <2> HIDE DEF config
  <2> QED
    BY <1>3, <2>1
<1>6. LastBySlug(AllRecords, slug) = found
  BY <1>2, OneOfSlug
<1>7. /\ line = "ok" <=> \E r \in found : ArtifactPresent(r, disk)
      /\ line = "warn" <=> found # {} /\ ~ \E r \in found : ArtifactPresent(r, disk)
  BY <1>6 DEF DoctorLine
<1> HIDE DEF config, line, found
<1> QED
  BY <1>4, <1>5, <1>7 DEF config, line

\* Whoever asks whether a model is there gets the same answer, whichever programs
\* have run: the download that brought it, llama-swap's configuration, the doctor
\* and the worker (download_record, build_config, doctor_checks, resolve_artifact).
THEOREM PresenceHolds == Spec => []PresenceAgrees
<1>1. StoreInv => PresenceAgrees
  BY PulledIsPresent, DoctorAndConfig
     DEF StoreInv, PresenceAgrees, WorkerInv, WorkerFindsArtifact
<1> QED
  BY <1>1, StoreInductive, PTL

(***************************************************************************)
(* What the clients make of the sidecars.                                  *)
(***************************************************************************)

\* A slug that is no other sidecar's name finds its own.
LEMMA FirstIsOwn ==
    ASSUME NEW records, ReadWell(records), NamesApart(records), NEW q \in ToSet(records)
    PROVE  /\ FirstMatch(records, <<q.slug>>) = {q}
           /\ LastBySlug(records, q.slug) = {q}
<1> DEFINE hits == {i \in DOMAIN records : Matches(<<q.slug>>, records[i])}
           first == {j \in hits : \A k \in hits : j <= k}
<1>1. \A i \in hits : records[i] = q
  BY DEF NamesApart, ToSet
<1>2. Matches(<<q.slug>>, q)
  BY DEF Matches
<1>3. hits # {}
  BY <1>2 DEF ToSet
<1>4. hits \in SUBSET Nat
  BY DEF ReadWell
<1>5. FirstMatch(records, <<q.slug>>) = {records[i] : i \in first}
  BY DEF FirstMatch
<1> HIDE DEF hits
<1>6. first # {}
  BY <1>3, <1>4, LeastExists
<1>7. FirstMatch(records, <<q.slug>>) = {q}
  BY <1>1, <1>5, <1>6
<1>8. LastBySlug(records, q.slug) = {q}
  BY OneOfSlug DEF ReadWell
<1> QED
  BY <1>7, <1>8

\* What OpenCode makes of slugs.
LEMMA OpenCodeIs ==
    ASSUME NEW records, NEW slugs, OpenCodeModels(records, {<<s>> : s \in slugs}) # {}
    PROVE  /\ \A s \in slugs : LastBySlug(records, s) # {}
           /\ OpenCodeModels(records, {<<s>> : s \in slugs}) =
                {r \in UNION {LastBySlug(records, s) : s \in slugs} : KindOf(r) = "chat"}
<1> DEFINE ids == {<<s>> : s \in slugs}
           known == [id \in ids |->
                       UNION {LastBySlug(records, s) : s \in {id[i] : i \in 1 .. Len(id)}}]
<1>1. OpenCodeModels(records, ids) =
        IF \E id \in ids : Len(id) # 1 \/ known[id] = {} THEN {}
        ELSE {r \in UNION {known[id] : id \in ids} : KindOf(r) = "chat"}
  BY DEF OpenCodeModels
<1>2. ASSUME NEW s \in slugs PROVE <<s>> \in ids /\ known[<<s>>] = LastBySlug(records, s)
  <2>1. Len(<<s>>) = 1 /\ <<s>>[1] = s /\ 1 .. 1 = {1}
    OBVIOUS
  <2>2. {<<s>>[i] : i \in 1 .. Len(<<s>>)} = {s}
    BY <2>1
  <2>3. UNION {LastBySlug(records, t) : t \in {s}} = LastBySlug(records, s)
    OBVIOUS
  <2> QED
    BY <2>2, <2>3
<1>3. {known[id] : id \in ids} = {LastBySlug(records, s) : s \in slugs}
  <2>1. \A id \in ids : \E s \in slugs : id = <<s>>
    OBVIOUS
  <2> HIDE DEF known, ids
  <2>2. \A id \in ids : \E s \in slugs : known[id] = LastBySlug(records, s)
    BY <1>2, <2>1
  <2>3. \A s \in slugs : \E id \in ids : known[id] = LastBySlug(records, s)
    BY <1>2
  <2> QED
    BY <2>2, <2>3
<1>4. ~ \E id \in ids : known[id] = {}
  BY <1>1
<1> HIDE DEF known
<1>5. OpenCodeModels(records, ids) =
        {r \in UNION {known[id] : id \in ids} : KindOf(r) = "chat"}
  BY <1>1
<1> QED
  BY <1>2, <1>3, <1>4, <1>5

\* The clients of llama-swap agree on the chat models, when no slug is another
\* sidecar's alias: models_from_endpoint of OpenCode's bootstrap, resolve_endpoint of
\* Pi's, and the metadata of build_config, each with its own rule for an id.
THEOREM ClientsHold == Spec => []ClientsAgree
<1>1. ASSUME IndexInv PROVE ClientsAgree
  <2> DEFINE slugs == DOMAIN server.models
             openCode == OpenCodeModels(AllRecords, ApiIds)
  <2>1. SUFFICES ASSUME server.mode = "swap", NamesApart(AllRecords), openCode # {}
                 PROVE  /\ openCode = ResolveKind(AllRecords, ApiIds, "chat")
                        /\ \A r \in openCode : SwapModel(r).kind = "chat"
    BY DEF ClientsAgree
  <2>2. ApiIds = {<<s>> : s \in slugs}
    BY <2>1 DEF ApiIds
  <2>3. ReadWell(AllRecords)
    BY <1>1, AllRecordsReadWell
  <2>4. /\ \A s \in slugs : LastBySlug(AllRecords, s) # {}
        /\ openCode = {r \in UNION {LastBySlug(AllRecords, s) : s \in slugs} :
                          KindOf(r) = "chat"}
    BY <2>1, <2>2, OpenCodeIs
  <2>5. ASSUME NEW s \in slugs
        PROVE  FirstMatch(AllRecords, <<s>>) = LastBySlug(AllRecords, s)
    <3>1. PICK q \in LastBySlug(AllRecords, s) : TRUE
      BY <2>4
    <3>2. q \in ToSet(AllRecords) /\ q.slug = s
      BY <3>1 DEF LastBySlug
    <3> QED
      BY <2>1, <2>3, <3>2, FirstIsOwn
  <2>6. {FirstMatch(AllRecords, id) : id \in ApiIds} =
          {LastBySlug(AllRecords, s) : s \in slugs}
    BY <2>2, <2>5
  <2>7. openCode = ResolveKind(AllRecords, ApiIds, "chat")
    BY <2>4, <2>6 DEF ResolveKind
  <2>8. \A r \in openCode : SwapModel(r).kind = "chat"
    BY <2>4 DEF SwapModel, KindOf
  <2> QED
    BY <2>7, <2>8
<1>2. StoreInv => ClientsAgree
  BY <1>1 DEF StoreInv
<1> QED
  BY <1>2, StoreInductive, PTL

(***************************************************************************)
(* Windows.                                                                *)
(***************************************************************************)

\* A profile's window is a number.
LEMMA ProfileAsks ==
    ASSUME NEW profile PROVE ProfileCtx(profile) \in Nat /\ ProfileCtx(profile) >= 4
BY DEF ProfileCtx

\* Validation and the launcher read the same profile, and what validation accepts is
\* not capped (check_models of route-config.py, ServerSettings of settings.py).
THEOREM AcceptedHolds == Spec => []AcceptedFits
<1>1. ASSUME IndexInv PROVE AcceptedFits
  <2> SUFFICES ASSUME NEW i \in DOMAIN AllRecords, ~HasError(AllRecords, i),
                      NamedProfile(AllRecords[i], "generic") # "generic"
               PROVE  LET s == SettingsOf(AllRecords[i], disk)
                      IN  s.ctx = ProfileCtx(s.profile)
    BY DEF AcceptedFits
  <2> DEFINE r == AllRecords[i]
             s == SettingsOf(r, disk)
             named == NamedProfile(r, "generic")
  <2>1. r \in Known
    BY <1>1, AllRecordsReadWell DEF ReadWell, ToSet
  <2>2. r.native # 0 /\ ~(ProfileCtx(named) > r.native)
    BY DEF HasError
  <2>3. /\ r.native \in Nat
        /\ r.envProfile \in {r.profile, Absent} \/ r.profile = Absent
    BY <2>1, KnownAre
  <2>4. s.profile = named
    <3>1. /\ r.profile # Absent => s.profile = r.profile
          /\ r.profile = Absent /\ r.envProfile # Absent => s.profile = r.envProfile
      BY <2>1, WindowIs
    <3> QED
      BY <2>3, <3>1 DEF NamedProfile
  <2>5. s.ctx = IF r.native > 0 THEN Least(ProfileCtx(s.profile), r.native)
                ELSE ProfileCtx(s.profile)
    BY <2>1, WindowIs
  <2> HIDE DEF r, s, named
  <2>6. ProfileCtx(s.profile) \in Nat /\ ProfileCtx(s.profile) <= r.native
    BY <2>2, <2>3, <2>4, ProfileAsks
  <2> QED
    BY <2>2, <2>3, <2>5, <2>6 DEF Least, r, s
<1>2. StoreInv => AcceptedFits
  BY <1>1 DEF StoreInv
<1> QED
  BY <1>2, StoreInductive, PTL

\* What Pi offers are sidecars that it read.
LEMMA ResolvedAre == Resolved \subseteq ToSet(AllRecords)
<1>1. \A records, id : FirstMatch(records, id) \subseteq ToSet(records)
  BY DEF FirstMatch, ToSet
<1>2. \A records, slug : LastBySlug(records, slug) \subseteq ToSet(records)
  BY DEF LastBySlug
<1> QED
  BY <1>1, <1>2 DEF Resolved, ResolveKind, ResolveDirect

\* The window that Pi is told of a sidecar that names its profile.
LEMMA OfferFits ==
    ASSUME WorkerInv, NEW r \in Known, r.profile # Absent, NEW says \in BOOLEAN
    PROVE  /\ OfferedWindow(r, says) <= SettingsOf(r, disk).ctx
           /\ Probed(r) /\ says => OfferedWindow(r, says) < worker.ctx
<1> DEFINE s == SettingsOf(r, disk)
<1>1. /\ s.ctx \in Nat /\ s.ctx >= 4 /\ s.profile = r.profile
      /\ s.ctx = IF r.native > 0 THEN Least(ProfileCtx(s.profile), r.native)
                 ELSE ProfileCtx(s.profile)
  BY WindowIs
<1> HIDE DEF s
<1>2. PiWindow(r) = s.ctx
  BY <1>1 DEF PiWindow, PiProfile
<1>3. CASE ~(Probed(r) /\ says)
  BY <1>1, <1>2, <1>3 DEF OfferedWindow, s
<1>4. CASE Probed(r) /\ says
  <2>1. worker.ctx \in Nat /\ worker.ctx >= 2
    BY <1>4 DEF WorkerInv, Probed
  <2>2. OfferedWindow(r, says) = LiveWindow(s.ctx, worker.ctx)
    BY <1>2, <1>4 DEF OfferedWindow
  <2>3. LiveWindow(s.ctx, worker.ctx) <= s.ctx /\ LiveWindow(s.ctx, worker.ctx) < worker.ctx
    BY <1>1, <2>1 DEF LiveWindow, Headroom, Least
  <2> QED
    BY <2>2, <2>3 DEF s
<1> QED
  BY <1>3, <1>4

\* Pi is never told of a larger window than the launcher asks for, nor, when the
\* loaded model's llama-server answers the probe, than it allocated
\* (provider_model_from_sidecar and apply_live_context).
THEOREM WindowsFit == Spec => PiWindowFits
<1> DEFINE Fits ==
      \A r \in ToSet(AllRecords) :
          r.slug \in DOMAIN pi'.models /\ r.profile # Absent =>
              /\ pi'.models[r.slug] <= SettingsOf(r, disk).ctx
              /\ Probed(r) =>
                   \A model \in Asked \cup {"none"} :
                     ConfigurePi(model, TRUE) => pi'.models[r.slug] < worker.ctx
<1>1. ASSUME NEW model, NEW says \in BOOLEAN, StoreInv, ConfigurePi(model, says),
             NEW r \in ToSet(AllRecords), r.slug \in DOMAIN pi'.models
      PROVE  pi'.models[r.slug] = OfferedWindow(r, says)
  <2>1. ReadWell(AllRecords)
    BY <1>1, AllRecordsReadWell DEF StoreInv
  <2>2. pi'.models = Offered(Resolved, says)
    BY <1>1 DEF ConfigurePi
  <2>3. r.slug \in {q.slug : q \in Resolved} /\ pi'.models[r.slug] =
          OfferedWindow(CHOOSE q \in Resolved : q.slug = r.slug, says)
    BY <1>1, <2>2 DEF Offered
  <2>4. \E q \in Resolved : q.slug = r.slug
    BY <2>3
  <2>5. (CHOOSE q \in Resolved : q.slug = r.slug) = r
    BY <2>1, <2>4, ResolvedAre DEF ReadWell
  <2> QED
    BY <2>3, <2>5
<1>2. ASSUME StoreInv, [Next]_vars, pi' # pi PROVE Fits
  <2>1. PICK model \in Asked \cup {"none"}, says \in BOOLEAN : ConfigurePi(model, says)
    BY <1>2, OneProgram DEF PiStep, vars, files
  <2>2. ReadWell(AllRecords) /\ WorkerInv
    BY <1>2, AllRecordsReadWell DEF StoreInv
  <2> SUFFICES ASSUME NEW r \in ToSet(AllRecords), r.slug \in DOMAIN pi'.models,
                      r.profile # Absent
               PROVE  /\ pi'.models[r.slug] <= SettingsOf(r, disk).ctx
                      /\ Probed(r) =>
                           \A m \in Asked \cup {"none"} :
                             ConfigurePi(m, TRUE) => pi'.models[r.slug] < worker.ctx
    OBVIOUS
  <2>3. r \in Known
    BY <2>2 DEF ReadWell
  <2>4. pi'.models[r.slug] <= SettingsOf(r, disk).ctx
    BY <1>1, <1>2, <2>1, <2>2, <2>3, OfferFits
  <2>5. ASSUME NEW m \in Asked \cup {"none"}, ConfigurePi(m, TRUE), Probed(r)
        PROVE  pi'.models[r.slug] < worker.ctx
    <3>1. pi'.models[r.slug] = OfferedWindow(r, TRUE)
      BY <1>1, <1>2, <2>5
    <3> QED
      BY <2>2, <2>3, <2>5, <3>1, OfferFits
  <2> QED
    BY <2>4, <2>5
<1>3. StoreInv /\ [Next]_vars => [pi' # pi => Fits]_vars
  BY <1>2
<1> QED
  BY <1>3, StoreInductive, PTL DEF Spec, PiWindowFits

(***************************************************************************)
(* Types.                                                                  *)
(***************************************************************************)

\* A policy step leaves the overlay absent, torn or whole.
LEMMA OverlayTypes ==
    ASSUME TypeOK, PolicyStep PROVE overlay'.state \in {"absent", "torn", "whole"}
<1>1. CASE \E preset \in Presets, force \in BOOLEAN : InitPolicy(preset, force)
  <2>1. PICK preset \in Presets, force \in BOOLEAN : InitPolicy(preset, force)
    BY <1>1
  <2>2. "state" \in DOMAIN preset /\ preset.state = "whole"
    BY PolicyAssumption
  <2> QED
    BY <2>1, <2>2 DEF InitPolicy
<1>2. CASE \E edit \in Edits : EditPolicy(edit)
  BY <1>2, PolicyAssumption DEF EditPolicy
<1> QED
  BY <1>1, <1>2 DEF PolicyStep

\* A sidecar is written where the readers look, and one file holds one sidecar.
LEMMA IndexTypes ==
    ASSUME TypeOK, BuildInv, BuildStep
    PROVE  \A f \in DOMAIN index' : f \in ToSet(FileOrder) /\ Cardinality(index'[f]) <= 1
<1>1. ASSUME NEW r \in build.source, NEW content, WriteSidecar(r, content),
             Cardinality(content) <= 1
      PROVE  \A f \in DOMAIN index' : f \in ToSet(FileOrder) /\ Cardinality(index'[f]) <= 1
  <2>1. SidecarFile(r) \in ToSet(FileOrder)
    BY <1>1, BuildAssumption DEF SidecarFile, BuildInv
  <2> QED
    BY <1>1, <2>1 DEF WriteSidecar, TypeOK
<1>2. CASE OpenSidecar
  BY <1>1, <1>2, FS_EmptySet DEF OpenSidecar, Torn
<1>3. CASE DumpSidecar
  <2>1. PICK r \in build.source : WriteSidecar(r, {BuiltSidecar(r, build.quant)})
    BY <1>3 DEF DumpSidecar
  <2>2. Cardinality({BuiltSidecar(r, build.quant)}) = 1
    BY FS_Singleton
  <2> QED
    BY <1>1, <2>1, <2>2
<1>4. CASE UNCHANGED index
  BY <1>4 DEF TypeOK
<1> QED
  BY <1>2, <1>3, <1>4
     DEF BuildStep, StartBuild, EndConvert, EndQuantize, BuildDies

\* A location holds a whole file or a part of one.
LEMMA DiskTypes ==
    ASSUME TypeOK, [Next]_vars
    PROVE  \A l \in DOMAIN disk' : disk'[l] \in {"whole", "partial"}
<1>1. CASE DownloadStep
  BY <1>1 DEF TypeOK, DownloadStep, StartDownload, NextModel, FetchFile, EndDownload
<1>2. CASE BuildStep
  <2>1. ASSUME NEW location, NEW state \in {"whole", "partial"}
        PROVE  \A l \in DOMAIN Put(location, state) :
                 Put(location, state)[l] \in {"whole", "partial"}
    BY DEF TypeOK, Put
  <2>2. CASE EndConvert /\ build.quant # Base
    <3>1. PICK r \in build.source :
            disk' = [Put(Output(r, build.quant), "partial")
                         EXCEPT ![Output(r, Base)] = "whole"]
      BY <2>2 DEF EndConvert
    <3> QED
      BY <2>1, <3>1
  <2>3. CASE ~ EndConvert \/ build.quant = Base
    <3>1. \/ disk' = disk
          \/ \E location : \E state \in {"whole", "partial"} : disk' = Put(location, state)
      BY <1>2, <2>3
         DEF BuildStep, StartBuild, EndConvert, EndQuantize, OpenSidecar, DumpSidecar,
             BuildDies
    <3> QED
      BY <2>1, <3>1 DEF TypeOK
  <2> QED
    BY <2>2, <2>3
<1>3. CASE UNCHANGED disk
  BY <1>3 DEF TypeOK
<1> QED
  BY <1>1, <1>2, <1>3, OneProgram DEF vars, files

\* The steps of the programs, and the bounds.
LEMMA StepTypes ==
    ASSUME TypeOK, StoreInv, [Next]_vars
    PROVE  /\ pull'.pc \in {"idle", "running", "done", "failed"}
           /\ build'.pc \in {"idle", "convert", "quantize", "sidecar", "dump"}
           /\ server'.mode \in {"none", "swap", "direct"}
           /\ faults' \in 0 .. MaxFaults /\ runs' \in 0 .. MaxRuns
<1> USE BoundAssumption DEF TypeOK, Fault, Run
<1>1. DOMAIN pull = {"pc", "records", "queue", "asked", "all", "want"}
  BY DEF StoreInv, PullInv
<1>2. DOMAIN build = {"pc", "source", "quant"}
  BY DEF StoreInv, BuildInv
<1>3. CASE UNCHANGED vars
  BY <1>3 DEF vars, files
<1>4. CASE PolicyStep /\ UNCHANGED <<pull, build, server>>
  BY <1>4 DEF PolicyStep, InitPolicy, EditPolicy
<1>5. CASE DownloadStep /\ UNCHANGED <<build, server>>
  <2>1. ASSUME NEW slugs, NEW all, StartDownload(slugs, all)
        PROVE  /\ pull'.pc \in {"idle", "running", "done", "failed"}
               /\ faults' \in 0 .. MaxFaults /\ runs' \in 0 .. MaxRuns
    BY <2>1 DEF StartDownload
  <2>2. ASSUME NextModel
        PROVE  /\ pull'.pc \in {"idle", "running", "done", "failed"}
               /\ UNCHANGED <<faults, runs>>
    <3>1. /\ pull.pc = "running" /\ UNCHANGED <<faults, runs>>
          /\ \/ \E want : pull' = [pull EXCEPT !.queue = Tail(@), !.want = want]
             \/ pull' = [pull EXCEPT !.queue = Tail(@)]
             \/ pull' = [pull EXCEPT !.pc = "failed"]
      BY <2>2 DEF NextModel
    <3> QED
      BY <1>1, <3>1
  <2>3. ASSUME FetchFile
        PROVE  /\ pull'.pc \in {"idle", "running", "done", "failed"}
               /\ faults' \in 0 .. MaxFaults /\ runs' \in 0 .. MaxRuns
    BY <1>1, <2>3 DEF FetchFile
  <2>4. ASSUME EndDownload
        PROVE  /\ pull'.pc \in {"idle", "running", "done", "failed"}
               /\ UNCHANGED <<faults, runs>>
    BY <1>1, <2>4 DEF EndDownload
  <2> QED
    BY <1>5, <2>1, <2>2, <2>3, <2>4 DEF DownloadStep
<1>6. CASE BuildStep /\ UNCHANGED <<pull, server>>
  BY <1>2, <1>6 DEF BuildStep, StartBuild, EndConvert, EndQuantize, OpenSidecar,
                    DumpSidecar, BuildDies, NoBuild
<1>7. CASE ServeStep /\ UNCHANGED <<pull, build>>
  <2>1. server'.mode \in {"none", "swap", "direct"}
    BY <1>7 DEF ServeStep, WriteSwapConfig, StartSwap, UnloadWorker, StartWorker,
                ServeDirectly
  <2>2. ASSUME NEW slug, RunWorker(slug) PROVE UNCHANGED faults \/ Fault
    BY <2>2 DEF RunWorker
  <2>3. (UNCHANGED faults \/ Fault) /\ UNCHANGED runs
    BY <1>7, <2>2 DEF ServeStep, WriteSwapConfig, StartSwap, UnloadWorker, StartWorker,
                      ServeDirectly
  <2> QED
    BY <1>7, <2>1, <2>3
<1>8. CASE PiStep /\ UNCHANGED <<pull, build, server>>
  BY <1>8 DEF PiStep, ConfigurePi
<1> QED
  BY <1>3, <1>4, <1>5, <1>6, <1>7, <1>8, OneProgram

\* What the variables of ModelStore range over; that a sidecar is only ever written to
\* a file that the readers look at is part of it.
THEOREM StoreTypes == Spec => []TypeOK
<1>1. Init => TypeOK
  <2>1. SUFFICES ASSUME Init PROVE TypeOK
    OBVIOUS
  <2>2. ASSUME NEW f \in DOMAIN index
        PROVE  f \in ToSet(FileOrder) /\ Cardinality(index[f]) <= 1
    <3>1. f \in ToSet(FileOrder) /\ index[f] = {r \in ToSet(Catalog) : r.file = f}
      BY <2>1, CatalogAssumption DEF Init
    <3>2. index[f] = {} \/ \E r : index[f] = {r}
      <4>1. \A r, other \in index[f] : r = other
        BY <3>1, CatalogAssumption
      <4>2. ASSUME NEW r \in index[f] PROVE index[f] = {r}
        BY <4>1
      <4> QED
        BY <4>2
    <3>3. ASSUME NEW r, index[f] = {r} PROVE Cardinality(index[f]) <= 1
      BY <3>3, FS_Singleton
    <3>4. ASSUME index[f] = {} PROVE Cardinality(index[f]) <= 1
      BY <3>4, FS_EmptySet
    <3> QED
      BY <3>1, <3>2, <3>3, <3>4
  <2>3. \A l \in DOMAIN disk : disk[l] \in {"whole", "partial"}
    BY <2>1 DEF Init
  <2>4. /\ overlay.state \in {"absent", "torn", "whole"}
        /\ pull.pc \in {"idle", "running", "done", "failed"}
        /\ build.pc \in {"idle", "convert", "quantize", "sidecar", "dump"}
        /\ server.mode \in {"none", "swap", "direct"}
    BY <2>1 DEF Init, NoOverlay, NoPull, NoBuild
  <2>5. faults \in 0 .. MaxFaults /\ runs \in 0 .. MaxRuns
    BY <2>1, BoundAssumption DEF Init
  <2> QED
    BY <2>2, <2>3, <2>4, <2>5 DEF TypeOK
<1>2. ASSUME TypeOK, StoreInv, [Next]_vars PROVE TypeOK'
  <2>1. overlay'.state \in {"absent", "torn", "whole"}
    <3>1. CASE UNCHANGED overlay
      BY <1>2, <3>1 DEF TypeOK
    <3> QED
      BY <1>2, <3>1, OverlayTypes, OneProgram DEF vars, files
  <2>2. \A f \in DOMAIN index' : f \in ToSet(FileOrder) /\ Cardinality(index'[f]) <= 1
    <3>1. CASE UNCHANGED index
      BY <1>2, <3>1 DEF TypeOK
    <3>2. CASE BuildStep
      BY <1>2, <3>2, IndexTypes DEF StoreInv
    <3> QED
      BY <1>2, <3>1, <3>2, OneProgram DEF vars, files
  <2>3. \A l \in DOMAIN disk' : disk'[l] \in {"whole", "partial"}
    BY <1>2, DiskTypes
  <2> QED
    BY <1>2, <2>1, <2>2, <2>3, StepTypes DEF TypeOK
<1> QED
  BY <1>1, <1>2, StoreInductive, PTL DEF Spec

(***************************************************************************)
(* The processes: the invariant of HostProcesses.                          *)
(***************************************************************************)

\* Groups of steps: of the checkout, of llama-swap, of run capture, before a child.
Tool == {"ensure", "clone", "cloning", "remove"}
SwapOnly == {"find", "fetch", "copy", "ready", "poll"}
CaptureOnly == {"mkdir", "monitor", "install", "wait", "finalize"} \cup Tool
Steps == {"idle", "popen", "stop", "ended"} \cup SwapOnly \cup CaptureOnly
Early == {"idle", "mkdir", "popen", "find", "fetch", "copy"} \cup Tool

\* Which owners are where.
Kinds(o) ==
    /\ pc[o] = "idle" => kind[o] = "none"
    /\ pc[o] \in SwapOnly => kind[o] = "swap"
    /\ pc[o] \in CaptureOnly => kind[o] \in {"capture", "kev"}
    /\ pc[o] \in Tool => kind[o] = "kev"
    /\ kind[o] = "none" => pc[o] \in {"idle", "ended"}
    /\ kind[o] = "swap" => monitor[o] = "none"

\* mkdir comes after the first look for a checkout, and before the second.
Second(o) ==
    /\ pc[o] \in Tool => (pass[o] = 2 <=> dir[o] # Nobody)
    /\ pc[o] = "idle" => pass[o] = 1
    /\ pc[o] \in {"mkdir", "popen"} /\ kind[o] = "kev" => pass[o] = 2
    /\ pc[o] = "clone" => tries[o] < CloneAttempts
    /\ pc[o] \in {"idle", "mkdir"} => dir[o] = Nobody
    /\ pc[o] \in {"popen", "stop"} /\ kind[o] # "swap" => dir[o] # Nobody
    /\ pc[o] \in {"monitor", "install", "wait", "finalize"} => dir[o] # Nobody

\* What runs where.
Progress(o) ==
    /\ pc[o] \in Early => child[o] = "none" /\ rc[o] = "none"
    /\ pc[o] \in Early \cup {"monitor"} => monitor[o] = "none"
    /\ pc[o] = "stop" /\ kind[o] # "swap" => child[o] = "exited"
    /\ pc[o] = "finalize" => child[o] = "exited" /\ monitor[o] = "exited"
    /\ handlers[o] => pc[o] \in {"wait", "stop", "finalize", "ended"} /\ kind[o] # "swap"

Completed(o) ==
    meta[o].stage = "completed" =>
        /\ pc[o] = "ended" /\ dir[o] # Nobody
        /\ child[o] = "exited" /\ meta[o].rc = rc[o]
        /\ monitor[o] = "exited" /\ meta[o].monitored

Ended(o) ==
    pc[o] = "ended" /\ exit[o] # "lost" => child[o] # "running" /\ monitor[o] # "running"

OInv(o) == Kinds(o) /\ Second(o) /\ Progress(o) /\ Completed(o) /\ Ended(o)

Distinct ==
    \A o, p \in Owners : o # p /\ dir[o] = dir[p] => dir[o] = Nobody

\* As long as nobody has removed what another was cloning, or had cloned: a clone
\* under way is the cloner's, and whoever has seen a whole checkout still has one.
Undisturbed ==
    ~disturbed =>
        \A o \in Owners :
            /\ pc[o] = "cloning" => checkout = o
            /\ pass[o] = 2 => checkout = "whole"

\* The strengthening of HostProcesses.
HostTypes == HostTypeOK /\ pc \in [Owners -> Steps]
HostInv == HostTypes /\ (\A o \in Owners : OInv(o)) /\ Distinct /\ Undisturbed

\* What one owner does in a step.
OwnerDoes(o) ==
    \/ \E k \in {"capture", "kev", "swap"} : Begin(o, k)
    \/ Work(o) \/ Lose(o) \/ InterruptStart(o) \/ ChildExits(o) \/ MonitorEnds(o)
    \/ \E group \in BOOLEAN : ForwardSignal(o, group)

\* Setting the stage of a metadata file keeps its type.
LEMMA MetaStage ==
    ASSUME meta \in [Owners -> Metadata], NEW o \in Owners,
           NEW s \in {"none", "initial", "server", "monitor", "completed"}
    PROVE  [meta EXCEPT ![o] = [meta[o] EXCEPT !.stage = s]] \in [Owners -> Metadata]
BY DEF Metadata

\* Every step of an owner keeps the types.
LEMMA TypesStep ==
    ASSUME HostTypes, NEW o \in Owners, OInv(o), OwnerDoes(o) PROVE HostTypes'
<1> USE NobodyAssumption, FailureAssumption
    DEF HostTypes, HostTypeOK, Steps, SwapOnly, CaptureOnly, Tool, Set, Goto, At,
        runVars, toolVars, childVars, askVars, CloneAttempts
<1>1. CASE \E k \in {"capture", "kev", "swap"} : Begin(o, k)
  BY <1>1 DEF Begin
<1>2. CASE EnsureCheckout(o)
  <2>1. CASE /\ checkout = "whole" /\ HaveCheckout(o)
             /\ UNCHANGED <<exit, tries, disturbed>>
    BY <1>2, <2>1 DEF EnsureCheckout, HaveCheckout
  <2>2. CASE /\ checkout \in Owners /\ HaveCheckout(o)
             /\ disturbed' = TRUE /\ UNCHANGED <<exit, tries>>
    BY <1>2, <2>2 DEF EnsureCheckout, HaveCheckout
  <2>3. CASE /\ checkout \in Owners /\ End(o, "refused")
             /\ UNCHANGED <<pass, tries, disturbed>>
    BY <1>2, <2>3 DEF EnsureCheckout, End
  <2>4. CASE /\ checkout = "empty" /\ Goto(o, "clone")
             /\ tries' = Set(tries, o, 0) /\ UNCHANGED <<exit, pass, disturbed>>
    BY <1>2, <2>4 DEF EnsureCheckout
  <2>5. QED
    BY <1>2, <2>1, <2>2, <2>3, <2>4 DEF EnsureCheckout
<1>3. CASE Clone(o)
  BY <1>3 DEF Clone, OInv, Second
<1>4. CASE FinishClone(o)
  BY <1>4 DEF FinishClone, HaveCheckout
<1>5. CASE RemoveCheckout(o)
  BY <1>5 DEF RemoveCheckout, End
<1>6. CASE \E id \in RunIds : MakeRunDir(o, id)
  <2>1. PICK id \in RunIds : MakeRunDir(o, id)
    BY <1>6
  <2>2. CASE \E p \in Owners : dir[p] = id
    BY <2>1, <2>2 DEF MakeRunDir, End
  <2>3. CASE ~ \E p \in Owners : dir[p] = id
    <3>1. meta' = [meta EXCEPT ![o] = [meta[o] EXCEPT !.stage = "initial"]]
      BY <2>1, <2>3 DEF MakeRunDir
    <3>2. meta' \in [Owners -> Metadata]
      BY <3>1, MetaStage
    <3>3. QED
      BY <2>1, <2>3, <3>2 DEF MakeRunDir
  <2>4. QED
    BY <2>2, <2>3
<1>7. CASE StartServer(o)
  <2>1. meta' \in [Owners -> Metadata]
    BY <1>7, MetaStage DEF StartServer
  <2>2. QED
    BY <1>7, <2>1 DEF StartServer
<1>8. CASE StartMonitor(o)
  <2>1. meta' \in [Owners -> Metadata]
    BY <1>8, MetaStage DEF StartMonitor
  <2>2. QED
    BY <1>8, <2>1 DEF StartMonitor
<1>9. CASE InstallHandlers(o)
  BY <1>9 DEF InstallHandlers
<1>10. CASE ServerExited(o)
  BY <1>10 DEF ServerExited
<1>11. CASE StopMonitor(o)
  BY <1>11 DEF StopMonitor
<1>12. CASE FinalizeRun(o)
  BY <1>12 DEF FinalizeRun, End, Metadata
<1>13. CASE FindBinary(o)
  BY <1>13 DEF FindBinary
<1>14. CASE FetchBinary(o)
  BY <1>14 DEF FetchBinary, Failure, Raise
<1>15. CASE CopyBinary(o)
  BY <1>15 DEF CopyBinary, Failure, Raise
<1>16. CASE StartProxy(o)
  BY <1>16 DEF StartProxy, Raise
<1>17. CASE WaitReady(o)
  BY <1>17 DEF WaitReady, Raise
<1>18. CASE PollProxy(o)
  BY <1>18 DEF PollProxy
<1>19. CASE StopProxy(o)
  BY <1>19 DEF StopProxy, End
<1>20. CASE Lose(o)
  BY <1>20 DEF Lose, Failure, End
<1>21. CASE InterruptStart(o)
  BY <1>21 DEF InterruptStart
<1>22. CASE ChildExits(o)
  BY <1>22 DEF ChildExits
<1>23. CASE MonitorEnds(o)
  BY <1>23 DEF MonitorEnds
<1>24. CASE \E group \in BOOLEAN : ForwardSignal(o, group)
  BY <1>24 DEF ForwardSignal
<1>25. QED
  BY <1>1, <1>2, <1>3, <1>4, <1>5, <1>6, <1>7, <1>8, <1>9, <1>10, <1>11, <1>12,
     <1>13, <1>14, <1>15, <1>16, <1>17, <1>18, <1>19, <1>20, <1>21, <1>22, <1>23, <1>24
  DEF OwnerDoes, Work, Ensure, Capture, Swap

\* A step of one owner keeps what holds of every owner: of itself by what the
\* step does, of the others because it leaves their state alone.
LEMMA OwnerStep ==
    ASSUME HostTypes, NEW o \in Owners, OInv(o), OwnerDoes(o),
           NEW p \in Owners, OInv(p)
    PROVE  OInv(p)'
<1> USE NobodyAssumption
    DEF HostTypes, HostTypeOK, Metadata, Steps, SwapOnly, CaptureOnly, Tool, Early,
        Set, Goto, At, runVars, toolVars, childVars, askVars, CloneAttempts,
        OInv, Kinds, Second, Progress, Completed, Ended
<1>1. CASE \E k \in {"capture", "kev", "swap"} : Begin(o, k)
  BY <1>1 DEF Begin
<1>2. CASE EnsureCheckout(o)
  BY <1>2 DEF EnsureCheckout, HaveCheckout, End
<1>3. CASE Clone(o)
  BY <1>3 DEF Clone
<1>4. CASE FinishClone(o)
  BY <1>4 DEF FinishClone, HaveCheckout
<1>5. CASE RemoveCheckout(o)
  BY <1>5 DEF RemoveCheckout, End
<1>6. CASE \E id \in RunIds : MakeRunDir(o, id)
  BY <1>6 DEF MakeRunDir, End
<1>7. CASE StartServer(o)
  BY <1>7 DEF StartServer
<1>8. CASE StartMonitor(o)
  BY <1>8 DEF StartMonitor
<1>9. CASE InstallHandlers(o)
  BY <1>9 DEF InstallHandlers
<1>10. CASE ServerExited(o)
  BY <1>10 DEF ServerExited
<1>11. CASE StopMonitor(o)
  BY <1>11 DEF StopMonitor
<1>12. CASE FinalizeRun(o)
  <2>1. CASE p = o
    <3>1. /\ meta'[o].stage = "completed" /\ meta'[o].rc = rc[o]
          /\ meta'[o].monitored = (monitor[o] = "exited")
      BY <1>12 DEF FinalizeRun
    <3>2. pc'[o] = "ended"
      BY <1>12 DEF FinalizeRun, End
    <3>3. QED
      BY <1>12, <2>1, <3>1, <3>2 DEF FinalizeRun
  <2>2. CASE p # o
    BY <1>12, <2>2 DEF FinalizeRun, End
  <2>3. QED
    BY <2>1, <2>2
<1>13. CASE FindBinary(o)
  BY <1>13 DEF FindBinary
<1>14. CASE FetchBinary(o)
  BY <1>14 DEF FetchBinary, Failure, Raise
<1>15. CASE CopyBinary(o)
  BY <1>15 DEF CopyBinary, Failure, Raise
<1>16. CASE StartProxy(o)
  BY <1>16 DEF StartProxy, Raise
<1>17. CASE WaitReady(o)
  BY <1>17 DEF WaitReady, Raise
<1>18. CASE PollProxy(o)
  BY <1>18 DEF PollProxy
<1>19. CASE StopProxy(o)
  BY <1>19 DEF StopProxy, End
<1>20. CASE Lose(o)
  BY <1>20 DEF Lose, Failure, End
<1>21. CASE InterruptStart(o)
  BY <1>21 DEF InterruptStart
<1>22. CASE ChildExits(o)
  BY <1>22 DEF ChildExits
<1>23. CASE MonitorEnds(o)
  BY <1>23 DEF MonitorEnds
<1>24. CASE \E group \in BOOLEAN : ForwardSignal(o, group)
  BY <1>24 DEF ForwardSignal
<1>25. QED
  BY <1>1, <1>2, <1>3, <1>4, <1>5, <1>6, <1>7, <1>8, <1>9, <1>10, <1>11, <1>12,
     <1>13, <1>14, <1>15, <1>16, <1>17, <1>18, <1>19, <1>20, <1>21, <1>22, <1>23, <1>24
  DEF OwnerDoes, Work, Ensure, Capture, Swap

\* Only MakeRunDir makes a run folder, and it takes none that is there.
LEMMA DistinctStep ==
    ASSUME HostTypes, NEW o \in Owners, OwnerDoes(o), Distinct PROVE Distinct'
<1>1. CASE \E id \in RunIds : MakeRunDir(o, id)
  <2>1. PICK id \in RunIds : MakeRunDir(o, id)
    BY <1>1
  <2>2. CASE UNCHANGED dir
    BY <2>2 DEF Distinct
  <2>3. CASE /\ dir' = [dir EXCEPT ![o] = id]
             /\ \A p \in Owners : dir[p] # id
    BY <2>3 DEF Distinct, HostTypes, HostTypeOK
  <2>4. QED
    BY <2>1, <2>2, <2>3 DEF MakeRunDir, Set
<1>2. CASE UNCHANGED dir
  BY <1>2 DEF Distinct
<1>3. QED
  <2>1. OwnerDoes(o) => UNCHANGED dir \/ \E id \in RunIds : MakeRunDir(o, id)
    BY DEF OwnerDoes, Work, Ensure, Capture, Swap, runVars, Begin, EnsureCheckout, Clone,
           FinishClone, RemoveCheckout, StartServer, StartMonitor, InstallHandlers,
           ServerExited, StopMonitor, FinalizeRun, FindBinary, FetchBinary, CopyBinary,
           StartProxy, WaitReady, PollProxy, StopProxy, Lose, InterruptStart,
           ChildExits, MonitorEnds, ForwardSignal
  <2>2. QED
    BY <1>1, <1>2, <2>1

\* Of the steps that change the checkout, a clone finds it empty, the end of a
\* clone finds it the cloner's, and a removal of anything else disturbs it.
LEMMA UndisturbedStep ==
    ASSUME HostTypes, NEW o \in Owners, OwnerDoes(o), Undisturbed PROVE Undisturbed'
<1> USE OwnersAssumption
    DEF HostTypes, HostTypeOK, Undisturbed, Set, Goto, At, toolVars
<1>1. CASE EnsureCheckout(o)
  BY <1>1 DEF EnsureCheckout, HaveCheckout, End
<1>2. CASE Clone(o)
  BY <1>2 DEF Clone
<1>3. CASE FinishClone(o)
  BY <1>3 DEF FinishClone, HaveCheckout
<1>4. CASE RemoveCheckout(o)
  <2>1. CASE disturbed'
    BY <2>1
  <2>2. CASE ~disturbed'
    <3>1. ~disturbed /\ checkout \in {"empty", o} /\ checkout' = "empty"
      BY <1>4, <2>2 DEF RemoveCheckout
    <3>2. /\ UNCHANGED pass
          /\ \A p \in Owners : pc'[p] = "cloning" => pc[p] = "cloning" /\ p # o
      BY <1>4 DEF RemoveCheckout, End
    <3>3. QED
      BY <3>1, <3>2
  <2>3. QED
    BY <2>1, <2>2
<1>5. CASE /\ UNCHANGED <<pass, checkout, disturbed>>
           /\ \A p \in Owners : pc'[p] = "cloning" => pc[p] = "cloning"
  BY <1>5
<1>6. CASE ~ Ensure(o)
  <2>1. UNCHANGED <<pass, checkout, disturbed>>
    BY <1>6 DEF OwnerDoes, Work, Capture, Swap, Begin, MakeRunDir, StartServer,
         StartMonitor, InstallHandlers, ServerExited, StopMonitor, FinalizeRun, FindBinary,
         FetchBinary, CopyBinary, StartProxy, WaitReady, PollProxy, StopProxy, Lose,
         InterruptStart, ChildExits, MonitorEnds, ForwardSignal
  <2>2. \A p \in Owners : pc'[p] = "cloning" => pc[p] = "cloning"
    BY <1>6 DEF OwnerDoes, Work, Capture, Swap, Begin, MakeRunDir, StartServer,
         StartMonitor, InstallHandlers, ServerExited, StopMonitor, FinalizeRun, FindBinary,
         FetchBinary, CopyBinary, StartProxy, WaitReady, PollProxy, StopProxy, Lose,
         InterruptStart, ChildExits, MonitorEnds, ForwardSignal, End, Raise
  <2>3. QED
    BY <1>5, <2>1, <2>2
<1>7. QED
  BY <1>1, <1>2, <1>3, <1>4, <1>6 DEF Ensure

\* Before anybody has begun, everything holds.
LEMMA HostStarts == HostInit => HostInv
<1> SUFFICES ASSUME HostInit PROVE HostInv
  OBVIOUS
<1> USE DEF HostInit, Steps, SwapOnly, CaptureOnly, Tool, Early
<1>1. HostTypes
  <2>1. meta \in [Owners -> Metadata]
    BY DEF Metadata
  <2>2. failures \in 0 .. MaxFailures /\ tries \in [Owners -> 0 .. CloneAttempts]
    BY FailureAssumption DEF CloneAttempts
  <2>3. /\ pc \in [Owners -> Steps] /\ dir \in [Owners -> RunIds \cup {Nobody}]
        /\ pass \in [Owners -> 1 .. 2]
    OBVIOUS
  <2>4. QED
    BY <2>1, <2>2, <2>3 DEF HostTypes, HostTypeOK
<1>2. ASSUME NEW o \in Owners PROVE OInv(o)
  BY NobodyAssumption DEF OInv, Kinds, Second, Progress, Completed, Ended
<1>3. Distinct
  BY DEF Distinct
<1>4. Undisturbed
  BY DEF Undisturbed
<1>5. QED
  BY <1>1, <1>2, <1>3, <1>4 DEF HostInv

\* What holds of the variables holds as long as they stay.
LEMMA HostStutters == HostInv /\ UNCHANGED hostVars => HostInv'
BY DEF HostInv, HostTypes, HostTypeOK, hostVars, runVars, toolVars, childVars, askVars,
       Distinct, Undisturbed, OInv, Kinds, Second, Progress, Completed, Ended

\* Every step is one owner's.
LEMMA HostSteps == HostInv /\ [HostNext]_hostVars => HostInv'
<1>1. ASSUME HostInv, NEW o \in Owners, OwnerDoes(o) PROVE HostInv'
  BY <1>1, TypesStep, OwnerStep, DistinctStep, UndisturbedStep DEF HostInv
<1>2. HostNext => \E o \in Owners : OwnerDoes(o)
  BY DEF HostNext, OwnerDoes
<1>3. QED
  BY <1>1, <1>2, HostStutters

\* The strengthening holds in every behaviour.
THEOREM HostInductive == HostSpec => []HostInv
BY HostStarts, HostSteps, PTL DEF HostSpec

\* Every variable keeps its type, the attempts at a clone their bound among them.
THEOREM TypeCorrect == HostSpec => []HostTypeOK
<1>1. HostInv => HostTypeOK
  BY DEF HostInv, HostTypes
<1>2. QED
  BY <1>1, HostInductive, PTL

\* A run folder that says "completed" has one owner, a server that exited as it
\* says, and a monitor that is gone: whatever the owners do to each other's
\* folders, and wherever one of them is lost.
THEOREM CompletedIsTrue == HostSpec => []FinalizedTruthfully
<1>1. HostInv => FinalizedTruthfully
  BY DEF HostInv, OInv, Completed, Distinct, FinalizedTruthfully
<1>2. QED
  BY <1>1, HostInductive, PTL

\* An owner that comes to its own end leaves no child running.
THEOREM EndsAlone == HostSpec => []NothingLeftRunning
<1>1. HostInv => NothingLeftRunning
  BY DEF HostInv, OInv, Ended, NothingLeftRunning, At
<1>2. QED
  BY <1>1, HostInductive, PTL

\* A kev server is started only from a whole checkout, for any number of launches
\* that clone at once, unless one of them removed the others'.
THEOREM CloneIsWhole == HostSpec => []CheckoutWhole
<1>1. HostInv => CheckoutWhole
  BY DEF HostInv, OInv, Second, Undisturbed, CheckoutWhole, At
<1>2. QED
  BY <1>1, HostInductive, PTL
==============================================================================
