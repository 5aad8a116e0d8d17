# TLA+ models of lm-based

This directory holds the verification project of the repository: TLA+ modules
translated from its code, TLC configurations that check them on small
instances, and proofs checked by TLAPS. Paths are relative to the repository.

```
tlc -config MCFlashLoop.cfg MCFlashLoop.tla     # any .cfg with its MC module
tlapm FlashLoopProofs.tla                       # any of the modules *Proofs
```

`PROJECT.json` lists the components, the runs, one mutant per checked property
(a bug in one definition that the property must catch), the source lines every
definition models, the findings, the hazards and the theorems.

## 1. Inventory

lm-based serves language models on one host. It is not one program but several,
in Python, Go and TypeScript, that share files, ports and HTTP.

| Component | Code | State | Hard behaviour |
|---|---|---|---|
| FlashLoop completion service | `experimental/flashloop_mlx/service.py`, `runtime.py`, `metrics.py` | gate, shared cancellation event, pending tasks, gauges, the run on the executor thread | event loop against worker thread, disconnects, shutdown |
| FlashLoop int4 cache | `experimental/flashloop_mlx/cache.py`, `selected_kv.py` | packed groups and exact tails of every stream | boundary arithmetic, repeated appends |
| FlashLoop engine | `engine.py`, `generate.py`, `trajectory.py`, benchmarks | tensors, position | numerics |
| serve-manager statistics | `cmd/serve-manager/internal/stats/stats.go`, `runStatsPoll` | rolling window, buckets, trend | counters that restart, limits, clock steps |
| serve-manager plan, apply, stop | `cmd/serve-manager/main.go` | pid files, `active-generation`, `activation.json`, daemons | overlapping invocations, crashes between two writes, silent daemons |
| serve-manager dashboard | `internal/dashboard` | none | none |
| decide extension | `support/pi/extensions/decide/index.ts`, `chain.ts`, `records.ts` | worker pool, chains, results file | answers in any order, fail-fast, cancellation, atomic publication |
| run-record extension | `support/pi/extensions/run-record` | record file | events out of order |
| other pi extensions | `llama-swap`, `pdf-extract` | none | none |
| Tax Desk broker and shim | `lm_launcher/taxdesk_broker.py`, `support/pi/sandbox/taxdesk-docs.ts` | execution slots, audit log | two timeouts, a client that gives up |
| pi runner | `lm_launcher/pi_run.py` | run directories below a shared `.pi-run` | preparation against the cleanup of another launch |
| run capture and model servers | `lm_launcher/run_capture.py`, `pid_monitor.py`, `mlx_server.py`, `transformers_server.py` | child, monitor, `metadata.json`, the shared kev checkout | signals, partial start, clones that race |
| tmux services | `up`, `support/tmux-service-shim`, `support/model-service` | tmux windows, registry files | reconciliation, stale pids |
| llama-swap adapter | `llama_swap/` | the proxy, its binary, `llama-swap.yaml` | start timeout, a binary fetched in place, a configuration that outlives what it describes |
| sampler proxy | `support/sampler-proxy` | none between requests | none |
| pi and opencode bootstrap | `lm_launcher/pi_bootstrap.py`, `opencode_bootstrap.py` | configuration files, one sandbox machine for all launches | provisioning that wedges, launches that share the machine, windows that overstate the server's |
| route configuration, policy | `route-config.py`, `lm_launcher/policy.py` | policy and overlay | overlay merge, validation that reads for itself |
| model index, onboarding, downloads | `onboard.py`, `download_model.py`, `build_gguf.py`, `artifacts.py`, `model_index.py` | sidecars, artifacts in two places | interrupted downloads and builds, files written in place, no lock |
| profiles, settings, launcher | `lm_launcher/profiles.py`, `settings.py`, `launcher.py` | none | precedence of layers |
| host checks, observability, summaries | `host_doctor.py`, `serve_observability.py`, `summarize_run.py` | none | none |

Interactions: serve-manager starts HAProxy and llama-swap as daemons and its
poller scrapes a llama-server or the FlashLoop service over HTTP; the decide
extension calls a classifier behind the same ingress; `up` keeps each of them in
a tmux window; the launchers wrap model servers in run capture; the pi runner
starts agents in a sandbox whose only way to the Tax Desk is the broker. The
sidecars of `models/` are read by nearly every program - the downloader, the
builder, llama-swap's configuration, its workers, the router, the doctor, Pi and
OpenCode - each with code of its own.

What would make each component correct is listed per hazard in `PROJECT.json`.

## 2. What is modelled

### FlashLoopService (abstract: SingleSlot)

`SingleSlot` is what the service promises: one slot; a request is invalid,
refused because the slot is taken, or admitted; an admitted attempt finishes
once and frees the slot in the same step.

`FlashLoopService` is `create_app()` and `Runtime.run`. A step of a coroutine is
what it does between two awaits that can yield; `gate.acquire()` of an unlocked
lock does not yield, so `Admit` is one step from the test of the gate to the
first `asyncio.wait`. A step of the worker thread is what lies between two looks
at the event or two gauge updates, and interleaves with everything.

| State | Code |
|---|---|
| `handler`, `reply` | the `completion()` coroutine of a request and its HTTP status |
| `task`, `outcome` | its `generate()` task and the label it counted |
| `job`, `result`, `position`, `emitted`, `loaded` | `Runtime.run` on the executor thread |
| `gate`, `cancellation` | `asyncio.Lock`, `threading.Event` |
| `active`, `cache`, `context`, `promptTokens`, `outputTokens` | the gauges and the fields `/slots` shows |
| `server`, `disconnected`, `body` | uvicorn, clients, the requests |

Actions, in code order: `RejectModel`, `RejectBusy`, `Admit`, `WakeUp`,
`PollDisconnected`, `PollAgain`, `Answer`, `CancelHandler` (completion);
`SubmitJob`, `FinishTask` (generate); `Tokenize`, `StopIfCancelled`, `PassCheck`,
`Load`, `Prefill`, `SelectToken`, `Decode`, `Raise` (run); `LifespanShutdown`,
`LifespanEnd` (lifespan). `Receive`, `Disconnect`, `Drain` and `GraceOver` are
the client and uvicorn, external to the source.

Not in the model: the counters and histograms, the prompt text, and the polling
interval (a handler may wake up at any time).

### MetricHistory

One poll of `runStatsPoll` is one action: `Poll` or, when the wall clock has been
set back, `PollAfterSetback`. It performs `History.Observe` with its compression
and trims, `TrimWindow` and `BuildSnapshot`. One counter and one optional gauge
stand for all metrics. `log` is a history variable. Time and values are
integers; a rate is kept in units of 1/`RateScale`.

### DecideRecords

`execute()` of the `decide_records` tool. `TakeRecord`, `StopLoop`,
`ClassifySucceeds`, `ClassifyFails` and `WorkerThrows` are the stretches of a
worker between two awaits; `Joined`, `StagingFails`, `WriteStaged`,
`PublishFails`, `Commit`, `Rename` and `CleanUp` are the publication. The chain
of `chain.ts` is the operators `Holds`, `WalkFrom`, `StopAt` and `Answered`: an
answer is "yes", "no" or "unsure", which is what filters and abstain rules tell
apart. The removal of the temporary directory is taken to succeed. A classifier
that rejects ends the tool call at once while the other workers go on calling
it; the model shows this (`WorkerThrows`) and no statement of the repository
forbids it.

### ServeManager

`runApply` and `runStop`, one run of the command per invocation; the step an
invocation is at is a pair of a step and the component it is about. Shared
between invocations are only the pid files, `active-generation`, the
`activation.json` files and the daemons. `Bind` and `Die` are the daemons:
they may come up, stay silent or die at any time; HAProxy binds with
SO_REUSEPORT, llama-swap needs its port alone, and a killed process keeps the
port until it is gone. Overlapping invocations, a killed invocation and failing
writes are faults, which `faults` counts. `InvocationEnds` and the attribution of
failures (`ActivationFilesAgree`) hold with them; `DeclaredSoundly`,
`NothingUnmanaged` and `StoppedMeansDown` say what holds without: with an
overlapping or a killed invocation the code orphans daemons and declares a
generation on another's answer, and no property would catch more of that.

### KvCache

`CacheStream` and `CrossLoopCache` of one layer; the two actions are `Prefill`
(`from_loops`) and `AppendTokens` (`append`). Numbers are symbolic: a row of KV
is a loop and a token, a packed value is the difference that was quantized, and
its metadata is the set of values that shared a minimum and a scale. So a row
read back shows whether it was encoded against the right sum and is decoded with
its own metadata. Only the axis of tokens is modelled: the groups of channels of
a value token stay inside it.

### TaxdeskBroker

The shim (`Send`, `ShimGivesUp`), the handler thread of every call (`Parse`,
`Acquire`, `NoSlot`, `Spawn`, `RunTimeout`, `Collect`, `ExecuteFails`,
`WriteLog`, `LogFails`, `SendReply`), the CLI (`CliExit`) and the end of the
session (`Stop`, `ProcessEnds`). A request is known by the test it fails, if
any. `Tick` lets time pass when no thread has a step to take that does not wait;
a wait that has reached its deadline stops the clock until it is dealt with.

A CLI may write more than the broker hands out (`MAX_STDOUT_BYTES`); it is then
logged and answered with exit code 1, whatever its own was (`Reported`,
`taxdesk_broker.py:369-373`). The shim's header says that the exit code is the CLI's
own (`taxdesk-docs.ts:13`); `LogAgrees` and `ReportsTrue` say what the code does.

What the shim says when it gives up is not among the reports `ReportsTrue` is
about: the broker may take twice its call timeout (a wait for a slot, then the
CLI, `taxdesk_broker.py:331,361`), so a call may still run after the shim, which
waits one timeout and a little (`taxdesk-docs.ts:24`), has reported the broker
unreachable.

### PiLaunch

One process per launch of `pi_bootstrap.main`. A local launch runs the steps of
`prepare_run_dir` (`MakeParent`, `MakeRunDir`, `SetModes`, `WriteIgnore`), Pi
(`EndLocalSession`) and those of `cleanup_run` (`RemoveRunDir`,
`ListLeftovers`, `ScanParent`, `UnlinkEntry`, `RemoveParent`); the launches
share the folder `.pi-run` (`piRun`) and its entries (`names`). A
sandboxed launch starts the broker (`BeginSandboxed`), goes through
`ensure_sandbox` (`ProbeMachine` to `InstallPi`), Pi in the machine (`EndSandboxSession`) and
`fetch_sandbox_records` (`DownloadRecords`, `ForgetRecords`), and stops the
broker (`FinishSandboxed`). There is one machine, with one policy, one agent
folder and one tarball on the host, for all launches: the variables `vm`,
`hostAgent` and `tarball`. `Kill` and `Wedge` are external faults.

Every call of provisioning may fail, time out or be interrupted
(`AbortProvisioning`, for the budget too), and the launch may be killed in it;
`CutShort` says what the call has done by then: all, part or nothing of it, and
nothing is undone. A next launch finds the machine, the folder or the archive as it
was left, and looks at one executable file for Pi and one for node
(`CheckMarkers`); what is there in part may have its file or not. `UploadPi` brings
the host's `node_modules` with `support/pi`, for it goes with `--no-git-ignore`, so
that `InstallPi` follows only a probe that failed; the comment in front of `npm ci`
says that `node_modules` is not uploaded (`pi_bootstrap.py:934`). The model assumes
that a command in the machine ends with the call that runs it, and that the host
has a whole `support/pi`, which `check_pi_install` has looked at.
`SessionProvisioned` says what that comes to: launches that do not share the machine
start a session with a Pi that was uploaded or installed whole, and with their own
agent folder and token; but a partly unpacked node, left by a launch that failed or
was killed, is taken for the whole when its `bin/node` is there, and "completed
steps are reused" (`pi_bootstrap.py:843`) is then true of a step that was not
completed. Launches that share the machine at the same time go on in the model, and
nothing is promised of them (`alone`): the code has no lock.

| State | Code |
|---|---|
| `pc`, `exit`, `retry`, `needPi` | where a launch is, and the arguments of `ensure_sandbox` |
| `broker` | the `BrokerServer` of a launch and the token it accepts |
| `vm` | the OpenShell machine: phase, policy, agent folder, what is installed, records |

### HostProcesses

The processes that own a server: run capture (`MakeRunDir`, `StartServer`,
`StartMonitor`, `InstallHandlers`, `ServerExited`, `StopMonitor`,
`FinalizeRun`, `ForwardSignal`), the same with a kev checkout before it
(`EnsureCheckout`, `Clone`, `FinishClone`, `RemoveCheckout`), and `llama-swap
start` (`FindBinary`, `FetchBinary`, `CopyBinary`, `StartProxy`, `WaitReady`,
`PollProxy`, `StopProxy`, `InterruptStart`). `MonitorEnds` is `pid_monitor.py`;
`ChildExits` is the server. `Lose` stands for every way an owner goes that no
code of it sees; a signal in the moments before the handlers are in place is
one of them, and it orphans the server. The model counts it as a failure and not
as a violated property: nothing in the repository says otherwise. `disturbed` is
a history variable: whether some launch removed another's checkout or used one
that was still being cloned. `mlx_server.py` and `transformers_server.py` have
copies of `run_capture.py`'s functions; the actions translate all three.

### ModelCatalog and ModelStore

`ModelCatalog` holds the pure parts: what each program makes of a sidecar -
paths, profile, window, backend, what is servable, present, valid, offered - one
operator per function of the code. A sidecar is a record; the substrings that
profiles are inferred from are a set of marks, paths are sequences of names, and
windows are in units of 1024 tokens. Explicit settings (`CTX_SIZE`, `PROFILE` in
the environment) are not set: llama-swap sets none for its workers.

`ModelStore` is the checkout over time: the overlay of the policy
(`InitPolicy`, `EditPolicy`), a download (`StartDownload`, `NextModel`,
`FetchFile`, `EndDownload`), a build (`StartBuild`, `EndConvert`,
`EndQuantize`, `OpenSidecar`, `DumpSidecar`, `BuildDies`), llama-swap's
configuration and its workers (`WriteSwapConfig`, `StartSwap`, `StartWorker`,
`UnloadWorker`), a model served directly (`ServeDirectly`) and Pi's
configuration (`ConfigurePi`). A program that reads the index at its start holds
what it read. When Pi is configured, the loaded model's llama-server is asked for
the window it allocated (`Probed`); it may not answer (the argument `answers`), and
the other servers state none, and then the profile's window stays, however small the
allocation. `PiWindowFits` promises less than the allocated window only of a probe
that is answered. `huggingface_hub` moves a whole file into place; the converter,
the quantizer and `json.dump` write in place, so a reader may see part of a
file. `atomic_write_json` makes Pi's files one step.

## 3. The runs

| Run | Shows | Bounds, and why they are enough |
|---|---|---|
| `flashloop` | gate, gauges, cancellation, capacity, answers, refinement of `SingleSlot`, termination | two requests: every conflict is between the attempt on the thread and one later request; prompts and limits of 1 and 2 tokens with a capacity of 3, so that some fit, one does not, and the token loop runs once or twice |
| `flashloop_foreign_cancel` | violation: a finished request's disconnect cancels the next one | the same |
| `history` | rates, buckets, statistics and trend | seven polls against a limit of four points, so that the trend is compressed several times; a retention of two buckets; one clock step |
| `decide` | publication, chain, accounting, summary, termination | three records for two workers, so that one worker takes two; a chain with an abstain rule, a skipped stage and a filter over it; fail-fast after two |
| `serve` | managed daemons, declarations, files, attribution, termination | two invocations (the second meets what the first left) and two faults |
| `kvcache` | boundaries, reading back, independence of how tokens arrive | three loops (a residual of a residual); twelve tokens for groups of one to three and residuals that are no, one, or more than one group |
| `broker` | slots, log, what the agent is told, termination | two calls for one slot, so that one waits; the shim's deadline (3) lies between one timeout (2) and two |
| `pilaunch` | scratch folders, what a session starts in, the broker, the end of provisioning | three launches of one kind at a time, two of which may be sandboxed (`MaySandbox`): one machine is contended by two, and a folder by a launch that cleans, one that prepares and one that looks on; two faults, so that the machine wedges again after it was recreated |
| `trajectory` | violation: the machine's copy is removed after a failed download | two launches, one fault |
| `hostprocesses` | run folders, orphans, the kev checkout, signals | two owners (every shared file is contended by two) and two names for run folders; three clone attempts as in the code; two failures |
| `modelstore` | agreement of the programs that read sidecars and files | seven sidecars of `MCModelStore`, one per way of placing and serving a model (a file, one with a projector, one in a folder, a snapshot, a decision model of two files, one without a profile, one that understates its window) and two that builds write; two checkouts, each with one older file at the root, of a model that is served and of a snapshot to build from; two downloads or builds, one fault |
| `advertised_can_load` | violation: an interrupted pull is advertised | two models, one of two files; one fault |

Two of the properties of `modelstore` have a condition that the tracked catalogue
needs. `PullMeansPresent` is about sidecars whose download entry lists the file that
`local_path` names (`ListsAnchor`); Ouro's does not. `ClientsAgree` is about an
index in which no slug is the alias or another name of a second sidecar
(`NamesApart`), which a GGUF built of Ouro would break: its profile's alias is
Ouro's own slug, and Pi then takes the one that comes first in the directory for
both, while OpenCode and llama-swap go by slug.

The findings in `PROJECT.json` quote the documentation each violation run
contradicts. Further disagreements were met and are described where the
model shows them, without a run: a generation declared active on the answer of
another invocation's daemons (`DeclaredOnItsOwn`, main.go:502 against Sequence 8
of `docs/serving/lifecycle-sequences.md`; `DeclaredSoundly` is what holds
without faults); recent trend points cut off when the horizon holds more samples
than the limit, as with the defaults (`RecentKeptRaw`, stats.go:489); "failed on
every request" reported after a request in flight has succeeded
(`decide/index.ts:399`); a pull of Ouro that succeeds and leaves its file where
nothing looks, for its download entry names `model.safetensors`, its `local_path` is
`Ouro-2.6B-Thinking/model.safetensors`
(`models/Ouro-2.6B-Thinking.safetensors.json:6,28`), and `download_model.py:101-105`
says of the artifacts root as destination that the artifact lands at `local_path`.

`TypeOK` of each module (`HostTypeOK` of `HostProcesses`) says what its variables
range over; it is an invariant of every passing run's specification, proved where
section 5 says so, and left out of the configurations, whose runs are spent on what
could be wrong. Deadlock is not checked where the system may stop: all requests or
calls answered, the bound of polls or tokens reached, the tool call over, all
invocations, launches or owners ended.

## 4. Fairness

- FlashLoop: weak fairness of the event loop's ready steps per request, of the
  worker thread's steps, and of a shutdown once begun. asyncio runs what is
  ready, the executor runs what is queued, each model step is finite. Clients
  need not send, disconnect or wait, and nobody has to signal.
- DecideRecords: weak fairness per worker (a classify call comes back: the
  client has a timeout) and of the publication. Nobody has to abort.
- ServeManager: weak fairness of a running invocation, all of whose waits have
  deadlines. Nothing is assumed of the daemons.
- TaxdeskBroker: weak fairness of every handler thread, of the shim's timer and
  of time. The agent need not call and the CLI need not exit.
- PiLaunch: weak fairness of every launch's own steps: each call of the OpenShell
  CLI has a timeout, and file operations end. How long somebody stays in Pi is
  not assumed, nor anything of the machine.
- HostProcesses: weak fairness of every owner's steps, and of the exit of a
  server that got a signal (llama-server, mlx_lm and uvicorn end on SIGTERM).
  Nothing is assumed of a server that got none, of the proxy, or of the monitor.
- MetricHistory, KvCache and ModelStore state safety only: nothing calls them by
  promise.

## 5. What is proved

`FlashLoopProofs` proves, for every set of requests, every set of prompt lengths
and limits and every capacity, the safety invariants of the `flashloop` run and
the safety part of the refinement. The assumptions are those the module states:
prompt lengths and limits are positive, the capacity is a natural number.

None of the invariants is inductive alone. `IInv` adds to the type invariant who
owns the gate (at most one pending task; the gate and `active` are its shadow;
every run the executor holds belongs to a task that awaits it), how the handler,
the task and the job of one request go together, and the numbers of a run:
what is cached plus what may still be decoded against the capacity. `InitInv`
and `NextInv` show it inductive, one step per action; the invariants follow.
`StepRefines` maps every step under the invariant to a step of `SingleSlot` or a
stutter; it needs that a step changes the status of one request only
(`ChangedAtOne`).

`TaxdeskBrokerProofs` proves the three safety invariants of the `broker` run for
every finite set of calls, number of slots, pair of timeouts and set of exit
codes. `BInv` adds to them what the step a call is at says about its CLI's
process, its reply and its line (`CallInv`), and that lines belong to calls that
have come to their reply (`LineInv`): without it a line could be written twice,
or a refused call could still run. `OtherCall`, `OtherLines` and `NewLine` say
what a step leaves alone, `SlotTaken` and `SlotGivenBack` count the calls that
hold a slot.

`ModelServersProofs` is about what serves a model: its processes and its files.

Of `HostProcesses` it proves the type invariant and the three safety invariants of
the `hostprocesses` run for every set of owners and of run folders and any number of
failures. `HostInv` adds to the type invariant what the step an owner is
at says about its child, its monitor and its metadata (`OInv`), that two owners
never hold one run folder (`Distinct`), and, as long as nobody has disturbed
another's clone, that a clone under way is the cloner's and that whoever has seen
a whole checkout still has one (`Undisturbed`): none of the three follows from
the properties, and `CompletedIsTrue` and `CloneIsWhole` need them. There is one
lemma per part (`TypesStep`, `OwnerStep`, `DistinctStep`, `UndisturbedStep`),
with one case per action.

Of `ModelStore` it proves the type invariant, the three invariants of the
`modelstore` run and `PiWindowFits`, for every catalogue, all policies, any old
files and any number of downloads, builds and faults. It assumes of the catalogue
that every sidecar is in a file of its own, that a slug is the name of one of them
(of a file and a path, what a build may write included: `SlugAssumption`), and that
the two places that name a profile do not name two (`ProfileAssumption`). The
sidecars tracked in `models/` meet it; the programs take it for granted, but for
`route-config.py`, which reports equal slugs to whoever runs it. `StoreInv` says
that `models/` holds known sidecars under their own names (`IndexInv`, for which a
build must be of a tracked snapshot, `BuildInv`), that what a configuration serves
was present when it was written and still is (`ConfigInv`: nobody removes an
artifact, `DiskGrows`), that a worker that is ready has a window (`WorkerInv`), and
that of the models a download was asked for, those behind its queue are present or
their file is still wanted (`PullInv`). The readers of the index are taken together:
whatever `models/` holds, `Records` lists what the files hold (`RecordsHeld`), a
slug picks one of them, and so the first with a slug, the last, and the one the
doctor sees are the same (`OneOfSlug`). `WorkerFindsArtifact` then relates two
readings at different times by the slug alone; `AcceptedFits` and `PiWindowFits` are
about the two ways to read a profile (`WindowIs`).

`DecideRecordsProofs` proves the three safety invariants of the `decide` run and
the property `CancelledKeepsPrevious` for any list of records, any set of workers
and any stages that are numbered from 1 and name only earlier stages in their
filters (`StagesAssumption`, what `validateStages` enforces). `IInv` says that every
position handed out is awaited by the one worker that took it or stored (`PoolInv`,
with `NextBounded`), what may have been staged or published at each point of the
publication (`FileInv`), what a record's chain looks like while a stage is awaited
and when it is over (`Shape`), and that `calls` counts the stages asked. A published
file is whole because a pool whose workers have all ended without an abort or a
fatal error has stored every position; `ChainSound` says nothing of the order in
which stages are decided and is not inductive without the shapes.

`ServeManagerProofs` proves the four safety invariants of the `serve` run for any
number of invocations. `Ledger` holds in every behaviour: how an invocation's kind,
step, errors, exit status and record fit together, and that daemons and pids are an
apply's. `Faultless` holds while nothing has failed and no two invocations have
overlapped: they ran one after the other (`Sequential`), what lives in a place that
an apply has cleared is its own (`TakenOver`), a daemon that runs is in the pid file
or about to be written to it (`Managed`), only its own daemons have answered an
invocation (`OwnAnswers`), and the active generation is the last that was declared
(`ActiveIsLast`). `OthersKeep` says what the other invocations leave alone, the
lemmas named `...Shape` where each step comes from and goes to, `StopClears` and
`AnswersAreOwn` carry the two arguments that are not about one step.

`PiLaunchProofs` proves the three safety invariants of the `pilaunch` run for any
set of launches that prepare, share the machine and clean up at once, and any number
of faults. `Role` says which launches can be where, `Broker` follows a broker and its
token, `Separate` keeps a launch that runs alone from the others, `HalfDone` says that a
node that is there in part was left by a launch that failed or was killed (`Failed`),
`Provisioned` what a launch has in the machine at each step up to its session (its
uploads make Pi and the agent folder whole again, nothing does so for node), `Scratch` says
which run folders there can be, and `Parent` that neither `.gitignore` nor `.pi-run`
is ever left without a launch that will still remove it or has given up for a reason
(`Caretaker`, `Pending`). `LocalKeeps` and `SandboxKeeps` say that a launch on the
host leaves the machine alone and one in the machine the run folders.

`KvCacheProofs` proves the three invariants of the `kvcache` run for any number of
tokens, any widths of appends, any group size and any residual length, for the one
to four loops that `from_loops` accepts. `IInv` describes every stream by equations
(`Built`): the rows packed up to the boundary, each with the sum the earlier loops
decode to, and the exact rows behind it. The equations have one solution
(`BuiltUnique`); `from_loops` solves them for the tokens it is given
(`FromLoopsBuilds`), and so does an append for the old tokens and the new
(`AppendBuilds`): the boundaries of a cache and of its pending rows add up
(`BoundaryGrows`), groups that were cut by either are the groups of the whole
(`MatesJoined`, `PackJoined`), and what was packed decodes to what it did
(`DecodeJoined`). `AppendIsOneShot` is then uniqueness, `RowsFaithful` follows from
the equations, and neither is inductive without them.

`MetricHistoryProofs` proves the type invariant, `TrendBounded`, `BucketsRetained`,
`StatsExact` and `RateNotOverstated` for any window, bucket width, retention, recent
horizon and limit that `runStatsPoll` accepts, any readings, and a clock that may
step back. The trend rests on what `compress()` returns (`CompressedIs`): `Keep` and
`ThinPoints` pick indices in ascending order, the older points fit into their
budget, and while the clock runs forward the recent horizon holds no more points
than it has moments (`OrderedIsShort`), so that the final truncation, which the code
would count twice, never happens when that number is below the limit. The buckets
rest on what they count (`BucketsFit`): they count the end of the log, and up to the
last sample that a bucket counts every sample is older than the end of the bucket,
so that dropping an expired bucket drops nothing of the retention. Neither property
is inductive without these. Totals are sizes of disjoint unions (`Total`): a sample
adds an element, dropping buckets takes a subset, renumbering them is a bijection,
and a rate is bounded by an injection from the tokens between the first and the last
sample into the tokens the samples in between report.

The statistics rest on what a bucket accumulates: `AccsFit` says that every bucket's
accumulator describes the values of exactly the samples it counts (`Describes`: how
many, their sum, the least, the greatest and the one of the latest), and is part of
`IInv`. Merging the accumulators of two parts, the second the later, describes both
(`MergeDescribes`), and so does adding one value (`AddDescribes`); the samples that a
metric's absence splits, or that retention dropped with their bucket, are in no part.
That the merge of all buckets describes them all would be an induction; since the
induction theorems cannot be used, `MergesExist` and `StatsDescribe` take the least
counterexample instead.

The proof found `DropsCounted` to be false
as it was first stated, and TLC shows it: nothing compares `--trend-recent` with
`--retention` (`main.go:393-397`), and when the retention is the shorter one it cuts
into the recent horizon. The property now says so.

Only model-checked:

- Liveness (`EverythingEnds`, the fairness of `SingleSlot`, `ToolEnds`,
  `InvocationEnds`, `EveryCallEnds`, `ProvisioningSettles`, `StopsWhenAsked`): out
  of the prover's reach.
- What single operators of `ModelCatalog` compute from a sidecar (the inferred
  profile, the ids a server may report, whether a backend can load a model): the
  theorems say how the readings agree, the runs compare them on a catalogue with
  one sidecar of each kind.

## 6. What is not modelled, and the plan

`PROJECT.json` gives the reason for every component left out. Not modelled:

- `up` and its tmux services: shell scripts around sessions, windows and registry
  files. The next component in line, with the reading of that registry by
  `pi_bootstrap.running_services`.
- The texts that are generated: HAProxy and llama-swap configuration, the sandbox
  policy, reports and summaries; HTTP and JSON parsing; tensors; the dashboard.
- The router's tables, the doctor's host checks and memory budgets, sampling
  parameters and log summaries: pure functions of one input with tests of their
  own.
- A pid that is reused (serve-manager's pid files after a reboot, the monitor's
  pid): nothing in the code could tell the difference. `MonitorEnds` need not
  happen for that reason.
- Torn reads of serve-manager's `desired.json` and `observed.json`, which its
  readers treat as absent.

What the plan has left is the tmux registry named above; every safety invariant and
every safety property of a step that a passing run checks is proved.
