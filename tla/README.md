# A TLA+ model of ocu-rclone-filestore

These modules model the guest-side mount process of this repository, the broker
it talks to (`test/harness`), and the protocols between them. TLC checks them on
small instances; TLAPS proves the central invariants for every value of the
constants. `PROJECT.json` lists components, runs, the map from definitions to
source lines, hazards, findings and theorems.

## The system

`cmd/ocu-rclone-filestore` loads a mount config (`internal/mountcfg`) and hands it
to the orchestrator (`internal/mounter`), which mounts every entry one after the
other, writes a ready-file when all are up, and waits for a signal or for a mount
to end. Each mount is rclone's VFS over FUSE, on top of the backend
`backend/ocufs`: an `Fs` and its `Object`s. The backend speaks HTTP through
`internal/brokerrpc`. Requests carry a weak session token to the edge
(`test/harness/edgeglue`, `cmd/edge`), which exchanges it at
`test/harness/exchange` for a scoped credential, caches it, and forwards the request
to the filestore (`test/harness/filestore`), which keeps files in a directory.
`harness-init` issues the certificates, keys and tokens all peers start from.

Before anything is mounted the process has to accept its configuration, find a cache
directory, take over the signals, and make sure that a mount would hide no file.

State lives in few places: the start-up sequence, the orchestrator and its points, the fields of an
`Object` under its mutex, the pipe of one upload, the edge's cache and flight table,
the filestore's directory, and the volume `harness-init` writes. There is one module
for each of them.

## Modules

| Module | Code | State | Actions |
|---|---|---|---|
| `Boot` | `run.go`, `mountcfg.go`, `cachedir.go`, `options.go`, `scaffoldguard.go`, `buildSpecs`, `NewFs` and the client's constructor | the document, the image's directories, the walk, live mounts and what each serves, where signals go | each step of `runWith` and of the start-up loop, each `ReadDir`, a file the guest creates, a signal |
| `Session` | what a run promises | phase, mounts held, ready-file, result | abstract |
| `Orchestrator` | `orchestrator.go`, `realpoint.go`, `directmount.go` | `run`'s program counter and locals, one record of variables per point, kernel, VFS, ready-file, signals | a step of `run`, of a `doUnmount`, of `serveFuse`, of guest, host, broker or kernel |
| `TeardownClock` | the bounded waits of the same code, `teardown.go` | phase, a clock, what each point waits for | a wait ends or expires |
| `ObjectHandle` | `object.go`, `transferFile` × `handleFileUpload`, `handleReadMetadata`, `handleFileDownload`, `copyFile` | the Object's uuid and size, the file's size, one Update, readers and copies | each critical section and each wire call |
| `Upload` | `upload.go` × `handleFileUpload` | pipe, writer, transport, handler, caller | each blocking step of the four |
| `UploadRetry` | several `Upload`s of one path × `handleFileUpload` | inodes and the directory entry | each filesystem call of a handler, each verdict |
| `Download` | `Object.Open`, `download.go`, `handleFileDownload` | option, sizes, window, body, bytes read | the calls from `Open` to the last `Read` |
| `Listing` | `List`, `immediateChildRemote`, `cursor.go` | cursors asked for, entries received and listed | a page, an error, the end |
| `Namespace` | `Put`, `Mkdir`, `Rmdir`, `Remove`, `Copy`, `Move`, `DirMove`, `NewObject`, `List` × `filestore.go`, `ops.go`, `transfer.go` | the tree, and the program counter of each request | each filesystem call of a handler |
| `Edge` | `edgeglue.go`, `cmd/edge`, `exchange.go`, `credential.go`, `jwtcredential.go` | cache, flights, one record per request, a clock | each critical section and each call |
| `HarnessInit` | `harness-init/main.go`, `localca.go` | the files with generation and expiry, a clock | look, write one file, be cut short |

`FilePaths` has paths as sequences of names, for `Boot` and `Namespace`. `MC*` modules give
sequences and symmetry sets to the configurations; `*Proofs` and `NamespaceSteps` hold the
theorems. A definition whose comment begins with
"Mutant" is not part of a specification: it is a plausible wrong version of the
definition that follows, and each property is shown to fail with one of them.

What is abstracted: names and contents are small values, sizes are small numbers,
messages are their meaning. Modelled as data only where a property is about it:
integer width in `Download`, the mapping of statuses to errors in `Upload` and
`Namespace`, destinations as paths in `Boot`. External code is modelled from how this repository uses it: FUSE and the
kernel (a detach may fail or never return), rclone's VFS (a queue of write-back items
and a drain, one VFS per Fs name and options), `io.Pipe` and `net/http` (in `Upload`), POSIX calls, `os.RemoveAll`
and `os.Rename` (in `Namespace`).

## Runs

Passing runs:

* `boot` (311 k states): two-mount documents, every single-field variant of a good one and
  every pair of eleven spellings of destinations, among them equal, nested, relative, missing
  and the root; an image of five directories in every content; an entry ceiling of 1, which
  one directory exceeds. The guest creates files and signals arrive at any step. Two mounts
  are enough for a conflict, one field at a time because the rules are independent. What
  goes up is sound, serves its own scope, hides nothing that was there, and a kill past the
  teardown finds nothing up.
* `orchestrator` (2 mounts, 1 write-back item each; 297 k). Two mounts are enough for a
  first that is up, a second that is being mounted, and a rest to tear down; a second
  write-back item behaves as the first. Any point may fail, end or hang at any time, and
  signals arrive at any time. Safety, the refinement of `Session`, and `RunEnds`: a
  signal, a lost mount, or a teardown once begun ends the process.
* `edge` (2 requests that come again and again, 2 tokens of one scope, credential lifetime
  3, renewal skew 2; 80 k): an owner and a waiter, or two keys. Safety, and every request
  is answered. The safety part is proved for any number of requests and scopes.
* `object_handle` (2 readers or copies, sizes to 2; 2.1 M): an Update between two readers
  that both resolve, or across a server-side copy whose size is carried from the source
  Object.
* `upload` (3 bytes in the source, ceiling 2: two chunks): safety, and that the call
  returns. `upload_retry` (3 attempts of 2 bytes).
* `listing` (4 cursors, ceiling 4): the ceiling can be met exactly, and passed.
* `download` (4-bit integers, files to 4 bytes, cap 3): every option, held size and real
  size; the overflow of offset + length is reached.
* `namespace` (2 requests, paths `a`, `b`, `a/f`, `b/f`, all 25 trees; 1.35 M): every pair
  of operations, lookups included, each pair in every interleaving of its filesystem calls.
* `teardown_clock`: durations in small units that keep the order of the real ones.
* `harness_init` (3 runs, 2 services, tokens that outlive certificates).

Deadlock is checked for the orchestrator, the edge and the Object, which never stop or say
so by an explicit final step. The other models are of calls that return, or of a bounded
number of attempts or runs, and really end.

No run lists a type invariant: it is part of the proved inductive invariants. `TypeOK` of
`Namespace` says besides that the tree is well-formed, which no property needs; it can be added
to the configuration.

One run expects a violation, with a finding in `PROJECT.json`: `held_size_is_true`.
`object.go` says that an Object's size can be false only while it has neither a uuid nor a
size; TLC shows a resolve that fetched the metadata before an Update and stores it after,
which leaves the Object with a uuid and the older size.

Ten more configurations state what a comment or a test says and are refuted by TLC. They
are kept to be re-run when the code or the comment changes, and are not part of the listed
runs:

| Configuration (module) | The repository says | The code |
|---|---|---|
| `ReadyOnlyWhileUp` (`MCOrchestrator`) | the ready-file exists only while every mount is up | it is removed after the teardown |
| `NoReadinessAfterRequest` (`MCOrchestrator`) | never readiness after termination requested | a signal after the last poll is seen too late |
| `SignalAbortsMount` (`MCOrchestrator`) | a signal aborts an in-flight mount | nothing cancels the context before the timeout |
| `DeathIsAnError` (`MCOrchestrator`) | a mount that dies gives a non-nil error | `serveFuse` reports nil |
| `StaleFileIsRemoved` (`MCBoot`) | a stale ready-file never advertises ready for this run (`orchestrator.go:124-129`) | a process that fails before `run`, for want of a cache directory, leaves it, and so does one that cannot remove it |
| `LoaderIsTheSchema` (`MCBoot`) | what the schema rejects the loader rejects (`parity_test.go`) | the loader takes `vfs_write_back`, which the schema does not know, and a `ca_cert_pem` that is no certificate (refused later, by the client's constructor) |
| `ReplacedAtomically` (`MCObjectHandle`) | an upload replaces the object atomically | `O_TRUNC`, copy, and remove on mismatch |
| `StartupWorstCase` (`TeardownClock`) | 153 s | 156 s: the half-started mount has its own detach grace |
| `LeavesOfOneRun` (`MCHarnessInit`) | one leaf speaks for the set | not after a re-issue that was cut short |
| `NoClobber` (`MCNamespace`) | `moveDirectory` refuses an existing destination | it looks first and renames later |

Divergences met on the way that need no run: `docs/components/05-ocufs-backend.md:77-78`
says `Put` uploads with overwrite off, the code sends true (`ocufs.go:307`);
`ocufs.go:488-489` says the file arm wins only when the directory arm is absent, while
`classifyMetaArms` prefers a substantive file arm.

## Fairness

* `Orchestrator`: one weak fairness condition, on `Progress`: as long as `run`, a drain or
  detach wait (both have timers) or `wait` of an ended server can take a step, one of them
  does. It does not promise which, so no goroutine is favoured. Nothing is assumed of guest,
  host or broker, nor that a detach returns. The umount that `directMountFn` issues when
  `WaitMount` fails has no bound in the code and none here: `RunEnds` names it (`Aborting`)
  as the only wait that can keep a process that was asked to stop.
* `Edge`: each request's own steps; the exchange answers or its client times out.
* `Upload`: the goroutine, the handler, the caller and the transport's closing of the body
  it was given.

## Proofs

Every invariant and action property of the passing runs is proved by TLAPS, and so is the
refinement of `Session`; the properties that say that something happens are not (below). Each
component has an inductive invariant, proved from `Init` and `Next`, from which its properties
follow. The assumptions are the named `ASSUME`s of the component modules and nothing
else. Components that belong together share a proof module, which extends them all; so
`TeardownClock`, `UploadRetry`, `Listing` and `ObjectHandle` have names of their own for the
specification (`ClockSpec`, `RetrySpec`, `ListSpec`, `HandleSpec`) and its parts.

* `OrchestratorProofs`, for any number of mounts and write-back items: the invariant joins the
  types, `PhaseInv` (what `run`'s locals are in each phase), `EndInv` (what is known at exit),
  `PointInv(p)` for each point (how its stage, kernel mount, drain and detach go together) and
  `ReadyFileIsOurs`. None of the exit properties is inductive alone: each needs to know how a
  point got to "done". With it every step is a step of `Session` or a stutter (`Refinement`).
* `EdgeProofs`, for any requests, scopes and lifetimes: `FlightsAreOwned` and `SingleFlight`
  hold each other up; a clock argument gives `ExpiredOnlyIfSlow`.
* `UploadProofs`, for any sizes: relates the writer's position, the handler's and the status.
  For `UploadRetry` with any number of attempts: a handler that started
  alone stays alone until the next attempt, so the entry is its file and holds what it wrote
  (`LoneInv`). In a run without faults all handlers have one file open, and the last to have
  truncated it finds its own bytes there, since the others can only have added to them
  (`ConvergeInv`).
* `ReadProofs`, three components of a read.
  `Download`, for any file, held size, option, cap and integer range: the window of each kind
  of option, whether or not offset + length overflows, and `boundedBody`'s count.
  `Listing`, for any ceiling and cursors: pages fetched, cursors asked, and `listed`
  as the children in `received`.
  `ObjectHandle`, for any readers and lengths: what each reader has fetched against
  what the Object and the file were then, and what a copy carries against its source.
* `HarnessInitProofs`, for any distinct services, lifetimes and number of runs: the marker is
  the last file of a run, so a marker no issue was cut short over vouches for one run; of the
  leaves of one run the first expires first, so its validity speaks for them.
* `BootProofs`, for any documents and any image: a file under the destination that was there
  when the walk began is below a directory still to be read, until it is met; no mount is ever
  over the root, because the root holds files of the image. The second fact is needed because
  `buildSpecs` does not see `/` as a parent of anything. That an Fs name determines its
  destination gives each mount a VFS of its own. It also holds the end of the process:
  `TeardownClock`'s two budgets, for any durations and any number of mounts, because the
  deadline of each wait is bounded by the phase it began in.
* `NamespaceSteps` and `NamespaceProofs`, for any number of requests, any number of paths of
  one or two names (so directories of any number of entries) and any tree. The properties are
  about a request that nobody contests, and none is inductive. The first module says what one
  step of a handler may do to the types, the control, the tree, the directories that
  `os.RemoveAll` holds open and half-written files. The second is a frame argument: a request
  that nobody contests has a zone, its paths and their entries, in which no step of another
  handler changes anything except that a `Mkdir` may add a directory (`Frame`). For that, no
  other handler may hold a directory near the zone, although a held directory moves with a
  rename, and no half-written file of another may lie in it (`Apart`, from `HeldInv` and
  `PartInv`). On the frame rests what the request knows of the tree at each step of its own
  handler (`Acks`, `Harmless`, `Onto`), which at the end is the property. `IInv`, the
  conjunction, was an invariant of a run of `MCNamespace` before it was proved.

Model-checked only: `RunEnds`, `EveryRequestAnswered` and `UploadReturns`, which are liveness
under fairness, out of the provers' reach; absence of deadlock, which is about ENABLED; and
the violations, which are behaviours.

## Limits of the models

* `Boot`: `Clean` is lexical, as the code's is, and the image has no symbolic links; nothing
  removes or creates a directory during the walk; every string is one of a few classes (the
  lengths of ids, `backend_cache_ttl` and the overflow of `cache_duration_s` are left out);
  a ready-file is configured; teardown is one step, `Orchestrator` has it in full.
* `ObjectHandle`: a `Move`'s carried size is left out, its source is gone afterwards.
* `Download` takes ranges with start ≤ end or an open end, as rclone makes them.
* `Namespace` has paths of depth two; a node is never moved deeper; a transfer has two
  different paths; in the run a directory has at most one
  child (the proofs have any number). Contents of a file with two writers are `UploadRetry`'s subject.
* Not modelled: `Object.MimeType`, name encoding, the message types, TLS, signatures, JWKS,
  the posture probe, the control plane and the harness's wiring, and the throttle's bucket
  (sequential arithmetic under one mutex; a refusal can happen at any request of `Upload`
  and `Namespace`). `PROJECT.json` gives the reason per part.

## Plan

1. `MetaArms`: `classifyMetaArms` and `MapHTTPStatus` as tables against the answers the
   filestore can give.
2. A composition of `Edge` and `Upload`: a credential that expires during a long upload.
3. Three requests on fewer operations in `Namespace`.
4. A proof that the tree of `Namespace` stays well-formed, which no property needs.
