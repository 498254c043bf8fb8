# ficta: TLA+ models, checks and proofs

ficta replaces secrets and personal data in what leaves a machine for a model
provider by surrogate tokens and puts the originals back into what returns. This
directory models the parts of it whose correctness depends on the order of
things (what is saved before it is handed out, screened before it is sent,
deleted and kept) or on algorithms that unit tests reach only here and there
(which finding owns a character, a token cut in two by a chunk of a stream).

`PROJECT.json` lists the components, the runs, the theorems, the source lines each
definition models, the hazards of the code and the disagreements found.

- TLC: `tlc -workers 2 -config <Run>.cfg <MCModule>.tla`
- proofs: `tlapm <Module>_proofs.tla`

Contents: 1 the system; 2-6 the proxy and its engine (KeyedVault, ProxyRequest,
KeyedScopes, texts and streams, RegistryPublish); 7-8 the gateway (ThreadHistory,
composer, ledger, trend); 9 the host (logs, settings); 10 properties and runs;
11 what is proved, and how; 12 disagreements and refuted claims; 13 what rests on
what; 14 what is left.

## 1. The system

Four programs and a library, in one repository.

```
 browser views ──► gateway (apps/gateway) ──► proxy (packages/ficta) ──► provider
                       │  chats, retention,       │  one engine, many requests
                       │  registry, ledger        │
                       │                          └─ engine (packages/engine)
 coding agent ────────────────────────────────────►    detection, surrogates,
                       managed registry file ─────►    keyed scopes, vault store
```

The engine is a library: scopes of a key hold the value/token mappings of one
conversation, and a vault store makes them survive a restart. The proxy runs one
engine for all its requests. The gateway keeps chats in a database (PGlite or
Postgres), sends them through the proxy, and publishes a registry of protected
values as a file that the proxy reloads. Launched agents and proxies share a
settings file and a directory of logs. JavaScript runs a handler without
interruption from one `await` to the next, and that is the grain of the models:
an action ends where the code awaits.

### 1.1 Inventory

For each part: its state and operations, what is hard about it, and what makes it
correct. The module that models it is named; **[-]** is left out.

**Keyed vault** - `KeyedVault` (`engine/src/keyed-vault.ts`, `vault-store.ts`,
`sqlite.ts`, the persistence calls of `engine.ts`). Per scope the mapping tables,
the fingerprints of what was persisted, the values changed since, one hydration
promise; the rows of the store with their last use. Hydrate, redact body/text,
persist, prepare and perform a restore, background touch, prune, forget. Hard:
several processes and several requests of one process share one scope across
awaits; store calls fail, or succeed and seem to fail; processes die; rows are
pruned while memory holds them. Correct if a token that was handed out can be
restored by any process with the key, nothing held is forgotten, and a restart
loses no match.

**Proxy request pipeline** - `ProxyRequest` (`ficta/src/server.ts`). Per request
its scope, its evidence and its ticket; shared: the registry, the outstanding
protection tickets, the egress proofs. Preview, admit, screen query, body and
headers, consume the ticket, connect with one retry, answer, restore, finish the
proof, reload. Hard: each surface is screened across awaits while the registry,
tickets and proofs of other requests move. Correct if a ticket sends one request
and only as reviewed, no known value leaves where leaks block, and a proof says
what happened to its request.

**Keyed scopes and the redaction pass** - `KeyedScopes` (`engine.ts`,
`redaction-engine.ts`, `vault.ts`). A cache of scopes with an idle period and a
limit; in each, four dictionary layers, the texts already seen, demoted and
destroyed values. Hard: a text is skipped wherever it stands, and so may be skipped
only if the detectors were shown it; scopes outlive the requests that made them, are
evicted under those that use them, and the registry grows underneath. Correct if keys
stay apart and keep their scopes, literal tokens of registry secrets stay out of tool
calls, and what left as a token stays one.

**Texts, bodies and streams** - `BodyText`, `JsonBodies`, `StreamRestore`
(`occurrence.ts`, `vault.ts`, `wire-restore.ts`). Overlap resolution and splicing;
the leaves of a JSON body at every depth of escaping, and the restore of complete
answers; the buffers of a streamed one. Hard: positions, cuts and quotings.
Correct if the gate finds only what the splicing itself brought about, what is
restored can be read back and obeys the tool policy, and a streamed restore is
the restore of the whole.

**Registry publication** - `RegistryPublish` (`gateway/src/lib/storage/
protected-registry*.ts`, `ficta/src/plugins/managed-registry-file.ts`,
`server.ts`). A file written by the gateway, a cached load in the proxy, a reload,
a revision acknowledged, a roll back. Hard: the file, what the proxy registered
and what the administrator is told are three things; a reload that timed out goes
on; two gateways share one file. Correct if a verified publication is protected
and a refused one leaves a file the proxy can start on.

**Gateway chat history** - `ThreadHistory` (`gateway/src/lib/storage/...`,
`ChatView`, `ChatSidebar`). A thread's row with its revision, transcript, deletion
mark and purge date; the values protected in it; per view a queue of snapshots;
per tab a pending deletion; lifecycle events; the recovery policy. Hard: tabs save
over a network that loses and delays; policy and deletion race. Correct if no turn
is dropped unseen, a retained transcript is sealed, what is gone stays gone, and
events tell what happened.

**Composer and protection review** - `ComposerReview` (`ChatView.tsx`,
`Composer.tsx`, `routes/api/chat.ts`). Draft, mode, review, previews and streams on
their way. Hard: a preview answers late, after the user edited, went back, started
anew or changed the mode; two tabs change the protected phrases. Correct if no
message reaches the model unreviewed where review is required, and a late answer
sends only what the user still wants sent.

**Egress ledger and audit expiry** - `EgressLedger` (`store.server.ts`,
`egress-evidence.server.ts`). Rows hash-chained per thread by time; an audit that
expires by a period of its own. Hard: turns end out of order or at once; policies
change under a sweep. Correct if what is left can be verified and the deletion of
what can be recovered is on record.

**Protection trend** - `ProtectionTrend` (`protection-stats.ts`,
`store.server.ts`). Cumulative counters of a proxy run, and the ingestion of their
snapshots. Correct if the trend never shows less than a snapshot it took in.

**Logs, audit and retention** - `HostLogs` (`log.ts`, `log-retention.ts`,
`log-audit.ts`). Capture files written and pruned by several processes. Correct if
raw files are audited before they go, what was found stays on record, and an agent
keeps the directory it writes to.

**Settings** - `ConfigFile`, `ConfigPanel` (`user-config.ts`,
`proxy-config-edit.ts`, setup and review commands, `ProxyConfigSection.tsx`). One
file read, changed in memory, emptied and filled again by any process, with no
lock; a panel that saves over slow requests. Correct if one surrogate key is made,
every answer survives, the file can be started from, and "saved" is true.

**[-]** Detector plugins (regular expressions, recognizer services: to the
engine, a set of mentions or a failure); entity linking of partial names; the
vault cipher (no state); secret sources (input at startup); agent launch, doctor
and other commands; authentication (an identity service decides); database start;
documents (stateless conversion); second opinion, highlights, issue reports
(display, or one message out); user interface layout; the web site; sidecars and
deployment scripts; the protocol and contract packages (types of messages).
`PROJECT.json` names their files and the reason for each.

### 1.2 Modules

| module | models | instance | proofs |
|---|---|---|---|
| `VaultContract` | what a vault promises: released after saved | - | - |
| `KeyedVault` | one keyed scope, its store, several processes | `MCKeyedVault` | `KeyedVault_proofs` |
| `ProxyRequest` | the request pipeline | `MCProxyRequest` | `ProxyRequest_proofs` |
| `KeyedScopes` | scopes, layers, the redaction pass | `MCKeyedScopes` | `KeyedScopes_proofs` |
| `BodyText` | texts | `MCBodies` | `Engine_proofs` |
| `JsonBodies` | JSON bodies | `MCBodies` | `Engine_proofs` |
| `StreamRestore` | streamed answers | `MCEngine` (extends `MCBodies`) | - |
| `RegistryPublish` | gateways, file and proxy | `MCRegistryPublish` | `RegistryPublish_proofs` |
| `ThreadHistory` | one thread, its views | `MCThreadHistory` | `ThreadHistory_proofs` |
| `ComposerReview` | one composer | `MCGateway` | `Gateway_proofs` |
| `EgressLedger` | one chat's evidence | `MCGateway` | `Gateway_proofs` |
| `ProtectionTrend` | counters and their ingestion | `MCGateway` | `Gateway_proofs` |
| `HostLogs`, `ConfigFile`, `ConfigPanel` | the host | `MCHost` | `Host_proofs` |

`MCEngine`, `MCGateway` and `MCHost` put several modules in one run. Those modules
share no variable: a variable `machine` says which of them moves, so the run is the
union of their state spaces and each property is checked where its module moves.
The theorems are about each module's own specification. `ConfigPanel` extends
`ConfigFile` for its operators (what the control plane shows, what it locks).

Three interactions are modelled by what one side sees of the other:
`ProxyRequest.Reload` is the end of a publication of `RegistryPublish`;
`ComposerReview`'s preview is `ProxyRequest.Mint`; an object that
`KeyedScopes` evicts is an `Inst` of `KeyedVault` that calls go on using.

## 2. KeyedVault

One keyed scope: instances in memory in front of a shared store.

**State.** `rows`, `lastUsed` are the store. Per instance `mem` (the tables
with their token-only marks), `persisted` (fingerprints), `changed`, and `hyd`
with `snap`, the shared load and what it has read. Per request slot `st`, `kind`,
`out`, `marks`, `batch`. `released` only observes. A mapping is held in one of
three forms: `residual` (restores only), `match`, `demoted` (a match form marked
token-only); since a token is a keyed hash of its value, the value stands for it.

**Actions.** A call is `Redact` or `PrepareRestore`, which wait for the load;
`Load`/`Loaded`/`LoadFailed` are the shared hydration; `RedactBody` and
`RedactText` register, choose what to append and send it (`Persist`);
`Append`/`AppendFails` are the answers of the store, and `AppendFails` may have
committed; `Return`, `Throw`; `Lookup`/`LookedUp`/`LookupFails` and `RestoreText`
for restores; `TouchLands`/`TouchFails` for the background queue; `Prune`,
`Forget`, `Tick`, `Evict`, `Crash`.

**Left out.** One layer of the table stands for all; registry-derived and
entity tokens and rows of another key are not modelled. Concurrent refreshing
loads of one scope are not. A store reads when it is called. The clock does not
go back. An evicted scope whose requests go on is another `Inst`.

**Runs.** `VaultShared`: two processes, asynchronous store, one request each.
`VaultSqlite`: one process, two requests, synchronous store, all kinds of call,
with fairness. `VaultRetention`: one process, pruning, forgetting, a moving clock,
touches. One value is enough: mappings of different values meet only in the
fingerprints and batches, which are per value; the proofs are for any number. Two
requests and two instances give every pair of overlapping calls. `MaxTime = 0`
leaves touches out of the runs that do not need them.

**Fairness** (`VaultSqlite` only). Strong fairness of `Answer` and `Continue` per
request: the store settles each promise and the event loop runs each resolved
continuation, though crashes and evictions may intervene. Weak fairness of a cold
`Load`, strong fairness of `Hydrate`, which a crash may interrupt. Calls, crashes,
retention and the clock are not fair.

## 3. ProxyRequest

**State.** `setting` (fixed at startup), `registry`, `sourceFailed`, the clock,
`tickets` (numbered as minted; the code's are random identifiers in a map of that
order), per request where it is and what it was admitted with, the survivors its
evidence has recorded, `proofs` by scope and event. `query`, `rest`, `accepted` and
`deliveries` only observe what left the machine.

**Actions.** `Mint` is a preview with its three prunings; `RefuseAtGate`,
`RefuseTicket`, `Begin` admit; `ScreenQuery`, `ReadBody`/`SkipBody`/`RefuseBody`,
`SpendTicket`, `ScreenBody`, `ScreenHeaders` follow the handler from await to await,
`ScreenFails` is any throw among them; `Send`, `ConnectFails`, `UpstreamFails`,
`UpstreamAnswers`, `Restored` the upstream side; `Reload` and `Tick` go on meanwhile.

**Left out.** A surface is screened in one step though the code loops over
parameters and headers. Detected values: the modelled promises are about values
the proxy was told of, from the registry or a ticket. Path-like tokens,
authentication headers and the URL path are not screened, by policy. Host,
launch-token and WebSocket refusals, control routes, trace capture and statistics.
That a failure before a byte has left is told from a later one is taken from
`upstream-fetch.ts`.

**Run.** `ProxyRequest`: two requests of one scope, two event ids, one ticket, one
registrable value, reloads, the three startup settings, one tick of the clock. A
state constraint (`Explored`) explores a union of regions: two events, hence two
proofs side by side, for plain requests without tickets; one request where the
registry is required, since its gate is passed in the first step; no passing time
where survivors may leave, since expiry is explored where they may not. Two requests
can present one ticket, a proof can be replaced, expire and be finished late.

## 4. KeyedScopes

**State.** `active`, the records ever loaded (the registry only grows); `cache`,
the keyed objects in order of use; per `scope` object the layers `detected` and
`derived` as tokens and match forms, `known` surfaces, `tokenOnly` (demoted ones),
`seen` texts; per request its scope, the values selected for it, the body, what it
wrote and what the gate found. `writers` (the keys that wrote into a scope) and
`swept`, `asKey` (the texts complete detections read as content and as object keys)
only observe.

A leaf is a text at a place of a body: content, an object key, or the field that
identifies the client. The code keeps one ledger of texts for all of them, and it
matters which is which: no detector is given the identifier (`Scanned`), those with
the content view are not given keys (`Visible`), the text of a scanned leaf of any
kind enters the ledger (`Screened`), and a text on the ledger is skipped wherever it
stands next (`FreshOf`).

**Actions.** `BeginRequest` with expiry, reuse, creation and eviction;
`BeginEphemeral`; `RegisterProtectedValues`; `Redact` covers a body, in two steps
around the detectors' await, and a header or query; `EndRequest`;
`ReloadRegistryValues`; `Tick`. Detectors answer any set of what they could have
seen, or fail.

**Left out.** Characters: a text is the set of values that stand alone in it and its
nests, occurrences one of which contains the other. Positions are `BodyText`'s. Two
kinds of detectors stand for all: those that find something anywhere in the text they
are given (of them, those that read keys too find what is `Patterned`), and hooks that
read the whole body and find what is `Structural`. The engine runs without a
persistent store here.

**Run.** `KeyedScopes`: a registered organization with a short form, a secret that
may be registered on its own and is part of the organization's name, a card of a
destroyed category; three keys over a cache for two scopes, three scope objects, two
requests. `Explored` is the union of one request at a time with every value in
content (`EveryValue`) and with leaves of every kind (`EveryKind`), two interleaved
requests of one key (`Interleaved`), three keys that take turns, of which one writes
(`TakingTurns`: a scope evicted under its user, or made anew, needs no second writer),
and the cache over two steps of the clock with nothing to find (`OverTime`: one step
orders the entries, the second expires them). Three keys are the least that overfill
a cache in which two scopes can be confused. Tokens are the opaque ones (`ByHint` is
FALSE); the proofs are for both styles. Deadlock is checked: a request can always
begin or end.

## 5. Texts, bodies and streams

**BodyText.** A text is a sequence of units (characters, tokens, markers). `Pass`
collects every claim (registered forms at every match, any findings with any
category, within `Findings`), `Resolve` is `resolveOccurrences`, `SpliceAll` the
rewriting, `Gate` the fail-closed reading of the result, `Resend` the next turn; a
text pass covers headers and queries. Twelve bodies under three registries: names
that overlap, touch, nest, cross lines, stand in paths, commands, emphasis and
assignments.

**JsonBodies.** A field is a literal with its key, its parts and the number of
escapings each was written with. `RegisterValue`, `LearnValue`, `HydrateLearned`
fill the layers; `ScreenJson` is a request body, its gate included; `RestoreJson`,
`RestoreText`, `RestoreDetailed` a complete answer under every restore policy.
Treating a body leaves nothing behind for the next, so a behaviour treats one. All
bodies of up to two fields of up to two parts, and of three where a marker encloses
a part. Not here: invalid JSON falls back to plain text and has no tool policy.

**StreamRestore.** `PlainChunk`/`PlainEnd` for a plain text; `Event`, `Stop`, `End`,
`CutOff` for an event stream with two blocks whose fragments interleave, sibling
fields and repeats; `FilterChunk`/`FilterEnd` for the filter of forged markers.
`MaxLength` and `Digits` scale the token down (4 for 39 characters, 2 digits for
32); a prefix may stand anywhere, and a text may be cut anywhere. The bound of 160
characters on a kept tail and an unknown wire, which keeps nothing back, are left
out. Two kinds of text are excepted (`Ambiguous`): under the guard a token glued to a
preceding letter or digit, half of which may be given out, and a token that begins
in the last character of another (section 12).

**Run.** `Engine`. Every text of up to four characters and every concatenation of
three tokens, prefixes and neighbours.

## 6. RegistryPublish

**State.** `file`, a generation with its revision and records; per gateway process
the queue and the running task; `told`, what the administrator saw last; reload
requests and answers under way; `proxy` with what it protects and where its handler
is; `cache`, the loader's memo, which trusts time and size of the file; `request`.
`mixed` and `unjudged` only observe.

**Actions.** `Submit`; `GatewayStep` is the next step of the running task (read,
render, write, ask, wait or time out, verdict, roll back); `WriteFails`,
`RollBackFails`, `Crash`; `ProxyStep` is the reload handler, which reads the file four
times; `Stop`, `Start`, `Admit`, `Send`.

**Left out.** Edits of entries (a task may find any approved entries), further
registry files, exclusion rules, a path the two sides disagree about.

**Runs.** `RegistryPublish`: two gateways, six lists of approved entries (one the
proxy refuses, two that clash or share a form, a literal that shares one), two
revisions, one task waiting, two starts of the proxy, weak fairness of
`GatewayStep` (files and database answer, and the timer of a reload runs out): the
least with which a file can be replaced between rename and reload.
`RegistryForms`: section 12.

## 7. ThreadHistory

**State.** `state`, `revision`, `stored`, `purgeAfter` are the thread's row;
`selected` its protected values; `audit` its events; `policy` the recovery period.
Per view: what it shows, the revision its saver holds, its queue, the save on its
way. `removed` and `met` only observe.

**Actions.** `NewChat`, `LoadChat`, `Converse`, `PersistSnapshot`, `SendSave`,
`LoseConnection` for the view; `SaveLands` is the transaction, which may answer a
view that no longer listens; `ScheduleDeletion`, `CancelDeletion`,
`CommitDeletion`, `DeletionFails` the sidebar; `DecideDeletion` reads the policy
and `RetireThread` or `RemoveThread` is the transaction; `RestoreRetained`, `Sweep`,
`PatchPolicy`; `ReadSelections`/`WriteSelections` and `PruneAbandoned` the protected
values.

**Left out.** One thread: another's deletion only starts a pending one early. A
transcript is the set of its messages. A page from the router's cache is a view
idle since the fetch. Titles, model settings, traces, `startThread` (no client
calls it). Purge dates beyond the last instant are that instant. The age at which
selections count as abandoned.

**Runs.** `ThreadHistory`: two views, one sidebar, one preview, the period switched
between 0 and 1, two lifecycle events after which no more deletion starts. Three
messages are the least with which a view can save over a turn it has not seen; they
are explored while nothing else happens to the thread (`Explored`), two messages
with everything. `ThreadSecondDeletion`: section 12.

## 8. The rest of the gateway

**ComposerReview.** State: `draft`, `mode`, `minimum` (the workspace's, now and as the
page saw it), `review`, `previews`, `streams`, the ticket that waits for a stream,
`stored` values. Actions: `Edit`, `PickSuggestion`, `Submit`, `Regenerate`,
`SendProtected`, `Back`, `NewChat`, `SwitchMode`, `Protect`/`Unprotect`, `OtherTab`;
`ReadValues`, `AnswerPreview`, `Receive` are a preview on its way; `Connect`,
`PostChat`, `EndStream` a stream. Left out: attachments, the posture that blocks the
composer, the suggestion to the workspace; authentication, model allow-list and
provider keys of the chat route, which are guards of one request.

**EgressLedger.** State: the day, the policy, the chat's phase with its dates, the
audit of its deletions, turns, appends under way, `ledger`, the sweep. Actions:
`Turn`, `BeginAppend`, `InsertRow` (an append reads the latest row, then inserts),
`BeginDelete`, `Delete`, `Restore`, `ChangePolicy`, `BeginSweep`, `Purge`, `Expire`,
`Tomorrow`. A hash is stood for by the event whose row it is. `inOrder` observes that
rows came one after another, each after the proof it names; `least` the shortest
audit period since the deletion began: the two promises hold only under these
conditions, and section 12 names the unconditional ones.

**ProtectionTrend.** `Record`, `Restart`, `Snapshot` in the proxy; `ReadCheckpoint`,
`Ingest`, `Lose` in the gateway. Left out: buckets by model, surface and label, the
rendered summary, the expiry after ninety days.

**Run.** `Gateway`: two messages, one of which names two phrases, two previews, two
streams; three turns over three days with one reading each, four policies; three
snapshots of two proxy runs. `Serial`, `OneByOne` and `Serialized` are FALSE, which
is Postgres; PGlite, where transactions run one at a time, has fewer behaviours.

## 9. The host

**HostLogs.** State: per directory its process, whether it is there, its files and
when it was last touched; open requests; per pruner its pass; saved reports.
`read`, `gone`, `owed`, `failed`, `overlapped` only observe. Actions: `LogRequest`,
`Complete`, `CompleteNowhere` (the directory has gone), `Exit`; a pass is `BeginPass`,
`AuditAged`, `RemoveAged`, `AuditForCap`, `Shrink`; `AuditAll`; `HourPasses`. Left
out: log lines and previews, counts, the list of secret shapes, values inside paths,
the hourly throttle (a pass may begin at any time).

**ConfigFile.** State: `file`, per process its environment, what it has read and
will write, and where it is. Actions: `Load` (with a refusal of what it cannot start
on), `EnsureKey`/`CheckKey` for launches, `Patch` for the control plane, `SetupEnds`,
`ReviewEnds`, `Truncate` and `Fill` (a rewrite is two steps), `Die` anywhere.
`crowded` and `lost` observe that two changes overlapped or that a process died
between `Truncate` and `Fill`: nothing keeps processes out, and what overlaps loses
updates (section 12), so the properties are about files that were left in peace.
Left out: key files, exclusions of single projects, files that are not TOML.

**ConfigPanel.** `Choose`, `Type`, `TypingStops`, `Serve`, `GiveUp`, `Arrive`.

**Run.** `Host`: the logs of an agent and of a standalone proxy, one of them live,
two pruners, two passes in two hours, two requests, a cap of two files; two
processes that start three times in all, with one change; three saves of the panel.
In a pass all steps interleave with a second pass and with both writers.

## 10. Runs and properties

TLC explores each instance completely. The last column names the theorem that
states the property for all values of the constants; a dash is a property that is
only model-checked.

| run | property | says | proved as |
|---|---|---|---|
| `VaultShared` | `SavedAsBelieved` | fingerprints and released tokens are never ahead of the store | `BeliefsAreSound` |
| | `PreparedRestores` | after prepareRestore all stored tokens of the text restore | `PreparedRestoreIsComplete` |
| | `ContractSpec` | the vault implements `VaultContract` | `ImplementsContract` |
| `VaultSqlite` | `MatchKept` | a value once matched is matched after a restart | `MatchesAreKept` |
| | `EveryCallEnds` | no call waits for ever | - |
| `VaultRetention` | `NothingForgotten` | what is held is persisted, queued or in flight | `NoMappingForgotten` |
| `ProxyRequest` | `SentOnceAsReviewed` | one request per ticket, as reviewed; the retry sends nothing twice | `ReviewedRequestsGoOnce` |
| | `KnownNeverLeaves` | the leak gate, across awaits and reloads | `RegisteredValuesStay` |
| | `ProofTrue` | proofs say what happened | `ProofsAreTrue` |
| `KeyedScopes` | `Isolation` | what a request can restore is registered, its own, or of its key | `KeysStayApart` |
| | `SecretsStayOutOfTools` | of the tokens of a registered value, a tool call gets those of entities and, in the typed style, those that show detection's hint | `SecretsStayOut` |
| | `CacheSound` | one scope per key, within the limit | `CacheKept` |
| | `KeysKeepScopes` | a scope goes when idle too long, or for others used at least as recently | `ScopesAreKept` |
| | `SeenWasShown` | a text is skipped only if a complete detection was shown it, as content or as a key | `SkipsWereShown` |
| | `TokensStay` | a token never turns into a marker, a mapping never goes | `TokensAreKept` |
| | `DetectionMintsNoSecret` | detection mints no token, literal or entity, for a value that is registered or that its request selected | `MintsNoSecret` |
| | `GateStopsOnRemainders` | the gate stops only on demoted surfaces | `GateStops` |
| `Engine` | `StreamIsWhole` | pieces make the restore of the whole, once, with an exact account | `FilteredAsAWhole`, for the filter |
| | `ToolsKeepSecrets` | a withheld value reaches no tool argument, in pieces or repeated | `StreamKeepsSecrets` |
| | `EveryClaimOwned` | the winners never overlap, and each claimed character goes to the claim that ranks first over it | `EveryClaimIsOwned` |
| | `DestroyedForGood` | what a header destroyed no token brings back, for values of one word | - |
| | `TokensSurvive` | what redaction wrote into a text is never claimed again: it is in the text sent next, as often | `TokensAreSpared` |
| | `BodiesReadBack` | only bare numbers hold a request up; answers can be read | `BodiesAreReadable` |
| | `CallsKeepPolicy` | the tool policy of complete answers | `CallsGetWhatTheyMay` |
| `RegistryPublish` | `VerdictHolds` | what a publication reports is what the proxy does | `VerdictsAreTrue` |
| | `JudgedFileStarts` | a judged file is one the proxy can start on | `LeftFileStarts` |
| | `QueueDrains` | a click is served | - |
| `ThreadHistory` | `SavedOrStuck` | an idle view has its last snapshot stored, or shows a failure | `NothingLostInSilence` |
| | `RemovalIsFinal` | what was removed stays so, and the events tell it | `RemovalsAreFinal` |
| | `NoTurnLost` | a message leaves only with its row or by a view that showed it | `TurnsAreKept` |
| | `ContentsHold` | a live thread keeps its selections, a retained one everything | `ContentsAreKept` |
| `Gateway` | `ReviewedBeforeModel` | no unreviewed message reaches the provider where review is required | `NothingUnreviewed` |
| | `AnsweredIsStored` | what a preview told the page is stored until a removal | `AnswersAreStored` |
| | `SentWithConsent` | a late answer sends only what is still wanted | `LateAnswersAskNobody` |
| | `LedgerHolds` | the chain of rows that came in turn reads back; the deletion is on record while no audit period falls below the one it began under | `EvidenceHolds` |
| | `TrendCovers` | the trend never shows less than a snapshot | `TrendCoversSnapshots` |
| `Host` | `PruningIsSafe` | audited before it goes, found is on record, the agent keeps its directory | `PrunesSafely` |
| | `OneKey` | at most one surrogate key | `OneKeyForAll` |
| | `FileIsTrue` | while no changes overlap and none is cut short: answers survive, the file starts, what is shown is what a restart has | `FileIsTrueForAll`, `AnswersAreShown` |
| | `SavedIsShown` | "saved" is true | `SavedIsShownForAll` |

`ThreadSecondDeletion` and `RegistryForms` are the disagreements of section 12.
Each property has a mutant in `PROJECT.json`: a plausible mistake in one
definition, under which TLC finds it violated. Definitions that are such mistakes
stand in the modules marked "Fault" or "Mutant" and are used by no action.

Bounds are in the guards of the actions they bound, named in CONSTANTS (`MaxTime`,
`MaxTickets`, `MaxEvents`, `MaxRevisions`, ...), and are chosen to be the least with
which the interesting race happens; the theorems hold for every value of them.
Deadlock is checked where a system can always go on (vault, scopes); elsewhere a
bounded number of messages, days or starts is simply used up. Symmetry is of
values, requests, views or pruners that no definition tells apart, and is not used
in the runs that check liveness. Fairness is assumed in two: `VaultSqlite`
(section 2) and `RegistryPublish` (section 6).

## 11. What is proved

59 theorems are listed in `PROJECT.json`; every one is for any values of the
constants that meet the named assumptions (`ConstantsAssumption`,
`ApprovedAssumption`, `LedgerAssumption`, ...), which TLC evaluates in the runs. Each
proof has the shape Init => IInv, IInv /\ [Next]_vars => IInv', IInv => Inv, with a
lemma per action (or group of actions) and conjunct it disturbs. Each invariant was
model-checked before it was proved.

**KeyedVault_proofs.** `NothingForgotten` alone is not inductive: `Books` adds
that the marks of a request are those of its own append (`MarksInFlight`), that
what it has taken is covered by its batch (`MarksCovered`) and that changed values
are held (`ChangedHeld`). `LastUseMonotonic` adds that no update is stamped ahead of
the clock (`StampsPast`). Under `~Retention`, `Durable` follows an entry from the
append that commits it to the fingerprint that records it, which gives
`BeliefsAreSound`, `PreparedRestoreIsComplete` and the refinement
`ImplementsContract`; with retention they are false (section 12). `MatchesAreKept` is
of one instance on a synchronous store. `Forms` says that memory which has read the
store covers its rows (`MatchesRead`, `MatchesLoading`, `CopiesMatch`), so that an
append, which carries what memory held when it was chosen, lowers no row
(`AppendsWhatIsHeld`), and that a match form without a row is due (`MatchesDue`).

**ProxyRequest_proofs.** `TypeOK /\ Ticketed /\ Screened /\ Delivering /\ Proved`.
`Ticketed` ties an admitted request to the ticket it holds, says what a request past
its body has spent, and that one ticket takes one request there; `Screened` that, of
the registry at admission, whatever is in the clear has been counted; `Delivering`
that bytes leave only in the last stages; `Proved` that a proof speaks of a request
that has come to its end. `TicketsAreCapped` is `TicketBounds`: after each preparation
no scope and not all scopes together hold more tickets than their caps, by the
cardinality of what each pruning leaves; no run checks it, since it needs more tickets
than the race of a run does.

**ThreadHistory_proofs.** `History`: one view at most may create the row, and only
while it was never there (`First`, `OneCreator`); a save on its way names the revision
its view holds, and that view is silent until it has an answer (`Sending`, `Quiet`);
no view is ahead of the row (`Behind`), and one that is level with it has displayed
what is stored (`Current`). `NoTurnLost` is the last of these at the moment a save
lands. `Tracked` adds where the newest snapshot of a view is: last in its queue, on
its way, or stored. `Told` adds to `AuditTells` that a purge is of a removed row.

**KeyedScopes_proofs.** Types, the cache (an object is in it once, under its key,
and used; `CacheOrdered`: by last use), who wrote what in a scope, what its layers may
hold against what is registered, and what was shown (`SkippedWereShown`, which adds
that what a pass took for fresh was not on the ledger when it began). `ScopesAreKept`
follows an object through an eviction, the removal of the entry that is touched and
its return at the end (`Thinned`: what stays is in its old order). `SecretsStayOut` is
for both styles: when tool policy trusts the hint of a literal token ("typed"), a token
minted by detection before its value was registered keeps saying so, and the statement
names it, as it names the tokens of entities. `CacheKept` is the cap, uniqueness and
keyedness alone.

**RegistryPublish_proofs.** The largest argument. A revision stands for one list
of records wherever it is met (`Contents`, `Once`, `Unwritten`); while no two tasks
ran at once the file is that of the running task or of the last (`Alone`, `Judged`); a
file another process put in between was overtaken, and by whom (`Overtaken`); a
reload under way, the loader's memo and the answers agree with what was in the file
when each was read (`InTouch`, `InForce`). `VerifiedIsProtected` needs `AtMostTwo`
gateway processes; with three it is false (section 12).

**Engine_proofs.** *JSON bodies.* A body is treated in one step, so the argument is one of
operators: what an operator makes of a part, then of a field, then of a body. For a
request (`BodiesAreReadable`), a literal that is rewritten keeps no value that shows
in it, and what its own decoding does not show a further one does not either; for an
answer, sanitizing leaves no marker of the model's own, so nothing counts as restored
already, and what is put back is escaped as deep as its reader decodes.
`CallsGetWhatTheyMay` rests on a restored token not being withheld, and on withholding
taking every token that the policy keeps from a tool's
field. `JsonBodiesAssumption` asks of the inputs that a value with a quote in it
is escaped once for each string it sits in: bodies are well-formed JSON.

*Streams.* `StreamKeepsSecrets` carries through every piece that what a tool's block
has given out, and what it holds back, has no withheld value in it, and that what it
holds back unguarded is shorter than a token, so no token is restored out of a half
that was given before. `StreamAssumption` says that a value is of one piece in the
model's alphabet, not spelled in characters of the provider's text, and has one token.
`FilteredAsAWhole` is `StreamIsWhole` where the stream is the filter of forged
markers: `FilterKept` says that what was given is what the filter makes of a prefix
of the body, that this prefix ends in no backslash and in no beginning of an escape
that what follows could complete, and that what waits is the run of backslashes after
it, unchanged (`Waits`); a run counts the same in a piece as in the whole (`RunShifts`).

*Texts.* `OccsKept` says that the occurrences of a pass lie in their leaf and carry
claims the pass has made. Ranking is a total order of them (`Beats`), the slices of a
leaf partition it, and a slice's winner is the first of those that cover it; this gives
`EveryClaimIsOwned`. For `TokensAreSpared`, `SurvivalKept` adds that no claim touches
a unit the engine wrote (`SliceWithin`, `WinnersClear`): the literals between splices
are copied in order (`FlattenKeeps`, `SpliceSpares`), so every such unit of a first
sending is found in the second. It assumes that no registered form holds a marker.
Steps that count along a sequence take a least counterexample in the natural numbers,
from well-foundedness of the order, in place of an induction over data.

The proofs changed the model. A registered form is compared with its blanks made one,
as the code does, and a word boundary is looked up for values only; and two
properties that the run had let pass were false: see section 12. Of a stream they
showed that `Tokens` found tokens that overlap, where the code's scan goes from left
to right; `StreamIsWhole` now excepts them.

**Gateway_proofs.** Composer: `Numbered` (previews and tickets are in the order they
were asked for), `Remembered` (what a review shows is what its preview answered),
`Waiting` (what is wanted while a preview is out), `Consent`, `Rows` (what a preview
read is stored but for what was removed since), `Reviewed`.

Ledger: `Chain` rests on `Placed` (who reads which row when),
`HasLatest`, `NextKnown` and `NamesEarlier`; `Deletion` on `SweepAllows`: what a sweep
that began earlier may still take. The proof found the condition `inOrder` too weak
at first: it has to ask also that a row comes after the proof it names.

Trend: an ingestion adds what its snapshot has over a checkpoint that the day already
covers (`TakenIn`); within a run totals only grow, so a later snapshot has no less
than an earlier one (`Growing`, by cardinalities: a kept-out value is counted as an
element of a set); and while snapshots come in turn the checkpoint is the whole of
the day (`InTurn`). The proof found that `TrendCovers` asked in vain for nothing to be
on its way; the condition is gone.

**Host_proofs.** Logs (`LogsInv`): bodies are numbered and owed to one request
(`NumberedBodies`), a pass that has the host to itself removes only what it has
audited or listed (`AuditedFirst`, `AuditedRead`, `AloneInPlace`), what it counted is
saved or still there (`ShownIsKept`), what is in a live agent's directory is spared
(`Spared`). Settings (`FileInv`): while nothing overlaps one process at most is
changing the file (`AloneChanging`) and what it will write keeps every earlier
answer, the key included (`GoodNow`). `OneKeyForAll` assumes that no environment
brings a key along (`Keyless`): one that does is a second key by intent.
`FileIsTrueForAll` assumes that environments set neither destruction nor its labels
and that the file to begin with fits (`Plain`): an environment that narrows
destruction makes a start refuse the labels of a file that was right when it was
written. `AnswersAreShown` has neither hypothesis; like them it speaks of files
whose changes never overlapped nor were cut short, and it excepts from "shown" a style
that was typed and is saved as opaque, and detectors named in the singular by an
environment. Panel (`PanelInv`): requests are
numbered, the file has what the latest one served brought, and a save that is
answered as the latest was served last, unless `astray`.

**Not proved, and why.**
- `EveryCallEnds`, `QueueDrains`: liveness under fairness.
- `StreamIsWhole` for a text and for events: that restoring commutes with every way
  to cut a text. That no piece gives a secret away is proved; that the pieces make the
  whole needs, for each shape a cut can fall into, what the restore of both halves is.
- `DestroyedForGood`, stated of values of one word (section 12): restoring is a fold over the values in no particular order, and
  what it makes of a text is an induction over that set.
- Compositions of modules (section 1.2): what one module assumes of another is read
  from the code.

## 12. Disagreements and refuted claims

Two are runs, which TLC must find violated:

- `ThreadSecondDeletion`. With recovery switched off, deleting a thread that is
  already retained removes its protected values and leaves it restorable without
  them (`store.server.ts:966`; `apps/gateway/README.md:207-209`).
- `RegistryForms`. A form added to an active entity is published, verified and not
  protected until the proxy restarts (`engine.ts:312`;
  `ProtectedRegistrySection.tsx:243-245`).

The modules also state claims which TLC refutes, as definitions that no run
checks:

| claim | of | TLC's counterexample |
|---|---|---|
| `SkipsOnlyStored` | `KeyedVault` | a header or query redaction that emits a value another request is just appending returns its token with nothing saved (`engine.ts:1008`); after prune or forget, an instance that holds the mapping hands out its token and never saves it again (`keyed-vault.ts:106`) |
| `MatchKept`, two processes | `KeyedVault` | a process that met a value only clipped replaces another's match row by a restore-only one (`sqlite.ts:116`) |
| `OneRequestProof`: "A values-free, one-request proof" (`server.ts:1728`) | `ProxyRequest` | retries share an event id; a first attempt that ends late writes its restore counts into the second one's proof (`server.ts:1779`) |
| `SeenWasSwept`: "leaf hashes already swept by every available detector" (`engine.ts:538`) | `KeyedScopes` | a text that occurs first as an object key enters the ledger (`engine.ts:800-805`) though the detectors with the content view are not given keys (`engine.ts:604`, `1265`); as content it is then skipped, and they never read it |
| `NoCopyRestoresSecret`: a detected copy "can never make the secret restorable into tool calls" (`vault.ts:610-612`) | `KeyedScopes` | an entity token minted for a short name before the name was registered stays restorable: the registry's own token is another one, so the detected layer alone maps it (with `FormsOf <- LateNameForms`) |
| `DestroyedIsUnseen`: "re-runs detection on any re-sent content that held a destroyed value" (`engine/README.md:337-338`) | `KeyedScopes` | a text in which the detectors first missed a value stays on the ledger when another leaf brings the value up and it is destroyed in both; sent once more it is skipped |
| `DetectedStaysRedacted`: "a value detected on turn 1 stays redacted on turn 3" (`engine.ts:365-366`) | `KeyedScopes` | a value that a second turn quotes only inside another's claim is demoted; it is not claimed again but still held by the gate, so a third turn that quotes it is refused (`engine.ts:895`) |
| `PassesAgain` | `BodyText` | redacted text sent again is stopped for a value at a new edge |
| a text sent again is left as it is (`engine/README.md`, "Deterministic and idempotent") | `BodyText` | a value in another case is claimed the second time, where the first had remembered it only as Markdown writes it; `TokensSurvive` is what is true of it |
| the gate finds only what a splice brought to an edge | `BodyText` | a form that overlaps itself, and a value as Markdown writes it, are found elsewhere too |
| what a header destroyed no token brings back, and the gate finds only beside what was taken out, of values of several words | `BodyText` | with `a b` destroyed and `a bA` registered, `a  bA` in the text becomes a token that restores as it was registered, with one blank (`expander.ts:158`), and `a b` stands again; with `a a` and `ba` registered, taking `ba` out of `ba a a` moves the scan on to the `a a` it had passed over |
| pieces make the whole, of every text | `StreamRestore` | an unmapped token that ends in the first letters of the prefix, with the rest of a mapped token after it: the scan of the whole passes over the second (`vault.ts:836`), a cut between them shows it |
| `AllRestoresIntoTools` | `JsonBodies` | the policy "all" withholds too, where the prose policy does (`threat-model.md:53`) |
| `VerifiedIsProtected`, three processes | `RegistryPublish` | a file replaced twice and taken back twice answers for the first publication |
| `RolledBackStarts` | `RegistryPublish` | the file put back was exported while no proxy ran, and the proxy refuses that one as well |
| `DraftFrozen` | `ComposerReview` | picking a suggestion replaces the draft under its preview (`Composer.tsx`) |
| `RootCoversAll` | `EgressLedger` | two turns that end at once fork the chain (`store.server.ts:268`) |
| `EvidenceOutlivesChat`: "Audit evidence must be retained at least as long as deleted chats" (`settings.ts:125`) | `EgressLedger` | the two periods are compared with each other only; lowering both drops the evidence of a deletion whose chat can still be recovered (`store.server.ts:715`) |
| `TrendCountsOnce` | `ProtectionTrend` | a snapshot that was overtaken counts again (`test/storage.test.ts:231`) |
| `WritersKeepTheirDirectory` | `HostLogs` | an idle standalone proxy loses its directory and refuses what it cannot log (`log-retention.ts:6-8`) |
| `RestartIsAnnounced` | `ConfigFile` | a style that was typed is saved as opaque, goes on being shown as typed, and no restart is announced (`proxy-config-edit.ts:345-352`) |
| `SavedIsSaved` | `ConfigPanel` | an earlier failed save is dropped by its number and never reported (`ProxyConfigSection.tsx:524`) |

Outside the properties' conditions, the settings file loses updates of processes
that overlap, and its key when one dies between emptying and filling it; a deletion
committed before a chat's first save has landed succeeds on nothing, and the save
then creates the chat; a reset of the composer while a preview is out leaves
"checking" with nothing on its way.

## 13. What rests on what

TLC explores the instances above completely. TLAPS proves the theorems from the
named assumptions on constants in each module, which TLC evaluates too. That
a handler is atomic between awaits, a store call atomic at the store, a rename
atomic in the file system, and a database transaction atomic under the row lock it
takes first are premises of the models, read from the code. What is external (a
store's answers, the provider, the clock, detectors) is nondeterministic.

Observed variables ("ghosts") have no counterpart in the code: no guard reads
them, and they serve the properties only.

## 14. What is left

Entity linking of partial names, with its roster and expansion, is the largest
part of the engine without a module; `BodyText` and `KeyedScopes` take what it
answers as any finding. Of the proxy, its control routes that only read, and the
framing of responses. Of the gateway, the database start and the model adapters. To
prove: the rest of `StreamIsWhole`, `DestroyedForGood`, and the mapping of `KeyedScopes`'
evicted objects to `KeyedVault`'s instances.
