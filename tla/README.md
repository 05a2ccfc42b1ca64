# Formal specifications of ayx-rs

TLA+ models of the parts of `ayx-rs` that keep state across steps, processes and failures:
how a profile and its credentials are saved together, how tokens are rotated, how a login
is driven through its steps, how requests and lists behave under retries, how registry
actions and MongoDB mutations are gated, how an MCP session ends, how a route of upgrades is
found. Each module is
model-checked by TLC on small instances; the theorems are proved by TLAPS for every value of
the constants. `PROJECT.json` maps every definition to its source lines, and lists the
hazards of the code with the properties about them.

- [The system](#the-system)
- [Profile and keyring: KeyringTxn](#profile-and-keyring-keyringtxn)
- [Token rotation: CredentialRotation](#token-rotation-credentialrotation)
- [Login: AuthStateMachine, AuthWizard, OneLogin](#login-authstatemachine-authwizard-onelogin)
- [Requests and lists: OneRequest, OneList](#requests-and-lists-onerequest-onelist)
- [Actions and workflows: RegistryRun](#actions-and-workflows-registryrun)
- [MCP: McpSession](#mcp-mcpsession)
- [MongoDB: MongoMutation](#mongodb-mongomutation)
- [Server API: ServerApi](#server-api-serverapi)
- [Upgrades: UpgradePlan](#upgrades-upgradeplan)
- [Runs and bounds](#runs-and-bounds)
- [Fairness](#fairness)
- [What the code does otherwise](#what-the-code-does-otherwise)
- [Proofs](#proofs)
- [Not modelled](#not-modelled)
- [Plan](#plan)

## The system

`ayx` is a command-line program. Most commands load a profile (YAML, with references to
OS-keyring entries instead of secrets), talk to Alteryx One, to an Alteryx Server or to
its MongoDB, and print an envelope. There is no daemon: concurrency is between several
`ayx` processes that share a profile, a keyring, a directory of artifacts and a database,
and between a process and the services it calls.

| Component | State | Operations | What makes it correct | Module |
|---|---|---|---|---|
| Keyring transaction (`ayx-core/secrets.rs`) | journal beside the profile, backup entries and accounts in the keyring | begin, record_change, set_target_digest, commit, abort, rollback_and_abort, recover | profile and accounts change together or not at all; nothing is lost or left behind by a crash | KeyringTxn, AtomicSave |
| Profile lock, atomic write (`ayx-core/sensitive.rs`) | lock file, profile, `.tmp` sibling | acquire, write_atomic_contents, recover_sensitive_file | one writer at a time; the lock is released | KeyringTxn |
| Profile loading (`ayx-core/profile.rs`) | the loaded configuration | load, load for write, resolve references | a profile is consumed only after recovery | KeyringTxn |
| Save paths (`ayx-rs/onboard.rs`) | request in memory, stores to undo | write_config_exact, the bulk write with deletions | the file never refers to an entry that is gone | KeyringTxn; one step in CredentialRotation |
| Secret commands (`ayx-rs/secret.rs`) | none of their own | set, unset, migrate, the scan for shared accounts | an account another profile refers to is kept | KeyringTxn, CredentialRotation |
| Credential rotation (`ayx-core/one_credential_store.rs`, the exchange in `ayx-one-api`) | accounts derived from a binding, a lease | acquire, exchange, commit | no token is spent twice, the replacement survives | CredentialRotation |
| Login state machine (`ayx-core/auth.rs`) | phase, budgets, failure | apply | budgets hold for every order of events | AuthStateMachine |
| Login wizard (`ayx-core/auth.rs`) | the machine, the pending step | start, submit_otp, submit_workspace_password, record | side effects are not repeated, steps keep their order | AuthWizard |
| OTP transport, login command (`ayx-one-api/email_otp.rs`, `otp_compat.rs`, `cmd/one_platform/auth.rs`) | HTTP session, counters of loops | send, validate, resolve, password, mint, prompt, verify, store | nothing is asked for twice; complete means stored | OneLogin |
| One requests (`ayx-one-api/lib.rs`) | token, attempts | preflight, verify, send, retry, renew on 401 | a mutation is sent once, with a verified token | OneRequest |
| One lists (`ayx-one-api/lib.rs`) | pages, continuation tokens seen | fetch the next page, stop | a list that succeeds is whole | OneList |
| Action registry (`ayx-registry`) | frames of composed steps, outcomes, audit files | finalize, run_action, run_workflow | nothing mutates unapplied; the record tells what ran | RegistryRun |
| Headless gateway (`ayx-rs/headless.rs`) | MCP session | handshake, list tools, call | a call is made once; a listing is whole | McpSession |
| MongoDB (`ayx-server/mongo.rs`) | preview, approval and execution artifacts | mutate, undo, backup; query, doctor, inventory, restore | what was approved is what is written, once; the artifact is true | MongoMutation |
| Server API client (`ayx-server-api/lib.rs`) | the token cache of the process | gate, resolve a bearer token, request_json, request_multipart, download_bytes | a mutation is sent once and applied, a cached token is hardly stale | ServerApi |
| Upgrade planner (`ayx-server/upgrade`) | a queue of paths, versions seen | resolve_path, matching_issues | a route is supported and shortest, or there is none | UpgradePlan |
| Server logs, SQL Server, workflow files, rendering | little or none | one query or one conversion each | conversions, not protocols | - |

Interactions. Commands load through `profile.rs`, which takes the lock of `sensitive.rs`
to let `secrets.rs` recover what a dead process left, releases it, and then reads. Saves go
through `onboard.rs`, which takes the lock again, recovers, journals each account it
changes, and writes the profile. A login drives `auth.rs` and the OTP transport and ends
in such a save. Requests to Alteryx One read the tokens a save has stored, and rotate them
under the lock of the profile. A list is a loop of such requests. A registry action spawns
`ayx` commands. Modules compose accordingly: `KeyringTxn` refines `AtomicSave`, whose single
step stands for a save in `CredentialRotation`; `AuthWizard` extends `AuthStateMachine`,
`OneLogin` extends `AuthWizard`, `OneList` extends `OneRequest`.

Hard behaviours: a crash between any two of the steps of a save or of a rotation; failures
in the middle of an undo; a process that has no keyring backend on the same profile as one
that has; loads that overlap with saves; requests whose outcome is unknown; nested retry
budgets; answers that come late or twice; documents that change between an approval and
its use.

## Profile and keyring: KeyringTxn

`KeyringTxn.tla` models one profile, the keyring accounts behind it, and the processes
that load and save it. `AtomicSave.tla` is what a save promises. `MCKeyringTxn.tla` adds
the symmetry sets for TLC and `KeyringTxn_proofs.tla` the proofs.

State and code:

| Variable | Code |
|---|---|
| `profile` | the profile file, as its references, its inline secrets and everything else |
| `journal` | `<profile>.auth-txn`, `KeyringTransactionJournal`: target digest, restored flag, a mark per account |
| `keyring`, `backup` | the accounts and the backup entries a journal names |
| `txn` | the lock holder: next call, purpose (`why`), loop, `KeyringTransaction.journal`, remaining accounts, current account and pre-image, `keyring_previous` |
| `stage`, `view`, `req`, `outcome` | per process: where the command is, what it loaded, what it wants saved, what the last save returned |

A digest is modelled by the profile body it stands for: digests of equal bodies are equal,
of different ones different. A secret field is named by the account it would use.

Actions, each a call with all its outcomes (success, its errors and what the caller does
with them):

- recovery: `Recover`, `RestoreChange`, `RestoreDone`, `MarkRestored`, `CleanBackup`,
  `CleanDone`, `RemoveJournal`; the same actions are the rollback, the abort and the
  commit, told apart by `why`, as in the code they are the same functions;
- a recorded change: `DeleteAccount`/`StoreAccount` (first journal write), `StoreBackup`,
  `PersistReady`, then `DeleteKeyringSecret`/`StoreKeyringSecret`;
- the rest of a save: `LoopDone` (the narrow path stores, deletes, checks; the bulk path
  deletes, checks, stores), `CheckConflict`, `SetTargetDigest`, `WriteProfile`, `Undo`;
- processes: `StartLoad`, `Lock`, `RemoveTmp`, `ReadProfile` and `ResolveRef` (without
  the lock, as in the code), `Loaded`, `Quit`, `Submit` (`Saves` holds the requests of set,
  replace, unset, resave, login and logout), `Crash`.

`Persist` has three outcomes because `write_atomic_contents` does: done; failed with
nothing changed; failed at the directory sync with the new file in place.
`Faults` selects the failures that may happen. `Headless` processes have no keyring
backend: reads find nothing, deletions succeed without effect, stores fail.

Properties:

- `WriteAheadJournal`: an account is changed only under a journal on disk that recovery
  would undo and that holds what the account was;
- `RecoverableJournal`: recovery never needs a backup that is gone, which no later run of
  the program could repair, and what is being undone is not what it takes for committed;
- `NoOrphanBackup`: no copy of a secret outlives the journal that names it;
- `NoDanglingRef`: the profile never refers to an account that is empty, or would be after
  the pending recovery;
- `ImplementsAtomicSave`: read as recovery would leave the keyring (`Recovered`), every step
  is a step of `AtomicSave` or none: profile and accounts change together, and a save that
  returns `Ok` has changed them;
- `LockReleased`: the lock holder always gets to release the lock.

Fairness: `WF_vars(HolderStep)`, the holder of the lock goes on. Inside the locked section
the code waits for nobody (all loops are over finite sets, the lock is not taken again),
so that the only assumption is that the operating system schedules the process. Users and
crashes are not fair.

## Token rotation: CredentialRotation

Processes renew an access token with a refresh token the provider may replace at every use,
while others log in, log out and switch workspace. `profile` holds what each profile file
refers to, `refreshOf` and `accessOf` the keyring accounts of each binding, `live`,
`issued`, `lost` and `refused` are the provider's view of the refresh tokens, `lock` the
lock of each profile, `proc` what each process is doing. Tokens are numbered in the order
they are issued; an access token has the number of the refresh token it came with.

A renewal is `FromConfig`, `AcquireRefresh` (the lock), the reload and comparison of the
binding, the exchange with its four answers (a replacement, the same token again, a
failure, a lost reply), `CommitReplacement` (refresh token first, then access token) and
`Release`. `Login`, `Logout` and `SwitchWorkspace` prepare a credential without the lock and
`SaveProfile` it under the lock, deleting the accounts found unreferenced by a scan made
before. Such a save is one step: `KeyringTxn` is about its inside. It fails in two ways.
`GiveUp` is a failure that recovery or `rollback_and_abort` undoes: nothing has changed.
`SaveUndone` is a failure of the digest or of the profile write (`onboard.rs:1705-1728`):
`rollback_keyring_accounts` undoes the stores (`Undone`) and the transaction is aborted, so
that the deleted accounts stay deleted, under the old profile (fault `write`) or, when the
write fails at the directory sync, under the new one (`dirsync`). `emptied` names the
bindings that have lost their tokens in this way.

Properties: `RefusedOnlyIfLost` (no token is spent twice), `StoredIsUsable` (what the
profile refers to is accepted, or its replacement was lost, or a failed save has removed it:
no other order of saves, renewals and failures takes it away), `StoredOnTarget` (tokens go where the profile
points at that moment), `AccessNotAhead` (a crash between the two stores leaves no access
token newer than its refresh token), `LockReleased`.

## Login: AuthStateMachine, AuthWizard, OneLogin

`AuthStateMachine` models `AuthStateMachine::apply`: `Accepts` is its match of phases and
events, `After` the new state. The phases `validating_otp` and
`validating_workspace_password` are declared in the code and never entered. An accepted
event clears the recorded failure, that of `Cancel` included; a transient failure counts
over the whole login.

`AuthWizard` adds `WizardEngine`: `Start`, `SubmitOtp`, `SubmitWorkspacePassword` and one
action per outcome given to `record`. If the machine refused the event of an outcome,
`record` would return an error after it has taken the pending step; `Applied` has that
branch, and `PendingMatchesPhase` says it is never used. History variables say what the
provider saw.

`OneLogin` is `ayx one login`: the choice of a method is open (email OTP by the legacy loop
or by the wizard adapter, a stored refresh token, an access token, browser, device code),
and so is the policy of the store. `login` holds the counters of the loops and prompts,
`machine` the command's own `AuthStateMachine`, `seen` what the provider has received. Every
request may fail before it is sent, be refused, fail at the service, or be acted upon and
its answer lost; `retry_transient` repeats it where the code does. The adapter and the
engine advance separately: `Drive` is a step of the adapter with the step of the engine it
triggers, and with the "transition drifted" error when they disagree. The engine is also a
library: with method `library` any other caller drives it.

Properties: `NothingRepeated` (no second email, no second token for a lost answer),
`RetriesAreEarned` (a code is asked for again only after one was refused; passwords are
repeated within bounds), `WithinBudgets`, `SideEffectsBounded`, `PendingMatchesPhase`,
`NeverDrifts`, `CompleteIsStored` (success means verified and stored), `LoginReturns`.

## Requests and lists: OneRequest, OneList

`OneRequest` is one live request: the gate of `--apply`, the preflight of a mutation, the
verification of the workspace, the choice of a token, the loop that retries a read on
transient errors and renews its token once after a 401. `config` is what the loaded
configuration offers, `rq` the request; the service answers as it likes. `OneList` adds
`next`, the service's chain of pages (circles included), and `list`, the loop of
`one_api_list_request` with its cap and its set of continuation tokens seen. A command is a
list or one mutation.

Properties: `MutationSentOnce`, `VerifiedTokenSent` (the token sent is the one the
workspace was verified with), `OkIsComplete` (`--all` succeeds only with the whole
collection, and a whole one is not called incomplete), `CommandEnds`.

## Actions and workflows: RegistryRun

`RegistryRun` runs an action or a workflow of any registry that `Registry::finalize` loads:
explicit and inferred input schemas, their union for a workflow, contracts checked per
level, parameters filtered between levels, steps that are notes, commands or composed
actions, the gate of `--apply` of each action, fail-stop, the audit files. The frames of
`run_steps` are the variable `frames`; `outcomes` is the record, `ran` what was spawned.
`Below` is what the recursion of `effective_action_contract` visits, written as a least
closed set of actions. `MCRegistryRun` gives the step lists that two actions may have.

Properties: `UnappliedRunsReadOnly` (at any depth of composition), `NoPlaceholderLeft` (no
command starts with a placeholder left in it), `RecordIsTrue` (the outcomes are a prefix
of the flattened plan, all of it when the run is ok, with an audit file for each command
that ran). The flattened plan is stated as equations (`Flattens`): an action lists, from a step
on, that step, what it composes, and what comes after it. `Rest` and `All` compute their
solution for TLC, which checks in every state that it is one.

## MCP: McpSession

`McpSession` is a command that lists tools or calls one, over a pipe to a child or over HTTP
to a gateway. `c` is the client with its request ids and pages, `inp` and `out` the
messages on the way, `child` the process, `server` a server of any inventory that answers
late, twice, unasked, wrongly or not at all, and exits as it likes. A message that is
too big for the pipe is written only as fast as it is read.

Properties: `CallGuarded` (the server performs a call at most once, whatever becomes of its
answer, and only applied, confirmed and after the handshake; a call reported as completed
was performed), `ListIsWhole` (a list is the whole of what the server
publishes, and is called too large only if it is: the limits may be hit exactly),
`NothingAfterReturn` (a child that is slow does no more once the command has returned),
`CommandEnds`. The whole is stated without a recursion: `Inventory` relates a sequence of
pages, each the next of the one before, to the number of tools up to each, and `Fits` says
that some inventory is within the limits.

## MongoDB: MongoMutation

`ayx mongo mutate` and `ayx mongo undo`. A preview reads the documents and writes an
approval artifact; `--apply` validates the backup and the approval, asks a person, writes a
prepared execution artifact, lets mongosh run one transaction that checks the documents
again, and records how it ended.

| Variable | Code |
|---|---|
| `data`, `transactional` | the documents in the deployment of each profile (one field of each stands for the fields of the `$set`); whether it has transactions |
| `approvals` | `MutationPreviewAudit`, `UndoPreviewAudit`: what was read, what would be written, the expiry |
| `runs` | `MutationExecutionAudit`, `UndoExecutionAudit`: the plan, the outcome, the link to an undo |
| `backup` | the newest backup artifact of a profile |
| `proc` | prepared and waiting for a person, mongosh running, to finalize, to link |
| `inflight`, `committed`, `changed`, `overwritten` | the transactions, as the deployment knows them: mongosh outlives the process that started it |

Actions: `PreviewMutation`, `PreviewUndo`, `PrepareMutation`, `PrepareUndo`, `Decline`,
`Execute`, `Commit`, the four ways mongosh can end for its caller (`SaysApplied`,
`SaysAborted`, `NotStarted`, `SaysNothing`), `Finalize` and `Backlink` (each may fail to
write), `Crash`; `Backup`, `Tick`, `OthersWrite`. `Json` is what `JSON.stringify`
leaves of a value: a date is compared, and recorded, as the string it becomes.

Properties: `ArtifactIsTrue` (an artifact that says applied, aborted or failed is right,
through crashes and lost answers), `WritesWhatWasSeen` (a transaction writes what its
approval shows over what it shows, whatever happens in between), `NeverRepeated` (an approval
is a file that can be used again, after an unknown outcome above all: still no change is made
twice on documents nobody has written since).

The shipped `mutations.yaml` has a `preview_only` template alone, so that `--apply` becomes
reachable when an operator promotes a template; `Templates` is a constant with both modes.

## Server API: ServerApi

`ServerApi` is one process that makes requests one after the other: through `api_request`
(`read`, `mutation`), which has the gate of `--apply`, or past it (`upload` by
`request_multipart`, `download` by `download_bytes`). `cache` is `TOKEN_CACHE`; `rq` the
request, its attempts, and what the server has done for it; `now` the clock, in units of
10 seconds. A token is the time at which the server stops accepting it, so that the cached
deadline, which is counted from the arrival of the reply (`ReceiveToken`), can be later than
the true one. `Exchange` is one attempt of a loop with every status and with or without an
effect on the server: a 5xx or a lost reply may hide a mutation that was performed.

Properties: `MutationSentOnce` (one attempt, with `--apply`, and what is in doubt is an
error), `StalenessBounded` (the margin of `Fresh` covers a delay of the reply up to itself; a
reply that was later leaves a token that is used past its end, but by less than the
difference, however long the process keeps it).

## Upgrades: UpgradePlan

`UpgradePlan` is `ayx server upgrade path` and `precheck`. `table` is `version_paths.yaml`,
empty when the file is missing or cannot be read, `queue`, `seen`, `path` and `rest` are the
loops of `resolve_path`, `known` is `known_issues.yaml` and `issues` what `matching_issues`
finds in it. A version is the sequence of its numbers; `MCUpgradePlan` gives five versions,
hops and two issues.

Properties: `RouteIsSupported` (a route takes supported hops only; no route is answered only
if there is none, for which a closed set of versions is the witness), `RouteIsShortest` (no
walk of supported hops is shorter), `SearchEnds` (also with cycles).

## Runs and bounds

| Run | Question | Instance |
|---|---|---|
| `txn_exact` | is the narrow path atomic and recoverable? | 2 processes, 1 account, 2 secrets; crash, keyring, journal, conflict and encode failures; 47,000 states |
| `txn_bulk` | is the bulk path? | 1 process, 2 accounts, 2 secrets; crash, keyring, conflict; 148,000 states |
| `txn_live` | do write-ahead and the release of the lock hold whatever fails? | 2 processes, one headless, every command and every failure; 362,000 states |
| `rotation` | are tokens rotated safely under concurrency and failures? | 2 processes, 1 profile, 2 bindings, 3 refresh tokens, all five failures; 540,000 states |
| `one_login` | are budgets, side effects, drift, success and the end of a login as they should be? | the budgets and retry counts of the code, every method; 25,000 states |
| `one_list` | is a mutation sent once and a list whole? | 4 attempts as in the code, 2 continuation tokens, caps 0, 2 and 50; 136,000 states |
| `registry` | does composition respect gates, contracts and the record? | every registry of 2 actions, 1 parameter, a workflow of 2; 591,000 states |
| `mcp` | is a session correct with any server? | 2 pages, 3 tools, 2 unread lines, both transports; 114,000 states |
| `mongo` | does approval, transaction and artifact fit together? | 2 processes, 1 profile, 2 documents, 3 templates, 2 approvals, 2 executions, 1 foreign write; 1,251,000 states |
| `server_api` | do retries and the token cache keep their promises? | 3 requests, 4 attempts at most as in the code, lifetimes and delays up to 3, margin 1, clock up to 6; 105,000 states |
| `upgrade` | does the search find a shortest route or show there is none? | every request over 5 versions and 3 deployments, 513 tables; 598,000 states |
| `find_lost_deletion` | see [What the code does otherwise](#what-the-code-does-otherwise) | the smallest with the case |

Why this is enough.

- `KeyringTxn`: the interference between processes is through one lock and one journal;
  two processes have every overlap of a load or a save with another save or its recovery. One
  account has every failure point of one change; two in the bulk path give a failure after
  one of several changes, and stores next to deletions. Two secrets tell an old value from a
  new one. The faults `write` and `dirsync` are left out of `txn_exact` and `txn_bulk`, as
  are `journal` and `encode` of `txn_bulk`, because the properties do not hold with them (below).
- `CredentialRotation`: three tokens are two exchanges after a login, so that a token can be
  spent, replaced and spent again by the other process; two bindings are what a switch and a
  second login need. One profile: with two on one binding the properties are false, see
  [What the code does otherwise](#what-the-code-does-otherwise).
- `OneLogin`, `OneList`: the constants are the code's own, except the number of continuation
  tokens; two of them make every chain of up to three pages and every circle. The cap 50 is
  never reached, the caps 0 and 2 are.
- `RegistryRun`: two actions compose each other to depth two; the step lists of
  `MCRegistryRun` have a command before and after a composition. A plan that is not run with
  `--apply` is not audited; audit is switched per run.
- `McpSession`: the limits are 2 pages and 3 tools instead of 100 and 2000, with pages of one
  or two tools, so that each limit is missed, met exactly and passed.
- `MongoMutation`: with two approvals and two executions an approval is used twice, or a
  mutation is undone, or two different mutations meet; the third document or execution adds
  no new pair. One document has a date and an `_id` that survives JSON, the other neither.
  One foreign write, the clock up to 2 with an expiry of 1, one backup artifact, and no
  reuse of names are the bounds; they stop the system, so that the run does not check for
  deadlock. In `one_login`, `one_list`, `mcp`, `server_api` and `upgrade` the command ends;
  these runs do not check for deadlock either. The others do.
- `ServerApi`: three requests are one that fetches a token, one that uses it or finds it old,
  and one after that. A unit of the clock is 10 seconds: the margin is 1, and `MaxDelay` is 3,
  the 30 seconds the client waits for a reply by default (`ayx-server-api/src/lib.rs:1504`).
- `UpgradePlan`: a table has any subset of nine hops, among them shortcuts, ways of different
  length to one version, and cycles. Five versions are the fewest with which a search in the
  wrong order (a stack) finds a longer route; the deployment asked for is listed, falls to `default`, or the
  file is missing. The proof covers the other tables.

The type invariant of `RegistryRun` is checked by `registry`; those of the
other modules are proved.

Every property has a mutant in `PROJECT.json`: an operator `Mutant of ...` in the modules
that replaces a definition by one with a plausible bug, under which the property fails.

## Fairness

| Specification | Assumption | Why |
|---|---|---|
| `KeyringTxn!FairSpec` | weak, `HolderStep` | inside the locked section the code waits for nobody: loops are over finite sets, the lock is not taken again |
| `CredentialRotation!FairSpec` | weak, `HolderStep(p)` of each process | a holder waits for the provider, whose requests have a timeout |
| `OneLogin!LoginFairSpec` | weak, `ProgramStep` and the steps of another caller of the engine | program and provider go on or time out; a person need not, and `LoginReturns` allows for it |
| `OneList!FairSpec` | weak, `Next` | every request has a timeout |
| `UpgradePlan!FairSpec` | weak, `Next` | a loop of one process over a finite file |
| `McpSession!FairSpec` | weak, `ClientStep` | the client only; `CommandEnds` names the two servers against which it does not end |

Users, crashes, other writers and servers are never fair.

## What the code does otherwise

The run that ends in a counterexample which follows the code's own steps:

| Run | What happens |
|---|---|
| `find_lost_deletion` | Bulk save, profile write fails: the accounts that were deleted are not restored, as `keyring_previous` only has the stored ones and the transaction is aborted. The old profile refers to them. |

Others, found with the same models and without a run of their own. With the constants
named, the property fails.

*Saves* (`KeyringTxn`, `Settings = {x}`, two processes unless stated).

- `RecoverableJournal`, one process, bulk operations, faults `write` and `crash`: abort
  deletes the backups under a journal that does not say the pre-images are back
  (`secrets.rs:185`); a crash before the journal is removed leaves one that every later
  load fails on. With the exact path and `write` alone: a secret that replaces another
  leaves the profile bytes as they were, its journal counts as committed from
  `set_target_digest` on, and what is then rolled back is not retried by recovery.
- `NoDanglingRef`, one process, exact path, fault `dirsync`: the write fails after its rename
  (`sensitive.rs:181`) and the keyring is rolled back under the new profile.
- `NoDanglingRef`, `Ops = {"set", "unset"}`: a save replaces the whole profile with what was
  loaded before the lock was taken (`secret.rs:424`); an emptied field is back, its
  account is not.
- `NoOrphanBackup`, one process headless, fault `crash`: it recovers for one that is not
  (`secrets.rs:819`); its deletions do nothing, the journal goes, the copy of a secret stays.
- The profile is read after the lock of its recovery is released (`profile.rs:1376`): a writer
  can start and die in between, and `ReadProfile` is taken while a journal is there.

*Rotation* (`CredentialRotation`, `Profiles = {f1, f2}`).

- `RefusedOnlyIfLost`: two profiles with equal bindings share the keyring accounts and not the
  lock (`one_credential_store.rs:131`): both processes read the same refresh token, both
  exchange it, and the provider refuses the second, though nothing was lost.
- The scan for references (`secret.rs:759`) precedes the
  lock and the other profile has its own: a logout can delete the account the other profile
  has begun to refer to meanwhile (`StoredIsUsable`).
- With one profile, and with a login or a logout whose profile cannot be written: what
  `find_lost_deletion` shows. The profile still refers to the refresh token, which is gone
  though the provider accepts it. `StoredIsUsable` names this case (`emptied`).
- `workspace switch` saves what it loaded before it asked the service, and without the
  binding (`workspace.rs:623`, against `onboard.rs:390`): the references are no longer
  canonical, and later renewals end with an error. It is an action of the model; the
  properties speak of canonical references.
- A login with the stored refresh token (`cmd/one_platform/auth.rs:545`) exchanges it without
  the lock, and a verification that fails afterwards (`:840`) loses the replacement. Not
  modelled: `Login` brings a token of its own.

*Login.*

- After `MayHaveCommitted` on a code or a password the engine takes the next one as if nothing
  had happened (`auth.rs:412`, against the comment at 445). No caller goes on there.
- `DefinitelyNotSent` invokes the step again and no budget counts it (`auth.rs:443`); the only
  adapter never reports it.
- The legacy OTP loop uses up a prompt for any failed validation and finally sends a new
  passcode, which the comment at `email_otp.rs:389` excludes; `RetriesAreEarned` is stated of
  the wizard.
- The adapter records `Persist` as accepted before anything is persisted
  (`otp_compat.rs:288`), and the login machine is told `OtpSent` before the request.

*Lists* (`OneList`). `PartialNeverOk`: a page whose body cannot be read to its end becomes an
empty string (`ayx-one-api/src/lib.rs:1522`), which is a page without items and without
continuation: the list ends there with `ok: true`, against the comment at line 1228.
`OkIsComplete` is stated of the pages that came with a body.

*Registry* (`RegistryRun`). `ContractIsUpFront`: the contract of a composed action is checked
when its step is reached (`executor.rs:521`), after commands before it have run, against
"before a read-only command, mutating plan, or `--apply` subprocess can start" (line 50). A
read-only action composed by a mutating one runs without `--apply`, where the module
comment (line 10) says nothing is invoked. The partial outcomes are not preserved
for the caller when a step fails: `?` drops them (`executor.rs:566`).

*MCP* (`McpSession`). The timeout is described as that of a response and starts again with
every line (`headless.rs:332`); a write to a pipe nobody reads has none.

*MongoDB* (`MongoMutation`). `ApprovedWhereApplied`, two profiles: a mutation previewed with
the profile of one deployment is applied with that of another. `load_and_validate_preview_approval`
(`mongo.rs:504`) does not compare the profile, nor is it in the digest, against the plan of
the command ("Require profile, ..."). The documents still have to read as approved.
`UndoKeepsLaterWrites`: an undo compares values, so that a later
change which brought the field back to the value of the mutation is overwritten, while the
plan in `docs/superpowers/plans` has it refuse "rather than overwriting later operator
changes". An undo restores what `JSON.stringify` left of the old value: a date comes back as
a string. A document whose `_id` is an ObjectId is never found by an undo, which is refused.
The expiry of an approval is checked before the prompt, which waits for a person. A
failed final update leaves the artifact at `prepared`, which the code reports as critical.

*Server API* (`ServerApi`, the constants of `server_api`). `NothingWithoutApply`: a publish
uploads without `--apply`. `workflow_version_upload_envelope` (`ayx-server-api/src/lib.rs:365`)
calls `request_multipart` directly, and the documentation of `publish` says "Dry run (default
— no changes sent)". `UploadPerformedOnce`: the same upload, a POST, is sent again after 429 or
5xx (`:1824`), which the comment on `request_json` excludes for mutations (`:1686`); a server that
has stored the version before it fails stores another. The deadline of a cached token is counted from the
arrival of its reply (`:1641`) and the margin is 10 seconds: with a reply 30 seconds late,
which the client accepts, an ended token is sent for up to 20 seconds, which is the bound of
`StalenessBounded`. A token the server refuses stays in the cache until its deadline, and is
sent again by every request until then.

*Upgrades* (`UpgradePlan`, the constants of `upgrade`). `KnownIssuesReported`: `UpgradeRules::new`
reads `known_issues.yaml` as a list (`rules.rs:63`), the shipped file is a mapping `issues:`; the
error is dropped, and no precheck reports a known issue. In the same way a
`version_paths.yaml` that cannot be found is an empty table, with which every upgrade is
refused: the folder is `CARGO_MANIFEST_DIR` of the build. `RouteIsSupported` speaks of the table
as it was loaded.

## Proofs

| Module | Theorems | For every |
|---|---|---|
| `KeyringTxn_proofs` | `TypeCorrect`; `WritesAhead`: `Spec => []WriteAheadJournal` | set of processes, accounts, secrets, commands and failures |
| | `Recoverable`, `LeavesNoBackup`; `SavesAtomically`: `Spec => ImplementsAtomicSave` | the same, under `Covered` |
| | `NoReferenceDangles` | the same, under `Covered` and `Alone` |
| `OneLogin_proofs` | `BudgetsKept`, `FailuresExplained` (machine); `EffectsBounded`, `NeverRefused`, `WizardTypes`, `StepsInOrder` (engine) | budget above zero, any caller |
| | `CommandIsACaller`: `LoginSpec => Spec`; `EngineKeepsItsWord`, `LoginTypes`, `AdapterNeverDrifts`, `NoRepeatedRequest`, `RetriesEarned`, `CompletedIsStored` | budget and number of attempts above zero, every method and policy |
| `CredentialRotation_proofs` | `TypeCorrect`, `StoresOnTarget` | set of processes, profiles, bindings, tokens and failures |
| | `RefusesOnlyLost`, `StoredCanBeUsed`, `AccessStaysBehind` | the same, with one profile (`OneProfile`) |
| `OneList_proofs` | `TypeCorrect`, `SentOnce`, `SendsVerified`, `ListsWhole` | number of attempts, set of continuation tokens and caps, chain of pages |
| `RegistryRun_proofs` | `TypeCorrect`, `ReadOnlyUnapplied`, `ParametersComplete`, `FailuresAndAudits`, `OrderKept`, `RecordTrue` | set of actions, parameters and step lists, workflow, registry that loads |
| `MongoMutation_proofs` | `TypeCorrect`, `ArtifactsTrue`, `WritesSeen`, `RepeatsNothing` | set of processes, profiles, documents, values, templates, artifacts, bounds |
| `Clients_proofs` | `SessionTypes`, `CallsGuarded`, `ListsWhole`; `StopsAtReturn`: `Spec => NothingAfterReturn` (`McpSession`) | inventory, set of cursors, limits of pages and tools |
| | `ApiTypes`, `SentOnce`, `CacheBarelyStale` (`ServerApi`) | number of retries, requests, lifetimes, margin and delay |
| `UpgradePlan_proofs` | `TypeCorrect`, `RouteSupported`, `RouteShortest` | set of versions, table of hops and request |

Assumptions: those of the modules, which say that `None` is no value, that budgets and
limits are numbers, that a workflow has an action and steps are of the three kinds, that
templates have their shape, and that what JSON leaves of a value it leaves alone; TLC
evaluates them in the runs.
`Clients_proofs` holds the theorems of two components, which share nothing: it extends
`McpSession` and `ServerApi`, whose names are distinct for that.

Some theorems have hypotheses on the constants, without which they are false. `OneProfile`
is about [two profiles on one binding](#what-the-code-does-otherwise). `Covered` leaves out
processes without a keyring (`Headless`), a profile that cannot be written or synced
(`write`, `dirsync`), and on the bulk path a journal that cannot be written and a profile
that cannot be encoded: what goes wrong with each is in that section too, and
`find_lost_deletion` shows one. Everything else may fail: any call of the keyring, the
journal of the exact path, a conflict, and any process at any step, as often as it likes.
`Alone` is one process: two that save what each loaded before the lock can bring back a
reference the other has removed.

*KeyringTxn.* `WriteAheadJournal` is about a single program point, and says nothing of how the
journal came to be as it is there. `IInv` adds, along the forward part of a save: the journal
on disk is the one in memory from the first recorded change on, it has no target and is not
marked restored (`JournalOK`); what is recorded of the current account at each step of
`record_change` (`CurrentOK`); that the loops have not recorded what they still have to
change, which needs that no request stores and deletes the same account (`LoopOK`,
`RequestsOK`); and where processes can be (`ControlOK`). A recorded account would be skipped
by `record_change` and changed under an old pre-image: this is why `LoopOK` is
needed. The proof has one lemma per group of actions and one case per action.

For what is proved under `Covered`, `SInv` adds what the keyring holds. While a save goes forward each
account is as the save wants it, or, if the loops still have to come to it, as recovery would
leave it (`EffectOK`), and the pre-images recovery needs are there (`Sealed`). While it is
undone, the marks in memory are at most one write ahead of those on disk and undo the same
(`UndoableOK`), the accounts already passed are restored (`UndoneOK`). Backups are deleted
when the journal is no longer one recovery would undo (`CleanOK`), all of them before the
journal goes, which is `NoOrphanBackup`. In the refinement the keyring of `AtomicSave`
is `Recovered`, and a save takes effect in one step, the write of the profile: the steps
before and after it change accounts that recovery would change back, or the marks that are
no longer looked at. `Grounded` then adds to
`NoDanglingRef` what a single process has loaded and may ask to save.

*OneLogin.* `MachineInv` is a predicate of one machine state: while a login goes on some of
each budget is left, a passcode about to be sent is within the budget. `AfterOK` shows that
`After` keeps it for every accepted event, once for the machine alone and for the engine.
`IInv` adds that the provider's count is the machine's as long as a request is pending
(`SideEffectsCounted`), from which the bounds follow even though an uncertain request is
seen by the provider and not by the machine; `OrderInv` adds the steps that have been accepted
on the way to each phase. For the command, `InStep` ties the program point of the adapter to
the engine's pending step and phase. It makes each step of the command a step of the engine's
`Next` (`CommandIsACaller`), so that what was proved of the engine with any caller holds
here, and it makes the "transition drifted" error unreachable. `LoginInv` counts what the
provider has seen against the counters of the loops: `SeenOnce`, `CodesEarned`,
`PasswordsEarned`, `VerifiedFirst`; it is the same for the legacy loop, the wizard and the
methods without OTP.

*CredentialRotation.* `Inv` (types, and `ControlOK`: who holds which lock, and what the
profile refers to from the comparison to the last store) is inductive for any profiles and
gives `StoresOnTarget`. `RInv` adds, for one profile, that tokens in keyring, provider and
processes are numbered below `issued` (`Numbered`), that different accounts have different
tokens (`Distinct`), that a stored token is accepted or lost, unless its holder is just
replacing it (`Accepted`, `Renewing`), and what the profile refers to (`Referred`): an
account that has a token, or one whose tokens a failed save has removed. A save that is undone
only takes tokens away, and never those of a process that renews, which holds its lock.

*OneList.* `RequestInv` counts attempts and minted tokens by how far the request is and says
what a mutation has been through; it is kept by each step of a request whatever the
service answers. `ListInv` says that the pages fetched are a chain without repetition
whose next member is the one to fetch, so that an end without continuation is the end of
the collection.

*RegistryRun.* What is below a composed action is below the one that composes it
(`BelowGrows`), so that an action `finalize` has accepted requires the placeholders of all
actions below it (`PlaceholdersRequired`). `Satisfied` says that every call on the stack has
passed its own contract, and so a command has all its parameters at any depth. A composed
action whose schema is inferred, the only kind that can report a missing parameter, gets all
its caller has and lacks none (`ChildHasAll`); `Placed` says that a workflow passed its own
contract before its first action, and that of a single action is checked before anything
runs. For the order of the record, `OnCourse` says that what was recorded, followed by what
each frame of the stack still lists, from the innermost to the outermost, and by what the
actions in the queue list, is what the whole run lists. It is stated of any solution of the
equations `Flattens` (`OrderKept`). That `Rest` and `All` are one is the premise of
`RecordTrue`; it would take an induction over registries, and TLC checks it as part of
`RecordIsTrue`.

*MongoMutation.* An artifact that is true may be false a step later if two processes finished
it, or if its transaction were still open. `IInv` adds `Owned` (the artifact a process is
about to finish is prepared and nobody else's; what it will say is so), `Recorded`
(prepared jobs and artifacts repeat their approval, an undo is the inverse of its mutation)
and `Stands` (what a transaction wrote is there until somebody writes those documents).
`RepeatsNothing` follows: a repeated transaction would need its old values to be in place
while `Stands` says the new ones are.

*ServerApi.* The invariant ties the cached deadline to the token: it is at most `MaxDelay`
later, which `Tick` keeps because the client does not wait for longer. A fresh entry is more
than `Margin` away from its deadline, hence less than `MaxDelay - Margin` past its end. For `SentOnce` it
counts what was sent by the program point.

*McpSession.* The server may write anything with any number at any time; what the client
believes rests on the numbers it gives out. `NumberingOK` derives them from the place of
the session: the handshake is 1, the page after `n` pages is `n + 2`, so that a number is
never used again and `MaxId` is enough. `IdsOK` says of every message on its way or read by
the server that its number is an earlier one, or that it is the message the client waits
for. `AnswersOK` says that what has the shape of an answer repeats a message that was read: a
late or second answer has an old number and is passed over, and the accepted one is to the
call that was performed, or has the page that was asked for. `CallsOK` counts the call on
its way and the call performed together, `ReadyOK` keeps the notification in front of it in
the pipe, and `SessionOK` has the gateway accept both. For `ListIsWhole`, `Chained` and
`Counted` say that the pages so far are a chain with the totals counted, and `Agrees` that
every inventory the limits admit begins with them. This is why a limit is not reported in
error: an inventory that fits would go on with the page that was one too many
(`LongerBegins`). `ChildOK` gives `NothingAfterReturn`: a child is reaped or was never
started when the command is done.

*UpgradePlan.* `Walks` says that every path in the queue, and the one being continued, is a walk
from the source that ends in a version seen; `Frontier` that every version seen is in the queue's
ends, is being looked at, or has all its neighbours seen. When the queue is empty the versions
seen are closed, do not have the target, and are the witness.

`RouteShortest` is the argument for breadth-first search. `Layers`: the paths in the queue are
ordered by length and differ by one hop at most (`Ordered`); no walk to the end of a queued
path is shorter than the path (`Nearest`); and every version that some walk reaches in as many hops
as the present path has is seen (`Covered`). When the target is found it is by a hop from
the present path, and a shorter walk would have put it among the seen before.

Only model-checked:

- liveness (`LockReleased` twice, `LoginReturns`, `CommandEnds` twice, `SearchEnds`), which is
  out of the prover's reach;
- that the recursive functions `Rest` and `All` of `RegistryRun` solve the equations they are
  written by, an induction over data.

## Not modelled

- In the modelled parts: `.tmp` siblings (nobody reads them), journals of version 1 and the
  expiry of their backups, `env:` references and `--from-env`, malformed references, a save
  in `CredentialRotation` whose undoing fails in turn (`KeyringTxn` has it), the Windows
  replacement path, file permissions, the policy sidecar, `secret prune`, the
  advice of `recovery_action`, the dialogues that choose a login method and a workspace or
  offer to save the workspace password (`cmd/one_platform/auth.rs:731`), a workflow that
  names an action its registry does not have, redirects and cookies of the OTP transport (one request each), output schemas beyond
  their verdict, uploads and the commands built from several requests.
- MongoDB: query, doctor, inventory, status and restore are one external command each; the
  validation of templates and the rendering of the mongosh programs; two preview artifacts
  of one millisecond have one name, and the digest given with `--approve` then refuses the
  one that was replaced; a backup whose directory is gone.
- Server API: the seventy envelopes that are one request each, the transfer of ownership with its
  audit file, which no command calls, and a second process: the cache belongs to one.
- Upgrades: the text of plans, the order of the hops of a file, which decides between routes
  of one length, the checks of files on the host, and `apply`, which is a simulation.
- Server logs, SQL Server: single commands and the parsing of their output. Workflow files
  (`cloud_convert`), inventories, coverage tables, rendering, `main.rs`: conversions and dispatch,
  without state that lasts from one step to the next.
- Redaction, logging and the wording of envelopes.

## Plan

What could come next, in this order:

1. The login with a stored refresh token inside `CredentialRotation`.
2. Two profiles in `CredentialRotation` with the bindings of the code's own derivation.
3. The transfer of ownership of `ayx-server-api`, once a command calls it.
4. Proofs: the weaker promise a save keeps outside `Covered`, that no secret is lost without
   an error.
