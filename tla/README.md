# Formal models of OmniVault

TLA+ modules for the OmniVault daemon and its encrypted vault, model-checked
with TLC and, where it matters most, proved with TLAPS for every value of the
constants.

## The system and its parts

OmniVault is a command line tool, a daemon that holds the key of an encrypted
vault, and a Go library of vault providers with a resolver for secret
references.

| Component | State | Operations | Module |
|---|---|---|---|
| Cryptography (`internal/store/crypto.go`) | salt, key | DeriveKey, Encrypt, Decrypt, VerifyPassword | `VaultCrypto` |
| Encrypted store (`internal/store/encrypted.go`) | two files; key, metadata, map, dirty flag | Initialize, Unlock, Lock, Get, Set, Delete, ChangePassword | `EncryptedStore` |
| Daemon server (`internal/daemon/server.go`) | mutex, auto-lock timer | one handler per HTTP route, the timer callback, Shutdown | `DaemonServer`; exports and imports entry by entry in `BulkTransfer` |
| Daemon lifecycle (`cmd/omnivault/daemon.go`, `Run` and `Shutdown` of the server, `internal/config/paths.go`) | socket, PID file, processes | daemon start, stop, run | `DaemonLifecycle` |
| Client (`internal/client/client.go`) | none | one request per method | dialling and stopping in `DaemonLifecycle`, the rest in `CliCommands` |
| CLI commands (`cmd/omnivault/*.go`) | none | prompts around client calls | `CliCommands`; export and import in `BulkTransfer`, the expiry warning in `ExpiryWarning` |
| Configuration (`internal/config`) | a JSON file | load, save | loading in `ExpiryWarning`, paths in `DaemonLifecycle` |
| Expiry (`internal/expiry`) | none | Check, WriteWarning, FormatDuration | `ExpiryWarning` |
| Output (`internal/output`) | none | text, JSON, shell layout | not modelled |
| Resolver (`resolver.go`) | a map of vaults, a mutex | Register, Unregister, Resolve..., ResolveAll, ResolveMap, Close | `Resolver` |
| Registry (`registry.go`) | a map of factories, a mutex | RegisterFactory, GetFactory, New | not modelled |
| Root client (`client.go`, `providers.go`) | one provider | delegation | the clients in `Resolver` |
| Memory provider (`providers/memory`) | a map, a closed flag, the maps its secrets refer to | Get, Set, Delete, Clear, Close | `MemoryVault`, an implementation of `VaultMap` |
| File provider (`providers/file`) | none but its configuration; files and directories | New, Get, Set, Delete, Exists, List | `FileVault` |
| SQL provider (`providers/sqlstore`) | none but its key; one row per secret | New, Get, Set, Delete, Exists, List, Close | `SqlVault` |
| Environment provider (`providers/env`) | environment variables | Get, Set, Delete, Exists, List, Close | not modelled |
| Types and the interface (`vault/*.go`) | none | what a vault promises; SecretRef, fields | `VaultMap`; SecretRef and GetField in `Resolver` |

How they interact: a CLI command dials the socket and sends HTTP requests; each
request is a goroutine in the daemon, which takes `Server.mu` (for writing, or
for reading in listings, searches and exports), asks the store whether it is
unlocked, calls it, and resets the auto-lock timer. The timer's callback and
`Shutdown` call the store too. The store has a mutex of its own and writes two
files, the metadata (salt and verification blob) and the vault (ciphertexts).
The providers are used by programs that link the library: several goroutines
share one, and several processes may share a directory of files.

What is hard, and what correctness means there:

- *The store*: two files that must agree are written one after the other; a
  write may fail, be torn, or be the last thing the process does. Correct means:
  what decrypts is right, the vault opens with its password only, no
  acknowledged write is lost, a clean store is a saved one.
- *The server*: requests, timer callbacks and shutdowns interleave; some checks
  and the timer pointer are not protected by what protects the rest. Correct
  means: an unlocked vault never stays open for good, a handler that found the
  vault unlocked works on an unlocked vault, everybody gets an answer.
- *The lifecycle*: several processes share two files by name, check before they
  act, and may be killed. Correct means: one daemon, reachable, and stoppable.
- *Exports and imports*: one call to the store per secret, a shutdown that locks
  the vault between them, saves that fail, errors that are skipped over. Correct
  means: an export is one instant's vault, a merge overwrites nothing, what
  counts as imported stays in the vault and, until an entry fails, on disk.
- *The memory provider*: Go structs that share maps with their copies. Correct
  means: it is a map that only its own operations change.
- *The file provider*: no lock at all; truncating, writing, making and removing
  directories are separate steps. Correct means: what nobody else was changing
  is read and listed as it was left.
- *The SQL provider*: providers with different keys share a table, a database may
  take two spellings for one key, a statement may be run though its caller was
  told it failed. Correct means: what can be read was set under that very path
  with that key, and nothing acknowledged disappears.
- *The resolver*: the mutex protects the map, not the calls into the vaults in it,
  which change, fail and close meanwhile. Correct means: an answer is what a registered
  vault held, a failure has a reason, and a vault that hangs blocks nobody else.
- *The commands*: a command is two requests with a user typing between them, to a
  daemon that may lock, stop and restart at any time; answers are lost and
  requests outlive the commands that sent them. Correct means: what the user is
  told was so, what was refused never happens, a password is handed on by who
  knows it.
- *Expiry*: durations have an end, dates pass through exports, files and imports,
  fractions of a second and of a float64 are lost, settings may be useless. Correct
  means: the warning is right for the date the user gave, to the second.

## Modules

- `VaultCrypto`: symbolic cryptography. A key is a password and a salt, a
  ciphertext a key and a text; a ciphertext opens with its own key only.
- `EncryptedStore`: the store's fields are `meta`, `data`, `crypto`, `dirty`
  (`crypto = Nil` is the locked store), the files `metaFile` and `dataFile`.
  Each operation is one action up to its first file write and one action per
  write (`pc`): `ChangePassword`, `ChangePasswordSavesMeta`,
  `ChangePasswordSavesData`. `WriteFails` and `Crash` may replace any write.
  `UnlockRefused` and `UnlockLoadFails` are the two refusals that change
  memory. Any write that is interrupted may leave its file torn (`Torn`), a plain save
  of the vault file included; nothing of a torn file can be read, which is why the
  properties about what is on disk ask for whole files. The history variables `acked`, `tried`, `ackedPw`, `triedPw` record
  what callers were told; `cut` records that an update of both files stopped
  half way, until the files agree again.
- `VaultLock`: what one call into the store may do to `exists`, `unlocked` and
  `dirty`, one action per outcome. `VaultCalls` adds what the call that ended last
  answered: an outcome is open only to its own call with its own answer, and only the
  death of the process goes without one.
- `StoreCalls` adds to `EncryptedStore` the store as it was when its mutex was last
  free (`seen`) and what the call that ended then told its caller (`answer`), and
  shows that under this refinement mapping calls, failed ones and crashes are steps
  of `VaultCalls`. Calls that the store refuses before they change anything are not
  shown.
- `EncryptedStore_proofs`: its theorems, and that of `StoreCalls`.
- `DaemonServer`: one action per step of a request between calls into the store
  (`Begin`, `Act...`, `ResetStops`, `ResetArms`), `Expire` and `AutoLock` for
  the timers, and the four steps of `Shutdown`. The store is abstracted to
  `exists`, `unlocked`, `dirty`, and called by the actions of `VaultLock`. Searches
  and exports behave like listings here.
- `DaemonServer_proofs`: its theorems, and those of `DaemonLifecycle`, of which it
  contains an instance (`Life`) that shares nothing with the requests.
- `DaemonRequirements`: what users may rely on about daemons: the processes, the two
  files, and the properties about them. `DaemonLifecycle` extends it by how that comes
  about, `DaemonServer_proofs` by the proofs.
- `DaemonLifecycle`: one action per step of the commands and of a daemon's
  life. The socket and the PID file are the daemon they belong to. A daemon may
  run `Shutdown` twice at once: for a stop request and for `Run`.
- `BulkTransfer`: `handleExport` (and listings) and `handleImport`, one action
  per call to the store, with `cmdExport` and `cmdImport` around them. The store
  is `data`, `disk`, `unlocked`, `dirty`; a save that fails leaves the old file, the
  new one or a torn one, which `Unlock` cannot load; `writer` and `readers` hold
  `Server.mu`; `ShutdownLocks` does not take it. `call` is a request: its entries
  and outcomes, what it has read, the vault when it started (`start`) and whether
  a shutdown locked it since (`cutOff`), which are history.
- `VaultMap`: the abstract vault, a map that is empty and refuses everything once
  closed.
- `MemoryVault`: the provider's map and flag, the secrets callers hold, and the
  heap. A secret is two references, `fields` for the parts `copySecret`
  duplicates and `extra` for those it does not. The substitution of `Copied` maps
  the stored secrets to what can be read through `fields`.
- `FileVault`: the file system (`made`, `dirs`, `link`, `disk`, `insecure`) and the
  call each client is running. `Set` makes directories, opens (which truncates)
  and writes; `Get` opens and reads; `List` reads one directory per step. `settled`
  is history: what calls that overlapped with no other change left at each path.
- `SqlVault`: the table, the call each provider is making and the statements whose
  callers gave up (`late`). A row is the path and key it was sealed with, the
  `key_id` column and the value. `Send` (by `Set` or `Delete`), `Execute` and `Return`
  are a call, `Fail` its breaking off before or after `Execute`; `Get` and `List` are
  operators. `possible` is history: the rows callers may expect at each path.
- `Resolver`: `providers` under the mutex (`writer`, `readers`), the content of the
  vaults, and the call of each goroutine: `Take`, `RLock`, `LookUp`, `Get` for each
  reference, `Register` (and Unregister), `BeginClose`, `CloseOne`, `EndClose`.
  References are sequences of letters, taken apart as `SecretRef` does. The history
  variables `seenProviders` and `seenSecrets` keep what was registered since a call
  began, and what a vault held while the call was at it.
- `CliCommands`: a command is dialled, asks for the status, prompts, sends its own
  request and ends (`pc`); the daemon is `up`, `stopping` or `down`, its handlers
  are one action each, because `Server.mu` makes them so (their insides are in
  `DaemonServer`). `Lost` is a lost answer or the client's timeout; a request in
  `late` is handled though its command is over. `seen` is history: what was so while
  a command ran.
- `WarningRequirements`: what users see of expiry dates (the clock, the setting, the
  date they gave, what `get` prints) and what they may rely on. `ExpiryWarning` extends
  it by the ways of a date through imports, exports and restores and by the check,
  whose durations end at `MaxDuration` and wrap as Go's do. `Marshalled` drops the
  fraction of a second, as the store does with a date; `Blur` is what the float64 of
  `Hours()` may add to a duration before it is cut to days.
- `MemoryVault_proofs`, `FileVault_proofs`, `SqlVault_proofs`, `Resolver_proofs`,
  `BulkTransfer_proofs`, `CliCommands_proofs`: the theorems about these modules;
  `CliCommands_proofs` also has those about what `get` says of a date, with an instance
  of `ExpiryWarning` (`Warn`).
- `MC...`: the symmetry sets and kinds of request used by the runs.

In each module a few definitions are named as variations of the definition
after them (`FreshSaltZeroed`, `FreshSalt`). They are plausible mistakes, used
to confirm that each property notices one; no action uses them.

## Runs

| Run | Checks | Result |
|---|---|---|
| `MCEncryptedStore` | `ReadsAreRight`, `PasswordRight`, `NothingLost`, `CleanMeansSaved`, the inductive invariant `IndInv`, and `CallsAsPromised`: the calls implement `VaultCalls` | hold |
| `SecretsFollowPassword` | secrets stay readable after a password change, faults or not | violated |
| `MCDaemonServer` | `UnlockedIsGuarded`, `CheckedStaysUnlocked`, `MutexComesBack`, `ServerInv` | hold |
| `DaemonLiveness` | `Answered`, `EventuallyLocked` | hold |
| `MCDaemonLifecycle` | `OrderlyOneDaemon`, `OrderlyReachable`, `OrderlyStarts` | hold |
| `MCBulkTransfer` | `TypeOK`, `ExportIsSnapshot`, `MergeKeeps`, `ImportedIsSaved` | hold |
| `MCMemoryVault` | `Separate`, and `IsAMap`: the provider implements `VaultMap` | hold |
| `MCFileVault` | `TypeOK`, `SettledOnDisk`, `SettledReads`, `ListIsComplete` | hold |
| `MCSqlVault` | `TypeOK`, `ReadsAreRight`, `NothingLost`, `ListIsComplete` | hold |
| `MCResolver` | `MutexInv`, `AnswersAreRight`, `FailuresAreReal`, `MutexIsGranted` | hold |
| `MCCliCommands` | `TypeOK`, `SuccessIsTrue`, `FailureIsTrue`, `DefiniteFailures`, `PasswordIsHandedOn` | hold |
| `MCExpiryWarning` | `WarningsAreRight`, `NeverBack` | hold |

The violated run states what a document of the repository says; the disagreement
is listed under `findings` in `PROJECT.json`. Where a type invariant is not named,
it is a conjunct of `IndInv`, `ServerInv` or `MutexInv`, or proved
(`MemoryVault`, `DaemonLifecycle`); `ExpiryWarning` has none.

What some of these show, in words:

- `CallsAsPromised`: what a call tells its caller and what it leaves go together,
  whatever failed inside it: a `Lock` that reports an error has kept the key and the
  unsaved changes, a password change that does has neither locked the vault nor
  touched the dirty flag, a change that does is there to be saved; one that reports
  success has done it; nothing, a crash included, removes a vault.
- `MCSqlVault`: a `Get` answers only what was set under that very path with that
  key, with the `key_id` of that key, although providers overwrite each other's
  rows and a database may fold two paths into one; what cannot be read was
  deleted or overwritten by somebody.
- `MCResolver`: an answer is what a vault that was registered during the call held
  while the call was at it; a failure has a reason, be it an error of the vault;
  `Close` leaves none open; a vault that never answers keeps nobody else from the
  mutex.
- `MCCliCommands`: a command's report, good or bad, was so at some time while it
  ran; one that reports a refusal has changed nothing and never will, even if
  a request of it is handled late; of two `init`s one makes the vault, whose
  password then changes only for a user who gave the old one.
- `MCExpiryWarning`: with a positive setting, or no configuration file, the status and
  the rounded time a `get` prints are right for the date the user gave, or for an
  instant less than a second before it, but for the rounding of floating-point days.
  With whatever setting they never go back as time goes by, even when durations overflow.

Behaviours of the code that the models contain and that have no run of their own:

- After a password change whose data write failed, `dirty` is still false, so a
  Lock drops the re-encrypted map without saving it (`CleanMeansSaved` excepts
  cut updates of both files).
- An initialisation or a password change that tears the metadata file leaves a vault
  that `Initialize` refuses, because there is a file, and `Unlock` too, because it
  cannot be parsed (encrypted.go:63, 124); the properties ask for files that can be read.
- An auto-lock or a lock request whose save fails leaves the vault unlocked without a
  timer, and so does a failed `init` (the exception `lockFailed` in
  `UnlockedIsGuarded`).
- Unlocking an unlocked vault resets the timer, which `docs/cli/daemon.md` denies.
- Two concurrent listings, which hold the mutex for reading, may both replace
  `autoLockTimer`; the timer of one stays armed though nothing points to it.
- A timer that expired while a handler held the mutex locks the vault right after
  that handler has reset it.
- `daemon run` beside a serving daemon removes its socket, and both serve.
- An unlock handled during `Shutdown` (which locks the store first and closes the
  listener afterwards, server.go:142) leaves the vault unlocked until the process
  exits; `README.md:546` says it is locked on shutdown. A password change handled
  then may find its key gone after its check and panic (server.go:330,
  encrypted.go:431).
- Two starts at once that both find no daemon leave one that neither the socket
  nor the PID file leads to.
- `copySecret` shares `Metadata.Extra` and the timestamps with the original
  (memory.go:173 says it is a deep copy).
- Setting a secret that exists builds it anew, without its expiry date.
- `docs/cli/configuration.md:108` says that `expiry_warning_days` 0 warns only of
  expired secrets; every setting below one means 30. `docs/cli/configuration.md:152`
  says that invalid JSON is an error; a `get` takes the default in place of a file it
  cannot read or parse, and the choice of an output format, the only other reader
  (output.go:43), ignores the error too.
- So many warning days that a duration cannot hold them overflow and may warn of
  nothing, and a secret that expired longer ago than a duration holds did so "less than
  a minute" ago.
- A date loses its fraction of a second on its way into the vault, so that a secret
  expires up to a second early; from about 171 days on, a duration that is less than a
  microsecond short of a whole number of days is given as that number.
- A password change confirmed through a pipe fails: each prompt's reader buffers
  what is there and drops it (init.go:210).
- Names pass into the URL as they are, so that one with `?`, `#` or `..` may stand
  for another path: a command reports on the path its request reached.
- A listing during a stop may be partial and still report success.
- `IsSecretRef` says yes to `localhost:5432`, so that `ResolveMap` fails on such
  values, which its comment (resolver.go:162) says pass through, or looks them up if a
  vault has such a scheme (`FailuresAreReal` excepts them). In a reference with two
  `#` the path ends at the first and the fragment begins after the last. A vault that
  another replaces in the resolver is never closed.
- LIKE takes `_` and `%` of a prefix for wildcards, so that SQL listings may show
  more than they should; they show less on PostgreSQL and MySQL, where a backslash in
  the prefix is an escape: a listing under a prefix with one misses secrets that can be
  read (`ListIsComplete` excepts it), though `vault/interface.go:45` says that all paths
  with the prefix are listed. Where MySQL folds case, a secret set under another spelling
  replaces the row, which is then listed under the old spelling and opens under the
  new one only. A statement may be run after its caller was told that it failed.
- An export that a shutdown interrupts answers with success and part of the vault
  (`ExportIsSnapshot` excepts it with `cutOff`); an entry whose import failed
  stays in memory and is saved by the next save. If its save tore the vault file,
  entries the import has counted as imported are in memory only until another save
  works, and are lost if the process dies before.
- A `Get` of the file provider during a `Set` may answer with an empty or partial
  secret, and after a crash it keeps doing so; without an extension, `Exists`
  answers yes for a directory that a deleted secret left behind.

### Bounds, and why they are enough

- *Store*: two paths (one changed, one that must not change), two values (the
  old and the new), two passwords, `MaxSalts = 4` (an initialisation and three
  password changes, or several initialisations after lost metadata),
  `MaxFaults = 3` (a cut update, a second fault during what follows, and a crash
  in between). `Paths`, `Values` and `Passwords` are symmetric. Every other
  variable is bounded by these. `TornWrites = TRUE` also covers writes that are
  atomic.
- *Server*: four requests of every kind. Two readers and the request that
  unlocks are what the timer races need; the fourth lets a lock, stop or change
  interfere. Each request starts at most one timer. The liveness run has three
  requests, kinds that cover every way to end, and no symmetry.
- *Lifecycle*: four commands, one killed daemon. The races need two commands; a
  third and fourth meet what the first two leave behind.
- *Exports and imports*: two requests, two paths and secrets, imports of up to
  three entries (one path twice, with another in between), one failing save or load.
- *Memory provider*: two paths, two callers' secrets, two contents. Four slots
  and five references let every copy find a free one while callers mutate.
- *File provider*: two clients, of which one accepts insecure files, a path `a`
  and a path `a/b` inside it, two secrets, one write that stops half way or
  client that dies. The races need two clients, one in each of two calls; four
  files can exist at once, with names or still open without one.

- *SQL provider*: two providers with a key each and one that only reads, two paths
  that differ in case and hold a wildcard and a backslash, one fault (a broken call,
  whose statement may be run late). Two writers and one late statement are all that
  can meet at a row.
- *Resolver*: one goroutine that resolves and one that registers and closes, a
  vault that forgets on Close and one that may never answer, two schemes, a path
  that contains `://`; calls for a field and a plain text, for the value by its name, and
  for a plain text that looks like a reference; one change of a vault, an outage
  included. A reference is resolved on its own, so what disturbs it is a change before,
  at or after its look-up.
- *Commands*: two commands of any kind at once, three passwords (one too short),
  two names for one path, two values; the daemon may stop, be killed and start
  again without limit. A command has at most two requests, and what comes between
  them is what one other command or the daemon does. The disk works: what happens
  when it does not is in `EncryptedStore`.
- *Expiry*: eighteen instants go by, a day is two hours of two minutes of two seconds
  of two instants, a duration has eight bits, and some long ones are rounded up by one
  instant; dates lie on either side of every boundary and beyond what a duration
  holds, with and without a fraction of a second; settings are useless, useful and
  overlong, the file absent or broken.

The runs with `CHECK_DEADLOCK FALSE` end when all commands or requests are used
up. The server states its own end as `Quiet` and the other systems never stop,
so their runs check deadlock.

### Fairness

`DaemonLiveness` assumes weak fairness of each request's handler, each
timer and its callback, each `Shutdown`, and `Run` once the listener is closed.
The Go scheduler runs every goroutine, `sync.RWMutex` does not starve a waiting
writer, timers fire, and an import has finitely many entries. Arrivals and
signals have no fairness: nobody has to send anything. In that run no file write
fails, because a failed save during an auto-lock does leave the vault open.

`MutexIsGranted` assumes weak fairness of what a goroutine does on its own, of `Get`
for vaults that are not slow, and strong fairness of taking the mutex:
`sync.RWMutex` keeps new readers out while a writer waits and lets the readers
that waited go first when it is done, so whoever waits is served. A slow vault's
`Get` has no fairness, which is the point.

## Proofs

All proofs are checked by TLAPS to the last leaf and hold for every number of
paths, values, passwords, salts, faults, requests, commands, clients, providers,
goroutines, vaults and references. They assume the named `ASSUME`s, which TLC
evaluates in the runs:

- the sentinels (`Nil`, `Absent`, `Torn`, `None`, the answers that stand for an
  error) are not values, files or requests, paths are not callers' hands, no secret
  is the text of the verification blob, bounds are natural numbers and switches
  Booleans;
- `SqlVault`: paths and prefixes are sequences of letters that `Lower` knows;
- `FileVault`: from every directory that a path goes through it goes on, to itself or
  to the next directory (`PathsGoOn`);
- `Resolver`: schemes are single letters other than the separators, paths, fields and
  plain texts are sequences of letters, `#` occurs in no path and no field, a plain text
  is not made as references are, though it may look so to `IsSecretRef`, and vaults keep
  nothing under it (`PlainTexts`);
- `ExpiryWarning`: instants and settings are integers, a second, a minute, an hour, a day
  and the longest duration are positive, and so is the default number of days; `Slack`
  is a natural number and `Blur` adds at most that to any duration. That an hour is so
  many minutes is not needed. (For Go's float64 `Blur` is zero up to about 171 days and
  less than a microsecond, `Slack`, above; hours and minutes are printed only of shorter
  durations, where the float64 and the exact quotient are cut to the same number.)

| Theorem | States |
|---|---|
| `EncryptedStore_proofs!TypeCorrect` | `TypeOK` |
| `!Inductive`, `!SavedInductive` | `IndInv`, `SavedInv` |
| `!ReadsCorrect` | `ReadsAreRight` |
| `!PasswordCorrect` | `PasswordRight` |
| `!NothingLostCorrect` | `NothingLost`, which excepts cut updates of both files and torn files |
| `!CleanCorrect` | `CleanMeansSaved` |
| `!CallsKeepPromise` | `CallsAsPromised`: the store's calls implement `VaultCalls` |
| `DaemonServer_proofs!TypeCorrect`, `!Inductive` | `TypeOK`, `ServerInv` |
| `!Guarded` | `UnlockedIsGuarded` |
| `!CheckHolds` | `CheckedStaysUnlocked` |
| `!MutexReturns` | `MutexComesBack` |
| `!LifeTypeCorrect`, `!LifeInductive` | `DaemonLifecycle`'s `TypeOK`, and `LifeInv` |
| `!OneDaemonAtATime` | `OrderlyOneDaemon` |
| `!ServingIsReachable`, `!StartSucceeds` | `OrderlyReachable`, `OrderlyStarts` |
| `MemoryVault_proofs!TypeCorrect`, `!SeparateCorrect` | `TypeOK`, `Separate` |
| `!Implements` | `IsAMap`: `MemoryVault` implements `VaultMap` |
| `FileVault_proofs!TypeCorrect` | `TypeOK` |
| `!OnDiskCorrect`, `!ReadsCorrect` | `SettledOnDisk`, `SettledReads` |
| `!ListsComplete` | `ListIsComplete` |
| `SqlVault_proofs!TypeCorrect` | `TypeOK`, which includes the primary key |
| `!ReadsCorrect`, `!WritesStay` | `ReadsAreRight`, `NothingLost` |
| `!ListsComplete` | `ListIsComplete` |
| `Resolver_proofs!MutexCorrect` | `MutexInv` |
| `!AnswersCorrect`, `!FailuresCorrect` | `AnswersAreRight`, `FailuresAreReal` |
| `BulkTransfer_proofs!TypeCorrect` | `TypeOK` |
| `!ExportCorrect` | `ExportIsSnapshot` |
| `!MergeCorrect`, `!ImportCorrect` | `MergeKeeps`, `ImportedIsSaved` |
| `CliCommands_proofs!TypeCorrect` | `TypeOK` |
| `!FailuresLeaveNothing` | `DefiniteFailures` |
| `!PasswordHandedOn` | `PasswordIsHandedOn` |
| `!SuccessTrue`, `!FailureTrue` | `SuccessIsTrue`, `FailureIsTrue` |
| `!WarnInductive` | `WarnInv` of `ExpiryWarning` |
| `!WarningsCorrect`, `!WarningsAdvance` | `WarningsAreRight`, `NeverBack` |

The theorems about `DaemonLifecycle` assume only that `None` is no command. The last
six modules also have a theorem for the inductive invariant itself
(`Inductive`; in `CliCommands_proofs` the lemmas `InvNext` and `FullInvNext`), and
TLC has checked each of these invariants on the module's run before it was proved.

*Why reads are right.* `ReadsAreRight` is not inductive: entries of an earlier
vault or password may linger in a file, and a step could make them readable. The
invariant `IndInv` adds that every salt in use is smaller than the next one
drawn (`SaltsFresh`), and that an entry is right if its salt is *live*, that is,
the salt of the metadata file or of the key in memory (`EntriesRight`). Most
steps make no salt live and only move maps between memory and disk; the lemmas
`MovesKeep` and `MovingSteps` treat them together. The rest (`Initialize`,
`Change`, `ChangeSaved`, `ChangePassword`) have a lemma each.

*Why nothing is lost.* `SavedInv`, preserved on top of `IndInv`, says that a
missing entry is one that may be missing, and that outside a cut update memory
opens with the key in memory, the disk with the key on disk, and the two keys
are one; and that what is clean is saved.

*Why the vault does not stay open.* `ServerInv` says that `Server.mu` is held by
exactly the requests inside a handler, and that an unlocked vault without a live
timer has a handler on its way to start one (`ResetComing`). On top of it
`CheckedExists` says that what an init or an unlock has seen of the vault file stays so,
because only writers make a vault; hence whoever holds the mutex can take its next step
(`MutexComesBack`), which is the part of `Answered` that needs no fairness.

*Why daemons that come and go in order do not meet.* The three orderly properties
need each other: a start looks at the socket, so that it is right only if the
socket is that of the daemon that serves; the socket is its own only if
no other daemon removed it; and no other did because there is one at most. `LifeInv`
says so, together with what keeps it true between steps: one command is at work, and
meanwhile the daemon, if there is one, serves (`OneCommand`); a command about to start
or to signal has seen that there is none; a daemon about to listen finds no
socket (`OwnFiles`). A daemon that starts or leaves is therefore on its own (`OnItsOwn`),
so that `Shutdown`, run once or twice, removes nobody else's files
(`LeavingDisturbsNobody`). In an orderly life the PID file is never followed to a
process: a stop that gets no answer finds nobody to signal.

*Why the memory provider is a map.* With the types, `Separate` is inductive: every
operation changes one slot or empties some (`OneChanges`, `NoneChanges`), and a
copy shares only a fresh reference (`FreshReached`, `CopySeparate`). A caller can
then reach nothing that a stored secret shows, so that its steps are stutters of
`VaultMap`, and `Set`, `Delete`, `Clear` and `Close` map to their namesakes.

*Why calls keep their promise.* `StoreCalls` shows `VaultCalls` the store as it was
when its mutex was last free, and the answer given then, so that a call is one step however many writes it
takes. `CallInv` says what that old state and the present one have in common at each
point of a call: an initialisation has seen no vault, a password change a vault that
is open, a save one that is dirty. Each return and failure is then the
outcome that `VaultCalls` has for the call with that answer, a crash its `Dies`; `WritesKeepVault` says that a metadata file, once there,
stays.

*Why the file provider keeps what is settled.* There is no lock to argue with. The
invariant says that names never share a file, that a writer's file has at most the
name of the writer's path, and that a call which overlapped no change of its path is
the only one that may change it, has the file that bears its name, and has found it
empty (`AloneOn`). What is settled is on disk as long as nobody has begun to
write (`UnwrittenOnDisk`): a call that gives up before it opens the file
has changed nothing. A listing still has a directory to read on the way to each
file it must show (`Listed`), because a directory with files in it cannot be removed.

*Why the SQL provider answers rightly.* The argument is about names of the database,
which partition the paths (`SameNameIsEquivalence`). What is held under a name, and
what a statement under way or left behind may put there, is always among the rows
possible there (`HeldIsPossible`, `SentIsPossible`); a call that no other met
has the last word (`AloneIsLast`), so that its row may become the only
possible one. A row opens for the path and key it was sealed with and for no other.
For listings the proof lays a path out over the pattern: its first letters over those
of the prefix, wildcards or not, the rest over the `%` (`LikeFindsName`).

*Why the resolver answers rightly.* The mutex part is inductive alone: a `Close`
excludes look-ups and registrations. A resolution has every text it was asked for
still to do, at hand, or rightly answered (`Accounted`, `Answering`); what it has seen
is never forgotten, so what was right stays right. That `Scheme`, `Path` and `Fragment`
recover from a reference what `Text` put into it is a matter of sequences
(`SchemeOfText`, `PathOfText`, `FragmentOfText`): the first `://` is the separator
even if the path contains another, and without `#` in paths and fields the first `#`
is the last.

*Why transfers are right.* The mutex keeps everybody but `Shutdown` from the vault a
handler works on, and `Shutdown` can only lock it. A reader finds what it started with
or a locked vault (`Undisturbed`); what a merge found absent is absent when
it is stored (`Merging`). What counts as imported is in the vault, and nothing is left
to save until an entry fails (`Saving`); what is not dirty is in the file
(`CleanIsSaved`). After a failed save the vault is dirty, so that a shutdown locks it
only once a save has put everything into the file.

*Why reports are true.* `Formed` says what is known of a request by how far it is,
also of one handled late. A running command has seen every fact since it began
(`Watched`), and an answer on its way agrees with one of them (`AnswerRight`), so
that it may reach the command at any later time. A command has changed the vault only
if its answer says so or was lost (`ActedFormed`).

*Why warnings are right.* `WarnInv` says that a secret's date is the one its user gave
last, less its fraction of a second (`MarshalledIs`: dropping it twice is dropping it
once), also after an export and a restore, that a get has printed what another would
print now (`Present`), and that what the last one said was not worse. The rest is
arithmetic: `Sub` is exact where it does not stop at an end of the durations, and
ordered everywhere (`SubIs`); the product of days and hours is exact as long as it is a
duration (`WrappedIs`); only the shortest duration has no opposite (`NegatedIs`), and an
error of `FormatDuration` there is one of a length that no duration can say; the
quotient by the largest unit that fits is the length, with the `Slack` of the division by
days, cut to that unit (`QuotientIs`, `FormatIs`).
`NeverBack` needs none of the exactness: with the setting left alone, even a wrapped
period is one number, and the distance to the date only shrinks (`TickWarns`). The
attempt to prove `WarningsAreRight` for a promised period of exactly `MaxDuration`
failed for a reason: every date further off than that is `MaxDuration` away for `Sub`,
and its secret would be warned about too early. No run had an instance of it, and the
code has none, as the longest `time.Duration` is no whole number of days; the property
leaves it out.

Only model-checked: the liveness properties `Answered`, `EventuallyLocked` and
`MutexIsGranted` (fairness and `ENABLED` are beyond the provers). Everything else that
a run checks is proved. Induction over data and recursive operators are out of the
provers' reach as well; no module uses them.

## Not modelled

- Nonces, key zeroing, and the strength of Argon2 and AES-GCM.
- Malformed requests and wrong methods, which are refused before anything
  happens; the matching of searches; the tags and fields of secrets.
- Windows (TCP instead of the socket) and the reuse of process IDs.
- Rejected paths, symbolic links and foreign files of the file provider; `Set` of
  a nil secret in the memory provider, which panics; checks of the configuration
  of the SQL provider.
- Binary values in the resolver: `Reveal` prefers them to the text, `GetField` of
  `value` does not look at them.
- `ParseFlags`, the dispatch in `main` and the choice of an output format: functions
  of the arguments alone. Output (`internal/output`) is layout.
- `Config` beyond the expiry setting: nothing reads `auto_lock_timeout` or
  `default_tags` outside the tests.
- The registry: a map under a mutex held for one look-up or one assignment; the
  resolver's map, which is modelled, has the same shape and more operations.
- The environment provider: each operation is one system call on the process's
  environment.
- `NewClient`'s choice of a provider, and the example provider.

## Plan

1. Done: `VaultCrypto`, `EncryptedStore`, `VaultLock`, `VaultCalls`, `StoreCalls`, `DaemonServer`,
   `DaemonRequirements`, `DaemonLifecycle`, `BulkTransfer`, `VaultMap`, `MemoryVault`, `FileVault`,
   `SqlVault`, `Resolver`, `CliCommands`, `WarningRequirements`,
   `ExpiryWarning`.
2. Done: proofs of every property that is not liveness.
3. Not planned: an abstract store with values and passwords that `EncryptedStore`
   implements. Its promise would be `ReadsAreRight`, `PasswordRight` and
   `NothingLost`, which are stated and proved directly.
