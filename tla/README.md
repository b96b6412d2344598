# cuki: a verification development

cuki stores secrets and configuration values per environment and hands them, sealed to a
service's public key, to services that prove who they are. These TLA+ modules model its
server, its client SDK, its dashboard and the processes around them (boot, migration, master key rotation);
TLC checks them on small instances and TLAPS proves the safety properties of every module that
has several actors, and the refinement, for every instance.

All paths below are relative to the repository; `src/` alone is its TypeScript source.

## 1. The system

| Part | State it keeps | Operations | What makes it correct |
|---|---|---|---|
| Service authentication (`domain/token.service.ts`, `repo/authstate.repo.ts`) | tables `challenges`, `access_tokens` | issue a challenge; verify a signature, spend the challenge, insert a token; resolve a bearer | one token a challenge; a request that comes after a revocation or rotation is judged by it; a removed grant is out of reach within one token lifetime and the latency of the scope's snapshot |
| Secret retrieval (`http/handlers/retrieval.ts`) | none; reads tokens, grants, keys, writes audit rows | read one secret or all in scope | only the scope is read; sealed to the keypair that counts |
| Service registry and grants (`domain/service-registry.ts`) | tables `services`, `grants` | create, rotate, revoke, delete; add and delete grants | a grant never crosses environments |
| Sweeper (`domain/sweeper.ts`) | none | delete expired challenges, tokens, sessions, for ever | everything expired goes, nothing else |
| Keys and versions (`domain/key.service.ts`, `repo/key.repo.ts`) | tables `keys`, `key_versions` | create, set, roll back, delete | a history that only grows, and a pointer into it |
| Master key: provider, bootstrap, rotation (`crypto/kek.ts`, `crypto/bootstrap.ts`, `app.ts`) | table `kek_versions`; each instance's key and old key, in memory | boot, seed, `cuki kek rotate` | every wrap names the key that made it |
| Rate limiter (`domain/ratelimit.ts`, `util/ratelimit-core.ts`) | windows and locks in an instance's memory | guard, record failure or success, sweep | bounded bursts, backoff honoured, bounded memory |
| Accounts (`domain/auth.service.ts`, `repo/account.repo.ts`, member handlers of `http/handlers/management.ts`) | `users`, `organizations`, `memberships`, `sessions` | register, log in, found, add, re-role, remove | only admins of the organization change its members; an owner remains |
| Hierarchy (`domain/management.service.ts`, `repo/hierarchy.repo.ts`) | `projects`, `environments` and what is below | create, delete (cascades), set, grant | tenants stay apart; protected environments are guarded |
| Audit log (`domain/audit.service.ts`, `repo/audit.repo.ts`) | `audit_logs` | append, page through | a walk is exact |
| Client SDK (`client/sdk.ts`) | one cached token, shared by all calls | get one, get all; authenticate, retry once | the cache never decides a failure; every call ends |
| Migrator (`db/migrator.ts`) | `_cuki_migrations` and the schema | apply what is not recorded | what exists is what is recorded |
| Allowlist (`util/cidr.ts`) | none | parse, match | exactly the addresses whose bits match |
| Sessions and the CSRF gate (`domain/auth.service.ts`, `http/server.ts`, `http/handlers/auth.ts`) | table `sessions`; two cookies in the browser | issue, validate, expire, log out; compare header and cookie | the dashboard's own requests pass, other pages' do not |
| Dashboard (`web/src/App.tsx`, `ui.tsx`, `views/`) | who is signed in; the open view's rows, spinner, dialog, revealed value and its timer | sign in and out; load, write, reload; mint; reveal, hide | late answers change nothing, a revealed value goes |
| Configuration (`config.ts`) | none, read at boot | parse an address, a duration | read as it was meant |
| Generated code, static files, charts | | | not modelled, section 7 |

How they interact. Server instances are stateless but for the rate limiter and the master keys
they were started with; everything else is in one Postgres database, and **an instance sends
one SQL statement at a time, outside any transaction** except where the code opens one (a
key with its first version, an organization with its owner, a version with its pointer, a
rotation, a migration). So any two requests, on one instance or two, interleave between any two
statements, and a value read by one statement may be stale when a later one uses it. The
unique indexes, foreign keys with cascades and the conditions in the `WHERE` of an `UPDATE` are
what the code relies on. A statement may fail or its reply be lost; a handler may be cut short
by a disconnect or a crash. Most of the hard behaviour of the program is there; the rest is in
the clocks (expiry, windows, backoff), in the single mutable field the SDK's calls share, in
a dashboard whose requests are answered in any order while its tabs share cookies, and
in processes that boot, rotate and migrate against each other. `PROJECT.json` lists each such
place under "hazards", with the properties that guard it.

## 2. The modules

One module a component, one action a statement (or a handler that has only one). What a
handler computes in memory after a reply belongs to the action of the statement it follows, except where it
reads the clock for an expiry (`ChallengeDraw`, `TokenIssue` in `ServiceAuth`): the reply takes its time, and
what the statement read may have changed by then.
`req[r].pc` names the statement a request has to do next; the other fields of `req[r]` are
the handler's locals. Database rows are functions from ids; an id is `unborn`, in its table, or
`gone`, and never comes back (ULIDs). History variables are marked in each module and read by
no action.

| Module | Models | Correspondence |
|---|---|---|
| `ServiceAuth` | challenge, token, retrieval, and as their rivals registry, grants, key deletion and sweeper | `ChallengeBegin .. ChallengeStore` = `issueChallenge`; `TokenBegin .. TokenInsert` = `verifyAndIssue`, with the scope's snapshot (`TokenScope`) and the start of the token's lifetime (`TokenIssue`) apart; `ReadBegin .. Deliver` = `resolve`, `readForService`, `record`; `Revoke` and `RevokeTokens` are `revoke()`'s two statements |
| `Vault` | keys, versions, master key registry, booting instances, rotation | `BootRead`, `BootSeed`, `BootMatch` = `bootstrapKek`; `SetFind`, `SetMax`, `SetAdd` = `setValue`; `RollbackFind`, `RollbackPoint` = `rollback`; `RotateBegin .. RotateCommit` = `kekRotateProgram`, whose transaction is one step |
| `VersionedStore` | what `Vault` promises of a key's values | abstract: write, roll back, delete, one step each |
| `RateLimit` | the limiter of one instance | `Guard` = `hitWindow` and `checkLock` over the keys of a request, in order; `Fail`, `Succeed`, `End` = the outcome, statements later |
| `Client` | the SDK | one action for what runs between two `await`s; the server is its answers |
| `Members` | users, sessions, organizations, memberships | `Arrive` = admission with the session's roles; `Target`, `Count`, `Write` = the statements of `updateMember` and `removeMember` |
| `Hierarchy` | projects, environments, keys, services, grants | `Resolve` = the joins that find the owning organization, and `authorize`; `CheckKeys`, `ReadExisting`, `InsertGrants` = `addGrants` |
| `AuditLog` | appending and keyset pagination | `Record` draws the id, `Append` inserts; `ReadPage` = `query` |
| `Migrator` | instances booting | `CreateTagTable`, `ReadTags`, `Skip`, `Begin`, `Commit` = `runMigrations` |
| `Cidr` | `ipInCidrs` | one entry of the list a step; the parsers are operators |
| `Sessions` | session rows, the browser's cookies, the gate and the session check | `StartSession` = `createSession`, `CookiesOf` = `startSession`, `Valid` = `validateSession`, `GateOpen` = the CSRF condition of `withExtras`; logging out clears the cookies and leaves the row, as the handler does |
| `Dashboard` | one tab of the dashboard over `Sessions` | `Fetch` reads the header, `Attach` attaches the cookies, `Refuse` and `Handle...` are the server, `Receive...` what follows the `await`; `Loaded`, `Alive`, `Reload` = `useAsync`; `ReceiveReveal`, `Hide`, `TimerFires` = `doReveal` and its timer; `Unmounted` = what React forgets with a component |
| `Settings` | how `config.ts` reads texts | `ParseAddr` = `parseAddr`, an address being the parts between its colons; `ParseCompactDuration` |
| `ServiceAuth_proofs`, `Vault_proofs`, `Client_proofs`, `Members_proofs`, `Hierarchy_proofs`, `Dashboard_proofs` | theorems about the module of the name | section 5 |
| `Guards_proofs` | theorems about `RateLimit`, `Cidr` and `Settings` | section 5 |
| `Records_proofs` | theorems about `Migrator` and `AuditLog` | section 5 |
| `MC...` | instances for TLC | symmetry sets and inputs |

The modules meet in the database. Each takes what the others do to its tables as actions of
its own (`ServiceAuth` has key deletion, `Vault` has no grants, `Client` has the server as the
set of its possible answers), so no module trusts another's properties. Two are composed:
`Dashboard` extends `Sessions`, whose gate and rows judge every request the tab, another tab
or another page sends, and `Vault` implements `VersionedStore`.

Data that no property tells apart is abstract: a signature is the keypair that made it, a
ciphertext the pair of the master key and the plaintext, a ULID an id, an IPv6 address a few groups of a few bits.

## 3. The runs

Every property of a passing run has a mutant: an operator next to the definition it replaces
(`...Twice`, `...Early`, ...) that changes the code the way a plausible bug would, and that
TLC finds violating the property under the same configuration.

| Run | Question | Bounds, and why they are enough |
|---|---|---|
| `auth_race` | `SingleUse`, `RevocationHonoured`, `RotationHonoured`: two requests race with management, sweeps and failing statements | 1 challenge and 2 tokens let one challenge yield two; 2 keypairs let a rotation separate them; lifetimes of 1 tick let everything expire. The theorems hold for any bounds |
| `auth_life` | `GrantLapseBounded`, `TokenLivesOutItsTTL`, `ExpiredSwept` | tokens live 2 ticks of 4, so a grant can lapse while the snapshot that still holds it is under way, and early, at the edge and late in a token's life. One service: the claim about other services' tokens is proved (`TokensEndForAReason`). No symmetry, as `ExpiredSwept` is a liveness property |
| `vault_rotation` | `WrapsMatchRegistry`, `LastIsActive`, `ServersMatchRegistry`, `ImplementsStore` | 2 instances, 2 master keys (right, wrong, new, old), 2 writers, 1 rotation, 2 versions of either kind: the second write collides, the rotation overtakes an instance. Two rotations that race are covered by the theorems |
| `rate_guard` | `BurstBounded`, `WindowsSwept`, `BackoffHonoured` | limit 2 and window 2 over 6 ticks hold three consecutive windows; two in flight let an outcome arrive while a lock is on; 2 failures reach the doubling and its cap. The clock ends, so deadlock is not checked |
| `client_calls` | `CacheNeverTheLastWord`, `SkewCovers`, `CallsGetOn` | 2 calls, 2 tokens of 3 ticks, margin 2, clocks 1 apart: the cache can hold a token that expires, is refused, is replaced by an older one. Time is what is left of each token's life, so it needs no bound |
| `members_race` | `ChangesAuthorized` | 2 users, 2 organizations, 2 requests: paths and rows of different organizations, roles lost while in flight |
| `members_last_owner` | `OwnerRemains`: **violated**, section 6 | 2 owners, 2 requests |
| `hierarchy` | `TenantsApart`, `ProtectedKeysGuarded`, `GrantsWithinEnvironment`, no row outlives its parent (in `TypeOK`) | 2 projects of 2 organizations, 2 environments, and a key, a service and 2 grants that may be of either; 2 requests, each of a member or an owner of one of the organizations. So requests of two tenants, and of an owner and a member of one, interleave at every statement, each names any row of either tenant, and check and insert of a grant are separated by deletions and by a second grant of the same key. An owner stands for an admin too: no property tells them apart. Several keys in one grant are the theorem's |
| `audit_pages` | `WalkExact`, `NothingSkipped` | 2 writers, 4 ids in 2 milliseconds, pages of 0, 1, 2: late and out of order rows on either side of a cursor |
| `migrate_boot` | `SchemaRecorded`, `ServesMigrated`, `AllServe` | 3 instances of releases with 0 to 2 migrations, 2 stops at any step. Instances that serve and stay up are the end, so deadlock is not checked |
| `dashboard` | `ShowsTheLatest`, `RevealLasts`, `GateExact`, no spinner turns for ever (in `TypeOK`) | 2 requests in flight (the second overtakes the first), 2 sessions (the header of one, the cookies of the other), 2 subjects (a view of one, an answer of the other), one write, by anyone (the rows before it and after it); a session and a reveal last one tick |
| `inputs` | `ParsesTheAddress`, `AllowedExactly`; `ReadsAsWritten` | IPv6 addresses of 4 groups of 2 bits, IPv4 of 4 parts of 1 bit: every place of `::`, fields out of range; prefixes of none, around the boundary of a part or a group, of the full width and one beyond (every prefix length is the theorem's). Hosts of one part, or of 3 (IPv6) from words, numbers and nothing, with and without port and brackets; every unit. An answer is the end, so deadlock is not checked |

`TypeOK` of each module (`LogTypeOK` of `AuditLog`) is an invariant of one run.

## 4. Fairness

Two runs check liveness, under no more than the code does.

- `ServiceAuth!FairSpec`: each of the two sweep statements is repeated for ever
  (`domain/sweeper.ts:10-23` repeats on a schedule and catches its errors). A statement that
  fails is a step that changes nothing; weak fairness says it does not fail for ever. Nothing
  is assumed of requests.
- `Migrator!FairSpec`: an instance that can go on does, and one that is down or died is started
  again (the orchestrator that runs the container, external). `MaxStops` bounds how often it
  is stopped from outside; dying on another instance's migration is not bounded, and that is
  what `AllServe` is about.

`CallsGetOn` needs no fairness: it says every step of a call leaves it fewer to make.

## 5. What is proved

For every value of the constants, by TLAPS. The assumptions are those the modules name: the lifetimes
and bounds are natural numbers, `None` is none of the ids, views and rows, the roles have ranks, a
base lockout is no longer than the cap. An IPv6 address has at least two groups, each of twice as many
bits as a part of an IPv4 address, since a dotted ending takes two; the empty word is no host name.

| Theorem | Says |
|---|---|
| `ServiceAuth_proofs!TypeCorrect` | `[]TypeOK`, and that a request at a statement has the locals the statement reads (`Located`) |
| `ServiceAuth_proofs!OneTokenPerChallenge` | `[]SingleUse` |
| `ServiceAuth_proofs!RequestsHonourRevocation` | `[]RevocationHonoured` |
| `ServiceAuth_proofs!RequestsHonourRotation` | `[]RotationHonoured` |
| `ServiceAuth_proofs!GrantsLapse` | `[]GrantLapseBounded`: one lifetime and the latency of the snapshot, however long the request pauses before and after |
| `ServiceAuth_proofs!TokensEndForAReason` | `TokenLivesOutItsTTL`, an action property |
| `Vault_proofs!VaultImplementsStore` | `ImplementsStore`: every behaviour of the tables is one of `VersionedStore` |
| `Vault_proofs!VaultTypeCorrect` | `[]TypeOK` |
| `Vault_proofs!EveryWrapIsRegistered` | `[]WrapsMatchRegistry` |
| `Vault_proofs!ServersHoldTheRegistered` | `[]ServersMatchRegistry` |
| `Vault_proofs!RegistryInOrder` | `[]LastIsActive` |
| `Vault_proofs!HistoriesHaveNoGaps` | `[]Histories`: versions are `1 .. len`, the pointer names one, a deleted key leaves none |
| `Vault_proofs!ValuesAreNeverRewritten` | `ValuesStay`, an action property: a written value stays as it is until its key is deleted |
| `Hierarchy_proofs!HierarchyTypeCorrect` | `[]TypeOK`, with the foreign keys: no row outlives its parent |
| `Hierarchy_proofs!GrantsStayWithin` | `[]GrantsWithinEnvironment` |
| `Hierarchy_proofs!TenantsStayApart` | `TenantsApart`, an action property |
| `Hierarchy_proofs!ProtectedByAdmins` | `ProtectedKeysGuarded`, an action property |
| `Members_proofs!MembersTypeCorrect` | `[]TypeOK`, with the unique index of memberships |
| `Members_proofs!MembershipsChangeByAdmins` | `ChangesAuthorized`, an action property |
| `Guards_proofs!LimiterTypeCorrect` | `[]TypeOK`: counts within the limit, locks within the cap |
| `Guards_proofs!SweepsBoundWindows` | `[]WindowsSwept` |
| `Guards_proofs!BurstsAreBounded` | `[]BurstBounded` |
| `Guards_proofs!BackoffIsServed` | `BackoffHonoured`, an action property |
| `Guards_proofs!AnswersAreExact` | `[]AllowedExactly` |
| `Guards_proofs!TextsAreParsed` | `[]ParsesTheAddress` |
| `Guards_proofs!SettingsAreRead` | `[]ReadsAsWritten` |
| `Client_proofs!ClientTypeCorrect` | `[]TypeOK` |
| `Client_proofs!CacheIsNeverTheLastWord` | `[]CacheNeverTheLastWord` |
| `Client_proofs!MarginCovers` | `[]SkewCovers` |
| `Client_proofs!CallsEnd` | `CallsGetOn`, an action property |
| `Records_proofs!BootsTypeCorrect` | `[]TypeOK` of `Migrator` |
| `Records_proofs!MigrationsAreRecorded` | `[]SchemaRecorded` |
| `Records_proofs!ServersAreMigrated` | `[]ServesMigrated` |
| `Records_proofs!LogTypeCorrect` | `[]LogTypeOK` of `AuditLog`, with the primary key |
| `Records_proofs!WalksAreExact` | `[]WalkExact` |
| `Records_proofs!WalksSkipNothing` | `[]NothingSkipped` |
| `Dashboard_proofs!TypeCorrect` | `[]TypeOK`, with the spinner that turns only while the request that ends it is there |
| `Dashboard_proofs!TablesShowTheLatest` | `[]ShowsTheLatest` |
| `Dashboard_proofs!RevealedValuesGo` | `[]RevealLasts` |
| `Dashboard_proofs!GateTellsThemApart` | `GateExact`, an action property |

The arguments, module by module: what has to be added to a property to make it inductive, and why.

**ServiceAuth.** The type invariant needs `Located`, as a statement reads locals that an earlier one
set; `RowsKept` is the action fact the others share: no step brings a row back, moves it to another
service or changes its scope or expiry, and time, keypairs and revocations only go forward.
`OnceInv` adds to `SingleUse` that a request between consuming and inserting is the only one that
holds its challenge, that the challenge is spent, and that no token came of it. `HonourInv` follows,
statement by statement, what a request knows of its service since it arrived (`SinceArrival`): while
the service is active it was active then, and its keypair is no older. `LapseInv` bounds the expiry
of a token, and of one about to be inserted, less the latency of its snapshot (the history variable
`late`), by when a grant of its scope lapsed (`Backed`); before the lifetime starts it says that the
snapshot is not in the future, and that a grant that lapsed did so since.
`RevokingInv` says the services whose tokens remain to be revoked are no longer active: without it
the second statement of `revoke()` could end a usable token.

**Vault.** Nothing is inductive alone: `Inv` is the conjunction of the types, the registry in order
and filled in, what an instance knows at each point of its boot (`Booted`), that only serving
instances handle requests (`Handled`), that a rotation past its check has a version to start from
(`Checked`), and `WrapsMatchRegistry`. The refinement needs two more facts. `Histories`: the versions
of a key are `1 .. len` for some `len`, none once it is gone, and `current` is one of them; it makes
`Length`, which the mapping chooses, what it says. `Foresaw`: what a writer has read is still there
unless the key is gone, so the number it inserts under, where the unique index lets it, is the next
one, and the version it points back to exists. `Effect` then says what any step of the system does to
the two tables as a whole, which is one of four things: `Rewraps` (nothing the store can see:
every boot, read, refused write and the whole rotation), `Adds`, `Points`, `Removes`; and each of
them is a stutter, a write, a rollback or a delete of the store under the mapping (`EffectRefines`).
What the store's users count on follows from the same facts: `Histories` itself, and from `Effect`
that no value changes once written (`ValuesStay`), by a rotation neither. These two are not
properties of a run: `ImplementsStore` implies them.

**Hierarchy.** A handler resolves ids to the owning organization, authorizes, checks the keys and
inserts in separate statements, so `Inv` says what each of these is still good for (`Placed`). Rows keep
their parents until they go for good (`RowsKept`), so the role found at the start is one in the
organization that owns the row, as long as the row is there (`Entitled`), and keys that were of
the environment of the service are of it or gone (`Matching`). The action properties follow from
one lemma an action: it leaves an environment's contents alone, or is the request of a member, and of
an admin where the environment is protected and keys change or grants appear (`Guarded`).

**Members.** `Entitled` says that the user of a request past admission is an admin of the
organization of the path, `Found` that the row a request has read is of that organization: rows never
change theirs, so the write by id is of the organization that was
authorized, however long ago the row was read.

**RateLimit.** `Inv` adds to the types that the last sweep is not in the future: a sweep and the hits
after it leave windows that end after it. For `BurstBounded` the invariant relates a window to the history
of its key (`BurstOf`): once it is over, its first hit is already out of any stretch of its
length and what is left in it is below the limit; while it lasts, what came since it began is at
most its count, and all that came before is below the limit. For `BackoffHonoured` it relates a
lock to the failures (`BackoffOf`): it counts at least the recent ones, and past the threshold
it ends one lockout after the latest; so a sweep, which needs the lock to be over for an
hour, drops none with a recent failure, and as lockouts grow with failures the one that
was waited for is long enough. The totals over ages are a recursive function; the induction over
ages is one over sets of numbers (`UpTo`, from the well-foundedness of `<`), since the library's
induction theorems take a predicate as a parameter. That powers of two are numbers and grow is the size of
powersets (`PowersGrow`), as no prover has an induction for `^`.

**Cidr.** The states are simple; what is hard is that the operators compute what they should on texts of any
length. `Shifted`, the loop of shifts, is a recursive function, so that the induction over its digits
is again one over sets of numbers (`ShiftedAccumulates`: a function that satisfies the recursion
exists, and the chosen one is it); that `2 ^ (m + n)` is a product comes from counting
subsets (`PowersDouble`, `PowersMultiply`). Two numbers of the same width
are the same after a shift to the right exactly when their leading bits are (`PrefixesAgree`), and by
its leading bits an entry is defined to cover an address (`MatchesCovered`). `AnswerInv` then says that no
entry before the one to try has matched. For `ParsesTheAddress` the program and the definition differ in
two ways. The program fills the gap of `::` with as many zeros as are missing, the definition says what each
group is (`Expands`). And the program puts two zero groups for a dotted ending and overwrites
the low bits in the end, the definition has the two groups: `SpelledExpanded` says that the two addresses
differ in their last two groups only, `SpelledValue` that clearing the low bits and adding the IPv4 value makes
up for exactly that. They agree on what is no address, too (`SpelledFits`). A text without `::` has all
its groups in the head (`V6Text`), as `split` returns one part then.

**Settings.** One step, so the proof is the case analysis: no way to write an address is taken for another
(`AddressRead`: colons tell them apart, as an IPv6 address has more than
one), and a duration is the same time in every unit (`DurationRead`).

**Client.** `Knows` adds what a call knows of the token it bears: it was issued to this very call, or
the attempt is the first and the token came from the cache, which it left with more than the
margin, less what the request has waited since. Tokens are issued once and their owners stay
(`OthersKept`), so no other call can spoil that.

**Migrator.** While an instance migrates, all migrations before its position exist, and its own does
not before it commits (`Migrates`, `InTransaction`); two transactions never are at the same
migration, as Postgres makes the second wait (`OneAtATime`). So a commit adds exactly what its tag records.

**AuditLog.** `LogInv` adds that an id is of one row, inserted or not (`DrawnOnce`), that a walk looks only
for rows that exist, and that all it returned is at or above its cursor (`Walked`): so a page brings
only new rows and the count of what was returned is its size. `NewestOf` says what the largest of a
set of numbers are: closed upwards, all of them when they fit, and otherwise as many as were asked for.

**Dashboard.** What is revealed has an invariant of its own (`RevealInv`: at most one timer,
due with what is shown). The rest is `Inv`: `Paired` (the two cookies are of one session, in the jar
and in every request, which is what makes the gate exact), `Sensible` (an answer holds a version
that was written), `Bootstrap` (App asks who is signed in, or signs in, once at a time, so no
answer finds another user's view), `Waited` (a load or a write that is still heard of has its view),
`Informed` (what a view was told was written, and the load it waits for is not behind it: versions
only grow and the load was answered after it was told). `ShowsTheLatest` follows when that load is
answered. The actions fall into few kinds (`MovesOn`, `Sends`, `Hears`, `Loads`, `Closes`,
`StaysQuiet`), each with the one lemma that it keeps `Inv`.

Only model-checked: liveness (`ExpiredSwept`, `AllServe`), which is beyond the prover. `OwnerRemains` is
false (section 6). Every other property of a run in section 3 is a theorem.

## 6. Where the code and its documents differ

`members_last_owner` shows a bug: `http/handlers/management.ts:391` says the guard refuses "an operation that would
leave the org with zero owners", but the owners are counted by one statement and the membership changed by a
later one. Two owners who demote or remove themselves (or each other) at once both count two.

The following statements are defined at the end of each module and are in no configuration; adding one to
the configuration named reproduces the counterexample. None contradicts a property of section 3.

| The repository says | The code does | Property, configuration |
|---|---|---|
| "marks all its `access_tokens.revokedAt = now`" (`design/04-auth.md:149`) | a token request past its check inserts its token after the update (`domain/service-registry.ts:91`); reads are refused all the same, by the status | `RevokeLeavesNoToken`, invariant, `auth_life` |
| "Narrowing takes effect within one token TTL" (`design/04-auth.md:147`) | the lifetime starts when the reply of the grants' SELECT is there (`domain/token.service.ts:172`, `:178`): a grant removed meanwhile stays usable for that latency longer | `GrantLapseStrict`, invariant, `auth_life` |
| "audited on every read" (`http/handlers/retrieval.ts:9`) | a failed append is logged and the secrets go out (`domain/audit.service.ts:46`) | `EveryReadAudited`, invariant, `auth_life` |
| "a service never starts half-configured" (`design/09-sdk-cli.md:118`) | a failed query answers with no secret and status 200 (`domain/key.service.ts:204`); `cuki run --only` warns about a missing key and starts (`main.ts:116`, not modelled) | `NothingOnlyIfNothing`, invariant, `auth_life` |
| "values remain readable throughout" (`design/08-deployment.md:91`) | instances started before a rotation cannot open what it re-wrapped until restarted (`crypto/kek.ts:134`) | `ReadableThroughout`, invariant, `vault_rotation` |
| "For each `key_versions` row where `kekVersion = old`" (`design/03-cryptography.md:108`) | rows written after the rotation's SELECT keep the old wrap (`app.ts:104`) | `RotationMovesEveryRow`, invariant, `vault_rotation` |
| "sliding window" (`config.ts:127`) | windows are fixed: up to `2 * limit - 1` in one length (`util/ratelimit-core.ts:31`) | `SlidingWindow`, invariant, `rate_guard` |
| "Drop ... long-idle locks to bound memory" (`util/ratelimit-core.ts:69`) | an entry below the threshold has `until = 0` and is never dropped (`:72`) | `IdleLocksSwept`, invariant, `rate_guard` with one request, Threshold 2, Window 1, IdleMs 1, MaxTime 7 |
| rate limits "per `service_id` and per source IP" (`design/04-auth.md:156`) | the token guard looks at the address only (`domain/ratelimit.ts:75`) | `LockedServiceRefused`, property, `rate_guard` |
| "Cache the token in memory for its TTL" (`design/09-sdk-cli.md:52`) | a late 401 for an old token drops the new one (`client/sdk.ts:136`) | `DropsOnlyTheRefused`, property, `client_calls` |
| "Touching an owner ... requires owner" (`http/handlers/management.ts:109`) | the role is read before the update by id: a member made an owner in between loses it to an admin | `OwnersTouchOwners`, property, `members_race` |
| "solo user just has a personal org" (`design/02-data-model.md:53`) | registration is three statements; after the first alone the email is taken and the user belongs nowhere (`http/handlers/auth.ts:44`) | `RegistrationWhole`, invariant, `members_race` |
| "`protected` environments (prod) require `admin`+ for writes" (`design/04-auth.md:47`) | services, and the deletion of grants, ask for a member (`http/handlers/management.ts:328`) | `ProtectedWritesByAdmins`, property, `hierarchy` |
| "You'll need to sign in again" (`web/src/App.tsx:47`) | the answer of a logout is not looked at: when it is lost, the cookies stay and a reload is signed in (`web/src/App.tsx:49`) | `SignOutEnds`, property, `dashboard` |
| "set `expiresAt` (e.g. 7 days, sliding)" (`design/04-auth.md:17`) | it is set when the session is created and never moved (`domain/auth.service.ts:65`) | `SlidesWithUse`, property, `dashboard` with SessionTTL 2 |
| "The dashboard shows a copy-once modal" (`design/04-auth.md:66`) | the view may be gone, or reloaded, when the answer comes: the only copy of the key is lost (`web/src/views/Services.tsx:89`, `:233`) | `CredentialsShown`, property, `dashboard` |
| "The current private key stops working immediately" (`web/src/views/Services.tsx:232`) | two rotations may be answered out of order: the dialog ends up with the older key, of no use | `NewestCredentialsStay`, property, `dashboard` with MaxVersion 2 |
| the sidebar names the user that signed in (`web/src/App.tsx:23`) | asked once; after another tab signed in as someone else, this tab writes as that user | `ActsAsShown`, property, `dashboard` |
| "ULID desc = newest first" (`repo/audit.repo.ts:15`) | ids of one millisecond are in random order (`util/id.ts`) | `NewestFirst`, invariant, `audit_pages` |
| "Applies embedded migrations idempotently" (`db/migrator.ts:6`) | two instances that boot together apply the same one and the second dies; started again, it serves | `BootsTogether`, invariant, `migrate_boot` |

## 7. Not modelled, and why

- Cryptography is symbolic: a ciphertext opens with what it was made with, a signature verifies
  with its keypair. Byte layouts and libraries are out of reach.
- `config.ts` beyond the address and the durations reads values as they are. Texts that no
  operator would write on purpose (unbalanced brackets, signs, blanks inside) are not inputs of `Settings`.
- `http/static.ts`, the health endpoints, `http/req.ts`, the headers and the API documentation: no state.
  `http/schemas.ts` checks the form of payloads; the modules take payloads that passed.
- The dashboard's roles: what is offered depends on the role a list was loaded with, and the
  server decides again (`Members`, `Hierarchy`); the forms, the sidebar's lists, the confirmation
  dialogs and all rendering. `design/07-dashboard.md:56` has a reveal ask for confirmation; the button reveals at once
  (`web/src/views/Keys.tsx:75`). The drawer of a key keeps the row it was opened with: after a new version it
  still marks the old one as current (`web/src/views/Keys.tsx:237`).
- React renders, and may paint, between a change of state and the effect it calls for: once with the rows of the old
  filters, and a reload's change of state comes before the effect that replaces the old load. In `Dashboard` each is one
  step, so an answer that arrives in those milliseconds is not modelled.
- Analytics queries, the generated code and the scripts keep no state.
- The cloud kinds of the master key provider fail at boot in the code.
- The process-wide settings that switch a check off (`CUKI_RATE_LIMIT=false`, `CUKI_CSRF=false`).

## 8. Plan

The order was: the retrieval plane and its proofs (the reason the program exists), the vault and
its refinement, then the parts around them. What is next, most important first:

1. Modules: what `cuki run`, `get` and `env` do with what the SDK returns; the dashboard's
   roles, over `Members`, so that what is offered is what is allowed.
2. A composition of `Client` with `ServiceAuth`'s token life cycle, to replace the free
   answers by an abstract server both implement.
3. Stays with TLC: `ExpiredSwept`, `AllServe`.
