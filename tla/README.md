# kaguya in TLA+

kaguya runs a Lore version-control server with an authorization service
(`auth/`), a web frontend (`web/`) and a pull-based deployment (`ops/`). This
directory models the parts of it that decide something: who owns a
repository, what a caller is told it may do, who gets a token and for how
long, and what runs on the host after a night's update. TLC checks the models
on small instances; TLAPS proves their safety properties, and that the
detailed models implement the abstract ones, for every instance.

Modules are parsed with `tlasany M.tla`, checked with
`tlc -config X.cfg M`, proved with `tlapm M.tla`: the six modules whose name
ends in `Proofs`, and `Ownership` and `Login`. `PROJECT.json` lists the runs, the lines that each definition stands for, and the mutants:
for each property a plausible mistake in the code that TLC catches with it.
The mutated definitions stand in the modules next to the ones they mutate.

## Inventory

| Part | State | Operations | Talks to |
| --- | --- | --- | --- |
| ReBAC store, `auth/src/store.rs` | SQLite tables `resources`, `grants`, `group_members`; one connection behind a `Mutex` | `record_owner`, `delete_resource`, `role_for`, `accessible`, `grant`, `revoke`, group changes | handlers (through the mutex), admin CLI (another process, no mutex) |
| gRPC handlers, `auth/src/main.rs` | none of their own | `CreateResource`, `DeleteResource`, `CheckUserPermission`, `LookupUserPermissions`, token exchanges | store, identity, signer |
| Admin CLI, `run_admin` | none | `grant`, `revoke`, `group-add`, `group-del`, `ls` | store |
| Native login, `sessions.rs`, `oidc_device.rs`, `StartAuthSession`, `GetAuthSession` | in-memory table of login sessions | start, poll | OIDC provider, lore CLI |
| Identity, `verify.rs`, `jwks.rs` | cache of the provider's keys behind an async `RwLock` | verify an id token or one of our own, refetch the keys | OIDC provider |
| Signing, `keys.rs`, `jwks.rs` | `signing_key.pem`, `jwks.json` on a volume; the key in memory | load or generate, publish, mint | loreserver reads `jwks.json` when it starts; the health check of `docker-compose.yml` looks for it |
| Web frontend, `web/src` | pending logins, sessions | login, callback, logout, me, repos | browser, provider, kaguya-auth, loreserver |
| Deployment, `ops/update.sh`, `ops/stack.sh`, `setup.sh` | checkout, containers, two rendered configs, `.update-failed`, backups | a nightly run, forced runs, deployment by hand | git, docker, systemd, the operator |

What is hard in it:

- **Statements, not transactions.** Each SQL statement commits by itself. The
  mutex covers one store method; a handler that calls two (`delete_resource`,
  the lookups) lets the others run in between, and the CLI runs in between
  anything. A stop or an error between two statements leaves the first.
- **Awaits.** Login and callback handlers await the provider and may be cut
  there; they act afterwards on a session they looked up before. Refetches of
  the provider's keys overlap and end in any order, and the HTTP client has no
  timeout.
- **Expiry.** Login sessions, web sessions and tokens have clocks of their
  own, compared with and without a leeway.
- **Files that are rewritten in place.** The key once, `jwks.json` at every
  start: a stop in between leaves them torn, and another container reads them.
- **A script that may die anywhere.** `update.sh` has no trap and no
  journal: the next run infers what to do from HEAD. Its lock holds off other
  runs only: an operator's `git pull`, `setup.sh` and `docker compose up` may
  come at any line of it, and leave the checkout, the configs and the containers
  apart in between.

`PROJECT.json` lists these as hazards, each at its line with the properties
that watch it.

What makes each part correct: one founder for each resource and none without
a row; no answer above what the caller held; deletion only for owners; one
token for each native login, to its starter; tokens that never outlive their
login nor mix up persons; one session for each web login; no call to
loreserver with a token that ran out in its session; good tokens accepted
while the provider rotates its keys, and no caller stuck behind another's
fetch; one signing key through all restarts, trusted by loreserver; a stack
that is the checkout's after every handled outcome, with a restore point, and
setup inputs that only a human changes.

## Modules

### Store, AuthApi, Ownership, AuthApiProofs

`Store` is the database. `grants[u][s]` is the row's role or `NoRole`; roles
are numbers in the order of `derive(Ord)`. Each statement is one operator.
`rows.flatten()` drops unreadable rows, so `RolesRead` is the set of what
`role_for` may return: the strongest of any subset of the rows. The history
variable `origin` remembers which statement wrote a row, since the service
itself cannot tell the creator's grant from the admin's.

`AuthApi` runs the handlers over it. A request of `Req` waits to run the
statement that its `pc` names:

| `pc` | code |
| --- | --- |
| `insert_row`, `insert_owner` | the two INSERTs of `record_owner`, one lock |
| `check_owner` | `role_for` in `delete_resource` (main.rs), a lock of its own |
| `delete_grants`, `delete_row` | the two DELETEs of `Store::delete_resource`, one lock |
| `read` | the loop of `check_user_permission` and of the exchange, a lock for each id |
| `list`, `fill` | `accessible`, then `role_for` for each id in `lookup_user_permissions` |

`mutex` is free, held between two statements of one method, or poisoned: a
failing `prepare()` panics in `unwrap()` with the guard alive, and every later
`lock().unwrap()` panics until a restart. `Restart` drops the requests and
keeps the tables. The admin commands are single statements at any time.
`held` is a history: the strongest role that the caller of a request has held
since the call began.

`Ownership` is the abstract specification of create and delete: registering a
resource creates one claim to it, only the claimant can become its founder,
and the resource goes after its founder. `AuthApi` instantiates it with
`claimant` as the call between the two INSERTs and `founder` as the subject
whose row `record_owner` wrote.

### Login, DeviceLogin

`Login` is what a login promises, native or through the browser: it is begun
once, by one party, and is then granted to that party, once, or over for good.

`DeviceLogin` is the native one, in segments between awaits:
`StartCall`/`Started`, `PollCall`, `ProviderAnswers`, then one action for each
branch of `get_auth_session`. `table` is the map of `sessions.rs` and `live`
the part of it whose `expires_at` is ahead: a code leaves `live` when its time
passes (`Expire`) and `table` at the next sweep, which `start` and every poll
begin with. `ProviderAnswers` redeems an approved code or answers "pending" or
any other error whatever has become of the code, as `classify` takes them.
`Cut` ends a handler at an await: the call failed, the token was
refused or the client hung up. The provider redeems an approved device code
once; its timeouts are independent of ours. `issued` and `refused` are
histories. It implements `Login` with a session open while it is in the table
or a poll that resolved it is still on its way: a sweep between that poll's
awaits does not stop it from answering with a token.

### Tokens

Verification and minting along chains of exchanges. An id token is verified
(`Verify`, after which the handler resumes with its claims) and becomes an
authn token for the canonical subject or an authz token for its own `sub`;
one of our tokens can be exchanged for another as long as it is live. Names
of logins and emails are one set of user ids and may coincide: nothing in the
code keeps the provider from sending an email as a `sub`. Two
histories on each token: the id token it descends from, and whether its access
was taken away later. "Login" covers both the web's exchange and the native
poll, which do the same after verification.

### WebBff

The frontend's two maps. `Login` stores the state before the provider is
asked for its endpoint, `Redirected` is the answer, or the failure that leaves
the entry behind. `Callback` takes the pending state, `Redeemed` is
`exchange_code` (the provider checks the verifier and redeems once),
`Exchanged` is `exchange_external`, `Created` the sweep, the insert and the
expiry. A callback may carry the code of another login, come twice or late.
`Repos` is `Store::get` followed by the copy of the session's token that goes
to loreserver, `Listed` the end of that call, whichever of its three awaits it
is. It implements `Login` too, with the state as its own party: a state is
open while it is in the map or with a callback that took it, and what is
granted is the session, made of the code issued for that state.

### KeyCache, SigningKey, Keys

`KeyCache` is `OidcVerifier`: `Ask` is a call of `verify` with a token signed
by one of the provider's keys, `ReadLock` gets the read guard, `Hit` verifies
under it, `Miss` drops it and begins the fetch, `Fetched` is the answer with
the set as the provider has it then, and `Accepted` or `Refused` verify with
it and write it over the cache. The provider's keys come and go for good
(`Publish`, `Retire`), between any two steps of any call. A token that is
malformed, forged or expired is refused whatever the keys are, and is no step.
`steady` is a history: the call's key has been published since it began.

`SigningKey` is the start of `main`: load or generate the key, publish
`jwks.json`, serve. `std::fs::write` truncates and then fills, so each write is
two steps with a `Torn` file in between, and `StopAuth` comes anywhere. `lore`
stands for loreserver and for the compose file's gate: `FirstStart` is the work
of a `docker compose up` that waits for auth's health check, which tests only
that `jwks.json` is there, and `RestartLore` that of the restart policy, which
has no gate and is for a container that was started before; lore comes up when
it finds a whole file and exits otherwise. `used` and `minted` are histories.

`Keys` composes them into one process: a token that is accepted is exchanged
for one that is signed with the key in memory (`Mints`), and a stop ends the
calls, the cache and that key together, while the files, the provider and
loreserver go on.

### Deploy

One action for each command of `update.sh` that changes something, with the
`if` branches it can take. `Fetch` reads origin and HEAD and passes the gates,
on those two commits (`target` and `from`); `Merge` is the fast-forward. `Die`
ends a run between any two. `compose up` either brings everything up or leaves
any part undone. Checks that only exit change nothing and are no step. `Healthy`
needs a commit outside `Broken`; any commit may miss the health timeout.
`SetupOf` is the content of the setup inputs at each commit, so that the gate
compares two trees, and a change that a later commit takes back is none.

A deployment by hand is a sequence of steps: `HandPull`, `HandSetup` for each
of the two configs that `setup.sh` renders in turn (the first bad template ends
it), `HandUp`. They come between any two steps of a run, runs come between
them, and the operator may stop at any of them. `rendered` says at which commit
each config was rendered last, `hand` how far the deployment by hand has come.
Three histories say what no run notices: `died`, that a run was killed,
`crossed`, that a run and a deployment by hand got in each other's way (a pull
or an `up` during a run, or a run that started between the pull and the end of
`setup.sh`), and `byhand`, the setup inputs that were pulled by hand. A
deployment by hand that goes through with no run about clears the first two.

What the script promises falls in two. Whatever the operator does meanwhile,
a version takes over only with a whole backup of the one before
(`RestorePoint`), and no run changes the setup inputs of the checkout or of the
containers (`SetupIsByHand`). That the configs match what runs, that the stack
is the checkout's between runs and that a failed commit stays off hold until
the two cross (`~crossed`), and not beyond: an `up` by hand while the script
pulls images, which then fails, leaves HEAD behind the containers
(update.sh:116); a pull before the rollback's `up` (173) brings up what was
rolled back from; a run after a pull brings up what was not rendered.

## Runs

| Run | Instance | Shows |
| --- | --- | --- |
| `owners` | 2 users, 1 resource, 2 requests; create, delete, grant, revoke | `SingleFounder`, `FounderHasRow`, `DeleteAuthorised`, refinement `OwnershipKept` |
| `answers` | 1 user, 1 group, 2 resources, 1 request; reads and delete, every admin command | `AnswersHeld` |
| `create_makes_owner` | 1 user, 1 resource | violated: a creator whom the admin makes a member before the second INSERT stays one |
| `created_is_owned` | the same, no admin | violated: a `record_owner` that ends half-way leaves a resource nobody owns, and the retry answers Ok |
| `delete_only_by_owner` | 2 users, 2 requests | violated: the grant may go between the check and the delete |
| `device_login` | 2 clients, 2 sessions, 2 requests, fairness | `TokenToStarter`, `AnsweredIsGone`, `OneToken`, refinement `LoginKept`, liveness `SessionsEnd` |
| `tokens` | 2 slots, 4 logins (two of one person, one whose `sub` is their email), exp 1, leeway 1, clock to 3 | `NoExtension`, `NoCollision`, `FreshAccess` |
| `account_unified` | the same | violated: a raw id token's subject is not the canonical one |
| `web` | 2 logins, 2 callbacks, clock to 3 | `OneTaker`, `SessionOfLogin`, `ReadsWithGoodToken`, refinement `LoginKept` |
| `keys` | 2 provider keys, 2 calls, 2 signing keys, fairness | `SteadyKeyAccepted`, `TokensStayOurs`, `LoreTrustsSigner`, liveness `LookupsEnd`, `LoreComesUp` |
| `deploy` | commits 0 to 4: a setup change, a broken one that takes it back, another change, a marked one; keep 2 of at most 4 backups; an operator and failing `up`s | `RestorePoint`, `SetupIsByHand`, `ConfigMatches`, `SettledRunsHead`, `FailedStaysOff` |
| `deploy_stopped` | 1 new commit, nobody about, no `up` fails, fairness | violated: lore and auth stay down when a run dies after the backup stopped them |

Each passing run checks its module's `TypeOK` too, except `answers`, whose
module another run covers.

**Why the bounds are enough to be interesting.** Founders and deletes concern
one resource at a time, so `owners` has one, with two users and two requests,
which is what a create racing a create, a delete or a half-done delete needs.
Answers mix ids, so `answers` has two, with a group as the second path to
each; one request meets every other writer as an admin command or a restart
would, and every table change is one of those. Time in `tokens` and `web` has
the four phases that matter: before the exp, at it, within the leeway, past
it; in `web` at most one call of `repos` is in progress, since the property is
about when one starts. In `keys`, two overlapping calls are what it takes for a
later answer to be overwritten by an earlier one and for a reader to wait for a
writer; each provider key may be new, published or retired, so the cached set
may lack the newest key, hold a retired one, or both; the second signing key is
for a volume that was removed. In `deploy`, runs can die more often than
`Keep`, a run may cover several commits at once, of which one undoes another,
and the operator may act at any step and start over any number of times.
`deploy_stopped` leaves out (`Outside`) the operator and an `up` that fails,
since its question is about a run that dies. It stops where HEAD is the newest
commit and there is nothing left to do, which is why it does not check for
deadlock; one backup directory is what its one run makes. Slots of requests, the
clock, keys, commits and backups are the only quantities that are capped.

**Symmetry** is used in `answers` (resources) and `tokens` (slots), which
check invariants only and distinguish no member.

**Fairness.**
`DeviceLogin!Fairness`: the clock runs, the awaits end, and the client that
started a session polls it while it is there; the user need not act. Polling
is strongly fair because the slots of `Req` are the model's bound, not the
server's.
`Keys!Fairness`: docker restarts a container that has been started and has
exited (for auth: once there is a key file), a process that is not
stopped goes on, and tokio's `RwLock` is fair, so a writer gets its turn
however many readers come (strong fairness, since each reader disables it for
a moment). Nothing is assumed of the provider: it may stay silent for ever,
which is what `LookupsEnd` is about. Nor is anybody assumed to run `docker
compose up`: its wait for the gate ends after 15 failed health checks or when
auth exits, and lore then stays created until the next one. `LoreComesUp` is
therefore about a lore that has been started, and takes as its premise that
the stops come to an end and the key file is whole.
`Deploy!Nightly`: the systemd timer starts the script and a script that is not
killed goes on; nobody is assumed to push or to work by hand.

## What the violated runs say

- `create_makes_owner` and `created_is_owned`: README.md:88 and
  store.rs:101 promise an owner. `INSERT OR IGNORE` keeps a role that was
  there, and the two INSERTs are no transaction, so an owner may be missing
  after an Ok. The admin's `grant` repairs both.
- `delete_only_by_owner`: main.rs:106 holds for the moment of the check, not
  of the delete. What holds is `DeleteAuthorised`: an owner during the call.
- `account_unified`: verify.rs:42 unifies a person's logins, and the exchange
  takes a raw id token by its `sub`.
- `deploy_stopped`: ops/stack.sh:16 counts on "the following" `up -d`. When
  the run dies before it, the checkout is already on the target and every
  later run exits at update.sh:77.

The models make more visible that no run is about:

- A run of `update.sh` that dies between recording a failure (line 166) and
  `git reset` (171) leaves the failed commit checked out, and a later run whose
  backup fails brings it up, which is why `FailedStaysOff` has the history
  `died` as a condition.
- A run that comes after an operator's `git pull` and before `./setup.sh`
  compares the target with HEAD (update.sh:95), not with what the configs were
  rendered at. It finds no change in the setup inputs and deploys over the gap,
  which is why `ConfigMatches` has the history `crossed` as a condition.
- An operator's `docker compose up` during a run's backup starts the writers
  that ops/stack.sh:19 stopped; the copies go on, and count as whole.
- verify.rs:44-46 says that a login without a verified email never collides
  with an account of somebody else. It does when its `sub` is that person's
  verified email, which nothing checks: `NoCollision` has that as an exception.
- After a run and a deployment by hand have crossed, HEAD, the configs and the
  containers may be at three commits, until a deployment by hand that no run
  comes between.
- A native poll whose answer is lost after the provider redeemed the code
  leaves a session that can only expire; `SessionsEnd` shows that it does.
- The last of two overlapping refetches wins, whichever the provider answered
  last: the newest key may leave the cache, which costs a refetch, and a
  retired one may come back. A retired key that is cached goes on being
  accepted until some unknown key causes a refetch or the process stops.
- A stop in the middle of the first write of `signing_key.pem` leaves a file
  that exists and does not parse: every later start fails until the volume is
  removed. `LoreComesUp` has the whole key file as its premise for that.
- A panic on the store's connection poisons its lock, and every later call on
  the store panics until a restart, while the health check answers ok.
- The health check passes on a torn `jwks.json`. loreserver then exits and its
  restart policy brings it up later.
- A `name` claim that is present and empty makes an empty display name,
  although the comment at main.rs:132 names a fallback "rather than leaving it
  empty"; claims' texts are not modelled.

## Proofs

Every safety property and both refinements that a passing run checks are
theorems of the specification, for every value of the constants:

| Module | Theorems, beside `TypeCorrect` |
| --- | --- |
| `AuthApiProofs` | `OneFounder`, `FounderNeedsRow`, `DeletesAuthorised`, `AnswersBounded`, `OwnershipImplemented`, `FoundersCreate` |
| `DeviceLoginProofs` | `TokensToStarters`, `AnsweredAreGone`, `OneTokenEach`, `LoginImplemented`, `SessionsGoForGood` |
| `WebBffProofs` | `OneTakerEach`, `SessionsOfLogins`, `ReadsGoodTokens`, `LoginImplemented`, `LoginsGoForGood` |
| `TokensProofs` | `NoneExtended`, `NoneCollides`, `AccessIsFresh` |
| `KeysProofs` | `SteadyKeysAccepted`, `TokensAreOurs`, `LoreTrusts` |
| `DeployProofs` | `RestorePointThere`, `SetupChangesByHand`, `ConfigsMatch`, `SettledAtHead`, `FailedIsOff` |
| `Ownership`, `Login` | `FoundersStay`; `GrantsAreFinal` (no `TypeCorrect`) |

Each module states an inductive invariant `IInv` as a conjunction of named
parts, with a lemma for each action (or for a group of actions that disturb the
same parts) and a step for each part. `Invariant` combines them, and the
theorems follow from it. TLC checked every `IInv` as an invariant of the
module's run before it was proved, and the action properties likewise.

**From what.** The named assumptions of the modules, and nothing else. In
`Store` and `AuthApi`: users and groups are disjoint, calls and commands are
among the modelled ones, the mutex's values are not requests, `Nobody` is no
subject, there is a user and a resource. `NoClient`, `NoCode`, `NoState`,
`NoKid`, `Absent` and `Torn` are none of the values they stand beside. The periods of `WebBff` and the clock, leeway and expiries of `Tokens`
are natural numbers; `email` and `Verified` are about `Login`. In `Deploy` the
broken and marked commits are commits after the first, `Outside` has its two
members and at least one backup is kept. None of them carries a result:
`NoneCollides` assumes nothing of what subs and emails look like, and the
theorems of `Deploy` nothing of when the operator acts.

**AuthApi.** `SingleFounder` is not inductive: a state in which two
requests stand before the second INSERT satisfies it, and both would then
write. `OwnersInv` adds `LockInv` (the mutex is a request exactly while that
request stands between two statements of a method, so there is at most one)
and `HolderInv` (the resource of a request before its second INSERT has a row
and no founder; that of a request before its second DELETE has no founder).
`FounderHasRow` is part of the same invariant: it is what makes the resource
of a fresh row free of founders. `AnswersInv` says for each call in progress
that the history `held` bounds what the tables give its caller now and what it
has answered so far; it survives a write since every write is observed. The
refinement adds that `Founder` names the only member of `Founders`, and maps
every step to one of `Ownership` or to a stutter: the first INSERT is
`Register`, the second is `Claim` or, when a row was there, `Forfeit`; a
failure or a restart between them is `Forfeit`; the first DELETE, a revoke and
an admin's grant are `Withdraw`, the second DELETE is `Remove`.

**DeviceLogin.** The properties speak of sessions, and what could break them is
a handler that goes on after an await. `PollsInv` says what it still may rely
on: the code it carries was handed out, and the caller is its starter.
`RedeemedInv` says that a request that has the provider's token has the only
one of its session, and that nobody was answered with one. `CodesInv` ties the
histories to the device: a code that was not handed out has no past, one that
was answered is spent. `AnsweredIsGone` is part of the invariant. In the
refinement `Issue`, the answer with a token, is `Grant`, `Started` is `Begin`
with the sweep that precedes it, and every other step (a poll with its sweep, a
refusal, a cut, a restart) is `Over`, which may end nothing when another poll
still has the session.

**WebBff.** A state is at most in one place for good: pending (`TypeOK` says
that a pending one was begun), with the callback that took it (`OneTaker`,
`TakenInv`), or made into a session (`MadeInv`: then it is neither pending nor
taken). `TakenInv` also says that from the redemption on the callback's code is
its own state's, which is where the verifier is needed. `SessionsInv` bounds a
session's expiry by its token's, if it was created in time; with the filter of
`Store::get` that is `ReadsWithGoodToken`. The refinement takes `Created` for
`Grant`.

**Tokens.** `TokenInv` says of each token what every chain of exchanges
preserves: the expiry of its id token, a subject that is one of the two names
that its login has, and access only if its subject has it or lost it since.
Who shares a subject follows by cases on which of its names each token has.

**Keys.** The invariants of `KeyCache` and `SigningKey` are proved apart, since
a step of the process is a step of each or leaves it alone. `SteadyInv`: a call
whose key was published throughout fetched a set that has it. That is enough
whatever the cache holds when the call writes, since it verifies with its own
set. `KeyFileInv` goes back from every user of the key to the file: the signer
once it is loaded, a whole `jwks.json`, what loreserver trusts.

**Deploy.** No property of the script is inductive, since each is about what is
left when a run ends. `SetupInv` and `BackupInv` have no condition. `SetupInv`:
the two commits of a run have the same setup inputs, and those of HEAD, of the
containers and of the commit to fall back to were pulled by hand. `BackupInv`:
the run's own directory is the last one and is whole once it is copied, so that
the retention cannot take it. The others hold until a run and a deployment by
hand cross: `OrderInv` says where HEAD is in a run and during a deployment by
hand, `ConfigInv` strengthens `ConfigMatches` to the commits that a run may
fall back to or bring up and to a HEAD that an operator may bring up;
`SettledInv` and `FailedInv` extend their properties into the phases of a run
from which an exit leads to idle. The histories `died` and `crossed` are
conditions there as in the properties.

**The abstract specifications.** `Ownership` and `Login` have theorems of their
own about what they promise, and the refinements carry these over to the
handlers as action properties. `FoundersCreate`: whoever becomes a founder is
the caller between the two INSERTs of a resource that nobody has founded, and a
row with a founder is not deleted. `SessionsGoForGood` and `LoginsGoForGood`: a
login that was begun and is neither in its table nor with a handler is over,
whatever polls or callbacks come late or twice.

**Only model-checked.** `SessionsEnd`, `LookupsEnd` and
`LoreComesUp`: liveness under fairness is beyond the prover. The five violated
properties have counterexamples instead.

## Not modelled

Display names, messages, wire formats and the `ls` command: nothing depends on
them. Signatures and the checks of claims other than `exp` are guards: what a
forged token meets is the library's business. The repository list is data.
loreserver's own refetch of `jwks.json` on an unknown key (README.md:57) is
not assumed: it does not need it as long as the key stays the same, which is
what `LoreTrustsSigner` shows. Two commands
of an operator and of `update.sh` at the same moment are ordered by git's and
docker's own locks, and the model interleaves them command by command; `docker
compose up` is one step, so that what another command does in the middle of it
is not seen. `install.sh` is a one-shot
script, and the compose file declares what `Deploy` and `Keys` assume (timer,
restart policy, health check). Generated protobuf code, the static page and CI
have no state of their own.

## Plan

1. `Store`, `AuthApi`, `Ownership` with proofs: done.
2. `DeviceLogin`, `Deploy`, `Tokens`, `WebBff`, checked: done.
3. `KeyCache`, `SigningKey`, `Keys`, the abstract `Login` with its two
   refinements, the deployment by hand in steps, checked: done.
4. Inductive invariants and safety theorems of `Deploy`, `DeviceLogin`,
   `Keys`, `Tokens` and `WebBff`: done.
5. Proofs that `DeviceLogin` and `WebBff` implement `Login`: done.
6. What the abstract specifications promise, proved of them and carried over to
   the handlers as action properties: done.
7. Action properties of the deployment and of the key files, from the
   invariants that are there.
