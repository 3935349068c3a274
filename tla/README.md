# darak in TLA+

darak is a file server for a small organisation: a Go HTTP server (`cmd/darak`)
that runs as root, one helper process per user (`cmd/darak-helper`) that does
every file operation with that user's credentials, and a few JSON files that
replicas of the server share. This directory is a TLA+ development of the parts
of it that are concurrent, that persist something, or that decide who is who.
Paths below are relative to `src/`.

Contents: [inventory](#inventory), [modules](#the-modules),
[runs](#what-each-run-checks-and-shows), [fairness](#fairness),
[proofs](#what-is-proved), [what the code does not keep](#where-the-code-and-its-words-part),
[what is not modelled](#what-is-not-modelled), [plan](#plan),
[how to run it](#running).

## Inventory

| Component | State it keeps | Operations | Talks to | What makes it correct |
|---|---|---|---|---|
| **Helper pool** `internal/helperpool/pool.go` | map user → entry, lru list, in-flight counts, closed | `Do` (acquire, release), reaping, eviction, `Close` | name service, spawner, helper clients | a helper in use is not stopped; nobody is served by another's helper, nor with groups just revoked; the ceiling holds; every retired helper is stopped |
| **Helper client** `internal/helperpool/client.go` | pending calls by id, one channel each, a socket, the reader goroutine | `Do`, `readLoop`, `shutdown`, `Close` | one helper over a socket that carries descriptors | replies go to their calls; no call hangs on a dead helper; no descriptor is lost; the reader never blocks |
| **Helper process** `internal/helper`, `internal/wire` | none but the socket | serve one request per goroutine, one system call each; a directory in pages that fit a frame | the client, the kernel | exactly one reply per request; a page never too large to send; both ends read a frame alike |
| **File operations** `internal/vfs/vfs.go` | none of its own: names, inodes and the domain's `.trash` | `Write`, `Remove`, `Move`, `Mkdir`, `ReadDir` | pool → helper → file system | a name always leads to a whole version; what was acknowledged can be found in the trash; a listing resumed after a change misses nothing that stayed |
| **Shared state files** `internal/statefile` | per store: an in-memory map and a `Guard` (mtime, size, loaded); the file and its lock | `Fresh`, `Seen`, `Write` | the state volume, the other replicas | replicas together are one atomic map |
| **Identity store and queue** `internal/identity` | approved mappings with two indexes; rows waiting for approval | `ByEmail`, `BySubject`, `Pin`, `AttachEmail`, `Approve`, `Forget`; `Record`, `Get`, `Discard`, sweep | a state file each; sign-in; the administrator | one account is one person |
| **Sign-in by SSO** `internal/server/sso.go`, `internal/sso`, `auth/gate.go` | flows by id, browsers' cookies, notices, enrollments, sign-ins under way | login, callback, forward, notice, enrollment stream; `resolveIdentity`, `provision`, `queueIdentity`, approve, discard, forget | identity provider, store, queue, provisioning, control plane | a session stands on one assertion, made in that browser, of the person it is for; one account is one person |
| **Sessions** `internal/server/session.go`, `epoch.go`, `password.go` | signed cookies (held by browsers), the epoch file, each replica's cache of it | login, lookup, password change, `DeleteOthers`, `bump`, `notBefore` | the password store, the state volume | a password change closes the user's other sessions on every replica and keeps the caller's |
| **Share links** `internal/share`, `server/shares.go` | links in a state file, unlock cookies | create, revoke, resolve, unlock, serve | state file, vfs | what is served is what the owner may read now, through a link that is live, to who has its password |
| **Provisioning** `internal/provision` | rate-limit windows, the configuration and its watcher | `Create`, wait for the account, reload | an HTTP endpoint, the name service | the limits hold; a bad configuration does not replace a good one |
| **Team changes** `admin/teams.go`, `admin/views.go`, `server/teams_apply.go`, `internal/control` | the tracker of submitted applies, the cached roster, a batch being applied | submit, follow, set members, hints, routes | roster, group table, control plane or local commands | only a team one manages changes; success and "applied" are said only of what is there; routes follow the roster |
| **UI process** `internal/uiproc`, `internal/ui` | the child, the socket, the restart pause | start, supervise, proxy, `Close` | a child process | it comes back after a crash, goes away at `Close`, and is never there twice |
| **Activity log** `internal/activity` | daily files; Tail's inode, offset and half-read line | `Record`, `Query`, `Tail` | the file system, smbd | what was acknowledged is found until it expires, newest first; an SMB operation is recorded once |
| **Password check** `internal/auth/auth.go` | none | verify, set | `ntlm_auth`, `smbpasswd` | - |
| **Program** `cmd/darak` | the context, the order of shutdown | start, drain, close | all of the above | a shutdown leaves no child and drops no record |
| **HTTP server** `server/server.go` | none of its own | handlers | all of the above | one call into the component each |
| **Administration** `internal/admin`, `server/admin.go` | short caches of the system's databases | read, one command per operation | the system | - |
| **Search** `vfs/walk.go`, `server/search.go`, `internal/fuzzy` | one walk: its level, its budget, its deadline | walk, answer line by line | vfs | a search that says it is complete is |
| **Browser application** `web/` | its own views | - | HTTP API | presentation |

What is hard about this system, and what the properties are for:

* *Interleaving inside one process.* The pool decides with one critical section
  and acts in another; the client's reader, its callers and its owner meet on
  one map and one channel per call.
* *Interleaving across calls.* A write is seven or more helper calls, a sign-in
  is half a dozen store calls, an approval is three; anything happens between.
* *Interleaving across replicas.* State files and the epoch file are cached by
  mtime and rewritten under a lock.
* *Failure.* A helper dies, a call is abandoned and performed later, a replica
  dies with a lock, the host crashes between two steps of a write.
* *Time.* Cookies and epochs have milliseconds, trash names seconds, mtimes
  whatever the file system has.

Every hazard that was found is listed, at its line, in `PROJECT.json`.

## The modules

| Module | Models | State ↔ code | Actions ↔ code |
|---|---|---|---|
| `HelperPool` | `pool.go`, with the resolver and the spawner | `helpers`, `closed` are the fields of `Pool`; `newer` is the lru list as the relation "nearer the front"; an entry's fields are functions of `EntryIds`; `proc` is its process | `Lookup`, then `Resolve` or `ResolveFails` (the name service, without the mutex), then one outcome of `acquire`'s second critical section (`ApplyClosed`, `CheckoutCached`, `StartNew`, `StartNoRoom`, `StartFails`); `Release`; `Reap`, `Close`; `Stopped` is the goroutine that stops a helper, `CredsExpire` and `IdleExpire` the clocks |
| `HelperClient` | `client.go` against `helper.go` | `pending`, `closed` are fields of `Client`; `ch` the channels; `socket`, `fds` what travels and where each descriptor is | `Register`, `Send`, `Return`, `GiveUp` are `Do`; `Deliver`, `Reject`, `ReadFails` are `readLoop`; `Close`; `Serve`, `HelperEnds` are the peer |
| `VfsWrite` | `Write`, `Remove`, `Move` of `vfs.go` | `ns` is the directory (paths, temporary names, trash names → inode); `data` how far an inode's content has got; `disk` each directory as last flushed; `flying` calls whose caller has gone; `pinned`, `acked`, `settled`, `emptied` are history | one action per helper call of `Write` (`Create`, `Copy`, `Sync`, `Mkdir`, `Link`, `Rename`, `SyncDir`, the deferred `Cleanup`), each with its failures; `Trash`, `Empty`, `Move`; `Late`; `WriteBack` and `Crash` are the kernel and the host |
| `Wire` | `wire.go`, `codec.go` | none: a frame is its flags and a sequence of cells | `Encode`, `Decode`, `EncodeRequest`, `DecodeRequest`; their refusals are empty sets |
| `Search` | `readDir` of `helper/ops.go`, `ReadDir`, `Walk`, `handleSearch` | `present`, `readable` are the tree; `search` the locals of the walk (`level`, `next`, `depth`, `deeper`), of `ReadDir` (`cursor`, `ents`) and of the handler (`hits`); `steady` is history | `NextDir`, `ReadPage` (a round trip: `Page` encoded, sent, decoded), `Scan`; `Edit` is everybody else; `AnyFrame` a peer that writes what it likes |
| `StateFile` | `statefile.go` and its three users | `doc`, `mtime`, `flock` are the file and its lock; `mem`, `guard` a replica's map and `Guard`; `window` is history | one action per system call of `Fresh`, `Seen` and `Write`, with the failure of each (`LockFails`, `FreshFails`, `ReplaceFails`); `Start`, `Crash` of a replica |
| `StateMap` | what a state file promises: an atomic map | `doc` | `Set` |
| `SessionEpoch` | `session.go`, `epoch.go`, `password.go`, `handleLogin` | `epochs`, `mtime`, `flock` the file; `cache`, `cached`, `mu` each replica's `epochStore`; `issued` the cookies; `closed`, `forgot` are history | login in two steps, a change in eight, a lookup in four; every use of the file may fail: `BumpError`, `LookupStatFails`, `LookupLoadFails`, and `ReadMap`, which goes on with an empty map; `Crash` of a replica |
| `Identity` | `identity.Store`, `identity.Queue`, `sso.go` | `byAccount`, `byEmail`, `bySubject`, `pending` are the fields; `sign` the locals of `resolveIdentity`; `holder` the directory; `brought`, `signedIn` are history | one action per store call of a sign-in and of the administrator's handlers; `Reassign` is the directory |
| `Provision` | `provision.Provisioner`, `provision.Watcher`, `Server.provision`, the gate at the end of a sign-in | `fired`, `calls` are fields of `Provisioner`; `cfg`, `error` of `Watcher`, whose digest is always that of `cfg`; `run` the locals of `Run` and `Await`; `status` how far an account is on its way through the system; `made`, `looked` and what `run` has `existed` and `unseen` for are history | `Reserve`, `AnswerCreated` or `AnswerOther`, `Check`, then `Arrived`, `TimesOut` or `Leaves` (`Await`), `Bind`, `Gate`; `Reload`; `Edit`, `Create`, `Move` and `Tick` are the operator, the endpoint, the system and the clock |
| `Clock`, `Teams` | `admin/teams.go`, `IsAdmin`, `admin/views.go`, `teams_apply.go`, `control/local.go` | `roster` is what operators declare, `sys` what the kernel goes by; `op` a request's locals, `tracker` and `decls` the fields; `watch` a status stream; `may`, `over`, `held`, `past` are history | `Submit`, `Declare`, `AskAdmin`, then `Edit`, `WriteFails`, `Apply` (local) or `Commit` (a sidecar); `Follow`, `Look`, `LookAgain`, `LookNoMore`; `Route` and `TeamAccess` are functions of the roster |
| `Share` | `share.go`, `shares.go`, and `vfs.do` as they use it | `links` the store, `jar` the cookies, `fetch` the locals of a request, `creds` the groups of each user's helper | `CreateLink`, `Revoke`, `Sweep`; `Request`, then `NoSuchLink`, `NeedsPassword`, `Unlock`, `Resolved`, `CookieOpens`, `ServeStep` |
| `SignIn` | `sso.go` of both packages, `gate.go` | `flows`, `verifier`, `nextTry`, `notices`, `enroll` are fields; `cookie`, `back` are the browsers'; `call` the locals of a callback; `begun`, `shown`, `since` are history | `Login`, `Callback`, `Again`, `Forward`, `Exchange`, `Resolve`, `Gate`, `Create`, `Queue`; `ShowNotice`; `FollowEnrollment`, `Poll` |
| `Access` | the three above in one process with one roster and one clock | `left` is what the scene still allows | every action of theirs, `Restart`, `SweepSSO`, `Tick` |
| `UiProc` | `uiproc.go`, `ui.go` | `sup` where `loop` and `runOne` are; `first`, `stop`, `running` are theirs; `sock`, `child`, `ask` the socket, the process and its requests | `StartChild`, `MarkRunning`, `Exited`, `Terminate`, `GraceOver`, `Reaped`, `PauseOver`; `Dial`, `Accept`, `Answer` |
| `ActivityLog` | `activity.go`, `store.go`, `smblog.go` | `files` the day files, `cur` the open one, `tail` the locals of `Tail`; `log`, `path` smbd's log; `acked` is history | `Note`, `RecordNote`; `ListDays`, `ReadNextDay`, `QueryEnds` are `Query`, whose locals are `query`; `TailStat`, `TailOpen`, `TailLook`, `TailRead`, `TailEnd`, `TailNote`; `SmbOp`, `SmbWrites`, `RotateAway`, `MakeLog` are smbd |
| `Program` | `run` of `cmd/darak/main.go` over the two above | `phase` is where `run` is, `flags` what it was started with | `Boot`, `BootFails`, `Killed`, `Signal`, `Drained`, `NotDrained`, `CloseActs`, `CloseSup`, `Exit` |

`MC*` modules give TLC small instances and say what is interchangeable.
`HelperPoolProofs`, `VfsWriteProofs`, `StateFileProofs`, `SessionEpochProofs`,
`IdentityProofs`, `ProvisionProofs` and `AccessProofs` hold the theorems of the module
they are named for, `BackgroundProofs` those of `HelperClient` and of `Program`.

How they fit together: `VfsWrite` takes each helper call as `HelperClient` and
`HelperPool` deliver it: performed and answered, refused, or abandoned and
performed later or never. `Identity` takes each store call as one step, which is
what `StateFile` shows of `Guard.Write` (`AtomicMap`); `Share` does the same with
its links. `Search` sends each page as a frame of `Wire`, and takes from
`HelperClient` that a reply is that of its call; the two are checked in one run,
since a search is one caller of the client. `Access` puts sign-in, links and
team changes beside each other: they share the roster, the group table, the clock
and a restart. `Program` does it for what `main` starts in the background.
`SessionEpoch` models its own file, since `epochStore` does not use `statefile`.

Each module has a few definitions that no action uses (`MustEvictLate`,
`LinkErrorsIgnored`, `NoReload`, ...): bugs the code could have had. With one in
the place of the definition it is a form of, TLC finds the property violated that
`PROJECT.json` names beside it under `mutants`.

### Abstractions

* Clocks of `HelperPool` are the outcomes of the two comparisons the code makes
  (`credsOld`, `idleOld`); every order of the two is possible.
* In `VfsWrite` versions stand for inodes, and a random suffix is a member of a
  small set. A trash name takes any of `Seconds`. A host crash brings each directory
  back as last flushed: by the fsync at the end of `Write`, which is of the directory
  of the files, or by the kernel, which flushes either directory when it likes
  (`WriteBack`). POSIX promises nothing of another directory, and the model assumes
  nothing: a rename from one into the other may be torn. ext4 and XFS, where darak
  starts out, commit metadata in order; the CephFS it is meant to move to
  (`nas-design.md:90`) need not. The files' directories are one, and `.trash` is
  flushed with its own entry.
* In `StateFile` a row is a key and a value and all rows are equally long, as rows
  of links, mappings and requests that differ in a flag, a time or a count are.
* In `SessionEpoch` a cookie is what it says; the MAC is not modelled. A tick is
  a millisecond. mtimes have the same resolution. With `FileFails` any stat, read,
  lock or write of the epoch file may fail, and what fails to parse is read as nothing.
* In `Identity` an account name derived from an address (`NameOf`) is a constant
  function, and provisioning either made an account or did not. How it comes to
  the one or the other is `Provision`, where the store is reduced to who an
  account answers to.
* In `Provision` the endpoint may answer anything at any time, and may or may not
  have made an account. `reserve` reads the clock and takes its mutex within one
  tick, and a look at the rules file is one step. `TrustEmail` is not set, its
  default. With `NameFails` the name service may fail for an account that is there,
  which `Gate.Exists` answers with no.
* In `Wire` a cell is a fixed-width field, a length prefix or a byte, so that a
  length is never split, and a stat is two cells. The id, the errno and the mode
  depend on nothing and are left out.
* In `Search` a node is a path: what comes back under a name is the same node. The
  query is the set of names it matches, and the time between flushes is not there.
* In `Teams` a roster is one of a few documents or what `usersync member` makes of
  one; `usersync`, `getent` and a sidecar answer or fail at any call. A reading of the
  roster for the cache takes up to `ReadTime` ticks and gives what stood at one of
  them; in the scenes that do not keep the past it takes none. Of the folder
  permissions the kernel enforces, reading is modelled.
* In `Share` a file is told by the team folder it is in. In `SignIn` what the
  provider asserts is chosen, and a token that must be refused is an outcome of
  `Exchange`; `Identity` is reduced to what a subject is mapped to.
* In `ActivityLog` a line is whole or torn, a path is inside the root, a temporary
  name in it or outside; what smbd logs for an operation (`Transcript`) is taken
  from the captured sessions in `activity_test.go`.
* In `UiProc` the length of a pause is left out, and a child may ignore every signal
  but the last.

## What each run checks and shows

| Run | Instance | Properties | Shows |
|---|---|---|---|
| `pool` | 3 users, 2 requests, 3 entries, 2 group sets, ceiling 2; or 2 users and ceiling 1 | `NeverStoppedInUse InUseIsHolders PoolSound ServedWithResolvedGroups RetiredOnlyDrains EvictsOldest` | the pool under every interleaving of two requests, with groups that change and change back, and with `Close` at any moment |
| `client` | 3 calls, everything that can break, fair; or one search or listing of 7 nodes with 2 changes to them; or every frame of up to 6 cells | `Matched NoCallOutlivesHelper NothingMissed WireSound` | replies go to their calls and nothing hangs; a listing in pages and a search say what they leave out; the two ends of the wire agree |
| `vfs` | 2 scenes of 1 name, 3 versions, 1 abandoned call at a time: 2 requests; or 1 at a time, 1 crash and directories flushed in any order | `TargetComplete NoWindow LostByOverlap` | what a name leads to is whole; while the host is up the only way to lose an acknowledged version is the overlap described below; a crash takes none that is where its `Write` left it |
| `statefile` | 2 replicas, 2 keys, 2 values, 3 ticks | `BuildsOnCommitted ReadsFresh AtomicMap` | the replicas implement `StateMap` |
| `statefile_rough` | 2 replicas, 1 row, coarse clock, failures of every system call, both kinds of start, fair | `HolderOnly LockReleased` | what is left when the conditions of the previous run fail |
| `session` | 2 replicas, 2 users, 2 requests at a time, 2 ticks, a file that fails at every use | `OthersClosed OwnSessionKept LostOnlyUnread` | the epoch file closes what it should on every replica that can read it, and only a bump that cannot read it takes back another user's time |
| `identity` | 2 accounts, 2 subjects, 2 addresses; 2 sign-ins and the administrator, any two at a time | `OnePerson IndexesAgree BindingsStay` | two people with one address do not become one account, and approvals and forgets in the middle of a sign-in do the store no harm |
| `provision` | 3 identities, 1 account, 2 sign-ins at a time, every limit at its edge, a name service that may fail | `LimitsHold StatusTells NewUnlessUnseen` | the limits hold over every window; only an account that was not there is bound, or one the name service would not find; the watcher keeps the last good rules and says what it cannot read |
| `access` | 7 scenes, see below | `OnlyManaged SuccessIsLanded AppliedWasSeen RoutesFresh HintsAgree ServedIsAllowed SessionIsAsserted SingleUse` | who may change a team, what is said to have been done, where readers are sent, what a link serves and what a session stands on, while the roster, the system, the directory and the clock move |
| `program` | 3 configurations: the interface with 2 requests; activity over 3 days with 1 query at a time; activity with a log rotated once, torn lines, failing stats; fair | `EndsCleanly Supervised AckedKept QueryIsNewest OncePerOperation` | from the moment it listens for signals the process ends in order whenever it is told to, and before that leaves no child; the log keeps what it acknowledged, answers with the newest of it and records an SMB operation once |
| `pool_leak` | 1 user, 2 requests | `RetiredIsStopped` (violated) | see below |
| `vfs_race` | 2 requests, nothing failing | `Recoverable` (violated) | see below |

`access` plays one of these scenes (`MCAccess`), each a record of how often
something may happen in it. *Editing*: two requests at a time, one to each way of
asking, an edit of the roster and of the administrators between any two of their
steps, on either control plane. *Watching*: a stream over an apply, two edits, a
restart. *Routing*: two visits of each reader and member, two rosters and their
convergence, three ticks. *Sharing*: a link, its owner losing the team, a fetch.
*Unlocking*: two links, three fetches of one browser, a restart. *SigningTwice*:
two tabs, a redirect sent twice, a restart. *SigningOnce*: a flow or a proxy's
token, the account coming or going, notices and an enrollment. A type invariant is
checked with the first property of each module's run, as one of its conjuncts.

Why the bounds are enough. Every component's hazards involve two actors that
conflict on one thing and, for eviction, a third thing to choose: two requests,
two replicas, two sign-ins or one and the administrator, and three users for the
lru order of a pool of two. Two requests never fill a pool of two, so
the run plays a pool of one as well, where acquire finds every helper busy; its
constraint `SmallIfOne` keeps that pool to two users and two processes.
`HelperPool` needs three entries so that a retired helper, its replacement and
another user's can exist at once. `VfsWrite` needs one version that was there
before and one for each of two writes, and one collision in the trash (one
suffix, one retry) for the retry loop. Its two requests overlap where the steps
of requests are what interleaves, and come one after the other where the flushes
and the crash of the host are. They are started again and again, so that removes
and moves also fall between the steps of a write. Three ticks of the file system's clock give a state file
three versions: one cached, one committed by the other replica and one more.
The epoch file needs two, one per change. A queue of one or two rows is full with
the smallest number of people. `Provision` has one identity more than two limits
of two let through, and a clock that leaves the shorter window within the longer
one. The seven nodes of a search are two levels below the root with a directory
at each, a hidden one, a name that begins another and one below the depth limit;
a frame holds two entries without stats and one with, so that a directory takes
two pages; two changes take a node away and bring it back, or close a directory
and remove an entry. Six cells hold an entry with its stat, and shorter messages with
something left over. Four rosters are enough for one user to be a member, a reader,
both and neither in turn; a TTL of two ticks has a moment within it that is not
the first. A day of two ticks and five ticks have a day that expires between two
others, also between a query's listing and its reading. A reading of the roster
takes one tick, which is enough for an edit to fall into it. The bounds in guards are `MaxNow`, `MaxChanges` (`SessionEpoch`), `MaxNow`
(`StateFile`, `Provision`), `MaxAttempts`, `MaxLate`, `MaxCrashes` (`VfsWrite`),
`MaxActors` (`Identity`: sign-ins and administrators that act at a time),
`MaxEdits`, `MaxFrame`, `MaxCells` (`Search`, `Wire`), `MaxTears`, `MaxOps`,
`MaxNotes`, `MaxNow` (`ActivityLog`), `ReadTime` (`Teams`), the budgets of a scene (`Access`) and the
number of calls (`HelperClient`). `CHECK_DEADLOCK FALSE` is used nowhere: where
nothing is left to happen a disjunct says so (`Ended`, `AtRest`, `Gone`), and a
request that is stuck half-way is a deadlock.

Symmetry sets are used in the runs without liveness only: users, requests,
entries, group sets (which the pool only compares), replicas, keys, versions not
there at first, subjects, identities and sign-ins. Accounts and addresses are not
interchangeable in `Identity`, where one address derives one account.

## Fairness

* `MCHelperClient!MCSpec`: weak fairness of the client's reader and of each caller's
  own steps. Nothing makes the helper answer, die or be closed, nor a context end.
* `StateFile!FairSpec`: weak fairness of each replica's next system call and of
  the clock. Weak is enough even for the lock: what has to be shown is that its
  holder gives it back, not that a particular waiter gets it.
* `Program!FairSpec`: weak fairness of `run`'s own steps, of the supervisor's
  goroutine, of the deadline that ends a drain and of the kernel ending a child it
  has killed; strong fairness of a child being started, which may fail any number of
  times in between (each failure is followed by a pause, and another try). A child
  is never made to end by itself, a signal never to come, a request never to return.
* The other modules state safety only and assume none.

## What is proved

`tlapm` checks every theorem for all values of the constants.

**`HelperPoolProofs`**, from `PoolAssumption` (requests are finite in number, the
ceilings are positive, `None` is no entry and no user, uids are natural numbers).
`NeverStoppedInUse` is not inductive by itself: a step that stops idle entries
must know that a count of zero means that nobody holds the entry. The inductive
invariant `IInv` therefore has `TypeOK`; `Holding` (a request in use of an entry
holds a running one of its own user, never root's, and any other request holds
none); `Asking` (a request under way has a user); `Mapped` and `Capped` (the map holds running
entries under their users' names, at most `MaxHelpers`); and `InUseIsHolders`
(each count is the number of its holders). There is one lemma per action; the
two things several actions do, retiring a set of entries and returning a request,
are lemmas of their own. From it follow `TypeCorrect`, `NeverStopped`,
`CountIsExact`, `PoolStaysSound`, and the action properties
`ResolvedGroupsServed` and `RetiredDrains`. The last says three things of an entry
that is out of the map: it is never checked out again, its count only falls, and in
a closed pool the release that makes it zero stops its helper (`ClosedStops`), for
which `ClosedIsEmpty` shows that a closed pool's map has nobody in it. With a pool
that is not closed the same is false: `pool_leak`. `RoomFromTheBack`
proves `EvictsOldest`: what makes room is idle, `Mapped` tells the requester's own
entry from everybody else's, and `ListIsOrdered` shows that of two entries one is
nearer the front at most.

**`StateFileProofs`**, from `ConstantsOK` (keys are finite, the special values
are special). `LockIInv` (types; who is in the critical section holds the lock;
which labels belong to which call) needs nothing more, so `TypeCorrect` and
`HoldersFileOnly` hold with failures and a coarse clock. The rest is proved under
`Sound == FineMtime /\ ~Fails /\ ~SelfLoad`: mtimes tell versions apart,
no system call fails, and replicas load through the Guard. `IInv` adds that no
mtime a Guard remembers is later than the file's, that a Guard whose mtime is the
file's goes with a map that is the file's rows, and that what a
replica has may be found in its `window`. From it: `WritesBuildOnCommitted`,
`ReadsAreFresh`, `CacheIsSound`, and `ImplementsMap`: every step of the replicas
is a step of `StateMap` or a stutter.

**`BackgroundProofs`** is of what runs beside the requests. Of `HelperClient`, from
`ConstantsOK` (two constants are Booleans); the calls need not even be finite in
number. `Matched` says what must never be seen, and is far from inductive. `IInv`
adds where a call is while its request or its reply is under way (`Underway`: it was
sent, its channel has had no reply, and no two replies on the socket carry one id);
that a registered call's channel is empty and a caller that still waits at an empty
channel is registered (`Registered`); and that the reader's end and `closed` are one
event after which nobody registers (`Stopped`). `RepliesMatched` follows.

Of `Program`, from `ActivityConstants` (lengths and bounds are numbers, operations
those smbd has a transcript for) and `FlagsShape`:

* `ShutInv`, for `LeavesNothing`. A request is cut by three things: a child that was
  told to go ends, the socket is closed, or a request finds it closed. `Looped` says
  that a child is told to go, or killed, only after `stop`, which is closed after the
  drain; `Asked` that nobody asks without an interface, and that its socket is open
  until the process is gone; `Emptied` that what `Drained` has seen stays so.
* `StoreInv`, for `AcknowledgedStays`. `Stands` keeps an acknowledged event at its
  place in its day's file; that pruning goes by the event's time, which may be
  earlier than now and never later (`Timed`), and that of two times the later is of
  no earlier day (`DaysInOrder`), is why the file outlives every `Record` within the
  window. What `readDay` returns is by induction over the file (`ReadSteps`,
  `WholeIsRead`).
* `OnceInv`, for `OncePerLine`. `Written` and `Distinct`: each piece of a log is of
  one line, and no line is begun twice, whatever is torn or rotated. `Sourced`: each
  event on record has its line, which Tail has passed for good (`Passed`: wherever it
  opens a log, it is at its end), and of an operation's lines one at most stands for
  it (`Meaning`). A line that is read now is not passed yet, hence not on record.

The attempt changed three things in `ActivityLog`: a line that failed is looked at
before its kind (two guards of a `CASE` overlapped, whose value TLA+ leaves open),
`readDay` is a recursive function, and the assumption names the operations there are.

**`VfsWriteProofs`**, from `VfsAssumption`. Everything a helper call can do to the
names is stated once: `Shape` lists the calls there are, `CallEffect` what each does
to the namespace, and `OneCall` that a step other than a crash performs one of them
or none. `CompleteInv` has the types; `Stored`, of the names and of the names on the
disk: what has a name outside the temporary files is synced; `Steps`, how far the
version of each request has got at each of its steps; and `Underway`, what a call
whose caller has gone may still be: a rename has a synced version, a create belongs
to no request any more. This is why `TargetIsComplete` holds although a rename may
come when nobody waits for it. `LossInv` adds `PinnedInTrash` (at its rename, what a
write has pinned is in the trash or was deleted there: as processes see the trash,
which is not what a crash leaves of it) and `Safe` (what was answered is synced and
under no temporary name, and what nobody has touched since is under its name on the
disk too). Without `Safe` a crash could take back the last name of a version its
`Write` has just flushed, and without the part on temporary names a second rename
could. Nothing in it speaks of the trash on the disk: nothing flushes that. From it
`LossIsOverlap` proves `LostByOverlap`, whose last disjunct gives a crash what was
overwritten, removed or moved since; `NoWindowOpens` proves `NoWindow`.

**`SessionEpochProofs`**, from `ConstantsOK`. `LockInv` (whoever is between its read
and its unlock holds the lock, and is about to write the file it read, or an empty
one if it could not, with its own user's time changed) gives `NoBumpIsLost`, with
crashes, failures, coarse file times and overlapping changes: a version of the file
differs from the one before in one user's time, or is written by a bump that could not
read that one. `NoBumpIsLostWhenRead` is the same under `~FileFails`, without the second
half. `OwnSessionStays` is proved under `~Overlap`: with two changes of one user
the property is false, see below. `EpochInv` adds `Alone` and `Growing`: the times
of the file only grow, or go when a bump could not read them, and a change that has
not written yet finds nothing later than its own. `OthersStayClosed` is proved under `~Overlap` and `FineMtime`:
`CacheInv` adds that a replica whose cache has the file's time has the file's
contents (`Remembered`), and that a lookup in each of its four steps knows at least
what had been answered when it began (`Looking`), unless it could not look (`stale`)
or the user's time was taken out of the file (`forgot`).

**`IdentityProofs`**, from `ConstantsOK`. What `Pin`, `AttachEmail`, `Approve` and
`Forget` keep is proved of the four operations, whoever calls them (`PinsKept`,
`AddressesKept`). `IndexInv` says that each index holds exactly what the records say
(`Addresses`, `Objects`), for which the steps of a sign-in must carry accounts and
addresses (`Carried`); `IndexesStayInStep` follows, and `BindingsAreKept`.
`PersonInv` adds `Brought` and `SignedIn`, which `OnePerson` is made of, and `Found`:
the account a sign-in found by its subject is still that subject's when
`AttachEmail` comes, unless it was forgotten in between. Without `Found` the second
store call could bind an address to somebody else.

**`ProvisionProofs`**, from `ConstantsOK` (the limits are positive; `RefireAfter` is no
longer than the hour and `MaxCalls` no more than `MaxFired`, as the constants of the
code are). `StatusInv` has the types and that a sign-in under way has an identity and,
from the answer on, an account; `StatusTellsHolds` follows. `AnswerInv` adds `Knows`:
an account that existed when the endpoint answered goes on existing until `Check` has
seen it (`ResolvesOn`), and who waits or binds was given one that did not, or that
the name service would not find. From it `BoundIsNew`, and `BoundIsNewWhenAsked` under
`~NameFails`. `LimitInv` says what the two records of `reserve` are of the calls that
were made: the times of `made` grow (`Ordered`); `calls` are the last of them and all
others are an hour old (`Remembered`); a call that is not `RefireAfter` old is in
`fired`, or a later one is (`FiredTells`); what is in `fired` was a call (`FiredMade`).
So what a cleaning keeps are calls of one window, and `MaxCalls` bounds both
(`LimitsAlwaysHold`). What the loop of `reserve` keeps is a last part of its list
(`KeptIsLast`) because the list is in order.

**`AccessProofs`**, from `ClockConstants`, `TeamsConstants`, `ShareConstants`,
`SignInConstants` and `SceneShape` (what a roster and a request consist of; bounds and
lifetimes are numbers; a batch is not empty, which `handleTeamsApply` sees to), for
any scene. Each of four invariants speaks of one part of the process and holds
whatever the other parts do.

* `SignInv`: a flow in the table, a browser's cookie and a request under way go back
  to a beginning (`FlowsBegun`, `FromFlow`); a request has at each of its steps an
  account that was mapped, then one that was let in (`Vouched`); a flow is in one
  place at most, the table, a request or a session (`OneUse`). From it
  `SessionsAreAsserted` and the part of `FlowsSignInOnce` that is not types.
* `TeamInv`: what a request has asked fits where it is (`Asked`); what it may do was
  its actor's to do (`Permitted`); its last edit of each membership stands unless
  somebody else undid it (`Landed`); a stream's look has seen every change it is past
  (`Watched`). From it `AppliedIsSeen`, `ManagersOnly` and `SuccessLands`.
* `LinkInv`: a request for a link has found it live and unlocked (`Fetched`,
  `Unlocked`), and a helper's groups are those of a group table that stood when they
  were read, or after (`CredsSound`). From it `ServesTheAllowed`, for the scenes that
  keep the past, since that is what the statement is about.
* `RouteInv`: the roster is one as operators write it or a request left it (`Viewed`:
  no change of members takes a reader's view away, by induction over a batch,
  `BatchViewed`), and the cached one is a roster that stood while it was read, or after
  (`CacheSound`). From it `ReadersRouted`, for the scenes that keep the past, and
  `HintsAreTrue`. Both have the hypothesis `EveryReaderHasAView`: usersync makes a view
  of a team for each group that reads it (`docs/access-control.md:112`). The code counts
  on it: of several groups a reader is in, the first by name is taken, whether it has a
  view or not, "the views are equivalent" (`views.go:113-128`). Without it a reader
  through two groups is refused what one of them may read, and both properties are
  false. `MCAccess` assumes it too, so that TLC evaluates it on the run's rosters. The
  attempt made `RoutesFresh` say `MembersOf`: a reader no roster declares has no members.

`SuccessLands` needs to know what a batch leaves of a roster, `BatchLands`: induction
over the batch. No theorem of the library can be used for it, but a least
counterexample can be had from finite sets (`Least`, `UpTo`), and the recursive
function from the definition of `CHOOSE` (`MemberSteps`). The attempt changed
two history variables: an administrator manages teams no roster declares too
(`MayManageTeam` does not look; `Manages`), and an edit that takes a whole team out
of the roster changes its memberships (`Differ`). Without either, the properties
were true of the instances and not in general.

TLC checked each of these invariants on its run's own instance before it was proved.

Only model-checked: `Search` and `Wire`; `QueryIsNewest`, since what a query answers
is a fold over a sorted set of days, sorted again by a `CHOOSE`. Out of the prover's reach:
liveness (`LockReleased`, `NoCallOutlivesHelper`, `Supervised`), `ENABLED`, and all
of `Search`, which has a recursive operator (`Above`). `Recoverable` (`vfs_race`) is
false, and so are the properties left out above where a constant is set otherwise.

## Where the code and its words part

Two disagreements are runs of their own:

* **A retired helper may never be stopped** (`pool_leak`, `pool.go:190`).
  `release` asks whether the user has an entry in the map, not whether this entry
  is the one. A helper retired while busy and already replaced is left running,
  with the old groups, against "a helper retired while it was busy is stopped by
  whoever drops the last reference".
* **Two overlapping writes can lose an acknowledged version** (`vfs_race`,
  `vfs.go:415`). Both link the same old version into the trash; the first one's
  rename is replaced by the second's without ever having been linked. `LostByOverlap`
  (`vfs`) says that this, a rename abandoned and performed late, and a trash
  entry moved back out during the write are the only ways while the host is up.

Others are what a property of a passing run makes an exception of, and TLC finds each
when the exception is taken out:

* **A crash of the host can lose what an acknowledged write has overwritten**
  (`vfs.go:430`, `442-476`). `Write` flushes the directory of its target, and nothing
  flushes the trash, where the old version's only link is: "항상 복구 가능"
  (`nas-design.md:539`) holds on file systems that commit the link no later than the
  rename. `Remove` and `Move` flush nothing. `Recoverable` fails with one request and
  one crash; `LostByOverlap` says that a version still where its `Write` left it is
  safe.
* **A password change that cannot read the epoch file forgets all others'**
  (`epoch.go:91-94`). `bump` ignores the error of `os.ReadFile` and of
  `json.Unmarshal`, and renames what is then a map of one user over the file: the
  sessions other changes have closed are open again, although "two replicas' bumps
  cannot lose one" (`epoch.go:45-46`). `[][OneTimeMoves]_vars` fails on the instance of
  `session`; `LostOnlyUnread` says that nothing else takes a time back.
* **Provisioning may bind an account that was there all along** (`provision.go:168`).
  `Gate.Exists` is `err == nil` of a resolver that fails with `getent` and `id`
  (`auth/gate.go:104-105`, `helperpool/creds.go:48-86`), so that no answer reads as "it
  does not exist", against "ONLY to an account that did not already exist when the
  endpoint answered" (`provision.yaml.example:18`). `NewOnly` fails on the instance of
  `provision`; `NewUnlessUnseen` says that this is the only way.
* **The descriptor of a late reply is not closed** (`client.go:107-110`, `176-178`). A
  call that gives up leaves its id registered, so that `readLoop` finds it and puts the
  descriptor into a channel nobody reads; the branch that would close it is for ids
  that are not found. Only the finalizer closes it. `Matched` allows exactly that.
* **The error of a bad edit outlives it** (`file.go:170`). Putting the rules in force
  back is "unchanged" (`Reload`, where the file is `cfg`), so the error stays in
  `Status`, which says it is "set when the file on disk right now cannot be used".
  `StatusTells` has one direction only.

Some are reachable by setting a constant:

* `StateFile` with `FineMtime = FALSE`: a rewrite of the same length in the same
  mtime tick is not noticed and a row is lost (`BuildsOnCommitted`,
  `statefile.go:85`), although "every write here changes the length or does not
  change the file at all".
* `StateFile` with `Fails = TRUE`: a change whose write failed, and was reported as
  failed, stays in memory and is persisted by the next one (`BuildsOnCommitted`,
  `statefile.go:154`). With `SelfLoad = TRUE`: `NewFileQueue` reads and then calls
  `Seen`, which marks whatever is there by then as loaded (`identity/file.go:72`).
* `SessionEpoch` with `Overlap = TRUE`: of two changes of one user's password the
  earlier time may be stored last and cookies come back (`OthersClosed`,
  `session.go:141`). With `FineMtime = FALSE`: a second bump in the same tick is
  not noticed by a replica that loaded the first (`epoch.go:66`).

And some that follow from reading a definition of the models:

* A bump that fails is not reported: `handlePassword` answers
  `sessions_closed: true` all the same (`password.go:86`; `BumpError` goes on to
  `Reissue`). `OthersClosed` is stated for the changes whose epoch was written.
* A login verified with the old password before the change and given its cookie
  after the bump stays signed in (`Login`, `LoginCreate`; `server.go:383`).
* More than `MaxHelpers` helpers run while retired ones are still busy (`Capped`
  speaks of the map; `pool.go:209`).
* `Write` may return the error of `syncDir` after its rename has replaced the target
  (`SyncDirFails` cleans up a temporary name that is gone; `vfs.go:430`).
* A sign-in attaches an address to the account it found. If the administrator has
  forgotten it and approved somebody else in between, the address answers for that
  person: `OnePerson` leaves out what such a sign-in records (`forgotten`
  in `Attach`; `sso.go:305`).
* A signal before `signal.NotifyContext`, while darak starts and may wait ten seconds
  for the identity provider, kills it with nothing closed (`Killed`; `main.go:415`).
  The interface it may have started goes by its `Pdeathsig`; the socket stays.
* An acknowledged event behind a torn line is lost with it: `Record` appends to
  whatever the file ends with, and `readDay` skips what does not parse
  (`store.go:206-211`). `AckedKept` leaves that event out.
* A lookup that cannot stat, read or parse the epoch file goes by the map it has, and
  says nothing (`LookupStatFails`, `LookupLoadFails`; `epoch.go:66-73`). `OthersClosed`
  leaves such a lookup out.
* A helper that died stays in the map of a user who keeps asking, since nothing
  tells the pool (`pool.go:115`).
* An account that comes later than `wait` is not completed by the next sign-in
  (`provision.go:292`). `Await` gives up and forgets whom the account was made for
  (`TimesOut`); the next sign-in is turned away by `RefireAfter`, and one after that
  finds an account that "already existed" and ends in the queue until an
  administrator approves it. `config.go:55-57`, `provision.yaml.example:31-33` and
  `provision.go:290-291` say "the NEXT sign-in completes it".
* "It lands or it does not as a whole" (`teams.go:333`) is true of a sidecar only: `local.go` edits the
  source change by change and rolls nothing back (`Edit`, `WriteFails`). `SuccessIsLanded` is about what is reported as done.
* A status stream reads one group after another, so the changes it calls applied
  need never have been so together, and a `getent` that fails is read as an empty
  group, which makes a removal look applied (`Look`, `NextLook`; `teams.go:406`).
  `AppliedWasSeen` allows both.
* Of several teams that read a folder, a reader is routed by the first by name, also
  when it is one that has no view of the folder (`Route`; `views.go`).
* A link goes on serving for up to `CredsTTL` after its owner has lost the folder
  (`Trusted`; `pool.go:127`): `ServedIsAllowed` says so.
* An enrollment stream repeats the stage it was started with until the gate lets the
  account in or ten minutes are over; a denial that comes later is never picked up
  (`Poll`; `sso.go:986`).
* Two tabs that sign in share one cookie: the second to begin makes the first one's
  callback fail, and takes its flow with it (`Callback`; `sso.go:106`).
* After smbd's log was rotated, `store.go:278-280` says "Reopen from the start of the
  new file", where "everything in it is genuinely new"; but it is opened by
  `openLog`, which goes to its end (`OpenAt`, `TailOpen`), so the lines written to
  it until then are passed over, and a log that has grown past the old one's length
  by the next look is not noticed (`Replaced`). The first half of a line read in two
  is lost too. `OncePerOperation` says that no operation is recorded twice or as
  something else, not that none is missed.
* A search whose deadline passes in the middle of a listing ends with an error
  line, one whose deadline passes between two says "truncated" (`ReadPage`,
  `NextDir`; `search.go:174`).

## What is not modelled

The bytes within a field of the wire format; `Open`, `Stat`, `Mkdir`, `Chmod` and
extended attributes of vfs (one helper call each) and the HTTP handlers that make
one such call (`server.go:591-850`); the scoring of names (`internal/fuzzy`); the
signature checks of the OIDC exchange, taken by their outcomes; the MAC of cookies;
the journal of the identity store, which is only written; a malformed state file
that is half loaded (one that is refused is `FreshFails`); the loss of unsynced data
of state and epoch files in a crash of the host (that an epoch file cannot be read
is modelled, whatever the cause);
commands of the system (`smbpasswd`, `pdbedit`, `ntlm_auth`) and of the
administrator's pages (`admin/users.go`, `ops.go`, `disk.go`), which keep no state
between two calls; the gRPC client of the control plane, taken by its outcomes;
compression, branding, rendering and the browser; flags and wiring of `cmd/`.
Generated code (`control/controlpb`), a seventh of the implementation, is left out.

## Plan

1. **Done**: `HelperPool`, `StateFile`/`StateMap`, `VfsWrite`, `HelperClient`,
   `SessionEpoch`, `Identity`, `Provision`; proofs of the first two.
2. **Done**: `Wire` and `Search`; `Teams`, `Share` and `SignIn`, composed as
   `Access`; `UiProc` and `ActivityLog`, composed as `Program`. The types and the
   smaller invariants of each module are now conjuncts of its first property.
3. **Done**: proofs of `HelperClient`, `VfsWrite`, `SessionEpoch`, `Identity`,
   `Provision`, `Access` and `Program`.
4. **Left to model**: a chmod between whose check and call the name is moved; state
   files that are half loaded.

## Running

    tlc -workers 2 -config VfsWrite.cfg MCVfsWrite      # any run of PROJECT.json
    tlapm HelperPoolProofs.tla
