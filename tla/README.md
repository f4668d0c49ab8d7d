# The JDK manager in TLA+

TLA+ models of `jdk`, a JDK version manager for Windows written in Rust, with
the TLC configurations that check them and TLAPS proofs of the properties that
matter most. Paths such as `install.rs:99` below are relative to
`src/crates/*/src/` and unambiguous unless the crate is named.

Contents: 1 the program and its parts, 2 what can go wrong, 3 modules,
4 runs and bounds, 5 fairness, 6 proofs, 7 what the models found,
8 what is not modelled, 9 plan.

## 1. The program and its parts

`jdk.exe` and a set of shims (`java.exe`, `javac.exe`, ...) share one
directory, the store, `JDK_ROOT`. There is no daemon: every command is a
process of its own, and builds, IDEs and consoles start many of them at a
time. All coordination is through the file system and the registry, and a
process can be killed between any two calls. This is what makes the program
hard, and what the models are about.

| Part | State | Operations | Meets others through |
|---|---|---|---|
| Install lock (`jdk-core/install.rs`) | `cache\locks\<vendor@version>.lock` | acquire, release, sweep of orphans | lock files; held around an install |
| Store (`install.rs`, `jdk/uninstall.rs`, `jdk-resolve/store.rs`) | `candidates\java\*`, `cache\staging`, `cache\downloads` | install, uninstall (rename aside, delete), sweep, resolve, launch | directories; handles of running programs |
| Global junction (`current.rs`, `use.rs`) | `current`, `current.new` | retarget, unlink, elect a first global | junctions; `JAVA_HOME` points at `current` |
| Executables (`file_ops.rs`, `shims.rs`, `update.rs`, `setup.rs`, `undo.rs`, `jdk-shim/main.rs`) | `bin\jdk.exe`, `shims\*.exe`, their `.new` and `.old`, `cache\update` | place, replace while running, roll back, sweep, restore, remove | file names; images of running programs |
| Environment (`env.rs`, `config.rs`, `setup.rs`, `undo.rs`) | `JAVA_HOME`, `Path`, `config.toml` | setup, undo, purge | registry values; the user and other installers |
| Catalogue and cache (`catalog.rs`, `cache.rs`) | `cache\index\*` with ETag sidecars, `index.lock` | get, evict, lookup | the cache lock; the published site |
| Download (`download.rs`) | `<name>.zip`, `<name>.zip.part` | fetch, resume, restart, verify | the vendor's site; runs under the install lock |
| HTTP (`http.rs`) | none between requests | check the policy, retry, back off, follow redirects | used by the two above, the release check and the generator |
| Selection (`version.rs`, `selector.rs`, `cascade.rs`, `pin.rs`) | pin files | compare, match, rank, walk up | read by shim and CLI, edited by anybody |
| Shim (`jdk-shim/main.rs`, `jdk/install.rs`) | none | resolve, install by itself, look again, launch | store, pin files, config.toml, executables |
| Release (`release.rs`, `sshsig.rs`, `jdk/update.rs`) | `cache\update` | newest version, signed sums, bundle, the swap of the three copies | HTTP; the executables; `setup` and `doctor` speak of the same files |
| Extraction (`extract.rs`, `layout.rs`) | none | unpack an archive entry by entry | used by install and update |
| Formats (`index.rs`, `foojay.rs`) | none | parsers | used by the catalogue |
| Index generator (`jdk-index-gen`) | the published index | list, hash, stage, two gates, publish | foojay and vendors; produces the site of the catalogue |
| Reports (`doctor.rs`, `which.rs`, `current.rs`, `list.rs`, `available.rs`, ...) | none | read and print | each looks at the state of the parts above, and names the command that would mend it |

How they interact. An install takes the lock of its name, looks a second time
whether the JDK is there, downloads the archive, extracts it to staging and
renames the result to its place; the first one also elects a global by
retargeting `current`. An uninstall takes no lock: it renames the directory
aside, which Windows refuses while a program runs out of it, and deletes what
it renamed; what it could not delete is swept by a later uninstall. A shim
resolves a selector against the same directories, and starts `jdk install` when
nothing matches. `jdk setup` places executables and writes the environment;
`jdk update` replaces the executables while they are running; `jdk setup
--undo` takes all of it back, and `--purge` the store too.

What makes each part correct:

- install lock: one install of a name at a time; waiting ends;
- store: a JDK is there whole or not at all, also to a running program;
- junction: a working `current` never points at nothing, and what is not
  jdk's is not touched;
- executables: never half written, never gone;
- environment: what the user had comes back, and what is not jdk's is kept;
- cache: it moves forward only, and a 304 is believed of the right body;
- download: only a verified archive gets its name, and no leftover stops a
  retry for ever;
- selection: the nearest pin decides, one JDK is the best, stable goes first;
- shim: what runs answers the pin, what was installed for it is found again,
  and nobody's `java` accepts a vendor's terms;
- release: what an update installs was signed for it, is no older than what is
  there, and the copies of it stay in step;
- reports: what they say agrees with what the other commands do;
- generator: a published index has the required vendors, has not shrunk too
  far, and changes no hash of its own accord.

## 2. What can go wrong

PROJECT.json lists the hazards one by one, each at its line and with the
properties that would show it. They fall into seven groups.

- *No lock at all* (junction, executables, environment): two commands, or one
  command and the user, work on shared names in steps that interleave.
- *A lock that is a file*: deleting unused lock files races with opening them.
- *Death between two steps*: staging, parts, asides, a body without its
  sidecar, a backup without its overwrite.
- *A look before, an action after*: `current` inspected and then swapped,
  `JAVA_HOME` read before a prompt, a destination tested before the lock.
- *A network that answers late, with another build, or not to the end*.
- *Servers that are believed too much*: a redirect that chooses the version, the
  host, or the number of requests; an archive that is whole and not signed.
- *Two deciders that must agree*: the catalogue's ranking and the store's, the
  shim's first look and its second, `jdk which` and the shim, `jdk doctor` and the
  command it sends the user to, the refusal's suggestion and the rule that
  refused, the guard's baseline and the index that is replaced.

## 3. Modules

Each module models one part, one action per call of the code that changes
state or can be refused; a refused call and the death of a process are actions
of their own. Mutants, operators named after the bug they would be, stand
before the definition they vary.

### NameMutex, InstallLock

`InstallLock` models lock files as objects with an identity, because that is
where the danger is: a name denotes a file until it is deleted, and opening it
again makes another. `handle[p]` is the open handle, `path[n]` what
`<name>.lock` denotes. `SweepOpen`, `TryLock`, `DropProbe`, `StartDelete` and
`FinishDelete` are the steps of `sweep_orphan_locks`, `AcquireOpen` and
`AcquireLock` those of `InstallLock::acquire`. What NTFS does is taken from how
the code relies on it: an open without `FILE_SHARE_DELETE` excludes a
deletion, and the handle that deletes excludes such an open (`BeingDeleted`,
`Deletable`). The abstract specification is `NameMutex`, a mutex per name, and
`InstallLock` implements it (`ImplementsNameMutex`).

### AtomicStore, Store

`Store` composes with the lock through `NameMutex`, not through its details.
`tree[<<n, k>>]` is what the directory of name `n`, renamed aside `k` times,
holds: nothing, some files, all, or a mixture. Install runs from `CheckDest` to
`ReleaseLock`, with extraction in two steps so that a crash can fall between;
uninstall is `Resolve`, `RenameAside` (refused while something runs there), and
deletion file by file. Launches come from shims (`Start`, `Exit`).
`Parses`, `Installed`, `RanksAbove` and `Best` are resolution. The abstract
`AtomicStore` adds a JDK in one step and removes one nobody uses in one step.

### Current

`entry` is what sits at `current` and at `current.new`: nothing, a junction, an
empty directory, or something foreign. `retarget` is `ClassifyX`,
`DeleteJunction`, `RemoveDir` (the unlink of leftovers), `MakeDir`,
`SetReparsePoint`, `Swap`. The callers differ in when they look
(`Inspect`) and are `use`, `install`, `setup` and `undo`. `Settled` says
whether JDKs appear and disappear between commands only. `jdks` are those which
have the `bin\java.exe` that doctor looks for; no command does before it points
the junction at one, so that a half-deleted JDK may become the global
(`store_resolution`). `Spoil` takes that file, at any time. `JunctionCheck` is
what doctor says of the result.

### ExeSwap

One executable with its four names. Files have identities, an image of a
running process pins its file, and an antivirus may hold a fresh one
(`Scan`). The steps are those of `replace_running`: swap; when refused, clear
the old aside, move aside, place, retry, roll back; and of each command around
it. `partial` are files not completely written. Two commands run side by side
when both are in `Together`; `met` remembers that two which write have met, and
`undone` that an undo has run.

### Environment

The registry values and `config.toml` as setup, undo and purge read and write
them. Every write is preceded by a read in an earlier step, with its result in
`seen`, `kept`, `raw` or `loaded`. `users` is a history variable: what the user
last made of `JAVA_HOME`. `Unwritable` are values that `config.toml` cannot
hold, for which the backup is refused and setup ends. `HomeRemedy` and
`PathRemedy` are doctor's checks of `JAVA_HOME` and of `Path`, as the
commands they send the user to; an entry of jdk's may be on `Path` twice, when
the user has pasted it once more. `Without` is the removal of entries, a
recursive function of the list.

### Catalog

A lookup reads the index, then the platform file the index names; `pc` says
which read, `sub` where in `Cache::get`. The body and its sidecar are written
in two steps, each atomic by rename. Generations stand for contents and for
ETags: the site always sends an ETag, and `says[g+1]` is the file that index
generation `g` names. The servers of the two files catch up with what was
published independently (`CatchUp`). A 304 is what `http.rs` makes of it: an error, from
which the cache falls back to its stale copy (section 7). `CacheIntegrity` is
doctor's check of what is cached.

### Download

Archives are sequences of blocks; `hashed` is what the hasher was fed. `Reuse`,
`HashPart`, `Ask` (200: `Whole`, 206: `Remainder`, 416: `Beyond`), `Receive`,
`Verify` and `Finalize` are the steps of `fetch_archive_capped`. A reply may be
of another archive than the one that was asked for, and a body may break off
without saying so. `calm` is no state of the program: once set, nothing more
goes wrong, so that `RetriesSucceed` can say what follows. The names of the module are its
own (`DownloadInit`, `DownloadSpec`, ...), for the sake of section 6.

### Versions, Shim

`Versions` has no state. A text is cut where `Version::from_str` cuts it, and a
tail is a sequence of tokens, numbers in the order in which `natural_cmp` puts
what they stand for, so that `Less` is lexicographic; `Parse` and `Display` are
what parsing and writing do (a pre-release behind `+` is written behind `-`).
`Matches`, `PreAccepts` and the folding of a lone build number are
`Version::matches`; `Outranks` is the ranking of store.rs and of catalog.rs.

`Shim` is one `java`, one `jdk install` or one report (`jdk which`,
`jdk current`, doctor's look at the pin) among others who edit everything it
reads. Pin files have no variable: they may be written between any two reads,
so a read finds anything, and `run[p].view` is what the walk has read. The
actions follow `run` of the shim: the walk (`NoDeclaration`, `Declaration`,
`CascadeFails`), the lazy read of `config.toml` (`LoadVendor`), the first look
(`Find`, `FindsNothing`, `ScanFails`), the decision (`DecideInstall`,
`Answer`), the child (`Spawn`, then the actions of `jdk install`: `Resolve`,
`Terms`, `Install`, `Elect`, each with its failure), the second look, and the
launch (`UseGlobal`, `Exists`, `Launch`). A report reads `config.toml` first
(`LoadSettings`), walks and looks as the shim does, and shows what it found
(`ReportTool`, `ReportCurrent`). The install is one step, as `Store`
shows it to be; the fallback to the live API is in `Offers`.

### Urls, Http, Sshsig, Archive, Update

`Urls` is what `http.rs` looks into: `Allowed` is `UrlPolicy::check`,
`Absolutize` resolves a `Location`, `Resolve` and `Vetted` are
`release::Source`. `Http` is one GET as a component: `Get` starts it, `Check`
lets the policy see every hop before anything is sent, `TransportFails` and
`Answered` are the attempts and the answers, and `reply` is what it came to.
`Sshsig` and `Archive` have no state: `Verifies` is the acceptance of an armored
signature, field by field, where a signature proper is a value only its key can
make; `Extract` unpacks entries one after the other, with their names, links,
sizes and the ceilings.

`Update` composes the four. `bin` and `shims` are three copies of a release,
each the number of the release it was built for, so `ShimsAgree` relates what
`jdk update`, `jdk setup` and `jdk doctor` make of them. An update is
`StartAsking`, `LearnLatest`, `Wipe`, `LearnSums`, `LearnSignature`,
`LearnBundle`, `ExtractBundle`, `SwapCli`, `SwapShim`, and `materialize`:
`Copy` for each tool and only then `Swap` for each. Setup is `StartSetup`,
`materialize`, `PlaceCli`, `PlaceShim`; `Diagnose` is doctor. A death in a swap
may leave a name empty (`HalfSwapped`), which `ExeSwap` has in detail; `torn`
and `lag` are history variables that remember such mishaps. The staging of an
earlier update may have survived its wipe (`Leftovers`).

### Generator

The daily run of `jdk-index-gen` and its workflow, run after run, between
changes at foojay and at the vendors. `BeginRun` loads the published index, or
nothing when it cannot be read; `List` and `ListFails` are the two listings and
the details of one platform, filtered and with duplicates dropped
(`Survivors`) and put in `queue`, a set from which the newest versions go first
(`Heads`); `HashIsAnnounced`, `HashIsKnown`, `HashOnFirstUse` and
`OverBudget` are the chain of sources of a sha256; `Stage` keeps the stamp of
an unchanged catalogue; `Tree` and `Guard` are the gates and `PublishIndex` the
push. `Hashes` is what an index says is behind a URL; a package of a platform
is its version and its URL, an assumption on what foojay lists. A run asks for each thing once, so a change during a run is one before
or after it, and the world changes between runs only. `announced` and `served`
are apart because a vendor replaces an archive before its checksum is updated.

## 4. Runs and bounds

| Run | Instance | Distinct states | What it shows |
|---|---|---|---|
| `install_lock` | 2 processes, 2 names, 4 files | 85,712 | no waiting on a swept file, every install ends, refinement of `NameMutex` |
| `store` | 2 processes, 1 name, asides to level 2 | 3,007,070 | whole JDKs only, none taken from under a program: refinement of `AtomicStore` |
| `store_resolution` | the same | - | violated: see 7 |
| `current` | 1 process, 2 targets | 2,945 | never to nothing, a retarget that succeeds is on its target and doctor says what that target is, the next one clears what it left, a healthy global and foreign entries are kept |
| `executables` | 2 processes, 6 commands, 4 files | 804,382 | any command beside shims, and updates and setups beside one another: the executable is whole, a failed swap rolls back, a last copy is left |
| `environment` | 1 process, 2 values, 2 settings, 2 directories | 1,267,638 | the backup is right and comes back, nothing else is lost, a setup that succeeds is the remedy doctor says it is |
| `catalog` | 2 processes, 2 generations, 2 instants, TTL 1 | 103,089 | sidecars, direction and progress of the cache; a lookup leaves nothing for doctor to mend |
| `catalog_confirm` | the same | - | violated: see 7 |
| `download` | 3 archives of a vendor, 2 other bodies, ceiling 3 | 17,820 | only verified archives; retries succeed |
| `shim` | 1 process, 2 directories, 2 formats, 4 selectors, 3 configurations, 2 vendors | 162,644 | the nearest pin, one best JDK, lazy configuration, reports, terms, second look, suggestion |
| `update` | 1 process, 2 releases, 2 tools, 3 keys, 1 redirect, 2 attempts | 556,089 | requests stay on their side, only what is signed is installed, no downgrade, the copies agree, every command ends |
| `generator` | 3 platforms of 2 vendors, 7 packages, budget 1, shrink 40 % | 3,846,540 | the shrink guard, hashes, nothing forgotten |

Why these bounds are enough.

- *Two processes* are what each race needs: one whose step is stale and one
  that made it so. Every process may run command after command, so more than
  two runs take part in a behaviour. Files are symmetric identities: those of
  `install_lock` are as many as names and handles can hold at a time, so that
  who opens a new one finds it (`Unused`), and those of `executables` one for
  each name, so that a command which needs a fifth, because all names are taken
  and something is open besides, goes no further until one is free. With five
  the same holds of 1,237,854 states.
- *One name* in `store`: names interact through resolution only, and
  the asides of one name at two levels already give resolution its choice.
  Two levels of `.removing` let an aside be renamed aside once more.
- *One process* in `current`, `environment` and `update` is not a
  convenience but the limit of what the code ensures: with two, the properties
  do not hold (section 7). Races are still covered where the code withstands
  them: `ForeignIsKept` is proved for any number of processes, and
  `executables` has two, with `DestIsWhole` conditional on no two that write
  having met (`met`), and `NeverVanishes` on no death.
- *Environment*: two values of the user's, one of which `config.toml` cannot
  hold, two directories of other programs on `Path`, whose order is to be
  kept, and `MaxPath` entries in all: each entry once, or one of jdk's pasted
  again in place of another.
- *Catalog*: one publication gives old and new, one tick makes every entry
  stale. A second publication multiplies the states by ten and adds no kind of
  order: the cache, the reply under way and the site are then three
  generations of which two are compared at a time.
- *Download*: the archives share a first block, so that one can be resumed
  with another; one is longer than the ceiling; a one-block body is shorter
  than a part, which is what 416 needs.
- *Shim*: one process, because the others are there as what they do to the
  store, the global and the configuration (`Arrive`, `Use`, `Uninstall`,
  `Configure`), at every step. Two directories of two formats are a level and
  one above it, a file that decides and one behind it. The four selectors are
  with and without a vendor, a pre-release, and a build number spelled
  otherwise than in the catalogue; two builds of a line in early access, at
  different numbers of digits, are there for the order; the live API has the
  line released, so the two catalogues disagree.
- *Update*: two releases, of which the second trusts a new key, are an update,
  a downgrade and a rotation. Of each release the true archive and sums are
  served, beside an archive that lacks a file, one that unpacks to more than
  the ceiling, a signature for another purpose, one of a test key, and replies
  that are cut off. Locations lead to either release, to another host, to this
  machine, and upwards. One redirect and two attempts reach both limits.
- *Generator*: one URL may be rebuilt, which is the one with a sha1; one version
  is listed three times, with the URL of the first not usable; a loss
  of one in three packages passes 40 %, a loss of one in two does not.

Bounds: `Files` in InstallLock and ExeSwap, `MaxLevel` in Store, `MaxGen` and
`MaxTime` in Catalog, `MaxPath` in Environment, and `MaxDigits` in Versions,
above which no run of digits goes here. Deadlock is checked in every run.

Symmetry is used in `store`, `current` and `executables`, which check safety
only; `install_lock`, `catalog`, `download` and `update` check liveness and use
none, and the others are small enough to go without.

`generator` checks its `GeneratorTypeOK`. The typing of every other module with
state is proved (section 6), that of `Shim` and `Update` as a part of their
invariants.

## 5. Fairness

- `InstallLock`: weak fairness of each process's next step, as a live scheduler
  gives, and strong fairness of `AcquireLock`: `LockFileEx` queues those who
  wait, so one that finds the lock free again and again gets it. Crashes are
  not fair; a process that dies has left.
- `Catalog`: strong fairness of a lookup's steps. A request ends, since
  `http.rs` bounds connection, attempts and body reads, and the cache lock is
  passed on in the same way.
- `Download`: weak fairness of the run's steps and of beginning another. That
  the user, or the build, tries again is the assumption of `RetriesSucceed`,
  together with `calm`.

- `Update`: weak fairness of the command's next step. `http.rs` bounds the
  connection, the attempts and the redirects, and every file operation
  returns; a body that is streamed has no limit of time as a whole, and one
  that stalls is the user's to end. Crashes and losses are not fair.

Store, Current, ExeSwap, Environment, Shim and Generator check no liveness:
their commands are finite sequences of calls that do not wait for one another.
A `java` that prompts waits for its user, and it prompts on a console only
(`Prompts`).

## 6. Proofs

TLAPS checks the following for every value of the constants, under the named
assumptions of the modules and what the last column adds: any number of
processes, files, vendors, packages, directories, releases. Nothing is taken on
trust but the library's own theorems.

| Module | Theorem | Argument | Also assumes |
|---|---|---|---|
| `InstallLock_proofs` | `Typing`, `LockInvariant`, `MutualExclusionHolds`, `Refinement` | `LockInv`: names denote different files; a handle is on the file its name denotes; nobody deletes a file somebody has open; one holder per file. Mutual exclusion alone is not inductive: it says nothing of a process that has opened a file and not locked it yet | |
| `Store_proofs` | `Typing`, `StoreInvariant`, `CandidatesAreNeverPartial`, `Refinement` | `StoreInv`: who is in a locked step holds the lock of its name, staging is in the state its holder left it, and only asides are deleted | |
| `Current_proofs` | `Typing`, `ForeignSurvives` | what a swap moves is what is at the staging path, which no command makes foreign | |
| | `JunctionStays`, `LeftoversGo` | `SoloInv`: what a command has found at `current` and at the staging path is there still; the junction it made is on its target | one process |
| | `SuccessPointsThere`, `HealthyGlobalStays` | `SettledInv`: the target is there until the command ends, whatever files it loses, and who elects a global found none that resolves | one process, `Settled` |
| `ExeSwap_proofs` | `Typing`, `NameIsWhole` | `WholeInv`: only the writer of a staging has an unfinished file, and it has finished it before it moves it | |
| | `LastCopyStays`, `ComesBack` | `StoreInv`: the image that an update executes cannot be deleted, and is renamed only between the name and its aside; who has moved it aside has not cleared the aside, and nothing can refuse the roll-back | `OthersRunAlone`: those that run beside one another are updates from the store's own copy, setups and shims |
| `Environment_proofs` | `Typing` | | |
| | `NothingIsLost`, `UndoRestores`, `SettingsStay`, `OthersStay`, `CommandsAreComplete` | `HomeInv`, `PathInv`: what the command under way has read is still so when it writes. What a removal from `Path` leaves is found by induction over its entries | `OneAtATime`: one command, and a user who waits |
| `Shim_proofs` | `NearestPinDecides`, `ThePinRuns`, `OneIsBest` | `ShimInv`: what the walk has passed pins nothing, and what is to run answers the pin. Nothing needs to keep still for it | |
| | `JavaTakesNoTerms`, `TheInstallIsFound` | `KnowInv`: what a command knows as long as others do no more than install | |
| | `TheSuggestionResolves` | the same, and that the line of a build (`EaLine`) accepts it | `LinesAreNamed`: no published pre-release begins with its build number |
| | `ConfigIsReadLate`, `ReportsAreRight` | `AloneInv`: what it knows if nobody else runs | one process |
| `Index_proofs`, the cache | `Typing`, `SidecarsAreBehind`, `CurrentAnswers`, `ForwardOnly`, `HitsHeal` | `CatalogInv`: ETag <= body <= site <= published for each entry, and the same of the reply of whoever is past its request, who holds the lock. `HitsHeal`: a lookup finds its file at the end of a read, when the cache has what it read | |
| `Index_proofs`, the generator | `RequiredAreThere`, `StampsAreKept`, `ShrinkBound` | `GeneratorInv`: the baseline of a run is the published index until the run ends, and what is past a gate satisfies it. `ShrinkBound` turns the guard's quotient into a bound on counts, which needs that they are finite | |
| | `GeneratorTypes`, `HashesAreTrustedOnce`, `NothingForgotten` | `RunInv`: a staged hash is announced, known or downloaded because none was known; what the run owes to the index is staged or in the queue | |
| `Fetch_proofs`, the update | `StaysOnSide` | `SideInv`: a request goes by the policy of its source, and was allowed before it is sent | |
| | `CopiesAgree` | `CopyInv`: the copies are in step but inside a swap, and there those up to the tool in hand; that an archive unpacks to files of releases is found by induction over its entries | |
| | `OnlyTheSigned`, `NeverOlder` | `SignedInv`: what each step of an update knows: it is the store's own copy and the release announced is newer (or forced); the sums are signed by the source's key; the archive is of the hash they name. The lines of the sums are searched, and what a complete unpacking leaves of `jdk.exe` is found, by induction | `SignedIsTrue`: trusted keys sign only sums that name true archives |
| `Fetch_proofs`, the download | `DownloadTypes`, `HashCoversThePart`, `OnlyVerified` | `DownloadInv`: from the hashing of the part on, the part is what was hashed | |

`CurrentAnswers` is why `MetaIsNeverAhead` matters: had the sidecar been written
first, a death before the body would leave a new ETag beside an old body, and
every 304 from then on would confirm the wrong one.

`OneIsBest` rests on the order of versions. `SeqLessIrreflexive`,
`SeqLessTransitive` and `SeqLessTotal` are about token sequences of any length,
and lift to versions (`LessIsAnOrder`) and to the ranking (`BeatsIsAnOrder`);
`BestExists` and `BestIsOne` are the consequences in a finite store, and
`RoundTrip` says that a version that was written is read back as itself, so
that two directories are two versions.

*Why the further assumptions.* One process, `Settled`, `OneAtATime` and
`OthersRunAlone` are what the program needs and does not enforce: section 7 has
what happens otherwise. They are conditions of the theorems and not of the
modules, so that what holds without them (`ForeignSurvives`, `NameIsWhole`,
`ThePinRuns`) is proved without them. `LinesAreNamed` excludes a version like
`27-+31`, whose build number stands where a pre-release should begin: its line
would be `27-`, which is no selector. `SignedIsTrue` is about the project's
releases and not about the program: where a trusted key has signed sums that
name for one release the archive of another, or one without a `jdk.exe`, no
client could tell. It says nothing of what servers answer, which may be any of
the files there are, signed or not, each from another release. The releases of
`MCUpdate` satisfy it.

*Modules that share a file.* `Fetch_proofs` extends `Update` and `Download`, and
`Index_proofs` extends `Catalog` and `Generator`, so the names of `Download` and
`Generator` are their own.

*Induction over data.* The library states induction with an operator as a
parameter, which the provers cannot instantiate. For sets of numbers it
follows from the naturals being well founded (`NatSetInduction`, from
`NatLessThanWellFounded` and `WFMin`), and the set is then the numbers for
which the statement at hand holds. So the removal from `Path` is followed for
any number of entries, the extraction of an archive likewise, and a best JDK
is found in a store of any size.

Model-checked only: liveness (`EveryInstallEnds`, `EveryLookupEnds`,
`RetriesSucceed`, `EveryCommandEnds`), which is out of the prover's reach, as
is all that depends on ENABLED. Every safety property that a passing run checks
is a theorem, under the further assumptions of the table. Proved only, with no run of its own: the typing of the other modules, the invariants
of the table, `MutualExclusion`, `RunningIsWhole` (with `CandidatesAreWhole`),
`AnswersAreCurrent`, `HashIsOfPart`, `RequiredFloor` and
`UnchangedKeepsStamp`.

## 7. What the models found

Two disagreements between the code and what it says of itself have a run that
ends in a counterexample.

- **Asides are resolved** (`store_resolution`). `21.0.5+11.removing` parses as
  a version with build metadata, so `best_candidate` may return the directory
  that an uninstall renamed aside, against uninstall.rs:33.
- **A 304 does not refresh the clock** (`catalog_confirm`). `get_with` asks ureq
  whether a status is a redirection (http.rs:213), and 304 is one; it has no
  `Location`, so the request fails, the cache falls back to its stale copy
  (cache.rs:78) and the sidecar is not written. Every lookup after the first
  expiry asks again, against cache.rs:54, and the arm for 304 (cache.rs:86) is
  never reached.

The following came up while modelling, in instances that are not among the runs; to
see one, give the configuration named here two processes or the constant
shown.

- Two retargets share `current.new`: one renames the other's junction in and
  reports success (`SuccessIsOnTarget`, MCCurrent.cfg, 2 processes).
- `install` and `setup` inspect `current`, then swap: a global set by `jdk use`
  in between is replaced (`HealthyGlobalIsKept`, MCCurrent.cfg, 2 processes,
  `Settled = FALSE`).
- Two setups write the same `jdk.exe.new`, and two updates the same
  `cache\update`: one installs what the other is writing (`DestIsWhole`
  without its `met`, MCExeSwap.cfg).
- Two swaps of a busy shim share its aside: the pre-clear of one takes what the
  other would roll back (`NeverVanishes`, MCExeSwap.cfg, `materialize` in
  `Together`).
- The sweep of a `jdk update` that does not run from the store comes before
  `guard_store_copy` refuses it, and tests for the executable before it deletes
  the aside: with an update that dies in between, the last copy goes
  (`LastCopyIsKept`, MCExeSwap.cfg, `loose` in `Together`).
- A rewrite of `config.toml` puts back the settings read at the start of the
  command, over an edit made since (`SettingsAreKept`, `UserWaits = FALSE`). In
  the same way an entry that another installer adds to `Path` between the read
  and the write is lost (`OthersAreKept`).
- A setup and an undo at a time can leave `JAVA_HOME` displaced with no record
  (`JavaHomeIsOnRecord`, MCEnvironment.cfg, 2 processes).
- A retarget that dies after `junction::create` has made the directory
  `current.new` and before that is a junction, or between the deletion of a
  junction there and of its directory, leaves an empty directory; `unlink`
  refuses what is no junction, so `jdk use` fails from then on, against
  current.rs:55. `LeftoversAreCleared` is about every other death and failure;
  without its exception for `rmdir` and `set` it fails in MCCurrent.cfg.
- A cached index that is still fresh names the checksum of a file that has been
  replaced: the refetch of the file cannot match, and the index is not refetched
  until it expires. "Heals itself" (catalog.rs:158) holds for a stale file, not
  for a stale index; the lookup then goes to the live API.
- Setup reads JAVA_HOME before it asks and writes it after; what is set in
  between is overwritten and not on record, against setup.rs:252
  (`JavaHomeIsOnRecord`, MCEnvironment.cfg, `UserWaits = FALSE`).
- When the part cannot be removed after a 416, which is ignored, the recursion
  of download.rs:106 meets it again, as long as the removal is refused, against
  download.rs:103: "without a Range a 416 cannot repeat".
- The suggestion for an early-access build whose version carries no pre-release
  names that version, which the early-access filter refuses again
  (catalog.rs:133, 303), against the "two commands that do work"
  (catalog.rs:274). `SuggestionResolves` leaves such builds out; without its
  condition on `Stable` it fails in an instance that has one.
- `SHIMS_LAG_BEHIND` (update.rs:25-26) says that `jdk setup` brings the shims to
  the release of the updated `jdk.exe`. When the swap of `jdk-shim.exe` was
  refused, or the process died before it, `jdk setup` copies the old
  `jdk-shim.exe`, `jdk update` says that it is up to date, and doctor passes:
  nothing converges before the next release or `--force`. `lag` in `ShimsAgree`
  stands for this.
- The wipe of the update's staging ignores its error (update.rs:65). A
  `jdk-shim.exe` that stayed there is taken for the bundle's if the bundle
  lacks one, and is paired with the new `jdk.exe`.
- Two updates that start on either side of a release can end with the older
  one: each compares the newest release with itself and not with what the
  other has put in place.
- A `jdk.exe` that skipped the release in which the key changed refuses every
  later one, as the key it trusts has signed none of them.
- A `Location` of the form `//host/path` is taken for a path on the same host
  (http.rs:338-340).
- After an undo that removed `jdk.exe`, an aside of it that another process
  still runs, or a staging left by a death, is reported as something "jdk did
  not create" (undo.rs:353), which it did, and without advice to run it again.
- The last comparison of `Version::matches` (version.rs:57-64) ignores the
  pattern's pre-release: `11.0.2.9-ea` accepts an installed release `11.0.2+9`.
- `jdk pin` writes with truncation (pin.rs:36): a shim that reads in between
  finds a file that says nothing and goes on with another source or the
  global, and a death there loses the other lines that pin.rs:1 preserves. It
  does not skip a BOM either: in a file that begins with one and `java=`, the
  new line is appended and the parser goes on reading the first.
- `jdk which` and `jdk current` load `config.toml` first, so that a malformed
  one fails them where the shim runs (which.rs:21, current.rs:14, against
  resolve.rs:1-3); and where the shim would install they report that nothing is
  installed. `ReportIsWhatRuns` says what remains true: what is shown would
  run, and where they show nothing, nothing would without an install.
- The generator calls aarch64 "best-effort by design, never fatal"
  (validate.rs:131), but a listing of a required vendor's that fails for
  aarch64 ends the run (main.rs:141-147). Likewise early access "must not hold
  a veto" (fetch.rs), and does through the guard of the total, or of a file,
  when its share there exceeds what may go.
- A version that is listed at a new URL, first in the order, and whose archive
  cannot be hashed, is missing from the next index although its old URL is
  listed still. `NothingIsForgotten` is about packages and not versions for
  this reason.
- A baseline that cannot be read switches the guard, the known hashes and the
  comparison with what there was off (validate.rs:233): `Publishes` excludes
  such a run from `ShrinkIsBounded`, `TrustedOnce`, `UnchangedKeepsStamp` and
  `NothingIsForgotten`.
- A global without `bin\java.exe` is broken for doctor (doctor.rs:233) and valid
  for `jdk install`, which asks for its directory only (install.rs:203) and does
  not elect over it. `jdk use`, the remedy that doctor names, does not look for
  `java.exe` either: used with the same version it succeeds, and doctor says the
  same again.
- Setup prepends `bin` and then `shims` so that shims come first (setup.rs:65);
  entries that are there already are not moved, so a `shims` behind another
  Java stays there.

## 8. What is not modelled

- Text: pin files, JSON, messages. Where a decision depends on one, it is a
  choice among outcomes (`Contents` in Shim) or a constant (`Kind` and `Rank`
  in Store). Versions are cut into tokens; leading zeros are not told apart.
  URLs are cut into segments.
- Cryptography: hashes do not collide, signatures are not forged.
- A loss of power: the models have deaths of processes, after which the file
  system has what the calls made of it.
- `jdk pin`, the writer of pin files; what a shim makes of any file it may find
  in between is modelled.
- `Cache::invalidate` and its grace window: no command calls it, only tests.
- Damage to files by others, except of what the code tests for; an
  archive that is there and does not verify comes from another build here.
- The search of an unpacked archive for the JDK's root (`layout.rs`), which
  `Store` takes as a part of the extraction.
- Progress bars, prompts' wording, the lists (`list`, `available`), the probe of
  the site and the check of privileges by doctor, the broadcast of the
  environment's change, TLS, trust roots, and the timeouts of single reads,
  which are one failure of a request.
- Delays between attempts and `Retry-After`: when an attempt is made is not
  told apart, only that it is.
- The retries inside the requests of Catalog and Download, which are one step
  with each of its outcomes. They are `Http`'s, under its own policy.
- Test support and packaging.

## 9. Plan

In the order of what each adds:

1. *Pin files*: `jdk pin` with its truncating write, beside the walk of Shim.
2. *Uninstall of the global*, composing Store with Current: `Settled` becomes a
   consequence instead of a constant.
3. *Update on ExeSwap*: the three swaps of an update as three instances, so
   that `HalfSwapped` is what ExeSwap shows a death to leave.
4. *Store on Versions*: the constants of Store replaced by the operators of
   Versions, so that an aside parses as what the parser makes of it.
5. *Proofs with more than one command*: `JunctionStays`, `UndoRestores` and
   `ReportsAreRight` assume one command at a time; which commands beside it
   they would survive, as `OthersRunAlone` says for `LastCopyStays`.
