# Verification project for neo-plugin

neo-plugin is a pack of skills for coding agents. Most of its files are prose;
the programs in it are

* the **service template** a scaffolded Go service starts from
  (`skills/init-project/assets/template`, below `T/`): its life cycle, its
  configuration, its Kafka, Valkey and Postgres adapters, and the audit
  middleware that `skills/http-audit-log` adds to it;
* the **tools of the pack**: installers, the scaffolder and its post-flight
  check, the test that installs the pack into Codex;
* the **tripwires**: Python and Node programs that read a repository and report
  where it leaves the conventions of a skill.

Every definition of the modules is translated from the code, at the lines
`PROJECT.json` names for it. Prose appears only where a run shows that the code
does something else than a document or a comment says.

How to run it (inside this directory): `tlc -config Service.cfg MCService.tla`
checks a run of the table below, `tlapm ServiceProofs.tla` checks the proofs of a module.

## Inventory

| Component | State | Operations | What is hard | What makes it correct | Module |
|---|---|---|---|---|---|
| Service life cycle, `T/cmd/api` | ctx, listener, pool, shutdown goroutine, requests in flight | load config and catalog, dial Postgres, listen, accept, signal, Shutdown, deferred closes, exit | two goroutines and net/http's own, signals at any point, a hanging database, handlers in flight at exit | the pool outlives the listener; a stop request always ends the process; no clean exit without a request; Postgres is best effort | `Service`, `AcceptGate` |
| Kafka consumer, `T/pkg/lib/kafka/consumer.go` | reader position, goroutine, unbuffered channel, committed offset | Consume, Commit, Close | rebalances while a message is held, crashes between Process and Commit, undecodable messages, a cancelled ctx with a blocked send | nothing committed that was not handed out; messages are not lost; a cancelled ctx ends the goroutine | `KafkaConsumer`, `AtLeastOnce` |
| Kafka producer, `T/pkg/lib/kafka/producer.go` | none of its own | Produce, Close | delivery is kafka-go's | - | not modelled |
| Transactor, `T/internal/adapters/repository/postgres/transactor.go` | transaction, connection, ctx | Execute = begin, body, commit, deferred rollback | errors and panics at each step, a ctx that ends anywhere, a commit whose answer is lost, a full pool | success means committed; failure leaves nothing; connections come back, but after a panic | `Transactor` |
| Audit middleware, `skills/http-audit-log` | capture buffers, statuses of two writers, row | capture request, serve, capture response, persist | who writes the status and when, caps in the middle of a write or a character, a failing insert, a crash | an answered request has a row or a log line; a failure is recorded as one; only an insert that hangs keeps the answer back | `AuditMiddleware` |
| Configuration, `T/config/config.go` | file map | Load, overlayEnv | two paths with one variable name, weak typing | a variable changes exactly its path | not modelled |
| Router and middleware chain, `T/internal/delivery/http` | gin engine | Setup, Default | the order of the chain | - | order inside `AuditMiddleware` |
| Valkey clients, `T/pkg/cache/valkey`, `T/internal/adapters/repository/cache` | keys of a shared server, TTLs | Get, Set, Delete | ambiguous timeouts, expiry | clients do not see each other's keys; not found is not an error | not modelled |
| Cursor Cloud installer, `scripts/install-cursor-cloud.sh` | skill directories, manifest | prune, copy, write manifest | runs cut off anywhere, releases that drop names, the user's own directories | a finished run leaves its release and nothing stale; others' directories stay | `InstallPack` |
| Kiro installer, `kiro.sh` | skill directories | copy | never prunes | only its own directories are overwritten | not modelled |
| Codex install test, `scripts/test-codex-install.js` | pending requests, timers, child process, exit code | request, answer, timeout, kill, check | event orders of a child process, timeouts racing answers | it ends, leaves no server behind unless a handler throws, and green means checked | `AppServerClient` |
| Scaffolder `scaffold.py`, post-flight check `initcheck.py` | target directory, results | preflight, copy, substitute, tidy, git, build; 20 checks, probe | a run that stopped half way, values that contain sentinels, a port that is taken | a finished run is whole and has one identity, and passes its check; repositories and the user's files are left alone | `Scaffold`; the probe is not modelled |
| e2e harness, `T/tests/e2e` | attempts | wait for /health | a service that comes up late or never | it waits as long as it says and not longer | not modelled |
| API specification, `apispeccheck.py`, renderer `yaml2md.py` | the YAML of the api-spec, `index.md` | check a document, write or compare the index, render | what a reader is shown against what an author cites; documents on which the renderer raises | the index is in step; what reaches a caller is for callers | `ApiSpecCheck`, `Render` |
| Collection tripwire `colcheck.py` | requests, environments, manifest | match requests to endpoints, compare bodies and docs, numbers, variables | matching by suffix, several candidates, both directions of a coverage | a collection that passes has the endpoints of the spec and says of them what the spec says | `ColCheck` |
| OpenAPI tripwire `speccheck.py` | routes and structs of the Go code | route drift, pairing of field groups with structs in two tiers, field drift | the wrong struct is chosen; a drift that is passed over because two fit | what was written from a struct is no drift; what the rule refuses the fallback does not take | `SpecCheck` |
| e2e tripwire `e2echeck.py` | test titles, criteria | collect, credit, defer, verdict with and without `--card` | several cards in one suite, ids in many spellings, a line that names several | a card passes only when each of its criteria is traced, whatever others test | `AcCoverage` |
| Structure tripwire `structurecheck.py` | directories, imports | layout, residue, dependency rule, contract files | imports that lead out of the core in two steps | nothing leads out of the core but over packages outside the layers | `Structure` |
| Audit tripwire `auditcheck.py` | text of a service | migration, files, sqlc, order of the chain, argument counts | order and counting by regular expressions over nested text | the audit middleware is where its rows need it; constructors are given their arguments, as far as commas tell | `AuditRules` |
| Publication tripwire `pubcheck.py` | a staged page, its stored copy | C1 to C8, round trip | what a conversion or Confluence lost, against what it may change | what passes has arrived, white space aside | `Publication` |
| Coverage gate `check-coverage.sh` | none | compare a percentage | - | - | not modelled |
| Package validators `scripts/validate-*.js`, `.cursor/install.sh`, `pg-from-secret` | none | compare manifests, set up PATH, resolve names | little control | - | not modelled |
| Prose skills | none | - | - | - | no program |

How they interact: `scaffold.py` copies the template and rewrites it;
`initcheck.py` builds the result, starts it and probes `/health`, which is the
life cycle of `Service`. In a service, `Run` hands its pool to the repositories,
whose multi-write operations run inside `Transactor`; the error of a failed one
passes the ErrorHandler of the middleware chain, around which the audit
middleware records the request. Consumers of Kafka and clients of Valkey are
wired into the same `Run`. The installers carry the pack itself to Cursor, Kiro
and Codex. The tripwires meet through files: the api-spec is held against the Go
code (`speccheck.py`), against itself and its index (`apispeccheck.py`), and the
request collection against the api-spec (`colcheck.py`, which renders each
endpoint with `yaml2md.py`). `ApiDocs` composes these four. The other four share
nothing with each other.

## The modules and the code

Each program has a module with its state as VARIABLES and one action per step of
its control. What is not in `src/` (net/http, kafka-go, Postgres, node, git) is
modelled by how the code uses it and marked external in the map.

**`Service`** translates `main`, `Run`, `tryOpenDB` and `runHTTPServer`. `pc` is
the main goroutine, `closer` the goroutine of `http.go:31` that waits for ctx
and calls Shutdown. `net.Listen` and the registration of the listener with the
server are two actions (`Bind`, `TrackListener`), so that Shutdown can fall
between them; deferred calls run in the order the code unwinds (`CloseDB`,
`StopNotify`, `MainReturns`). Requests may be answered late or never. `AcceptGate`
is the promise of the composition root, without goroutines, signals or timeouts: a
gate that opens at most once, a pool that is never given back while the gate
may let a request in. `Service` implements it (`ImplementsAcceptGate`, gate =
the registered listener, admitted = the requests that left "idle").

**`KafkaConsumer`** translates `NewConsumer`, `Consume`, `Commit` and `Close`
for the members of a group that read one partition. `loop` is the goroutine of
`consumer.go:41-74`; the unbuffered channel is a rendezvous (`HandOver`). A
member may lose the partition while it holds a message, and go on processing
and committing it. The receiver follows the loop of `kafka_test.go` with the
`Process` contract of `.kiro/steering/messaging.md`. `AtLeastOnce` is the log
behind it: messages are handed out in any order of retries, and the position
only moves over messages that were.

**`Transactor`** translates `Execute` with the named result its deferred
function looks at. `tx` says whether Postgres holds the transaction open,
`pc` which statement of `Execute` is next; `err` is the Go error, `answer` what
`dberror.go` and the error catalog make of it for a client, which may retry.
`AwaitDone` is database/sql's goroutine that rolls back when ctx is done,
which depends on what the handler passes on (`kind`): the request's own ctx ends with the request, gin's
Context, which the handlers of the template pass, never does. `AtomicOperation` is
what its callers rely on: all writes or none, before the answer, and an answer that
fits; `Outcome` maps the transaction and its writes to what came of the call.

**`AuditMiddleware`** translates `Audit` and its writer and reader.
`wrapped` is the status the capturing writer has seen, `header` that of gin's
own writer: the difference between the two is what decides what is recorded. A status may
be named again behind the first byte (`late`), and strings may go past the capture
(`aside`); Postgres answers an insert, refuses it or hangs (`database`).
Sizes are counted in bytes; of a text only whether it is valid UTF-8, and
whether a cut goes through a character, is kept, because Postgres refuses such
a text.

**`InstallPack`** translates `install_pack`: the loops over RETIRED_SKILLS and
over the old manifest, the copy loop with its `rm -rf`, and the manifest written
last, over many runs and releases. `CutOff` may end a run at each step and
leave a directory half copied. `disk` tells the user's directories from those of the
pack, which the script cannot.

**`AppServerClient`** translates `listSkills` and `main`. An event handler runs
to its end, with the promise continuations it wakes, before the next event: both
are one action. `seen` is what node has told the program about the end of its
child, `server` what really became of it: `exitCode` stays null between the two,
and for ever if a signal ended it. A handler that throws (`thrown`) ends node at once; whether the
server ends at SIGTERM (`obeys`) is its own business.

**`Scaffold`** translates `scaffold.py`, one action per step of its `main`:
`Begin` (validate and preflight), `Copy` and `Rewrite` file by file, `Tidy`,
`GitInit`, `Build`; and `InitCheck`, the verdict of `initcheck.py` on what is
there. Runs follow each other on one target with any flags and identities;
`CutOff` may end one at each step and leave a half-written file, and `User` adds
and removes files between them. Of a text only the sentinels in it are kept
(`Holds` in the template, `Inside` in a replacement value), and of identities which of them
the look-ups of `initcheck.py` tell apart in a file (`Shows`): it looks for the module path, the
prefix and the service id, never for the name or the schema. Taken for granted:
the user leaves `go.mod` to the scaffolder, and no identity keeps the sentinel of `go.mod`.

**`ApiDocs`** is what a team edits: `code` (routes and structs), `meta` and `spec`
(the YAML below docs/api), `index`, `requests`, `env` and `manifest` (the
collection). Each `Edit...` and `Remove...` action is a change an author may make of one
field, `WriteIndex` a run of `apispeccheck.py` without `--check`, `Derive`
what the open-collection skill makes of an endpoint. A check may be run at any
moment and changes nothing, so each tool is an operator over the state, translated
function by function: `Paths` (templates), `ApiSpecCheck`, `Render`,
`ColCheck`, `SpecCheck`. The properties relate what several tools say together
to what is really in the files.

**`Tripwires`** does the same for the four tools that share nothing: a behaviour
edits the subject of one of them (`tool`). For `AcCoverage` the tests of cards
are added one file at a time; for `Structure` imports are added and code is
moved; for `AuditRules` statements, arguments and files change; for `Publication`
`draft` is the Markdown as a sequence of blocks, `sent` what is staged, which `Convert` may
have damaged, and `stored` what Confluence gives back, with attributes it adds
itself (`Store`) or after a change (`Alter`). Texts are what the regular
expressions see of them: the tokens of a line with their columns, since the window of
`e2echeck.py` is cut at 40 characters wherever that is (`Cut`, `KeyRest`); arguments with
their brackets, literals and the comma gofmt puts behind the last one (`Pieces`); tags,
texts and white space of a page.

`MC<Module>` instantiates a module for TLC, `<Module>Proofs` holds its theorems;
`InstallProofs` holds those of both `InstallPack` and `AppServerClient`.

## The runs

| Run | Bounds | Shows |
|---|---|---|
| `service` | 2 requests, 2 signals, Postgres up, refusing or hanging, a kill at any time | `PoolOutlivesListener`, `NoLeakedPool`, `CleanExitWasRequested`, `SignalStopsProcess`, `ServesWithoutPostgres`, refinement of `AcceptGate` |
| `kafka` | 2 members, offsets 0..3 with 2 undecodable, 1 crash, 1 rebalance, 1 cancelled ctx, receivers that drain | `NoMessageSkipped`, `PoisonBlocks`, `EveryMessageHanded`, `CancelStopsLoop`, refinement of `AtLeastOnce` |
| `tx` | 2 callers on 1 connection, 2 writes, 1 retry each, gin's ctx or the request's own, which may end anywhere | refinement of `AtomicOperation`, `FailedBodyIsUndone`, `ReturnGivesConnectionBack`, `TransactionEnds` |
| `audit` | 1 request of 0..3 bytes around a cap of 2, up to 4 bytes of response, a network buffer of 1, all routes and texts, any statuses before and behind the body, Postgres that answers, refuses or hangs, 1 crash | `AnsweredIsRecorded`, `RegisteredFailureIsRecorded`, `CapturedIsPrefix`, `OnlyAHangingInsertBlocks` |
| `install` | 3 names, one of them retired, 3 releases, any number of runs and cuts | `DoneIsRelease`, `OthersStay` |
| `client` | 2 requests (all there are), a server that answers, refuses, prints garbage or `null`, closes its stdin, ignores SIGTERM, dies or is silent | `NoServerLeft`, `Ends` |
| `scaffold` | 4 names of which 3 are the template's, 2 sentinels, 2 identities of one module path (one keeps the sentinel of the service id, the id of the other begins with it), 2 runs with any flags, cut off anywhere | `PassIsOneIdentity`, `FinishedPasses`, `BuiltOrNotIsScaffold`, `OwnFilesStay` |
| `apidocs` | 2 endpoints in three first states (a pair that fits the code, a pair whose paths end alike, one alone), 10 versions of the code, 2 edits of anything, any number of runs of the tools | `CollectionIsFaithful`, `DerivedIsGreen`, `IndexListsCollection`, `CollectionIsForCallers`, `WrittenFromCodeIsQuiet`, `NamesakeIsInStep` |
| `tripwires` | 8 test files of 2 cards, 13 sources of criteria, with and without `--card`, 4 files added; 6 packages, one of them the composition root, in 4 trees, 3 edits; 4 services of 2 constructors, 2 edits; 3 pages, 2 edits | `OtherCardsDoNotMatter`, `PassMeansTraced`, `CoreLeavesOverOthers`, `AuditIsWired`, `TablesArrive`, `OnlyEmptyTagsTrip`, `SameButForSpace` |
| `service_graceful`, `kafka_redeliver`, `ac_gap` | as above, smaller; `ac_gap`: one card, a line with two criteria or a line that begins with the card's id | the findings below |

Why the bounds are enough. *service*: the process has one listener and one pool, so
a second request adds only one that is in a different state from the first; a second
signal is swallowed before `stop()` and kills after it.
*kafka*: a message lost or skipped needs a holder and an owner, two members;
four offsets put two messages in front of the undecodable one, so that one can
be committed past the other, and one behind it. *tx*: one connection and two callers is the
smallest pool that can starve. *audit*: requests do not share state, so one
suffices; each size is a representative (below, at and above the cap, and a
write that crosses it). *install*: a name that is shipped, dropped and shipped
again takes three releases. *scaffold*: identities that the check cannot tell apart in one direction only; mixed identities need the leftovers of one
run under another, two runs; the three files of the template are one with the
sentinel the check asks for, one with another sentinel and one with none, the
fourth name is the user's. *client*: there are no other requests. *apidocs*: what the tools compare is always two
files (spec and code, spec and request, spec and index), so two edits, one on
either side, reach each disagreement and each way of repairing one; the second
endpoint is there for matching and pairing to have something to confuse.
*tripwires*: a criterion can be owed, tested, skipped and deferred, by
this card and another, four files; the sources put ids of cards just inside, just outside and across the edge of the window; a chain of imports out of the core has three
links, three edits; a call or a chain gone wrong twice may look right to a
counter, a page that loses an opening and a closing tag may look balanced, two
edits. About 53,000 and 621,000 distinct states. The bounds are constants that appear in guards only
(`MaxSignals`, `MaxCrashes`, `MaxMoves`, `MaxCancels`, `MaxRetries`,
`MaxReleases`, `MaxBytes`, `MaxRuns`, `MaxEdits`); the theorems hold for every value of them. A pool
of 0 connections or a topic of 0 messages are admitted by the assumptions.

Deadlock is not checked where the program ends (a process that exited, a
client that is done, a group that used up its bounds, authors who have made
their edits); `install` checks it: a run
can always go on.

Fairness. Goroutines are scheduled (`WF` on each of their steps); Go's ping and
drain, node's timers and database/sql's watcher fire. `ServeReturns` is fair
only once Shutdown was called, since an accept loop owes no error. Handlers, clients, signals,
crashes and accept errors owe nothing: `SignalStopsProcess` holds with a handler
that never returns. `EveryMessageHanded` needs strong fairness of `Fetch`: the
broker fails now and then but not for ever, and a crashed process is restarted
by its orchestrator. `CancelStopsLoop` needs a receiver that keeps draining the channel after ctx is
done (`Drains`): the send of `consumer.go:67` does not look at ctx. `TransactionEnds` assumes
of contexts only what net/http does, which ends a request's own with its answer; gin's never
ends, and the transaction of a body that panicked under it is excepted (`LostToPanic`).
Handlers of `audit` return. `OnlyAHangingInsertBlocks` does not assume that Postgres
answers: a step from `persist` is fair only where it does. `Ends` does not assume that a
killed server ends: `Die` is fair only for one that obeys SIGTERM, and a wait for one that does
not (`Stuck`) is excepted. `apidocs` and `tripwires` state no fairness: nobody owes an edit.

Every property of a passing run has a mutant in `PROJECT.json`, a plausible bug of
the code that breaks it.

## Findings

Three have a run whose property is the sentence of the document, and is violated:

* `service_graceful`: "graceful shutdown" (`http.go:2`). `ListenAndServe`
  returns when Shutdown begins, nothing waits for the goroutine that drains:
  `main` closes the pool and exits with 0 under requests in flight.
* `kafka_redeliver`: "Returning an error from `Process` triggers redelivery"
  (`messaging.md:110`). The loop goes on with the next message, whose commit
  passes the failed one.
* `ac_gap`: "an AC in the source but in neither is UNCOVERED"
  (`e2echeck.py:10`). With `--card` an id with the id of another criterion, or a word like
  UTF-8, up to 40 characters before it on its line is taken for another card's: to line 69 `AC-001`
  is a card. The same befalls an id whose window cuts the id of its own card: in the `I-1036` that is left
  of `GI-1036` (line 288) the tool sees another card. Such a criterion needs no test.

The others are what the properties of passing runs had to except or could not say. Where
PROJECT.json names a conjunct or disjunct, the run finds the behaviour again as soon as that is taken out.

* *Order of the start* (`app.go:1`, `21-22`: the server is started "immediately" and Postgres dialled
  then). `Run` dials first, for up to 2 s. `ImplementsAcceptGate` states the order of
  the code.
* *Panic in a transaction* (`repository.md:104`: "commits/rolls back atomically"). The deferred
  function of `transactor.go:30` sees `err == nil`; under gin's Context, which the handlers of the
  template pass on, transaction and connection stay. `TransactionEnds` excepts it.
* *Status of an audit row* (`audit.go.tmpl:52`). A status that is named behind the first byte is
  recorded though the client got the first: 400 may be a SUCCESS (`late`).
* *Strings* (`audit.go.tmpl:30`). The wrapper leaves WriteString to gin's writer:
  `io.WriteString` and server-sent events are not captured (`aside`).
* *Hanging insert* (`audit.go.tmpl:69`: "never fails the request"). No timeout, and a ctx that
  never ends: `OnlyAHangingInsertBlocks`.
* *Throwing handlers* (`test-codex-install.js:44`). A line `null`, or a server that closed its stdin,
  ends node without the `finally`; the server stays (`thrown`).
* *Deaf server* (`test-codex-install.js:72`). The wait for the killed server has no
  timeout (`Stuck`).
* *Re-run* (`SKILL.md:105-106`: after a failed build "re-run with `--no-build`"). The run that failed
  to build has made its `.git` (`scaffold.py:171`), and preflight refuses the second. It
  is not needed either, which `BuiltOrNotIsScaffold` shows.
* *Identity* (`initcheck.py:4-5`: "carries the right identity"). Name and schema are compared nowhere,
  and a service id by its beginning. `PassIsOneIdentity` says what is left (`Shows`).
* *Bodies, candidates, paths of a collection* (`colcheck.py` K3, K7, K2). A body that is not
  JSON is no body; a request that fits two endpoints is compared with neither; paths are equal
  when one ends with the other. `CollectionIsFaithful` has a case for each.
* *Texts for callers* (`yaml2md.py:12-14`: ticket framing and evidence never land). `PAY-123`,
  `docs/adr/x.md` and the title are shown. `CollectionIsForCallers` names what is cut.
* *Dependency rule* (`structurecheck.py:4-6`: "proves ... the inward-only dependency rule"). Imports of packages
  outside the layers are not read, and no chains: `CoreLeavesOverOthers`.
* *Argument counts* (`auditcheck.py:213`: the callsites "take the audit repo"). The comma gofmt puts
  behind the last argument counts: of a call over several lines two arguments pass as three, and
  three are reported. `AuditIsWired` states both. A comma in a string counts, too.
* *White space of a page* (`pubcheck.py:29-30`: "reports real drift"). Text is stripped next to inline tags, too:
  `see <code>` and `see<code>` are the same. `SameButForSpace`.
* *Empty tags* (`pubcheck.py:16`: "a confident defect"). `<li/>` counts as a tag without its
  end, so a page that parses is reported. `OnlyEmptyTagsTrip` says when, exactly.

One more is a theorem, `GreenUnlessSignalled` (`test-codex-install.js:69-70`): if somebody else's signal
kills the app-server during a request, `exitCode` stays null after its exit event, the promise
never settles, node's loop runs empty and the process exits with 0, unchecked. It is proved that this is the
only way to a false green.

What else bounds the properties. A commit whose answer is lost is told to the client as a failure, so
a 005 of `AtomicOperation` may go with all of the writes. A request that no route matches is recorded as
SUCCESS and answered 404, so `RegisteredFailureIsRecorded` speaks of registered routes.
`PassMeansTraced` speaks of sources in which the window of a criterion has nothing that looks
like a card but whole ids of cards (`Careful`), `DerivedIsGreen` of specs no two
paths of which end alike (`Unambiguous`), and the properties of pages of plain code
(`PlainCode`), since the checks that count see tags in a code block.

## What is proved

Every invariant and every action property of the passing runs is a theorem, and so are the
three refinements, for every value of the constants that satisfies the named assumption of
the module; what is left to TLC is liveness. For a program with control of its own the
`*Proofs` module shows that `IInv` is inductive (one lemma for `Init`, one for
`[Next]_vars` with a step per action) and derives the theorems listed in
`PROJECT.json` from it. `IInv` is proved only: a run would repeat the proof on
a small instance. For the tools that read files and answer (`ApiDocsProofs`,
`TripwiresProofs`) only the types of what they read are inductive, and the
argument is about the expressions.

* `ServiceProofs`. `IInv` ties listener, pool and shutdown goroutine to the
  point of `main`. The pool is closed only at program points after `ListenAndServe`
  has returned, and there the listener is not registered: that conjunct is
  what `PoolOutlivesListener` lacks to be inductive. The refinement maps each
  action to one of `AcceptGate` or a stutter. `TrackListener` opens the gate
  with a pool that `PoolPhase` shows not to be released.
* `KafkaConsumerProofs`. `IInv` says that everything below the committed
  position, below what an owner's reader fetches next, and below what a
  goroutine or a receiver holds was handed to Process. The last part is needed for a former owner,
  which commits a message it fetched before the rebalance. `NoMessageSkipped`, `PoisonBlocks` and
  the refinement of `AtLeastOnce` follow.
* `TransactorProofs`. `IInv` says which states of a transaction go with each
  statement of `Execute` and each error. From it: a failed body leaves nothing, a returned
  call holds no connection, and `Execute` refines `AtomicOperation` (`CallerRefines`): a step of
  one caller is progress, an undoing, a repetition or hidden, and leaves the others'
  outcomes alone. That no call is committed in part needs `Phases`, which says that a committed
  transaction has all of its writes. The number of callers, writes and connections is arbitrary.
* `AuditMiddlewareProofs`. `IInv` relates the two statuses, the captured
  bytes and the row. `CapturedIsPrefix` holds for every cap and any way of
  cutting a response into writes; a failure told on a registered route is recorded as FAILED.
  `AnsweredIsRecorded` needs a second invariant, `Answered`, which counts the rows of a request at
  each point of the middleware and knows that a complete answer comes after the
  insert was tried.
* `InstallProofs`, first part. `Covered` is the strengthening: a directory of the pack
  is always in the manifest, in the pack being installed, or still to be visited
  by a prune loop. It needs that a run that was cut off is repeated before the
  next release (`AlwaysRetried`); `OthersStay` and `ManifestIsOurs` do not.
* `InstallProofs`, second part, about `AppServerClient`; names the two modules share have the prefix
  `Client`. No run leaves its server behind, and as long as
  nobody but the client signals the server a green run is one that checked: such a
  signal is the only way to a false green.
* `ScaffoldProofs`. A run copies every file before it rewrites the first, so any
  two rewritten files have the same identity (`OneIdentity`), wherever earlier
  runs were cut off; that is what lets a check that looks into a few files speak
  for all (`PassIsOneIdentity`), up to what it looks for. `Loops` says how far each loop has come, from
  which `BuiltOrNotIsScaffold` follows. `FinishedPasses` adds what the check asks of a whole scaffold
  (`WholeIsAccepted`), `OwnFilesStay` that copies go to names of the template and the
  rewriting to files with a sentinel.
* `ApiDocsProofs`. `TypeOK` is inductive. A collection is built by a recursion over the
  files of the api-spec; `OverIsDefined` shows that this recursion
  has a value, by induction on the number of files, and `CollectionIsDerived` that it
  holds a request for each file, derived from it. From there: a collection that was
  derived and not edited is green (`DerivedIsGreen`) and shows a caller nothing that is not for callers;
  a collection that passes has a request that fits each endpoint of the spec and says of
  them what the spec says, unless two endpoints fit (`CollectionIsFaithful`), and then the path of
  one ends with that of the other, because a suffix of a suffix is a suffix
  (`CandidatesOverlap`); what was written from a struct is no
  drift (`WrittenFromCodeIsQuiet`), and where no other struct has the same names, what passes was
  written from it (`NamesakeIsInStep`): with all names shared the first tier finds that struct alone
  (`ExactMatchFound`), and a struct it refuses for a reason (a tie,
  or too large) is not taken by the second (`FallbackRefusesToo`). Two properties were false
  as first stated, for a document whose path is `/`: it is a suffix of nothing,
  so it has no candidates and its request is compared with nothing. `Overlap` and `Lists`
  say so now, and `/` is among the paths an edit of the run may write.
* `TripwiresProofs`, `e2echeck.py` and `structurecheck.py`: a test that is credited to a card makes
  its file one of that card's (`CreditIsClaimed`), so files of other cards change none
  of the errors (`ForeignFilesAddNothing`) and no step of any tool changes the verdict on a
  card whose tests it leaves alone (`OtherCardsDoNotMatter`). A pass leaves no
  criterion untraced, for any careful source and any tests (`PassMeansTraced`): in such a source the
  window shows the whole of each key it begins in (`KeyIsSeenWhole`), so an id is dropped exactly when
  another card's stands before it (`ForeignIsAnotherCards`).
  A package of the core may import its own layers or packages outside of them
  (`ImportStaysInside`). What a package is linked with is the smallest set closed under imports, so what
  is linked over layers alone stays in them (`LinksAreClosed`), and a chain out of the core has
  to pass a package outside (`CoreLeavesOverOthers`); no induction over a chain is needed.
* `TripwiresProofs`, `auditcheck.py`. The text of a call is its pieces with commas between them
  (`Separated`), the last one empty where gofmt broke the lines, and each piece is balanced; so the depth
  is 0 at the commas between pieces and at no
  other (`DepthBetween`), counting them counts the pieces (`ArgCountIsPieces`), which are the
  arguments or one more (`PiecesAreArguments`), and the
  scan for the closing parenthesis stops at the last character (`ClosedAtIsRight`). The constructor's own
  text is one of its callsites, and calls nested in it are others (`CallIsCounted`). A match of the
  order expression names a statement for each middleware, in order, and a statement's first handler comes
  before that of the next one (`OrderIsTheChains`). `AuditIsWired` puts these together.
* `TripwiresProofs`, `pubcheck.py`. Every table of the Markdown starts where the loop of `_count_md_tables` is
  outside of a table, so it is counted (`StartsAreCounted`), which gives
  `TablesArrive`. The canonical form has, node by node, what a reader sees, and a place of it is in a
  CDATA section exactly when the token it comes from is (`SectionsAreKept`): the form
  tells the nodes, up to white space at the ends of texts (`CanonicalFormTellsNodes`), which gives `SameButForSpace`. For `OnlyEmptyTagsTrip`
  the stack of the parser holds a tag as often as it was opened and not closed, unless the
  nesting is spoilt, and then it stays spoilt (`NestedIsBalanced`); so the counts of a tag differ
  exactly when one of it is empty (`BalanceHolds`). Each start of a section has
  its end and each end its start (`SectionsAreClosed`).

Induction over data. The library states induction with an operator as parameter, which
the provers do not instantiate. `SetInduction` and `IntervalInduction` state it for a
set in place of the predicate, and follow from the well-foundedness of `<`; `Recursion` gives the
function a loop computes, with the step as a function. With them a scan of a text, a
loop over files and a flattened sequence of parts can be reasoned about, as long as
what is proved is the membership of a number in a set. Modules that are proved about
write recursion as functions for this reason.

The assumptions on constants are what the inputs of the programs are. Those worth a word:
an argument of a Go call (`ArgumentTexts`) is not empty, its brackets balance and its
commas are inside of them or in a literal, as the grammar of Go has it; a `Use` statement names a
handler at least; a tag (`Tokens`) is not called "broken", the mark the
parser of the model leaves on a stack, and a token without a name has the name "none"; a key of
which nothing is cut is itself (`KeyRestAssumption`); the
paths of the api-spec are sequences of literal and parameter segments and each file is one
endpoint; a file shows the identity it was given (`Shows`). They are in the modules, and TLC evaluates them in the runs.
Nothing else is assumed.

Only model-checked: `SignalStopsProcess`, `ServesWithoutPostgres`, `EveryMessageHanded`,
`CancelStopsLoop`, `TransactionEnds`, `OnlyAHangingInsertBlocks` and `Ends`. They are liveness under fairness,
and the prover knows neither the fairness of these actions nor ENABLED.

## What is not modelled, and why

The contents of messages, rows, skills and pages; logging; the behaviour inside
kafka-go, database/sql, gin and node beyond what the code relies on; several
partitions (offsets of different partitions are independent in the code);
`extractResponseFields` and the getters of the audit row, which copy; the clone
of the Cursor installer into a temporary directory. In the audit model a
request with a nil repository, which only tests have, is left out.

Components without a module:

* `config/config.go` is one pass over a file and the environment; a model would
  be its loop again. Two paths with one upper snake case name (`a.b_c`, `a_b.c`) are
  both overridden by one variable (`config.go:129`).
* The Valkey clients hand each call to the server and keep nothing. What a lost
  answer leaves behind shows in callers, of which the template has none.
* `probe_health` and `waitForHealth` are bounded loops of attempts at the
  listener of `Service`. `initcheck.py:95` asks whether the port is free and lets go
  of it before the service binds it, so another process can answer the probe.
* `kiro.sh` is the copy loop of `InstallPack` without manifest and pruning.
* `check-coverage.sh`, `pg-from-secret`, `.cursor/install.sh` and the validators
  compare or resolve in one pass and keep no state.
* The Kafka producer passes a message to kafka-go; the rest of the template are
  wrappers and constants.

What the tripwires pass over besides the findings, seen while translating them. It is either behind
a premise named above or in the abstraction:

* `e2echeck.py`: of the list in its own example, `Deferred-ACs: AC-011, AC-012: ...`
  (line 99), only the first id is deferred, since ", " ends the list (line 324); a `Deferred-ACs` line is read in a source of checkboxes, too.
* `colcheck.py`: a failing renderer is a note; an empty collection exits with 0.
* `apispeccheck.py` accepts a response or a body without `fields` and an error
  code that is a number, on both of which `yaml2md.py` raises (`Renders`).
* `speccheck.py`: code without a serializable struct ends it with an IndexError
  when a group is to be paired; its second tier pairs on half of the names;
  of two objects of one name it keeps the first (`setdefault`).
* `pubcheck.py`: the canonical form writes an escaped tag as the tag; the counts of C4
  and C5 see tags in CDATA.
* `auditcheck.py`: brackets inside strings nest, commented `Use` statements are part of the
  chain, and a handler that is no call (`r.Use(h)`) is not.
* `structurecheck.py`: without a module path in go.mod the rule is skipped.

## Plan

Done, in this order because a defect there costs requests, messages or money:
`Service`, `KafkaConsumer`, `Transactor`, `AuditMiddleware`; then the tools of the pack
that change somebody's disk or gate a release, `InstallPack`, `AppServerClient`,
`Scaffold`; then the tripwires, `ApiDocs` where they meet, `Tripwires` where they do not.

The runs stay few enough to repeat on every change, which is why small checkers share
one run and the proofs about their operators one module.

Left, most useful first:

1. `Transactor` and `AuditMiddleware` in one request: what the row says against
   what the database holds.
2. `HealthProbe`, `probe_health` as a client of `Service` with ports that others take.
3. The callers of the Valkey clients, once the template has any.
