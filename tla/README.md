# CoreCats: a verification project for the mint, the service and the collection

TLA+ models of three things this repository does. *Who gets which cat*: the commit /
finalize mint contract, the CorePass mint sessions of the web server, the session store
and the FinalizeWorker of the mint backend, the way these services read the contract, and
the mint page with its tabs. *What is served where*: the environments of the web server and
of the backend, the production check, the routes and the secret between the two. *What a
cat looks like*: the scripts that release the collection, the metadata renderer that draws
it on the chain, and the site that shows it. TLC checks the models on small instances; TLAPS
proves the results about the contract, the sessions and whose they are, the service, the
release, the site, the caches and the tabs for every value of the constants.

Contents

1. The system: components, state, operations, interaction
2. What is hard about it
3. The modules and how they correspond to the code
4. Runs: what each one checks, its bounds, why they are enough
5. Fairness
6. Proofs
7. Disagreements between the code and its documents
8. What is not modelled
9. Plan

## 1. The system

### Components

| Component | Code | State | Operations |
|---|---|---|---|
| Mint contract | `foxar/src/CoreCats.sol` | counters of minted and reserved tokens, one pending commit per wallet, the slot matrix of the lottery | `commitMint`, `finalizeMint` (with its loop of `_drawRandomTokenId`), `clearExpiredCommit`, passing of blocks |
| CorePass mint sessions | `web/lib/server/corepass-mint-sessions.js` | none of its own in external-backend mode (a read cache apart: 15 s, an hour for a session that looks terminal): each request reads a session, changes its copy and writes it back | creation; requests for approval in codes and links; callbacks `identify`, `commit`, `finalize`; the manual relay request; expiry |
| Session store | `mint-backend/corecats_mint_backend/storage.py` | table `mint_sessions`: the whole session as `payload_json`, with `status` and `expires_at` copied into columns | `upsert_session`, `get_session`, `list_finalize_candidates`, `cleanup_expired` |
| FinalizeWorker | `mint-backend/corecats_mint_backend/finalize_worker.py`, `spark.py` | the list of the sweep in progress; counters for the health page | `run_once`, `process_session`, `_handle_submitted_commit`, `_handle_submitted_finalize`, `_handle_pending_finalize`, the relay |
| Wallet state reader, prechecks | `rpc.py`, `policy.py`, `web/lib/server/mint-precheck.js` | the answers of a reading in progress | five contract calls, then the verdicts of `evaluate_authorization_precheck` and `evaluateMintPrecheck` |
| Mint backend HTTP server | `server.py`, `config.py` | its configuration, read at the start; none beyond the above otherwise (a counter cache apart) | start and validation, routing, authentication, read-only mode |
| Ownership snapshots | `ownership_snapshot.py`, `token_evidence.py`; on the way to the page `web-public-teaser/functions/api/public/owner.js`, `public-status-client.js`, `my-cats-browser.jsx` | TTL caches guarded by a lock; the edge's and the page's own | lookups that fill the caches outside the lock; owner searches |
| Mint page | `web/components/mint-workflow.jsx` | one polling leader among the tabs, in `localStorage`; the session on display in each tab | claim, heartbeat, release; refresh, broadcast, load from the address |
| Proxy and environment of the web server | `mint-backend-proxy.js`, `mint-surface.js`, `core-env.js`, `scripts/check-production-env-lib.mjs`, `app/api` | the environment of a deployment | the production check, reading the environment, the mint routes and their backend calls |
| Metadata renderer | `foxar/src/CoreCatsMetadataRenderer.sol`, `CoreCatsOnchainData.sol` | none: pure functions of packed trait bytes | `tokenURI`: records, attributes, layers and their runs |
| Release scripts | `scripts/ui/rebuild_final1000_beam_outputs.mjs`, `scripts/reference_eth/generate_onchain_data.py`, `scripts/ui/generate_viewer_data.mjs`, the two `verify_renderer_*` | files of the repository: selection, manifest, trait summary, pictures, the data contract, the viewer's documents | run by an operator, one at a time; each writes several files and may stop between two |
| Public site and viewer data | `shared/public-site`, `web-public-teaser` | the documents it was built with; the state of a visit is in the address | filter chips, search, sort, pages, opening a cat, walking to its neighbours |
| Candidates and deployment scripts | `scripts/ui/generate_beam_selection_candidates.mjs`, `foxar/script` | none | one-off |
| Ethereum reference archive | `contracts/reference_eth`, `scripts/reference_eth` | none | historical, not run |

### How they interact

    CorePass app --callback--> web server --read row / write row--> session store
         |                        |                                      ^
         | sends transactions     | prechecks, manual relay              | sweep: list, write
         v                        v                                      |
      Core chain (CoreCats) <--- five calls, receipts, relay ------ FinalizeWorker

A mint goes like this. The page creates a session and shows its QR code. The
*identify* callback names the wallet; the web server prechecks it against the contract
and, if the quantity is allowed, prepares a commit request. The app sends the commit
transaction and reports its hash in the *commit* callback. From then on the
FinalizeWorker takes care of the session: it waits for the receipt of the commit, for
the two blocks of delay, asks the relayer to broadcast `finalizeMint`, and waits for
the receipt of that. The wallet may send the finalize transaction itself and report it
in the *finalize* callback, and the page may ask for a relay at any time. A commit can
be finalized for 200 blocks; then anybody may clear it and the reservation returns to
the pool.

Nothing serialises the writers of a session. The web server and the worker each read
the whole record, wait for a node or a script, and write the whole record back.

Web server and backend are deployed separately and share a secret. An operator checks an
environment and deploys it; the backend starts in one of two modes, `mint-active` or
`read-only`, in which it answers every mint and session call as retired. A request of a
route makes up to three calls of the backend, one after the other, and either side may be
replaced in between.

A mint page opened in several tabs elects one of them to poll the web server; the others
hear what it shows by a broadcast. The web server answers refreshes from a cache of its own.

The public site asks the backend who owns which cat; the answers come from a block explorer
through caches. What it shows of the cats themselves was made beforehand:

    selection --rebuild--> manifest, summary, pictures
                               |                  \
                               v                   v
                 on-chain data (its own input) --> viewer documents --> browse site
                               |
                               v
                       metadata renderer (compared with the manifest)

### What makes each component correct

* **Contract.** The reservation counters equal the pending commits and fit into the
  supply; no wallet claims more than its cap; the lottery neither repeats nor loses an
  id; a commit is in exactly one phase at every block; every accepted promise can be
  kept.
* **Sessions, store, worker.** Whatever is written over what, no record says of the
  chain what is not so; a session whose commit can still be finalized does not fall out
  of the worker's care; a commit the worker knows of is delivered while its window is open.
* **Whose session.** The minter of a session has approved it, the commit it waits for is
  the minter's, and its links keep leading to the host it was opened on.
* **Reader.** Five calls are not one snapshot: the phase they add up to may be an old
  one but never a premature one; an accepted quantity can be committed.

* **Ownership caches.** An answer that does not say it is stale is not older than its
  time to live, however slow the fetches; what a page shows is within the lives of the three
  caches on the way when it asks, or stands beside a fetch under way or an error; and no search
  is met with silence.
* **Mint page.** Two tabs do not go on polling next to each other, one does poll
  when any is visible, and what is on display catches up with what is stored.
* **Web server and backend.** What the production check accepts is what the server then
  serves; what a request answered ok stands for has been stored; nothing is stored without the secret, and
  nothing by a read-only backend; finalizes carry the account the operator named.
* **Release scripts and renderer.** The chain draws and names every cat as the manifest
  does; a second run of a generator changes nothing; after a stop between two files a viewer
  run still shows the chain, and counts one whole collection, if not always the one beside it.
* **Browse site.** Counts are those of the lists behind them, pages partition a view, and
  walking from cat to cat does not leave it.

## 2. What is hard about it

`PROJECT.json` lists the hazards at their lines. The families are:

* *Arithmetic kept by hand.* Four places update the same three counters
  (`CoreCats.sol` 69-126), an expired commit is cleared implicitly by the next one, and
  0 doubles as the mark of an unwritten slot in the matrix.
* *Boundaries in blocks.* Delay, window and the reach of `blockhash` must leave no block
  at which a commit can be neither finalized nor cleared, and none at which both work.
* *Stale copies.* A sweep lists up to 100 sessions, then spends seconds per session on
  RPC and a relay script that has no time limit, and writes the copies it listed at the beginning.
  Callbacks and manual relays do the same on a smaller scale.
* *Answers that get lost.* The relay may fail after the broadcast; a callback is
  repeated when its answer did not reach the app; the backend restarts mid-sweep.
* *Locks that are not held.* Caches are filled by fetches outside their lock, in any order;
  `localStorage` has no lock at all.
* *Torn reads.* The block number, the supply, the minted and reserved counters and the
  pending commit come from five calls.
* *One thing, two programs.* The production check and the server each read the environment;
  the generator packs what the renderer unpacks; the rebuild script, the viewer generator
  and the contract each draw a cat; counts and lists of the site are computed apart.
* *Several steps, one failing.* The release scripts overwrite pictures before they validate
  and write manifest and summary one after the other; a request is half done when the
  backend is replaced.
* *Two wallets, one code.* Whoever scans a session's first code may become its minter, while
  another wallet already holds its commit request; callbacks find their session by fields of
  their own.
* *Late news.* Answers, broadcasts and cached sessions reach the page in any order.

## 3. The modules

| Module | What it is | Code |
|---|---|---|
| `TokenLottery` | abstract: ids promised and delivered, each at most once | what `CoreCats.sol` promises a minter |
| `CommitLife` | abstract: the phases none / early / open / expired of each wallet's commit | what the services assume of `CoreCats.sol` |
| `CoreCats` | the contract | `CoreCats.sol` |
| `CoreCatsProofs` | inductive invariant, safety theorems; `CoreCats` implements `TokenLottery` and `CommitLife`; what a `WalletReader` sees and accepts | |
| `WalletReader` | `CoreCats` with a reader taking five steps | `rpc.py` 218-, `policy.py`, `mint-precheck.js` |
| `MintSessions` | web handlers, rows, worker, on top of `CommitLife` | `corepass-mint-sessions.js`, `storage.py`, `finalize_worker.py`, `spark.py` |
| `MintSessionsProofs` | invariant of all copies, safety theorems | |
| `CorePassCallback`, `CorePassCallbackProofs` | whose session it is: links, callbacks, accounts and hosts | `corepass-mint-sessions.js` 169-435, 538-683, 892-1129; `callback/**` |
| `OwnershipCache` | three caches with a time to live | `ownership_snapshot.py` 211-294 |
| `OwnerLookup` | an owner search through page, edge and backend; extends `OwnershipCache` | `public-status-client.js`, `my-cats-browser.jsx`, `functions/api/public/owner.js` |
| `OwnershipCacheProofs` | freshness of both, and what a page shows meanwhile | |
| `PollingLeader`, `PollingLeaderProofs` | a lease in `localStorage` among tabs | `mint-workflow.jsx` 51-71, 682-775 |
| `MintPage` | what the tabs show of their session; extends `PollingLeader` | `mint-workflow.jsx` 419-, `corepass-mint-sessions.js` 66-164 |
| `WebEnv` | the environment as the server reads it and as the production check does | `core-env.js`, `check-production-env-lib.mjs` |
| `BackendConfig` | the backend's configuration and its validation | `config.py`, `spark.py`, `CoreCatsFinalizeMint.s.sol` |
| `MintService` | deployments, restarts, requests and their backend calls | `app/api`, `mint-backend-proxy.js`, `server.py` |
| `MintServiceProofs` | invariant of a request, safety theorems | |
| `CatRecords` | token records, nibbles and colour tables, packed and unpacked | `generate_onchain_data.py`, `CoreCatsMetadataRenderer.sol` |
| `CatArt` | layers and runs: the three programs that draw a cat | the renderer, `generate_viewer_data.mjs`, `rebuild_final1000_beam_outputs.mjs` |
| `OnchainData` | from a manifest to the next data file | `generate_onchain_data.py` |
| `CollectionRelease` | the scripts as processes that may stop | the release scripts |
| `CollectionReleaseProofs` | packing and unpacking are inverse; every token is drawn and named as it was released, on the chain and by the viewer; generating again changes nothing; the filters count the collection | |
| `CollectionView` | a visit of the browse site | `collection-browser.jsx`, `cat-detail-browser.jsx`, `collection-utils.js` |
| `Catalogue` | from the release to the visit: a whole viewer run is published | `viewer-data.js` |
| `CollectionViewProofs` | chips, pages, links and walks over any documents that agree, and over those that are published | |
| `MC*` | instances for TLC: symmetry, environments, a small collection | |

The layers fit together through `CommitLife`: `CoreCats` is shown to implement it
(checked and proved), `MintSessions` instantiates it as its chain, and `WalletReader`
shows which phases a reading of the real contract may report, which is what
`MintSessions!PhaseRead` lets the worker see.

Two compositions are made for the checks. `MCMintPage` lets the tabs elect a poller and
follows their session from every settled election; `Catalogue` builds a site out of a
viewer run and visits it.

Definitions whose comment begins with *Fault* or *Mutant of* (for instance `ExpiredEarly`,
`ReadOrderReversed`, `AfterAnyCall`) are not used by any specification.
Each is a plausible bug of the definition after it; putting it in that definition's
place breaks the property named beside it under `mutants` in `PROJECT.json`, so no
property holds just because of the shape of the model.

### CoreCats

State: `mintedCount`, `mintedPerAddress`, `reservedPerAddress`, `pendingCommit`,
`tokenMatrix`, `reservedSupply` are the contract's storage under its own names;
`block` is `block.number`; `assignedTo` stands for the owners in the inherited CRC721
and the `TokenAssigned` events; `call` holds the locals of `finalizeMint` while its loop
runs.

A transaction is atomic and a reverted one changes nothing, so reverts are no steps.
The loop of `finalizeMint` is nevertheless one step per token (`DrawToken`), with every
other action disabled meanwhile (`Idle`): the draws share the matrix, and what is to be
shown is that the state between two of them is good for the next. The counters are
settled *before* the loop, as in the code.

Random words are a free choice of the draw index, so the result holds for every block
hash. The recipient (the hook that `_safeMint` calls) is taken to accept the token and to make no call
of its own. Width of integers does not matter: every counter is bounded by the supply,
which `TypeOK` shows, and the checked subtractions never go below zero.

The clearing at the start of `commitMint` (`_clearExpiredCommitIfNeeded`) is part of the
action: `Reclaimed(to)` is what it gives back before the limits are looked at.

### WalletReader

Extends `CoreCats` with one reader. `StartReading`, one `Read` per call in the order of
the code, then `ReadingUsed`; the contract makes any steps in between. `SeenPhase`,
`EffectiveReserved` and `Accepts` are the verdicts on what was seen, written the same way
in Python and JavaScript. `could` and `booksKept` are history: what the contract would
have accepted at some moment of the reading, and whether a transaction came in between.

### MintSessions

| Variable | Code |
|---|---|
| `phase` | the wallet's commit, as in `CommitLife` |
| `tx` | the receipts of the commit, the wallet's own and the relayer's transactions |
| `row` | the row of `mint_sessions`, or none |
| `handler` | a request in progress: where it waits, and its copy of the session |
| `worker` | the sweep in progress: the copies listed, the one worked on |
| `calls` | how many requests of each kind a session had: the bound on them, and what "identified once" means in the proofs |

A record keeps what decides something: `status`; the stage and hash of the commit and
of the finalize; `confirmed` (`finalize.confirmedAt`); `mode`; and `ttl`, which is
"short" for the 20 minutes from the creation and "long" for the 35 minutes from a
callback. Texts, timestamps, retry counters, the stuck marker, history and the audit
tables are left out. That a change in those alone causes a write is kept: `Upsert` may
write a copy that looks unchanged.

A handler is one step to read, one per answer waited for (`PrecheckAnswers`,
`RelayAnswers`), one to write (`Write`). An identify that has passed the precheck is at
the step "persist": the `catch` around the precheck also catches a failing write there and
writes a rejection instead (`PersistFails`). The worker is `Sweep`, then per session
`TakeSession`, `CheckCommit`, `ReadWallet`, `HandlePendingFinalize` or
`HandleSubmittedFinalize`, `Upsert`; `SessionFails` is the `except` around a session
(the copy is still written), `BackendRestarts` loses the sweep. The two parts interleave
freely with each other and with the chain.

An error may also come when a copy is half processed. `_handle_submitted_finalize` clears the
hash of a reverted transaction before it records the attempt, and that may raise: the copy then
still says `submitted`, without a hash, and is stored so (`HashCleared`). Such a record is
one a later finalize callback must cope with (`corepass-finalize-duplicate.test.mjs` 8-26 starts
from one); the worker relays it again, which is right because its transaction has
reverted, and `RecordsCoherent` says that there is no other way to such a record. Where the
error comes before anything was changed, or the stored record itself is refused, also in
the `except` (`Upsert`), the old copy or none is written. An empty hash in a callback is stored as
one: a commit without a hash is not looked up (`CommitReceipt`) and the session waits, a finalize
without one confirms and names no transaction.

Choices made where the code leaves the environment open:

* The relay script may fail at any point, also after the broadcast; its answer may be
  lost in the same way. It broadcasts only what it could simulate, so in the open window.
* The wallet app estimates before it sends, so its own finalize transactions are sent in
  the open window; they may still be mined after it. It reports a hash it has sent, at
  any time and any number of times up to the bound.
* Each session has a wallet of its own. Two sessions of one wallet meet in the contract
  (`CoreCats` refuses the second commit) and are not modelled as rows. The commit of a
  session goes through once: `CommitTx` is one transaction.
* The store is the external backend (`MINT_BACKEND_BASE_URL` set), the production setting;
  the in-memory store of the development server is not modelled.
* 35 minutes after a callback outlast the 202 blocks of a commit's life, so a row
  extended by a callback does not expire while its commit is early or open. A row with
  the short expiry may go at any time.
* A row that expired and is written again by somebody still holding a copy comes back
  if the copy has the long expiry, and is removed again before anybody reads it otherwise
  (`Stored`).
* The branch `relayer_not_configured` of `_handle_pending_finalize` is not reached:
  `run_once` does not run without the same key. An address that cannot be encoded in
  `buildFinalizeRequest`, and a receipt without a status, are left out.

### CorePassCallback

`MintSessions` follows a session through time; here it is followed through people. Its
environment `env` is what decides whom links ask and where callbacks go: a pinned account
(`COREPASS_EXPECTED_CORE_ID`), the site's base URL, the method of the first step, and
whether a recovered signer is preferred. `requests` are the codes and links ever shown, with
the account asked and the `conn` URL's host; `callbacks` what wallets have sent, each for a request;
any of them may arrive at any time and again. A handler reads the record (`Read`) and writes
its copy later, whatever has become of the record (`Identify`, `Commit`, `Finalize`, `Relay`,
`Refuse`), so two handlers of a session overlap in every way.

A callback is a record of the fields the code looks up: `SessionId` prefers the path to the
login token, `Step` defaults to identify. How the fields are spelled and nested is left out, so
is the encoding of a call. CorePass is taken to do three things the repository relies on and does
not contain: it lets only the account a link names approve it, it answers at the URL of the
request, and a callback names the account that approved or nobody. The last is not taken of a
request to sign: its callback carries the signature of whoever approved (`Signs`), and beside it
any account may be named. With recovery the signature decides (`Resolved`), which is the case of
`corepass-callback-route.test.mjs` 574-641, and the record notes the mismatch; without recovery the
name does, and `MinterApproved` then says no more than that somebody named the minter.
A hash is the account that sent it. That a precheck refuses is a free choice, so is the relayer's
success.

### OwnershipCache and OwnerLookup

`cache` stands for `_snapshot` with `_expires_at` and for the two dictionaries; a request
either hits, or fetches outside the lock (`Miss`, then `Fetched` or `FetchFails` at any later
time). What an answer says is abstracted to the moment it is true of, `asOf`: the oldest
page a fetch has put together lies between its beginning and its end. The life of an entry
counts from the `now` taken *before* the fetch; the fault counts from its end.
`time.time()` is taken to be monotonic, and the explorer to be up to date.

`OwnerLookup` puts the way to the page around it. A search (`Search`, `Refresh`) answers from
the page's memory or sends a fetch; at the edge it finds a kept answer (`EdgeHit`) or asks the
backend (`EdgeMiss`), whose steps are those of `OwnershipCache`; the edge keeps what comes
(`EdgeKeeps`), the page shows it (`Arrives`). A fetch may be lost on either side. `took` is how long the edge
waited, since the life of what it keeps begins when the answer has come; the page counts from its
asking. One clock stands for three that go alike. `Sections` are the parts of the page
that are open.

The page's memory outlives the page. `Visit` leaves My Cats and opens it again, with an address in the
link or without: what memory has of the address is shown at once, whatever its expiry
(`useState(cached?.data)`), and if it has expired a fetch is sent (`loading`, which the page
says by "Refreshing..."); when that fails the old results stay, with `error` set. So `MemoryIsFresh`
is about a page that is neither loading nor in error: what stands there then was within the lives
(`InTime`) when the page asked for it or took it from memory. The page renders an error only in place of
results, not beside them, so a visitor sees no difference between stale results after a failed refresh
and fresh ones. `display` is history: the answer shown and the moment it was asked for or recalled. A fetch
of a page that was left (`mounted` FALSE) fills the memory and tells nobody. A reload of the tab, which
empties memory, and the second mount of a development build are left out.

### PollingLeader

`lease` is the item in `localStorage`, `current` the copy a handler has read; a handler is
one step to read and one to decide and write (`Claim`, `Release`). Other tabs hear of a
change by a storage event that may be as late as it likes; several waiting for one tab are
one here, because their handler reads the lease and not the event, and a further claim can
be made by the heartbeat. Tabs are mounted, hidden, left (released) and killed (not
released); a tab whose session has ended counts as left. The writer's own `setItem`
notifies the others even if it happens twice within a millisecond, when the browser would
see no change of value. A browser that refuses to store anything makes every tab poll and
is not modelled.

### MintPage

`poller` is the tab that won the election, once the tabs have settled (`Settle`). Of a
session its stage is kept: waiting for the commit, submitted, or done, the statuses the page
calls terminal. `row` is what is stored, `cache` the web server's `sessionReadCache`, `call`
the refresh of each tab under way, `shown` what is on display, `mail` a broadcast on its way.

A refresh is sent (`AutoRefresh`, `ForcedRefresh`, `Load`), reads the cache or the row,
perhaps removes a row it found expired with a second call (`Remove`), and comes back (`Answer`)
or fails. In between a callback invalidates the cache (`CallbackPersists`) and only then
stores (`CallbackStores`), the worker stores without knowing of the cache, the row runs out
on the web server's clock and is cleaned up on the store's. The worker may set a session
that is done back to submitted: that is the stale write of section 7.

One web process serves all tabs. `commit.expiry`, by which page and server would call an
unused commit request expired, is read (`corepass-mint-sessions.js` 102, 775 and the page) but
set nowhere, so that expiry is not modelled.

### WebEnv, BackendConfig, MintService

A variable of an environment holds one of the cases that either program tells apart: a
missing value, a placeholder, an `https` or `http` URL, the official host, an address in its
spellings, a surface with a blank behind it. `ServerEnv` is `getCoreServerEnv` with its
overrules for the official host, `MintRuntimeReady` that `getMintRuntimeConfigErrors` finds
nothing, `PassesCheck` is `validateProductionEnv`; they share no operator but the vocabulary,
as the programs share no code. `BackendConfig` has `IsValid` and `Config` for `config.py`, and
`signer`: whose key the finalize script then takes.

A site URL may be `https` and on the loopback at once (`https://localhost:3000`): the check takes it for
an `https` site like any other, the server for a developer's, which needs no external backend
(`core-env.js` 97, 370). `OpenMintIsTheRealOne` therefore promises a backend only where the site is
not on the loopback.

In `MintService` an operator edits a draft, and deploys it when the check accepts it; later
deployments come from the repository's examples. `calls[r]` is a request: the deployment that
accepted it, the backend calls it still has to make, the last reply, and its answer. One
backend call is one step; the backend may be stopped and started, in another mode or with
another secret, between two. `books` is what the backend has stored or sent: the requests
that put a session, got an authorization, tried a finalize, and the configurations under
which a relay was sent. What a call does to a session is the subject of `MintSessions`; here
a session is only there or not, and 409 stands for every refusal that depends on the chain.

`attemptSessionFinalize` stores what went wrong before it throws; that is the extra `put` of
`SavesTheError`. What it reads may also end a request early (`EarlyAnswers`): a session finalize answers
200 after its `get` alone when the session has a finalize hash already
(`corepass-mint-sessions.js` 1103-1105), and throws when it has no minter or no finalize yet; a callback
throws at any point between its read and its write. `hashed` in the books says whether a
session with a finalize hash was ever stored, by a callback, a session finalize or the worker. The redirect callback answers 204 whatever happened (`Answered`).

### CatRecords, CatArt, OnchainData

Pure operators. `CatRecords` has the tables of names twice, once as the generator's lists and
once as the renderer's branches, and the arithmetic twice: `Pack` with its masks, `Decoded`
with its shifts, both as div and mod. `CatArt` draws: a picture is a function from pixels to
colours, an SVG a set of rectangles painted one over the other, the nested loops of the
programs are the `Runs` of equal pixels along a row. `BuildSvgFromItem` (the rebuild script,
from the manifest's item), `BuildSvg` (the viewer generator) and `TokenURI` (the contract)
are the three drawings. `OnchainData` is the generator, whose input is the file it overwrites:
it carries over the masks and the first eight fixed layers and cuts the ninth, the beam, from
its picture.

### CollectionRelease, CollectionView

The files of the repository are variables, `job` is the script that runs and what it holds in
memory. Every write is a step of its own and `Stops` may be the next one; the pictures one
script writes are one step, up to the first item that cannot be drawn. `Init` is any earlier
release that was valid, not a constant: the collection itself is a parameter. A script reads
its inputs when it starts, so what it writes later may belong to an older selection.

In `CollectionView` a visitor's state is the address: `params` and the open cat. Every click
goes to a link the page shows (`Chips`, the pages of `Anchors`, the cards of `PageOpen`, `Neighbours`); addresses
from outside, legacy parameters and pages that do not exist included, are `Landings`.

`Catalogue` publishes: when a viewer run writes its last document, `viewer-data.js` finds all of them
of that run, and the visits begin.

The collection and the file it was first generated from are parameters, of which four named assumptions
are made; each holds of the files in the repository. `SourcesAssumption`: items have the fields the
scripts read and numbers of their own, the two logos are the only superrare ones, and the colour tuples
fit under the indexes of a record (512). `BaseDataAssumption`: `CoreCatsOnchainData.sol` has a mask
for every pattern, no nibble beyond a mask's slots, and palettes that end in the list of colours.
`OnchainAssumption`: a palette is numbered by a nibble, and the beam's picture has a colour or
nothing at every pixel. `CatalogueAssumption`: the palettes of `COLORWAY_GROUPS` belong to items of
their family only, and no selection drops the last item of one (all three selections drop the two logos,
which are in no group).

## 4. Runs

| Run | Instance | What it shows |
|---|---|---|
| `corecats` | 2 wallets, 3 tokens, cap 2, delay 1, window 2, 6 blocks, one reader | the books balance, ids are never repeated or lost, every commit has exactly one phase; the contract implements `TokenLottery` and `CommitLife`; the phase a reading reports is never ahead of the commit, and what it accepts can be committed unless a transaction changed the books meanwhile |
| `wallet_reader_torn` | the same with a window of 1 and 5 blocks | a torn reading accepts a quantity over the limit (section 7) |
| `sessions` | 1 session, 2 concurrent requests, commit callback repeated, one relay transaction beside the wallet's own | records stay coherent, no record contradicts the chain; a session in the worker's care stays in it while its commit can be finalized |
| `sessions_liveness` | 1 session, 1 request at a time, two relay transactions, window stays open | every commit the worker knows of is delivered |
| `sessions_race` | 1 session, 1 request at a time | a stale write of the worker undoes a finalize (section 7) |
| `sessions_duplicate` | 1 session, 1 request at a time, identify twice | a repeated identify callback takes the session out of the worker's care (section 7) |
| `corepass_callback` | 1 session, 2 accounts, 2 handlers, 3 callbacks, 3 environments, an official and a local host; beside a signature any account is named | the minter has approved, the commit waited for is the minter's, links stay on one host |
| `polling_leader` | 2 tabs; the session set back once | rivals hear of each other; left alone, exactly one tab polls; the page catches up with what is stored |
| `owner_lookup` | 2 fetches, every life 1 s, 3 s, any number of visits | answers without `errorMessage` are not older than the time to live; results on a page neither loading nor in error were within the lives when it asked; a page is never blank, and loads only while something is under way |
| `owner_lookup_other` | 2 addresses, 1 s | results of an address searched before stay or come back (section 7) |
| `catalogue` | 7 cats of 3 by 2 pixels, 7 selections, 2 rebuilds; then a visit, 2 cats a page, 1 filter | chain, manifest, pictures, viewer and filters agree whatever was run and stopped; regeneration is stable; chips count what they open, pages partition a view and links reach them, walks stay in it; the site is the one the viewer run published |
| `deployment` | 6 environments with up to 2 edits, 1 redeployment, 2 starts of the backend, 2 requests | what the check accepts serves as checked; what is answered ok is stored; only the secret opens the books, a read-only backend never; finalizes come from the finalizer |

### Bounds and why they are enough

* **Contract.** The limits are smaller than the demand: two wallets with a cap of 2
  want 4 tokens of 3, so commits are refused for the supply as well as for the cap, and a
  call draws up to two tokens. A full cycle (commit, delay, window, expiry) takes 4 blocks
  with the lengths chosen, so 6 blocks hold an expired commit followed by a second
  one, of the same or of another wallet, that is finalized. `BlockhashDepth` is at its smallest admissible value,
  equal to the window (200 and 256 in the code), so the boundary case is what is checked.
  What is proved does not depend on any of these.
* **`MaxBlock`** ends the chain of the model. The system then stops, hence
  `CHECK_DEADLOCK FALSE`.
* **Reader.** Readings start anywhere in these cycles. One reader suffices: readers do not affect
  anybody. That is also why the contract's own properties are checked in the same run.
* **Caches.** Entries do not affect each other. Two requests suffice for an older fetch to
  overwrite a newer one, three seconds for an entry to live a second, expire and be replaced twice.
* **Owner search.** Two fetches overlap and overtake each other; with lives of one second the
  lives add up to three, so in three seconds every memory is filled, served and left behind, and an answer
  that counted one of the lives twice would be seen.
* **Callbacks.** Three callbacks are two accounts' approvals of a first step and a commit, or one
  account's whole mint, each delivered any number of times. The environments: a login for anybody, with a
  base URL; a signature asked of one account, recovered, without a base URL; the same, not recovered, with
  the official host as base URL. `Others`, hosts
  that are neither official nor local, is empty: a session opened there differs from one opened locally only
  when no base URL is set, and then does not come to be. `MaxCallbacks` ends the model, hence
  `CHECK_DEADLOCK FALSE`. The proofs depend on none of these.
* **Tabs.** Two tabs make every race of pairs; the safety property is proved for any number.
* **Sessions.** `Sessions` has one element: sessions share only the sweep, whose list
  with more elements makes the copies older; the one session can be kept as old as one
  likes because nothing forces the sweep on. Two handlers and the worker make three
  concurrent writers. `MaxIdentify`, `MaxCommit`, `MaxFinalize` and `MaxRelay` bound the
  number of requests of a session, `RelayTxs` the number of broadcasts: in `sessions` one, which the wallet's own transaction may
  make revert or may follow; in `sessions_liveness` two, a failed relay and a successful one. A second identify callback is allowed in
  `sessions_duplicate` alone; that records stay coherent after it is proved, for any number. When all are used the system stops, hence `CHECK_DEADLOCK FALSE`.
* **Page.** The session follows an election that has settled: the two halves meet only in
  who polls, and a later change of poller is a step of the second half (`NextPoller`).
  `MaxSetbacks` of 1 lets a session end, be set back and end again, so every tab can have shown
  the end once too early. Callbacks need no bound: each belongs to a stage the row has left.
* **Catalogue.** Seven cats hold a common, a rare and a superrare one, a palette and a family
  with several and with one, three selections of which one moves both beams and one only the
  colours of a beam, and four more that are refused or miss a quota at another point. A picture needs at least one run of two pixels, a break
  within a row and a second row: three by two. An `OffsetBase` of 4 and 8
  `TupleIndexes` make the two bytes of an offset and the width of an index matter with five colour
  tuples (256 and 512 in the code). Two rebuilds allow a first one that stops half way and a complete second one. Link
  lists are checked for the pages there are and for up to `MorePages` more, since four pages
  leave no room for an ellipsis on a wide screen.
  The site is built only from a viewer run that wrote all its documents, which is
  what a deployment publishes. `MCView` drops the release's variables once a site is
  visited: nothing there reads or changes them, and no property about them is judged in
  those states that was not judged in the last one before.
* **Deployment.** The edits start from the repository's own example environments and from one that says
  nothing but the launch state (`Defaults`), from which two edits lead to a mint on `https://localhost` without a
  backend; two
  edits reach every pair of wrong values, and what the proofs say holds for all of them.
  Drafting ends with the first deployment, so environments and requests do not multiply. Two
  starts of the backend put a restart between any two calls, also with another secret or mode.
  Two requests are the one that is followed and the one that makes the session it asks for;
  they are interchangeable, and no liveness is checked, so the symmetry is sound.
* **`WindowCloses`** is FALSE only in `sessions_liveness`: delivery is promised as long as
  the window is open.

## 5. Fairness

`sessions_liveness` and `polling_leader` use fairness (`FairSpec` of the two modules). In
the first:

* Weak fairness of `Sweep`: the worker's loop runs for ever (`FinalizeWorker.run`; a failed sweep is logged;
  the service manager restarts the process).
* Weak fairness of mining and of `FinalizeWindowOpens`: the chain goes on and includes
  transactions.
* Strong fairness of the worker's steps on a session, of its reading the wallet's
  phase as it is, and of a relay that broadcasts: the node, the relayer and the process
  fail for a time, not for ever at the same step. Weak fairness would not do, since any
  step may be pre-empted by a failure or a restart and become enabled again in the next
  sweep.
* None for callbacks and page requests: nobody owes them. Delivery must not depend on them,
  and `SubmittedIsDelivered` says so.

In `polling_leader` timers fire, events arrive and handlers end (weak fairness), and the
lease of a tab that is gone expires. Nothing is assumed of the user. `OneTabPolls` speaks
of the behaviours in which, from some moment on, the user leaves the tabs alone, a tab
renews its lease in time (every 8 of its 20 seconds) and no tab changes the owner of the
lease between another's reading and its decision. The last condition is needed: TLC shows
that two tabs which overtake each other for ever, each renewing the lease from a copy in which
it was still its own, go on polling side by side. The two moments are microseconds apart, so
this does not last; any finite number of such races is allowed.

`PageFairness`, in the same run, is about the second half: the cache expires, the timer of the polling
tab fires while a submitted commit is on display, broadcasts arrive, another visible tab takes over
(weak fairness), and requests do not fail for ever (strong fairness of `Answer` and `Remove`,
since `CallFails` may pre-empt either). Nothing is assumed of the user, of callbacks or of the worker.
`PageCatchesUp` leaves one case out, and names it: a polling tab that has not seen the commit
(`Unpolled`). After its first three minutes such a tab asks again only when the user comes back or
presses the button (`mint-workflow.jsx` 569-578, 593), so without the user it may show "waiting" for ever.

## 6. Proofs

The theorems about `CoreCats` rest on `CoreCatsAssumption` alone: finitely many
wallets, positive supply and cap, and a finalize window no longer than the reach of
`blockhash` (200 and 256 in the code; without it a commit could reach a block at which
its hash is gone and it is not yet expired, and `PhasesPartitionTime` would fail).

| Theorem | Statement |
|---|---|
| `CoreCatsProofs!InductiveInvariant` | `Spec => []IInv` |
| `TypeCorrect`, `ReservationsAlwaysBalance`, `WalletCapAlwaysHolds`, `DrawsNeverRepeat`, `CountersAlwaysMatch`, `PhasesAlwaysPartition` | the safety invariants of the run `corecats` |
| `CoreCatsImplementsLottery` | `Spec => ImplementsLottery` |
| `CoreCatsImplementsCommitLife` | `Spec => ImplementsCommitLife` |
| `SeenPhaseIsAlwaysBehind`, `AcceptedAlwaysCanCommit` | what the run `corecats` says of the reader |
| `MintSessionsProofs!SessionsInvariant` | `Spec => []SessionsInv` |
| `TypesAreKept`, `RecordsAlwaysCohere`, `VerdictsAlwaysHold` | type correctness and the invariants of the run `sessions` |
| `IdentifiedOnceStaysOnTheList` | `MaxIdentify <= 1` implies `Spec => StaysOnTheList` (run `sessions`) |
| `CorePassCallbackProofs!CallbackTypes`, `MinterAlwaysApproved`, `WatchedCommitAlwaysMinters`, `ReturnsAlwaysOnOrigin` | type correctness and the invariants of the run `corepass_callback` |
| `MintServiceProofs!ServiceInvariant` | `Spec => []ServiceInv` |
| `AnsweredOkIsOnDiskAlways`, `BooksNeedTheSecretAlways`, `ReadOnlyAnswersRetiredAlways`, `RelaysComeFromTheFinalizerAlways` | the properties of the run `deployment` about the service |
| `CheckedEnvServesAlways`, `SurfaceAsCheckedAlways`, `OpenMintIsTheRealOneAlways` | those about the environment |
| `ServiceTypeCorrect` | the type invariant of the run `deployment` |
| `CollectionReleaseProofs!RecordRoundTrip`, `NibbleRoundTrip` | what the generator packs is what the renderer reads |
| `TheTablesAgree` | the Python port and the renderer name every record alike |
| `RunsPaintTheMap` | painting the runs of a map colours exactly its pixels that are not clear |
| `ReleaseIsDrawn`, `ReleaseIsViewed` | `Spec => [](ReleaseInv /\ DrawingInv)`, `Spec => []ViewerInv` |
| `ChainDrawsWhatWasReleased` | `Spec => []ChainDrawsTheManifest` (run `catalogue`) |
| `RegenerationStaysStable` | `Spec => RegenerationIsStable` (the same) |
| `ViewerShowsWhatTheChainShows` | `Spec => []ViewerShowsTheChain` (the same) |
| `FiltersAreTrueCounts` | `Spec => []FiltersCountTheCollection` (the same) |
| `CollectionViewProofs!ViewsAreKept` | `ViewSpec(docs) => []ViewInv(docs)`, for documents that agree |
| `ChipsAreHonest`, `PagingLosesNothing`, `LinksAreKept`, `WalksAreKept` | `ChipsCountWhatTheyOpen`, `PagesPartitionTheView`, `LinksReachThePages`, `WalksStayInTheView` of the run `catalogue`, for documents that agree |
| `SitesAlwaysAgree` | `CatalogueSpec => []SitesAgree` (run `catalogue`): what is published does agree |
| `TheSiteKeepsItsWord` | all four of a visit, under `CatalogueSpec` and nothing else |
| `PollingLeaderProofs!RivalsAlwaysHear` | `Spec => []RivalsHear` |
| `OwnershipCacheProofs!AnswersAlwaysFresh` | `Spec => []AnswersAreFresh` |
| `MemoryAlwaysFresh`, `PagesAreNeverSilent` | the invariants of the run `owner_lookup` |

**The inductive invariant.** None of the properties is inductive alone. `IInv` joins
them with what they need:

* `ReservationsBalance` says that `reservedSupply` is the number of reserved units, the
  pairs (wallet, k) with k up to the wallet's pending quantity. Counting a set, rather
  than summing a function, keeps the argument within what the prover can do: one commit
  adds or removes the units of one wallet.
* `CallConsistent` ties the loop's locals to the counters they were read from:
  `mintedBefore + quantity = mintedCount` as long as the call runs. Without it nothing
  bounds the slots that are still to be drawn.
* `TokensCounted` says the same of the tokens: a wallet's assigned tokens are its minted
  counter less what its running call has yet to draw. At the end of the call it becomes
  `CountersMatchTokens`.
* `SlotsHoldUnassigned` is the invariant of the swap-with-last lottery: the live slots
  hold every unassigned id exactly once. A draw removes one id and one slot, and the last
  slot's value moves into the gap; the case that the drawn slot is the last, and the cases
  that either slot was never written, are separate steps of the proof.
* `CommitShape` relates the two block numbers of a commit, which with the assumption on
  `BlockhashDepth` gives `PhasesPartitionTime`.

**Refinement to the lottery.** `Owed` maps a wallet to its pending quantity, or to what
is left of its running call. A commit promises, a draw delivers, a clearing lapses;
`finalizeMint` before its loop moves the promise from the pending commit to the call and
is a stutter; so is a block. The guard of `Promise` (what others are promised and the
new promise fit into the unclaimed ids) follows from `WithinSupply` and the balance of
the books.

**Refinement to the life of a commit.** `Phase` is computed from the commit and the block.
A block moves every commit at once (`BlocksPass`); the proof shows that a phase only
moves on with it, and that each call moves the commit it names and no other.

**Reader.** A reader's steps leave the contract alone, so `IInv` carries over to `ReaderSpec`.
To it comes the invariant of a reading in progress: the block seen is not later than the
present one, and while nobody has changed the books since the reading began, what has been read
is what the books hold (`BooksAsSeen`). The first gives `SeenPhaseIsBehind`, with the same
assumption on the window as the phases; the second, that an accepted quantity can be committed.

**Tabs.** `RivalsHear` is inductive together with the types: whoever changes the owner of
the lease notifies every other open tab, and a tab uses its event up only by looking
again. The theorem needs nothing but that `NoTab` is no tab.

**Caches.** `EntriesAreHonest` is what `AnswersAreFresh` needs: no entry outlives the
oldest page it was made of by more than the time to live. A slow fetch may replace a newer
entry, but it brings its own, earlier, end of life along.

**Owner search.** An answer is followed from memory to memory: what the backend is working on was asked
for at the moment the edge noted (`BackendIsHonest`), what the edge keeps dies at most `EdgeTTL` after
an answer that was at most `TTL` old when asked for (`EdgeIsHonest`), what is under way to the page was at most
that old when the page asked (`AnswersAreHonest`), and so is what the page keeps plus its own life
(`PageIsHonest`). The sum of the lives is the bound; the time the edge waited has to be added because
the edge counts from the answer's arrival. What is on display is within it because a page that takes an
entry from memory without asking takes one that has not expired (`RecallShows`), one that was opened with an
expired entry is loading until its own fetch is answered (`VisitKeeps`), and a fetch that ends well brings an answer
within the lives of the moment it was sent (`ShowsInTime`). Fetches left behind by a visit differ from the others
in that they show nothing (`Follows`). `NeverSilent` is inductive with the types.

**Whose session.** `IInv` of `CorePassCallbackProofs` has no sessions in time, only what is known by
now, and that only grows: callbacks are never taken back. A record is `Sound` if its minter is among
those who approved the first step (or, of a session to sign whose signatures are not recovered, among
those a callback named: `Vouched`), and a watched commit was sent by the minter or in a callback
that named nobody. Stored records, and all copies in handlers' hands however old, are sound
(`RecordsOk`, `CopiesOk`), so overwriting one by another is harmless (`PersistKeeps`). That a callback
speaks for its request (`CallbacksOk`) ties what a handler does to the account asked: with a pinned account an
identify that names nobody can only come from that account, and a recovered signature is its sender's
whatever is named (`ResolvedVouched`). For the hosts the argument is
that `Conn` is idempotent (`ConnIsStable`): the host a link leads to sends the next link to itself. The
proofs need that the mark for "none" is no name, host, step or record.

**Sessions.** The theorems rest on `MintSessionsAssumption` and `NoneIsNoRecord` alone: the names of
transactions, statuses, records and the mark for "none" do not coincide. There are many versions of a record at any
time: the row, the copy of every request, the copies the sweep listed, the one it works on.
The argument does not follow who overwrites whom. It says of *every* version that it is `Good` for
its session's transactions and phase: well-formed, coherent, its claims true, the hash it
names sent. Three facts then suffice. What the chain can do (`Moves`: a settled commit stays
settled, a transaction sent stays sent, a delivery stays, and after the window nothing is
delivered any more) keeps a version `Good` however old it
is, because records only claim what cannot become false again. Every function that writes a
record (`CommitRequested`, `CommitSubmitted`, `CommitChecked`, `FinalizeChecked`, ...) makes a `Good`
version of a `Good` one; the lemmas `...IsGood`. And whoever stores, stores a version that was
`Good`. What a step of the worker may rely on beyond that, its place in the sweep implies
(`StepOk`): at "receipt" there is a hash, at "pending" there is none. The one claim about
the present, that a window has closed, is drawn from the wallet's phase as it was read, and an
expired or vanished commit with no delivery does not come back, since a session's commit
is mined once.

`IdentifiedOnceStaysOnTheList` needs more (`CareInv`), because a step may take a session off the
list without telling a lie. The commit callback opens the finalize stage, names the commit and
extends the expiry in one write; from then on every version keeps the three together (`Settled`),
so the row cannot expire within the window and no such copy has a status from before the
commit. Copies that have one belong to the identify callback, and as long as it runs nobody else
has the session and the commit is not known (`Untouched`): its late write meets no session that is in the
worker's care. `MaxIdentify <= 1` is where this is used, and the run `sessions_duplicate` shows that it is
needed.

**Service.** `ServiceInv` ties what a request has left to do to what it has done: a session
finalize with only its last `put` left and no error has an attempt on record, an answer of 200
with nothing left to do means that everything its route stands for is booked, and one with calls left, which
only a session finalize gives, that a session with a hash was stored before. `books` only grows, so restarts, changes
of secret and later deployments cannot take that back. `SignerInv`, for the finalizer, says that
the running backend and every relay on record come from a valid environment. The theorems about
environments are of another kind: they are proved for every string in every variable and
only then lifted to the specification, so the number of edits and the list of
values do not matter. The theorems of this module need `BackendModes` (no environment with another mode's name gets
past `_normalize_backend_mode`) and nothing else. `ServiceTypeCorrect` adds that books name accepted
requests only (`Bookkept`) and that there is a deployment once a draft was deployed (`Counted`).

**Packed data and release.** `RecordRoundTrip` holds for any admissible number of tuple indexes up
to the code's 512 and any position in the records; `NibbleRoundTrip` for a map of any even
size; `TheTablesAgree` for every byte, the values no table names included. `FiltersAreTrueCounts`
needs to know what a stop leaves behind: `ReleaseInv` says that items are numbered in order, that a summary
counts one whole collection, the one it was made of (`of`, which is history: the file does not name it), that this is
the manifest's if both have the same time of creation, that a running script holds what
the repository holds, and that a viewer run past its first or second document has written it from
there. Nothing compares the times of creation, nor the summary's total with the items: after a rebuild that stopped
between its two writes `generate_viewer_data.mjs` publishes the new cats with the counts of an older
collection, and says PASS. Sorting a numbered list by number is the identity (`NumberedItems`), which is all the proof
needs of the sort.

**Drawings.** A picture is a fold over runs, a table a flattened sequence, the colour tuples a
recursive function: what they compute is proved by induction over the natural numbers in the form of sets
(`SetInduction`, from the least element that `WFMin` gives), since induction theorems with an operator for parameter
cannot be used. The lemmas say of each what its users need: a pixel is painted by the run
through it and by no other, and no later run repaints it (`RunThrough`, `RunsPaintTheMap`); each piece of a flattened sequence stands
whole behind those before it (`FlattenPiece`), in steps of one length if all are equally long (`EqualPieces`), so a
record, a tuple and an offset are found where the renderer looks (`RecordsRead`, `TuplesRead`); values
are collected once each and all of them (`FirstSeenHolds`). Then `RendererDraws` shows the
three drawings equal for an item that was packed: the pattern from the tuple table
is the one from the item's colours (`PatternsAgree`), the beam unpacked from nibbles and palette is the
picture it was cut from (`BeamAgrees`), the other layers are carried over (`LayersAreKept`).

`DrawingInv` is what makes that a statement about the repository: the data file is the one generated
from `dataSource` and the *first* data file (`GeneratedAgain`: what is carried over does not depend on how often), every item of a
written manifest was drawn before it was written, and its hash is of that drawing. It follows that
generating again changes nothing. `ViewerInv` adds that a viewer run goes on only if no item disagrees
with the data. Colours are the exception: the viewer compares names, not colours, so between an
edit of colours alone and the next generation it lists the manifest's; `ViewerShowsTheChain` therefore
asks for equal colours only if the data was generated from the items of the run.

**Views.** The theorems speak of any documents that agree (`Documents`): finitely many cats under numbers, the same in
the collection and in the index, and filters with an entry for every category and palette that a group stands for.
That a viewer run publishes such documents is `SitesAgree`: its collection and index are of one painted manifest,
its filters perhaps of an earlier one (a rebuild may have stopped between its two writes), but every
manifest is `Complete`, an item of each palette with a chip is in it, so the options are there
(`PublishInv`). Links to pages are the flattened pieces of anchors and ellipses in ascending
order (`EntriesAre`). Sorting is stated by rank (`Before`, `Place`), so the lemmas are
about cardinalities of finite sets and not about a sort: ranks are distinct and fill `1..n`, hence pages of
consecutive ranks are disjoint and exhaust the view, for every page size. Counts of chips are those of the
sets they open because a target differs from the address in the chip's own key only. `ViewInv` adds what a
walk needs: the open cat is in its view.

**Only model-checked.** Liveness (`SubmittedIsDelivered`, `OneTabPolls`, `PageCatchesUp`), which
is out of the prover's reach. `StaysOnTheList` is proved for sessions identified once, as the code needs it.

## 7. Disagreements between the code and its documents

Four runs end in a violation, each of a statement taken from the repository's documents.

* `sessions_race`. The worker lists a session at `commit_submitted`, the wallet finalizes by
  itself and its callback makes the session `finalized`; the worker then writes its old
  copy (`finalize_worker.py` 139). The session is `commit_submitted` again and the page
  waits for a finalize that has happened. The rehearsal plan
  (`docs/CCATTEST_REHEARSAL_CANARY_PLAN.md` 338-339) expects the session state to stay consistent.
* `sessions_duplicate`. The identify callback looks at no status
  (`corepass-mint-sessions.js` 1010). Repeated after the commit it is prechecked again; the
  pending commit makes that a rejection, the session becomes `precheck_rejected`, and the
  worker no longer lists it although its commit can be finalized.
* `wallet_reader_torn`. `minted` is read before `reserved`; a finalize in between moves the
  tokens out of the second after they were missed in the first, and a quantity over
  the wallet's limit is accepted. The commit then reverts on the chain, so the cost is a
  failed transaction; the worklog (`docs/worklogs/2026-03-10-phase-a-036.md` 6) says
  that such quantities are rejected before the commit is prepared.
* `owner_lookup_other`. `refresh` of the page stores whatever answer comes and a failed one leaves the
  results there are (`public-status-client.js` 47): after a second search the cats of the first
  address stay or come back under the new one, and nothing asks again. The page says "Enter a Core wallet address to
  see the cats currently held there" (`my-cats-browser.jsx` 109).

## 8. What is not modelled

* Inside the modelled components: how callbacks spell and nest their fields, the pictures of QR codes; bodies of
  requests, the issuing of authorizations, the health report and the counters of the
  backend; `LIMIT 100` of the candidates list, which can only starve a session when more than
  a hundred wait; retry counters, the stuck marker and the health snapshot; the audit tables;
  ABI encoding and the signer script behind the relay; a finalize reported by CorePass being
  looked up on the chain (the code does not: `VerdictsHold` therefore promises nothing of mode
  `corepass`).
* How the answer to a callback leads the phone back (the hand-off mode of a session, the redirect
  page); an answer of the backend that is not JSON, which the edge passes on as a success.
* Several web processes: each has a read cache of its own, and `MintPage` has one.
* Of the renderer the placeholder picture of pilot deployments, base64, JSON and the SVG's
  text; of the site the static pages and the live evidence, and an index of an older deployment that the browser
  keeps although the documents beside it are new (`force-cache`, `cat-detail-browser.jsx` 120): `SitesAgree` is
  about the documents of one publication; of an owner search the lookup of a single token.
* Of the release scripts `summary.json`, the viewer's copy of the trait summary: the overview prints its counts,
  and its total says how many pages of cats there are and when the mint page calls the mint sold out. No property
  depends on it.
* The rebuild's refusal of a source that counts ten superrare items (`rebuild_final1000_beam_outputs.mjs` 512):
  the source is a parameter no script writes, and such a one is none the rebuild starts from.
* The contact sheet from which people choose beams, and the deployment scripts: they leave
  nothing behind that another part reads.
* A recipient contract that refuses tokens or calls back during `_safeMint`.
* Transfers and approvals of the inherited CRC721, which are outside this repository's
  file; the owner and treasury wiring of the constructor.
* The Ethereum contracts the Core ones were derived from: kept for reference, not deployed.

## 9. Plan

Done, in this order: `TokenLottery`, `CoreCats`, its proofs and refinements; `CommitLife`;
`MintSessions`; `WalletReader`; `PollingLeader` and `OwnershipCache` with their proofs;
`CatRecords`, `CatArt`, `OnchainData`, `CollectionRelease` and `CollectionView`; `WebEnv`,
`BackendConfig`, `MintService`; `MintPage`; the proofs about records, service,
sessions, the worker's care and the reader; `OwnerLookup` and `CorePassCallback` with their proofs; the
proofs about release, views and the service's types; `Catalogue`, and the proofs that what was
released is what is drawn, viewed and published.

Left, the most important first:

1. Two sessions of one wallet in `MintSessions`, and what becomes of a session whose
   delivery the worker did not see.
2. Several web processes in `MintPage`, each with its own cache.
3. A recipient that calls back during `_safeMint`: the draws would then start from a count of
   minted tokens that is no longer the present one.
4. The candidates list with its `LIMIT 100` and its order by `updated_at`.
