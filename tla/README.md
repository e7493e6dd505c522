# TLA+ models of the qdp transfer node

This directory holds TLA+ models of the transfer path of qdp (`src/`) and the TLC
configurations that check them. They are written from the Go source. Each
definition that models code is listed in `PROJECT.json` ("map") with the source
lines it stands for.

## The system

A `plutos` node (`src/cmd/plutos/main.go`) processes transfers for accounts. It
has these parts:

* **Transfer processor** (`src/processor/processor.go`,
  `multiprocessor.go`). There are `-threads` Processors, each behind its own
  mutex, and account `a` is served by Processor `a % threads`.
  `ProcessTransfer` runs these steps in order:
  1. preloads the sender;
  2. reads the cached head txn;
  3. answers a repeated request from the cache (the idempotence check);
  4. checks the prev hash;
  5. reads the balance and checks it item by item;
  6. reads the unspent inputs;
  7. builds the new txns (ids, prev-hash links, hashes) and marks the inputs
     spent;
  8. pushes the txns and the spent inputs;
  9. on a push error resets the sender, otherwise commits the txns to the cache.
* **Chain cache** (`src/chain/chain.go`). This is per account:
  * a skip list of output txns keyed by id;
  * a map of unspent inputs keyed by (sender, id).

  Every method takes one chain-wide mutex. `PutTo` cuts the list to the newest
  four ids and then files each txn as an output, an unspent input or a spent
  input.
* **Preloader** (`src/preloader/preloader.go`). It fills an account's cache
  from the store the first time the account is used (`Preload`). It forgets
  the account on `Reset`.
* **Pusher pipeline.** `Seqpusher(DB pusher, RoutedPusher)` first writes the
  batch to the store. Then the `RoutedPusher` starts one goroutine per txn, and
  each goroutine sends its txn to the push service of the receiver's node. The
  push service (`remotepusher.Service` with `ChainPusher`) decodes the txn
  (`txnsFromProto`) and calls `Chain.PutTo(receiver, txn)`. The spent inputs
  have the sender as receiver, so they come back to the sender's own chain.
* **Store** (`src/sqlchain/chain.go`, reached through `src/bigchain`).
  * `Push` is one `INSERT ... ON DUPLICATE KEY UPDATE spent_by`.
  * `Fetch` returns the sender's newest txns plus the rows of a second query
    meant to return the account's unspent inputs.

  * `PushSettings` is a plain `INSERT` into `sett`, which has the unique key
    `(account, id)`.
  * `Fetch` also returns the account's newest settings.
  * `GetHistory` and `GetTxnMulti` serve the API's reads (below).

  The store is the only durable state. A cache is rebuilt from it after a reset
  or a restart.
* **API service** (`src/api/api_service.go`). `ProcessTransfer` forwards a
  transfer to the gate. After an OK it puts the request's metadata into the
  metadata store, indexed by the sender and the gate's `Id`, the id of the
  reply's txn. `GetByMetaKey` reads the metadata, then asks the store's
  `GetTxnMulti` for the txns the index names and drops those with id 0
  (`removeZeros`). `GetHistory` asks the store's `GetHistory`, a loop that
  alternates two queries:
  * the account's inputs spent by the current id (at first 0, the unspent
    ones);
  * its newest txn below the current id, which becomes the id (at first the
    uint64 wrap of 0, no bound).

  It stops when the second query finds nothing, or when the history reaches
  the limit (0 means none).
* **Settings processor** (`src/processor/settings_processor.go`). It is a single
  `SettingsProcessor` with one mutex. It shares the Preloader with the
  transfer Processors and owns the settings chain cache
  (`src/chain/settings_chain.go`). `ProcessSettings` runs these steps in
  order:
  1. preloads the account;
  2. checks the sign against the last settings' key (only if there are
     settings);
  3. checks the prev hash;
  4. gives the new settings the next id and their hash;
  5. pushes them to the store (the DB pusher alone);
  6. commits them to the settings chain.

  `ProcessTransfer` checks each request's settings id and sign against the
  same settings chain.
* **Routing** (`src/router/static_router.go`, `src/gate/gate.go`,
  `src/api/router.go`, `src/router/handler.go`). Every node and the API client
  hold a `StaticRouter`, which is a table of shard starts and hosts.
  * `GetHostByKey` bisects the table with `sort.Search`, steps back one entry
    and wraps around.
  * `SetNodes` clears the table, then appends one entry per list item:
    * `"<id>=<host>"` keeps its start;
    * `"<host>"` gets start `i * (((1<<63)/n)<<1)`;
    * `""` is skipped;
    * a malformed entry panics.
  * The gate's `checkRouting` runs in front of every handler. It serves an
    account its own table maps to itself. Otherwise it replies `SEE_OTHER`
    with its `Nodes()` (`"%d=%s"` entries).
  * The client's `routeAndRetry` installs that list and sends again, at most
    three times in all.
  * An operator (POST `/cfg/router`) or service discovery (`UpdateRouter`)
    changes a node's router with `SetSelf` and then `SetNodes`.

* **Archiver** (`src/archiver/archiver.go`, `http.go`). It is a separate
  service that no binary of the repository starts. It keeps three bolt
  buckets:
  * `txns`: `<block hash>/<dir>/<id>` -> JSON, with pushed items waiting
    under the zero block hash;
  * `idx`: item -> the block that holds it;
  * `blocks`: block hash -> metadata, plus the key `last`.

  `Push` and `PushSettings` put items under the zero hash. `Rotate` runs in
  three steps:
  1. one bolt update hashes the pending values, moves them into the new
     block, indexes them and makes the block `last`;
  2. the archive is uploaded to minio (three `PutObject` tries, then a copy
     to `last.tar`), or nothing happens without minio;
  3. a second update stores the block's metadata.

  The `Start` loop rotates on a ticker and returns on the first error.
  `GET /rotate` calls `Rotate` too. `New` runs `recover`, which refuses to
  start unless every key of `txns` names an UPLOADED block.

## Modules

| module | models | state / operators |
|---|---|---|
| `Chain` | `chain/chain.go`, `pt.GetHash`, `pt.NewTxnID` | Pure operators on one account's cache `[l, u]`. `PutTo` is a fold of `PutOne` over the txns after `CutList`. Readers: `GetLastTxn`, `GetLastNTxns`, `GetBalance`. A hash is the injective tuple of the hashed fields. |
| `SqlChain` | `sqlchain/chain.go`, `bigchain`, `txnsFromProto` | The store is a set of rows with key (sender, id). `DbPush` folds `StoreOne` (insert, or update `spentBy` on a duplicate). `DbFetch` returns the newest rows without their hash, plus the rows with `receiver = acc AND id = 0`. `GetHistory` is the loop `HistoryLoop`, a RECURSIVE operator with the loop's variables `out`, `id` and `txns` as arguments. `GetTxnMulti` returns, per id, the newest row below it, or fails. Neither selects the hash. The input query has no ORDER BY; the model takes its rows in key order. |
| `Ledger` | the spec's promise (sections 2 and 5), no code | The abstract specification: VARIABLE `sent`, each account's outputs in id order. `Transfer(s, b)` appends a whole batch of one sender when every running balance of a non-mint sender stays at or above zero, the balance being what the account received minus what it sent. `PlutosNode` maps the store's txns table onto `sent` (`StoreLedger`) and checks `LedgerAbs!Spec` as `LedgerRefinement`. |
| `SqlApi` | `sqlapi/sqlapi.go` (`select_`, `checkSelect`, `parseWhere`, `parseLimit`, `parseAccID`), `api.Service.GetHistory` | Pure operators over `SqlChain`. A SELECT is a record of the parts `select_` reads: the FROM table names, the WHERE clause (absent, or type, operator, column and account literal) and the LIMIT clause (absent, or offset and count). `SqlSelect` runs the checks in the code's order and calls `ApiGetHistory`, which hands limit and account to the store's `GetHistory`; the token goes nowhere, as the store never reads it. `Uint32` is the cast of the count. `SqlRef` is what the statement means in SQL. An INSERT is a record of table, column names and VALUES rows of integer literals (a prev_hash string is an integer too, `EmptyHashLit` for the empty one). `SqlInsert` folds `FillCell` over rows and columns: the column lookup (an index past the column list panics, an unknown name is refused), then `FillSender`, `FillReceiver`, `FillAmount` or `FillPrevHash` on the request built so far; it stops where `insert` calls `ProcessTransfer`. `InsertRef` is the request the error messages promise. |
| `ApiService` | `api/api_service.go` | Pure operators: `TransferIndex` (the index `ProcessTransfer` writes: prevhash, sender, the gate's id, then the client's pairs), `MetaTxnId` (`GetByMetaKey`'s reading of an index, the last `sender` and `id` pair winning), `IndexPanics` (`unbytes` of a value shorter than 8 bytes), `GetByMetaKey` and `RemoveZeros`. |
| `ApiNode` | the API service in front of one `PlutosNode` | Extends `PlutosNode` with VARIABLE `meta` (the metadata store, key -> record). `ApiTransferMeta`: after the gate answered OK (`GateTransferResponse`), the record is put under the client's key. `PutMeta`: a client's own record. Every `PlutosNode` step leaves `meta` alone. |
| `MCApiNode` | constants for TLC | One metadata key; the client index pairs: none, an `id` pair, or an `id` pair with a short value. |
| `SettingsChain` | `chain/settings_chain.go`, the `sett` table, `pbSettingsToPt`, `pt.GetSettingsHash` | Pure operators. The settings cache of one account is a function from id to settings: `SettingsPut` is the cut to front-1 followed by an insert if absent, and `GetLastSettings` returns the front. The table is a set of rows: `PushSettings` inserts, `SettDuplicate` is the unique-key violation, and `FetchSettings` returns the newest row without its hash. A settings record keeps `id`, `account`, `key`, `prevHash` and `hash`. |
| `PlutosNode` | one node: Multiprocessor, SettingsProcessor, Preloader, both caches, pushers, store | VARIABLES: `list`, `unspent`, `sett` (the caches); `preloaded`; `db` and `sdb` (the tables); `act` (the request each shard and the SettingsProcessor `SP` runs, with its program counter); `late` (timed-out pushes still in flight); the failure and restart counters; and `replies` (the history of successful replies). |
| `SkipList` | `chain/skiplist.go` (and `settings_skiplist.go`, the same code) | Pure operators on a list value `[h, p]`: each element's height, and its next element at each level. The search loops of `findOrInsert`, `Remove` and `RemoveAfter` are RECURSIVE operators that return the `update` array. `GetOrInsert` takes any height `randHeight` can return. `SkipLists(ks)` is every list value the operations build from `newSkipList` with keys `ks`. `KeysOf` maps a list to the key set `Chain` uses (the domain of `l`). |
| `SettingsSkipList` | `chain/settings_skiplist.go`, `SettingsChain.Put` of `chain/settings_chain.go` | The settings chain's own skip list, instantiating `SkipList`: `SettingsFront`, `SettingsGet`, `SettingsGetOrInsert`, `SettingsRemoveAfter`, and `SettingsListPut`, the cut to front-1 followed by the insert of `Put`. `SettingsLists(ids)` is every list these build from `NewSettingsSkipList`. |
| `Gate` | `gate/gate.go` (`transferFromProto`, `validateHexLen`, `Gate.ProcessTransfer`), the hex codecs of `pt/pt.go` | Pure operators. A hex string on the wire is a record of its length, whether it is all hex digits, and the value it decodes to. `EncodeHex` is `Hash.String`/`Sign.String`, `DecodeHex` is `GetHashFromString`/`GetSignFromString` (the empty string gives the zero value). `TransferFromProto` runs the empty-batch check, the two `validateHexLen` checks and the decodings in the code's order. `GateProcessTransfer` takes `checkRouting`'s outcome, the decoded request and the processor's result: hash and settings id are copied from the result before the error is looked at, and `TransferCode` is the switch on the error's cause. |
| `MCPlutosNode` | constants for TLC | Two or three accounts, amount 1. `WireRequest` is a pending transfer as a client sends it (hex strings, the empty string for no sign); `SpecTransferCode` is the status table of spec section 4.8. Keys: `NoKey` alone, or `NoKey` and `K1`. Skip lists of levels 3 over keys 1..4, and the skip-list properties that index them by the chains the node holds. History limits 0..3, the LIMIT clauses of a SELECT, and the API read properties over the store the node writes. `MCSignedAmounts` (-1 and 1) for `negative_amount.cfg`. |
| `Routing` | `StaticRouter`, `Gate.checkRouting`, `api.Router`, the `/cfg/router` handler, the router set-up of `cmd/plutos` and `cmd/plutoapi` | VARIABLES: `table` and `self` (each node's router); `pending` (a POST whose `SetSelf` is done and whose `SetNodes` is not); `ctable` (the client's router); `cpc`, `acc`, `try` and `target` (the client's call); `outcome`; and the history variables `stable` and `changed`. |
| `Archiver` | `archiver/archiver.go`, `archiver/http.go` | VARIABLES: `tb`, `blocks`, `last` and `idx` (the bolt buckets; a block hash is the function from items to the values it covers); `minio` (what `SetMinio` configured); `up` (`New` succeeded); `looping` (the `Start` loop runs); `rot` (the stage of each `Rotate` caller: the loop and the `/rotate` handler); and the history variables `pushed` and `created`. |
| `Archive` | what the archiver offers its readers, no code of its own | The abstract specification: VARIABLES `waiting` (item -> value pushed since the last rotation) and `sealed` (the blocks in order). `Put` replaces a waiting value; `Seal` appends everything waiting as one block and empties `waiting`. `Archiver` maps the values under the zero block hash onto `waiting` and, for the k-th block made, the values under its hash onto `sealed[k]` (`BlockContent`), and checks `ArchiveAbs!Spec` as `ArchiveRefinement`. |
| `MCArchiver` | constants for TLC | A txn item and a settings item, versions 1 to 3, the two callers of `Rotate`. |
| `MCRouting` | constants for TLC | Nodes `h1` and `h2`, 3-bit ids, accounts 1 and 6, the node lists an operator may post, and the selves a node may be given. |

### How the actions of `PlutosNode` correspond to the code

`act[sh]` is the request that holds the mutex of shard `sh`. The code points at
which other actors may interleave are where the model splits a request into
actions.

| action | code |
|---|---|
| `ReceiveTransfer`, `ReceiveRead` | `Multiprocessor` dispatch and `p.mu.Lock()` |
| `PreloadHit`, `PreloadMiss` | `Preload` lines 81-90, for a shard or for `SP`: the check of the preloaded set under its mutex, found or not |
| `PreloadJoin` | `preloadGroup.Do` while a load of the account is in flight (`Loading`): the caller waits for that load's result |
| `PreloadFetch`, `PreloadFail` | `preloadGroup.Do` with no load in flight: `load` starts and `BigChainFetch` answers, or fails (the caller and nobody else gets the error) |
| `PreloadPut` | the rest of `load` (lines 60-77): `PutTo` and `SettingsChain.Put` of what was fetched, then the mark; the loader and everyone joined go on |
| `Read` | `GetPrevHash` (`Chain.GetLastHash`, which memoises a zero hash) and `GetBalance` |
| `Validate` | `ProcessTransfer` lines 92-192: head, replay, settings id and sign (`SettingsOk`), prev-hash check, `Chain.GetBalance`, running balances |
| `Link` | lines 199-231: `Chain.ListUnspentTxns` under a new lock, ids, links, hashes, the reply |
| `PushDbOk`, `PushDbFail` | the DB pusher of the Seqpusher (`RemotePush`: `PusherClient.Push`, the store's push service, `DB.Push`). A failure may have been applied; then `Preloader.Reset` (`ChainReset`, `SettingsChainReset`) runs. |
| `RouteOk`, `RouteFail`, `RouteLate` | one RoutedPusher goroutine: delivered; failed, whether applied or not; timed out but still in flight |
| `FinishPush` | `errgroup.Wait`, then `Preloader.Reset` on an error or `Chain.PutTo(sender, txns)` |
| `DeliverLate` | a timed-out push reaches the push service |
| `SReceive` | `ProcessSettings` (`SReceiveSettings`) or `GetLastSettings` (`SReceiveGet`) up to `p.mu.Lock()` |
| `SValidate` | `ProcessSettings` lines 48-83: the sign check (only when there are settings), the prev-hash check against the cached hash as it is, the next id and the hash |
| `SPushOk`, `SPushDup`, `SPushFail` | the settings push. It is either stored, or refused on the duplicate key, or fails (applied or not). A failure returns without a reset (lines 86-88). |
| `SCommit` | `SettingsChain.Put`, then the reply |
| `Restart` | the process restarts: the caches, the preloaded set and the requests are lost, the store stays |

The validation runs as one action because between its reads (lines 93 to 169)
other actors can only add unspent inputs. An input added there has the same
effect as one added before line 93. Line 205 (`ListUnspentTxns`) is a separate
action, because an input added between 169 and 205 is observable.

`Preload` runs in the steps the code has: the check of the preloaded set,
then `singleflight.Do`, which joins a load in flight or starts one, then the
puts and the mark. The fetch is one step with `Do`: it reads the store, which
only pushes change, and a push between `Do` and the fetch has the effect of
one before `Do`. The check and `Do` are separate, so a load can start after
another one finished: `SP` can find the account not preloaded, then the shard
finishes its load and starts a push, and `SP`'s load fetches before the push,
puts its stale rows after the shard's reset and marks the account preloaded.
`load_race` and `settings_load_fork.cfg` show what that does.

A sign is modelled by the key that made it (`NoKey` is the zero sign). It
verifies against that key only.

Clients appear only as the requests they send. A new transfer carries the id
of the sender's newest stored settings, and is signed with any key of `Keys`:
whoever holds an old key can sign with it. A new request carries the zero
hash or the hash of the sender's newest stored txn. A retry re-sends a run of
stored txns with the prev hash of the first one (the request the node once
accepted).

### How the actions of `ApiNode` correspond to the code

| action | code |
|---|---|
| `ApiTransferMeta` | `Service.ProcessTransfer` with metadata, after the gate's OK for a transfer the node accepted (a first answer or a replay): the record is put under the key. A failed put stores nothing, which is the state before the step. |
| `PutMeta` | `Service.PutMeta`: the client's record, indexed by its own pairs only |

The metadata store is a collaborator outside this repository: a put under a
key replaces the record there. `GetByMetaKey` is an operator over `meta` and
the store.

### How the actions of `Routing` correspond to the code

| action | code |
|---|---|
| `Call(a)` | one of the five request methods of `api.Router` enters `routeAndRetry` |
| `Route` | the `reroute:` label: the `try == 3` check, `try++`, `getClientForAccount` (the host the client's table names) |
| `Serve` | the target node's gate runs `checkRouting` on its router as it is now, and the client runs `decodeAndCheckReroute`. An empty table panics and the call fails. An account the node owns is served and the call returns. Otherwise the client installs the node's `Nodes()` and goes back to `reroute:`. |
| `PostSetSelf(h, s, list)` | the handler's `SetSelf` (POST `/cfg/router` or `UpdateRouter`) |
| `PostSetNodes(h)` | the handler's `SetNodes`. A panic ends the handler and leaves what `SetNodes` had built up to that point. |

`SetNodes` is modelled entry by entry, including what it leaves behind when it
panics:
* an empty list is cleared first and then divides by zero, leaving no table;
* a malformed entry leaves the entries before it.

Ids are W-bit words, and `EqualPart` keeps the code's formula with 64 replaced
by W. `Search` is `sort.Search`'s bisection, so an unsorted table is routed the
way the code routes it. The gate's three router calls (`GetHostByKey`,
`IsSelf` and `Nodes`) run as one step. The error mapping after
`checkRouting` only translates the processor's result and is left out.

### How the actions of `Archiver` correspond to the code

| action | code |
|---|---|
| `Push(i, v)` | `Push` / `PushSettings`: one bolt update puts the item under the zero hash, replacing a pending value. `blockSize` and `triggerRotation` only wake the loop early; the loop may rotate at any time anyway. |
| `RotateFirst(r)` | `Rotate`'s first stage. With nothing pending it returns nil and changes nothing, a stutter step. |
| `Upload(r)` | `upload` (`uploadToMinio`): without minio the status stays PREPROCESSED. With minio either the object and the `last.tar` copy are written and the status becomes UPLOADED, or `Rotate` returns the error. A loop that gets an error stops. |
| `RotateLast(r)` | `Rotate`'s last stage: stores the metadata. |
| `Restart` | a crash, then `New` (`recover`) and `Start`. A rotation in flight is lost. |

The readers `CheckTxn`, `Block` and `LastBlock` are operators on the buckets.
Pushed values are versions: a txn or settings item is pushed again only with
new content (`SpentBy` set). `Repush = TRUE` lets a value be pushed twice.

## Properties

* `TypeOK`: the shape of the cache, the store and the requests.
* `MoneyConserved`: the balances the store credits sum to zero, with the mint
  (account 0) negative.
* `NoPhantomBalance`: an idle served account's cached balance is never above
  what the store credits it with.
* `CacheHeadMatchesStore`: an idle served account's cached head is the
  store's newest txn.
* `ChainLinked`: the store's chains are numbered 1, 2, ... and linked by prev
  hash (spec section 3).
* `RepliesRecorded` (checked only under `batch_replay.cfg`): every successful reply, replays included, names the
  stored txns of its request; the reply hash is that of the batch's last txn
  (spec 4.4, spec 8).
* `BalanceMatchesStore`: with no request running and nothing in flight, every
  served account's cached balance equals the store's.
* `IdempotentRetry`: a shard validating a retry of an accepted request
  recognises it as a replay and answers with the same txn id. This applies
  when the request's batch ends at the store's newest txn and the cache holds
  that txn as its head (spec 8).
* `SettingsChainLinked` (checked only under `settings_fork.cfg`): the stored settings are numbered 1, 2, ... and linked
  by prev hash (spec 3, invariant 6).
* `SettingsCacheMatchesStore`: when `SP` is not working on an account, the
  account's cached settings have the id and key of its newest stored ones.
* `SettingsCacheDurable`: cached settings are always a stored row.
* `SignedByCurrentKey` (action property): a transfer passes validation only if
  it is signed with the key of the newest stored settings. This is checked
  except while `SP` is between the push and the commit of that account's
  settings.
* `SkipListWellFormed`: consider every list value that `GetOrInsert` (any
  height), `Remove` and `RemoveAfter` can build over keys 1..4 and levels 3.
  For each one whose key set a chain holds:
  * every pointer leads further down the order;
  * level i holds exactly the elements taller than i;
  * every element is reachable.
* `SkipListImplementsKeySet`: each such list behaves as the ordered key set
  the chain relies on. Checked for every key:
  * `Front` is the greatest key;
  * `Get` finds exactly the keys present;
  * `GetOrInsert`, `Remove` and `RemoveAfter` add, remove and cut the key set.
* `SettingsSkipListImplementsPut`: the settings chain's skip list holds
  exactly the ids of the settings function `SettingsPut` builds. For every
  list value `SettingsListPut` can build over ids 1..4 and whose id set an
  account's cached settings have: it is well formed, its front is the
  greatest id, and `Put` of any id leaves the ids of `SettingsPut`.
* `GateRepliesResync`: the gate's error replies let a client resync, as spec
  section 4.8 promises ("helper fields ... included even on error so clients
  can resync"). For every transfer a shard is about to validate, take the
  processor's result on it now (`ProcessorCheck`, the checks of
  `Processor.ProcessTransfer` in their order, with the hash and settings id
  it has set by the time it returns) and the reply `GateProcessTransfer`
  gives. If the result is an error, the reply's code is the spec's code for
  it, and the same request sent again with the reply's hash and settings id
  decodes and passes the settings-id and prev-hash checks. It fails if the
  processor returned an error before setting `res.SettingsId`, if the gate
  filled the helpers in only on success, or if a full-length hash were
  refused by `validateHexLen`.
* `HistoryMatchesSpec`: for every account and every limit 0..3, the store's
  `GetHistory` loop returns `HistoryRef`: the unspent inputs, then the
  account's txns newest first, each followed by the inputs it spent, cut at
  the limit. It is checked in every store the node's batches build, with
  self-transfers and inputs spent by a batch.
* `LedgerRefinement` (refinement, `ledger` and `batches`): `PlutosNode`
  implements `Ledger` under the mapping `StoreLedger` (each sender's stored
  rows by id, cut to receiver and amount). Every change to the store's
  outputs appends one whole batch of one sender at the ids after its last,
  within the balance the store credits that sender. No row is rewritten and
  no id is skipped. This holds whatever the cache shows, and through failed
  pushes, resets, reloads and restarts. Caches, retries and spent-by updates
  are stuttering steps.
* `NoNegativeBalance` (checked only under `negative_amount.cfg`): no account but the mint is ever credited a negative
  balance in the store (spec: `NoBalance`, "non-mint account would go
  negative"). The balance check of `ProcessTransfer` runs item by item over
  the sender's cached balance; the receiver is never checked, so the property
  also depends on the amounts the processor lets through.
* `SqlSelectMatchesSql` (checked only under `sql_limit.cfg`): for every account and LIMIT clause (none, 1, 2, 3),
  `SELECT * FROM txns WHERE account = <acc> LIMIT ...` through `select_`,
  `parseLimit`, the API and the store's loop returns the rows SQL gives:
  the history in the spec's order, cut to the count. It is checked over every
  store the batches build.
* `SqlInsertMatchesValues`: in every state of the store, for every INSERT of
  `MCInserts`, `insert` either
  refuses it or builds the request its error messages promise: one sender
  named by every row, the prev hash of the first row only, and each row's
  receiver and amount in row order. Each fill function sees only the request
  built so far and the row index, so the property is about their checks
  together, in every column order.
* `MetaLookupFindsTxn` (`ApiNode`, violated, run `meta_lookup`):
  `GetByMetaKey` of the metadata written for an accepted transfer returns the
  txn with the sender and id of its index, as `TestGetByMetaKeyOk` expects.
* `MetaIndexNamesTxn` (`ApiNode`, violated under `meta_index.cfg`, kept
  outside the runs): the index `ProcessTransfer` stored for an accepted
  transfer reads back, as `GetByMetaKey` reads it, as that transfer's sender
  and id.
* `LookupMatchesSpec`: in every sorted table a node or the client holds,
  `GetHostByKey` returns, for every id, the host of the largest start <= id,
  or the last host when no start is <= id (spec 4.7).
* `RerouteConverges` (action property): a call that begins while every node
  has the same non-empty table and is itself, and during which no router
  changes, is served by the owner after at most one `SEE_OTHER` (spec 8).
  This needs `Nodes` and `SetNodes` to round-trip and the client to install
  the list.

* `NoItemLost`: the value last pushed for an item is either still pending,
  or it is what the block that `idx` names holds for the item. This holds
  through concurrent rotations, failed uploads and a crash.
* `BlockChainLinked` (checked only under `archiver_repush.cfg`): the metadata stored for the k-th block made names the
  (k-1)-th as its PrevHash, the first names the zero hash, and `LastBlock`
  is the newest block's metadata. This is the chain `TestBlockPrevHash`
  reads.
* `ArchiveRefinement` (refinement of `Archive`): every first stage seals
  exactly the values waiting under the zero hash, all of them, as one new
  block after the others, and leaves nothing waiting; pushes, uploads,
  last stages, failed uploads and crashes change no sealed block. A first
  stage that left a key pending, or moved it under the wrong block, breaks it
  where `NoItemLost` still holds.
* Defined, but violated and kept outside the runs (see below):
  * `RecoverAcceptsUploaded` (action property): a restart succeeds when every
    block is stored and UPLOADED.
  * `ArchivedEventually` (liveness, under `LiveSpec`): while the loop and the
    archiver run, a pending item reaches a block with stored metadata.

## Runs

| run | cfg | expect | what it shows |
|---|---|---|---|
| ledger | `ledger.cfg` | pass | One Processor, one failure (store or delivery, applied or not) and one restart. The store implements the abstract `Ledger`. Money is conserved; the cache never shows more money than the store, nor a wrong head; the retry of the last request is recognised. |
| batches | `batches.cfg` | pass | Batches of two, appended whole as `Ledger` says. The chain stays linked, money is conserved, a quiescent cache equals the store, and retried batches are recognised. Every skip list holding a chain's ids is well formed and implements the key set. The store's `GetHistory` returns the spec's history for every limit; a SQL INSERT builds the request its values and error messages promise. |
| settings | `settings.cfg` | pass | One Processor and `SP` preloading the same accounts, two settings per account, keys `NoKey` and `K1`, and client retries. The settings cache equals the store, also when a second load straddles a push; a quiescent cache equals the store. Only the current key signs transfers. Every skip list `SettingsChain.Put` builds implements it. Every error reply of the gate has the spec's code and helper fields the client can resync from. |
| failures | `failures.cfg` | pass | A fetch, a transfer push (possibly delivered late) or a settings push fails, applied or not, and the client re-sends a failed settings request. The settings the node checks against are always stored ones. |
| routing | `routing.cfg` | pass | Two nodes reconfigured through POST `/cfg/router` (unsorted, wrapping, malformed and empty lists among them) and one API client. Sorted tables route as the spec's partition. A call made while the cluster agrees succeeds within two sends. |
| archiver | `archiver.cfg` | pass | Two items pushed in up to three new versions, both callers of `Rotate`, minio present or not, two failed uploads and two crashes. No item is lost, and the txns bucket implements `Archive`. |
| money_race | `money_race.cfg` | violation | `MoneyConserved` fails: processor.go reads the balance (169) and the inputs (205) under different locks. |
| late_resurrect | `late_resurrect.cfg` | violation | `NoPhantomBalance` fails: a late delivery puts a spent input back (chain.go 146-152). |
| zero_hash_fork | `zero_hash_fork.cfg` | violation | `ChainLinked` fails. A reloaded head has a zero hash, because Fetch does not select the hash. processor.go:96 recomputes only non-zero hashes, so a zero prev hash is accepted for id 2. |
| load_race | `load_race.cfg` | violation | `LedgerRefinement` fails. `SP`'s second load fetches before the shard's push, which fails after its INSERT; after the reset the stale load marks the account preloaded, the next transfer reuses the stored id, the store keeps the old row, and the receiver spends money the store never credited (preloader.go:82-92). |
| settings_stale | `settings_stale.cfg` | violation | `SignedByCurrentKey` fails. A settings push fails after its INSERT, and `ProcessSettings` does not reset (settings_processor.go:86), so the old key, or no sign, keeps working. |
| meta_lookup | `meta_lookup.cfg` | violation | `MetaLookupFindsTxn` fails on the first accepted transfer. `GetTxnMulti` selects `id < ?` (sqlchain/chain.go:226), so the metadata of txn 1 finds no row and the call fails; for a later txn it returns the txn before. |

Each violation is explained in `PROJECT.json` ("findings").

`unspent_not_reloaded.cfg` is kept beside the runs: after a restart
`BalanceMatchesStore` fails, because the Fetch query `receiver = acc AND id = 0`
reloads no inputs. `settings_load_fork.cfg` (the settings bounds) finds
`ChainLinked` violated: a second load marks the account preloaded with a
reloaded, hashless head, and a zero prev hash is accepted.

`settings_replay.cfg` is kept beside the runs. It is not one of them; its
result is recorded in `PROJECT.json` as a hazard (processor.go:108). Under it,
TLC finds `IdempotentRetry` violated:
* `ProcessTransfer` never sets the txns' settings id;
* so once the sender has settings, the retry of its last request fails the
  replay check;
* so the retry is rejected instead of getting its first answer.

`settings_fork.cfg` is kept beside the runs as well. Under it (a restart,
then settings id 2) TLC finds `SettingsChainLinked` violated: reloaded
settings have a zero hash, as the Fetch query does not select it, so a zero
prev hash is accepted for settings id 2. The root cause is the one
`zero_hash_fork` shows for txns; it is a hazard in `PROJECT.json`.

`batch_replay.cfg` is kept beside the runs too. Under it (batches of two)
TLC finds `RepliesRecorded` violated: a replayed batch is answered with the
first txn's hash (processor.go:130), not the last one's. This is a hazard in
`PROJECT.json`.

`meta_index.cfg` is kept beside the runs too. Under it TLC finds
`MetaIndexNamesTxn` violated: the client's index pairs are appended after the
API's own, so a client pair named `id` overrides the gate's id, and one with a
value shorter than 8 bytes makes `GetByMetaKey` panic in `unbytes`. This is a
hazard in `PROJECT.json` (api_service.go:98).

`negative_amount.cfg` is the batches run with amounts -1 and 1. TLC finds
`NoNegativeBalance` violated: processor.go:175 has its negative-amount guard
commented out, so a transfer of -1 from the mint stores a txn that leaves the
receiver at -1. This is a hazard in `PROJECT.json`.

`sql_limit.cfg` is the batches run with the LIMIT clauses `LIMIT 0` and
`LIMIT 1, 1`. TLC finds `SqlSelectMatchesSql` violated on the first stored
txn: `parseLimit` passes the count through `uint32(n)` to a store that reads
0 as "no limit", so `LIMIT 0` returns the whole history, and the offset
becomes a token that the store never reads, so `LIMIT 1, 1` returns the first
row again. Both are hazards in `PROJECT.json` (sqlapi.go:426 and 436).

`long_batch_replay.cfg` is the retry configuration with batches of up to
five items and five txns per sender (about 1.5 minutes). TLC finds
`IdempotentRetry` violated in 22 steps: the mint sends a batch of five
(ids 1..5), account 1 then sends to the mint, and the delivery's `PutTo`
first cuts the mint's chain to the ids >= 5 - 3 (chain.go:114). The mint's
retry of its batch then finds only four txns through `GetLastNTxns`, is not
taken as a replay, and fails the prev hash check: the client gets
INVALID_PREV_HASH for a transfer that was applied, against the idempotence
the spec promises. The passing runs have batches of at most two items,
below the cut. This is a hazard in `PROJECT.json` (chain.go:114).

Three archiver configurations are kept beside the runs. The archiver is
started by no binary, so their results are hazards in `PROJECT.json`:
* `archiver_recover.cfg`: `RecoverAcceptsUploaded` fails after one push and a
  crash. `recover` also reads the pending keys, whose zero block hash has no
  metadata, so `json.Unmarshal(nil)` fails and `New` never succeeds again.
* `archiver_orphan.cfg`: `ArchivedEventually` fails when the upload of a
  `/rotate` call fails. Nothing retries the block, so it never gets metadata
  while the loop runs on. `CheckTxn` of its items errors, and `recover` will
  refuse it.
* `archiver_repush.cfg`: `BlockChainLinked` fails when a value is pushed
  again. The block hash covers the values only, so the new block has an old
  block's hash and names itself as PrevHash.

Each property of a passing run has a mutant in `PROJECT.json`. A mutant is a
variant of one modelled definition with a plausible bug, defined just before
that definition. Under the run's own configuration it makes the property fail.
The variants are named by suffix:
* the chain and processor variants: `...Stale`, `...Unmarked`, `...KeepSpent`,
  `...KeepCache`, `...LastHash`, `...Exclusive`, `...SamePrev`,
  `...PerItem`, `...IdOnly`, `...Oldest`, `...Commit`;
* the skip-list variants: `GetOrInsertShort`, `SearchLTStrict`,
  `SettingsListPutCutFront` (the cut keeps the front instead of front-1);
* the routing variants:
  * `GetHostByKeyNoStepBack`;
  * `NodesPlain`, the bare host list that `simple_router.go` returns;
* the gate variants: `ProcessorCheckLateSettingsId` (the settings-id check
  returns before `res.SettingsId` is set);
* the store read variant: `OutQueryIdNoWrap` (the first output query runs
  with id 0, not its wrap);
* the archiver variants: `RotateFirstNoIndex`,
  `RotateFirstKeepPending` (the pending key is not deleted).

## Bounds

* `MaxTxnId = 2`: a sender may start a request while it has fewer than 2
  stored txns, so chains reach ids 2 (or 3 with batches of two). Two ids are
  needed for links, forks and replays of the head.
* `MaxFailures = 1` and `MaxRestarts = 1`: every failure path and the
  recovery after it happen once. These bound adversity, not the code.
* `Shards = 1` in every run: it matches `plutos -threads 1` and serialises
  all transfers, which is what makes money conservation hold
  (`money_race.cfg` takes 2, the smallest case of `-threads 997`). In the
  settings runs the second actor is `SP`, which preloads the same accounts
  through the same singleflight group, so the load straddle is reached with
  one shard.
* `Accounts`: {0, 1} or {0, 1, 2}, where 0 is the mint, the only account
  allowed to go negative. `Amounts = {1}`.
* `MaxTransactions = 5` as in `preloader.New`.
* `MaxSettings`:
  * `0` turns the settings traffic off in the transfer runs. The settings
    check still runs and sees no settings.
  * `2` lets settings reach id 2, the first id that has a link.
* `SettingsAccounts`: the accounts whose clients send settings requests
  (client input). Both accounts in `settings`; only account 1 in `failures`,
  where transfer failures, late deliveries and settings failures together
  would otherwise outgrow five minutes.
* Settings re-sends: at the `MaxSettings` bound a client still re-sends a
  request whose push failed, as the CLI's `Keygen` does (it takes the prev
  hash from `GetLastSettings` and signs with the key it saved). This is how
  the store's duplicate-key refusal (`SPushDup`) is reached.
* Retries: a client re-sends a stored run of txns only while its sender has
  at most `MaxTxnId` stored txns. Forks can store more; without the bound
  the retries, and so the states, do not end.
* `Keys`: one key besides `NoKey` is enough to tell the current key from a
  replaced one.
* In the settings runs, `MaxTxnId = 1`: transfers only need to exercise the
  settings check.

* `MaxSettingsFailures`: 2 in `failures` (a push and its re-send fail,
  applied or not), 1 in `settings_stale`.
* Skip lists: levels 3 and keys 1..4. This gives 256 list values. Every
  height from 1 to 3 is tried for every insert, so each operation relinks
  through update arrays that mix the head, taller elements and shorter ones.
* History limits 0..3: with batches of two, an account's history holds its
  unspent inputs, then its txns, each followed by the inputs it spent, so
  limits 1..3 cut it inside the unspent inputs, right after a txn and inside
  an input group, and 0 asks for all of it.
* SQL LIMIT clauses: none (the default of 20 is above every history the
  model builds, so it returns all of it, as SQL does) and counts 1..3, which
  cut the history as the limits above do.
* SQL INSERT statements (`MCInserts`): tables txns and another; column lists
  in two orders, with and without prev_hash, and one with a column `insert`
  does not know; zero to two rows; senders 0 and 1, a receiver of -1, and
  a prev hash that is empty or the sender's current head in the store
  (`HeadLit`), so two senders, a later prev hash and a bad account all
  occur, in every column order, and the statements change with the store.
* Routing:
  * two nodes are enough for a node to own, not own, or be mid-update while
    the other is not;
  * W = 3 gives ids 0..7, and with two or three entries the equal parts are
    exact;
  * account 1 lies below the first start of the explicit lists, so it wraps;
    account 6 lies in the last range of every list;
  * the five posted lists cover a swap of ownership, explicit unequal ranges
    that wrap, an unsorted list, a malformed entry after an empty one, and
    the empty list;
  * a node is posted its own address or none, which is what `UpdateRouter`
    sets.

* Archiver: two items (a txn and a settings) and versions 1 to 3 give
  blocks of one or two items and an item archived two or three times.
  `MaxPushes = 4` lets a rotation run while another is uploading with new
  data pending, and lets both callers make a block each. `MaxUploadFailures
  = 2` lets both callers fail, and `MaxCrashes = 2` gives a restart after a
  restart that recover accepted. The run reaches about 228,000 states.

The bounds are too small to reach the retention cut of `PutTo`, which removes
ids below front-3 from front id 5 on. That cut is not checked yet. The skip
list's `RemoveAfter` that implements it is checked.

The code computes plain entries' starts as `((1<<63)/n)<<1`, not as the spec's
`2^64/n`. The two differ by one when `2^63 mod n >= n/2`, for example n = 3.
All nodes use the same code, so they agree with each other. A node following
the spec's formula would disagree with them on one id per boundary.

## Fairness

The runs check safety only, so no fairness is assumed. `LiveSpec` of
`Archiver` assumes weak fairness of the loop's first stage (the ticker fires
every period) and of every upload and last stage begun (a goroutine inside
`Rotate` goes on). It is used only by `archiver_orphan.cfg`.

The archiver run sets `CHECK_DEADLOCK FALSE`: once `recover` refuses the data,
`New` fails for good and the archiver stops. Deadlock is checked in every
other run:
* a shard always either makes progress or is idle, and an idle shard can
  always take a read request;
* the routing client can always start another call, and a node can always be
  posted a new list.

## Not modelled (yet), and the plan

* The gate's `UpdateSettings`, `GetPrevHash`, `GetBalance` and
  `GetLastSettings`: after `checkRouting` (modelled in `Routing`) they only
  copy their processor's result or error code into the reply. A recognised
  replay is answered with settings id 0, as `ProcessTransfer` returns
  (processor.go:112) before it sets `res.SettingsId`; the spec promises the
  helper fields for error replies, so `GateRepliesResync` covers those only,
  and the replay case is a hazard in `PROJECT.json`.
* `VerifyTransferSign` and `DataHash` of settings. No check of the
  processors reads them; `settToProto` and `settFromProto` also drop the flag.
* A liveness property for the preloader's singleflight (every waiting request
  is eventually answered).
* `FindLessEqual` of the skip list. It is deprecated and used only by tests.
  It returns the front when every key is below k, but otherwise the smallest
  key above k.
* Several transfer nodes pushing to each other through the `RoutedPusher`
  with their own routers. Two nodes that both accept an account during a
  reconfiguration is a hazard in `PROJECT.json`.
* The hashring router (`simple_router.go`), an external library.
* Service discovery's `CheckService` (`router/handler.go`): one goroutine per
  address of the service asks it for its hostname, and a match is sent on a
  channel of capacity 1. If two addresses answer with this host's name (an
  IPv4 and an IPv6 address of one container), the second send blocks and
  `g.Wait` never returns. Its result, `SetSelf` then `SetNodes`, is what
  `PostSetSelf` and `PostSetNodes` model. The goroutines are not modelled yet:
  composed with `Routing`, they would multiply its four million states.
* Out of reach or without behaviour: signatures (elliptic curves), the HTTP
  API's codecs and `SearchMeta`, the SHOW path of the SQL
  API and the result set `insert` makes of the reply (formatting), the bench tool, generated codecs and mocks.
