------------------------------ MODULE PlutosNode ------------------------------
(***************************************************************************)
(* One plutos node (src/cmd/plutos/main.go) serving every account:         *)
(*   - the transfer Multiprocessor: Shards Processors, each with its own  *)
(*     mutex, account a served by shard a % Shards                         *)
(*     (src/processor/multiprocessor.go, src/processor/processor.go);      *)
(*   - one shared chain cache (Chain) and the Preloader that fills it     *)
(*     from the store (src/preloader/preloader.go);                        *)
(*   - the pusher pipeline Seqpusher(DB pusher, RoutedPusher): the batch  *)
(*     goes to the store first, then every txn goes, in parallel, to the *)
(*     node of its receiver, here this node's push service, which puts it *)
(*     in the receiver's chain (src/pusher/...);                           *)
(*   - the store itself (SqlChain);                                        *)
(*   - the SettingsProcessor (src/processor/settings_processor.go): one    *)
(*     mutex, the shared settings chain cache and the same Preloader; its *)
(*     settings pusher is the DB pusher alone (main.go, spushers).         *)
(* A request holds its shard's mutex from its first step to its last, so  *)
(* a shard runs at most one request: act[sh] is that request, or None;    *)
(* act[SP] is the request the SettingsProcessor runs.                      *)
(* Pushes to a receiver's chain take only the chain mutex, so they         *)
(* interleave with the steps of the requests of other shards.             *)
(***************************************************************************)
EXTENDS SqlChain, SettingsChain, FiniteSets

CONSTANTS
    Accounts,       \* account ids (naturals); 0 is the mint account
    SettingsAccounts, \* the accounts whose clients send settings requests
    Shards,         \* number of Processors of the Multiprocessor
    Amounts,        \* amounts a batch item may carry
    MaxBatch,       \* longest batch a request may carry
    MaxTxnId,       \* bound: at most this many txns per sender in the store
    MaxFailures,    \* bound: fetch, push and delivery failures in a run
    MaxRestarts,    \* bound: node restarts in a run
    LateDelivery,   \* whether a timed-out push may still arrive later
    Keys,           \* public keys a settings request may set (NoKey too)
    MaxSettings,    \* bound: at most this many settings per account stored
    MaxSettingsFailures, \* bound: settings push failures in a run
    None            \* no request / no value

ASSUME 0 \in Accounts /\ Accounts \subseteq Nat /\ SettingsAccounts \subseteq Accounts
ASSUME Shards \in Nat \ {0}
ASSUME MaxBatch \in Nat \ {0} /\ MaxTxnId \in Nat
ASSUME LateDelivery \in BOOLEAN /\ NoKey \in Keys /\ MaxSettings \in Nat
ASSUME MaxSettingsFailures \in Nat

VARIABLES
    list,       \* list[a]: the chain cache skip list of account a
    unspent,    \* unspent[a]: the cached unspent inputs of account a
    preloaded,  \* Preloader.preloaded
    db,         \* the store's txns table
    act,        \* act[sh]: the request shard sh is serving, or None
    late,       \* pushes that timed out at the sender but are still in flight
    failures,   \* failures so far (bounded by MaxFailures)
    restarts,   \* restarts so far (bounded by MaxRestarts)
    replies,    \* history: every successful ProcessTransfer reply
    sett,       \* sett[a]: the settings chain cache of account a
    sdb,        \* the store's sett table
    sfailures   \* the settings requests whose push failed, in order (bounded)

vars == <<list, unspent, preloaded, db, act, late, failures, restarts, replies,
          sett, sdb, sfailures>>
settVars == <<sett, sdb, sfailures>>

\* Preloader.MaxTransactions
MaxTransactions == 5

ShardIds == 0 .. Shards - 1

\* The SettingsProcessor, an actor besides the shards.
SP == -1
Actors == ShardIds \cup {SP}

EmptySettings == [i \in {} |-> NoSettings]

\* Multiprocessor: sub[acc % len(sub)]
ShardOf(a) == a % Shards

Items   == [receiver : Accounts, amount : Amounts]
Batches == UNION {[1 .. k -> Items] : k \in 1 .. MaxBatch}

\* The prev hashes a new request can carry: zero (a client that knows
\* nothing) or the hash of the sender's newest stored txn (one that is up
\* to date). Stale hashes reach the node through retries.
PrevHashes(s) ==
    {ZeroHash} \cup IF DbHead(db, s) = NoTxn THEN {} ELSE {TxnHash(DbHead(db, s))}

\* What a client knows of the sender's settings: the newest stored ones.
\* A new transfer carries their id (0 if none) and is signed with any key
\* (NoKey: the zero sign), as whoever holds an old key may sign; a retry
\* is signed with the key of the newest settings.
SettingsIdOf(st) == IF st = NoSettings THEN 0 ELSE st.id
KeyOf(st)        == IF st = NoSettings THEN NoKey ELSE st.key

NewRequest(kind, a, t) ==
    [kind |-> kind, acc |-> a, req |-> t, pc |-> "preload", lastId |-> 0,
     items |-> <<>>, push |-> <<>>, pending |-> {}, failed |-> FALSE,
     res |-> None]

Idle(a) == \A sh \in ShardIds : act[sh] = None \/ act[sh].acc # a

-----------------------------------------------------------------------------
(* State updates shared by several steps.                                  *)

SetCache(a, st) ==
    /\ list'    = [list EXCEPT ![a] = st.l]
    /\ unspent' = [unspent EXCEPT ![a] = st.u]

\* Variant with a bug: the account is not reset, its cache is kept
\* (detected by CacheHeadMatchesStore).
ResetAccountKeepCache(a) == UNCHANGED <<preloaded, list, unspent, sett>>

\* Chain.Reset: the account's skip list and unspent map are deleted.
ChainReset(a) ==
    /\ list'    = [list EXCEPT ![a] = EmptyList]
    /\ unspent' = [unspent EXCEPT ![a] = {}]

\* SettingsChain.Reset: the account's settings list is deleted.
SettingsChainReset(a) == sett' = [sett EXCEPT ![a] = EmptySettings]

\* Preloader.Reset: forget the account, then Chain.Reset and
\* SettingsChain.Reset.
ResetAccount(a) ==
    /\ preloaded' = preloaded \ {a}
    /\ ChainReset(a)
    /\ SettingsChainReset(a)

SetPc(sh, pc) == act' = [act EXCEPT ![sh].pc = pc]

Release(sh) == act' = [act EXCEPT ![sh] = None]

AfterPreload(kind) ==
    CASE kind = "transfer" -> "validate"
      [] kind = "settings" -> "svalidate"
      [] OTHER             -> "read"

-----------------------------------------------------------------------------
(* Requests: the mutex of the shard is taken, the request starts.          *)

\* Processor.ProcessTransfer, non-empty batch, up to p.mu.Lock(). A client
\* sends a new request while the sender has fewer than MaxTxnId txns, or
\* sends again a request the node accepted before (a retry after a lost
\* answer): such a request is the run of stored txns ids i .. i+k-1 with
\* the prev hash of the first.
NewTransfers(s) ==
    IF Cardinality(OutputRows(db, s)) < MaxTxnId
    THEN [sender : {s}, batch : Batches, prevHash : PrevHashes(s),
          settingsId : {SettingsIdOf(SettHead(sdb, s))},
          sign : Keys]
    ELSE {}

RowAt(s, id) == CHOOSE r \in OutputRows(db, s) : r.id = id

\* Retries are sent while the sender has at most MaxTxnId txns stored; a
\* store holding more has already forked (an accepted retry), and the
\* bound keeps the client from retrying without end.
Retries(s) ==
    LET ids == {r.id : r \in OutputRows(db, s)}
    IN  IF Cardinality(ids) > MaxTxnId THEN {}
        ELSE {[sender     |-> s,
              batch      |-> [j \in 1 .. k |->
                                [receiver |-> RowAt(s, i + j - 1).receiver,
                                 amount   |-> RowAt(s, i + j - 1).amount]],
              prevHash   |-> RowAt(s, i).prevHash,
              settingsId |-> SettingsIdOf(SettHead(sdb, s)),
              sign       |-> KeyOf(SettHead(sdb, s))] :
             <<i, k>> \in {<<i, k>> \in ids \X (1 .. MaxBatch) :
                              i .. i + k - 1 \subseteq ids}}

ReceiveTransfer(sh) ==
    /\ act[sh] = None
    /\ \E s \in Accounts :
         /\ ShardOf(s) = sh
         /\ \E t \in NewTransfers(s) \cup Retries(s) :
              act' = [act EXCEPT ![sh] = NewRequest("transfer", s, t)]
    /\ UNCHANGED <<list, unspent, preloaded, db, late, failures, restarts,
                   replies>>
    /\ UNCHANGED settVars

\* Processor.GetPrevHash and Processor.GetBalance, up to p.mu.Lock().
ReceiveRead(sh) ==
    /\ act[sh] = None
    /\ \E a \in Accounts, kind \in {"prevhash", "balance"} :
         /\ ShardOf(a) = sh
         /\ act' = [act EXCEPT ![sh] = NewRequest(kind, a, None)]
    /\ UNCHANGED <<list, unspent, preloaded, db, late, failures, restarts,
                   replies>>
    /\ UNCHANGED settVars

-----------------------------------------------------------------------------------------------------------------------------------------------------
(* Preloader.Preload, called by every request under its processor's      *)
(* mutex, by the shards and by the SettingsProcessor: the preloaded set   *)
(* is read under the preloader's lock (pc "preload"), then, without it,   *)
(* preloadGroup.Do runs (pc "do"). Do shares a call only while it runs:   *)
(* an actor whose Do comes while another actor's load of the account is  *)
(* in flight joins it (pc "join") and gets its result; any other Do       *)
(* starts a load of its own, even of an account preloaded since the       *)
(* check. A load fetches (the Do and the fetch are one step: what happens *)
(* between them is only another Do, which joins) and then puts what it   *)
(* fetched into the caches (pc "loadput"), while the other actor may be   *)
(* writing the account.                                                   *)

PreloadHit(sh) ==
    /\ act[sh] # None /\ act[sh].pc = "preload"
    /\ act[sh].acc \in preloaded
    /\ SetPc(sh, AfterPreload(act[sh].kind))
    /\ UNCHANGED <<list, unspent, preloaded, db, late, failures, restarts,
                   replies>>
    /\ UNCHANGED settVars

PreloadMiss(sh) ==
    /\ act[sh] # None /\ act[sh].pc = "preload"
    /\ act[sh].acc \notin preloaded
    /\ SetPc(sh, "do")
    /\ UNCHANGED <<list, unspent, preloaded, db, late, failures, restarts,
                   replies>>
    /\ UNCHANGED settVars

\* BigChain.Fetch: the store's Fetch of the account with the preloader's
\* limit, its txns and settings converted by pbTxnsToPt and
\* pbSettingsToPt.
BigChainFetch(a, limit) ==
    [txns |-> DbFetch(db, a, limit), sett |-> FetchSettings(sdb, a)]

\* Whether a load of account a is in flight (fetched, not yet put).
Loading(a) == \E y \in Actors : act[y] # None /\ act[y].pc = "loadput" /\ act[y].acc = a

\* Do while another load of the account is in flight: wait for it.
PreloadJoin(sh) ==
    /\ act[sh] # None /\ act[sh].pc = "do"
    /\ Loading(act[sh].acc)
    /\ SetPc(sh, "join")
    /\ UNCHANGED <<list, unspent, preloaded, db, late, failures, restarts,
                   replies>>
    /\ UNCHANGED settVars

\* Do with no load in flight: Preloader.load starts, BigChain.Fetch
\* reads the store.
PreloadFetch(sh) ==
    /\ act[sh] # None /\ act[sh].pc = "do"
    /\ ~Loading(act[sh].acc)
    /\ act' = [act EXCEPT ![sh].pc = "loadput",
                          ![sh].res = BigChainFetch(act[sh].acc, MaxTransactions)]
    /\ UNCHANGED <<list, unspent, preloaded, db, late, failures, restarts,
                   replies>>
    /\ UNCHANGED settVars

\* The rest of Preloader.load: Chain.PutTo of the fetched txns,
\* SettingsChain.Put of the fetched settings, the account marked
\* preloaded; the loading actor and those that joined it go on.
PreloadPut(sh) ==
    LET a == act[sh].acc
        fetched == act[sh].res.txns
        fsett   == act[sh].res.sett
        Joined(y) == act[y] # None /\ act[y].pc = "join" /\ act[y].acc = a
    IN
    /\ act[sh] # None /\ act[sh].pc = "loadput"
    /\ IF fetched # <<>>
       THEN SetCache(a, PutTo(a, fetched, list[a], unspent[a]))
       ELSE UNCHANGED <<list, unspent>>
    /\ sett' = IF fsett = NoSettings THEN sett
              ELSE [sett EXCEPT ![a] = SettingsPut(@, fsett)]
    /\ preloaded' = preloaded \cup {a}
    /\ act' = [y \in Actors |->
                 IF y = sh \/ Joined(y)
                 THEN [act[y] EXCEPT !.pc = AfterPreload(act[y].kind), !.res = None]
                 ELSE act[y]]
    /\ UNCHANGED <<db, late, failures, restarts, replies, sdb, sfailures>>

\* BigChain.Fetch fails: the request returns "account preloading".
PreloadFail(sh) ==
    /\ act[sh] # None /\ act[sh].pc = "do"
    /\ ~Loading(act[sh].acc)
    /\ failures < MaxFailures
    /\ failures' = failures + 1
    /\ Release(sh)
    /\ UNCHANGED <<list, unspent, preloaded, db, late, restarts, replies>>
    /\ UNCHANGED settVars

-----------------------------------------------------------------------------
(* GetPrevHash / GetBalance after the preload.                             *)

\* Chain.GetLastHash memoises the hash of a head whose hash is zero;
\* GetBalance, and SettingsProcessor.GetLastSettings, only read.
Read(sh) ==
    LET a == act[sh].acc
        l == list[a]
        last == GetLastTxn(l)
    IN
    /\ act[sh] # None /\ act[sh].pc = "read"
    /\ IF act[sh].kind = "prevhash" /\ last # NoTxn /\ last.hash = ZeroHash
       THEN list' = [list EXCEPT ![a][Max(DOMAIN l)].hash = TxnHash(last)]
       ELSE UNCHANGED list
    /\ Release(sh)
    /\ UNCHANGED <<unspent, preloaded, db, late, failures, restarts, replies>>
    /\ UNCHANGED settVars

-----------------------------------------------------------------------------
(* ProcessTransfer after the preload: validation (processor.go 92-192).    *)

\* processor.go 95-101: the head hash the processor compares against. The
\* head's hash is recomputed (and memoised, to the same value) when it is
\* NOT zero; a zero hash is used as it is.
ObservedHash(last) == IF last.hash # ZeroHash THEN TxnHash(last) ELSE last.hash

\* Variant with a bug: the single-txn replay check compares the request's
\* prev hash with the head's own hash (detected by IdempotentRetry).
ReplayOfLastHash(t, l) ==
    LET last == GetLastTxn(l)
    IN  IF last = NoTxn \/ Len(t.batch) # 1 THEN None
        ELSE IF /\ t.prevHash = last.hash
                /\ t.settingsId = last.settingsId
                /\ t.batch[1].receiver = last.receiver
                /\ t.batch[1].amount = last.amount
             THEN [txnId |-> <<last.sender, last.id>>, hash |-> last.hash]
             ELSE None

\* processor.go 105-135: the reply to a repeated request, or None.
ReplayOf(t, l) ==
    LET last == GetLastTxn(l)
        k    == Len(t.batch)
        prev == GetLastNTxns(l, k)
    IN
    IF last = NoTxn THEN None
    ELSE IF k = 1
    THEN IF /\ t.prevHash = last.prevHash
            /\ t.settingsId = last.settingsId
            /\ t.batch[1].receiver = last.receiver
            /\ t.batch[1].amount = last.amount
         THEN [txnId |-> <<last.sender, last.id>>, hash |-> last.hash]
         ELSE None
    ELSE IF Len(prev) = k
            /\ t.prevHash = prev[k].prevHash
            /\ t.settingsId = prev[k].settingsId
            /\ \A i \in 1 .. k : /\ prev[i].receiver = t.batch[k + 1 - i].receiver
                                /\ prev[i].amount = t.batch[k + 1 - i].amount
         THEN [txnId |-> <<prev[k].sender, prev[k].id>>, hash |-> prev[k].hash]
         ELSE None

\* Variant with a bug: each item's balance subtracts only its own amount
\* (detected by MoneyConserved).
RunningBalancesPerItem(bal, t) ==
    [i \in 1 .. Len(t.batch) |-> bal - t.batch[i].amount]

\* processor.go 168-192: the balance after each item.
RunningBalances(bal, t) ==
    [i \in 1 .. Len(t.batch) |->
        bal - FoldLeft(LAMBDA x, it : x + it.amount, 0,
                       SubSeq(t.batch, 1, i))]

\* Variant with a bug: the signature is not checked (detected by
\* SignedByCurrentKey).
SettingsOkIdOnly(t, st) == st # NoSettings => t.settingsId = st.id

\* processor.go 137-161, the settings check against the cached settings
\* st: the request names their id, and is signed with their key (the zero
\* sign when there are none or they have no key).
SettingsOk(t, st) ==
    /\ t.sign = KeyOf(st)
    /\ st # NoSettings => t.settingsId = st.id

\* processor.go 181-186: a sender other than the mint must stay at or above
\* zero after every item.
BalanceOk(s, bals) == s = 0 \/ \A i \in DOMAIN bals : bals[i] >= 0

\* Variant with a bug: res.SettingsId is set only once the settings id
\* matched, so an ErrInvalidSettingsID carries none (detected by
\* GateRepliesResync).
ProcessorCheckLateSettingsId(t, l, u, st) ==
    LET last     == GetLastTxn(l)
        lastHash == IF last = NoTxn THEN ZeroHash ELSE ObservedHash(last)
        replay   == ReplayOf(t, l)
        Fail(e, sid) == [err |-> e, hash |-> lastHash, settingsId |-> sid, txnId |-> <<>>]
    IN  CASE replay # None -> [err |-> "none", settingsId |-> 0] @@ replay
          [] st # NoSettings /\ t.settingsId # st.id -> Fail("InvalidSettingsID", 0)
          [] ~SettingsOk(t, st)  -> Fail("InvalidSign", SettingsIdOf(st))
          [] lastHash # t.prevHash -> Fail("InvalidPrevHash", SettingsIdOf(st))
          [] ~BalanceOk(t.sender, RunningBalances(GetBalance(l, u), t)) ->
                                      Fail("NoBalance", SettingsIdOf(st))
          [] OTHER -> Fail("continue", SettingsIdOf(st))

\* processor.go 91-186 after the preload, on the cached chain l, unspent
\* inputs u and settings st, in the code's order: the head hash (res.Hash
\* from here on), the replay check (which returns before res.SettingsId is
\* set), res.SettingsId, the settings id, the sign, the prev hash, the
\* balances. "continue" goes on to linking; any other err is returned
\* with the result built so far.
ProcessorCheck(t, l, u, st) ==
    LET last     == GetLastTxn(l)
        lastHash == IF last = NoTxn THEN ZeroHash ELSE ObservedHash(last)
        replay   == ReplayOf(t, l)
        Fail(e) == [err |-> e, hash |-> lastHash, settingsId |-> SettingsIdOf(st),
                    txnId |-> <<>>]
    IN  CASE replay # None -> [err |-> "none", settingsId |-> 0] @@ replay
          [] st # NoSettings /\ t.settingsId # st.id -> Fail("InvalidSettingsID")
          [] ~SettingsOk(t, st)    -> Fail("InvalidSign")
          [] lastHash # t.prevHash -> Fail("InvalidPrevHash")
          [] ~BalanceOk(t.sender, RunningBalances(GetBalance(l, u), t)) -> Fail("NoBalance")
          [] OTHER -> Fail("continue")

\* The processor's check of the request of shard sh on the caches now.
CheckOf(sh) ==
    LET s == act[sh].req.sender
    IN  ProcessorCheck(act[sh].req, list[s], unspent[s], GetLastSettings(sett[s]))

\* The replay answers with the txns already stored; an error returns;
\* otherwise the running balances go on to linking.
Validate(sh) ==
    LET t    == act[sh].req
        s    == t.sender
        l    == list[s]
        last == GetLastTxn(l)
        res  == CheckOf(sh)
        bals == RunningBalances(GetBalance(l, unspent[s]), t)
    IN
    /\ act[sh] # None /\ act[sh].pc = "validate"
    /\ \/ /\ res.err = "none"
          /\ replies' = replies \cup {[req |-> t, txnId |-> res.txnId, hash |-> res.hash]}
          /\ Release(sh)
       \/ /\ res.err \notin {"none", "continue"}
          /\ Release(sh)
          /\ UNCHANGED replies
       \/ /\ res.err = "continue"
          /\ act' = [act EXCEPT
                ![sh].pc     = "link",
                ![sh].lastId = IF last = NoTxn THEN 0 ELSE last.id,
                ![sh].items  = [i \in DOMAIN bals |->
                                  [receiver |-> t.batch[i].receiver,
                                   amount   |-> t.batch[i].amount,
                                   balance  |-> bals[i]]]]
          /\ UNCHANGED replies
    /\ UNCHANGED <<list, unspent, preloaded, db, late, failures, restarts>>
    /\ UNCHANGED settVars

-----------------------------------------------------------------------------
(* ProcessTransfer: linking inputs, ids and hashes (processor.go 199-231). *)

\* Variant with a bug: the new batch reuses the head's id (detected by
\* TypeOK).
FirstNewIdStale(lastId) == lastId

\* The first id of the new batch.
FirstNewId(lastId) == lastId + 1

MkTxn(s, it, id, ph) ==
    LET t0 == [id |-> id, sender |-> s, receiver |-> it.receiver,
               amount |-> it.amount, balance |-> it.balance,
               settingsId |-> 0, spentBy |-> 0, prevHash |-> ph,
               hash |-> ZeroHash]
    IN  [t0 EXCEPT !.hash = TxnHash(t0)]

\* Variant with a bug: every txn of the batch links to the request's prev
\* hash (detected by ChainLinked).
BuildTxnsSamePrev(s, items, ph, lastId) ==
    [i \in DOMAIN items |-> MkTxn(s, items[i], FirstNewId(lastId) + i - 1, ph)]

\* Ids from FirstNewId on; the first txn links to the request's prev hash,
\* every other one to the hash of the txn before it.
BuildTxns(s, items, ph, lastId) ==
    FoldLeft(LAMBDA acc, it :
               Append(acc, MkTxn(s, it, FirstNewId(lastId) + Len(acc),
                                 IF acc = <<>> THEN ph ELSE Last(acc).hash)),
             <<>>, items)

\* Chain.ListUnspentTxns: a copy of every unspent input of the account,
\* in the map's iteration order (nil when there is none). The store's
\* result does not depend on that order, so one order is taken.
ListUnspentTxns(u) == SetToSeq(u)

\* Variant with a bug: the inputs are pushed without SpentBy (detected by
\* MoneyConserved).
SpentInputsUnmarked(ins, lastId) == ins

\* processor.go 204-208: every copy marked spent by the first new txn.
SpentInputs(ins, lastId) ==
    [i \in DOMAIN ins |-> [ins[i] EXCEPT !.spentBy = FirstNewId(lastId)]]

\* processor.go 225-228: the reply names the first new txn and carries the
\* hash of the last one.
TransferResult(s, txns, headHash) ==
    [txnId |-> <<s, txns[1].id>>, hash |-> Last(txns).hash]

Link(sh) ==
    LET r    == act[sh]
        s    == r.req.sender
        txns == BuildTxns(s, r.items, r.req.prevHash, r.lastId)
    IN
    /\ r # None /\ r.pc = "link"
    /\ act' = [act EXCEPT
          ![sh].pc   = "pushdb",
          ![sh].push = txns \o SpentInputs(ListUnspentTxns(unspent[s]), r.lastId),
          ![sh].res  = TransferResult(s, txns, r.req.prevHash)]
    /\ UNCHANGED <<list, unspent, preloaded, db, late, failures, restarts,
                   replies>>
    /\ UNCHANGED settVars

-----------------------------------------------------------------------------
(* ProcessTransfer: push and commit (processor.go 233-246).                *)

\* Seqpusher, first pusher: the store accepts the batch.
PushDbOk(sh) ==
    /\ act[sh] # None /\ act[sh].pc = "pushdb"
    /\ db' = RemotePush(db, act[sh].push)
    /\ act' = [act EXCEPT ![sh].pc = "route",
                          ![sh].pending = Range(act[sh].push)]
    /\ UNCHANGED <<list, unspent, preloaded, late, failures, restarts,
                   replies>>
    /\ UNCHANGED settVars

\* The store push fails, before or after the INSERT was applied; the
\* Seqpusher stops, the processor resets the sender and returns.
PushDbFail(sh) ==
    /\ act[sh] # None /\ act[sh].pc = "pushdb"
    /\ failures < MaxFailures
    /\ failures' = failures + 1
    /\ \E applied \in BOOLEAN :
         db' = IF applied THEN RemotePush(db, act[sh].push) ELSE db
    /\ ResetAccount(act[sh].req.sender)
    /\ Release(sh)
    /\ UNCHANGED <<late, restarts, replies, sdb, sfailures>>

\* RoutedPusher, one goroutine per txn: the receiver's push service puts
\* the txn in the receiver's chain (ChainPusher.Push).
Deliver(m) == SetCache(m.receiver,
                       PutTo(m.receiver, <<FromWire(m)>>,
                             list[m.receiver], unspent[m.receiver]))

RouteOk(sh) ==
    /\ act[sh] # None /\ act[sh].pc = "route"
    /\ \E m \in act[sh].pending :
         /\ Deliver(m)
         /\ act' = [act EXCEPT ![sh].pending = @ \ {m}]
    /\ UNCHANGED <<preloaded, db, late, failures, restarts, replies>>
    /\ UNCHANGED settVars

\* A goroutine's push returns an error: the request was lost, or it was
\* applied and the answer was lost.
RouteFail(sh) ==
    /\ act[sh] # None /\ act[sh].pc = "route"
    /\ failures < MaxFailures
    /\ failures' = failures + 1
    /\ \E m \in act[sh].pending, applied \in BOOLEAN :
         /\ IF applied THEN Deliver(m) ELSE UNCHANGED <<list, unspent>>
         /\ act' = [act EXCEPT ![sh].pending = @ \ {m}, ![sh].failed = TRUE]
    /\ UNCHANGED <<preloaded, db, late, restarts, replies>>
    /\ UNCHANGED settVars

\* A goroutine's push times out while the request is still in flight.
RouteLate(sh) ==
    /\ LateDelivery
    /\ act[sh] # None /\ act[sh].pc = "route"
    /\ failures < MaxFailures
    /\ failures' = failures + 1
    /\ \E m \in act[sh].pending :
         /\ late' = late \cup {m}
         /\ act' = [act EXCEPT ![sh].pending = @ \ {m}, ![sh].failed = TRUE]
    /\ UNCHANGED <<list, unspent, preloaded, db, restarts, replies>>
    /\ UNCHANGED settVars

\* errgroup.Wait: on an error the sender is reset, else the batch and the
\* spent inputs are committed to the sender's chain.
FinishPush(sh) ==
    LET r == act[sh]
        s == r.req.sender
    IN
    /\ r # None /\ r.pc = "route" /\ r.pending = {}
    /\ IF r.failed
       THEN /\ ResetAccount(s)
            /\ UNCHANGED replies
       ELSE /\ SetCache(s, PutTo(s, r.push, list[s], unspent[s]))
            /\ replies' = replies \cup {[req |-> r.req] @@ r.res}
            /\ UNCHANGED <<preloaded, sett>>
    /\ Release(sh)
    /\ UNCHANGED <<db, late, failures, restarts, sdb, sfailures>>

\* A timed-out push reaches the receiver's node after all.
DeliverLate ==
    /\ \E m \in late :
         /\ Deliver(m)
         /\ late' = late \ {m}
    /\ UNCHANGED <<preloaded, db, act, failures, restarts, replies>>
    /\ UNCHANGED settVars

-----------------------------------------------------------------------------
(* The SettingsProcessor (settings_processor.go), actor SP.               *)

\* The prev hashes a settings request can carry: zero, or the hash of the
\* account's newest stored settings.
SettingsPrevHashes(a) ==
    {ZeroHash} \cup IF SettHead(sdb, a) = NoSettings THEN {}
                    ELSE {SettHead(sdb, a).hash}

\* The settings requests whose push failed.
FailedSettings == {sfailures[i] : i \in DOMAIN sfailures}

\* ProcessSettings, up to p.mu.Lock(). A new request sets a key and is
\* signed with the key of the newest stored settings, while fewer than
\* MaxSettings settings of the account are stored. Beyond that a client
\* only re-sends a request whose push failed: the CLI takes the prev hash
\* from GetLastSettings and signs with the key it saved, which a failed
\* call does not replace (below the bound such a re-send is one of the
\* new requests).
SReceiveSettings(a) ==
    /\ \E s \in IF Cardinality(SettRows(sdb, a)) < MaxSettings
               THEN [account : {a}, key : Keys, prevHash : SettingsPrevHashes(a),
                     sign : {KeyOf(SettHead(sdb, a))}]
               ELSE {q \in FailedSettings : q.account = a} :
         act' = [act EXCEPT ![SP] = NewRequest("settings", a, s)]

\* SettingsProcessor.GetLastSettings, up to p.mu.Lock(); after the
\* preload it only reads the settings chain (Read).
SReceiveGet(a) == act' = [act EXCEPT ![SP] = NewRequest("getsettings", a, None)]

SReceive ==
    /\ MaxSettings > 0
    /\ act[SP] = None
    /\ \E a \in SettingsAccounts : SReceiveSettings(a) \/ SReceiveGet(a)
    /\ UNCHANGED <<list, unspent, preloaded, db, late, failures, restarts,
                   replies, sett, sdb, sfailures>>

\* settings_processor.go 50-52: the hash of the cached head, as it is.
SLastHash(last) == IF last = NoSettings THEN ZeroHash ELSE last.hash

\* ProcessSettings after the preload: the sign is checked only when there
\* are settings (lines 51-66), then the prev hash; the new settings get the
\* next id and their hash.
SValidate ==
    LET r    == act[SP]
        q    == r.req
        last == GetLastSettings(sett[q.account])
        signOk == last = NoSettings \/ q.sign = KeyOf(last)
        new  == [id |-> IF last = NoSettings THEN 1 ELSE last.id + 1,
                 account |-> q.account, key |-> q.key,
                 prevHash |-> q.prevHash, hash |-> ZeroHash]
    IN
    /\ r # None /\ r.pc = "svalidate"
    /\ \/ /\ \/ ~signOk                            \* ErrInvalidSign
             \/ SLastHash(last) # q.prevHash      \* ErrInvalidSettingsPrevHash
          /\ Release(SP)
       \/ /\ signOk /\ SLastHash(last) = q.prevHash
          /\ act' = [act EXCEPT ![SP].pc = "spush",
                                ![SP].res = [new EXCEPT !.hash = SettingsHash(new)]]
    /\ UNCHANGED <<list, unspent, preloaded, db, late, failures, restarts,
                   replies, sett, sdb, sfailures>>

\* The settings pusher is the DB pusher: DB.PushSettings inserts the row.
SPushOk ==
    /\ act[SP] # None /\ act[SP].pc = "spush"
    /\ ~SettDuplicate(sdb, act[SP].res)
    /\ sdb' = PushSettings(sdb, act[SP].res)
    /\ SetPc(SP, "scommit")
    /\ UNCHANGED <<list, unspent, preloaded, db, late, failures, restarts,
                   replies, sett, sfailures>>

\* The INSERT hits the unique key (account, id): PushSettings returns the
\* error, ProcessSettings returns "push".
SPushDup ==
    /\ act[SP] # None /\ act[SP].pc = "spush"
    /\ SettDuplicate(sdb, act[SP].res)
    /\ Release(SP)
    /\ UNCHANGED <<list, unspent, preloaded, db, late, failures, restarts,
                   replies, sett, sdb, sfailures>>

\* Variant with a bug: the push error is ignored and the settings are
\* committed (detected by SettingsCacheDurable).
SPushFailCommit ==
    /\ act[SP] # None /\ act[SP].pc = "spush"
    /\ ~SettDuplicate(sdb, act[SP].res)
    /\ Len(sfailures) < MaxSettingsFailures
    /\ sfailures' = Append(sfailures, act[SP].req)
    /\ \E applied \in BOOLEAN :
         sdb' = IF applied THEN PushSettings(sdb, act[SP].res) ELSE sdb
    /\ sett' = [sett EXCEPT ![act[SP].acc] = SettingsPut(@, act[SP].res)]
    /\ Release(SP)
    /\ UNCHANGED <<list, unspent, preloaded, db, late, failures, restarts,
                   replies>>

\* The push fails, before or after the INSERT was applied. ProcessSettings
\* returns the error and leaves the settings chain and the preloaded mark
\* as they are (lines 86-88).
SPushFail ==
    /\ act[SP] # None /\ act[SP].pc = "spush"
    /\ ~SettDuplicate(sdb, act[SP].res)
    /\ Len(sfailures) < MaxSettingsFailures
    /\ sfailures' = Append(sfailures, act[SP].req)
    /\ \E applied \in BOOLEAN :
         sdb' = IF applied THEN PushSettings(sdb, act[SP].res) ELSE sdb
    /\ Release(SP)
    /\ UNCHANGED <<list, unspent, preloaded, db, late, failures, restarts,
                   replies, sett>>

\* SettingsChain.Put of the new settings, then the reply.
SCommit ==
    LET new == act[SP].res
    IN
    /\ act[SP] # None /\ act[SP].pc = "scommit"
    /\ sett' = [sett EXCEPT ![new.account] = SettingsPut(@, new)]
    /\ Release(SP)
    /\ UNCHANGED <<list, unspent, preloaded, db, late, failures, restarts,
                   replies, sdb, sfailures>>

-----------------------------------------------------------------------------
\* The node process restarts: every in-memory structure is lost.
Restart ==
    /\ restarts < MaxRestarts
    /\ restarts' = restarts + 1
    /\ list'      = [a \in Accounts |-> EmptyList]
    /\ unspent'   = [a \in Accounts |-> {}]
    /\ preloaded' = {}
    /\ act'       = [x \in Actors |-> None]
    /\ late'      = {}
    /\ sett'      = [a \in Accounts |-> EmptySettings]
    /\ UNCHANGED <<db, failures, replies, sdb, sfailures>>

-----------------------------------------------------------------------------
Init ==
    /\ list      = [a \in Accounts |-> EmptyList]
    /\ unspent   = [a \in Accounts |-> {}]
    /\ preloaded = {}
    /\ db        = {}
    /\ act       = [x \in Actors |-> None]
    /\ late      = {}
    /\ failures  = 0
    /\ restarts  = 0
    /\ replies   = {}
    /\ sett      = [a \in Accounts |-> EmptySettings]
    /\ sdb       = {}
    /\ sfailures = <<>>

Next ==
    \/ \E sh \in ShardIds :
         \/ ReceiveTransfer(sh) \/ ReceiveRead(sh)
         \/ Validate(sh) \/ Link(sh)
         \/ PushDbOk(sh) \/ PushDbFail(sh)
         \/ RouteOk(sh) \/ RouteFail(sh) \/ RouteLate(sh) \/ FinishPush(sh)
    \/ \E x \in Actors :
         \/ PreloadHit(x) \/ PreloadMiss(x) \/ PreloadJoin(x)
         \/ PreloadFetch(x) \/ PreloadPut(x) \/ PreloadFail(x) \/ Read(x)
    \/ SReceive \/ SValidate \/ SPushOk \/ SPushDup \/ SPushFail \/ SCommit
    \/ DeliverLate
    \/ Restart

Spec == Init /\ [][Next]_vars

-----------------------------------------------------------------------------
(* Refinement: the store's txns table, read as a ledger of outputs per     *)
(* sender in id order, is the variable of the abstract Ledger.             *)

StoreLedger ==
    [a \in Accounts |->
        [i \in {r.id : r \in OutputRows(db, a)} |->
            [receiver |-> RowAt(a, i).receiver, amount |-> RowAt(a, i).amount]]]

LedgerAbs == INSTANCE Ledger WITH sent <- StoreLedger, Mint <- 0

\* The node implements the ledger the spec promises: every change the
\* store's outputs see, through ProcessTransfer's checks on the cached
\* chain, its pushes, failed pushes, resets, reloads, late deliveries and
\* restarts, appends one whole batch of one sender at the ids after its
\* last, within the balance the store credits that sender (NoBalance);
\* no row's receiver or amount is ever rewritten and no id is skipped.
LedgerRefinement == LedgerAbs!Spec

-----------------------------------------------------------------------------
(* Properties.                                                             *)

IsTxn(t) ==
    /\ t.sender \in Accounts /\ t.receiver \in Accounts
    /\ t.id \in Nat \ {0} /\ t.spentBy \in Nat
    /\ t.amount \in Amounts /\ t.balance \in Int /\ t.settingsId = 0

IsSettings(st) ==
    /\ st.account \in Accounts /\ st.id \in Nat \ {0} /\ st.key \in Keys

PCs == {"preload", "do", "join", "loadput", "read", "validate", "link", "pushdb", "route",
        "svalidate", "spush", "scommit"}

TypeOK ==
    /\ \A a \in Accounts :
         /\ DOMAIN list[a] \subseteq Nat \ {0}
         /\ \A k \in DOMAIN list[a] :
              \/ list[a][k] = NoTxn
              \/ IsTxn(list[a][k]) /\ list[a][k].id = k /\ list[a][k].sender = a
         /\ \A t \in unspent[a] : IsTxn(t) /\ t.receiver = a /\ t.spentBy = 0
    /\ preloaded \subseteq Accounts
    /\ \A r \in db \cup late : IsTxn(r)
    /\ \A x \in Actors : act[x] = None \/ act[x].pc \in PCs
    /\ \A a \in Accounts :
         \A k \in DOMAIN sett[a] : IsSettings(sett[a][k]) /\ sett[a][k].id = k
    /\ \A r \in sdb : IsSettings(r)
    /\ failures \in 0 .. MaxFailures
    /\ Len(sfailures) <= MaxSettingsFailures
    /\ \A i \in DOMAIN sfailures : sfailures[i].account \in Accounts /\ sfailures[i].key \in Keys
    /\ restarts \in 0 .. MaxRestarts

\* Money is neither created nor destroyed: summed over all accounts, the
\* balances the store credits (newest output balance plus unspent inputs)
\* stay zero, the mint's negative balance included. It is about how
\* ProcessTransfer reads the sender's balance (Chain.GetBalance) and then,
\* under a separate chain lock, the inputs it marks spent
\* (Chain.ListUnspentTxns), while pushes put new inputs in the chain.
MoneyConserved ==
    MapThenSumSet(LAMBDA a : TruthBalance(db, a), Accounts) = 0

\* No account but the mint is ever credited a negative balance by the
\* store (spec: NoBalance, "non-mint account would go negative"). It is
\* about the balance check of ProcessTransfer (processor.go 168-192),
\* which runs item by item over the cached balance of the sender alone,
\* and about the amounts it lets through (the negative-amount guard at
\* line 175 is commented out).
NoNegativeBalance == \A a \in Accounts \ {0} : TruthBalance(db, a) >= 0

\* An account the node serves, when no request of it is running, never
\* has more in the cache than the store credits it with: the node never
\* lets it spend money the store does not hold. It is about the push
\* failure path (Preloader.Reset after a partial push) and about receiver
\* pushes landing in the cache.
NoPhantomBalance ==
    \A a \in preloaded :
        Idle(a) => GetBalance(list[a], unspent[a]) <= TruthBalance(db, a)

\* For an account the node serves, when no request of it is running, the
\* head of the cached chain is the newest txn of the store (same id,
\* balance and link): a failed or half-applied push never leaves the
\* cache behind or ahead of the store, so the next txn id is right.
CacheHeadMatchesStore ==
    \A a \in preloaded :
        Idle(a) =>
          LET c == GetLastTxn(list[a])
              h == DbHead(db, a)
          IN  IF h = NoTxn THEN c = NoTxn
              ELSE /\ c # NoTxn
                   /\ Key(c) = Key(h)
                   /\ c.balance = h.balance
                   /\ c.prevHash = h.prevHash

\* Spec section 3, invariants 1-3: in the store, each sender's txns are
\* numbered 1, 2, ... and each links by prev hash to the hash of the one
\* before it, the first one to the zero hash. It is about the prev hash
\* check of ProcessTransfer against the head of a cache the preloader
\* rebuilt from the store.
ChainLinked ==
    \A r \in db :
        IF r.id = 1 THEN r.prevHash = ZeroHash
        ELSE \E p \in OutputRows(db, r.sender) :
                /\ p.id = r.id - 1
                /\ r.prevHash = TxnHash(p)

\* Every successful ProcessTransfer reply, a replayed one included,
\* names txns the store holds: the reply's txn id is the first txn of the
\* batch, the txns carry the request's receivers and amounts in order, the
\* first links to the request's prev hash and the reply's hash is the hash
\* of the last one (spec 4.4 steps 4 and 11, spec 8 idempotence).
RepliesRecorded ==
    \A rep \in replies :
        LET t  == rep.req
            k  == Len(t.batch)
        IN  /\ rep.txnId[1] = t.sender
            /\ \A i \in 1 .. k :
                 \E row \in OutputRows(db, t.sender) :
                    /\ row.id = rep.txnId[2] + i - 1
                    /\ row.receiver = t.batch[i].receiver
                    /\ row.amount = t.batch[i].amount
                    /\ i = 1 => row.prevHash = t.prevHash
                    /\ i = k => rep.hash = TxnHash(row)

\* Spec section 8: when no request is running and no push is in flight,
\* GetBalance of every account the node serves is what the store credits
\* it with (head balance plus unspent inputs). It is about the preloader
\* rebuilding the cache from the store after a reset or a restart
\* (sqlchain DB.Fetch).
Quiescent == late = {} /\ \A sh \in ShardIds : act[sh] = None

BalanceMatchesStore ==
    Quiescent =>
        \A a \in preloaded :
            GetBalance(list[a], unspent[a]) = TruthBalance(db, a)

\* Spec 8, idempotence: a client that sends again a request the node
\* accepted, whose batch ends at the sender's newest txn, gets the same
\* txn id back instead of a new txn or a rejection, as long as the cache
\* holds that txn as its head. It is about the replay check of
\* ProcessTransfer (processor.go 105-135) comparing the request with the
\* cached head after pushes, resets and reloads.
IdempotentRetry ==
    \A sh \in ShardIds :
        LET r == act[sh]
        IN  r # None /\ r.pc = "validate" =>
              LET t == r.req
                  s == t.sender
                  h == DbHead(db, s)
                  c == GetLastTxn(list[s])
              IN  \A rep \in replies :
                    /\ rep.req = t
                    /\ h # NoTxn /\ rep.txnId[2] + Len(t.batch) - 1 = h.id
                    /\ c # NoTxn /\ c.id = h.id
                    => /\ ReplayOf(t, list[s]) # None
                       /\ ReplayOf(t, list[s]).txnId = rep.txnId

\* Spec section 3, invariant 6: in the store, each account's settings are
\* numbered 1, 2, ... and each links by prev hash to the hash of the ones
\* before it, the first to the zero hash. It is about the prev hash check
\* of ProcessSettings against the settings the preloader rebuilt.
SettingsChainLinked ==
    \A r \in sdb :
        IF r.id = 1 THEN r.prevHash = ZeroHash
        ELSE \E p \in SettRows(sdb, r.account) :
                /\ p.id = r.id - 1
                /\ r.prevHash = SettingsHash(p)

\* While the SettingsProcessor is not between its push and its commit for
\* an account, a transfer of that account passes validation only if it is
\* signed with the key of the account's newest stored settings (unsigned
\* if they set no key): a key the owner replaced stops working. It is
\* about the settings check of ProcessTransfer reading the settings chain
\* cache, which ProcessSettings and the Preloader fill.
SettingsSettled(a) == act[SP] = None \/ act[SP].acc # a \/ act[SP].pc # "scommit"

SignedByCurrentKey ==
    [][\A sh \in ShardIds :
         /\ act[sh] # None /\ act[sh].pc = "validate"
         /\ act'[sh] # None /\ act'[sh].pc = "link"
         /\ SettingsSettled(act[sh].acc)
         => act[sh].req.sign = KeyOf(SettHead(sdb, act[sh].acc))]_vars

\* For an account the node serves, when the SettingsProcessor is not
\* working on it, the cached settings are the newest stored ones (same id
\* and key): a failed push or a reload never leaves the settings chain
\* behind or ahead of the store.
SettingsCacheMatchesStore ==
    \A a \in preloaded :
        (act[SP] = None \/ act[SP].acc # a) =>
          LET c == GetLastSettings(sett[a])
              h == SettHead(sdb, a)
          IN  /\ SettingsIdOf(c) = SettingsIdOf(h)
              /\ KeyOf(c) = KeyOf(h)

\* Settings are used only once they are durable: the settings a transfer
\* is checked against, and a settings update links to, are always a row of
\* the store (same id and key), whatever failed or restarted. It is about
\* ProcessSettings committing to the settings chain only after a
\* successful push, and the Preloader and Reset around it.
SettingsCacheDurable ==
    \A a \in Accounts :
        LET c == GetLastSettings(sett[a])
        IN  c # NoSettings =>
              \E r \in SettRows(sdb, a) : r.id = c.id /\ r.key = c.key

=============================================================================
