----------------------------- MODULE MCPlutosNode -----------------------------
(***************************************************************************)
(* Model-checking instance of PlutosNode. Account 0 is the mint, the only *)
(* account whose balance may go negative (processor.go, ProcessTransfer), *)
(* so with two accounts every transfer either issues money or returns it. *)
(* One amount is enough: the properties compare sums, and the balance     *)
(* check sees every amount the same way.                                  *)
(* Keys: NoKey (no key, the zero sign) alone where settings are off       *)
(* (MaxSettings = 0), NoKey and one key K1 where they are on.             *)
(***************************************************************************)
EXTENDS PlutosNode, SqlApi, Gate

CONSTANT K1

MCTwoAccounts   == {0, 1}
MCThreeAccounts == {0, 1, 2}
\* One account, not the mint, that sends settings.
MCSettingsAccount == {1}
MCAmounts       == {1}

\* A transfer of -1 as well: the amounts ProcessTransfer lets through.
MCSignedAmounts == {-1, 1}
MCNoKeys        == {NoKey}
MCKeys          == {NoKey, K1}


-----------------------------------------------------------------------------
(* The skip list that holds each cached chain (SkipList). Chain models a  *)
(* chain as a function from txn id; the properties below say that every   *)
(* skip list holding the ids a chain holds, whatever randHeight gave its  *)
(* elements and whatever calls built it, is well formed and implements   *)
(* that function's domain. The lists are all those GetOrInsert, Remove    *)
(* and RemoveAfter build from newSkipList with keys 1..4 and heights 1..3 *)
(* (three levels: an element may be shorter, as tall as or taller than    *)
(* the one before it, and the searches jump over levels); they are        *)
(* computed once. -1 stands for a nil element.                            *)

SL == INSTANCE SkipList WITH MaxLevel <- 3, Nil <- -1

MCSkipKeys  == 1 .. 4
MCSkipLists == SL!SkipLists(MCSkipKeys)

\* The key sets of the lists that are not well formed, and of the well
\* formed ones on which an operation or a reader is wrong.
MCSkipKeysNotWellFormed ==
    {SL!KeysOf(sl) : sl \in {x \in MCSkipLists : ~SL!WellFormed(x)}}

MCSkipKeysNotKeySet ==
    {SL!KeysOf(sl) : sl \in {x \in MCSkipLists :
                                SL!WellFormed(x) /\ ~SL!ImplementsKeySet(x, MCSkipKeys)}}

\* The skip list holding each account's chain keeps every level a linked
\* list, descending, of exactly the elements tall enough for it, with no
\* pointer to a removed element (skiplist.go findOrInsert, Remove and
\* RemoveAfter and their update arrays).
SkipListWellFormed ==
    \A a \in Accounts : DOMAIN list[a] \subseteq MCSkipKeys
                         /\ DOMAIN list[a] \notin MCSkipKeysNotWellFormed

\* On the skip list holding each account's chain, GetOrInsert adds the key,
\* Remove drops it, RemoveAfter(k) keeps the keys >= k (the retention cut
\* of PutTo), Front is the greatest key (getLastTxn) and Get finds exactly
\* the keys present.
SkipListImplementsKeySet ==
    \A a \in Accounts : DOMAIN list[a] \subseteq MCSkipKeys
                         /\ DOMAIN list[a] \notin MCSkipKeysNotKeySet

-----------------------------------------------------------------------------
(* The skip list under each settings chain (SettingsSkipList). SettingsChain *)
(* models a settings chain as a function from settings id and Put as the  *)
(* cut to front-1 and an insert (SettingsPut). The lists are all those    *)
(* SettingsChain.Put builds from newSettingsSkipList with ids 1..4 and    *)
(* heights 1..3, which is past the first cut (front id 3); they are       *)
(* computed once.                                                          *)

SSL == INSTANCE SettingsSkipList WITH MaxLevel <- 3, Nil <- -1

MCSettingsLists == SSL!SettingsLists(MCSkipKeys)

\* The settings chain a list stands for: its ids, each with a record of it.
MCSettingsOf(sl) == [k \in SL!KeysOf(sl) |-> [id |-> k]]

\* The id sets of the lists on which the list, Front or Put is wrong.
MCSettingsKeysWrong ==
    {SL!KeysOf(sl) : sl \in {sl \in MCSettingsLists :
        ~ /\ SL!WellFormed(sl)
          /\ SSL!SettingsFront(sl) = IF SL!KeysOf(sl) = {} THEN -1 ELSE Max(SL!KeysOf(sl))
          /\ \A id \in MCSkipKeys, ht \in SL!Heights :
                SL!KeysOf(SSL!SettingsListPut(sl, id, ht))
                    = DOMAIN SettingsPut(MCSettingsOf(sl), [id |-> id])}}

\* The skip list holding each account's cached settings, whichever Puts
\* built it, is well formed, its Front is the newest settings
\* (GetLastSettings), and one more Put, the cut after front-1
\* (RemoveAfter) followed by GetOrInsert, keeps exactly the ids
\* SettingsPut keeps: the list implements the settings chain the node
\* model uses.
SettingsSkipListImplementsPut ==
    \A a \in Accounts : DOMAIN sett[a] \subseteq MCSkipKeys
                         /\ DOMAIN sett[a] \notin MCSettingsKeysWrong

-----------------------------------------------------------------------------
(* The read path of the store over the txns the node writes (SqlChain). *)

\* The history limits a client may ask for: none (0), and limits that cut
\* the history before, inside and after the first group.
MCHistoryLimits == 0 .. 3

\* For every account and limit, the loop of sqlchain DB.GetHistory, with
\* its wrap of id 0, its alternating queries and its limit check after
\* each appended row, returns the account's unspent inputs, then its txns
\* newest first, each followed by the inputs it spent, cut at the limit
\* (spec section 6), in every store the node's pushes, failures and
\* retries build.
HistoryMatchesSpec ==
    \A a \in Accounts, lim \in MCHistoryLimits :
        GetHistory(db, a, lim) = HistoryRef(db, a, lim)

-----------------------------------------------------------------------------
(* The SQL front end over the same store (SqlApi).                         *)

\* The LIMIT clauses a client writes: none, and row counts that cut the
\* history before, inside and after the first group.
MCSqlLimits ==
    {NoClause} \cup {[offset |-> NoOffset, count |-> n] : n \in 1 .. 3}

\* LIMIT 0 and LIMIT <offset>, <count>: what a client pages with.
MCSqlPagedLimits ==
    {[offset |-> NoOffset, count |-> 0], [offset |-> 1, count |-> 1]}

\* For every account and LIMIT clause, "SELECT * FROM txns WHERE account =
\* <acc> LIMIT ..." through select_, parseWhere, parseLimit (its default
\* of 20 and its uint32 cast), api GetHistory and the store's loop returns
\* the rows SQL gives that statement: the account's history in the order
\* of spec section 6, without <offset> rows, cut to <count> rows.
SqlSelectMatchesSql ==
    \A a \in Accounts, l \in MCSqlLimits :
        SqlSelect(db, AccountQuery(a, l)) = [status |-> "ok", rows |-> SqlRef(db, a, l)]

\* INSERT statements a client writes against the current store: two
\* tables; column lists with and without prev_hash, in two orders, and one
\* with a column insert does not know; one or two rows of values, an
\* account literal of -1 among them. A row's prev_hash is empty or the
\* hex of its sender's head in the store, HeadLit (the number of the
\* sender's outputs stands for it: it differs from every earlier head of
\* that sender, and no outputs gives the empty string).
MCInsertColumns ==
    {<<"sender", "receiver", "amount">>,
     <<"receiver", "prev_hash", "amount", "sender">>,
     <<"sender", "receiver", "amount", "spent_by">>}

HeadLit(a) == Cardinality(OutputRows(db, a))

MCInsertLiterals ==
    UNION {[sender : {a}, receiver : {1, -1}, amount : {1},
            prev_hash : {EmptyHashLit, HeadLit(a)}, spent_by : {0}] : a \in Accounts}

MCInsertRows(cols) ==
    {[j \in DOMAIN cols |-> lit[cols[j]]] : lit \in MCInsertLiterals}

MCInsertStatements(t, cols) ==
    {[table |-> t, columns |-> cols, rows |-> rs] :
        rs \in UNION {[1 .. k -> MCInsertRows(cols)] : k \in 0 .. 2}}

MCInserts ==
    UNION {MCInsertStatements(t, cols) :
             t \in {TxnsTable, "accounts"}, cols \in MCInsertColumns}

\* insert builds the request its error messages promise, or refuses the
\* statement, for every statement of MCInserts in every state of the
\* store: the fold of fillSender, fillReceiver, fillAmount and
\* fillPrevHash over rows and columns, whose checks each see only the
\* request built so far and the row index, refuses two senders and a
\* later prev hash in any column order.
SqlInsertMatchesValues ==
    \A st \in MCInserts : SqlInsert(st) = InsertRef(st)

\* The protobuf request a client sends for transfer t: its prev hash as
\* Hash.String, its sign as Sign.String, or the empty string when it does
\* not sign (the bench and the CLI sign only when the account has a key).
WireRequest(t) ==
    [sender |-> t.sender, batch |-> t.batch, settingsId |-> t.settingsId,
     prevHash |-> EncodeHex(t.prevHash, HashBytes),
     sign |-> IF t.sign = NoKey THEN EmptyHex ELSE EncodeHex(t.sign, SignBytes)]

\* Spec section 4.8's error code map, processor error kind to status code.
SpecTransferCode(err) ==
    CASE err = "NoBalance"                         -> "NO_BALANCE"
      [] err \in {"NegativeAmount", "NoReceivers"} -> "BAD_REQUEST"
      [] err \in {"InvalidPrevHash", "InvalidSettingsPrevHash"} -> "INVALID_PREV_HASH"
      [] err = "Preloading"                        -> "RETRY"
      [] OTHER                                     -> "INTERNAL_ERROR"

\* Every error the gate answers for a transfer the processor checks,
\* with the caches as they are when the shard takes them, carries the
\* spec's status code and helper fields a client can resync from (spec
\* 4.8; the bench's Transfer worker takes hash and settings id from every
\* reply as its next prev hash and settings id): the same request with
\* them, through transferFromProto again, passes the processor's settings
\* id and prev hash checks. It is about Gate.ProcessTransfer's helper
\* fields, Processor.ProcessTransfer setting res.Hash and res.SettingsId
\* before the checks that fail, and the hex round trip of the hash.
GateRepliesResync ==
    \A sh \in ShardIds :
        act[sh] # None /\ act[sh].pc = "validate" =>
            LET s       == act[sh].req.sender
                Proc(t) == ProcessorCheck(t, list[s], unspent[s], GetLastSettings(sett[s]))
                wire    == WireRequest(act[sh].req)
                d       == TransferFromProto(wire, NoKey)
                rep     == GateProcessTransfer(TRUE, d, Proc(d.t))
                again   == TransferFromProto([wire EXCEPT !.prevHash = rep.hash,
                                                          !.settingsId = rep.settingsId], NoKey)
            IN  Proc(act[sh].req).err \notin {"none", "continue"} =>
                    /\ rep.code = SpecTransferCode(Proc(act[sh].req).err)
                    /\ again.ok
                    /\ Proc(again.t).err \notin {"InvalidSettingsID", "InvalidPrevHash"}

=============================================================================
