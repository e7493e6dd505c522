------------------------------- MODULE SqlChain -------------------------------
(***************************************************************************)
(* The durable store: the txns table of package sqlchain                   *)
(* (src/sqlchain/chain.go), reached through the remote push service        *)
(* (src/pusher/remotepusher/service.go) and package bigchain               *)
(* (src/bigchain/bigchain.go). The table is a set of rows with the unique *)
(* key (sender, id). It is the only point of truth: a node's chain cache  *)
(* is rebuilt from it by the preloader.                                    *)
(***************************************************************************)
EXTENDS Chain

\* Rows of sender a.
OutputRows(db, a) == {r \in db : r.sender = a}

\* DB.Push: one INSERT ... ON DUPLICATE KEY UPDATE spent_by = VALUES(spent_by).
\* A txn with a zero hash is stored with its computed hash.
StoreOne(db, t) ==
    IF \E r \in db : Key(r) = Key(t)
    THEN {IF Key(r) = Key(t) THEN [r EXCEPT !.spentBy = t.spentBy] ELSE r
            : r \in db}
    ELSE db \cup {IF t.hash = ZeroHash THEN [t EXCEPT !.hash = TxnHash(t)]
                                        ELSE t}

\* remotepusher txnsFromProto: the push service decodes every field but
\* the settings id (txnsToProto sends it, the decoder never reads it).
FromWire(t) == [t EXCEPT !.settingsId = 0]

DbPush(db, txns) == FoldLeft(LAMBDA d, t : StoreOne(d, FromWire(t)), db, txns)

\* PusherClient.Push, the node's pusher to the store's push service:
\* nothing is sent for an empty batch; otherwise txnsToProto, the push
\* service and DB.Push. (txnsToProto leaves a zero hash or sign out and
\* txnsFromProto reads an absent one back as zero.)
RemotePush(db, txns) == IF txns = <<>> THEN db ELSE DbPush(db, txns)

\* DB.Fetch then bigchain.pbTxnsToPt: the newest `limit` rows of the
\* sender (the hash column is not selected, and pbTxnsToPt does not copy
\* the settings id), followed by the rows selected by the second query,
\* "receiver = acc AND id = 0".
FetchedTxn(r) == [r EXCEPT !.hash = ZeroHash, !.settingsId = 0]

DbFetch(db, acc, limit) ==
    LET outs  == SetToSortSeq(OutputRows(db, acc),
                              LAMBDA x, y : x.id > y.id)
        newest == SubSeq(outs, 1, Min({limit, Len(outs)}))
        ins   == SetToSeq({r \in db : r.receiver = acc /\ r.id = 0})
    IN  [i \in 1..Len(newest) |-> FetchedTxn(newest[i])]
        \o [i \in 1..Len(ins) |-> FetchedTxn(ins[i])]

\* The newest row of sender a, NoTxn if none.
DbHead(db, a) ==
    IF OutputRows(db, a) = {} THEN NoTxn
    ELSE CHOOSE r \in OutputRows(db, a) :
            \A q \in OutputRows(db, a) : q.id <= r.id

\* The balance the store credits account a with: the balance after its
\* newest output plus every input to a not yet spent.
TruthBalance(db, a) ==
    (IF DbHead(db, a) = NoTxn THEN 0 ELSE DbHead(db, a).balance)
    + MapThenSumSet(LAMBDA r : r.amount,
                    {r \in db : r.receiver = a /\ r.spentBy = 0})

-----------------------------------------------------------------------------
(* The read path of the store: DB.GetHistory and DB.GetTxnMulti. Neither  *)
(* query selects the hash column, so the txns they return carry the zero  *)
(* hash; settings_id is selected.                                          *)

HistoryTxn(r) == [r EXCEPT !.hash = ZeroHash]

\* The inputs of account a spent by its txn k (k = 0: the unspent ones),
\* "receiver = ? AND spent_by = ?". The query has no ORDER BY; the model
\* takes the rows in the order of the table's key (sender, id).
KeyOrder(x, y) == x.sender < y.sender \/ (x.sender = y.sender /\ x.id < y.id)

\* The rows of a set in the order lt, a strict total order on them.
SortedRows(S, lt(_, _)) ==
    [i \in 1 .. Cardinality(S) |->
        CHOOSE x \in S : Cardinality({y \in S : lt(y, x)}) = i - 1]

InputRows(db, a, k) ==
    SortedRows({r \in db : r.receiver = a /\ r.spentBy = k}, KeyOrder)

\* id-- on the uint64 0: the largest id, above every stored one. TLC's
\* integers stop at 2^31 - 1, which is above every id as well.
IdWrap == 2147483647

\* Variant with a bug: the first output query runs with id 0 as it is,
\* "id < 0", and finds nothing (detected by HistoryMatchesSpec).
OutQueryIdNoWrap(id) == id

OutQueryId(id) == IF id = 0 THEN IdWrap ELSE id

\* The loop of GetHistory. It alternates the input query with the current
\* id and the output query, the newest own txn below the id, which then
\* becomes the id. It stops when the output query finds nothing or when
\* the history reaches the limit (0: no limit) on a row just appended.
RECURSIVE HistoryLoop(_, _, _, _, _, _)
HistoryLoop(db, a, limit, out, id, txns) ==
    IF out
    THEN LET rows == {r \in OutputRows(db, a) : r.id < OutQueryId(id)}
             t    == CHOOSE r \in rows : \A q \in rows : q.id <= r.id
         IN  IF rows = {} THEN txns
             ELSE IF Len(txns) + 1 = limit THEN Append(txns, t)
             ELSE HistoryLoop(db, a, limit, FALSE, t.id, Append(txns, t))
    ELSE LET rows == InputRows(db, a, id)
             n    == IF limit = 0 THEN Len(rows)
                     ELSE Min({Len(rows), limit - Len(txns)})
             more == txns \o SubSeq(rows, 1, n)
         IN  IF rows # <<>> /\ Len(more) = limit THEN more
             ELSE HistoryLoop(db, a, limit, TRUE, id, more)

GetHistory(db, a, limit) ==
    LET h == HistoryLoop(db, a, limit, FALSE, 0, <<>>)
    IN  [i \in DOMAIN h |-> HistoryTxn(h[i])]

\* What GetHistory promises (spec section 6): the account's unspent inputs, then
\* its txns from the newest down, each followed by the inputs it spent,
\* the first `limit` of them (0: all).
HistoryRef(db, a, limit) ==
    LET outs == SortedRows(OutputRows(db, a), LAMBDA x, y : x.id > y.id)
        all  == InputRows(db, a, 0)
                \o FlattenSeq([i \in DOMAIN outs |->
                                 <<outs[i]>> \o InputRows(db, a, outs[i].id)])
        n    == IF limit = 0 THEN Len(all) ELSE Min({limit, Len(all)})
    IN  [i \in 1 .. n |-> HistoryTxn(all[i])]

\* DB.GetTxnMulti: for each requested (account, id) the newest row of the
\* account with an id below the requested one. A request no row answers
\* fails the whole call (row.Scan returns sql.ErrNoRows).
TxnMultiRows(db, tid) == {r \in OutputRows(db, tid.account) : r.id < tid.id}

GetTxnMulti(db, ids) ==
    IF \E i \in DOMAIN ids : TxnMultiRows(db, ids[i]) = {}
    THEN [ok |-> FALSE, txns |-> <<>>]
    ELSE [ok |-> TRUE,
          txns |-> [i \in DOMAIN ids |->
                     HistoryTxn(CHOOSE r \in TxnMultiRows(db, ids[i]) :
                                  \A q \in TxnMultiRows(db, ids[i]) :
                                     q.id <= r.id)]]

=============================================================================
