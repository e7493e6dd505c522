------------------------------ MODULE ApiService ------------------------------
(***************************************************************************)
(* The read side of the public API service (src/api/api_service.go) over *)
(* the store: GetHistory passes the request to the store's GetHistory,    *)
(* and GetByMetaKey looks up the metadata that ProcessTransfer wrote for  *)
(* an accepted transfer, then asks the store for the txns it names.       *)
(* The metadata store itself is a collaborator: a lookup returns what was *)
(* put under the key.                                                     *)
(***************************************************************************)
EXTENDS SqlChain

CONSTANT Short

(* Metadata. A record of the metadata store is [index, txn]: the index   *)
(* is the sequence of (name, value) pairs the API puts, and txn, a       *)
(* history field, is the txn id of the transfer it was written for       *)
(* (NoTxnId for PutMeta). A value is a number, encoded as 8 bytes by      *)
(* tobytes, or Short, a client's value shorter than 8 bytes.              *)

NoTxnId == <<>>

\* ProcessTransfer, after the gate's OK: the pairs "prevhash", "sender"
\* and the gate's Id (the id of the reply's txn id: the first txn of the
\* batch, or of the replayed one), then the client's own index pairs.
TransferIndex(prevHash, sender, gateId, user) ==
    <<<<"prevhash", prevHash>>, <<"sender", sender>>, <<"id", gateId>>>> \o user

\* unbytes into a uint64: binary.BigEndian.Uint64 panics on fewer than 8
\* bytes.
UnbytesPanics(v) == v = Short

\* GetByMetaKey 266-279: the txn id of one metadata record, from the zero
\* TxnID, each "sender" and "id" pair overwriting the field in index order.
MetaTxnId(index) ==
    FoldLeft(LAMBDA tid, p :
               CASE p[1] = "sender" -> [tid EXCEPT !.account = p[2]]
                 [] p[1] = "id"     -> [tid EXCEPT !.id = p[2]]
                 [] OTHER           -> tid,
             [account |-> 0, id |-> 0], index)

IndexPanics(index) ==
    \E i \in DOMAIN index : index[i][1] \in {"sender", "id"}
                            /\ UnbytesPanics(index[i][2])

\* removeZeros: drops the txns whose formatted id is "" or "0".
RemoveZeros(txns) == SelectSeq(txns, LAMBDA t : t.id # 0)

\* GetByMetaKey with the records found: a panic while reading an index, or
\* GetTxnMulti of their txn ids; a store error is the call's error,
\* otherwise the txns, zeros removed.
GetByMetaKey(db, recs) ==
    IF \E i \in DOMAIN recs : IndexPanics(recs[i].index)
    THEN [ok |-> FALSE, txns |-> <<>>]
    ELSE LET r == GetTxnMulti(db, [i \in DOMAIN recs |-> MetaTxnId(recs[i].index)])
         IN  IF r.ok THEN [r EXCEPT !.txns = RemoveZeros(@)] ELSE r

=============================================================================
