------------------------------- MODULE ApiNode --------------------------------
(***************************************************************************)
(* The API service in front of one node (src/api/api_service.go): a      *)
(* transfer with metadata goes through the gate to the node, and after    *)
(* the gate's OK the API puts the metadata; PutMeta puts a client's own  *)
(* record; GetByMetaKey reads records back and asks the store for their  *)
(* txns. The metadata store is a collaborator outside this repository:   *)
(* a record put under a key replaces the one there.                      *)
(***************************************************************************)
EXTENDS PlutosNode, ApiService

CONSTANTS
    MetaKeys,     \* the metadata keys clients use (never empty)
    UserIndexes   \* the index pairs a client adds to its metadata

VARIABLE meta     \* the metadata store: key -> record

apiVars == <<vars, meta>>

\* Gate.ProcessTransfer's response to a transfer the processor accepted:
\* code OK, the hash of the result, its txn id and, as Id, the id part of
\* that txn id. Any processor error is answered with another code (and
\* BAD_REQUEST, NO_BALANCE, ... carry no id), after which the API stores
\* no metadata; replies holds only accepted transfers.
GateTransferResponse(rep) ==
    [hash |-> rep.hash, txnId |-> rep.txnId, id |-> rep.txnId[2]]

\* api Service.ProcessTransfer with metadata, after the gate answered OK
\* (a reply of the node, the first answer or a replay): the API puts the
\* record under the client's key. A put error answers METADATA_ERROR and
\* stores nothing.
ApiTransferMeta ==
    /\ \E rep \in replies, k \in MetaKeys, u \in UserIndexes :
         meta' = (k :> [index |-> TransferIndex(rep.req.prevHash, rep.req.sender,
                                                GateTransferResponse(rep).id, u),
                        txn   |-> GateTransferResponse(rep).txnId]) @@ meta
    /\ UNCHANGED vars

\* api Service.PutMeta: the client's record, with only its own index.
PutMeta ==
    /\ \E k \in MetaKeys, u \in UserIndexes :
         meta' = (k :> [index |-> u, txn |-> NoTxnId]) @@ meta
    /\ UNCHANGED vars

ApiInit == Init /\ meta = [k \in {} |-> NoTxnId]

ApiNext == (Next /\ UNCHANGED meta) \/ ApiTransferMeta \/ PutMeta

ApiSpec == ApiInit /\ [][ApiNext]_apiVars

-----------------------------------------------------------------------------
(* Properties                                                              *)

\* The record ProcessTransfer stored for an accepted transfer names that
\* transfer's txn: reading its index as GetByMetaKey does (the last
\* "sender" and "id" pairs win) gives the sender and the gate's id. It is
\* about the client's index pairs that ProcessTransfer appends after its
\* own (api_service.go 97-101).
MetaIndexNamesTxn ==
    \A k \in DOMAIN meta :
        meta[k].txn # NoTxnId =>
            /\ ~IndexPanics(meta[k].index)
            /\ MetaTxnId(meta[k].index)
                  = [account |-> meta[k].txn[1], id |-> meta[k].txn[2]]

\* GetByMetaKey of the record ProcessTransfer stored for an accepted
\* transfer returns the txn that transfer made, with the sender and id of
\* the index, as TestGetByMetaKeyOk expects. It is about sqlchain
\* DB.GetTxnMulti, which the test mocks.
MetaLookupFindsTxn ==
    \A k \in DOMAIN meta :
        meta[k].txn # NoTxnId =>
            LET r == GetByMetaKey(db, <<meta[k]>>)
            IN  /\ r.ok
                /\ Len(r.txns) = 1
                /\ r.txns[1].sender = meta[k].txn[1]
                /\ r.txns[1].id = meta[k].txn[2]

=============================================================================
