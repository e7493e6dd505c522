-------------------------------- MODULE Chain --------------------------------
(***************************************************************************)
(* The in-memory account chain cache of package chain (src/chain/chain.go) *)
(* and the transaction record of package pt (src/pt/pt.go).                *)
(*                                                                         *)
(* The cache of one account is a pair:                                     *)
(*   list    - the skip list of chain elements keyed by txn id, here a     *)
(*             function from the ids present to the element's output txn, *)
(*             or NoTxn for an element that only holds spent inputs;       *)
(*   unspent - the set of unspent input txns of the account, keyed by     *)
(*             (sender, id).                                               *)
(* The Inputs sub-map of an element is read by no operation except the    *)
(* retention cut, which only needs the element's key, so it is left out.  *)
(*                                                                         *)
(* Every operation of the cache takes the chain mutex for its whole body, *)
(* so each one is a single function of the cache value.                   *)
(***************************************************************************)
EXTENDS Integers, Sequences, SequencesExt, FiniteSetsExt, TLC

CONSTANT NoTxn   \* a nil *pt.Txn: no output txn at this element

\* pt.ZeroHash. Hashes are modelled as injective values (see TxnHash).
ZeroHash == <<>>

\* pt.GetHash: SHA-256 over id, sender, receiver, amount, balance,
\* settings id and prev hash. SpentBy and Sign are not hashed. The tuple
\* is an injective stand-in for the digest (collisions are not modelled).
TxnHash(t) == <<t.id, t.sender, t.receiver, t.amount, t.balance,
                t.settingsId, t.prevHash>>

\* The key of an input txn in the unspent map: pt.NewTxnID(sender, id).
Key(t) == <<t.sender, t.id>>

\* The number of older elements kept behind the head (chain.go: id > 3).
Retention == 3

EmptyList == [i \in {} |-> NoTxn]

-----------------------------------------------------------------------------
(* Chain.PutTo, one txn at a time.                                         *)

\* Cut the list before inserting: keep the keys >= front - 3.
CutList(l) ==
    IF DOMAIN l = {} THEN l
    ELSE LET front == Max(DOMAIN l)
         IN IF front > Retention
            THEN [k \in {j \in DOMAIN l : j >= front - Retention} |-> l[k]]
            ELSE l

\* Output side: GetOrInsert(id); store the txn, or adopt a new SpentBy.
PutOutput(l, t) ==
    IF t.id \notin DOMAIN l THEN l @@ (t.id :> t)
    ELSE IF l[t.id] = NoTxn THEN [l EXCEPT ![t.id] = t]
    ELSE IF l[t.id].spentBy = 0 /\ t.spentBy # 0
         THEN [l EXCEPT ![t.id].spentBy = t.spentBy]
         ELSE l

\* Spent input: GetOrInsert(SpentBy) creates an element without output.
InsertKey(l, k) == IF k \in DOMAIN l THEN l ELSE l @@ (k :> NoTxn)

DropKey(U, t) == {x \in U : Key(x) # Key(t)}

\* Variant with a bug: a txn is taken as an output or else as an input, so
\* a self-transfer never becomes an unspent input (detected by
\* BalanceMatchesStore).
PutOneExclusive(acc, st, t) ==
    IF t.sender = acc THEN [l |-> PutOutput(st.l, t), u |-> st.u]
    ELSE IF t.receiver # acc THEN st
    ELSE IF t.spentBy = 0
         THEN [l |-> st.l, u |-> DropKey(st.u, t) \cup {t}]
         ELSE [l |-> InsertKey(st.l, t.spentBy), u |-> DropKey(st.u, t)]

\* Variant with a bug: a spent input is not dropped from the unspent map
\* (detected by NoPhantomBalance).
PutOneKeepSpent(acc, st, t) ==
    LET l1 == IF t.sender = acc THEN PutOutput(st.l, t) ELSE st.l
    IN  IF t.receiver # acc THEN [l |-> l1, u |-> st.u]
        ELSE IF t.spentBy = 0
             THEN [l |-> l1, u |-> DropKey(st.u, t) \cup {t}]
             ELSE [l |-> InsertKey(l1, t.spentBy), u |-> st.u]

PutOne(acc, st, t) ==
    LET l1 == IF t.sender = acc THEN PutOutput(st.l, t) ELSE st.l
    IN  IF t.receiver # acc THEN [l |-> l1, u |-> st.u]
        ELSE IF t.spentBy = 0
             THEN [l |-> l1, u |-> DropKey(st.u, t) \cup {t}]
             ELSE [l |-> InsertKey(l1, t.spentBy), u |-> DropKey(st.u, t)]

\* Chain.PutTo(acc, txns): returns the new [l, u] of account acc.
PutTo(acc, txns, l, u) ==
    FoldLeft(LAMBDA st, t : PutOne(acc, st, t),
             [l |-> CutList(l), u |-> u], txns)

-----------------------------------------------------------------------------
(* Readers.                                                                *)

\* Chain.getLastTxn: the front element's output, NoTxn if none.
GetLastTxn(l) == IF DOMAIN l = {} THEN NoTxn ELSE l[Max(DOMAIN l)]

\* Chain.GetLastNTxns: at most n outputs from the front, newest first,
\* stopping at the first element without an output.
GetLastNTxns(l, n) ==
    LET ks   == SetToSortSeq(DOMAIN l, >)
        stop == {i \in 1..Len(ks) : l[ks[i]] = NoTxn}
        m    == Min({n, Len(ks)} \cup {i - 1 : i \in stop})
    IN  [i \in 1..m |-> l[ks[i]]]

\* Chain.GetBalance: head balance plus the unspent inputs.
GetBalance(l, u) ==
    LET last == GetLastTxn(l)
    IN  (IF last = NoTxn THEN 0 ELSE last.balance)
        + MapThenSumSet(LAMBDA t : t.amount, u)

=============================================================================
