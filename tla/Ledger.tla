-------------------------------- MODULE Ledger --------------------------------
(***************************************************************************)
(* What the transfer node promises of the txns it stores (spec sections 2 *)
(* and 5): every account has its own ordered ledger of outputs; a        *)
(* transfer appends a whole batch of one sender at the next ids, all or   *)
(* nothing; and a sender other than the mint never goes below zero, item  *)
(* after item (NoBalance). An account's balance is what it received minus *)
(* what it sent.                                                           *)
(*                                                                         *)
(* PlutosNode implements it with the store's txns table as the ledger     *)
(* (the refinement mapping StoreLedger there); everything else the node   *)
(* does, caches, retries, failed pushes, reloads, is stuttering here.     *)
(***************************************************************************)
EXTENDS Integers, Sequences, FiniteSetsExt

CONSTANTS Accounts, Amounts, MaxBatch, Mint

VARIABLE sent   \* sent[a]: the outputs of account a in id order, each
                \* a [receiver, amount] record

Item  == [receiver : Accounts, amount : Amounts]
Batch == UNION {[1 .. k -> Item] : k \in 1 .. MaxBatch}

\* Every output of every account, as <<sender, position>>.
Entries == UNION {{<<a, i>> : i \in DOMAIN sent[a]} : a \in Accounts}

AmountOf(e) == sent[e[1]][e[2]].amount

Received(a) ==
    MapThenSumSet(AmountOf, {e \in Entries : sent[e[1]][e[2]].receiver = a})

Spent(a) == MapThenSumSet(AmountOf, {e \in Entries : e[1] = a})

LedgerBalance(a) == Received(a) - Spent(a)

\* The amount of the first k items of batch b.
PrefixAmount(b, k) == MapThenSumSet(LAMBDA i : b[i].amount, 1 .. k)

Init == sent = [a \in Accounts |-> <<>>]

\* Account s sends batch b: every running balance stays at or above zero
\* unless s is the mint.
Transfer(s, b) ==
    /\ s = Mint \/ \A k \in 1 .. Len(b) : LedgerBalance(s) - PrefixAmount(b, k) >= 0
    /\ sent' = [sent EXCEPT ![s] = @ \o b]

Next == \E s \in Accounts, b \in Batch : Transfer(s, b)

Spec == Init /\ [][Next]_sent

=============================================================================
