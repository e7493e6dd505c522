-------------------------------- MODULE SqlApi --------------------------------
(***************************************************************************)
(* The MySQL front end of the API (src/sqlapi/sqlapi.go), its read side:  *)
(* Server.select_ turns "SELECT ... FROM txns WHERE account = <acc>       *)
(* LIMIT [<offset>,] <count>" into an API GetHistory request              *)
(* (src/api/api_service.go), which passes it to the store's GetHistory.  *)
(*                                                                         *)
(* A statement is what sqlparser hands to select_, cut down to the parts  *)
(* select_ reads:                                                          *)
(*   from  : the FROM entries, each a table name;                          *)
(*   where : NoClause (st.Where is nil), or [type, op, name, acc]: the     *)
(*           clause type ("where", "having"), the comparison operator,    *)
(*           the column name and the account literal;                      *)
(*   limit : NoClause, or [offset, count]: the offset (NoOffset or a        *)
(*           literal) and the row-count literal.                           *)
(* Literals are integers; a row is a txn record (txnsToApi and the result *)
(* rows format every field with %d or %x, which keeps txns apart).        *)
(***************************************************************************)
EXTENDS SqlChain

\* An absent clause (a nil pointer of sqlparser), and an absent offset
\* (the grammar has no negative offset literal).
NoClause == [absent |-> TRUE]

NoOffset == -1

TxnsTable == "txns"

\* checkSelect: more than one FROM entry is refused, none is let through,
\* one must name the txns table.
CheckSelect(from) == Len(from) = 0 \/ (Len(from) = 1 /\ from[1] = TxnsTable)

\* parseAccID: strconv.ParseUint base 10 of the literal.
ParseAccIdOk(v) == v >= 0

\* parseWhere: w.Type is read through the pointer, so a statement without
\* WHERE panics; then only "where", the "=" comparison, the column
\* "account" and an unsigned literal are accepted.
ParseWhere(w) ==
    CASE w = NoClause -> [status |-> "panic", acc |-> 0]
      [] w.type = "where" /\ w.op = "=" /\ w.name = "account"
         /\ ParseAccIdOk(w.acc) -> [status |-> "ok", acc |-> w.acc]
      [] OTHER -> [status |-> "error", acc |-> 0]

\* uint32(n) of the row count: a negative literal wraps to 2^32 + n.
\* TLC's integers stop below 2^31, so the wrapped value is stood for by
\* IdWrap; like the real one it lies above every history length, which is
\* all GetHistory compares it with.
Uint32(n) == IF n >= 0 THEN n ELSE IdWrap

\* parseLimit: no LIMIT asks for 20 rows; the offset becomes the request's
\* token (parseToken); the row count becomes req.Limit as uint32(n).
ParseLimit(l) ==
    IF l = NoClause THEN [limit |-> 20, token |-> NoOffset]
    ELSE [limit |-> Uint32(l.count), token |-> l.offset]

\* api Service.GetHistory: the request goes to the store as it is, and the
\* store's txns come back through txnsToApi. The store's GetHistory never
\* reads the token (nor sets the next one).
ApiGetHistory(db, acc, limit, token) == GetHistory(db, acc, limit)

\* select_: checkSelect, parseWhere, parseLimit, then GetHistory; the rows
\* of the result are the txns in the order GetHistory returns them.
SqlSelect(db, st) ==
    LET w == ParseWhere(st.where)
        l == ParseLimit(st.limit)
    IN  CASE ~CheckSelect(st.from) -> [status |-> "error", rows |-> <<>>]
          [] w.status # "ok"       -> [status |-> w.status, rows |-> <<>>]
          [] OTHER -> [status |-> "ok",
                       rows   |-> ApiGetHistory(db, w.acc, l.limit, l.token)]

-----------------------------------------------------------------------------
(* The write side: Server.insert turns "INSERT INTO txns (<columns>)      *)
(* VALUES (...), ..." into one TransferRequest for api ProcessTransfer.   *)
(* A statement is [table, columns, rows]: the column names in order and  *)
(* the VALUES rows, each a sequence of literals; an account or amount     *)
(* literal is an integer, and so is a prev_hash string, EmptyHashLit       *)
(* standing for "" and any other integer for a hash string.               *)

EmptyHashLit == 0

\* The state of insert's loop: the request built so far, or the outcome
\* that ended it ("error", or "panic" for an index out of range).
InsertFailed(s, why) == [s EXCEPT !.status = why]

\* Variant with a bug: the sender of the last row wins, without the check
\* that it is the one of the first (detected by SqlInsertMatchesValues).
FillSenderLastWins(s, i, v) ==
    IF ~ParseAccIdOk(v) THEN InsertFailed(s, "error")
    ELSE [s EXCEPT !.req.sender = v]

\* fillSender: every row after the first must name the sender already set.
FillSender(s, i, v) ==
    CASE ~ParseAccIdOk(v)                  -> InsertFailed(s, "error")
      [] i # 1 /\ s.req.sender # v         -> InsertFailed(s, "error")
      [] OTHER                             -> [s EXCEPT !.req.sender = v]

\* fillReceiver
FillReceiver(s, i, v) ==
    IF ~ParseAccIdOk(v) THEN InsertFailed(s, "error")
    ELSE [s EXCEPT !.req.batch[i].receiver = v]

\* fillAmount: strconv.ParseInt, any int64 (a negative amount included).
FillAmount(s, i, v) == [s EXCEPT !.req.batch[i].amount = v]

\* fillPrevHash: only the first row may carry a non-empty prev_hash; the
\* empty one of a later row is skipped.
FillPrevHash(s, i, v) ==
    CASE i # 1 /\ v # EmptyHashLit -> InsertFailed(s, "error")
      [] i # 1                 -> s
      [] OTHER                 -> [s EXCEPT !.req.prevHash = v]

\* One value f = rows[i][j]: st.Columns[j] (out of range past the column
\* list), then the column's parser from s.col, or "does not exist".
FillCell(s, st, i, j) ==
    LET v == st.rows[i][j]
    IN  CASE s.status # "ok"        -> s
          [] j > Len(st.columns)    -> InsertFailed(s, "panic")
          [] st.columns[j] = "sender"    -> FillSender(s, i, v)
          [] st.columns[j] = "receiver"  -> FillReceiver(s, i, v)
          [] st.columns[j] = "amount"    -> FillAmount(s, i, v)
          [] st.columns[j] = "prev_hash" -> FillPrevHash(s, i, v)
          [] OTHER                       -> InsertFailed(s, "error")

\* Server.insert: the table check, an empty VALUES list answered with an
\* empty result, then the loop over rows and values; a request that
\* survives it goes to ProcessTransfer ("call").
SqlInsert(st) ==
    LET n    == Len(st.rows)
        init == [status |-> "ok",
                 req |-> [sender |-> 0, prevHash |-> EmptyHashLit,
                          batch |-> [i \in 1 .. n |-> [receiver |-> 0, amount |-> 0]]]]
        done == FoldLeft(LAMBDA s, i :
                           FoldLeft(LAMBDA s2, j : FillCell(s2, st, i, j),
                                    s, [k \in 1 .. Len(st.rows[i]) |-> k]),
                         init, [k \in 1 .. n |-> k])
    IN  CASE st.table # TxnsTable -> [status |-> "error"]
          [] n = 0                -> [status |-> "empty"]
          [] done.status # "ok"   -> [status |-> done.status]
          [] OTHER                -> [status |-> "call", req |-> done.req]

-----------------------------------------------------------------------------
(* What the statement asks for in SQL: the account's history, in the      *)
(* order spec section 6 gives, without the first <offset> rows and cut to *)
(* <count> rows; all of it without LIMIT.                                  *)

SqlRef(db, acc, l) ==
    LET all  == HistoryRef(db, acc, 0)
        skip == IF l = NoClause \/ l.offset = NoOffset THEN 0 ELSE l.offset
        n    == IF l = NoClause THEN Len(all) ELSE l.count
        last == IF skip + n < Len(all) THEN skip + n ELSE Len(all)
    IN  SubSeq(all, skip + 1, last)

\* What insert's error messages promise ("only single sender must be used
\* in one batch", "only first transaction must have non empty prev_hash",
\* "column ... does not exists", "parse account expression"), for a
\* statement whose every row gives a value of every column it lists once:
\* the request carries the sender all rows name, the first row's prev hash
\* and each row's receiver and amount, in row order.
InsertRef(st) ==
    LET n     == Len(st.rows)
        cols  == Range(st.columns)
        Val(i, c) == st.rows[i][CHOOSE j \in DOMAIN st.columns : st.columns[j] = c]
        ok == /\ cols \subseteq {"sender", "receiver", "amount", "prev_hash"}
              /\ \A i \in 1 .. n : Val(i, "sender") >= 0 /\ Val(i, "receiver") >= 0
              /\ \A i \in 1 .. n : Val(i, "sender") = Val(1, "sender")
              /\ "prev_hash" \in cols => \A i \in 2 .. n : Val(i, "prev_hash") = EmptyHashLit
    IN  CASE st.table # TxnsTable -> [status |-> "error"]
          [] n = 0                -> [status |-> "empty"]
          [] ~ok                  -> [status |-> "error"]
          [] OTHER -> [status |-> "call",
                       req |-> [sender   |-> Val(1, "sender"),
                                prevHash |-> IF "prev_hash" \in cols
                                             THEN Val(1, "prev_hash") ELSE EmptyHashLit,
                                batch |-> [i \in 1 .. n |->
                                             [receiver |-> Val(i, "receiver"),
                                              amount   |-> Val(i, "amount")]]]]

\* The statement "SELECT * FROM txns WHERE account = acc" with limit l.
AccountQuery(acc, l) ==
    [from  |-> <<TxnsTable>>,
     where |-> [type |-> "where", op |-> "=", name |-> "account", acc |-> acc],
     limit |-> l]

=============================================================================
