------------------------------ MODULE Routing ------------------------------
(***************************************************************************)
(* Account routing between the nodes of a cluster and one API client.     *)
(*                                                                         *)
(*  - StaticRouter (src/router/static_router.go): a node table of shard   *)
(*    starts and hosts; GetHostByKey, IsSelf, Nodes, SetNodes, SetSelf.   *)
(*    Every node and the client hold one.                                  *)
(*  - Gate.checkRouting (src/gate/gate.go): a node serves an account only *)
(*    when its own table maps the account to itself, and otherwise        *)
(*    replies SEE_OTHER carrying its Nodes().                             *)
(*  - api.Router.routeAndRetry (src/api/router.go): the client sends to   *)
(*    the host its table names, adopts the node list of a SEE_OTHER and   *)
(*    tries again, at most 3 sends.                                        *)
(*  - POST /cfg/router and UpdateRouter (src/router/handler.go): SetSelf  *)
(*    and then SetNodes, two calls under two separate locks.              *)
(*                                                                         *)
(* A node-list entry is a record: "<id>=<host>" is Explicit, "<host>" is  *)
(* Plain, "" is Empty, and any entry SetNodes panics on (a shard that is  *)
(* not a number, more than one "=") is Bad. Account ids are W-bit words;  *)
(* the code's words are 64 bits wide and its formulas are kept with 64    *)
(* replaced by W. fmt "%d" followed by ParseUint gives back the id.       *)
(***************************************************************************)
EXTENDS Integers, Sequences, SequencesExt

CONSTANTS
    Hosts,       \* the nodes' addresses
    NoHost,      \* the empty host string
    NoPost,      \* no POST /cfg/router half done
    W,           \* the width of an account id (64 in the code)
    Accounts,    \* the account ids clients ask for
    InitLists,   \* the --nodes lists a cluster may be started with
    AdminLists,  \* the node lists POST /cfg/router may carry
    Selves(_)    \* the selves POST /cfg/router may give node h

Word == 2 ^ W

Plain(h)       == [kind |-> "plain", host |-> h]
Explicit(s, h) == [kind |-> "explicit", shard |-> s, host |-> h]
Empty          == [kind |-> "empty"]
Bad            == [kind |-> "bad"]

VARIABLES
    table,     \* table[h]: node h's StaticRouter shards and nodes
    self,      \* self[h]: node h's StaticRouter self
    pending,   \* pending[h]: the node list of a POST whose SetSelf is done
    ctable,    \* the client's StaticRouter (api.Router.router)
    cpc,       \* the client's routeAndRetry: "idle", "route", "wait"
    acc,       \* the account of the client's call
    try,       \* routeAndRetry's try
    target,    \* the host the client's request went to
    outcome,   \* how the last call ended: "none", "ok", "loop", "error"
    stable,    \* the cluster agreed on one table when this call began (history)
    changed    \* a node's router changed during this call (history)

vars == <<table, self, pending, ctable, cpc, acc, try, target, outcome,
          stable, changed>>

-----------------------------------------------------------------------------
(* StaticRouter                                                            *)

EmptyTable == [shards |-> <<>>, nodes |-> <<>>]

\* SetNodes: equalPart is computed in uint64 as ((1<<63)/n)<<1.
EqualPart(n) == ((2 ^ (W - 1) \div n) * 2) % Word

\* SetNodes(list): shards and nodes are reset first and appended entry by
\* entry, so a panic leaves the entries before the bad one (none at all
\* for an empty list).
SetNodes(list) ==
    LET n    == Len(list)
        stop == IF \E i \in 1 .. n : list[i].kind = "bad"
                THEN SelectInSeq(list, LAMBDA e : e.kind = "bad") ELSE n + 1
        idx  == SelectSeq([i \in 1 .. stop - 1 |-> i],
                          LAMBDA i : list[i].kind # "empty")
        shardOf(i) == IF list[i].kind = "explicit" THEN list[i].shard
                      ELSE ((i - 1) * EqualPart(n)) % Word
    IN  IF n = 0 THEN EmptyTable
        ELSE [shards |-> [k \in 1 .. Len(idx) |-> shardOf(idx[k])],
              nodes  |-> [k \in 1 .. Len(idx) |-> list[idx[k]].host]]

\* sort.Search(l, func(i) bool { return id < shards[i] }): the bisection
\* over [i, j), 0-based.
RECURSIVE Search(_, _, _, _)
Search(t, id, i, j) ==
    IF i >= j THEN i
    ELSE LET h == (i + j) \div 2
         IN  IF ~(id < t.shards[h + 1]) THEN Search(t, id, h + 1, j)
             ELSE Search(t, id, i, h)

\* GetHostByKey panics on an empty table ((idx - 1 + l) % l with l = 0).
LookupPanics(t) == Len(t.shards) = 0

\* Variant with a bug: the index sort.Search returns is used without
\* stepping back (detected by LookupMatchesSpec).
GetHostByKeyNoStepBack(t, id) ==
    LET l == Len(t.shards)
    IN  t.nodes[((Search(t, id, 0, l) + l) % l) + 1]

\* GetHostByKey: the entry before the first shard start above id,
\* wrapping to the last one.
GetHostByKey(t, id) ==
    LET l == Len(t.shards)
    IN  t.nodes[((Search(t, id, 0, l) - 1 + l) % l) + 1]

\* Variant with a bug: the table is sent as the bare host list, as
\* simple_router.go's Nodes does (detected by RerouteConverges).
NodesPlain(t) == [k \in 1 .. Len(t.nodes) |-> Plain(t.nodes[k])]

\* Nodes: every entry formatted as "%d=%s".
Nodes(t) == [k \in 1 .. Len(t.nodes) |-> Explicit(t.shards[k], t.nodes[k])]

-----------------------------------------------------------------------------
(* The cluster agrees when every node holds the same non-empty table, is  *)
(* itself, and no POST is half done.                                       *)
Agreed ==
    /\ \A h \in Hosts : pending[h] = NoPost /\ self[h] = h
    /\ \E t \in {table[h] : h \in Hosts} :
         /\ ~LookupPanics(t)
         /\ \A h \in Hosts : table[h] = t

\* cmd/plutos: NewStatic(hostname), then SetNodes of the --nodes flag,
\* the same list on every node (no flag leaves the table empty, which is
\* what SetNodes(<<>>) gives). cmd/plutoapi: NewStatic(""), then
\* SetNodes(["0=" + gate]).
Init ==
    /\ \E list \in InitLists : table = [h \in Hosts |-> SetNodes(list)]
    /\ self = [h \in Hosts |-> h]
    /\ pending = [h \in Hosts |-> NoPost]
    /\ \E g \in Hosts : ctable = SetNodes(<<Explicit(0, g)>>)
    /\ cpc = "idle"
    /\ acc \in Accounts
    /\ try = 0
    /\ target = NoHost
    /\ outcome = "none"
    /\ stable = FALSE
    /\ changed = FALSE

-----------------------------------------------------------------------------
(* The client: api.Router.routeAndRetry, one call at a time.               *)

\* A ProcessTransfer, GetPrevHash, GetBalance, UpdateSettings or
\* GetLastSettings call for account a enters routeAndRetry with try = 0.
Call(a) ==
    /\ cpc = "idle"
    /\ cpc' = "route"
    /\ acc' = a
    /\ stable' = Agreed
    /\ UNCHANGED <<table, self, pending, ctable, try, target, outcome,
                   changed>>

\* routeAndRetry returns o; its locals are gone.
Return(o) ==
    /\ cpc' = "idle"
    /\ outcome' = o
    /\ try' = 0
    /\ target' = NoHost
    /\ stable' = FALSE
    /\ changed' = FALSE

\* getURLForAccount: GetHostByKey of the account's "%d" form. An empty
\* host fails the call; no table the client installs holds one.
GetURLForAccount(a) == GetHostByKey(ctable, a)

\* getClientForAccount: the pooled client of that host.
GetClientForAccount(a) == GetURLForAccount(a)

\* routeAndRetry: "if try == 3 { return errors.New("rerouting loop") }".
RerouteLoop(t) == t = 3

\* The reroute label: give up after 3 tries, else count the try and send
\* to the host the client's table names (getClientForAccount). The
\* client's table is never empty: it is set from a non-empty list.
Route ==
    /\ cpc = "route"
    /\ IF RerouteLoop(try)
       THEN Return("loop")
       ELSE /\ try' = try + 1
            /\ target' = GetClientForAccount(acc)
            /\ cpc' = "wait"
            /\ UNCHANGED <<outcome, stable, changed>>
    /\ UNCHANGED <<table, self, pending, ctable, acc>>

\* decodeAndCheckReroute: r.router.SetNodes(rmap.Nodes).
AdoptRouteMap(t, list) == SetNodes(list)

\* Gate.checkRouting: node h's router maps account a to h's self.
CheckRouting(h, a) == self[h] = GetHostByKey(table[h], a)

\* The node at target serves the request: Gate.checkRouting with the
\* node's router as it is now, then the client's decodeAndCheckReroute.
\*  - an empty table makes GetHostByKey panic: the call fails;
\*  - the account maps to the node itself: the processor is called and
\*    the call returns (whatever its status, it is not SEE_OTHER);
\*  - otherwise SEE_OTHER with the node's Nodes(); getRouteMap accepts a
\*    non-empty list, the client installs it and goes back to reroute.
Serve ==
    /\ cpc = "wait"
    /\ LET t == table[target]
       IN  CASE LookupPanics(t) ->
                  Return("error") /\ UNCHANGED ctable
             [] CheckRouting(target, acc) ->
                  Return("ok") /\ UNCHANGED ctable
             [] OTHER ->
                  /\ cpc' = "route"
                  /\ ctable' = AdoptRouteMap(ctable, Nodes(t))
                  /\ UNCHANGED <<outcome, try, target, stable, changed>>
    /\ UNCHANGED <<table, self, pending, acc>>

-----------------------------------------------------------------------------
(* The router handler of node h: POST /cfg/router (or UpdateRouter after  *)
(* service discovery) calls SetSelf and then SetNodes.                     *)

\* SetSelf(d.Self): the new self is in place, the node list is pending.
PostSetSelf(h, s, list) ==
    /\ pending[h] = NoPost
    /\ self' = [self EXCEPT ![h] = s]
    /\ pending' = [pending EXCEPT ![h] = list]
    /\ changed' = (changed \/ cpc # "idle")
    /\ UNCHANGED <<table, ctable, cpc, acc, try, target, outcome, stable>>

\* SetNodes(d.Nodes), panicking or not; a panic ends the handler.
PostSetNodes(h) ==
    /\ pending[h] # NoPost
    /\ table' = [table EXCEPT ![h] = SetNodes(pending[h])]
    /\ pending' = [pending EXCEPT ![h] = NoPost]
    /\ changed' = (changed \/ cpc # "idle")
    /\ UNCHANGED <<self, ctable, cpc, acc, try, target, outcome, stable>>

Next ==
    \/ \E a \in Accounts : Call(a)
    \/ Route
    \/ Serve
    \/ \E h \in Hosts : \E s \in Selves(h), list \in AdminLists :
         PostSetSelf(h, s, list)
    \/ \E h \in Hosts : PostSetNodes(h)

Spec == Init /\ [][Next]_vars

-----------------------------------------------------------------------------
(* Properties                                                              *)

\* The partition of the static-range router in spec section 4.7: the host
\* of the largest shard start <= id, the last host when id is below
\* every start.
SpecHost(t, id) ==
    LET i == SelectLastInSeq(t.shards, LAMBDA s : s <= id)
    IN  t.nodes[IF i = 0 THEN Len(t.nodes) ELSE i]

\* GetHostByKey's bisection (sort.Search) and its step back with wrap-around
\* find the spec's host for every id, in every sorted table a node or the
\* client holds.
LookupMatchesSpec ==
    \A t \in {table[h] : h \in Hosts} \cup {ctable} :
        ~LookupPanics(t) /\ IsSorted(t.shards, <) =>
            \A id \in 0 .. Word - 1 : GetHostByKey(t, id) = SpecHost(t, id)

\* The reroute protocol converges: a call that begins while every node
\* holds the same table and is itself, and during which no router changes,
\* returns with the owner serving it, after at most one SEE_OTHER
\* (Gate.checkRouting's Nodes() installed by decodeAndCheckReroute routes
\* the client as the nodes route; spec section 8: after client update,
\* retry succeeds).
RerouteConverges ==
    [][cpc # "idle" /\ cpc' = "idle" /\ stable /\ ~changed =>
         outcome' = "ok" /\ try <= 2]_vars

=============================================================================
