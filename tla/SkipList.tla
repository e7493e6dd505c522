------------------------------ MODULE SkipList ------------------------------
(***************************************************************************)
(* The skip list under every account chain (src/chain/skiplist.go), at    *)
(* the level of its pointers. Keys are kept in descending order: the      *)
(* front is the greatest key. settings_skiplist.go is the same code over  *)
(* settings elements.                                                      *)
(*                                                                         *)
(* Keys are unique, so an element is named by its key; the zero element   *)
(* (key 0, full height) is the head. A list value is a record             *)
(*   h - the height of every element present (the head included),        *)
(*   p - p[e][i], the element after e at level i, or Nil.                 *)
(* The split of an element's levels into next[0..3] and more[] is index   *)
(* arithmetic (NextLevel, setNextLevel) and is modelled as one function   *)
(* over the levels. Every operation runs under the chain mutex, so each   *)
(* one is a function from list value to list value, its loops recursive   *)
(* operators. An element unlinked by RemoveAfter is unreachable and is    *)
(* dropped from the value (the pool of removed elements is not modelled). *)
(***************************************************************************)
EXTENDS Integers, Sequences, SequencesExt, FiniteSetsExt

CONSTANTS
    MaxLevel,   \* skiplistMaxLevel (32 in the code)
    Nil         \* a nil *element

Zero   == 0
Levels == 0 .. MaxLevel - 1

\* newSkipList: the head alone, every level nil.
EmptySkipList == [h |-> (Zero :> MaxLevel),
                  p |-> (Zero :> [i \in Levels |-> Nil])]

\* randHeight: any height from 1 to the head's height.
Heights == 1 .. MaxLevel

\* element.Height: 0 for nil.
Height(sl, e) == IF e = Nil THEN 0 ELSE sl.h[e]

\* element.NextLevel
NextLevel(sl, e, i) == sl.p[e][i]

\* element.furtherLessEqual / furtherLess: from the top level down, the
\* first non-nil next whose key passes the test.
FurtherBy(sl, e, ok(_)) ==
    LET ls == {i \in Levels : NextLevel(sl, e, i) # Nil /\ ok(NextLevel(sl, e, i))}
    IN  IF ls = {} THEN Nil ELSE NextLevel(sl, e, Max(ls))

FurtherLessEqual(sl, e, k) == FurtherBy(sl, e, LAMBDA x : x >= k)

FurtherLess(sl, e, k) == FurtherBy(sl, e, LAMBDA x : x > k)

\* One turn of the search loops of findOrInsert, Remove and RemoveAfter:
\* update[i] := par for the levels the step jumps over.
Jumped(sl, par, cur, upd) ==
    [i \in Levels |-> IF Height(sl, cur) <= i /\ i < Height(sl, par)
                      THEN par ELSE upd[i]]

NoUpdate == [i \in Levels |-> Nil]

\* The search loop of findOrInsert (and RemoveAfter): from par, step with
\* furtherLessEqual until nil or a key <= k; returns the last par, the
\* element it stopped at and the update array.
RECURSIVE SearchLE(_, _, _, _)
SearchLE(sl, k, par, upd) ==
    LET cur == FurtherLessEqual(sl, par, k)
        u   == Jumped(sl, par, cur, upd)
    IN  IF cur = Nil \/ cur <= k THEN [par |-> par, cur |-> cur, upd |-> u]
        ELSE SearchLE(sl, k, cur, u)

\* Variant with a bug: RemoveAfter searches with furtherLess, so the
\* element of the key itself is cut off as well (detected by
\* SkipListImplementsKeySet).
RECURSIVE SearchLTStrict(_, _, _, _)
SearchLTStrict(sl, k, par, upd) ==
    LET cur == FurtherLess(sl, par, k)
        u   == Jumped(sl, par, cur, upd)
    IN  IF cur = Nil \/ cur < k THEN [par |-> par, cur |-> cur, upd |-> u]
        ELSE SearchLTStrict(sl, k, cur, u)

\* The search loop of RemoveAfter: as SearchLE, stopping at nil or a key < k.
RECURSIVE SearchLT(_, _, _, _)
SearchLT(sl, k, par, upd) ==
    LET cur == FurtherLessEqual(sl, par, k)
        u   == Jumped(sl, par, cur, upd)
    IN  IF cur = Nil \/ cur < k THEN [par |-> par, cur |-> cur, upd |-> u]
        ELSE SearchLT(sl, k, cur, u)

\* The search loop of Remove: step with furtherLess until nil.
RECURSIVE SearchGT(_, _, _, _)
SearchGT(sl, k, par, upd) ==
    LET cur == FurtherLess(sl, par, k)
        u   == Jumped(sl, par, cur, upd)
    IN  IF cur = Nil THEN [par |-> par, cur |-> cur, upd |-> u]
        ELSE SearchGT(sl, k, cur, u)

-----------------------------------------------------------------------------
(* Operations.                                                             *)

\* Variant with a bug: the new element is linked at one level fewer than
\* its height (detected by SkipListWellFormed).
GetOrInsertShort(sl, key, ht) ==
    LET r  == SearchLE(sl, key, Zero, NoUpdate)
        p1 == sl.p @@ (key :> [i \in Levels |-> Nil])
        link(p, i) == [p EXCEPT ![key][i] = p[r.upd[i]][i],
                                ![r.upd[i]][i] = key]
    IN  IF r.cur # Nil THEN sl
        ELSE [h |-> sl.h @@ (key :> ht),
              p |-> FoldLeft(link, p1, [j \in 1 .. ht - 1 |-> j - 1])]

\* findOrInsert(key) with randHeight() = ht: an element that is there is
\* returned unchanged; else a new one is linked after update[i] at each of
\* its levels.
GetOrInsert(sl, key, ht) ==
    LET r  == SearchLE(sl, key, Zero, NoUpdate)
        p1 == sl.p @@ (key :> [i \in Levels |-> Nil])
        link(p, i) == [p EXCEPT ![key][i] = p[r.upd[i]][i],
                                ![r.upd[i]][i] = key]
    IN  IF r.cur # Nil THEN sl
        ELSE [h |-> sl.h @@ (key :> ht),
              p |-> FoldLeft(link, p1, [j \in 1 .. ht |-> j - 1])]

\* Remove(key) (RemoveElement): find the last element > key; if the one after it is key,
\* unlink it at every level, through par where par is high enough and
\* through update[i] above, and return it to the pool.
RemoveElement(sl, key) ==
    LET r   == SearchGT(sl, key, Zero, NoUpdate)
        par == r.par
        cur == NextLevel(sl, par, 0)
        via(i) == IF i < Height(sl, par) THEN par ELSE r.upd[i]
        p1  == [e \in DOMAIN sl.p \ {cur} |->
                  [i \in Levels |->
                     IF i < Height(sl, cur) /\ e = via(i)
                     THEN NextLevel(sl, cur, i) ELSE sl.p[e][i]]]
    IN  IF cur = Nil \/ cur < key THEN sl
        ELSE [h |-> [e \in DOMAIN p1 |-> sl.h[e]], p |-> p1]

\* The elements after e at level i, following the pointers while they lead
\* to a present element further down the order (on any other pointer the
\* walk stops, and WellFormed fails).
Step(sl, e, i) ==
    LET n == NextLevel(sl, e, i)
    IN  IF n # Nil /\ n \in DOMAIN sl.h /\ (e = Zero \/ n < e) THEN n ELSE Nil

RECURSIVE LevelWalk(_, _, _)
LevelWalk(sl, e, i) ==
    IF Step(sl, e, i) = Nil THEN <<>>
    ELSE <<Step(sl, e, i)>> \o LevelWalk(sl, Step(sl, e, i), i)

Walk(sl, e) == LevelWalk(sl, e, 0)

\* RemoveAfter(key): cut every level after the last element >= key; the
\* cut-off tail is unreachable.
RemoveAfter(sl, key) ==
    LET r  == SearchLT(sl, key, Zero, NoUpdate)
        p1 == [e \in DOMAIN sl.p |->
                 [i \in Levels |-> IF e = r.upd[i] THEN Nil ELSE sl.p[e][i]]]
        kept == {Zero} \cup ToSet(Walk([sl EXCEPT !.p = p1], Zero))
    IN  [h |-> [e \in kept |-> sl.h[e]], p |-> [e \in kept |-> p1[e]]]

-----------------------------------------------------------------------------
(* Readers.                                                                *)

\* Front (FrontOf): the head's level-0 next.
FrontOf(sl) == NextLevel(sl, Zero, 0)

\* findEl: from the front, step with furtherLessEqual while the key is > k.
RECURSIVE FindEl(_, _, _, _)
FindEl(sl, k, cur, par) ==
    IF cur = Nil \/ cur <= k THEN [cur |-> cur, par |-> par]
    ELSE FindEl(sl, k, FurtherLessEqual(sl, cur, k), cur)

\* Get: the element of key k, or Nil.
Get(sl, k) ==
    LET r == FindEl(sl, k, FrontOf(sl), Nil)
    IN  IF r.cur # Nil /\ r.cur # k THEN Nil ELSE r.cur

-----------------------------------------------------------------------------
(* The ordered key set the chain relies on (the abstraction of Chain and  *)
(* SettingsChain: a function whose domain is the set of ids present), and *)
(* every list value the operations can build from newSkipList.           *)

\* The refinement mapping: the keys reachable from the head at level 0.
KeysOf(sl) == ToSet(Walk(sl, Zero))

\* The shape every operation relies on: every pointer leads to a present
\* element further down the order; the elements of level i are exactly
\* those taller than i; nothing points above an element's height; every
\* element present is reachable.
WellFormed(sl) ==
    /\ \A e \in DOMAIN sl.p, i \in Levels :
         sl.p[e][i] # Nil => sl.p[e][i] = Step(sl, e, i)
    /\ \A i \in Levels :
         LET w == LevelWalk(sl, Zero, i)
         IN  ToSet(w) = {e \in DOMAIN sl.h \ {Zero} : sl.h[e] > i}
    /\ \A e \in DOMAIN sl.p, i \in Levels : i >= sl.h[e] => sl.p[e][i] = Nil
    /\ DOMAIN sl.h = {Zero} \cup KeysOf(sl)

Successors(S, ks) ==
    LET G == {sl \in S : WellFormed(sl)}
    IN     {GetOrInsert(sl, k, ht) : sl \in G, k \in ks, ht \in Heights}
      \cup {RemoveElement(sl, k) : sl \in G, k \in ks}
      \cup {RemoveAfter(sl, k) : sl \in G, k \in ks}

RECURSIVE Closure(_, _)
Closure(S, ks) == LET S2 == S \cup Successors(S, ks)
                  IN  IF S2 = S THEN S ELSE Closure(S2, ks)

\* Every list value reachable with keys ks.
SkipLists(ks) == Closure({EmptySkipList}, ks)

\* Each operation does to the reachable keys what the ordered set
\* operation does; Front is the greatest key and Get finds exactly the
\* keys present.
ImplementsKeySet(sl, ks) ==
    /\ FrontOf(sl) = IF KeysOf(sl) = {} THEN Nil ELSE Max(KeysOf(sl))
    /\ \A k \in ks :
         /\ Get(sl, k) = IF k \in KeysOf(sl) THEN k ELSE Nil
         /\ \A ht \in Heights : KeysOf(GetOrInsert(sl, k, ht)) = KeysOf(sl) \cup {k}
         /\ KeysOf(RemoveElement(sl, k)) = KeysOf(sl) \ {k}
         /\ KeysOf(RemoveAfter(sl, k)) = {x \in KeysOf(sl) : x >= k}


=============================================================================
