-------------------------- MODULE SettingsSkipList --------------------------
(***************************************************************************)
(* The skip list under every account's settings chain                      *)
(* (src/chain/settings_skiplist.go) and the way SettingsChain.Put uses it  *)
(* (src/chain/settings_chain.go). settings_skiplist.go is skiplist.go with *)
(* settingsElement for element, line for line, so its operations are those *)
(* of SkipList. SettingsChain calls only Front, RemoveAfter and            *)
(* GetOrInsert; Put is their composition: the cut to front-1, then the    *)
(* insert with the height randHeight gives the new element.               *)
(***************************************************************************)
EXTENDS Integers, FiniteSetsExt

CONSTANTS
    MaxLevel,   \* SkiplistMaxLevel (32 in the code)
    Nil         \* a nil *settingsElement

SL == INSTANCE SkipList

\* newSettingsSkipList
NewSettingsSkipList == SL!EmptySkipList

\* settingsSkiplist.Front
SettingsFront(sl) == SL!FrontOf(sl)

\* settingsSkiplist.Get (findEl)
SettingsGet(sl, k) == SL!Get(sl, k)

\* settingsSkiplist.randHeight: any height from 1 up to the zero
\* element's height (MaxLevel).
SettingsHeights == SL!Heights

\* settingsSkiplist.GetOrInsert (findOrInsert)
SettingsGetOrInsert(sl, k, ht) == SL!GetOrInsert(sl, k, ht)

\* settingsSkiplist.RemoveAfter
SettingsRemoveAfter(sl, k) == SL!RemoveAfter(sl, k)

\* Variant with a bug: the cut keeps only the front (RemoveAfter(id)
\* instead of RemoveAfter(id - 1)).
SettingsListPutCutFront(sl, id, ht) ==
    LET f == SettingsFront(sl)
        c == IF f # Nil /\ f > 1 THEN SettingsRemoveAfter(sl, f) ELSE sl
    IN  SettingsGetOrInsert(c, id, ht)

\* SettingsChain.Put on the account's list: with a front of id > 1, cut
\* after id - 1; then GetOrInsert(s.ID), keeping an element already there.
SettingsListPut(sl, id, ht) ==
    LET f == SettingsFront(sl)
        c == IF f # Nil /\ f > 1 THEN SettingsRemoveAfter(sl, f - 1) ELSE sl
    IN  SettingsGetOrInsert(c, id, ht)

RECURSIVE PutClosure(_, _)
PutClosure(S, ids) ==
    LET S2 == S \cup {SettingsListPut(sl, id, ht) : sl \in S, id \in ids,
                                                    ht \in SettingsHeights}
    IN  IF S2 = S THEN S ELSE PutClosure(S2, ids)

\* Every list a settings chain holds after Puts of ids from ids, starting
\* from newSettingsSkipList (the chain is created on the first Put and
\* dropped by Reset).
SettingsLists(ids) == PutClosure({NewSettingsSkipList}, ids)

=============================================================================
