---------------------------- MODULE SettingsChain ----------------------------
(***************************************************************************)
(* Account settings: the in-memory settings chain of package chain         *)
(* (src/chain/settings_chain.go) and the sett table of package sqlchain    *)
(* (src/sqlchain/chain.go). Settings form a chain per account like txns:  *)
(* ids 1, 2, ... linked by prev hash.                                      *)
(*                                                                         *)
(* A settings record is [id, account, key, prevHash, hash]. key is the    *)
(* account's public key, NoKey when it has none; VerifyTransferSign and   *)
(* DataHash are read by no check of the processors and are left out.     *)
(* A transfer's or a settings request's sign is modelled by the key it    *)
(* was made with, NoKey for the zero sign: it verifies against key k iff  *)
(* it is k.                                                                *)
(***************************************************************************)
EXTENDS Chain

CONSTANTS
    NoSettings,  \* a nil *pt.Settings
    NoKey        \* no public key / the zero sign

\* pt.GetSettingsHash: SHA-256 over id, account, verify flag, prev hash,
\* public key and data hash; an injective stand-in, distinct from TxnHash.
SettingsHash(s) == <<"settings", s.id, s.account, s.key, s.prevHash>>

\* pt.NewSettingsID
SettingsKey(s) == <<s.account, s.id>>

-----------------------------------------------------------------------------
(* SettingsChain: a function from settings id to settings.                *)

\* SettingsChain.Put, cut: keep the ids >= front - 1.
SettingsCut(sl) ==
    IF DOMAIN sl = {} THEN sl
    ELSE LET front == Max(DOMAIN sl)
         IN IF front > 1
            THEN [k \in {j \in DOMAIN sl : j >= front - 1} |-> sl[k]]
            ELSE sl

\* SettingsChain.Put: GetOrInsert(s.ID), keep an element that is there.
SettingsPut(sl, s) ==
    LET c == SettingsCut(sl)
    IN  IF s.id \in DOMAIN c THEN c ELSE c @@ (s.id :> s)

\* Variant with a bug: the oldest kept element is taken for the front
\* (detected by SettingsCacheMatchesStore).
GetLastSettingsOldest(sl) ==
    IF DOMAIN sl = {} THEN NoSettings ELSE sl[Min(DOMAIN sl)]

\* SettingsChain.GetLastSettings: the front element's settings.
GetLastSettings(sl) ==
    IF DOMAIN sl = {} THEN NoSettings ELSE sl[Max(DOMAIN sl)]

-----------------------------------------------------------------------------
(* The sett table.                                                         *)

SettRows(sdb, a) == {r \in sdb : r.account = a}

\* The newest settings of account a in the store, NoSettings if none.
SettHead(sdb, a) ==
    IF SettRows(sdb, a) = {} THEN NoSettings
    ELSE CHOOSE r \in SettRows(sdb, a) :
            \A q \in SettRows(sdb, a) : q.id <= r.id

\* DB.PushSettings: a plain INSERT; a duplicate (account, id) fails.
SettDuplicate(sdb, s) == \E r \in sdb : SettingsKey(r) = SettingsKey(s)

PushSettings(sdb, s) ==
    sdb \cup {IF s.hash = ZeroHash THEN [s EXCEPT !.hash = SettingsHash(s)]
                                   ELSE s}

\* DB.Fetch, third query, then bigchain.pbSettingsToPt: the newest
\* settings of the account; the hash column is not selected, so the hash
\* pbSettingsToPt copies is empty.
FetchSettings(sdb, a) ==
    IF SettHead(sdb, a) = NoSettings THEN NoSettings
    ELSE [SettHead(sdb, a) EXCEPT !.hash = ZeroHash]

=============================================================================
