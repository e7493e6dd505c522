----------------------------- MODULE MCRouting -----------------------------
(***************************************************************************)
(* Two nodes and one API client over 3-bit account ids.                    *)
(***************************************************************************)
EXTENDS Routing

CONSTANTS h1, h2

MCHosts == {h1, h2}

\* An account below the first start of the explicit lists (it wraps) and
\* one in the last range of every list.
MCAccounts == {1, 6}

\* Both nodes started with --nodes h1,h2 (equal halves).
MCInitLists == {<<Plain(h1), Plain(h2)>>}

\* What an operator or service discovery may post to a node:
\*  - the halves swapped;
\*  - explicit unequal ranges whose first start is above 0 (ids below it
\*    wrap to the last host);
\*  - an unsorted explicit list;
\*  - an entry, an empty one and a malformed one (SetNodes panics at the
\*    third, keeping the first);
\*  - an empty list (SetNodes panics after clearing the table).
MCAdminLists ==
    { <<Plain(h2), Plain(h1)>>,
      <<Explicit(2, h1), Explicit(5, h2)>>,
      <<Explicit(6, h2), Explicit(1, h1)>>,
      <<Plain(h2), Empty, Bad>>,
      <<>> }

\* A node is given its own address, or none (UpdateRouter when no
\* address of the service answers with this host's name).
MCSelves(h) == {h, NoHost}

=============================================================================
