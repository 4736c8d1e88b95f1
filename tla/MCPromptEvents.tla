--------------------------- MODULE MCPromptEvents ---------------------------
(***************************************************************************)
(* PromptEvents for TLC: three orgs whose names begin alike, prompts whose *)
(* subjects would be the same if dots were left as they are, and           *)
(* credentials of each kind.                                               *)
(***************************************************************************)
EXTENDS PromptEvents, TLC

CONSTANTS g1, g2

Agents == {g1, g2}

Dir == <<"a", "/", "b", "/", "x">>      \* priompt://a/b/x
Dotted == <<"a", ".", "b", "/", "x">>   \* priompt://a.b/x
Longer == <<"a", "b", "/", "x">>        \* priompt://ab/x

Uris == {Dir, Dotted, Longer}
Prefixes == {<<>>, <<"a">>, <<"a", "/">>, <<"a", ".", "b">>, <<"a", "/", "b", "/">>}

Scoped(o, write, expires) ==
    [org |-> o, write |-> write, expires |-> expires, broker |-> FALSE]

Identities == {Scoped(<<"a">>, TRUE, 1), Scoped(<<"a", ".", "b">>, FALSE, 0),
               Scoped(<<>>, TRUE, 0), Server}

(* Users, API credentials, the token alone, and an open broker beside an   *)
(* API that authenticates.                                                 *)
Started == {[users |-> TRUE, token |-> FALSE, providers |-> TRUE],
            [users |-> FALSE, token |-> TRUE, providers |-> TRUE],
            [users |-> FALSE, token |-> TRUE, providers |-> FALSE],
            [users |-> FALSE, token |-> FALSE, providers |-> TRUE]}

Interchangeable == Permutations(Agents)
=============================================================================
