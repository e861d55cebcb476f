---------------------------- MODULE MCProfiles ----------------------------
EXTENDS ProfileStore

\* As many parts but another one, the same in another order, more of them.
MCCorpora == {<<"a", "b">>, <<"c", "a">>, <<"b", "a", "c">>}
===========================================================================
