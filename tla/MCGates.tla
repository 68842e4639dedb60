------------------------------ MODULE MCGates ------------------------------
(***************************************************************************)
(* Gates on a small repository.  Lines are of the characters a, b and the  *)
(* space.                                                                  *)
(***************************************************************************)
EXTENDS Gates

CONSTANTS core, moved, odd

(* Reserved substrings, a reserved word, and a phrase that may hold it.    *)
Reserved == [substring |-> <<<<"a", "a">>, <<"b", "b">>>>, word |-> <<<<"b">>>>,
             allow |-> {<<"a", " ", "b">>}]

NoTerms == [substring |-> <<>>, word |-> <<>>, allow |-> {}]

MCSecrets == {Reserved, NoTerms}

MCLines == {<<"b">>, <<"a", "b">>, <<"a", " ", "b", " ", "b">>, <<"a", "a", "b">>,
            <<"a", " ", "b", "b">>}

=============================================================================
