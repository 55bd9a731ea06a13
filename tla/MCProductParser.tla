--------------------------- MODULE MCProductParser ---------------------------
(***************************************************************************)
(* Values of the language codes for TLC: "ru", "hr" and "mhr", whose keys  *)
(* collide after a source of two letters and not after one of three.       *)
(***************************************************************************)
EXTENDS ProductParser

MCAbrvs == {<<"r", "u">>, <<"h", "r">>, <<"m", "h", "r">>}
MCSources == {<<"e", "n">>, <<"c", "e", "b">>}

=============================================================================
