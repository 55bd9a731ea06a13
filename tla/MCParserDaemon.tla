---------------------------- MODULE MCParserDaemon ----------------------------
(***************************************************************************)
(* ParserDaemon for TLC.  The intervals are one that is no time, one that  *)
(* is divided by, one that divides the day of six, one that does not and   *)
(* one whose milliseconds the int of the timer cannot hold.  Clients, and  *)
(* addresses, are interchangeable.                                         *)
(***************************************************************************)
EXTENDS ParserDaemon

MCIntervals == {-2, 0, 3, 4, 9}

ClientsAndAddrs == Permutations(Clients) \cup Permutations(Addrs)

=============================================================================
