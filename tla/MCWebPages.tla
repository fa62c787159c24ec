------------------------------- MODULE MCWebPages -------------------------------
(* WebPages for TLC: each show has a season of its own; one query of the   *)
(* palette finds a page and a sync, another nothing.                       *)
EXTENDS WebPages

CONSTANTS s1, s2, home, books, logs, sync, every, some, none

MCSeasons == {<<s1, 1>>, <<s2, 2>>}

MCMatching ==
  [q \in {every, some, none} |->
     CASE q = every -> <<home, books, logs, sync>> [] q = some -> <<logs, sync>>
       [] OTHER -> <<>>]
==============================================================================
