---------------------------- MODULE MCToolStream ----------------------------
(***************************************************************************)
(* Three plots: three items in up to three turns from a backend that does  *)
(* everything by the book; three from one that does not; and after a       *)
(* search a message of up to four pieces of links in both widths, of       *)
(* Harmony citations and of what looks like them.                          *)
(***************************************************************************)
EXTENDS ToolStream

MCPlots ==
  [turns     |-> [items |-> 3, open |-> 1, deltas |-> 1, pieces |-> {<<"x", "[">>},
                  tools |-> {"search", "fetch", "client"},
                  irregular |-> FALSE, fails |-> TRUE, scripted |-> FALSE],
   irregular |-> [items |-> 3, open |-> 2, deltas |-> 2, pieces |-> {<<"x", "[">>},
                  tools |-> {"search", "client"},
                  irregular |-> TRUE, fails |-> FALSE, scripted |-> FALSE],
   text      |-> [items |-> 2, open |-> 2, deltas |-> 4,
                  pieces |-> {<<"[", "x">>, <<"<", "x">>, <<"<", "1">>, <<"]", "(">>,
                              <<">", "(">>, <<">">>, <<"h">>, <<")">>, <<"_">>,
                              <<"[", "x", "]", "(", "h", ")">>},
                  tools |-> {"search"},
                  irregular |-> FALSE, fails |-> FALSE, scripted |-> TRUE]]
=============================================================================
