----------------------------- MODULE MCExchange -----------------------------
EXTENDS Exchange

Post    == [length |-> 2, valid |-> TRUE,  keep_alive |-> TRUE]
Get     == [length |-> 0, valid |-> TRUE,  keep_alive |-> FALSE]
Invalid == [length |-> 0, valid |-> FALSE, keep_alive |-> TRUE]

(* Two requests one after the other on one stream, or two at once.         *)
MCLoad ==
  {[stream |-> <<1, 1>>, kind |-> <<k, l>>] : k \in {Post, Get, Invalid}, l \in {Post, Get, Invalid}}
    \cup {[stream |-> <<1, 2>>, kind |-> <<Get, Get>>]}
=============================================================================
