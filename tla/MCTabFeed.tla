----------------------------- MODULE MCTabFeed -----------------------------
(***************************************************************************)
(* A search and a video on YouTube, a sensitive page of the same site, and  *)
(* a page of a site no rule is about.                                       *)
(***************************************************************************)
EXTENDS TabFeed, TLC

YouTube == <<"www", "youtube", "com">>

Addresses ==
    [p \in Pages |->
        CASE p = "lofi"  -> [host |-> YouTube, sensitive |-> FALSE,
                             results |-> TRUE, readable |-> TRUE]
          [] p = "video" -> [host |-> YouTube, sensitive |-> FALSE,
                             results |-> FALSE, readable |-> TRUE]
          [] p = "login" -> [host |-> YouTube, sensitive |-> TRUE,
                             results |-> FALSE, readable |-> TRUE]
          [] p = "fake"  -> [host |-> <<"notyoutube", "com">>, sensitive |-> FALSE,
                             results |-> FALSE, readable |-> FALSE]]

\* To begin with, one tab shows the search and any other is closed.
OneOpen == [t \in Tabs |-> IF t = "tab1" THEN "lofi" ELSE None]

Symmetry == Permutations(Jobs)
=============================================================================
