----------------------------- MODULE TabWindow -----------------------------
(***************************************************************************)
(* What Iris may know of a program that shows things to the user: for each  *)
(* tab, a page that was on show there, chosen among those that may be told, *)
(* or nothing.  It may lag behind, it may go back to a page shown before,   *)
(* and it forgets everything at once; it never mixes tabs up and never      *)
(* invents a page.  Chrome's tabs, and the editor embedded in Iris, whose   *)
(* pages are files, are instances of it.                                    *)
(***************************************************************************)
CONSTANTS Tabs, Pages, Public, None

VARIABLES shown,  \* shown[t]: the pages tab t has shown
          known   \* known[t]: the page Iris takes to be in tab t, or None

view == <<shown, known>>

Nothing == [t \in Tabs |-> None]

WindowInit == shown \in [Tabs -> SUBSET Pages] /\ known = Nothing

Show(t, p) == shown' = [shown EXCEPT ![t] = @ \cup {p}] /\ UNCHANGED known

Report(t, p) ==
    /\ p \in shown[t] \cap Public
    /\ known' = [known EXCEPT ![t] = p]
    /\ UNCHANGED shown

Forget == known' = Nothing /\ UNCHANGED shown

WindowNext ==
    \/ \E t \in Tabs, p \in Pages : Show(t, p) \/ Report(t, p)
    \/ Forget

WindowSpec == WindowInit /\ [][WindowNext]_view
=============================================================================
