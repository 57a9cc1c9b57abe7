--------------------------------- MODULE Visits --------------------------------
(***************************************************************************)
(* A visit to one of the pages or one of the views: the route tells which, *)
(* and the others have no state.  Every behaviour is one of Pages and one  *)
(* of Views, since a step of the one leaves the other as it is.            *)
(***************************************************************************)
EXTENDS Pages, Views

Init == PagesInit /\ ViewsInit

Next ==
    \/ PagesNext /\ UNCHANGED viewsVars
    \/ ViewsNext /\ UNCHANGED pagesVars

Spec == Init /\ [][Next]_<<pagesVars, viewsVars>>
================================================================================
