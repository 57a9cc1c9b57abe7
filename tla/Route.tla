--------------------------------- MODULE Route ---------------------------------
(***************************************************************************)
(* The web application shows one page at a time (App.tsx, routes.tsx): a   *)
(* page is mounted with its initial state, and what another page had is    *)
(* gone with it.                                                           *)
(***************************************************************************)
CONSTANT Routes \* the pages and views visited

VARIABLE route  \* the one that is mounted

\* The state of a page that is not mounted.
Off == "unmounted"
================================================================================
