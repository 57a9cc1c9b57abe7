------------------------------ MODULE MCFilesPage ------------------------------
(* FilesPage with two folder names, files f1 and f2, and five starts. *)
EXTENDS FilesPage

CONSTANTS a, b, f1, f2

Shallow == {<<>>, <<a>>, <<b>>, <<a, b>>, <<b, a>>}

At(p1, p2) == [f \in Files |-> IF f = f1 THEN p1 ELSE p2]

Start(at, dirs, last, n, early) ==
    [place |-> at, made |-> dirs, last |-> last, early |-> early,
     calls |-> n[1], clicks |-> n[2], faults |-> n[3], others |-> n[4]]

\* In the last one the user may take a folder, paste it, and open another while the page reloads.
Small ==
    {Start(At(<<a>>, New), {<<a>>, <<b>>}, <<>>, <<2, 1, 0, 0>>, FALSE),
     Start(At(<<a>>, New), {<<a>>, <<b>>}, <<a>>, <<2, 0, 1, 0>>, FALSE),
     Start(At(<<a>>, <<>>), {<<a>>}, <<a>>, <<1, 0, 1, 1>>, TRUE),
     Start(At(<<a, b>>, New), {}, <<b, a>>, <<1, 1, 1, 0>>, TRUE),
     Start(At(<<a>>, New), {<<a>>, <<b>>}, <<>>, <<1, 2, 0, 0>>, FALSE)}
================================================================================
