------------------------------- MODULE MCUploads -------------------------------
(* Uploads of two files into folders A and B: batches of one and two files, and a picture. *)
EXTENDS Uploads

CONSTANTS f1, f2, A, B

Entry(f, p, k) == [file |-> f, folder |-> p, kind |-> k]
One == <<Entry(f1, A, "upload")>>
Other == <<Entry(f2, B, "upload")>>
Pair == <<Entry(f1, A, "upload"), Entry(f2, A, "upload")>>
Spread == <<Entry(f1, A, "upload"), Entry(f2, B, "upload")>>
Picture == <<Entry(f1, A, "upload"), Entry(f2, A, "ocr")>>

Start(bs, n, reload) ==
    [batches |-> bs, picks |-> n[1], faults |-> n[2], clears |-> n[3], clicks |-> n[4],
     leaves |-> n[5], reload |-> reload]

Small ==
    {Start({One, Other}, <<2, 1, 0, 0, 0>>, FALSE),
     Start({Pair}, <<1, 2, 0, 0, 0>>, FALSE),
     Start({Spread}, <<1, 1, 0, 0, 1>>, FALSE),
     Start({Spread}, <<1, 0, 0, 0, 1>>, TRUE),
     Start({Picture}, <<1, 1, 0, 1, 0>>, FALSE),
     Start({One}, <<1, 1, 2, 0, 0>>, FALSE),
     Start({Pair, Other}, <<2, 0, 0, 0, 0>>, FALSE)}
================================================================================
