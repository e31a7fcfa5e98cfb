---------------------------- MODULE MC_InAppAds -----------------------------
(***************************************************************************)
(* Two ads at once, one bucket inside and one outside an audience of 50    *)
(* percent, and edits that give one field and leave out the others.        *)
(***************************************************************************)
EXTENDS InAppAds

Ad(k, t) == [kind |-> k, from |-> 0, to |-> t, percent |-> 50]
MC_NewAds == {Ad("POPUP", 1), Ad("POPUP", 2), Ad("SLIDESHOW", 2)}

Nothing == [from |-> Keep, to |-> Keep, percent |-> Keep, active |-> Keep]
MC_Edits == {[Nothing EXCEPT !.from = 1], [Nothing EXCEPT !.to = 1], [Nothing EXCEPT !.percent = 100],
             [Nothing EXCEPT !.active = 0], [Nothing EXCEPT !.active = 1]}
=============================================================================
