------------------------------ MODULE MCIsland ------------------------------
(***************************************************************************)
(* Small instances of Island for TLC.  Names are interchangeable: nothing  *)
(* but their equality matters.                                             *)
(***************************************************************************)
EXTENDS Island

NameSymmetry == Permutations(Names)

\* Histories of one phenotype "a" at the lengths where the remedies change, but
\* for a few entries, which are `ago' entries before the newest one: the last of
\* these is the first one behind the window.  The newest scores have risen, by
\* Epsilon or by less.
MCHistories ==
  {[k \in 1..n |->
      [fitness |-> IF n - k < since THEN rise ELSE 0,
       print |-> IF n - k \notin ago THEN "a" ELSE IF alike \/ n - k = 1 THEN "b" ELSE "c"]] :
     n \in {Window - 1, Window, 2 * Window + 1, 2 * Window + 2},
     since \in {1, Window, 2 * Window + 1}, rise \in {Epsilon - 1, Epsilon},
     ago \in SUBSET {0, 1, 2, Window - 1, Window}, alike \in BOOLEAN}
=============================================================================
