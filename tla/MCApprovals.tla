---------------------------- MODULE MCApprovals ----------------------------
(***************************************************************************)
(* Approvals with two releases that have destinations of their own and     *)
(* drafts that show the deployment's facts, or that edit the link and hide *)
(* the projects section.                                                   *)
(***************************************************************************)
EXTENDS Approvals

MCDemoUrl == [r \in Release |-> IF r = "r1" THEN "u1" ELSE "u2"]

Shown == [section |-> TRUE, shown |-> TRUE, text |-> "t1",
          link |-> [url |-> "u1", label |-> 1],
          shows |-> StatusField]

MCBody == {Shown,
           [Shown EXCEPT !.section = FALSE, !.link.label = 2, !.shows = {"demo_readiness"}]}
=============================================================================
