----------------------------- MODULE MCReleases -----------------------------
(* Releases for TLC: which project each release belongs to. *)
EXTENDS Releases

ThreeOfOne == <<"a", "a", "a">>
=============================================================================
