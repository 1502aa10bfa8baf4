-------------------------- MODULE MCRecommendation --------------------------
(* Three contents with two attributes, pages of one content, at most two   *)
(* candidates fetched, one profile counted, the latest event looked at.    *)
EXTENDS Recommendation

CONSTANTS origin, roast

MCAttribute == {origin, roast}
MCAttrs == <<{origin}, {roast}, {origin, roast}>>
============================================================================
