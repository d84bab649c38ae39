----------------------------- MODULE MCBriefing -----------------------------
(***************************************************************************)
(* Small instances of Briefing for TLC: two feeds of different categories  *)
(* that share a story; one of them is longer than the cap and begins with  *)
(* a story without a link.                                                 *)
(***************************************************************************)
EXTENDS Briefing, TLC

CONSTANTS bbc, verge, world, tech, x, y, z

StoryX == [title |-> x, url |-> x]
StoryY == [title |-> y, url |-> NoUrl]
StoryZ == [title |-> z, url |-> z]

TwoFeeds == <<bbc, verge>>
TwoCategories == bbc :> world @@ verge :> tech
TwoAnswers ==
    bbc :> {<<StoryX>>, <<>>} @@ verge :> {<<StoryY, StoryX, StoryZ>>}

OneFeed == <<bbc>>
OneCategory == bbc :> world
OneFeeds == bbc :> {<<StoryX>>}
=============================================================================
