---------------------------- MODULE MCForumCrawl ----------------------------
(* Instances of ForumCrawl for TLC. *)
EXTENDS ForumCrawl, TLC

\* Two threads of one category, one with its tid in its address; a third to come.
First == ("old" :> 1) @@ ("slug" :> 2) @@ ("new" :> 3)
Where == ("old" :> "leaks") @@ ("slug" :> "leaks") @@ ("new" :> Nil)
Long == ("old" :> 2) @@ ("slug" :> 1) @@ ("new" :> 1)
=============================================================================
