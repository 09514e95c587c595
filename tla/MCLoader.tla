------------------------------ MODULE MCLoader ------------------------------
(* Loader over two or three papers, one citing itself: batches and resets   *)
(* of a few rows, so that every loop runs more than once and ends short.    *)
EXTENDS Loader, TLC

CONSTANTS ta, tb

BoltAndArango == (ta :> "bolt") @@ (tb :> "arangodb")
OnlyFalkor == (ta :> "falkordb") @@ (tb :> "unset")
AllPlatforms == {BoltAndArango, OnlyFalkor}
JustFalkor == {OnlyFalkor}
WithSelfLoop == <<<<1, 2>>, <<2, 2>>>>
=============================================================================
