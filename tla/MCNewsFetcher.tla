--------------------------- MODULE MCNewsFetcher ---------------------------
(* Instances of NewsFetcher for TLC. *)
EXTENDS NewsFetcher

CONSTANTS i1, i2, f1, f2

Entry(id, hot, warm) == [id |-> id, hot |-> hot, warm |-> warm]
MCWeight == f1 :> 1 @@ f2 :> 3
MCPages ==
    {<<Entry(i1, 1, 0)>>, <<Entry(i2, 2, 1)>>,
     <<Entry(NoLink, 1, 0), Entry(i1, 0, 1), Entry(i2, 1, 0)>>}
=============================================================================
