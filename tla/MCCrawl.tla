------------------------------- MODULE MCCrawl -------------------------------
(* An instance of Crawl for TLC: a site on two origins, one of them without   *)
(* HTTPS, and another site.                                                   *)
EXTENDS Crawl, TLC

CONSTANTS root, page, map, plain, other

Hosts == root :> "https" @@ page :> "https" @@ map :> "https" @@ plain :> "http" @@ other :> "other"
Lists == {<<>>, <<page>>, <<plain, page>>, <<page, map>>, <<other, root, plain>>, <<None, page>>}
OneSeed == <<page>>
Map == <<map>>
Ceilings == {[pages |-> 2, depth |-> 2, requests |-> 4], [pages |-> 3, depth |-> 1, requests |-> 4],
             [pages |-> 3, depth |-> 0, requests |-> 3], [pages |-> 4, depth |-> 2, requests |-> 5]}
=============================================================================
