------------------------------ MODULE MCBrowser ------------------------------
(* An instance of Browser for TLC: a site on two origins, one without HTTPS,  *)
(* and another site.                                                          *)
EXTENDS Browser, TLC

CONSTANTS root, page1, page2, plain, other

Hosts == root :> "https" @@ page1 :> "https" @@ page2 :> "https" @@ plain :> "http" @@ other :> "other"
Lists == {<<>>, <<page1, page2>>, <<page2, None>>, <<plain, other>>}
Choice(m, p, d, r, a, n) ==
  [mode |-> m, pages |-> p, depth |-> d, requests |-> r, asks |-> a, moves |-> n]
Choices == {Choice("discovery", 4, 2, 1, 1, 0), Choice("discovery", 3, 1, 1, 1, 1),
            Choice("discovery", 2, 1, 2, 2, 1),
            Choice("analysis", 1, 0, 2, 3, 2), Choice("capture", 1, 0, 2, 2, 1)}
=============================================================================
