---------------------------- MODULE MCScanCommand ----------------------------
(* Instances of ScanCommand: two commands over two targets, of any kind and   *)
(* then a baseline scan, with whatever became of the first still queued.  Two  *)
(* of the addresses belong to one host, and two targets may share an address.  *)
EXTENDS ScanCommand

CONSTANTS leak, login, review, home, page, other

OneHost == [u \in Urls |-> IF u = page THEN home ELSE u]

Seen(s, f, p) == [status |-> s, complete |-> s = "SUCCESS", findings |-> f, plain |-> p]
SomeOutcomes ==
  {Seen("PARTIAL", {}, TRUE), Seen("SUCCESS", {}, TRUE), Seen("SUCCESS", {leak}, TRUE),
   Seen("SUCCESS", {leak}, FALSE)}
SomeSights == {Lost, [Seen("SUCCESS", {login}, FALSE) EXCEPT !.complete = FALSE]}

Basic == [security |-> TRUE, visual |-> FALSE, extended |-> FALSE, review |-> FALSE, store |-> FALSE,
          push |-> TRUE, defer |-> FALSE, approved |-> TRUE, gate |-> FALSE, json |-> FALSE,
          own |-> {"security", "extended", "visual"}, at |-> <<home, page>>]
Deferred == [Basic EXCEPT !.defer = TRUE, !.store = TRUE]
Reports == [Basic EXCEPT !.extended = TRUE, !.review = TRUE, !.gate = TRUE, !.json = TRUE,
                         !.at = <<home, home>>]
Everywhere == [Basic EXCEPT !.visual = TRUE, !.gate = TRUE, !.at = <<home, other>>]
Pictures == [Basic EXCEPT !.security = FALSE, !.visual = TRUE, !.own = {}, !.at = <<home, other>>]
SomePlans == <<{Deferred, Reports, Everywhere, Pictures},
               {Basic, [Basic EXCEPT !.own = {}, !.at = <<home, home>>],
                [Basic EXCEPT !.approved = FALSE]}>>
=============================================================================
