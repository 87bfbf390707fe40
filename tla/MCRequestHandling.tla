------------------------- MODULE MCRequestHandling -------------------------
(* RequestHandling for TLC: two requests, each of any of eight kinds.       *)
EXTENDS RequestHandling

CONSTANTS r1, r2

MCRequests == {r1, r2}

Post(body, json, id) == [to |-> "search", body |-> body, json |-> json, id |-> id]
MCSent ==
  {[to |-> "health", body |-> "empty", json |-> FALSE, id |-> TRUE],
   [to |-> "preflight", body |-> "empty", json |-> FALSE, id |-> FALSE]}
    \cup {Post("valid", TRUE, TRUE), Post("valid", FALSE, FALSE),
          Post("empty", TRUE, FALSE), Post("invalid", TRUE, TRUE),
          Post("unreadable", TRUE, TRUE), Post("unreadable", FALSE, FALSE)}
=============================================================================
