----------------------------- MODULE MCServers -----------------------------
EXTENDS Servers

\* The requests of two users, good and bad.
Asks(auth, target, body, close) ==
  [auth |-> auth, malformed |-> FALSE, target |-> target, body |-> body, close |-> close]
TwoUsers ==
  { Asks("u", "call", TRUE, FALSE), Asks("v", "call", TRUE, TRUE), Asks(None, "call", TRUE, FALSE),
    Asks(Bad, "call", FALSE, FALSE), Asks("u", "longpoll", FALSE, FALSE), Asks(None, "nowhere", FALSE, FALSE),
    [Asks("u", "call", FALSE, FALSE) EXCEPT !.malformed = TRUE] }
=============================================================================
