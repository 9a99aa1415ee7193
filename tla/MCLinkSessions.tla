---------------------------- MODULE MCLinkSessions ----------------------------
(* Two nodes and the answers of App_Rpt that tell the cases apart, for LinkSessions. *)
EXTENDS LinkSessions

CONSTANTS a, b

Up(keyed) == [mode |-> "T", keyed |-> keyed]
Answer(rx, links) ==
    [rx |-> rx, tx |-> FALSE, links |-> links, states |-> [n \in DOMAIN links |-> "ESTABLISHED"]]

Silent == Answer(FALSE, << >>)
OneLink == Answer(FALSE, a :> Up(FALSE))
OneKeyed == Answer(FALSE, a :> Up(TRUE))
TwoKeyed == Answer(FALSE, a :> Up(TRUE) @@ b :> Up(TRUE))
Speaking == Answer(TRUE, a :> Up(TRUE))
Connecting == [OneKeyed EXCEPT !.states = a :> "CONNECTING" @@ b :> "CONNECTING"]

MCNodes == {a, b}
MCHeard == {Silent, OneLink, OneKeyed, TwoKeyed, Speaking, Connecting}
===============================================================================
