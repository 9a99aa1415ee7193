------------------------------- MODULE AdminRadio ------------------------------
(* The handlers of web_server.py that log in and out, issue tickets and serve the   *)
(* Soft Radio, each a thread that holds no lock between two calls, with the clock,   *)
(* the operator's changes to the files in /etc/bluenode, and Asterisk's media.       *)
EXTENDS SoftRadio

CONSTANTS
    MaxClock,    \* bound of the model: the last second of the clock
    MaxLogins,   \* bound of the model: the sessions made
    MaxIssued,   \* bound of the model: the tickets issued
    MaxChanges,  \* bound of the model: the changes to the files
    Written      \* bound of the model: the settings the operator writes

ASSUME AdminRadioAssumption ==
    /\ Written \subseteq AllSettings
    /\ {MaxClock, MaxLogins, MaxIssued, MaxChanges} \subseteq Nat

VARIABLES
    request,   \* what each thread is doing: step, cookie, policy read, arguments
    made,      \* the number of sessions made: the last token
    admitted,  \* history: when the attempts since the client's last success were let in
    changes

adminVars == <<now, settings, sessions, attempts>>
vars == <<adminVars, radioVars, request, made, admitted, changes>>

Tokens == 1..made
Idle == [at |-> "idle"]
Policies == [state : {"ENABLED", "DISABLED", "CONFIG_ERROR"}, listen : BOOLEAN]

\* One type invariant for the three modules, with the limits of their tables.
TypeOK ==
    /\ now \in 0..MaxClock /\ settings \in AllSettings /\ made \in 0..MaxLogins
    /\ DOMAIN sessions \subseteq Tokens
    /\ \A t \in DOMAIN sessions :
         sessions[t] \in [expires : 1..(MaxClock + SessionSeconds), policy : Policies]
    /\ Cardinality(DOMAIN sessions) <= MaxSessions
    /\ \A c \in Clients : Len(attempts[c]) <= MaxAttempts
    /\ Cardinality({c \in Clients : attempts[c] # << >>}) <= MaxLoginClients
    /\ DOMAIN tickets \subseteq DOMAIN issued /\ Cardinality(DOMAIN tickets) <= MaxTickets
    /\ \A t \in DOMAIN streams : request[t].at = "serving" /\ Len(streams[t].queue) <= Buffer

Init ==
    /\ now = 0 /\ settings \in Written /\ sessions = << >>
    /\ attempts = [c \in Clients |-> << >>]
    /\ radio = TRUE /\ tickets = << >> /\ streams = << >> /\ issued = << >>
    /\ media = [c \in Connections |-> "closed"] /\ shown = FALSE /\ aired = 0
    /\ request = [t \in Threads |-> Idle] /\ made = 0
    /\ admitted = [c \in Clients |-> << >>] /\ changes = 0

At(t, step) == request[t].at = step
Goto(t, r) == request' = [request EXCEPT ![t] = r]
Step(t, step) == Goto(t, [request[t] EXCEPT !.at = step])
Done(t) == Goto(t, Idle)

-------------------------------------------------------------------------------
(* POST /api/admin/login, from a browser that may hold the cookie of a session.     *)
(* The time it reserves at, began, was read before it took the lock of the attempts. *)
Login(t) ==
    /\ At(t, "idle") /\ made < MaxLogins
    /\ \E c \in Clients, cookie \in 0..made, began \in 0..now :
         IF Enabled(Policy) /\ MayAttempt(c, began)
         THEN /\ Goto(t, [at |-> "verify", client |-> c, cookie |-> cookie, policy |-> Policy, began |-> began])
              /\ attempts' = Reserved(c, began)
              /\ admitted' = [admitted EXCEPT ![c] = Append(@, began)]
              /\ UNCHANGED sessions
         ELSE /\ attempts' = IF Enabled(Policy) THEN Reserved(c, began) ELSE attempts
              /\ sessions' = IF Policy.state = "CONFIG_ERROR" THEN << >> ELSE sessions
              /\ UNCHANGED <<request, admitted>>
    /\ UNCHANGED <<now, settings, radioVars, made, changes>>

\* The password is wrong.
Reject(t) ==
    /\ At(t, "verify") /\ Done(t)
    /\ UNCHANGED <<adminVars, radioVars, made, admitted, changes>>

\* The password is right: the attempts are forgotten and the session is made.
Commit(t) ==
    /\ At(t, "verify") /\ made < MaxLogins
    /\ LET r == request[t]
       IN  /\ attempts' = [attempts EXCEPT ![r.client] = << >>]
           /\ admitted' = [admitted EXCEPT ![r.client] = << >>]
           /\ sessions' = WithSession(made + 1, r.began, r.policy)
           /\ IF HasRoom THEN made' = made + 1 /\ Goto(t, [at |-> "reply", cookie |-> r.cookie, token |-> made + 1])
                         ELSE Done(t) /\ UNCHANGED made
    /\ UNCHANGED <<now, settings, radioVars, changes>>

\* The reply reads the session again: without it the handler raises.  Otherwise the
\* browser's old session is logged out, its tickets and streams are left alone.
Reply(t) ==
    /\ At(t, "reply") /\ Done(t)
    /\ sessions' = IF request[t].token \in DOMAIN sessions THEN Forget(sessions, request[t].cookie) ELSE sessions
    /\ UNCHANGED <<now, settings, attempts, radioVars, made, admitted, changes>>

-------------------------------------------------------------------------------
(* The requests that need a session: logout, ticket and stream.  require_admin and  *)
(* the first check of the WebSocket authenticate; has_permission then reads the      *)
(* policy again.                                                                     *)
Request(t) ==
    /\ At(t, "idle")
    /\ \E cookie \in Tokens, next \in {"disconnect", "permit ticket", "permit stream"} :
         /\ sessions' = Authenticated(cookie, Policy)
         /\ IF Authentic(cookie, Policy) THEN Goto(t, [at |-> next, cookie |-> cookie])
                                         ELSE UNCHANGED request
    /\ UNCHANGED <<now, settings, attempts, radioVars, made, admitted, changes>>

Permit(t, asked, what) ==
    /\ At(t, asked)
    /\ sessions' = Authenticated(request[t].cookie, Policy)
    /\ IF Permitted(request[t].cookie) THEN Step(t, what) ELSE Done(t)
    /\ UNCHANGED <<now, settings, attempts, radioVars, made, admitted, changes>>

\* POST /api/admin/logout: the streams are shut down first, then the session ends.
LogoutStreams(t) ==
    /\ At(t, "disconnect") /\ Step(t, "logout")
    /\ Disconnect(request[t].cookie)
    /\ UNCHANGED <<adminVars, radio, media, shown, aired, issued, made, admitted, changes>>
Logout(t) ==
    /\ At(t, "logout") /\ Done(t)
    /\ sessions' = Forget(sessions, request[t].cookie)
    /\ UNCHANGED <<now, settings, attempts, radioVars, made, admitted, changes>>

\* POST /api/soft-radio/ticket
Ticket(t) ==
    /\ At(t, "ticket") /\ Len(issued) < MaxIssued /\ Done(t)
    /\ Issue(request[t].cookie)
    /\ UNCHANGED <<adminVars, radio, streams, media, shown, aired, made, admitted, changes>>

\* The WebSocket presents a ticket.
Present(t) ==
    /\ At(t, "stream")
    /\ \E k \in DOMAIN issued :
         /\ Take(k)
         /\ IF Matches(k, request[t].cookie)
            THEN /\ Step(t, "register")
                 /\ issued' = [issued EXCEPT ![k].uses = @ + 1]
            ELSE Done(t) /\ UNCHANGED issued
    /\ UNCHANGED <<adminVars, radio, streams, media, shown, aired, made, admitted, changes>>

-------------------------------------------------------------------------------
(* serve_browser                                                                    *)
Register(t) ==
    /\ At(t, "register") /\ Step(t, "serving")
    /\ streams' = With(streams, t, NewStream(request[t].cookie))
    /\ UNCHANGED <<adminVars, radio, tickets, media, shown, aired, issued, made, admitted, changes>>

\* The client is discarded with what it has not sent.
End(t) == Done(t) /\ streams' = Forget(streams, t)

\* Mutant: the permission is checked, the session is not.
CheckPermission(t) ==
    /\ t \in DOMAIN streams /\ streams[t].due /\ streams[t].sending = << >>
    /\ IF radio /\ Policy.listen THEN streams' = [streams EXCEPT ![t].due = FALSE] /\ UNCHANGED request
                                 ELSE End(t)
    /\ UNCHANGED <<adminVars, radio, tickets, media, shown, aired, issued, made, admitted, changes>>

\* The check of the session, at once and then every second.
Check(t) ==
    /\ t \in DOMAIN streams /\ streams[t].due /\ streams[t].sending = << >>
    /\ LET token == streams[t].session
       IN  /\ sessions' = IF radio THEN Authenticated(token, Policy) ELSE sessions
           /\ IF radio /\ Permitted(token)
              THEN streams' = [streams EXCEPT ![t].due = FALSE] /\ UNCHANGED request
              ELSE End(t)
    /\ UNCHANGED <<now, settings, attempts, radio, tickets, media, shown, aired, issued, made, admitted, changes>>

\* The browser closes or sends what is refused, or the socket fails: always once
\* disconnect_session has shut it down.
Hangup(t) ==
    /\ t \in DOMAIN streams /\ (streams[t].due => streams[t].sending # << >>)
    /\ End(t)
    /\ UNCHANGED <<adminVars, radio, tickets, media, shown, aired, issued, made, admitted, changes>>

\* A second of the monotonic clock.
Elapse(t) ==
    /\ t \in DOMAIN streams /\ ~streams[t].due
    /\ streams' = [streams EXCEPT ![t].due = TRUE]
    /\ UNCHANGED <<adminVars, radio, tickets, media, shown, aired, issued, request, made, admitted, changes>>

Keeping(action) == action /\ UNCHANGED <<adminVars, request, made, admitted, changes>>

-------------------------------------------------------------------------------
Tick ==
    /\ now < MaxClock /\ now' = now + 1
    /\ UNCHANGED <<settings, sessions, attempts, radioVars, request, made, admitted, changes>>

\* The operator changes the administration's files or those of the Soft Radio.
Configure ==
    /\ changes < MaxChanges /\ changes' = changes + 1
    /\ \/ settings' \in Written \ {settings} /\ UNCHANGED radio
       \/ radio' = ~radio /\ UNCHANGED settings
    /\ UNCHANGED <<now, sessions, attempts, tickets, streams, media, shown, aired, issued, request, made, admitted>>

\* What the loop of a stream does next of itself: send, check, or end on a socket
\* that was shut down.
Loop(t) ==
    \/ Keeping(Send(t))
    \/ Check(t)
    \/ t \in DOMAIN streams /\ streams[t].shut /\ Hangup(t)

Next ==
    \/ Tick \/ Configure
    \/ \E t \in Threads :
         \/ Login(t) \/ Reject(t) \/ Commit(t) \/ Reply(t)
         \/ Request(t) \/ Permit(t, "permit ticket", "ticket") \/ Permit(t, "permit stream", "stream")
         \/ LogoutStreams(t) \/ Logout(t) \/ Ticket(t) \/ Present(t)
         \/ Register(t) \/ Keeping(Drain(t)) \/ Loop(t) \/ Elapse(t) \/ Hangup(t)
    \/ \E c \in Connections :
         Keeping(MediaStart(c)) \/ Keeping(MediaEnd(c)) \/ Keeping(Broadcast(c))

Spec == Init /\ [][Next]_vars

(* The server's threads run, and time goes on for a stream.                         *)
Fairness == \A t \in Threads : WF_vars(Loop(t)) /\ WF_vars(Elapse(t))
FairSpec == Spec /\ Fairness

-------------------------------------------------------------------------------
(* Properties.                                                                      *)

\* Since its last success a client has not had more passwords verified within the
\* window than the limit, however many logins are verified at once and whatever the
\* logins of others do to the table.
AttemptsLimited ==
    \A c \in Clients : Cardinality({i \in DOMAIN admitted[c] : admitted[c][i] > now - Window}) <= MaxAttempts

\* A ticket admits one stream, and a stream that is served was admitted by a ticket of
\* its own session, whichever threads present it at once.
TicketsAdmitOnce ==
    /\ \A k \in DOMAIN issued : issued[k].uses <= 1
    /\ \A token \in Tokens :
         Cardinality({t \in DOMAIN streams : streams[t].session = token})
           <= Cardinality({k \in DOMAIN issued : issued[k].session = token /\ issued[k].uses = 1})

\* No frame is lost without being counted, repeated or moved between broadcast, the
\* queue and the browser: what a stream got, is sending and has queued is in order,
\* and together with the dropped ones it is all that was received since it began.
FramesAreAccounted ==
    \A t \in DOMAIN streams :
        LET s == streams[t]
            held == s.got \o s.sending \o s.queue
        IN  /\ \A i, j \in DOMAIN held : i < j => held[i] < held[j]
            /\ Len(held) + s.dropped = aired - s.from

\* A stream whose session has ended (logged out, expired, replaced by a new login) or
\* whose policy is gone ends, also when logout came between the check of its ticket and
\* its registration: docs/SOFT_RADIO_RX.md, lines 39 to 41.
Stands(t) == t \in DOMAIN streams => radio /\ Permitted(streams[t].session)
ListeningEnds == \A t \in Threads : [](~Stands(t) => <>Stands(t))
===============================================================================
