------------------------------- MODULE SoftRadio -------------------------------
(* soft_radio.py: the tickets, the browsers' queues and the media connection.       *)
(* A ticket is its number, a frame the number of the frame; the framing of the      *)
(* WebSocket and the HTTP upgrade are left out.                                     *)
EXTENDS RemoteAdmin

CONSTANTS
    Threads,        \* threads of the web server
    Connections,    \* connections Asterisk makes to the broker
    TicketSeconds,  \* ticket_seconds
    MaxTickets,     \* the capacity of 256 in issue_ticket
    Buffer,         \* buffer_frames
    MaxFrames       \* bound of the model: the frames received

ASSUME SoftRadioAssumption ==
    {TicketSeconds, MaxTickets, Buffer} \subseteq Nat \ {0} /\ MaxFrames \in Nat

VARIABLES
    radio,      \* soft-radio.json is valid and enabled
    tickets,    \* the tickets by number: session and expiry
    streams,    \* clients: the BrowserClient of a thread, by thread
    media,      \* _handle_asterisk, by connection
    shown,      \* media_connected
    aired,      \* frames received so far
    issued      \* history: of every ticket, its session and the streams it admitted

radioVars == <<radio, tickets, streams, media, shown, aired, issued>>

NewStream(token) ==
    [session |-> token, due |-> TRUE, shut |-> FALSE, queue |-> << >>, sending |-> << >>,
     dropped |-> 0, from |-> aired, got |-> << >>]

-------------------------------------------------------------------------------
(* Tickets.                                                                         *)
FreshTickets == Restrict(tickets, {k \in DOMAIN tickets : tickets[k].expires > now})

\* issue_ticket
Issue(token) ==
    IF radio /\ Cardinality(DOMAIN FreshTickets) < MaxTickets
    THEN /\ tickets' = With(FreshTickets, Len(issued) + 1,
                            [session |-> token, expires |-> now + TicketSeconds])
         /\ issued' = Append(issued, [session |-> token, uses |-> 0])
    ELSE /\ tickets' = IF radio THEN FreshTickets ELSE tickets
         /\ UNCHANGED issued

\* Mutant: the ticket is looked up and not taken out.
LookUp(k) == tickets' = FreshTickets

\* consume_ticket: taken out whoever presents it, and valid only for its session.
Take(k) == tickets' = Forget(FreshTickets, k)
Matches(k, token) == k \in DOMAIN FreshTickets /\ tickets[k].session = token

\* disconnect_session
Disconnect(token) ==
    /\ tickets' = Restrict(tickets, {k \in DOMAIN tickets : tickets[k].session # token})
    /\ streams' = [t \in DOMAIN streams |->
           [streams[t] EXCEPT !.shut = @ \/ streams[t].session = token]]

-------------------------------------------------------------------------------
(* The browser's queue.                                                             *)

\* enqueue
Enqueued(stream, frame) ==
    IF Len(stream.queue) = Buffer
    THEN [stream EXCEPT !.queue = Append(Tail(@), frame), !.dropped = @ + 1]
    ELSE [stream EXCEPT !.queue = Append(@, frame)]

\* broadcast: every client takes the frame under its own lock; one that registers or
\* ends meanwhile is as one that did before or after it.
Broadcast(c) ==
    /\ media[c] = "playing" /\ aired < MaxFrames
    /\ aired' = aired + 1
    /\ streams' = [t \in DOMAIN streams |-> Enqueued(streams[t], aired + 1)]
    /\ UNCHANGED <<radio, tickets, media, shown, issued>>

\* drain: the frames are taken out under the queue's lock and sent after it.
Drain(t) ==
    /\ t \in DOMAIN streams /\ ~streams[t].due
    /\ streams[t].sending = << >> /\ streams[t].queue # << >>
    /\ streams' = [streams EXCEPT ![t].sending = streams[t].queue, ![t].queue = << >>]
    /\ UNCHANGED <<radio, tickets, media, shown, aired, issued>>

\* Mutant: what was queued while the frames were being sent is cleared with them.
SendAndClear(t) ==
    /\ t \in DOMAIN streams /\ streams[t].sending # << >> /\ ~streams[t].shut
    /\ streams' = [streams EXCEPT ![t].got = @ \o streams[t].sending,
                                  ![t].sending = << >>, ![t].queue = << >>]
    /\ UNCHANGED <<radio, tickets, media, shown, aired, issued>>

Send(t) ==
    /\ t \in DOMAIN streams /\ streams[t].sending # << >> /\ ~streams[t].shut
    /\ streams' = [streams EXCEPT ![t].got = @ \o streams[t].sending, ![t].sending = << >>]
    /\ UNCHANGED <<radio, tickets, media, shown, aired, issued>>

-------------------------------------------------------------------------------
(* _handle_asterisk: a connection of Asterisk is accepted and announces its media;   *)
(* whatever ends it, a refusal of its request too, clears the flag.                  *)
MediaStart(c) ==
    /\ media[c] = "closed" /\ radio
    /\ media' = [media EXCEPT ![c] = "playing"]
    /\ shown' = TRUE
    /\ UNCHANGED <<radio, tickets, streams, aired, issued>>
MediaEnd(c) ==
    /\ media' = [media EXCEPT ![c] = "closed"]
    /\ shown' = FALSE
    /\ UNCHANGED <<radio, tickets, streams, aired, issued>>
===============================================================================
