------------------------------ MODULE NodeControls -----------------------------
(* node_controls.py: connect, disconnect and switch, one at a time, each verified   *)
(* from App_Rpt's own state, while commands take effect late and other stations     *)
(* connect and leave as they please.  A second request meanwhile is answered 409     *)
(* and changes nothing; DoDropIn is a connect or disconnect of one node.             *)
EXTENDS Integers, Sequences, FiniteSets, TLC

CONSTANTS
    Nodes,      \* the remote nodes
    Threads,    \* threads of the web server
    None,       \* no thread, and no node
    MaxComing,  \* bound of the model: a request begins only while fewer commands than these
                \* are on their way
    MaxRemote   \* bound of the model: the changes made by other stations

ASSUME NodeControlsAssumption == None \notin Threads \cup Nodes /\ {MaxComing, MaxRemote} \subseteq Nat

VARIABLES
    links,    \* the links of App_Rpt: none, C (connecting) or T
    coming,   \* the commands Asterisk has taken and not yet carried out
    lock,     \* the thread that holds _LOCK
    request,  \* what that thread is doing
    remote,   \* the changes made by other stations
    seen,     \* history: what of the request's aim has been so since it began
    sent      \* history: the commands sent since the lock was taken, each with the state of
              \* its link in the observation it was sent upon

vars == <<links, coming, lock, request, remote, seen, sent>>

Modes == {"none", "C", "T"}
AllLinks == [Nodes -> Modes]
Commands == {"connect", "disconnect"} \X Nodes
Sent == {"connect", "disconnect"} \X Nodes \X (Modes \cup {"unknown"})
Steps == {"choose", "before", "send", "verify", "final", "reply"}
Outcomes == {"unavailable", "choose", "already", "verified", "failed", "timeout", "unverified", "complete"}

\* What is asked: action and node of the phase at hand; a switch has two phases,
\* disconnect from, then connect to.  initial is the node's link before the command.
Work == [at : Steps, action : {"connect", "disconnect"}, node : Nodes,
         from : Nodes \cup {None}, to : Nodes, initial : Modes \cup {"unknown"},
         late : BOOLEAN, outcome : Outcomes]
Phase(action, node, from, to) ==
    [at |-> "before", action |-> action, node |-> node, from |-> from, to |-> to,
     initial |-> "unknown", late |-> FALSE, outcome |-> "unavailable"]
Connect(n) == Phase("connect", n, None, n)
Disconnect(n) == Phase("disconnect", n, None, n)

Switch(from, to) == Phase("disconnect", from, from, to)
Nothing == [at |-> "free"]

\* The parts of a request's aim that the links l show.
Aim(r, l) ==
    LET left == IF r.from = None THEN r.node ELSE r.from
    IN  {fact \in {"up", "gone", "switched"} :
            \/ fact = "up" /\ l[r.to] = "T"
            \/ fact = "gone" /\ l[left] = "none"
            \/ fact = "switched" /\ r.from # None /\ l[left] = "none" /\ l[r.to] = "T"}

TypeOK ==
    /\ links \in AllLinks /\ coming \subseteq Commands /\ lock \in Threads \cup {None}
    /\ request \in Work \cup {Nothing} /\ remote \in 0..MaxRemote
    /\ seen \subseteq {"up", "gone", "switched"} /\ sent \in Seq(Sent)

Init ==
    /\ links \in [Nodes -> {"none", "T"}] /\ coming = {} /\ lock = None
    /\ request = Nothing /\ remote = 0 /\ seen = {} /\ sent = << >>

At(t, step) == lock = t /\ request.at = step
Goto(step) == request' = [request EXCEPT !.at = step]
Reply(outcome) == request' = [request EXCEPT !.at = "reply", !.outcome = outcome]

\* node_evidence: the links as they are, or none that are available and fresh.
Unavailable == [n \in Nodes |-> "unknown"]
Evidence == {links, Unavailable}
Peers(e) == {n \in Nodes : e[n] \in {"C", "T"}}

\* observed: the phase has its result.
Reached(e) == e[request.node] = IF request.action = "connect" THEN "T" ELSE "none"

-------------------------------------------------------------------------------
\* perform: the lock is taken, or the request refused.
Begin(t) ==
    /\ lock = None /\ lock' = t /\ Cardinality(coming) < MaxComing
    /\ \E n \in Nodes :
         \/ request' = Connect(n)
         \/ request' = Disconnect(n)
         \/ \E m \in Nodes \ {n} : request' = Switch(m, n)
         \/ request' = [Connect(n) EXCEPT !.at = "choose"]
    /\ seen' = Aim(request', links) /\ sent' = << >>
    /\ UNCHANGED <<links, coming, remote>>

\* connect_replacing_current: the only peer is the one to leave.
Choose(t) ==
    /\ At(t, "choose")
    /\ \E e \in Evidence :
         \/ e = Unavailable /\ Reply("unavailable")
         \/ e # Unavailable /\ (request.to \in Peers(e) \/ Peers(e) = {}) /\ Goto("before")
         \/ /\ e # Unavailable /\ request.to \notin Peers(e)
            /\ \E m \in Peers(e) :
                 IF Peers(e) = {m} THEN request' = Switch(m, request.to) ELSE Reply("choose")
    /\ seen' = Aim(request', links)
    /\ UNCHANGED <<links, coming, lock, remote, sent>>

\* A phase has succeeded: the next one of a switch, or the reply.
Succeed(outcome) ==
    CASE request.from = None -> Reply(outcome)
      [] request.from # None /\ request.action = "disconnect" ->
             request' = Phase("connect", request.to, request.from, request.to)
      [] request.from # None /\ request.action = "connect" -> Goto("final")

\* Mutant: a connection that is being made is commanded again.
BeforeResending(t) ==
    /\ At(t, "before")
    /\ \E e \in Evidence :
         CASE e = Unavailable -> Reply("unavailable")
           [] e # Unavailable /\ Reached(e) -> Succeed("already")
           [] e # Unavailable /\ ~Reached(e) ->
                  request' = [request EXCEPT !.at = "send", !.initial = e[request.node]]
    /\ UNCHANGED <<links, coming, lock, remote, seen, sent>>

\* The observation before the command: none is sent without one, for what is so
\* already, or for a connection that is being made.
Before(t) ==
    /\ At(t, "before")
    /\ \E e \in Evidence :
         LET pending == request.action = "connect" /\ e[request.node] = "C"
         IN  CASE e = Unavailable -> Reply("unavailable")
               [] e # Unavailable /\ Reached(e) -> Succeed("already")
               [] e # Unavailable /\ ~Reached(e) ->
                      request' = [request EXCEPT !.at = IF pending THEN "verify" ELSE "send",
                                                 !.initial = e[request.node]]
    /\ UNCHANGED <<links, coming, lock, remote, seen, sent>>

\* The command: taken by Asterisk and to be verified, timed out, which it may have
\* been taken before, or rejected or not executed.
Send(t) ==
    /\ At(t, "send")
    /\ LET command == <<request.action, request.node>>
       IN  /\ sent' = Append(sent, <<request.action, request.node, request.initial>>)
           /\ \/ coming' = coming \cup {command} /\ Goto("verify")
              \/ coming' \in {coming, coming \cup {command}} /\ Reply("timeout")
              \/ UNCHANGED coming /\ Reply("failed")
    /\ UNCHANGED <<links, lock, remote, seen>>

\* Mutant: without an observation the verification begins again.
VerifyAvailable(t) ==
    /\ At(t, "verify")
    /\ \E e \in Evidence :
         IF Reached(e) THEN Succeed("verified")
         ELSE IF request.late /\ e # Unavailable THEN Reply("unverified")
         ELSE request' = [request EXCEPT !.late = FALSE]
    /\ UNCHANGED <<links, coming, lock, remote, seen, sent>>

\* The verification: observed at least once, and until the deadline.
Verify(t) ==
    /\ At(t, "verify")
    /\ \E e \in Evidence :
         \/ Reached(e) /\ Succeed("verified")
         \/ ~Reached(e) /\ request.late /\ Reply("unverified")
         \/ ~Reached(e) /\ ~request.late /\ UNCHANGED request
    /\ UNCHANGED <<links, coming, lock, remote, seen, sent>>
Deadline(t) ==
    /\ At(t, "verify") /\ ~request.late
    /\ request' = [request EXCEPT !.late = TRUE]
    /\ UNCHANGED <<links, coming, lock, remote, seen, sent>>

\* Mutant: the result of the two phases is taken for that of the switch.
FinalUnseen(t) ==
    /\ At(t, "final") /\ Reply("complete")
    /\ UNCHANGED <<links, coming, lock, remote, seen, sent>>

\* The last observation of a switch: both nodes at once.
Final(t) ==
    /\ At(t, "final")
    /\ \E e \in Evidence :
         Reply(IF e[request.from] = "none" /\ e[request.to] = "T" THEN "complete" ELSE "unverified")
    /\ UNCHANGED <<links, coming, lock, remote, seen, sent>>

Release(t) ==
    /\ At(t, "reply") /\ lock' = None /\ request' = Nothing
    /\ seen' = {} /\ sent' = << >>
    /\ UNCHANGED <<links, coming, remote>>

-------------------------------------------------------------------------------
(* App_Rpt and the other stations.                                                  *)
Now(l) ==
    /\ links' = l
    /\ seen' = IF lock = None THEN {} ELSE seen \cup Aim(request, l)
    /\ UNCHANGED <<lock, request, sent>>

\* A command takes effect, in any order.
Effect ==
    /\ \E c \in coming :
         /\ coming' = coming \ {c}
         /\ Now([links EXCEPT ![c[2]] =
                IF c[1] = "disconnect" THEN "none" ELSE IF @ = "none" THEN "C" ELSE @])
    /\ UNCHANGED remote

\* A connection is made, or fails.
Transport ==
    /\ \E n \in Nodes, mode \in {"T", "none"} : links[n] = "C" /\ Now([links EXCEPT ![n] = mode])
    /\ UNCHANGED <<coming, remote>>

\* Another station connects or leaves.
Remote ==
    /\ remote < MaxRemote /\ remote' = remote + 1
    /\ \E n \in Nodes : links[n] # "C" /\ Now([links EXCEPT ![n] = IF @ = "T" THEN "none" ELSE "T"])
    /\ UNCHANGED coming

Serve(t) == Choose(t) \/ Before(t) \/ Send(t) \/ Verify(t) \/ Final(t) \/ Release(t)
Next ==
    \/ \E t \in Threads : Begin(t) \/ Serve(t) \/ Deadline(t)
    \/ Effect \/ Transport \/ Remote

Spec == Init /\ [][Next]_vars

(* The thread runs, and ten seconds pass.                                           *)
Fairness == \A t \in Threads : WF_vars(Serve(t)) /\ WF_vars(Deadline(t))
FairSpec == Spec /\ Fairness

-------------------------------------------------------------------------------
(* Properties.                                                                      *)

\* A success that is reported was so at some moment of the request, in App_Rpt itself:
\* the node linked or gone, and for a switch both at the same moment, however late other
\* commands took effect and whatever other stations did.
RepliesAreTrue ==
    At(lock, "reply") =>
        CASE request.outcome = "complete" -> "switched" \in seen
          [] request.outcome \in {"already", "verified"} ->
                 (IF request.action = "connect" THEN "up" ELSE "gone") \in seen
          [] OTHER -> TRUE

\* A command for the node that the observation before it shows to be needed: to
\* connect one that is neither linked nor being connected, to disconnect one that is.
Warranted(action, node) ==
    {<<action, node, shown>> : shown \in IF action = "connect" THEN {"none"} ELSE {"C", "T"}}

AtMostOne(commands) == {<< >>} \cup {<<c>> : c \in commands}
InTurn(first, second) ==
    AtMostOne(first) \cup AtMostOne(second) \cup {<<c, d>> : c \in first, d \in second}

\* A connect or disconnect sends its own command once or not at all; a switch at most
\* one to leave the node it leaves and then at most one to connect the other, once the
\* first has been gone.  Each is sent upon an observation that shows it is needed, so
\* never for a link that is pending already; a request that is answered with what is
\* so already, without evidence, or with a choice has sent none.
CommandsAreWarranted ==
    lock # None =>
        IF request.from = None
        THEN /\ sent \in AtMostOne(Warranted(request.action, request.node))
             /\ request.outcome \in {"already", "choose"} => sent = << >>
             /\ request.at = "reply" /\ request.outcome = "unavailable" => sent = << >>
        ELSE /\ sent \in InTurn(Warranted("disconnect", request.from),
                               Warranted("connect", request.to))
             /\ (\E i \in DOMAIN sent : sent[i][1] = "connect") => "gone" \in seen

\* The lock is always released, whatever App_Rpt answers, so that controls never stay
\* refused.
LockIsReleased == \A t \in Threads : lock = t ~> lock # t
===============================================================================
