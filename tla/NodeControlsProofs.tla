-------------------------- MODULE NodeControlsProofs --------------------------
(* What a request reports and what it commands, proved for every number of nodes   *)
(* and threads and however many commands are on their way.                         *)
EXTENDS NodeControls, SequenceTheorems, TLAPS

\* The node of the phase at hand.
Target(r) == IF r.from = None \/ r.action = "connect" THEN r.to ELSE r.from

\* What is known of a request in progress; the links' part of its aim has been seen.
RequestInv ==
    /\ lock = None <=> request = Nothing
    /\ request # Nothing =>
         /\ Aim(request, links) \subseteq seen
         /\ request.node = Target(request)
         /\ request.at = "final" => request.from # None
         /\ request.at # "reply" => request.outcome = "unavailable"
         /\ request.at = "choose" => request.from = None

\* A reply was seen to be true.
ReplyInv ==
    request # Nothing =>
        /\ request.outcome = "complete" => "switched" \in seen
        /\ request.outcome \in {"already", "verified"} =>
              (IF request.action = "connect" THEN "up" ELSE "gone") \in seen

\* The request is in its only phase, or in the first of a switch.
First(r) == r.from = None \/ r.action = "disconnect"

\* What may have been sent before the phase at hand, the command of the phase, and what
\* may have been sent by its end.
Earlier(r) == IF First(r) THEN {<< >>} ELSE AtMostOne(Warranted("disconnect", r.from))
Own(r) == Warranted(r.action, r.node)
InAll(r) == IF First(r) THEN AtMostOne(Own(r))
            ELSE InTurn(Warranted("disconnect", r.from), Own(r))

\* The commands of a request in progress.
SentInv ==
    /\ request = Nothing => sent = << >>
    /\ request # Nothing =>
         /\ sent \in InAll(request)
         /\ request.at \in {"choose", "before", "send"} => sent \in Earlier(request)
         /\ request.at = "send" =>
              <<request.action, request.node, request.initial>> \in Own(request)
         /\ request.from = None /\ request.outcome \in {"already", "choose"} => sent = << >>
         /\ request.from = None /\ request.at = "reply" /\ request.outcome = "unavailable" =>
              sent = << >>
         /\ ~First(request) => "gone" \in seen

IInv == TypeOK /\ RequestInv /\ ReplyInv /\ SentInv

-------------------------------------------------------------------------------
(* Facts about requests.                                                           *)

\* An idle control is no request.
LEMMA NothingIsIdle == Nothing \notin Work /\ Nothing.at = "free"
BY DEF Nothing, Work, Steps

\* The second element of a sequence is appended to the first.
LEMMA SecondAppended == ASSUME NEW a, NEW b PROVE Append(<<a>>, b) = <<a, b>>
<1> DEFINE x == Append(<<a>>, b)
           y == <<a, b>>
<1>1. a \in {a, b} /\ b \in {a, b} /\ <<a>> \in Seq({a, b}) /\ Len(<<a>>) = 1 /\ <<a>>[1] = a
  OBVIOUS
<1>2. x \in Seq({a, b}) /\ Len(x) = 2 /\ x[1] = a /\ x[2] = b
  BY <1>1
<1>3. y \in Seq({a, b}) /\ Len(y) = 2 /\ y[1] = a /\ y[2] = b
  OBVIOUS
<1> HIDE DEF x, y
<1>4. \A i \in 1..2 : x[i] = y[i]
  BY <1>2, <1>3
<1>5. x = y
  BY <1>2, <1>3, <1>4, SeqEqual
<1>. QED
  BY <1>5 DEF x, y

\* A phase of given nodes is a request that has yet to observe.
LEMMA PhaseIsWork ==
    ASSUME NEW action \in {"connect", "disconnect"}, NEW node \in Nodes,
           NEW from \in Nodes \cup {None}, NEW to \in Nodes
    PROVE  /\ Phase(action, node, from, to) \in Work
           /\ Phase(action, node, from, to).at = "before"
           /\ Phase(action, node, from, to).outcome = "unavailable"
           /\ Phase(action, node, from, to).from = from
           /\ Phase(action, node, from, to).to = to
           /\ Phase(action, node, from, to).node = node
           /\ Phase(action, node, from, to).action = action
BY DEF Phase, Work, Steps, Outcomes

\* What an observation shows of a phase's result is so in App_Rpt (observed, line 140).
LEMMA ObservedIsSo ==
    ASSUME TypeOK, request \in Work, NEW e \in Evidence, Reached(e)
    PROVE  links[request.node] = IF request.action = "connect" THEN "T" ELSE "none"
BY DEF TypeOK, Work, Evidence, Reached, Unavailable, AllLinks

\* A phase that reached its result has been seen to.
LEMMA ReachedIsSeen ==
    ASSUME TypeOK, RequestInv, request \in Work, NEW e \in Evidence, Reached(e)
    PROVE  (IF request.action = "connect" THEN "up" ELSE "gone") \in seen
<1>1. links[request.node] = IF request.action = "connect" THEN "T" ELSE "none"
  BY ObservedIsSo
<1>2. request # Nothing
  BY NothingIsIdle
<1>3. CASE request.action = "connect"
  BY <1>1, <1>2, <1>3 DEF RequestInv, Target, Aim
<1>4. CASE request.action # "connect"
  BY <1>1, <1>2, <1>4 DEF RequestInv, Target, Aim
<1>. QED
  BY <1>3, <1>4

-------------------------------------------------------------------------------
(* The invariant is inductive: one lemma for each part of the next-state relation.  *)

\* A request that has sent nothing and seen nothing but what is so now.
Opening(r) ==
    /\ r \in Work /\ r.node = Target(r) /\ First(r)
    /\ r.outcome \in {"unavailable", "choose"} /\ (r.at # "reply" => r.outcome = "unavailable")
    /\ r.at \in {"before", "choose", "reply"} /\ (r.at = "choose" => r.from = None)

LEMMA OpeningStep ==
    ASSUME IInv, Opening(request'), lock' \in Threads, seen' = Aim(request', links'),
           sent' = << >>, UNCHANGED <<links, coming, remote>>
    PROVE  IInv'
<1>1. lock' # None /\ request' # Nothing
  BY NothingIsIdle, NodeControlsAssumption DEF Opening
<1>2. TypeOK'
  BY DEF IInv, TypeOK, Opening, Aim
<1>3. RequestInv'
  BY <1>1 DEF RequestInv, Opening
<1>4. ReplyInv' /\ SentInv'
  BY <1>1 DEF ReplyInv, SentInv, Opening, First, Earlier, InAll, AtMostOne
<1>. QED
  BY <1>2, <1>3, <1>4 DEF IInv

\* The first phase of a switch is a request that has sent nothing.
LEMMA SwitchOpens ==
    ASSUME NEW n \in Nodes, NEW m \in Nodes PROVE Opening(Switch(m, n))
BY NodeControlsAssumption, PhaseIsWork DEF Switch, Target, Opening, First

\* perform takes the lock.
LEMMA BeginStep == ASSUME IInv, NEW t \in Threads, Begin(t) PROVE IInv'
<1>1. ASSUME NEW n \in Nodes, request' = Connect(n) PROVE Opening(request')
  BY <1>1, NodeControlsAssumption, PhaseIsWork DEF Connect, Target, Opening, First
<1>2. ASSUME NEW n \in Nodes, request' = Disconnect(n) PROVE Opening(request')
  BY <1>2, NodeControlsAssumption, PhaseIsWork DEF Disconnect, Target, Opening, First
<1>3. ASSUME NEW n \in Nodes, NEW m \in Nodes, request' = Switch(m, n) PROVE Opening(request')
  BY <1>3, SwitchOpens
<1>4. ASSUME NEW n \in Nodes, request' = [Connect(n) EXCEPT !.at = "choose"] PROVE Opening(request')
  BY <1>4, NodeControlsAssumption
  DEF Connect, Phase, Work, Steps, Outcomes, Target, Opening, First
<1>5. Opening(request')
  BY <1>1, <1>2, <1>3, <1>4 DEF Begin
<1>. QED
  BY <1>5, OpeningStep DEF Begin

\* The holder of the lock has a request.
LEMMA AtWork ==
    ASSUME IInv, NEW t \in Threads, NEW step, At(t, step)
    PROVE  request \in Work /\ request.at = step /\ request # Nothing /\ lock = t /\ lock # None
BY NodeControlsAssumption DEF IInv, TypeOK, RequestInv, At

\* connect_replacing_current looks for the peer to leave.
LEMMA ChooseStep == ASSUME IInv, NEW t \in Threads, Choose(t) PROVE IInv'
<1>1. /\ request \in Work /\ request.at = "choose" /\ request # Nothing
      /\ lock \in Threads /\ request.from = None /\ sent = << >>
      /\ request.node = request.to /\ request.outcome = "unavailable"
  BY AtWork DEF Choose, IInv, RequestInv, SentInv, Target, First, Earlier
<1>2. ASSUME NEW outcome \in {"unavailable", "choose"}, Reply(outcome) PROVE Opening(request')
  BY <1>1, <1>2 DEF Reply, Opening, Work, Steps, Outcomes, Target, First
<1>3. ASSUME Goto("before") PROVE Opening(request')
  BY <1>1, <1>3 DEF Goto, Opening, Work, Steps, Target, First
<1>4. ASSUME NEW m \in Nodes, request' = Switch(m, request.to) PROVE Opening(request')
  BY <1>1, <1>4, SwitchOpens DEF Work
<1>5. Opening(request')
  BY <1>2, <1>3, <1>4 DEF Choose, Peers
<1>. QED
  BY <1>1, <1>5, OpeningStep DEF Choose

\* The request goes on to another step of the same phase, or is answered without a claim.
Moves(step, outcome) ==
    /\ request' \in Work /\ request'.at = step /\ request'.outcome = outcome
    /\ \A field \in {"action", "node", "from", "to"} : request'[field] = request[field]
    /\ UNCHANGED <<links, lock, remote, seen>>

LEMMA MoveKeepsRequest ==
    ASSUME IInv, request \in Work, NEW step \in Steps, NEW outcome \in Outcomes,
           Moves(step, outcome), coming' \subseteq Commands, sent' \in Seq(Sent),
           step # "reply" => outcome = "unavailable", step # "choose",
           step = "final" => request.from # None,
           outcome = "complete" => "switched" \in seen,
           outcome \in {"already", "verified"} =>
               (IF request.action = "connect" THEN "up" ELSE "gone") \in seen
    PROVE  TypeOK' /\ RequestInv' /\ ReplyInv'
<1>1. /\ request' \in Work /\ request'.at = step /\ request'.outcome = outcome
      /\ request'.from = request.from /\ request'.to = request.to
      /\ request'.node = request.node /\ request'.action = request.action
  BY DEF Moves
<1>2. request # Nothing /\ request' # Nothing
  BY <1>1, NothingIsIdle
<1>3. Aim(request', links') = Aim(request, links)
  BY <1>1 DEF Moves, Aim
<1>4. Target(request') = Target(request)
  BY <1>1 DEF Target
<1>5. TypeOK'
  BY <1>1 DEF IInv, TypeOK, Moves
<1>6. RequestInv'
  BY <1>1, <1>2, <1>3, <1>4 DEF IInv, RequestInv, Moves
<1>7. ReplyInv'
  BY <1>1, <1>2 DEF ReplyInv, Moves
<1>. QED
  BY <1>5, <1>6, <1>7

\* A reply that says nothing was to be done, or could be, comes before any command.
Untouched(r, outcome) ==
    r.from = None /\ outcome \in {"already", "choose", "unavailable"} => sent = << >>

\* Without a command the record of the commands stays right.
LEMMA MoveKeepsSent ==
    ASSUME IInv, request \in Work, NEW step \in Steps, NEW outcome \in Outcomes,
           Moves(step, outcome), UNCHANGED sent, step \notin {"choose", "before"},
           step = "send" => /\ request.at = "before"
                            /\ <<request'.action, request'.node, request'.initial>> \in Own(request'),
           step = "reply" => Untouched(request, outcome),
           step # "reply" => outcome = "unavailable"
    PROVE  SentInv'
<1>1. /\ request'.at = step /\ request'.outcome = outcome
      /\ request'.from = request.from /\ request'.to = request.to
      /\ request'.node = request.node /\ request'.action = request.action
      /\ request' \in Work /\ seen' = seen
  BY DEF Moves
<1>2. request # Nothing /\ request' # Nothing
  BY <1>1, NothingIsIdle
<1>3. /\ First(request') = First(request) /\ Earlier(request') = Earlier(request)
      /\ InAll(request') = InAll(request) /\ Own(request') = Own(request)
  BY <1>1 DEF First, Earlier, InAll, Own
<1>4. /\ sent' \in InAll(request')
      /\ request'.at \in {"choose", "before", "send"} => sent' \in Earlier(request')
      /\ ~First(request') => "gone" \in seen'
  BY <1>1, <1>2, <1>3 DEF IInv, SentInv
<1>5. /\ request'.from = None /\ request'.outcome \in {"already", "choose"} => sent' = << >>
      /\ request'.from = None /\ request'.at = "reply" /\ request'.outcome = "unavailable" =>
           sent' = << >>
  BY <1>1 DEF Untouched
<1>. QED
  BY <1>1, <1>2, <1>4, <1>5 DEF SentInv

\* Both together: a move without a command.
Quiet(outcome) ==
    /\ outcome = "complete" => "switched" \in seen
    /\ outcome \in {"already", "verified"} =>
           (IF request.action = "connect" THEN "up" ELSE "gone") \in seen
    /\ Untouched(request, outcome)

\* Nothing has been sent before the first phase's command.
LEMMA UntouchedBefore ==
    ASSUME IInv, request \in Work, request.at = "before", NEW outcome
    PROVE  Untouched(request, outcome)
BY NothingIsIdle DEF IInv, SentInv, Earlier, First, Untouched

\* A reply.
LEMMA ReplyStep ==
    ASSUME IInv, request \in Work, NEW outcome \in Outcomes, Quiet(outcome), Reply(outcome),
           UNCHANGED <<links, coming, lock, remote, seen, sent>>
    PROVE  IInv'
<1>1. Moves("reply", outcome) /\ "reply" \in Steps
  BY DEF Moves, Reply, Steps, Work
<1>2. coming' \subseteq Commands /\ sent' \in Seq(Sent)
  BY DEF IInv, TypeOK
<1>3. TypeOK' /\ RequestInv' /\ ReplyInv'
  BY <1>1, <1>2, MoveKeepsRequest DEF Quiet
<1>4. SentInv'
  BY <1>1, MoveKeepsSent DEF Quiet
<1>. QED
  BY <1>3, <1>4 DEF IInv

\* A step of the same phase.
LEMMA GotoStep ==
    ASSUME IInv, request \in Work, request.at # "reply", NEW step \in {"send", "verify", "final"},
           step = "final" => request.from # None,
           NEW initial \in Modes \cup {"unknown"},
           request' = [request EXCEPT !.at = step, !.initial = initial],
           step = "send" => /\ request.at = "before"
                            /\ <<request.action, request.node, initial>> \in Own(request),
           UNCHANGED <<links, coming, lock, remote, seen, sent>>
    PROVE  IInv'
<1>1. request.outcome = "unavailable"
  BY NothingIsIdle DEF IInv, RequestInv
<1>2. Moves(step, "unavailable") /\ step \in Steps /\ "unavailable" \in Outcomes
  BY <1>1 DEF Moves, Steps, Work, Outcomes
<1>3. coming' \subseteq Commands /\ sent' \in Seq(Sent)
  BY DEF IInv, TypeOK
<1>4. TypeOK' /\ RequestInv' /\ ReplyInv'
  BY <1>2, <1>3, MoveKeepsRequest
<1>5. /\ request'.initial = initial /\ request'.action = request.action
      /\ request'.node = request.node /\ request'.from = request.from
  BY DEF Work
<1>6. Own(request') = Own(request)
  BY <1>5 DEF Own
<1>7. SentInv'
  BY <1>2, <1>5, <1>6, MoveKeepsSent
<1>. QED
  BY <1>4, <1>7 DEF IInv

\* The phase has its result: the next phase, the last observation, or the reply.
LEMMA SucceedStep ==
    ASSUME IInv, request \in Work, request.at # "reply", NEW outcome \in {"already", "verified"},
           (IF request.action = "connect" THEN "up" ELSE "gone") \in seen, Succeed(outcome),
           Untouched(request, outcome),
           UNCHANGED <<links, coming, lock, remote, seen, sent>>
    PROVE  IInv'
<1>1. CASE request.from = None
  <2>1. Reply(outcome) /\ Quiet(outcome) /\ outcome \in Outcomes
    BY <1>1 DEF Succeed, Quiet, Outcomes
  <2>. QED
    BY <2>1, ReplyStep
<1>2. CASE request.from # None /\ request.action = "connect"
  <2>1. /\ request.initial \in Modes \cup {"unknown"}
        /\ request' = [request EXCEPT !.at = "final", !.initial = request.initial]
    BY <1>2 DEF Succeed, Goto, Work
  <2>. QED
    BY <1>2, <2>1, GotoStep
<1>3. CASE request.from # None /\ request.action = "disconnect"
  <2>1. /\ request' \in Work /\ request'.at = "before" /\ request'.outcome = "unavailable"
        /\ request'.from = request.from /\ request'.to = request.to
        /\ request'.node = request.to /\ request'.action = "connect"
    BY <1>3, PhaseIsWork DEF Succeed, Work
  <2>2. request # Nothing /\ request' # Nothing
    BY <2>1, NothingIsIdle
  <2>3. Aim(request', links') = Aim(request, links) /\ Target(request') = request'.node
    BY <1>3, <2>1 DEF Aim, Target
  <2>4. TypeOK'
    BY <2>1 DEF IInv, TypeOK
  <2>5. RequestInv' /\ ReplyInv'
    BY <2>1, <2>2, <2>3 DEF IInv, RequestInv, ReplyInv
  <2>6. ~First(request') /\ First(request) /\ request.node = request.from
    BY <1>3, <2>1, <2>2 DEF First, IInv, RequestInv, Target
  <2>7. sent \in AtMostOne(Warranted("disconnect", request.from))
    BY <1>3, <2>2, <2>6 DEF IInv, SentInv, InAll, Own
  <2>8. SentInv'
    <3>1. sent' \in Earlier(request') /\ sent' \in InAll(request')
      BY <2>1, <2>6, <2>7 DEF Earlier, InAll, InTurn
    <3>. QED
      BY <1>3, <2>1, <2>2, <2>6, <3>1 DEF SentInv
  <2>. QED
    BY <2>4, <2>5, <2>8 DEF IInv
<1>. QED
  BY <1>1, <1>2, <1>3 DEF Work

-------------------------------------------------------------------------------
(* The steps of a request.                                                         *)

\* command_node observes before it commands.
LEMMA BeforeStep == ASSUME IInv, NEW t \in Threads, Before(t) PROVE IInv'
<1>1. request \in Work /\ request.at = "before"
  BY AtWork DEF Before
<1>. PICK e \in Evidence :
       LET pending == request.action = "connect" /\ e[request.node] = "C"
       IN  CASE e = Unavailable -> Reply("unavailable")
             [] e # Unavailable /\ Reached(e) -> Succeed("already")
             [] e # Unavailable /\ ~Reached(e) ->
                  request' = [request EXCEPT !.at = IF pending THEN "verify" ELSE "send",
                                             !.initial = e[request.node]]
  BY DEF Before
<1>5. \A outcome : Untouched(request, outcome)
  BY <1>1, UntouchedBefore
<1>2. CASE e = Unavailable
  <2>1. Reply("unavailable") /\ Quiet("unavailable") /\ "unavailable" \in Outcomes
    BY <1>2, <1>5 DEF Quiet, Outcomes
  <2>. QED
    BY <1>1, <2>1, ReplyStep DEF Before
<1>3. CASE e # Unavailable /\ Reached(e)
  <2>1. (IF request.action = "connect" THEN "up" ELSE "gone") \in seen
    BY <1>1, <1>3, ReachedIsSeen DEF IInv
  <2>. QED
    BY <1>1, <1>3, <1>5, <2>1, SucceedStep DEF Before
<1>4. CASE e # Unavailable /\ ~Reached(e)
  <2>1. e = links /\ request.node \in Nodes /\ e[request.node] \in Modes
    BY <1>1, <1>4 DEF Evidence, IInv, TypeOK, AllLinks, Work
  <2>2. PICK step \in {"send", "verify"} :
          /\ request' = [request EXCEPT !.at = step, !.initial = e[request.node]]
          /\ step = "send" => ~(request.action = "connect" /\ e[request.node] = "C")
    BY <1>4
  <2>3. step = "send" => <<request.action, request.node, e[request.node]>> \in Own(request)
    BY <1>1, <1>4, <2>1, <2>2 DEF Reached, Own, Warranted, Modes, Work
  <2>. QED
    BY <1>1, <2>1, <2>2, <2>3, GotoStep DEF Before
<1>. QED
  BY <1>2, <1>3, <1>4

\* command_node verifies until it has seen the result or the deadline is past.
LEMMA VerifyStep == ASSUME IInv, NEW t \in Threads, Verify(t) PROVE IInv'
<1>1. request \in Work /\ request.at = "verify"
  BY AtWork DEF Verify
<1>2. ASSUME NEW e \in Evidence, Reached(e), Succeed("verified") PROVE IInv'
  BY <1>1, <1>2, ReachedIsSeen, SucceedStep DEF IInv, Verify, Untouched
<1>3. ASSUME Reply("unverified") PROVE IInv'
  <2>1. Quiet("unverified") /\ "unverified" \in Outcomes
    BY DEF Quiet, Untouched, Outcomes
  <2>. QED
    BY <1>1, <1>3, <2>1, ReplyStep DEF Verify
<1>4. ASSUME UNCHANGED request PROVE IInv'
  BY <1>4 DEF IInv, TypeOK, RequestInv, ReplyInv, SentInv, Verify
<1>. QED
  BY <1>2, <1>3, <1>4 DEF Verify

\* The deadline of the verification passes.
LEMMA DeadlineStep == ASSUME IInv, NEW t \in Threads, Deadline(t) PROVE IInv'
<1>1. request \in Work /\ request # Nothing
  BY AtWork DEF Deadline
<1>2. /\ request' \in Work /\ request'.at = request.at /\ request'.outcome = request.outcome
      /\ request'.from = request.from /\ request'.to = request.to
      /\ request'.node = request.node /\ request'.action = request.action
      /\ request'.initial = request.initial
  BY <1>1 DEF Deadline, Work
<1>3. request' # Nothing
  BY <1>2, NothingIsIdle
<1>4. Aim(request', links') = Aim(request, links) /\ Target(request') = Target(request)
      /\ First(request') = First(request) /\ Earlier(request') = Earlier(request)
      /\ InAll(request') = InAll(request) /\ Own(request') = Own(request)
  BY <1>2 DEF Deadline, Aim, Target, First, Earlier, InAll, Own
<1>5. UNCHANGED <<links, coming, lock, remote, seen, sent>>
  BY DEF Deadline
<1>6. TypeOK'
  BY <1>2, <1>5 DEF IInv, TypeOK
<1>7. RequestInv' /\ ReplyInv'
  BY <1>1, <1>2, <1>3, <1>4, <1>5 DEF IInv, RequestInv, ReplyInv
<1>8. SentInv'
  BY <1>1, <1>2, <1>3, <1>4, <1>5 DEF IInv, SentInv
<1>. QED
  BY <1>6, <1>7, <1>8 DEF IInv

\* command_node commands: at most once in a phase, and the phase's own node.
LEMMA SendStep == ASSUME IInv, NEW t \in Threads, Send(t) PROVE IInv'
<1> DEFINE command == <<request.action, request.node>>
<1>1. request \in Work /\ request.at = "send" /\ request # Nothing
  BY AtWork DEF Send
<1>2. request.outcome = "unavailable"
  BY <1>1 DEF IInv, RequestInv
<1>. DEFINE entry == <<request.action, request.node, request.initial>>
<1>3. command \in Commands /\ entry \in Sent /\ sent \in Seq(Sent) /\ sent' = Append(sent, entry)
  BY <1>1 DEF Commands, Sent, Work, IInv, TypeOK, Send
<1>4. coming' \subseteq Commands /\ sent' \in Seq(Sent)
  <2>1. coming \subseteq Commands /\ coming' \in {coming, coming \cup {command}}
    BY DEF Send, IInv, TypeOK
  <2>. QED
    BY <1>3, <2>1
<1>5. PICK step \in {"verify", "reply"}, outcome \in {"unavailable", "timeout", "failed"} :
        Moves(step, outcome) /\ (step = "verify" <=> outcome = "unavailable")
  <2>1. CASE Goto("verify")
    <3>1. Moves("verify", "unavailable")
      BY <1>1, <1>2, <2>1 DEF Send, Goto, Moves, Work, Steps, Outcomes
    <3>. QED
      BY <3>1
  <2>2. CASE Reply("timeout")
    <3>1. Moves("reply", "timeout")
      BY <1>1, <2>2 DEF Send, Reply, Moves, Work, Steps, Outcomes
    <3>. QED
      BY <3>1
  <2>3. CASE Reply("failed")
    <3>1. Moves("reply", "failed")
      BY <1>1, <2>3 DEF Send, Reply, Moves, Work, Steps, Outcomes
    <3>. QED
      BY <3>1
  <2>. QED
    BY <2>1, <2>2, <2>3 DEF Send
<1>6. step \in Steps /\ outcome \in Outcomes
  BY DEF Steps, Outcomes
<1>7. TypeOK' /\ RequestInv' /\ ReplyInv'
  BY <1>1, <1>4, <1>5, <1>6, MoveKeepsRequest
<1>8. /\ request'.at = step /\ request'.outcome = outcome /\ request' # Nothing
      /\ request'.from = request.from /\ request'.to = request.to
      /\ request'.action = request.action /\ request'.node = request.node /\ seen' = seen
  BY <1>5, NothingIsIdle DEF Moves
<1>9. /\ First(request') = First(request) /\ InAll(request') = InAll(request)
  BY <1>8 DEF First, InAll, Own
<1>10. sent \in Earlier(request) /\ entry \in Own(request) /\ (~First(request) => "gone" \in seen)
  BY <1>1 DEF IInv, SentInv
<1>. HIDE DEF entry
<1>11. sent' \in InAll(request)
  <2>1. sent = << >> => sent' = <<entry>>
    BY <1>3
  <2>2. CASE First(request)
    BY <1>10, <2>1, <2>2 DEF Earlier, InAll, AtMostOne
  <2>3. CASE ~First(request)
    <3>1. sent \in AtMostOne(Warranted("disconnect", request.from))
      BY <1>10, <2>3 DEF Earlier
    <3>2. CASE sent = << >>
      BY <1>10, <2>1, <2>3, <3>2 DEF InAll, InTurn, AtMostOne
    <3>3. ASSUME NEW c \in Warranted("disconnect", request.from), sent = <<c>>
          PROVE  sent' \in InAll(request)
      <4>1. sent' = <<c, entry>>
        <5>1. Append(<<c>>, entry) = <<c, entry>>
          BY SecondAppended
        <5>. QED
          BY <1>3, <3>3, <5>1
      <4>. QED
        BY <1>10, <2>3, <4>1 DEF InAll, InTurn
    <3>. QED
      BY <3>1, <3>2, <3>3 DEF AtMostOne
  <2>. QED
    BY <2>2, <2>3
<1>12. outcome \notin {"already", "choose"} /\ ~(step = "reply" /\ outcome = "unavailable")
  BY <1>5
<1>13. SentInv'
  BY <1>1, <1>8, <1>9, <1>10, <1>11, <1>12 DEF SentInv
<1>. QED
  BY <1>7, <1>13 DEF IInv

\* connect_replacing_current observes both nodes at once.
LEMMA FinalStep == ASSUME IInv, NEW t \in Threads, Final(t) PROVE IInv'
<1>1. request \in Work /\ request.at = "final" /\ request # Nothing
  BY AtWork DEF Final
<1>2. request.from # None /\ request.from \in Nodes /\ request.to \in Nodes
  BY <1>1 DEF IInv, RequestInv, Work
<1>3. PICK e \in Evidence :
        Reply(IF e[request.from] = "none" /\ e[request.to] = "T" THEN "complete" ELSE "unverified")
  BY DEF Final
<1>4. CASE e[request.from] = "none" /\ e[request.to] = "T"
  <2>1. e = links
    BY <1>2, <1>4 DEF Evidence, Unavailable
  <2>2. "switched" \in Aim(request, links)
    BY <1>2, <1>4, <2>1 DEF Aim
  <2>3. Reply("complete") /\ Quiet("complete") /\ "complete" \in Outcomes
    BY <1>1, <1>2, <1>3, <1>4, <2>2 DEF IInv, RequestInv, Quiet, Untouched, Outcomes
  <2>. QED
    BY <1>1, <2>3, ReplyStep DEF Final
<1>5. CASE ~(e[request.from] = "none" /\ e[request.to] = "T")
  <2>1. Reply("unverified") /\ Quiet("unverified") /\ "unverified" \in Outcomes
    BY <1>2, <1>3, <1>5 DEF Quiet, Untouched, Outcomes
  <2>. QED
    BY <1>1, <2>1, ReplyStep DEF Final
<1>. QED
  BY <1>4, <1>5

\* The lock is released.
LEMMA ReleaseStep == ASSUME IInv, NEW t \in Threads, Release(t) PROVE IInv'
BY DEF IInv, TypeOK, RequestInv, ReplyInv, SentInv, Release

\* Whatever App_Rpt and the other stations do, what has been seen stays seen.
LEMMA LinksStep ==
    ASSUME IInv, NEW l \in AllLinks, Now(l), coming' \subseteq coming, remote' \in 0..MaxRemote
    PROVE  IInv'
<1>1. CASE lock = None
  <2>1. request = Nothing /\ request' = Nothing /\ lock' = None /\ seen' = {} /\ sent' = sent
    BY <1>1 DEF IInv, RequestInv, Now
  <2>. QED
    BY <2>1 DEF IInv, TypeOK, RequestInv, ReplyInv, SentInv, Now
<1>2. CASE lock # None
  <2>1. request # Nothing /\ seen' = seen \cup Aim(request, l) /\ links' = l
        /\ UNCHANGED <<lock, request, sent>>
    BY <1>2 DEF IInv, RequestInv, Now
  <2>2. Aim(request, l) \subseteq {"up", "gone", "switched"}
    BY DEF Aim
  <2>3. TypeOK'
    BY <2>1, <2>2 DEF IInv, TypeOK
  <2>4. Aim(request', links') \subseteq seen' /\ seen \subseteq seen'
    BY <2>1
  <2>5. RequestInv' /\ ReplyInv'
    BY <2>1, <2>4 DEF IInv, RequestInv, ReplyInv
  <2>6. SentInv'
    BY <2>1, <2>4 DEF IInv, SentInv
  <2>. QED
    BY <2>3, <2>5, <2>6 DEF IInv
<1>. QED
  BY <1>1, <1>2

LEMMA EnvironmentStep == ASSUME IInv, Effect \/ Transport \/ Remote PROVE IInv'
<1>1. links \in AllLinks /\ coming \subseteq Commands /\ remote \in 0..MaxRemote
  BY DEF IInv, TypeOK
<1>2. \A n \in Nodes : \A mode \in {"none", "C", "T"} : [links EXCEPT ![n] = mode] \in AllLinks
  BY <1>1 DEF AllLinks, Modes
<1>3. \A n \in Nodes : links[n] \in {"none", "C", "T"}
  BY <1>1 DEF AllLinks, Modes
<1>4. CASE Effect
  <2>1. PICK c \in coming :
          /\ coming' = coming \ {c}
          /\ Now([links EXCEPT ![c[2]] =
                 IF c[1] = "disconnect" THEN "none" ELSE IF @ = "none" THEN "C" ELSE @])
    BY <1>4 DEF Effect
  <2>2. c[2] \in Nodes /\ remote' = remote
    BY <1>1, <1>4 DEF Commands, Effect
  <2>3. [links EXCEPT ![c[2]] =
           IF c[1] = "disconnect" THEN "none" ELSE IF @ = "none" THEN "C" ELSE @] \in AllLinks
    BY <1>2, <1>3, <2>2
  <2>. QED
    BY <1>1, <2>1, <2>2, <2>3, LinksStep
<1>5. CASE Transport
  <2>1. PICK n \in Nodes, mode \in {"T", "none"} : Now([links EXCEPT ![n] = mode])
    BY <1>5 DEF Transport
  <2>. QED
    BY <1>1, <1>2, <1>5, <2>1, LinksStep DEF Transport
<1>6. CASE Remote
  <2>1. PICK n \in Nodes : Now([links EXCEPT ![n] = IF @ = "T" THEN "none" ELSE "T"])
    BY <1>6 DEF Remote
  <2>2. remote' \in 0..MaxRemote
    BY <1>1, <1>6, NodeControlsAssumption DEF Remote
  <2>. QED
    BY <1>1, <1>2, <1>6, <2>1, <2>2, LinksStep DEF Remote
<1>. QED
  BY <1>4, <1>5, <1>6

-------------------------------------------------------------------------------
(* The theorems.                                                                   *)

\* What a request has seen, reported and sent always fits together.
THEOREM Invariant == Spec => []IInv
<1>1. Init => IInv
  BY NodeControlsAssumption
  DEF Init, IInv, TypeOK, RequestInv, ReplyInv, SentInv, AllLinks, Modes
<1>2. IInv /\ [Next]_vars => IInv'
  <2> SUFFICES ASSUME IInv, [Next]_vars PROVE IInv'
    OBVIOUS
  <2>1. CASE UNCHANGED vars
    BY <2>1 DEF IInv, TypeOK, RequestInv, ReplyInv, SentInv, vars
  <2>2. ASSUME NEW t \in Threads, Begin(t) \/ Serve(t) \/ Deadline(t) PROVE IInv'
    BY <2>2, BeginStep, ChooseStep, BeforeStep, SendStep, VerifyStep, FinalStep, ReleaseStep,
       DeadlineStep DEF Serve
  <2>. QED
    BY <2>1, <2>2, EnvironmentStep DEF Next
<1>. QED
  BY <1>1, <1>2, PTL DEF Spec

\* A success that is reported was so in App_Rpt while the request was served
\* (node_controls.py, command_node and connect_replacing_current).
THEOREM SuccessesAreReal == Spec => []RepliesAreTrue
<1>1. IInv => RepliesAreTrue
  BY NothingIsIdle, NodeControlsAssumption DEF IInv, RequestInv, ReplyInv, RepliesAreTrue, At
<1>. QED
  BY <1>1, Invariant, PTL

\* A request sends what it was asked to, each command once at most and in its turn, and
\* only upon an observation that shows it is needed (perform_locked and switch).
THEOREM CommandsAreFew == Spec => []CommandsAreWarranted
<1>1. IInv => CommandsAreWarranted
  <2> SUFFICES ASSUME IInv, lock # None
               PROVE  IF request.from = None
                      THEN /\ sent \in AtMostOne(Warranted(request.action, request.node))
                           /\ request.outcome \in {"already", "choose"} => sent = << >>
                           /\ request.at = "reply" /\ request.outcome = "unavailable" => sent = << >>
                      ELSE /\ sent \in InTurn(Warranted("disconnect", request.from),
                                             Warranted("connect", request.to))
                           /\ (\E i \in DOMAIN sent : sent[i][1] = "connect") => "gone" \in seen
    BY DEF CommandsAreWarranted
  <2>1. request \in Work /\ request # Nothing /\ request.node = Target(request)
    BY DEF IInv, TypeOK, RequestInv
  <2>2. CASE request.from = None
    BY <2>1, <2>2 DEF IInv, SentInv, First, InAll, Own
  <2>3. CASE request.from # None /\ request.action = "disconnect"
    <3>1. request.node = request.from /\ First(request)
      BY <2>1, <2>3 DEF Target, First
    <3>2. sent \in AtMostOne(Warranted("disconnect", request.from))
      BY <2>1, <2>3, <3>1 DEF IInv, SentInv, InAll, Own
    <3>3. \A i \in DOMAIN sent : sent[i][1] = "disconnect"
      BY <3>2 DEF AtMostOne, Warranted
    <3>. QED
      BY <2>3, <3>2, <3>3 DEF InTurn
  <2>4. CASE request.from # None /\ request.action = "connect"
    <3>1. request.node = request.to /\ ~First(request)
      BY <2>1, <2>4 DEF Target, First
    <3>. QED
      BY <2>1, <2>4, <3>1 DEF IInv, SentInv, InAll, Own
  <2>. QED
    BY <2>1, <2>2, <2>3, <2>4 DEF Work
<1>. QED
  BY <1>1, Invariant, PTL
===============================================================================
