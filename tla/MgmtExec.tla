------------------------------- MODULE MgmtExec -------------------------------
(***************************************************************************)
(* Messages to one application and the replies to them: `exec` requests of *)
(* the management server (handle_exec, mgmt_handlers.rs), messages of other*)
(* applications and the routing of what the application writes             *)
(* (route_or_print, router.rs).                                            *)
(*                                                                         *)
(* An application is given the text of a message and not its sender.  It   *)
(* answers with a line "@reply:", which is sent to LAST_SENDER, or with    *)
(* "@__mgmt__:", which is sent to the channel in EXEC_REPLY_CHANNELS.  Both*)
(* maps hold one value per application, and each is behind a lock of its   *)
(* own: one action is what happens under one lock.                         *)
(*                                                                         *)
(* Abstractions: a message is its sender and a number; the application     *)
(* answers a message once or not at all, always with the same word, since  *)
(* it cannot tell who asks; the two instances before and after a restart   *)
(* share one stream of lines.                                              *)
(***************************************************************************)
EXTENDS Naturals, Sequences, FiniteSets

CONSTANTS Client,   \* management connections
          Peer,     \* other applications that send messages to this one
          MaxSend,  \* bound: the number of messages of each sender
          None

ASSUME SenderAssumption == Client \intersect Peer = {}

Sender == Client \union Peer
Origin == UNION {{s} \X (1..MaxSend[s]) : s \in Sender}
Verb   == {"@reply", "@__mgmt__"}
Failure == {"timeout", "internal", "not_found"} \X {0}

ASSUME BoundAssumption == MaxSend \in [Sender -> Nat]
ASSUME NoneAssumption == None \notin Origin \union Peer \union Failure \union {"__mgmt__"}

VARIABLES
  verb,     \* the word with which the application answers every message
  up,       \* the application's process is running
  forget,   \* its waiter has still to remove LAST_SENDER
  queue,    \* its inbox: origins of the messages it has not handled
  lines,    \* what it has written and its reader thread has not routed
  routing,  \* the reply the reader is about to send to the exec channel
  slot,     \* EXEC_REPLY_CHANNELS: whose channel
  last,     \* LAST_SENDER
  pc,       \* where each sender is
  n,        \* messages each sender has begun
  chan,     \* the first reply in a client's channel
  answer,   \* what the client was told
  alone     \* history: nothing has overlapped the client's exec so far

vars == <<verb, up, forget, queue, lines, routing, slot, last, pc, n, chan, answer, alone>>
app    == <<verb, up, forget, queue>>
router == <<lines, routing>>

Request(s) == <<s, n[s]>>

TypeOK ==
  /\ verb \in Verb
  /\ up \in BOOLEAN /\ forget \in BOOLEAN
  /\ queue \in Seq(Origin)
  /\ lines \in Seq(Origin) /\ routing \in Origin \union {None}
  /\ slot \in Origin \union {None}
  /\ last \in Peer \union {"__mgmt__", None}
  /\ pc \in [Sender -> {"idle", "install", "track", "send", "await", "clean"}]
  /\ n \in [Sender -> Nat] /\ \A s \in Sender : n[s] <= MaxSend[s]
  /\ chan \in [Client -> Origin \union {None}]
  /\ answer \in [Client -> Origin \union Failure \union {None}]
  /\ alone \in [Client -> BOOLEAN]

Init ==
  /\ verb \in Verb
  /\ up = TRUE /\ forget = FALSE
  /\ queue = <<>>
  /\ lines = <<>> /\ routing = None
  /\ slot = None /\ last = None
  /\ pc = [s \in Sender |-> "idle"] /\ n = [s \in Sender |-> 0]
  /\ chan = [c \in Client |-> None] /\ answer = [c \in Client |-> None]
  /\ alone = [c \in Client |-> FALSE]

\* Nothing is under way that could reach an exec that begins now.
Quiet ==
  /\ up /\ ~forget
  /\ queue = <<>> /\ lines = <<>> /\ routing = None
  /\ \A s \in Sender : pc[s] = "idle"

NobodyAlone == [c \in Client |-> FALSE]
------------------------------------------------------------------------------
(* Senders.                                                                 *)

Begin(s, next) ==
  /\ pc[s] = "idle" /\ n[s] < MaxSend[s]
  /\ pc' = [pc EXCEPT ![s] = next]
  /\ n' = [n EXCEPT ![s] = @ + 1]
  /\ UNCHANGED <<app, router, slot, last, chan>>

Exec(c) ==
  /\ Begin(c, "install")
  /\ answer' = [answer EXCEPT ![c] = None]
  /\ alone' = [NobodyAlone EXCEPT ![c] = Quiet]

\* A line "@<app>: msg" of another application.
PeerMessage(p) ==
  /\ Begin(p, "track")
  /\ alone' = NobodyAlone
  /\ UNCHANGED answer

\* A fresh channel; the one that was in the map loses its sender.
Install(c) ==
  /\ pc[c] = "install"
  /\ slot' = Request(c)
  /\ pc' = [pc EXCEPT ![c] = "track"]
  /\ UNCHANGED <<app, router, last, n, chan, answer, alone>>

\* Mutant of Track: only the first sender is remembered.
TrackFirst(s) ==
  /\ pc[s] = "track"
  /\ last' = IF last # None THEN last ELSE IF s \in Client THEN "__mgmt__" ELSE s
  /\ pc' = [pc EXCEPT ![s] = "send"]
  /\ UNCHANGED <<app, router, slot, n, chan, answer, alone>>

\* Mutant of Track: a client is remembered as itself.
TrackSelf(s) ==
  /\ pc[s] = "track"
  /\ last' = s
  /\ pc' = [pc EXCEPT ![s] = "send"]
  /\ UNCHANGED <<app, router, slot, n, chan, answer, alone>>

Track(s) ==
  /\ pc[s] = "track"
  /\ last' = IF s \in Client THEN "__mgmt__" ELSE s
  /\ pc' = [pc EXCEPT ![s] = "send"]
  /\ UNCHANGED <<app, router, slot, n, chan, answer, alone>>

\* To a running application, or to one that has ended and whose writer thread
\* has not noticed: that message is lost.
Send(s) ==
  /\ pc[s] = "send"
  /\ queue' = IF up THEN Append(queue, Request(s)) ELSE queue
  /\ pc' = [pc EXCEPT ![s] = IF s \in Client THEN "await" ELSE "idle"]
  /\ UNCHANGED <<verb, up, forget, router, slot, last, n, chan, answer, alone>>

\* The channel to the application is closed; handle_exec returns at once and
\* leaves its own channel in the map.
SendFails(s) ==
  /\ pc[s] = "send" /\ ~up
  /\ pc' = [pc EXCEPT ![s] = "idle"]
  /\ answer' = [c \in Client |-> IF c = s THEN <<"not_found", 0>> ELSE answer[c]]
  /\ chan' = [c \in Client |-> IF c = s THEN None ELSE chan[c]]
  /\ UNCHANGED <<app, router, slot, last, n, alone>>

Told(c, what) ==
  /\ pc[c] = "await"
  /\ answer' = [answer EXCEPT ![c] = what]
  /\ pc' = [pc EXCEPT ![c] = "clean"]
  /\ UNCHANGED <<app, router, slot, last, n, chan, alone>>

Receive(c) == chan[c] # None /\ Told(c, chan[c])

\* Mutant of Timeout: recv instead of recv_timeout.
NoTimeout(c) == FALSE /\ Told(c, <<"timeout", 0>>)

\* recv_timeout: the time is up ...
Timeout(c) == chan[c] = None /\ Told(c, <<"timeout", 0>>)

\* ... or there is no sender left.
Disconnected(c) == chan[c] = None /\ slot # Request(c) /\ Told(c, <<"internal", 0>>)

\* Mutant of CleanUp: the receiver is kept for the client's next exec.
CleanUpKeepsReceiver(c) ==
  /\ pc[c] = "clean"
  /\ slot' = None
  /\ pc' = [pc EXCEPT ![c] = "idle"]
  /\ UNCHANGED <<app, router, last, n, chan, answer, alone>>

\* Whatever channel is in the map is removed; the receiver is dropped.
CleanUp(c) ==
  /\ pc[c] = "clean"
  /\ slot' = None
  /\ chan' = [chan EXCEPT ![c] = None]
  /\ pc' = [pc EXCEPT ![c] = "idle"]
  /\ UNCHANGED <<app, router, last, n, answer, alone>>
------------------------------------------------------------------------------
(* The application and its reader thread.                                   *)

\* The application writes its answer to the message at the head of its inbox.
\* While it works on a message that message counts as unread: nobody can tell.
Answer ==
  /\ up /\ queue # <<>>
  /\ lines' = Append(lines, Head(queue))
  /\ queue' = Tail(queue)
  /\ UNCHANGED <<verb, up, forget, routing, slot, last, pc, n, chan, answer, alone>>

Ignore ==
  /\ up /\ queue # <<>>
  /\ queue' = Tail(queue)
  /\ UNCHANGED <<verb, up, forget, router, slot, last, pc, n, chan, answer, alone>>

\* "@reply:" looks LAST_SENDER up; a reply to another application goes to that
\* application's inbox, and without a last sender it is dropped.
RouteReply ==
  /\ routing = None /\ lines # <<>>
  /\ verb = "@reply"
  /\ lines' = Tail(lines)
  /\ routing' = IF last = "__mgmt__" THEN Head(lines) ELSE None
  /\ UNCHANGED <<app, slot, last, pc, n, chan, answer, alone>>

\* Mutant of Delivered: to everyone who waits.
DeliveredToAll(o) ==
  [c \in Client |-> IF pc[c] = "await" /\ chan[c] = None THEN o ELSE chan[c]]

\* What goes to the exec channel of the application, if there is one, which
\* holds on to the first reply.
Delivered(o) ==
  [c \in Client |->
     IF slot = Request(c) /\ pc[c] # "idle" /\ chan[c] = None THEN o ELSE chan[c]]

RouteToMgmt ==
  /\ routing # None
  /\ chan' = Delivered(routing)
  /\ routing' = None
  /\ UNCHANGED <<app, lines, slot, last, pc, n, answer, alone>>

RouteMgmt ==
  /\ routing = None /\ lines # <<>>
  /\ verb = "@__mgmt__"
  /\ lines' = Tail(lines)
  /\ chan' = Delivered(Head(lines))
  /\ UNCHANGED <<app, routing, slot, last, pc, n, answer, alone>>

\* The process ends with what it had not read.  If it is not restarted its
\* waiter removes LAST_SENDER, at any time later.
Die ==
  /\ up
  /\ up' = FALSE
  /\ forget' \in {TRUE, forget}
  /\ queue' = <<>>
  /\ alone' = NobodyAlone
  /\ UNCHANGED <<verb, router, slot, last, pc, n, chan, answer>>

Forget ==
  /\ forget
  /\ forget' = FALSE
  /\ last' = None
  /\ UNCHANGED <<verb, up, queue, router, slot, pc, n, chan, answer, alone>>

\* Restarted by its waiter or by a command, with a new inbox.
Start ==
  /\ ~up
  /\ up' = TRUE
  /\ UNCHANGED <<verb, forget, queue, router, slot, last, pc, n, chan, answer, alone>>
------------------------------------------------------------------------------
ClientStep(c) ==
  \/ Install(c) \/ Track(c) \/ Send(c) \/ SendFails(c)
  \/ Receive(c) \/ Timeout(c) \/ Disconnected(c) \/ CleanUp(c)

Next ==
  \/ \E c \in Client : Exec(c) \/ ClientStep(c)
  \/ \E p \in Peer : PeerMessage(p) \/ Track(p) \/ Send(p) \/ SendFails(p)
  \/ Answer \/ Ignore
  \/ RouteReply \/ RouteToMgmt \/ RouteMgmt
  \/ Die \/ Forget \/ Start

Spec == Init /\ [][Next]_vars

\* The connection's thread runs on and its timer expires; the application owes
\* nobody an answer.
FairSpec == Spec /\ \A c \in Client : WF_vars(ClientStep(c))
------------------------------------------------------------------------------
\* The client of an exec that nothing overlaps is told the application's reply
\* to its own message or that there is none in time, and never an earlier reply
\* or an internal error.
AloneGetsOwnReply ==
  \A c \in Client : alone[c] /\ answer[c] # None => answer[c] \in {Request(c), <<"timeout", 0>>}

\* While it waits both ways of answering lead to it.
AloneIsReachable ==
  \A c \in Client : alone[c] /\ pc[c] = "await" =>
    slot = Request(c) /\ last = "__mgmt__"

\* No reply is given to two clients, however execs overlap.
ReplyGoesToOne ==
  \A c, d \in Client : answer[c] \in Origin /\ answer[c] = answer[d] => c = d

\* exec returns although the application may never answer, and may die.
ExecEnds == \A c \in Client : pc[c] # "idle" ~> pc[c] = "idle"
==============================================================================
