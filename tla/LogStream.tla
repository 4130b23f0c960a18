------------------------------ MODULE LogStream ------------------------------
(***************************************************************************)
(* The log of one application and the clients that follow it: the reader   *)
(* thread of each instance (app_threads.rs), the state registered under    *)
(* the application's name, with its buffer and its list of subscribers,    *)
(* and handle_logs of the management server (mgmt_handlers.rs).            *)
(*                                                                         *)
(* A reader logs into whatever state is registered under the name at that  *)
(* moment: what an instance printed before it died may be logged into its  *)
(* successor's state.  handle_logs reads the buffer under one acquisition  *)
(* of the registry and subscribes under another.  A restart replaces the   *)
(* state, and with it the senders of all subscribers.                      *)
(*                                                                         *)
(* A process starts with the registration of its state: nothing reads its  *)
(* output before the reader thread starts.  One waiter supervises the      *)
(* application; AppLifecycle has the commands that make a second one.      *)
(***************************************************************************)
EXTENDS Naturals, Sequences

CONSTANTS Client,        \* connections that ask for the log
          LOG_BUF_SIZE,  \* lines kept for those who ask later (20)
          MaxInstance,   \* bound: instances of the application
          MaxLine,       \* bound: lines an instance prints
          None           \* nothing registered, no line held

ASSUME BufSizeAssumption == LOG_BUF_SIZE \in Nat \ {0}
ASSUME BoundAssumption == MaxInstance \in Nat \ {0} /\ MaxLine \in Nat

Instance == 1 .. MaxInstance
Line == [from : Instance, no : 1 .. MaxLine]

VARIABLES
    latest,   \* the latest instance, 0 before the first
    alive,    \* its process runs
    waiter,   \* what its waiter does
    reader,   \* instance -> state of its reader thread
    pipe,     \* instance -> lines printed and not read
    printed,  \* instance -> number of lines printed
    held,     \* instance -> the line its reader has read and not logged
    state,    \* what is registered under the name
    client,   \* what each connection does and was sent
    logged    \* history: instance -> lines logged into the state it registered
vars == <<latest, alive, waiter, reader, pipe, printed, held, state, client, logged>>

Connected == [pc |-> "idle", backlog |-> <<>>, got |-> <<>>, of |-> 0, chan |-> <<>>,
              present |-> TRUE, asked |-> <<0, 0>>, since |-> 0, live |-> <<>>]

Init == /\ latest = 0 /\ alive = FALSE /\ waiter = "spawn"
        /\ reader = [g \in Instance |-> "none"]
        /\ pipe = [g \in Instance |-> <<>>]
        /\ printed = [g \in Instance |-> 0]
        /\ held = [g \in Instance |-> None]
        /\ state = None
        /\ client = [c \in Client |-> Connected]
        /\ logged = [g \in Instance |-> <<>>]

app == <<latest, alive, waiter, pipe, printed>>
reading == <<reader, held, logged>>

-----------------------------------------------------------------------------
(* The application                                                         *)

\* Mutant: the state of the previous instance keeps its subscribers.
SpawnKeepsSubscribers ==
    /\ waiter = "spawn" /\ latest < MaxInstance
    /\ latest' = latest + 1
    /\ alive' = TRUE
    /\ state' = [of |-> latest + 1, buf |-> <<>>,
                 subscribers |-> IF state = None THEN {} ELSE state.subscribers]
    /\ waiter' = "start_threads"
    /\ UNCHANGED <<pipe, printed, reading, client>>

(* spawn_app: the process and a fresh state under the name.                *)
Spawn ==
    /\ waiter = "spawn" /\ latest < MaxInstance
    /\ latest' = latest + 1
    /\ alive' = TRUE
    /\ state' = [of |-> latest + 1, buf |-> <<>>, subscribers |-> {}]
    /\ waiter' = "start_threads"
    /\ UNCHANGED <<pipe, printed, reading, client>>

(* spawn_io_threads                                                        *)
StartReader ==
    /\ waiter = "start_threads"
    /\ reader' = [reader EXCEPT ![latest] = "reads"]
    /\ waiter' = "wait"
    /\ UNCHANGED <<latest, alive, pipe, printed, held, logged, state, client>>

(* Nothing can be printed to a pipe that nobody reads any more.            *)
PrintLine ==
    /\ alive /\ printed[latest] < MaxLine
    /\ reader[latest] # "broken"
    /\ printed' = [printed EXCEPT ![latest] = @ + 1]
    /\ pipe' = [pipe EXCEPT ![latest] = Append(@, [from |-> latest, no |-> printed[latest] + 1])]
    /\ UNCHANGED <<latest, alive, waiter, reading, state, client>>

Exit ==
    /\ alive
    /\ alive' = FALSE
    /\ UNCHANGED <<latest, waiter, pipe, printed, reading, state, client>>

(* wait_app: the policy and the exit code decide on a restart.             *)
Restart ==
    /\ waiter = "wait" /\ ~alive
    /\ waiter' = "spawn"
    /\ UNCHANGED <<latest, alive, pipe, printed, reading, state, client>>

GiveUp ==
    /\ waiter = "wait" /\ ~alive
    /\ waiter' = "done"
    /\ UNCHANGED <<latest, alive, pipe, printed, reading, state, client>>

-----------------------------------------------------------------------------
(* The reader thread of instance g                                         *)

ReadLine(g) ==
    /\ reader[g] = "reads" /\ pipe[g] # <<>>
    /\ held' = [held EXCEPT ![g] = Head(pipe[g])]
    /\ pipe' = [pipe EXCEPT ![g] = Tail(@)]
    /\ reader' = [reader EXCEPT ![g] = "logs"]
    /\ UNCHANGED <<latest, alive, waiter, printed, logged, state, client>>

\* Mutant: a reader leaves when its process has died.
EndOfOutputEarly(g) ==
    /\ reader[g] = "reads"
    /\ ~(g = latest /\ alive)
    /\ reader' = [reader EXCEPT ![g] = "ended"]
    /\ UNCHANGED <<app, held, logged, state, client>>

(* A line that is not UTF-8, or a read error: the thread ends, the process *)
(* lives on, and what is in the pipe is lost.                              *)
ReaderBreaks(g) ==
    /\ reader[g] = "reads"
    /\ reader' = [reader EXCEPT ![g] = "broken"]
    /\ UNCHANGED <<app, held, logged, state, client>>

EndOfOutput(g) ==
    /\ reader[g] = "reads" /\ pipe[g] = <<>>
    /\ ~(g = latest /\ alive)
    /\ reader' = [reader EXCEPT ![g] = "ended"]
    /\ UNCHANGED <<app, held, logged, state, client>>

\* Mutant: nothing is ever dropped.
BufferedUnbounded(buf, line) == Append(buf, line)

\* Mutant: a line is dropped before the buffer is full.
BufferedShort(buf, line) ==
    LET longer == Append(buf, line) IN
    IF Len(longer) >= LOG_BUF_SIZE THEN Tail(longer) ELSE longer

(* push_back and pop_front                                                 *)
Buffered(buf, line) ==
    LET longer == Append(buf, line) IN
    IF Len(longer) > LOG_BUF_SIZE THEN Tail(longer) ELSE longer

Receiving(c) == client[c].pc = "live"

\* Mutant: subscribers that have not shown the previous line are dropped.
LogLineImpatient(g) ==
    /\ reader[g] = "logs"
    /\ LET told == {c \in state.subscribers : Receiving(c) /\ client[c].chan = <<>>} IN
       /\ state' = [state EXCEPT !.buf = Buffered(@, held[g]), !.subscribers = told]
       /\ client' = [c \in Client |->
             IF c \in told THEN [client[c] EXCEPT !.chan = Append(@, held[g])] ELSE client[c]]
    /\ logged' = [logged EXCEPT ![state.of] = Append(@, held[g])]
    /\ held' = [held EXCEPT ![g] = None]
    /\ reader' = [reader EXCEPT ![g] = "reads"]
    /\ UNCHANGED app

(* Under the registry: the line goes to the buffer and to all subscribers; *)
(* those whose receiver is gone are forgotten.                             *)
LogLine(g) ==
    /\ reader[g] = "logs"
    /\ LET told == {c \in state.subscribers : Receiving(c)} IN
       /\ state' = [state EXCEPT !.buf = Buffered(@, held[g]), !.subscribers = told]
       /\ client' = [c \in Client |->
             IF c \in told THEN [client[c] EXCEPT !.chan = Append(@, held[g])] ELSE client[c]]
    /\ logged' = [logged EXCEPT ![state.of] = Append(@, held[g])]
    /\ held' = [held EXCEPT ![g] = None]
    /\ reader' = [reader EXCEPT ![g] = "reads"]
    /\ UNCHANGED app

-----------------------------------------------------------------------------
(* handle_logs of connection c                                             *)

NotFound(c) ==
    /\ client[c].pc = "idle" /\ state = None
    /\ client' = [client EXCEPT ![c].pc = "refused"]
    /\ UNCHANGED <<app, reading, state>>

Snapshot(c) ==
    /\ client[c].pc = "idle" /\ state # None
    /\ client' = [client EXCEPT ![c].pc = "backlog", ![c].backlog = state.buf,
                                ![c].asked = <<state.of, Len(logged[state.of])>>]
    /\ UNCHANGED <<app, reading, state>>

SendBacklog(c) ==
    /\ client[c].pc = "backlog" /\ client[c].backlog # <<>>
    /\ client' = [client EXCEPT ![c].backlog = Tail(@),
                                ![c].got = Append(@, Head(client[c].backlog))]
    /\ UNCHANGED <<app, reading, state>>

\* Mutant: the buffer is sent again, lest a line be missed.
SubscribeReplays(c) ==
    /\ client[c].pc = "backlog" /\ client[c].backlog = <<>>
    /\ client' = [client EXCEPT ![c].pc = "live", ![c].of = state.of,
                                ![c].since = Len(logged[state.of]), ![c].chan = state.buf]
    /\ state' = [state EXCEPT !.subscribers = @ \cup {c}]
    /\ UNCHANGED <<app, reading>>

(* The registry is asked again; an application that was found once stays   *)
(* registered, so its second NOT_FOUND cannot happen.                      *)
Subscribe(c) ==
    /\ client[c].pc = "backlog" /\ client[c].backlog = <<>>
    /\ client' = [client EXCEPT ![c].pc = "live", ![c].of = state.of,
                                ![c].since = Len(logged[state.of])]
    /\ state' = [state EXCEPT !.subscribers = @ \cup {c}]
    /\ UNCHANGED <<app, reading>>

SendLive(c) ==
    /\ client[c].pc = "live" /\ client[c].chan # <<>>
    /\ client' = [client EXCEPT ![c].chan = Tail(@),
                                ![c].got = Append(@, Head(client[c].chan)),
                                ![c].live = Append(@, Head(client[c].chan))]
    /\ UNCHANGED <<app, reading, state>>

(* The sender went with the state it was kept in; what it had sent is      *)
(* received first.                                                         *)
EndOfStream(c) ==
    /\ client[c].pc = "live" /\ client[c].chan = <<>> /\ c \notin state.subscribers
    /\ client' = [client EXCEPT ![c].pc = "ended"]
    /\ UNCHANGED <<app, reading, state>>

(* The host disconnects; a later write to it may still succeed or fail.    *)
Leave(c) ==
    /\ client[c].present
    /\ client' = [client EXCEPT ![c].present = FALSE]
    /\ UNCHANGED <<app, reading, state>>

WriteFails(c) ==
    /\ ~client[c].present
    /\ \/ client[c].pc = "backlog" /\ client[c].backlog # <<>>
       \/ client[c].pc = "live" /\ client[c].chan # <<>>
    /\ client' = [client EXCEPT ![c].pc = "failed", ![c].chan = <<>>]
    /\ UNCHANGED <<app, reading, state>>

Serve(c) == SendBacklog(c) \/ Subscribe(c) \/ SendLive(c) \/ EndOfStream(c) \/ WriteFails(c)
Read(g)  == ReadLine(g) \/ ReaderBreaks(g) \/ LogLine(g) \/ EndOfOutput(g)

Next == \/ Spawn \/ StartReader \/ PrintLine \/ Exit \/ Restart \/ GiveUp
        \/ \E g \in Instance : Read(g)
        \/ \E c \in Client : NotFound(c) \/ Snapshot(c) \/ Leave(c) \/ Serve(c)

(* Threads that can run do run; the process and the host are free.         *)
Fairness == /\ WF_vars(Spawn \/ StartReader)
            /\ \A g \in Instance : WF_vars(Read(g))
            /\ \A c \in Client : WF_vars(Serve(c))

Spec == Init /\ [][Next]_vars /\ Fairness

-----------------------------------------------------------------------------
(* A reader that logs holds a line of its own instance, the buffer is      *)
(* bounded, and only connections that were accepted are subscribed.        *)
TypeOK ==
    /\ latest \in 0 .. MaxInstance /\ alive \in BOOLEAN
    /\ waiter \in {"spawn", "start_threads", "wait", "done"}
    /\ \A g \in Instance :
          /\ reader[g] \in {"none", "reads", "logs", "broken", "ended"}
          /\ pipe[g] \in Seq(Line) /\ logged[g] \in Seq(Line)
          /\ IF reader[g] = "logs" THEN held[g] \in Line /\ held[g].from = g
                                   ELSE held[g] = None
    /\ IF latest = 0 THEN state = None
       ELSE /\ state.of = latest
            /\ state.buf \in Seq(Line) /\ Len(state.buf) <= LOG_BUF_SIZE
            /\ \A c \in state.subscribers : client[c].pc \in {"live", "failed"}

(* No client is sent a line twice, and the lines of one instance come in   *)
(* the order they were printed in, although buffer and subscription are    *)
(* taken apart and may be those of different instances.                    *)
NoLineTwice ==
    \A c \in Client :
        LET lines == client[c].got \o client[c].chan IN
        \A i, j \in DOMAIN lines :
            i < j /\ lines[i].from = lines[j].from => lines[i].no < lines[j].no

(* A subscriber misses nothing that is logged after it subscribed: what it *)
(* was sent and what waits in its channel is what was logged since, to the *)
(* last line if the stream has ended.                                      *)
LiveComplete ==
    \A c \in Client : client[c].pc \in {"live", "ended"} =>
        LET all == logged[client[c].of] IN
        client[c].live \o client[c].chan = SubSeq(all, client[c].since + 1, Len(all))

(* If nothing was logged between the two acquisitions of the registry, a   *)
(* client gets the last LOG_BUF_SIZE lines there were and everything from  *)
(* then on, without a gap.                                                 *)
NothingSkipped ==
    \A c \in Client :
        client[c].pc = "live" /\ client[c].asked = <<client[c].of, client[c].since>> =>
            LET all   == logged[client[c].of]
                first == IF client[c].since > LOG_BUF_SIZE
                         THEN client[c].since - LOG_BUF_SIZE + 1 ELSE 1 IN
            client[c].got \o client[c].chan = SubSeq(all, first, Len(all))

(* A client of a state that a restart has replaced does not wait forever:  *)
(* it is sent what it had coming and its stream ends.                      *)
StreamEnds ==
    \A c \in Client :
        (client[c].pc = "live" /\ client[c].of # latest)
            ~> client[c].pc \in {"ended", "failed"}

(* Every line that is printed is logged, also the last ones of a process   *)
(* that died, unless its reader has given up before it came to the line.   *)
Logged(line) == \E g \in Instance : \E i \in DOMAIN logged[g] : logged[g][i] = line
Lost(line)   == /\ reader[line.from] = "broken"
                /\ \E i \in DOMAIN pipe[line.from] : pipe[line.from][i] = line

LinesLogged ==
    \A line \in Line : (printed[line.from] >= line.no) ~> (Logged(line) \/ Lost(line))
=============================================================================
