------------------------------ MODULE XjRemote ------------------------------
(***************************************************************************)
(* Remote control over POSIX message queues: xjadeo -Q (mqueue.c and the   *)
(* MQ part of remote.c) and xjremote, which connects to a running xjadeo   *)
(* or launches one (xjremote.c).                                           *)
(*                                                                         *)
(* Two names stand for the two queues, one for each direction.  A name is  *)
(* bound to a queue when the queue is created; unlinking takes the binding *)
(* away and leaves the queue to those who have it open.  An instance of    *)
(* xjadeo creates both queues or does without remote control; the reader   *)
(* thread of xjremote creates the second one if it is not there.           *)
(*                                                                         *)
(* Each client is one run of xjremote, with its main thread and its reader *)
(* thread; each server is one run of xjadeo.  They may be launched at any  *)
(* time, an instance may be killed at any time, and all take any time over *)
(* their steps: the five seconds that a client waits for the answer to its *)
(* ping may always pass.                                                   *)
(***************************************************************************)
EXTENDS Integers, Sequences, FiniteSets

CONSTANTS Clients, Servers,
          QueueSize,     \* mq_maxmsg, 10 by default
          OpenTries,     \* attempts to open the request queue, 10 in the code
          MaxRestarts,   \* bound: how often a client starts over
          MaxCommands,   \* bound: the commands that are typed in a client
          MaxNotices,    \* bound: notifications
          MaxMishaps,    \* bound: instances that are killed
          Options,       \* the option sets of a client: subsets of {"f","u","P"}
          None

ASSUME QueueAssumption == QueueSize \in Nat \ {0}
ASSUME BoundsAssumption == {OpenTries, MaxRestarts, MaxCommands, MaxNotices, MaxMishaps} \subseteq Nat
ASSUME OwnersAssumption == Clients \cap Servers = {} /\ None \notin Clients \cup Servers

VARIABLES request, reply,  \* the queues that the two names are bound to
          queue,           \* the messages of every queue
          server,          \* per server: its stage and its loop_flag
          notices,         \* the notifications that were sent
          mishaps,         \* the instances that were killed
          main, reader,    \* per client: the stage of its two threads
          client,          \* per client: its variables
          executed         \* per client: the commands that were executed, and by whom

vars == <<request, reply, queue, server, notices, mishaps, main, reader, client, executed>>

(* A queue is named after the one who created it, earlier ones after None. *)
RequestOf(s) == <<s, 1>>
ReplyOf(s)   == <<s, 2>>
ReaderOf(c)  == <<c, client[c].restarts>>
Queues == ((Servers \cup {None}) \X {1, 2}) \cup (Clients \X (0 .. MaxRestarts))

ASSUME NoneAssumption == None \notin Queues

(* A command has the number of the line it was typed in.                   *)
Message(c, kind, n) == [from |-> c, kind |-> kind, number |-> n]

(***************************************************************************)
(* mq_send with O_NONBLOCK: it fails when the queue is full.  What is sent *)
(* to an instance that is gone is not kept, since nobody will read it.     *)
(***************************************************************************)
Dead(q) == q = RequestOf(None) \/ \E s \in Servers : q = server[s].rx /\ server[s].stage = "gone"

(* Mutant: a message more than the queue can hold.                         *)
SentAnyway(q, m) == IF Dead(q) THEN queue ELSE [queue EXCEPT ![q] = Append(@, m)]

Sent(q, m) == IF Len(queue[q]) < QueueSize /\ ~Dead(q)
              THEN [queue EXCEPT ![q] = Append(@, m)] ELSE queue

Fresh(opts) == [opts |-> opts, tx |-> None, rx |-> None, ping |-> FALSE, pong |-> FALSE,
                mute |-> TRUE, loop |-> TRUE, forked |-> FALSE, timeout |-> OpenTries,
                typed |-> 0, restarts |-> 0]

(***************************************************************************)
(* Names may be left of an instance that was killed (None), and answers    *)
(* that nobody has read.                                                   *)
(***************************************************************************)
Left == {left \in {<< >>, <<"pong", "quit">>} : Len(left) <= QueueSize}

Init == /\ request \in {None, RequestOf(None)}
        /\ reply \in {None, ReplyOf(None)}
        /\ \E left \in IF reply = None THEN {<< >>} ELSE Left :
              queue = [q \in Queues |-> IF q = ReplyOf(None) THEN left ELSE << >>]
        /\ server = [s \in Servers |-> [stage |-> "off", loop |-> TRUE, mq |-> FALSE,
                                      rx |-> None, tx |-> None]]
        /\ notices = 0
        /\ mishaps = 0
        /\ main = [c \in Clients |-> "off"]
        /\ reader = [c \in Clients |-> "none"]
        /\ client = [c \in Clients |-> Fresh({})]
        /\ executed = [c \in Clients |-> << >>]

clientVars == <<main, reader, client, mishaps>>

-----------------------------------------------------------------------------
(* xjadeo -Q                                                               *)

Stage(s, from, to) == server[s].stage = from /\ server' = [server EXCEPT ![s].stage = to]

WithoutRemote(s) == server' = [server EXCEPT ![s] = [@ EXCEPT !.stage = "run", !.rx = None]]

(* The user starts an instance.                                            *)
Launch(s) == /\ Stage(s, "off", "start")
             /\ UNCHANGED <<request, reply, queue, notices, clientVars, executed>>

(***************************************************************************)
(* mymq_init: the request queue is created with O_EXCL, then the reply     *)
(* queue; a name that is taken turns remote control off, and the request   *)
(* queue is removed again if it was the second one.                        *)
(***************************************************************************)
(* Mutant: without O_EXCL a queue that exists is opened.                   *)
FreeOrNot(name) == TRUE

Free(name) == name = None

Opened(name, new) == IF name = None THEN new ELSE name

CreateRequest(s) ==
    /\ server[s].stage = "start"
    /\ IF Free(request)
       THEN /\ request' = Opened(request, RequestOf(s))
            /\ server' = [server EXCEPT ![s] = [@ EXCEPT !.stage = "created", !.rx = request']]
       ELSE WithoutRemote(s) /\ UNCHANGED request
    /\ UNCHANGED <<reply, queue, notices, clientVars, executed>>

CreateReply(s) ==
    /\ server[s].stage = "created"
    /\ IF Free(reply)
       THEN /\ reply' = Opened(reply, ReplyOf(s))
            /\ server' = [server EXCEPT ![s] = [@ EXCEPT !.stage = "drain", !.tx = reply']]
            /\ UNCHANGED request
       ELSE /\ WithoutRemote(s)
            /\ request' = None
            /\ UNCHANGED reply
    /\ UNCHANGED <<queue, notices, clientVars, executed>>

(* What was sent before is thrown away, and the greeting is sent.          *)
Drain(s) ==
    /\ server[s].stage = "drain"
    /\ server' = [server EXCEPT ![s] = [@ EXCEPT !.stage = "run", !.mq = TRUE]]
    /\ queue' = [Sent(server[s].tx, "text") EXCEPT ![server[s].rx] = << >>]
    /\ UNCHANGED <<request, reply, notices, clientVars, executed>>

(***************************************************************************)
(* remote_read_mq: a message is taken from the queue and executed, until   *)
(* the queue is empty.  The answer is dropped when the queue is full.      *)
(***************************************************************************)
Answer(m) == CASE m.kind = "ping" -> "pong" [] m.kind = "quit" -> "quit" [] OTHER -> "text"

Execute(s) ==
    /\ server[s].stage = "run" /\ server[s].mq
    /\ queue[server[s].rx] # << >>
    /\ LET m == Head(queue[server[s].rx])
       IN  /\ queue' = [Sent(server[s].tx, Answer(m)) EXCEPT ![server[s].rx] = Tail(@)]
           /\ server' = [server EXCEPT ![s].loop = @ /\ m.kind # "quit"]
           /\ executed' = IF m.kind = "ping" THEN executed
                          ELSE [executed EXCEPT ![m.from] = Append(@, [number |-> m.number, by |-> s])]
    /\ UNCHANGED <<request, reply, notices, clientVars>>

(* remote_notify                                                           *)
Notify(s) ==
    /\ server[s].stage = "run" /\ server[s].mq
    /\ notices < MaxNotices
    /\ notices' = notices + 1
    /\ queue' = Sent(server[s].tx, "text")
    /\ UNCHANGED <<request, reply, server, clientVars, executed>>

(***************************************************************************)
(* The main loop ends, by command when all that was queued is executed, or *)
(* because of the user at any time: clean_up says so and removes the names *)
(* - whoever they belong to.  mymq_close does nothing if mymq_init failed. *)
(***************************************************************************)
Leave(s) ==
    /\ Stage(s, "run", "leave")
    /\ queue' = IF server[s].mq THEN Sent(server[s].tx, "quit") ELSE queue
    /\ UNCHANGED <<request, reply, notices, clientVars, executed>>

Unread(s) == IF server[s].rx = None THEN queue ELSE [queue EXCEPT ![server[s].rx] = << >>]

UnlinkOnClose(s) ==
    /\ server[s].stage = "leave"
    /\ server' = [server EXCEPT ![s] = [@ EXCEPT !.stage = "gone", !.loop = FALSE]]
    /\ queue' = Unread(s)
    /\ request' = IF server[s].mq THEN None ELSE request
    /\ reply' = IF server[s].mq THEN None ELSE reply
    /\ UNCHANGED <<notices, clientVars, executed>>

(* The process ends without clean_up: the names stay.                      *)
Crash(s) ==
    /\ server[s].stage \notin {"off", "gone"}
    /\ server' = [server EXCEPT ![s] = [@ EXCEPT !.stage = "gone", !.loop = FALSE]]
    /\ queue' = Unread(s)
    /\ mishaps < MaxMishaps /\ mishaps' = mishaps + 1
    /\ UNCHANGED <<request, reply, notices, main, reader, client, executed>>

-----------------------------------------------------------------------------
(* xjremote: the main thread                                               *)

serverVars == <<server, notices, executed, mishaps>>

Has(c, o) == o \in client[c].opts

(* unlink_queues                                                           *)
Unlinked == request' = None /\ reply' = None

Start(c, opts) ==
    /\ main[c] = "off"
    /\ main' = [main EXCEPT ![c] = "open"]
    /\ client' = [client EXCEPT ![c] = Fresh(opts)]
    /\ IF "u" \in opts THEN Unlinked ELSE UNCHANGED <<request, reply>>
    /\ UNCHANGED <<queue, serverVars, reader>>

OpenRequest(c) ==
    /\ main[c] = "open"
    /\ request # None
    /\ client' = [client EXCEPT ![c].tx = request]
    /\ main' = [main EXCEPT ![c] = "connect"]
    /\ UNCHANGED <<request, reply, queue, serverVars, reader>>

(* The child executes the first xjadeo that it finds, if any.              *)
ForkXjadeo == UNCHANGED server \/ \E s \in Servers : Stage(s, "off", "start")

(***************************************************************************)
(* There is no queue: the first time, xjadeo is launched, which may fail.  *)
(***************************************************************************)
NoQueue(c) ==
    /\ main[c] = "open"
    /\ request = None
    /\ \/ /\ Has(c, "f") \/ client[c].timeout = 0
          /\ main' = [main EXCEPT ![c] = "done"]
          /\ UNCHANGED <<client, server>>
       \/ /\ ~Has(c, "f") /\ client[c].timeout > 0
          /\ client' = [client EXCEPT ![c].timeout = @ - 1, ![c].forked = TRUE]
          /\ IF client[c].forked THEN UNCHANGED server ELSE ForkXjadeo
          /\ UNCHANGED main
    /\ UNCHANGED <<request, reply, queue, notices, executed, mishaps, reader>>

(* The reader is started; without a ping the session begins at once.       *)
Connect(c) ==
    /\ main[c] = "connect"
    /\ reader' = [reader EXCEPT ![c] = "open"]
    /\ IF Has(c, "P")
       THEN /\ client' = [client EXCEPT ![c].mute = FALSE]
            /\ main' = [main EXCEPT ![c] = "work"]
       ELSE main' = [main EXCEPT ![c] = "ping"] /\ UNCHANGED client
    /\ UNCHANGED <<request, reply, queue, serverVars>>

SendPing(c) ==
    /\ main[c] = "ping" /\ ~client[c].ping
    /\ client' = [client EXCEPT ![c] = [@ EXCEPT !.ping = TRUE, !.pong = FALSE]]
    /\ queue' = Sent(client[c].tx, Message(c, "ping", 0))
    /\ UNCHANGED <<request, reply, serverVars, main, reader>>

Alive(c) ==
    /\ main[c] = "ping" /\ client[c].pong
    /\ client' = [client EXCEPT ![c].mute = FALSE]
    /\ main' = [main EXCEPT ![c] = "work"]
    /\ UNCHANGED <<request, reply, queue, serverVars, reader>>

(***************************************************************************)
(* No answer: the queues are taken for stale.  A client that launched an   *)
(* instance removes them and ends; another one joins its reader, removes   *)
(* them and starts over.                                                   *)
(***************************************************************************)
NoPong(c) ==
    /\ main[c] = "ping" /\ client[c].ping /\ ~client[c].pong
    /\ IF client[c].forked
       THEN /\ Unlinked
            /\ main' = [main EXCEPT ![c] = "done"]
            /\ reader' = [reader EXCEPT ![c] = "none"]
            /\ UNCHANGED client
       ELSE /\ client' = [client EXCEPT ![c].loop = FALSE]
            /\ main' = [main EXCEPT ![c] = "rejoin"]
            /\ UNCHANGED <<request, reply, reader>>
    /\ UNCHANGED <<queue, serverVars>>

(* Mutant: ping_st and pong_st are not reset.                              *)
AgainKeepingPong(c) == [Fresh(client[c].opts) EXCEPT !.restarts = client[c].restarts + 1,
                                                     !.ping = client[c].ping, !.pong = client[c].pong]

Again(c) == [Fresh(client[c].opts) EXCEPT !.restarts = client[c].restarts + 1]

Restart(c) ==
    /\ main[c] = "rejoin" /\ reader[c] = "none"
    /\ client[c].restarts < MaxRestarts
    /\ client' = [client EXCEPT ![c] = Again(c)]
    /\ Unlinked
    /\ main' = [main EXCEPT ![c] = "open"]
    /\ UNCHANGED <<queue, serverVars, reader>>

(***************************************************************************)
(* dothework: a line is sent, up to nine times while the queue is full.    *)
(***************************************************************************)
Type(c, kind) ==
    /\ main[c] = "work" /\ client[c].loop
    /\ client[c].typed < MaxCommands
    /\ client' = [client EXCEPT ![c].typed = @ + 1]
    /\ queue' = Sent(client[c].tx, Message(c, kind, client'[c].typed))
    /\ UNCHANGED <<request, reply, serverVars, main, reader>>

Exit(c) ==
    /\ main[c] = "work"
    /\ client' = [client EXCEPT ![c].loop = FALSE]
    /\ main' = [main EXCEPT ![c] = "bye"]
    /\ UNCHANGED <<request, reply, queue, serverVars, reader>>

LoopEnds(c) == ~client[c].loop /\ Exit(c)

Bye(c) ==
    /\ main[c] = "bye" /\ reader[c] = "none"
    /\ main' = [main EXCEPT ![c] = "done"]
    /\ UNCHANGED <<request, reply, queue, serverVars, reader, client>>

-----------------------------------------------------------------------------
(* xjremote: the reader thread                                             *)

(* It ends when it finds loop_flag cleared after a message or a timeout.   *)
Reading(c, loop) == reader' = [reader EXCEPT ![c] = IF loop THEN "read" ELSE "none"]

(* mq_open with O_CREAT                                                    *)
OpenReply(c) ==
    /\ reader[c] = "open"
    /\ reply' = IF reply = None THEN ReaderOf(c) ELSE reply
    /\ client' = [client EXCEPT ![c].rx = reply']
    /\ Reading(c, client[c].loop)
    /\ UNCHANGED <<request, queue, serverVars, main>>

(* It fails, and the thread ends: the main thread is not told.             *)
OpenReplyFails(c) ==
    /\ reader[c] = "open"
    /\ Reading(c, FALSE)
    /\ UNCHANGED <<request, reply, queue, serverVars, main, client>>

(***************************************************************************)
(* "quit." ends a session that has begun; the first "pong." after the ping *)
(* was sent is the sign of life.                                           *)
(***************************************************************************)
IsPong(c, m) == m = "pong" /\ client[c].ping /\ ~client[c].pong
(* Mutant: only while the replies are muted.                               *)
IsEndMuted(c, m) == m = "quit" /\ client[c].mute

IsEnd(c, m)  == m = "quit" /\ ~client[c].mute

Receive(c) ==
    /\ reader[c] = "read"
    /\ queue[client[c].rx] # << >>
    /\ LET m == Head(queue[client[c].rx])
       IN  /\ client' = [client EXCEPT ![c].pong = @ \/ IsPong(c, m),
                                           ![c].loop = @ /\ ~IsEnd(c, m)]
           /\ Reading(c, client'[c].loop)
    /\ queue' = [queue EXCEPT ![client[c].rx] = Tail(@)]
    /\ UNCHANGED <<request, reply, serverVars, main>>

ReceiveTimeout(c) ==
    /\ reader[c] = "read"
    /\ queue[client[c].rx] = << >>
    /\ ~client[c].loop
    /\ Reading(c, FALSE)
    /\ UNCHANGED <<request, reply, queue, serverVars, main, client>>

-----------------------------------------------------------------------------
ServerSteps(s) == CreateRequest(s) \/ CreateReply(s) \/ Drain(s) \/ Execute(s)
                  \/ (server[s].stage = "run" /\ ~server[s].loop /\ queue[server[s].rx] = << >> /\ Leave(s))
                  \/ UnlinkOnClose(s)
ReaderSteps(c) == OpenReply(c) \/ OpenReplyFails(c) \/ Receive(c) \/ ReceiveTimeout(c)
MainSteps(c)   == OpenRequest(c) \/ NoQueue(c) \/ Connect(c) \/ SendPing(c) \/ Alive(c)
                  \/ Restart(c) \/ LoopEnds(c) \/ Bye(c)

Next == \/ \E s \in Servers : Launch(s) \/ ServerSteps(s) \/ Notify(s) \/ Leave(s) \/ Crash(s)
        \/ \E c \in Clients : \/ \E opts \in Options : Start(c, opts)
                              \/ ReaderSteps(c) \/ MainSteps(c) \/ NoPong(c)
                              \/ \E kind \in {"command", "quit"} : Type(c, kind)
                              \/ Exit(c)

(***************************************************************************)
(* The threads of a running program go on: the reader's wait ends after    *)
(* two seconds, dothework's after one.                                     *)
(***************************************************************************)
Fairness == \A c \in Clients : WF_vars(ReaderSteps(c)) /\ WF_vars(MainSteps(c) \/ NoPong(c))

Spec == Init /\ [][Next]_vars /\ Fairness

-----------------------------------------------------------------------------
(* Every variable has its type, and no queue holds more than it can.       *)
TypeOK ==
    /\ {request, reply} \subseteq Queues \cup {None}
    /\ \A q \in Queues : Len(queue[q]) <= QueueSize
    /\ \A s \in Servers :
          /\ server[s].stage \in {"off", "start", "created", "drain", "run", "leave", "gone"}
          /\ server[s].mq => server[s].stage \in {"run", "leave", "gone"}
    /\ \A c \in Clients :
          /\ main[c] \in {"off", "open", "connect", "ping", "work", "rejoin", "bye", "done"}
          /\ reader[c] \in {"none", "open", "read"}
          /\ reader[c] = "read" => client[c].rx \in Queues
          /\ main[c] \in {"connect", "ping", "work"} => client[c].tx \in Queues

(***************************************************************************)
(* The commands of a session are executed by one instance, in the order in *)
(* which they were typed and none of them twice, whatever is launched,     *)
(* killed or unlinked meanwhile.                                           *)
(***************************************************************************)
SessionHasOneServer ==
    \A c \in Clients : \A i, j \in DOMAIN executed[c] :
        i < j => /\ executed[c][i].by = executed[c][j].by
                 /\ executed[c][i].number < executed[c][j].number

(***************************************************************************)
(* A client that has had an answer to its ping reads the replies of the    *)
(* instance that it sends its commands to - unless the answer was left in  *)
(* the queue of an instance before its time, or another xjremote has been  *)
(* launched: an answer does not say whose ping it is for.                  *)
(***************************************************************************)
Alone(c) == \A d \in Clients \ {c} : main[d] = "off"

Paired == \A c \in Clients :
             Alone(c) /\ main[c] = "work" /\ client[c].pong /\ client[c].rx # ReplyOf(None) =>
                \E s \in Servers : client[c].tx = server[s].rx /\ client[c].rx = server[s].tx

(***************************************************************************)
(* A session ends when the instance says that it quits, unless another     *)
(* client takes that message.                                              *)
(***************************************************************************)
Told(c) == main[c] = "work" /\ reader[c] = "read" /\ \E i \in DOMAIN queue[client[c].rx] :
                                                          queue[client[c].rx][i] = "quit"
Shared(c) == \E d \in Clients \ {c} : reader[d] = "read" /\ client[d].rx = client[c].rx

QuitIsFollowed == \A c \in Clients : Told(c) ~> (main[c] = "done" \/ Shared(c))
=============================================================================
