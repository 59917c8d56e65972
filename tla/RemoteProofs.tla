---------------------------- MODULE RemoteProofs ----------------------------
(***************************************************************************)
(* Proofs about the remote control: about XjRemote, for any clients,       *)
(* servers, queue size and bounds, and about LineBuffer, for a buffer of   *)
(* any size and an input of any length.                                    *)
(*                                                                         *)
(* The message queues: types, one server for each queue, and that answers  *)
(* are paired with requests.                                               *)
(*                                                                         *)
(* The lines: as long as a read that ends within a line brings the end of  *)
(* at most one other, every line that is typed is executed once, as it was *)
(* typed, and the offset never becomes negative.  What was typed is cut by *)
(* a recursive function; that part begins by showing that there is one, by *)
(* the least element of a set of numbers, and how it goes on over bytes of *)
(* which none, or only the last, ends a line.                              *)
(***************************************************************************)
EXTENDS XjRemote, LineBuffer, FiniteSetTheorems, WellFoundedInduction, TLAPS

---------------------------------------------------------------------------
(* Types.  Requests are messages, replies are strings.                     *)

RequestQueues == (Servers \cup {None}) \X {1}
ReplyQueues == ((Servers \cup {None}) \X {2}) \cup (Clients \X (0 .. MaxRestarts))

MessageType == [from : Clients, kind : {"ping", "command", "quit"}, number : Nat]
Replies == {"text", "pong", "quit"}
Contents == MessageType \cup Replies

Stages == {"off", "start", "created", "drain", "run", "leave", "gone"}
MainStages == {"off", "open", "connect", "ping", "work", "rejoin", "bye", "done"}
ReaderStages == {"none", "open", "read"}

ServerType == [stage : Stages, loop : BOOLEAN, mq : BOOLEAN,
               rx : RequestQueues \cup {None}, tx : ReplyQueues \cup {None}]
ClientType == [opts : Options \cup {{}}, tx : RequestQueues \cup {None},
               rx : ReplyQueues \cup {None}, ping : BOOLEAN, pong : BOOLEAN, mute : BOOLEAN,
               loop : BOOLEAN, forked : BOOLEAN, timeout : Int, typed : Nat,
               restarts : 0 .. MaxRestarts]

\* What a server uses it has created.
OwnQueues(s) ==
  /\ server[s].stage \in {"created", "drain"} \/ server[s].mq => server[s].rx = RequestOf(s)
  /\ server[s].stage = "drain" \/ server[s].mq => server[s].tx = ReplyOf(s)
  /\ server[s].mq => server[s].stage \in {"run", "leave", "gone"}

QueueType ==
  /\ queue \in [Queues -> Seq(Contents)]
  /\ \A q \in RequestQueues : queue[q] \in Seq(MessageType)
  /\ \A q \in Queues : Len(queue[q]) <= QueueSize

ServerOK == server \in [Servers -> ServerType] /\ \A s \in Servers : OwnQueues(s)

ClientOK ==
  /\ main \in [Clients -> MainStages] /\ reader \in [Clients -> ReaderStages]
  /\ client \in [Clients -> ClientType]
  /\ \A c \in Clients :
       /\ reader[c] = "read" => client[c].rx \in ReplyQueues
       /\ main[c] \in {"connect", "ping", "work", "bye"} => client[c].tx \in RequestQueues
       /\ main[c] = "off" => reader[c] = "none"

NameType == request \in RequestQueues \cup {None} /\ reply \in ReplyQueues \cup {None}

Types == QueueType /\ ServerOK /\ ClientOK /\ NameType

LEMMA QueuesApart ==
  /\ RequestQueues \subseteq Queues /\ ReplyQueues \subseteq Queues
  /\ RequestQueues \cap ReplyQueues = {}
  /\ \A s \in Servers \cup {None} : RequestOf(s) \in RequestQueues /\ ReplyOf(s) \in ReplyQueues
  /\ \A s, t \in Servers \cup {None} : RequestOf(s) = RequestOf(t) => s = t
  BY OwnersAssumption DEF RequestQueues, ReplyQueues, Queues, RequestOf, ReplyOf

---------------------------------------------------------------------------
(* Sending. *)

LEMMA Appended ==
  ASSUME NEW S, NEW q \in Seq(S), NEW x \in S
  PROVE  /\ Append(q, x) \in Seq(S) /\ Len(Append(q, x)) = Len(q) + 1
         /\ Append(q, x)[Len(q) + 1] = x
         /\ \A i \in 1 .. Len(q) : Append(q, x)[i] = q[i]
  OBVIOUS

LEMMA Element ==
  ASSUME NEW S, NEW q \in Seq(S), NEW i \in 1 .. Len(q)
  PROVE  q[i] \in S
  OBVIOUS

LEMMA SentType ==
  ASSUME QueueType, NEW q \in Queues, NEW m \in Contents,
         q \in RequestQueues => m \in MessageType
  PROVE  /\ Sent(q, m) \in [Queues -> Seq(Contents)]
         /\ \A p \in RequestQueues : Sent(q, m)[p] \in Seq(MessageType)
         /\ \A p \in Queues : Len(Sent(q, m)[p]) <= QueueSize
         /\ \A p \in Queues \ {q} : Sent(q, m)[p] = queue[p]
         /\ Sent(q, m)[q] = queue[q] \/ Sent(q, m)[q] = Append(queue[q], m)
<1>1. queue[q] \in Seq(Contents) /\ Len(queue[q]) \in Nat
  BY DEF QueueType
<1>2. Append(queue[q], m) \in Seq(Contents) /\ Len(Append(queue[q], m)) = Len(queue[q]) + 1
  BY <1>1, Appended
<1>3. q \in RequestQueues => Append(queue[q], m) \in Seq(MessageType)
  BY Appended DEF QueueType
<1>4. CASE Sent(q, m) = queue
  BY <1>4 DEF QueueType
<1>5. CASE Len(queue[q]) < QueueSize /\ Sent(q, m) = [queue EXCEPT ![q] = Append(queue[q], m)]
  <2>1. Len(Append(queue[q], m)) <= QueueSize
    BY <1>1, <1>2, <1>5, QueueAssumption
  <2> QED
    BY <1>2, <1>3, <1>5, <2>1, QueuesApart DEF QueueType
<1> QED
  BY <1>4, <1>5 DEF Sent

---------------------------------------------------------------------------
(* Every step keeps the types. *)

LEMMA Kept ==
  /\ QueueType /\ UNCHANGED queue => QueueType'
  /\ ServerOK /\ UNCHANGED server => ServerOK'
  /\ ClientOK /\ UNCHANGED <<main, reader, client>> => ClientOK'
  /\ NameType /\ UNCHANGED <<request, reply>> => NameType'
<1>1. QueueType /\ UNCHANGED queue => QueueType'
  BY DEF QueueType
<1>2. ServerOK /\ UNCHANGED server => ServerOK'
  BY DEF ServerOK, OwnQueues
<1>3. ClientOK /\ UNCHANGED <<main, reader, client>> => ClientOK'
  BY DEF ClientOK
<1>4. NameType /\ UNCHANGED <<request, reply>> => NameType'
  BY DEF NameType
<1> QED
  BY <1>1, <1>2, <1>3, <1>4

LEMMA SentKept ==
  ASSUME QueueType, NEW q \in Queues, NEW m \in Contents,
         q \in RequestQueues => m \in MessageType, queue' = Sent(q, m)
  PROVE  QueueType'
  BY SentType DEF QueueType

\* A server's record changes, the others' do not.
LEMMA ServerKept ==
  ASSUME ServerOK, NEW s \in Servers, NEW r \in ServerType, server' = [server EXCEPT ![s] = r],
         r.stage \in {"created", "drain"} \/ r.mq => r.rx = RequestOf(s),
         r.stage = "drain" \/ r.mq => r.tx = ReplyOf(s),
         r.mq => r.stage \in {"run", "leave", "gone"}
  PROVE  ServerOK'
  BY DEF ServerOK, OwnQueues

LEMMA UnreadKept ==
  ASSUME QueueType, ServerOK, NEW s \in Servers, queue' = Unread(s)
  PROVE  QueueType'
<1>1. CASE UNCHANGED queue
  BY <1>1, Kept
<1>2. CASE queue' = [queue EXCEPT ![server[s].rx] = << >>]
  <2>1. << >> \in Seq(Contents) /\ << >> \in Seq(MessageType) /\ Len(<< >>) <= QueueSize
    BY QueueAssumption
  <2>2. \A q \in Queues : queue'[q] = queue[q] \/ queue'[q] = << >>
    BY <1>2 DEF QueueType
  <2>3. queue' \in [Queues -> Seq(Contents)]
    BY <1>2, <2>1 DEF QueueType
  <2> QED
    BY <2>1, <2>2, <2>3, QueuesApart DEF QueueType
<1> QED
  BY <1>1, <1>2 DEF Unread

LEMMA ServerTypes ==
  ASSUME Types, NEW s \in Servers, ServerSteps(s) \/ Launch(s) \/ Notify(s) \/ Leave(s) \/ Crash(s)
  PROVE  Types'
<1> DEFINE r == server[s]
<1>0. /\ QueueType /\ ServerOK /\ ClientOK /\ NameType
      /\ r \in ServerType /\ server \in [Servers -> ServerType] /\ OwnQueues(s)
  BY DEF Types, ServerOK
<1>1. CASE Launch(s)
  <2>1. server' = [server EXCEPT ![s] = [r EXCEPT !.stage = "start"]] /\ r.stage = "off"
    BY <1>0, <1>1 DEF Launch, Stage, ServerType
  <2>2. ServerOK'
    BY <1>0, <2>1, ServerKept DEF ServerType, Stages, OwnQueues
  <2> QED
    BY <1>0, <1>1, <2>2, Kept DEF Launch, clientVars, Types
<1>2. CASE CreateRequest(s)
  <2>1. CASE request = None
    <3>1. server' = [server EXCEPT ![s] = [r EXCEPT !.stage = "created", !.rx = RequestOf(s)]]
          /\ request' = RequestOf(s) /\ UNCHANGED reply
      BY <1>2, <2>1 DEF CreateRequest, Free, Opened
    <3>2. ~r.mq /\ r.stage = "start"
      BY <1>0, <1>2 DEF CreateRequest, OwnQueues
    <3>3. ServerOK' /\ NameType'
      BY <1>0, <3>1, <3>2, ServerKept, QueuesApart DEF ServerType, Stages, NameType
    <3> QED
      BY <1>0, <1>2, <3>3, Kept DEF CreateRequest, clientVars, Types
  <2>2. CASE WithoutRemote(s) /\ UNCHANGED request
    <3>1. ~r.mq /\ server' = [server EXCEPT ![s] = [r EXCEPT !.stage = "run", !.rx = None]]
      BY <1>0, <1>2, <2>2 DEF CreateRequest, OwnQueues, WithoutRemote
    <3>2. ServerOK'
      BY <1>0, <3>1, ServerKept DEF ServerType, Stages
    <3> QED
      BY <1>0, <1>2, <2>2, <3>2, Kept DEF CreateRequest, clientVars, Types
  <2> QED
    BY <1>2, <2>1, <2>2 DEF CreateRequest, Free
<1>3. CASE CreateReply(s)
  <2>0. ~r.mq /\ r.stage = "created" /\ r.rx = RequestOf(s)
    BY <1>0, <1>3 DEF CreateReply, OwnQueues
  <2>1. CASE reply = None
    <3>1. server' = [server EXCEPT ![s] = [r EXCEPT !.stage = "drain", !.tx = ReplyOf(s)]]
          /\ reply' = ReplyOf(s) /\ UNCHANGED request
      BY <1>3, <2>1 DEF CreateReply, Free, Opened
    <3>2. ServerOK' /\ NameType'
      BY <1>0, <2>0, <3>1, ServerKept, QueuesApart DEF ServerType, Stages, NameType
    <3> QED
      BY <1>0, <1>3, <3>2, Kept DEF CreateReply, clientVars, Types
  <2>2. CASE WithoutRemote(s) /\ request' = None /\ UNCHANGED reply
    <3>1. server' = [server EXCEPT ![s] = [r EXCEPT !.stage = "run", !.rx = None]]
      BY <2>2 DEF WithoutRemote
    <3>2. ServerOK' /\ NameType'
      BY <1>0, <2>0, <2>2, <3>1, ServerKept DEF ServerType, Stages, NameType
    <3> QED
      BY <1>0, <1>3, <3>2, Kept DEF CreateReply, clientVars, Types
  <2> QED
    BY <1>3, <2>1, <2>2 DEF CreateReply, Free
<1>4. CASE Drain(s)
  <2>1. r.rx = RequestOf(s) /\ r.tx = ReplyOf(s) /\ ~r.mq
        /\ server' = [server EXCEPT ![s] = [r EXCEPT !.stage = "run", !.mq = TRUE]]
    BY <1>0, <1>4 DEF Drain, OwnQueues
  <2>2. ServerOK'
    BY <1>0, <2>1, ServerKept DEF ServerType, Stages
  <2>3. r.tx \in Queues /\ r.tx \notin RequestQueues /\ "text" \in Contents
    BY <2>1, QueuesApart DEF Contents, Replies
  <2>4. QueueType'
    <3>1. queue' = [Sent(r.tx, "text") EXCEPT ![r.rx] = << >>]
      BY <1>4 DEF Drain
    <3>2. << >> \in Seq(Contents) /\ << >> \in Seq(MessageType) /\ Len(<< >>) <= QueueSize
      BY QueueAssumption
    <3>3. \A q \in Queues : queue'[q] = Sent(r.tx, "text")[q] \/ queue'[q] = << >>
      BY <1>0, <2>3, <3>1, SentType
    <3>4. queue' \in [Queues -> Seq(Contents)]
      BY <1>0, <2>3, <3>1, <3>2, SentType
    <3> QED
      BY <1>0, <2>3, <3>2, <3>3, <3>4, SentType, QueuesApart DEF QueueType
  <2> QED
    BY <1>0, <1>4, <2>2, <2>4, Kept DEF Drain, clientVars, Types
<1>5. CASE Execute(s)
  <2> DEFINE m == Head(queue[r.rx])
  <2>1. r.rx = RequestOf(s) /\ r.tx = ReplyOf(s) /\ r.mq
    BY <1>0, <1>5 DEF Execute, OwnQueues
  <2>2. r.rx \in RequestQueues /\ r.rx \in Queues /\ r.tx \in Queues /\ r.tx \notin RequestQueues
    BY <2>1, QueuesApart
  <2>3. queue[r.rx] # << >> /\ queue[r.rx] \in Seq(MessageType) /\ Len(queue[r.rx]) <= QueueSize
    BY <1>0, <1>5, <2>2 DEF Execute, QueueType
  <2>4. Tail(queue[r.rx]) \in Seq(MessageType) /\ Len(Tail(queue[r.rx])) <= QueueSize
    BY <2>3, QueueAssumption
  <2>5. server' = [server EXCEPT ![s] = [r EXCEPT !.loop = @ /\ m.kind # "quit"]]
    BY <1>5 DEF Execute
  <2>6. ServerOK'
    BY <1>0, <2>1, <2>5, ServerKept DEF ServerType, OwnQueues
  <2>7. Answer(m) \in Contents
    BY DEF Answer, Contents, Replies
  <2>8. Tail(queue[r.rx]) \in Seq(Contents)
    BY <2>4, <2>3 DEF Contents
  <2>9. queue' = [Sent(r.tx, Answer(m)) EXCEPT ![r.rx] = Tail(queue[r.rx])]
    <3>0. r.rx \in Queues \ {r.tx}
      BY <2>2
    <3> HIDE DEF m, r
    <3>1. Sent(r.tx, Answer(m))[r.rx] = queue[r.rx]
      BY <1>0, <2>2, <2>7, <3>0, SentType
    <3>2. \A T, y : T[r.rx] = y => [T EXCEPT ![r.rx] = Tail(@)] = [T EXCEPT ![r.rx] = Tail(y)]
      OBVIOUS
    <3>3. queue' = [Sent(r.tx, Answer(m)) EXCEPT ![r.rx] = Tail(@)]
      BY <1>5 DEF Execute, m, r
    <3> QED
      BY <3>1, <3>2, <3>3
  <2>10. QueueType'
    <3>1. \A q \in Queues : queue'[q] = IF q = r.rx THEN Tail(queue[r.rx])
                                         ELSE Sent(r.tx, Answer(m))[q]
      BY <1>0, <2>2, <2>7, <2>9, SentType
    <3>2. queue' \in [Queues -> Seq(Contents)]
      BY <1>0, <2>2, <2>7, <2>8, <2>9, SentType
    <3> QED
      BY <1>0, <2>2, <2>4, <2>7, <3>1, <3>2, SentType, QueuesApart DEF QueueType
  <2> QED
    BY <1>0, <1>5, <2>6, <2>10, Kept DEF Execute, clientVars, Types
<1>6. CASE Notify(s) \/ Leave(s)
  <2>1. r.mq => r.tx \in Queues /\ r.tx \notin RequestQueues
    BY <1>0, QueuesApart DEF OwnQueues
  <2>2. "text" \in Contents /\ "quit" \in Contents
    BY DEF Contents, Replies
  <2>3. QueueType'
    BY <1>0, <1>6, <2>1, <2>2, SentKept, Kept DEF Notify, Leave
  <2>4. ServerOK'
    <3>1. CASE Notify(s)
      BY <1>0, <3>1, Kept DEF Notify
    <3>2. CASE Leave(s)
      <4>1. server' = [server EXCEPT ![s] = [r EXCEPT !.stage = "leave"]] /\ r.stage = "run"
        BY <3>2 DEF Leave, Stage
      <4> QED
        BY <1>0, <4>1, ServerKept DEF ServerType, Stages, OwnQueues
    <3> QED
      BY <1>6, <3>1, <3>2
  <2> QED
    BY <1>0, <1>6, <2>3, <2>4, Kept DEF Notify, Leave, clientVars, Types
<1>7. CASE UnlinkOnClose(s) \/ Crash(s)
  <2>1. server' = [server EXCEPT ![s] = [r EXCEPT !.stage = "gone", !.loop = FALSE]]
        /\ queue' = Unread(s)
    BY <1>7 DEF UnlinkOnClose, Crash
  <2>2. ServerOK'
    BY <1>0, <2>1, ServerKept DEF ServerType, Stages, OwnQueues
  <2>3. QueueType'
    BY <1>0, <2>1, UnreadKept
  <2>4. NameType'
    BY <1>0, <1>7 DEF UnlinkOnClose, Crash, NameType
  <2> QED
    BY <1>0, <1>7, <2>2, <2>3, <2>4, Kept DEF UnlinkOnClose, Crash, clientVars, Types
<1> QED
  BY <1>1, <1>2, <1>3, <1>4, <1>5, <1>6, <1>7 DEF ServerSteps

\* A client's record and stages change, the others' do not.
LEMMA ClientKept ==
  ASSUME ClientOK, NEW c \in Clients, NEW r \in ClientType, NEW m \in MainStages,
         NEW d \in ReaderStages,
         client' = [client EXCEPT ![c] = r], main' = [main EXCEPT ![c] = m],
         reader' = [reader EXCEPT ![c] = d],
         d = "read" => r.rx \in ReplyQueues, m = "off" => d = "none",
         m \in {"connect", "ping", "work", "bye"} => r.tx \in RequestQueues
  PROVE  ClientOK'
  BY DEF ClientOK

\* The stages stay as they are.
LEMMA ClientSet ==
  ASSUME ClientOK, NEW c \in Clients, NEW r \in ClientType,
         client' = [client EXCEPT ![c] = r], UNCHANGED <<main, reader>>,
         reader[c] = "read" => r.rx \in ReplyQueues,
         main[c] \in {"connect", "ping", "work", "bye"} => r.tx \in RequestQueues
  PROVE  ClientOK'
  BY DEF ClientOK

LEMMA FreshType ==
  \A opts \in Options \cup {{}} : Fresh(opts) \in ClientType
  BY BoundsAssumption DEF Fresh, ClientType

LEMMA ServersStay ==
  ASSUME ServerOK, UNCHANGED server \/ \E s \in Servers : Stage(s, "off", "start")
  PROVE  ServerOK'
<1>1. CASE UNCHANGED server
  BY <1>1, Kept
<1>2. ASSUME NEW s \in Servers, Stage(s, "off", "start")
      PROVE  ServerOK'
  <2>1. server' = [server EXCEPT ![s] = [server[s] EXCEPT !.stage = "start"]]
        /\ server[s].stage = "off" /\ server[s] \in ServerType /\ OwnQueues(s)
    BY <1>2 DEF Stage, ServerOK
  <2> QED
    BY <2>1, ServerKept DEF ServerType, Stages, OwnQueues
<1> QED
  BY <1>1, <1>2

LEMMA ClientTypes ==
  ASSUME Types, NEW c \in Clients,
         \/ \E opts \in Options : Start(c, opts)
         \/ ReaderSteps(c) \/ MainSteps(c) \/ NoPong(c)
         \/ \E kind \in {"command", "quit"} : Type(c, kind)
         \/ Exit(c)
  PROVE  Types'
<1> DEFINE r == client[c]
<1>0. /\ QueueType /\ ServerOK /\ ClientOK /\ NameType
      /\ r \in ClientType /\ main[c] \in MainStages /\ reader[c] \in ReaderStages
      /\ (reader[c] = "read" => r.rx \in ReplyQueues)
      /\ (main[c] \in {"connect", "ping", "work", "bye"} => r.tx \in RequestQueues)
      /\ (main[c] = "off" => reader[c] = "none")
      /\ client = [client EXCEPT ![c] = r] /\ main = [main EXCEPT ![c] = main[c]]
      /\ reader = [reader EXCEPT ![c] = reader[c]]
  BY DEF Types, ClientOK
<1> USE DEF MainStages, ReaderStages
<1>1. ASSUME NEW opts \in Options, Start(c, opts)
      PROVE  Types'
  <2>0. /\ client' = [client EXCEPT ![c] = Fresh(opts)] /\ main' = [main EXCEPT ![c] = "open"]
        /\ UNCHANGED reader /\ Fresh(opts) \in ClientType
    BY <1>1, FreshType DEF Start
  <2>1. ClientOK'
    <3>1. reader[c] = "none" /\ reader' = [reader EXCEPT ![c] = "none"]
      BY <1>0, <1>1, <2>0 DEF Start
    <3> QED
      BY <1>0, <2>0, <3>1, ClientKept
  <2>2. NameType'
    BY <1>0, <1>1 DEF Start, Unlinked, NameType
  <2> QED
    BY <1>0, <1>1, <2>1, <2>2, Kept DEF Start, serverVars, Types
<1>2. CASE OpenRequest(c)
  <2>1. client' = [client EXCEPT ![c] = [r EXCEPT !.tx = request]] /\ request \in RequestQueues
    BY <1>0, <1>2 DEF OpenRequest, NameType
  <2>2. ClientOK'
    <3>1. [r EXCEPT !.tx = request] \in ClientType /\ [r EXCEPT !.tx = request].rx = r.rx
          /\ [r EXCEPT !.tx = request].tx = request
      BY <1>0, <2>1 DEF ClientType
    <3>2. main' = [main EXCEPT ![c] = "connect"] /\ UNCHANGED reader
      BY <1>2 DEF OpenRequest
    <3> QED
      BY <1>0, <2>1, <3>1, <3>2, ClientKept
  <2> QED
    BY <1>0, <1>2, <2>2, Kept DEF OpenRequest, serverVars, Types
<1>3. CASE NoQueue(c)
  <2>1. ClientOK'
    <3>1. CASE main' = [main EXCEPT ![c] = "done"] /\ UNCHANGED client
      BY <1>0, <1>3, <3>1, ClientKept DEF NoQueue
    <3>2. CASE client' = [client EXCEPT ![c] = [r EXCEPT !.timeout = r.timeout - 1, !.forked = TRUE]]
               /\ UNCHANGED main
      <4> DEFINE n == [r EXCEPT !.timeout = r.timeout - 1, !.forked = TRUE]
      <4>0. r \in ClientType /\ r.timeout - 1 \in Int
        BY <1>0 DEF ClientType
      <4>1. n \in ClientType /\ n.rx = r.rx /\ n.tx = r.tx
        BY <4>0 DEF ClientType
      <4> QED
        BY <1>0, <1>3, <3>2, <4>1, ClientSet DEF NoQueue
    <3>3. \/ main' = [main EXCEPT ![c] = "done"] /\ UNCHANGED client
          \/ /\ client' = [client EXCEPT ![c].timeout = @ - 1, ![c].forked = TRUE]
             /\ UNCHANGED main
      BY <1>3 DEF NoQueue
    <3>4. [client EXCEPT ![c].timeout = @ - 1, ![c].forked = TRUE]
          = [client EXCEPT ![c] = [r EXCEPT !.timeout = r.timeout - 1, !.forked = TRUE]]
      BY <1>0 DEF ClientType
    <3> HIDE DEF r
    <3> QED
      BY <3>1, <3>2, <3>3, <3>4
  <2>2. ServerOK'
    BY <1>0, <1>3, ServersStay DEF NoQueue, ForkXjadeo
  <2> QED
    BY <1>0, <1>3, <2>1, <2>2, Kept DEF NoQueue, Types
<1>4. CASE Connect(c)
  <2>1. ClientOK'
    <3>1. CASE client' = [client EXCEPT ![c] = [r EXCEPT !.mute = FALSE]]
               /\ main' = [main EXCEPT ![c] = "work"]
      BY <1>0, <1>4, <3>1, ClientKept DEF Connect, ClientType
    <3>2. CASE main' = [main EXCEPT ![c] = "ping"] /\ UNCHANGED client
      BY <1>0, <1>4, <3>2, ClientKept DEF Connect
    <3> QED
      BY <1>4, <3>1, <3>2 DEF Connect
  <2> QED
    BY <1>0, <1>4, <2>1, Kept DEF Connect, serverVars, Types
<1>5. CASE SendPing(c)
  <2>1. client' = [client EXCEPT ![c] = [r EXCEPT !.ping = TRUE, !.pong = FALSE]]
        /\ UNCHANGED <<main, reader>>
    BY <1>5 DEF SendPing
  <2>2. ClientOK'
    <3>1. [r EXCEPT !.ping = TRUE, !.pong = FALSE] \in ClientType
          /\ [r EXCEPT !.ping = TRUE, !.pong = FALSE].rx = r.rx
          /\ [r EXCEPT !.ping = TRUE, !.pong = FALSE].tx = r.tx
      BY <1>0 DEF ClientType
    <3> QED
      BY <1>0, <2>1, <3>1, ClientSet
  <2>3. Message(c, "ping", 0) \in MessageType /\ Message(c, "ping", 0) \in Contents
        /\ r.tx \in Queues
    BY <1>0, <1>5, QueuesApart DEF SendPing, Message, MessageType, Contents
  <2>4. QueueType'
    BY <1>0, <1>5, <2>3, SentKept DEF SendPing
  <2> QED
    BY <1>0, <1>5, <2>2, <2>4, Kept DEF SendPing, serverVars, Types
<1>6. CASE Alive(c)
  <2>1. client' = [client EXCEPT ![c] = [r EXCEPT !.mute = FALSE]]
        /\ main' = [main EXCEPT ![c] = "work"] /\ UNCHANGED reader /\ main[c] = "ping"
    BY <1>6 DEF Alive
  <2>2. ClientOK'
    BY <1>0, <2>1, ClientKept DEF ClientType
  <2> QED
    BY <1>0, <1>6, <2>2, Kept DEF Alive, serverVars, Types
<1>7. CASE NoPong(c)
  <2>1. ClientOK'
    <3>1. CASE main' = [main EXCEPT ![c] = "done"] /\ reader' = [reader EXCEPT ![c] = "none"]
               /\ UNCHANGED client
      BY <1>0, <3>1, ClientKept
    <3>2. CASE client' = [client EXCEPT ![c] = [r EXCEPT !.loop = FALSE]]
               /\ main' = [main EXCEPT ![c] = "rejoin"] /\ UNCHANGED reader
      BY <1>0, <3>2, ClientKept DEF ClientType
    <3> QED
      BY <1>7, <3>1, <3>2 DEF NoPong
  <2>2. NameType'
    BY <1>0, <1>7 DEF NoPong, Unlinked, NameType
  <2> QED
    BY <1>0, <1>7, <2>1, <2>2, Kept DEF NoPong, serverVars, Types
<1>8. CASE Restart(c)
  <2>1. Again(c) \in ClientType
    <3>1. Fresh(r.opts) \in ClientType /\ r.restarts + 1 \in 0 .. MaxRestarts
      BY <1>0, <1>8, FreshType, BoundsAssumption DEF Restart, ClientType
    <3> QED
      BY <3>1 DEF Again, ClientType
  <2>2. ClientOK'
    BY <1>0, <1>8, <2>1, ClientKept DEF Restart
  <2>3. NameType'
    BY <1>8 DEF Restart, Unlinked, NameType
  <2> QED
    BY <1>0, <1>8, <2>2, <2>3, Kept DEF Restart, serverVars, Types
<1>9. ASSUME NEW kind \in {"command", "quit"}, Type(c, kind)
      PROVE  Types'
  <2>1. client' = [client EXCEPT ![c] = [r EXCEPT !.typed = r.typed + 1]]
        /\ UNCHANGED <<main, reader>>
        /\ queue' = Sent(r.tx, Message(c, kind, client'[c].typed)) /\ main[c] = "work"
    BY <1>9 DEF Type
  <2>2. ClientOK'
    <3>1. [r EXCEPT !.typed = r.typed + 1] \in ClientType
          /\ [r EXCEPT !.typed = r.typed + 1].rx = r.rx /\ [r EXCEPT !.typed = r.typed + 1].tx = r.tx
      BY <1>0 DEF ClientType
    <3> QED
      BY <1>0, <2>1, <3>1, ClientSet
  <2>3. client'[c].typed \in Nat
    BY <2>2 DEF ClientOK, ClientType
  <2>4. Message(c, kind, client'[c].typed) \in MessageType
        /\ Message(c, kind, client'[c].typed) \in Contents /\ r.tx \in Queues
    BY <1>0, <2>1, <2>3, QueuesApart DEF Message, MessageType, Contents
  <2>5. QueueType'
    BY <1>0, <2>1, <2>4, SentKept
  <2> QED
    BY <1>0, <1>9, <2>2, <2>5, Kept DEF Type, serverVars, Types
<1>10. CASE Exit(c) \/ LoopEnds(c)
  <2>1. client' = [client EXCEPT ![c] = [r EXCEPT !.loop = FALSE]]
        /\ main' = [main EXCEPT ![c] = "bye"] /\ main[c] = "work"
        /\ UNCHANGED <<request, reply, queue, serverVars, reader>>
    BY <1>10 DEF Exit, LoopEnds
  <2>2. ClientOK'
    BY <1>0, <2>1, ClientKept DEF ClientType
  <2> QED
    BY <1>0, <2>1, <2>2, Kept DEF serverVars, Types
<1>11. CASE Bye(c)
  <2>1. ClientOK'
    BY <1>0, <1>11, ClientKept DEF Bye
  <2> QED
    BY <1>0, <1>11, <2>1, Kept DEF Bye, serverVars, Types
<1>12. CASE OpenReply(c)
  <2>1. NameType' /\ reply' \in ReplyQueues
    BY <1>0, <1>12 DEF OpenReply, NameType, ReaderOf, ReplyQueues, ClientType
  <2>2. client' = [client EXCEPT ![c] = [r EXCEPT !.rx = reply']]
        /\ reader' = [reader EXCEPT ![c] = IF r.loop THEN "read" ELSE "none"] /\ UNCHANGED main
    BY <1>12 DEF OpenReply, Reading
  <2>3. [r EXCEPT !.rx = reply'] \in ClientType
    BY <1>0, <2>1 DEF ClientType
  <2>4. ClientOK'
    <3>1. main[c] # "off"
      BY <1>0, <1>12 DEF OpenReply
    <3> DEFINE d == IF r.loop THEN "read" ELSE "none"
    <3>2. d \in ReaderStages /\ [r EXCEPT !.rx = reply'].rx = reply' /\ [r EXCEPT !.rx = reply'].tx = r.tx
      BY <1>0 DEF ClientType
    <3> HIDE DEF d
    <3>3. reader' = [reader EXCEPT ![c] = d]
      BY <2>2 DEF d
    <3> QED
      BY <1>0, <2>1, <2>2, <2>3, <3>1, <3>2, <3>3, ClientKept
  <2> QED
    BY <1>0, <1>12, <2>1, <2>4, Kept DEF OpenReply, serverVars, Types
<1>13. CASE Receive(c)
  <2>1. PICK d \in ReaderStages :
          d # "open" /\ reader' = [reader EXCEPT ![c] = d]
    BY <1>13 DEF Receive, Reading
  <2>2. PICK p \in BOOLEAN, l \in BOOLEAN :
          client' = [client EXCEPT ![c] = [r EXCEPT !.pong = p, !.loop = l]]
    <3> DEFINE m == Head(queue[r.rx])
               p == r.pong \/ IsPong(c, m)
               l == r.loop /\ ~IsEnd(c, m)
    <3>1. p \in BOOLEAN /\ l \in BOOLEAN
      OBVIOUS
    <3>2. client' = [client EXCEPT ![c].pong = p, ![c].loop = l]
      BY <1>13 DEF Receive
    <3> HIDE DEF p, l
    <3>3. [client EXCEPT ![c].pong = p, ![c].loop = l]
          = [client EXCEPT ![c] = [r EXCEPT !.pong = p, !.loop = l]]
      BY <1>0
    <3> QED
      BY <3>1, <3>2, <3>3
  <2>3. ClientOK'
    <3>1. [r EXCEPT !.pong = p, !.loop = l] \in ClientType
          /\ [r EXCEPT !.pong = p, !.loop = l].rx = r.rx /\ [r EXCEPT !.pong = p, !.loop = l].tx = r.tx
      BY <1>0 DEF ClientType
    <3>2. r.rx \in ReplyQueues /\ UNCHANGED main /\ main[c] # "off"
      BY <1>0, <1>13 DEF Receive
    <3> QED
      BY <1>0, <2>1, <2>2, <3>1, <3>2, ClientKept
  <2>4. r.rx \in Queues /\ r.rx \notin RequestQueues /\ queue[r.rx] # << >>
        /\ queue[r.rx] \in Seq(Contents) /\ Len(queue[r.rx]) <= QueueSize
    BY <1>0, <1>13, QueuesApart DEF Receive, QueueType
  <2>5. Tail(queue[r.rx]) \in Seq(Contents) /\ Len(Tail(queue[r.rx])) <= QueueSize
    BY <2>4, QueueAssumption
  <2>6. queue' = [queue EXCEPT ![r.rx] = Tail(queue[r.rx])]
    BY <1>13 DEF Receive
  <2>7. QueueType'
    BY <1>0, <2>4, <2>5, <2>6 DEF QueueType
  <2> QED
    BY <1>0, <1>13, <2>3, <2>7, Kept DEF Receive, serverVars, Types
<1>14. CASE ReceiveTimeout(c) \/ OpenReplyFails(c)
  <2>1. ClientOK'
    <3>1. CASE ReceiveTimeout(c)
      BY <1>0, <3>1, ClientKept DEF ReceiveTimeout, Reading
    <3>2. CASE OpenReplyFails(c)
      BY <1>0, <3>2, ClientKept DEF OpenReplyFails, Reading
    <3> QED
      BY <1>14, <3>1, <3>2
  <2> QED
    BY <1>0, <1>14, <2>1, Kept DEF ReceiveTimeout, OpenReplyFails, serverVars, Types
<1> QED
  BY <1>1, <1>2, <1>3, <1>4, <1>5, <1>6, <1>7, <1>8, <1>9, <1>10, <1>11, <1>12, <1>13, <1>14
     DEF MainSteps, ReaderSteps

LEMMA TypesNext ==
  ASSUME Types, [Next]_vars
  PROVE  Types'
<1>1. CASE Next
  BY <1>1, ServerTypes, ClientTypes DEF Next
<1>2. CASE UNCHANGED vars
  BY <1>2, Kept DEF vars, Types
<1> QED
  BY <1>1, <1>2

LEMMA TypesInit ==
  ASSUME Init
  PROVE  Types
<1>1. QueueType
  <2>1. PICK left \in Left : queue = [q \in Queues |-> IF q = ReplyOf(None) THEN left ELSE << >>]
    BY QueueAssumption DEF Init, Left
  <2>2. left \in Seq(Contents) /\ Len(left) <= QueueSize
    <3>1. << >> \in Seq(Contents) /\ <<"pong", "quit">> \in Seq(Contents)
      BY DEF Contents, Replies
    <3> QED
      BY <3>1 DEF Left
  <2>3. << >> \in Seq(Contents) /\ << >> \in Seq(MessageType) /\ Len(<< >>) <= QueueSize
    BY QueueAssumption
  <2>4. ReplyOf(None) \notin RequestQueues
    BY QueuesApart
  <2> QED
    BY <2>1, <2>2, <2>3, <2>4, QueuesApart DEF QueueType
<1>2. ServerOK
  <2>1. [stage |-> "off", loop |-> TRUE, mq |-> FALSE, rx |-> None, tx |-> None] \in ServerType
    BY DEF ServerType, Stages
  <2> QED
    BY <2>1 DEF Init, ServerOK, OwnQueues
<1>3. ClientOK
  BY FreshType DEF Init, ClientOK, MainStages, ReaderStages
<1>4. NameType
  BY QueuesApart DEF Init, NameType
<1> QED
  BY <1>1, <1>2, <1>3, <1>4 DEF Types

---------------------------------------------------------------------------
(* Commands wait where their client has its request queue, in the order in *)
(* which they were typed, and behind what was executed.                    *)

Working == {"work", "bye", "done"}

Awaits(m, q) ==
  /\ main[m.from] \in Working
  /\ client[m.from].tx = q
  /\ m.number <= client[m.from].typed
  /\ \A k \in 1 .. Len(executed[m.from]) : executed[m.from][k].number < m.number

Before(m, n) ==
  m.from = n.from /\ m.kind # "ping" /\ n.kind # "ping" => m.number < n.number

Waiting(q) == \A i \in 1 .. Len(queue[q]) :
                /\ queue[q][i].kind # "ping" => Awaits(queue[q][i], q)
                /\ \A j \in 1 .. Len(queue[q]) : i < j => Before(queue[q][i], queue[q][j])

ExecutedBy(c) ==
  /\ executed[c] \in Seq([number : Nat, by : Servers])
  /\ \A i \in 1 .. Len(executed[c]) :
       /\ main[c] \in Working
       /\ client[c].tx = RequestOf(executed[c][i].by)
       /\ executed[c][i].number <= client[c].typed
       /\ \A j \in 1 .. Len(executed[c]) : i < j => executed[c][i].number < executed[c][j].number

Inv ==
  /\ Types
  /\ \A q \in RequestQueues : Waiting(q)
  /\ executed \in [Clients -> Seq([number : Nat, by : Servers])]
  /\ \A c \in Clients : ExecutedBy(c)

\* A session that has begun keeps its queue and its count.
SessionsKept ==
  \A c \in Clients : main[c] \in Working =>
     /\ main'[c] \in Working
     /\ client'[c].tx = client[c].tx
     /\ client'[c].typed \in Nat /\ client'[c].typed >= client[c].typed

LEMMA AwaitsKept ==
  ASSUME Inv, SessionsKept, NEW m \in MessageType, NEW q,
         executed'[m.from] = executed[m.from], Awaits(m, q)
  PROVE  Awaits(m, q)'
<1>1. m.from \in Clients /\ m.number \in Nat /\ client[m.from].typed \in Nat
  BY DEF MessageType, Inv, Types, ClientOK, ClientType
<1> QED
  BY <1>1 DEF Awaits, SessionsKept

LEMMA ExecutedKept ==
  ASSUME Inv, SessionsKept, NEW c \in Clients, executed'[c] = executed[c]
  PROVE  ExecutedBy(c)'
<1>1. client[c].typed \in Nat /\ ExecutedBy(c)
  BY DEF Inv, Types, ClientOK, ClientType
<1>2. \A i \in 1 .. Len(executed[c]) : executed[c][i].number \in Nat
  <2>1. executed[c] \in Seq([number : Nat, by : Servers])
    BY <1>1 DEF ExecutedBy
  <2>2. \A i \in 1 .. Len(executed[c]) : executed[c][i] \in [number : Nat, by : Servers]
    BY <2>1, Element
  <2> QED
    BY <2>2
<1>3. \A i \in 1 .. Len(executed[c]) : executed[c][i].number <= client[c].typed /\ main[c] \in Working
  BY <1>1 DEF ExecutedBy
<1>4. (Len(executed[c]) > 0 => /\ main'[c] \in Working /\ client'[c].tx = client[c].tx
                               /\ client'[c].typed \in Nat /\ client'[c].typed >= client[c].typed)
      /\ Len(executed[c]) \in Nat
  BY <1>1, <1>3 DEF SessionsKept, ExecutedBy
<1>5. \A i \in 1 .. Len(executed[c]) : executed[c][i].number <= client'[c].typed
  BY <1>1, <1>2, <1>3, <1>4
<1> QED
  BY <1>1, <1>4, <1>5 DEF ExecutedBy, RequestOf

\* Nothing is added to a request queue.
LEMMA Quiet ==
  ASSUME Inv, Types', SessionsKept, UNCHANGED executed,
         \A q \in RequestQueues : queue'[q] = queue[q] \/ queue'[q] = << >>
  PROVE  Inv'
<1>1. ASSUME NEW q \in RequestQueues
      PROVE  Waiting(q)'
  <2>1. CASE queue'[q] = << >>
    BY <2>1 DEF Waiting
  <2>2. CASE queue'[q] = queue[q]
    <3>1. \A i \in 1 .. Len(queue[q]) : queue[q][i] \in MessageType
      BY DEF Inv, Types, QueueType
    <3>2. Waiting(q)
      BY DEF Inv
    <3>3. \A m \in MessageType : Awaits(m, q) => Awaits(m, q)'
      BY AwaitsKept
    <3> QED
      BY <2>2, <3>1, <3>2, <3>3 DEF Waiting, Before, Awaits
  <2> QED
    BY <2>1, <2>2
<1>2. \A c \in Clients : ExecutedBy(c)'
  BY ExecutedKept
<1> QED
  BY <1>1, <1>2 DEF Inv

\* A message that follows those of a queue is added to it.
LEMMA Adding ==
  ASSUME Inv, Types', SessionsKept, UNCHANGED executed, NEW t \in RequestQueues,
         NEW m \in MessageType, queue'[t] = queue[t] \/ queue'[t] = Append(queue[t], m),
         \A q \in RequestQueues \ {t} : queue'[q] = queue[q],
         m.kind # "ping" => Awaits(m, t)',
         \A i \in 1 .. Len(queue[t]) : Before(queue[t][i], m)
  PROVE  Inv'
<1>1. CASE queue'[t] = queue[t]
  BY <1>1, Quiet
<1>2. CASE queue'[t] = Append(queue[t], m)
  <2>1. ASSUME NEW q \in RequestQueues
        PROVE  Waiting(q)'
    <3>1. queue[q] \in Seq(MessageType) /\ Waiting(q)
      BY DEF Inv, Types, QueueType
    <3>2. \A i \in 1 .. Len(queue[q]) : queue[q][i] \in MessageType
      BY <3>1, Element
    <3>3. \A n \in MessageType : Awaits(n, q) => Awaits(n, q)'
      BY AwaitsKept
    <3>4. CASE q # t
      BY <3>1, <3>2, <3>3, <3>4 DEF Waiting, Before, Awaits
    <3>5. CASE q = t
      <4> DEFINE new == Append(queue[q], m)
      <4>1. Len(new) = Len(queue[q]) + 1 /\ new[Len(queue[q]) + 1] = m /\ Len(queue[q]) \in Nat
            /\ \A i \in 1 .. Len(queue[q]) : new[i] = queue[q][i]
        BY <3>1, Appended
      <4>2. queue'[q] = new
        BY <1>2, <3>5
      <4> HIDE DEF new
      <4>3. \A i \in 1 .. Len(new) : \/ i = Len(queue[q]) + 1 /\ new[i] = m
                                     \/ i \in 1 .. Len(queue[q]) /\ new[i] = queue[q][i]
        BY <4>1
      <4>4. ASSUME NEW i \in 1 .. Len(new), new[i].kind # "ping"
            PROVE  /\ main'[new[i].from] \in Working
                   /\ client'[new[i].from].tx = q
                   /\ new[i].number <= client'[new[i].from].typed
                   /\ \A k \in 1 .. Len(executed'[new[i].from]) :
                         executed'[new[i].from][k].number < new[i].number
        <5>1. CASE new[i] = m
          BY <3>5, <4>4, <5>1 DEF Awaits
        <5>2. CASE i \in 1 .. Len(queue[q]) /\ new[i] = queue[q][i]
          <6>1. PICK n \in MessageType : n = queue[q][i]
            BY <3>2, <5>2
          <6>2. Awaits(n, q)'
            BY <3>1, <3>3, <4>4, <5>2, <6>1 DEF Waiting
          <6> QED
            BY <5>2, <6>1, <6>2 DEF Awaits
        <5> QED
          BY <4>3, <5>1, <5>2
      <4>5. ASSUME NEW i \in 1 .. Len(new), NEW j \in 1 .. Len(new), i < j
            PROVE  Before(new[i], new[j])
        <5>1. i \in 1 .. Len(queue[q]) /\ new[i] = queue[q][i]
          BY <4>1, <4>5
        <5>2. CASE new[j] = m
          BY <3>5, <5>1, <5>2
        <5>3. CASE j \in 1 .. Len(queue[q]) /\ new[j] = queue[q][j]
          BY <3>1, <4>5, <5>1, <5>3 DEF Waiting
        <5> QED
          BY <4>3, <5>2, <5>3
      <4> QED
        BY <4>2, <4>4, <4>5 DEF Waiting, Awaits, Before
    <3> QED
      BY <3>4, <3>5
  <2>2. \A c \in Clients : ExecutedBy(c)'
    BY ExecutedKept
  <2> QED
    BY <2>1, <2>2 DEF Inv
<1> QED
  BY <1>1, <1>2

LEMMA Idle ==
  ASSUME Inv, UNCHANGED <<main, client>>
  PROVE  SessionsKept
  BY DEF Inv, Types, ClientOK, ClientType, SessionsKept

LEMMA SentElsewhere ==
  ASSUME Inv, NEW t \in Queues \ RequestQueues, NEW m \in Contents, NEW q \in RequestQueues
  PROVE  Sent(t, m)[q] = queue[q]
<1>1. q \in Queues \ {t}
  BY QueuesApart
<1> QED
  BY <1>1, SentType DEF Inv, Types

LEMMA ServerInv ==
  ASSUME Inv, NEW s \in Servers,
         ServerSteps(s) \/ Launch(s) \/ Notify(s) \/ Leave(s) \/ Crash(s), ~Execute(s)
  PROVE  Inv'
<1> DEFINE r == server[s]
<1>1. Types /\ Types'
  BY ServerTypes DEF Inv
<1>2. r \in ServerType /\ OwnQueues(s) /\ QueueType
  BY <1>1 DEF Types, ServerOK
<1>3. UNCHANGED executed /\ SessionsKept
  BY Idle DEF ServerSteps, Launch, CreateRequest, CreateReply, Drain, Notify, Leave,
              UnlinkOnClose, Crash, clientVars
<1>4. "text" \in Contents /\ "quit" \in Contents
  BY DEF Contents, Replies
<1>5. CASE Launch(s) \/ CreateRequest(s) \/ CreateReply(s)
  BY <1>1, <1>3, <1>5, Quiet DEF Launch, CreateRequest, CreateReply
<1>6. CASE Drain(s)
  <2>1. r.tx \in Queues \ RequestQueues
    BY <1>2, <1>6, QueuesApart DEF Drain, OwnQueues
  <2>2. queue' = [Sent(r.tx, "text") EXCEPT ![r.rx] = << >>]
        /\ Sent(r.tx, "text") \in [Queues -> Seq(Contents)]
    BY <1>2, <1>4, <1>6, <2>1, SentType DEF Drain
  <2>3. \A q \in RequestQueues : queue'[q] = Sent(r.tx, "text")[q] \/ queue'[q] = << >>
    BY <2>2, QueuesApart
  <2> QED
    BY <1>1, <1>3, <1>4, <2>1, <2>3, SentElsewhere, Quiet
<1>7. CASE Notify(s) \/ Leave(s)
  <2>1. CASE UNCHANGED queue
    BY <1>1, <1>3, <2>1, Quiet
  <2>2. CASE r.mq /\ (queue' = Sent(r.tx, "text") \/ queue' = Sent(r.tx, "quit"))
    <3>1. r.tx \in Queues \ RequestQueues
      BY <1>2, <2>2, QueuesApart DEF OwnQueues
    <3> QED
      BY <1>1, <1>3, <1>4, <2>2, <3>1, SentElsewhere, Quiet
  <2> QED
    BY <1>7, <2>1, <2>2 DEF Notify, Leave
<1>8. CASE UnlinkOnClose(s) \/ Crash(s)
  <2>1. queue' = queue \/ queue' = [queue EXCEPT ![r.rx] = << >>]
    BY <1>8 DEF UnlinkOnClose, Crash, Unread
  <2>2. \A q \in RequestQueues : queue'[q] = queue[q] \/ queue'[q] = << >>
    BY <1>2, <2>1, QueuesApart DEF QueueType
  <2> QED
    BY <1>1, <1>3, <2>2, Quiet
<1> QED
  BY <1>5, <1>6, <1>7, <1>8 DEF ServerSteps

LEMMA ClientInv ==
  ASSUME Inv, NEW c \in Clients,
         \/ \E opts \in Options : Start(c, opts)
         \/ ReaderSteps(c) \/ MainSteps(c) \/ NoPong(c)
         \/ \E kind \in {"command", "quit"} : Type(c, kind)
         \/ Exit(c)
  PROVE  Inv'
<1> DEFINE r == client[c]
<1> USE DEF Working
<1>0. Types /\ Types'
  BY ClientTypes DEF Inv
<1>1. r \in ClientType /\ QueueType /\ ClientOK /\ ClientOK'
  BY <1>0 DEF Types, ClientOK
<1>2. \A d \in Clients : client[d].typed \in Nat /\ client'[d].typed \in Nat
  BY <1>1 DEF ClientOK, ClientType
<1>3. main \in [Clients -> MainStages] /\ client \in [Clients -> ClientType]
  BY <1>1 DEF ClientOK
<1>4. ASSUME main[c] \notin Working,
             \A d \in Clients \ {c} : main'[d] = main[d] /\ client'[d] = client[d]
      PROVE  SessionsKept
  BY <1>2, <1>4 DEF SessionsKept
<1>5. CASE (\E opts \in Options : Start(c, opts)) \/ OpenRequest(c) \/ NoQueue(c) \/ Connect(c)
           \/ Alive(c) \/ NoPong(c) \/ Restart(c)
  <2>1. main[c] \notin Working /\ UNCHANGED <<queue, executed>>
    BY <1>5 DEF Start, OpenRequest, NoQueue, Connect, Alive, NoPong, Restart, serverVars
  <2>2. \A d \in Clients \ {c} : main'[d] = main[d] /\ client'[d] = client[d]
    BY <1>3, <1>5 DEF Start, OpenRequest, NoQueue, Connect, Alive, NoPong, Restart
  <2> QED
    BY <1>0, <1>4, <2>1, <2>2, Quiet
<1>6. CASE SendPing(c)
  <2> DEFINE m == Message(c, "ping", 0)
  <2>1. /\ r.tx \in RequestQueues /\ UNCHANGED executed /\ queue' = Sent(r.tx, m)
        /\ SessionsKept
    <3>1. main[c] = "ping" /\ UNCHANGED main
          /\ client' = [client EXCEPT ![c] = [r EXCEPT !.ping = TRUE, !.pong = FALSE]]
      BY <1>6 DEF SendPing
    <3>2. SessionsKept
      BY <1>3, <1>4, <3>1
    <3> QED
      BY <1>1, <1>6, <3>1, <3>2 DEF SendPing, ClientOK, serverVars
  <2>2. m \in MessageType /\ m \in Contents /\ m.kind = "ping"
    BY DEF Message, MessageType, Contents
  <2>3. queue'[r.tx] = queue[r.tx] \/ queue'[r.tx] = Append(queue[r.tx], m)
    BY <1>1, <2>1, <2>2, SentType, QueuesApart
  <2>4. \A q \in RequestQueues \ {r.tx} : queue'[q] = queue[q]
    BY <1>1, <2>1, <2>2, SentType, QueuesApart
  <2>5. \A i \in 1 .. Len(queue[r.tx]) : Before(queue[r.tx][i], m)
    BY <2>2 DEF Before
  <2>6. PICK t \in RequestQueues : t = r.tx
    BY <2>1
  <2>7. PICK n \in MessageType : n = m
    BY <2>2
  <2> HIDE DEF m, r
  <2> QED
    BY <1>0, <2>1, <2>2, <2>3, <2>4, <2>5, <2>6, <2>7, Adding
<1>7. ASSUME NEW kind \in {"command", "quit"}, Type(c, kind)
      PROVE  Inv'
  <2> DEFINE m == Message(c, kind, r.typed + 1)
  <2>0. /\ client' = [client EXCEPT ![c] = [r EXCEPT !.typed = r.typed + 1]]
        /\ UNCHANGED <<main, executed>> /\ main[c] = "work"
        /\ queue' = Sent(r.tx, Message(c, kind, client'[c].typed))
    BY <1>7 DEF Type, serverVars
  <2>1. client'[c].typed = r.typed + 1 /\ client'[c].tx = r.tx /\ r.typed \in Nat
        /\ \A d \in Clients \ {c} : client'[d] = client[d]
    BY <1>2, <1>3, <2>0 DEF ClientType
  <2>2. r.tx \in RequestQueues /\ queue' = Sent(r.tx, m) /\ SessionsKept
    <3>1. SessionsKept
      BY <1>2, <2>0, <2>1 DEF SessionsKept
    <3> QED
      BY <1>1, <2>0, <2>1, <3>1 DEF ClientOK
  <2>3. m \in MessageType /\ m \in Contents /\ m.from = c /\ m.number = r.typed + 1
    BY <2>1 DEF Message, MessageType, Contents
  <2>4. queue'[r.tx] = queue[r.tx] \/ queue'[r.tx] = Append(queue[r.tx], m)
    BY <1>1, <2>2, <2>3, SentType, QueuesApart
  <2>5. \A q \in RequestQueues \ {r.tx} : queue'[q] = queue[q]
    BY <1>1, <2>2, <2>3, SentType, QueuesApart
  <2>6. \A i \in 1 .. Len(queue[r.tx]) : Before(queue[r.tx][i], m)
    <3>1. ASSUME NEW i \in 1 .. Len(queue[r.tx]), queue[r.tx][i].from = c,
                 queue[r.tx][i].kind # "ping"
          PROVE  queue[r.tx][i].number < m.number
      <4>1. Waiting(r.tx)
        BY <2>2 DEF Inv
      <4>2. queue[r.tx] \in Seq(MessageType)
        BY <1>1, <2>2 DEF QueueType
      <4>3. queue[r.tx][i] \in MessageType
        BY <4>2, Element
      <4>4. queue[r.tx][i].number <= r.typed /\ queue[r.tx][i].number \in Nat
        BY <3>1, <4>1, <4>3 DEF Waiting, Awaits, MessageType
      <4> QED
        BY <2>1, <2>3, <4>4
    <3> QED
      BY <2>3, <3>1 DEF Before
  <2>7. PICK t \in RequestQueues : t = r.tx
    BY <2>2
  <2>8. PICK n \in MessageType : n = m
    BY <2>3
  <2>9. Awaits(n, t)'
    <3>1. ExecutedBy(c) /\ executed[c] \in Seq([number : Nat, by : Servers])
      BY DEF Inv, ExecutedBy
    <3>2. \A k \in 1 .. Len(executed[c]) : executed[c][k] \in [number : Nat, by : Servers]
      BY <3>1, Element
    <3>3. \A k \in 1 .. Len(executed[c]) : executed[c][k].number \in Nat
                                           /\ executed[c][k].number <= r.typed
      BY <3>1, <3>2 DEF ExecutedBy
    <3>4. \A k \in 1 .. Len(executed[c]) : executed[c][k].number < r.typed + 1
      BY <2>1, <3>3
    <3>5. n.from = c /\ n.number = r.typed + 1
      BY <2>3, <2>8
    <3> QED
      BY <2>0, <2>1, <2>7, <3>4, <3>5 DEF Awaits
  <2> HIDE DEF m, r
  <2> QED
    BY <1>0, <2>0, <2>2, <2>4, <2>5, <2>6, <2>7, <2>8, <2>9, Adding
<1>8. CASE Exit(c) \/ LoopEnds(c) \/ Bye(c) \/ OpenReply(c) \/ OpenReplyFails(c) \/ Receive(c)
           \/ ReceiveTimeout(c)
  <2>1. SessionsKept
    <3>1. CASE Exit(c) \/ LoopEnds(c)
      <4>1. client' = [client EXCEPT ![c] = [r EXCEPT !.loop = FALSE]]
            /\ main' = [main EXCEPT ![c] = "bye"]
        BY <3>1 DEF Exit, LoopEnds
      <4> QED
        BY <1>2, <1>3, <4>1 DEF SessionsKept, ClientType
    <3>2. CASE Bye(c)
      <4>1. UNCHANGED client /\ main' = [main EXCEPT ![c] = "done"]
        BY <3>2 DEF Bye
      <4> QED
        BY <1>2, <1>3, <4>1 DEF SessionsKept, ClientType
    <3>3. CASE OpenReply(c) \/ OpenReplyFails(c) \/ ReceiveTimeout(c)
      <4>1. UNCHANGED main /\ (client' = [client EXCEPT ![c].rx = reply'] \/ UNCHANGED client)
        BY <3>3 DEF OpenReply, OpenReplyFails, ReceiveTimeout
      <4> QED
        BY <1>2, <1>3, <4>1 DEF SessionsKept, ClientType
    <3>4. CASE Receive(c)
      <4> DEFINE m == Head(queue[r.rx])
                 p == r.pong \/ IsPong(c, m)
                 l == r.loop /\ ~IsEnd(c, m)
      <4>1. UNCHANGED main /\ client' = [client EXCEPT ![c].pong = p, ![c].loop = l]
        BY <3>4 DEF Receive
      <4> HIDE DEF p, l
      <4> QED
        BY <1>2, <1>3, <4>1 DEF SessionsKept, ClientType
    <3> QED
      BY <1>8, <3>1, <3>2, <3>3, <3>4
  <2>2. UNCHANGED executed
    BY <1>8 DEF Exit, LoopEnds, Bye, OpenReply, OpenReplyFails, Receive, ReceiveTimeout,
                 serverVars
  <2>3. \A q \in RequestQueues : queue'[q] = queue[q]
    <3>1. CASE UNCHANGED queue
      BY <3>1
    <3>2. CASE Receive(c)
      <4>1. r.rx \notin RequestQueues /\ queue' = [queue EXCEPT ![r.rx] = Tail(@)]
        BY <1>1, <3>2, QueuesApart DEF Receive, ClientOK
      <4> QED
        BY <1>1, <4>1, QueuesApart DEF QueueType
    <3> QED
      BY <1>8, <3>1, <3>2 DEF Exit, LoopEnds, Bye, OpenReply, OpenReplyFails,
                                  ReceiveTimeout
  <2> QED
    BY <1>0, <2>1, <2>2, <2>3, Quiet
<1> QED
  BY <1>5, <1>6, <1>7, <1>8 DEF MainSteps, ReaderSteps

LEMMA TakenFirst ==
  ASSUME NEW S, NEW q \in Seq(S), q # << >>
  PROVE  /\ Head(q) = q[1] /\ Head(q) \in S /\ Len(q) \in Nat \ {0}
         /\ Tail(q) \in Seq(S) /\ Len(Tail(q)) = Len(q) - 1
         /\ \A i \in 1 .. Len(Tail(q)) : Tail(q)[i] = q[i + 1]
  OBVIOUS

LEMMA WaitingNow ==
  ASSUME NEW q, NEW new, queue'[q] = new, UNCHANGED <<main, client>>,
         \A i \in 1 .. Len(new) : new[i].kind # "ping" =>
            /\ Awaits(new[i], q)
            /\ \A k \in 1 .. Len(executed'[new[i].from]) :
                  executed'[new[i].from][k].number < new[i].number,
         \A i, j \in 1 .. Len(new) : i < j => Before(new[i], new[j])
  PROVE  Waiting(q)'
<1>1. ASSUME NEW i \in 1 .. Len(new), new[i].kind # "ping"
      PROVE  Awaits(new[i], q)'
  BY <1>1 DEF Awaits
<1> QED
  BY <1>1 DEF Waiting, Before, Awaits

LEMMA ExecuteInv ==
  ASSUME Inv, NEW s \in Servers, Execute(s)
  PROVE  Inv'
<1> DEFINE t == RequestOf(s)
           u == ReplyOf(s)
           old == queue[t]
<1>1. Types /\ Types' /\ SessionsKept /\ QueueType
  BY ServerTypes, Idle DEF Inv, ServerSteps, Execute, clientVars, Types
<1>2. server[s].rx = t /\ server[s].tx = u /\ t \in RequestQueues /\ t \in Queues
      /\ u \in Queues \ RequestQueues /\ u # t
  BY <1>1, QueuesApart DEF Types, ServerOK, OwnQueues, Execute
<1>3. old \in Seq(MessageType) /\ old # << >> /\ Waiting(t)
  BY <1>1, <1>2 DEF QueueType, Execute, Inv
<1>4. PICK m \in MessageType : m = Head(old)
  BY <1>3, TakenFirst
<1>5. /\ queue' = [Sent(u, Answer(m)) EXCEPT ![t] = Tail(@)]
      /\ executed' = IF m.kind = "ping" THEN executed
                     ELSE [executed EXCEPT ![m.from] = Append(@, [number |-> m.number, by |-> s])]
      /\ UNCHANGED <<main, client>>
  BY <1>2, <1>4 DEF Execute, clientVars
<1>6. \A q \in RequestQueues : queue'[q] = IF q = t THEN Tail(old) ELSE queue[q]
  <2>1. Answer(m) \in Contents
    BY DEF Answer, Contents, Replies
  <2>2. Sent(u, Answer(m)) \in [Queues -> Seq(Contents)]
    BY <1>1, <1>2, <2>1, SentType
  <2>3. \A q \in RequestQueues : Sent(u, Answer(m))[q] = queue[q]
    BY <1>2, <2>1, SentElsewhere
  <2> HIDE DEF u
  <2> QED
    BY <1>2, <1>5, <2>2, <2>3, QueuesApart
<1>7. m.from \in Clients /\ m.number \in Nat /\ m = old[1] /\ Len(old) \in Nat \ {0}
      /\ Len(Tail(old)) = Len(old) - 1
      /\ \A i \in 1 .. Len(Tail(old)) : i + 1 \in 1 .. Len(old) /\ Tail(old)[i] = old[i + 1]
  BY <1>3, <1>4, TakenFirst DEF MessageType
<1>8. \A i \in 1 .. Len(Tail(old)) : Before(m, Tail(old)[i])
  BY <1>3, <1>7 DEF Waiting
<1>9. m.kind # "ping" => Awaits(m, t)
  BY <1>3, <1>7 DEF Waiting
<1>10. /\ executed \in [Clients -> Seq([number : Nat, by : Servers])]
       /\ \A c \in Clients : executed[c] \in Seq([number : Nat, by : Servers])
  BY DEF Inv
<1>11. CASE m.kind = "ping"
  <2>1. UNCHANGED executed
    BY <1>5, <1>11
  <2>2. ASSUME NEW q \in RequestQueues
        PROVE  Waiting(q)'
    <3>1. queue[q] \in Seq(MessageType) /\ Waiting(q)
      BY <1>1 DEF Inv, QueueType
    <3>2. \A i \in 1 .. Len(queue[q]) : queue[q][i] \in MessageType
      BY <3>1, Element
    <3>3. CASE q # t
      <4>1. queue'[q] = queue[q] /\ executed' = executed /\ main' = main /\ client' = client
        BY <1>5, <1>6, <2>1, <3>3
      <4> QED
        BY <3>1, <4>1 DEF Waiting, Awaits, Before
    <3>4. CASE q = t
      <4>1. queue'[q] = Tail(old)
        BY <1>6, <3>4
      <4>2. \A i, j \in 1 .. Len(Tail(old)) : i < j => Before(Tail(old)[i], Tail(old)[j])
        BY <1>3, <1>7 DEF Waiting
      <4>3. \A i \in 1 .. Len(Tail(old)) : Tail(old)[i].kind # "ping" => Awaits(Tail(old)[i], t)
        BY <1>3, <1>7 DEF Waiting
      <4>4. \A i \in 1 .. Len(Tail(old)) : Tail(old)[i].kind # "ping" =>
               \A k \in 1 .. Len(executed'[Tail(old)[i].from]) :
                  executed'[Tail(old)[i].from][k].number < Tail(old)[i].number
        BY <2>1, <4>3 DEF Awaits
      <4>5. PICK new : new = Tail(old)
        OBVIOUS
      <4> HIDE DEF old, t
      <4> QED
        BY <1>5, <3>4, <4>1, <4>2, <4>3, <4>4, <4>5, WaitingNow
    <3> QED
      BY <3>3, <3>4
  <2>3. \A c \in Clients : ExecutedBy(c)'
    BY <1>1, <2>1, ExecutedKept
  <2> QED
    BY <1>1, <1>10, <2>1, <2>2, <2>3 DEF Inv
<1>12. CASE m.kind # "ping"
  <2> DEFINE e == [number |-> m.number, by |-> s]
             new == Append(executed[m.from], e)
             E == [number : Nat, by : Servers]
  <2>1. e \in E /\ e.number = m.number /\ e.by = s
    BY <1>7
  <2>2. new \in Seq(E) /\ Len(new) = Len(executed[m.from]) + 1 /\ Len(executed[m.from]) \in Nat
        /\ new[Len(executed[m.from]) + 1] = e
        /\ \A k \in 1 .. Len(executed[m.from]) : new[k] = executed[m.from][k]
    <3>1. executed[m.from] \in Seq(E)
      BY <1>7, <1>10
    <3> HIDE DEF e, E
    <3> QED
      BY <2>1, <3>1, Appended
  <2>3. executed' = [executed EXCEPT ![m.from] = new]
    BY <1>5, <1>12
  <2> HIDE DEF new, e
  <2>4. executed'[m.from] = new /\ \A c \in Clients \ {m.from} : executed'[c] = executed[c]
    BY <1>7, <1>10, <2>3
  <2>5. \A k \in 1 .. Len(new) : \/ k = Len(executed[m.from]) + 1 /\ new[k] = e
                                 \/ k \in 1 .. Len(executed[m.from]) /\ new[k] = executed[m.from][k]
    BY <2>2
  <2>6. Awaits(m, t)
    BY <1>9, <1>12
  <2>7. ASSUME NEW q \in RequestQueues
        PROVE  Waiting(q)'
    <3>1. queue[q] \in Seq(MessageType) /\ Waiting(q)
      BY <1>1 DEF Inv, QueueType
    <3>2. \A i \in 1 .. Len(queue[q]) : queue[q][i] \in MessageType
      BY <3>1, Element
    <3>3. CASE q # t
      <4>1. \A i \in 1 .. Len(queue[q]) :
               queue[q][i].kind # "ping" => queue[q][i].from \in Clients \ {m.from}
        BY <2>6, <3>1, <3>2, <3>3 DEF Waiting, Awaits, MessageType
      <4>2. queue'[q] = queue[q]
        BY <1>6, <3>3
      <4>3. \A i \in 1 .. Len(queue[q]) : queue[q][i].kind # "ping" =>
               /\ Awaits(queue[q][i], q)
               /\ executed'[queue[q][i].from] = executed[queue[q][i].from]
        BY <2>4, <3>1, <4>1 DEF Waiting
      <4>4. \A i \in 1 .. Len(queue[q]) : queue[q][i].kind # "ping" =>
               \A k \in 1 .. Len(executed'[queue[q][i].from]) :
                  executed'[queue[q][i].from][k].number < queue[q][i].number
        BY <4>3 DEF Awaits
      <4>5. \A i, j \in 1 .. Len(queue[q]) : i < j => Before(queue[q][i], queue[q][j])
        BY <3>1 DEF Waiting
      <4>6. PICK same : same = queue[q]
        OBVIOUS
      <4> QED
        BY <1>5, <4>2, <4>3, <4>4, <4>5, <4>6, WaitingNow
    <3>4. CASE q = t
      <4>1. queue'[q] = Tail(old)
        BY <1>6, <3>4
      <4>2. \A i, j \in 1 .. Len(Tail(old)) : i < j => Before(Tail(old)[i], Tail(old)[j])
        BY <1>3, <1>7 DEF Waiting
      <4>3. \A i \in 1 .. Len(Tail(old)) : Tail(old)[i].kind # "ping" => Awaits(Tail(old)[i], t)
        BY <1>3, <1>7 DEF Waiting
      <4>4. \A i \in 1 .. Len(Tail(old)) : Tail(old)[i] \in MessageType
        BY <1>3, TakenFirst, Element
      <4> HIDE DEF old, t
      <4>5. ASSUME NEW i \in 1 .. Len(Tail(old)), Tail(old)[i].kind # "ping"
            PROVE  \A k \in 1 .. Len(executed'[Tail(old)[i].from]) :
                      executed'[Tail(old)[i].from][k].number < Tail(old)[i].number
        <5>1. PICK n \in MessageType : n = Tail(old)[i]
          BY <4>4
        <5>2. Awaits(n, t) /\ n.from \in Clients /\ n.kind # "ping"
          BY <4>3, <4>5, <5>1 DEF MessageType
        <5>3. CASE n.from # m.from
          BY <2>4, <5>1, <5>2, <5>3 DEF Awaits
        <5>4. CASE n.from = m.from
          <6>1. m.number < n.number
            BY <1>8, <1>12, <5>1, <5>2, <5>4 DEF Before
          <6>2. \A k \in 1 .. Len(executed[m.from]) : executed[m.from][k].number < n.number
            BY <5>2, <5>4 DEF Awaits
          <6>3. \A k \in 1 .. Len(new) : new[k].number < n.number
            BY <2>1, <2>5, <6>1, <6>2
          <6> QED
            BY <2>4, <5>1, <5>4, <6>3
        <5> QED
          BY <5>3, <5>4
      <4>6. PICK tail : tail = Tail(old)
        OBVIOUS
      <4> QED
        BY <1>5, <3>4, <4>1, <4>2, <4>3, <4>5, <4>6, WaitingNow
    <3> QED
      BY <3>3, <3>4
  <2>8. ASSUME NEW c \in Clients
        PROVE  ExecutedBy(c)'
    <3>1. CASE c # m.from
      BY <1>1, <2>4, <3>1, ExecutedKept
    <3>2. CASE c = m.from
      <4>1. ExecutedBy(c)
        BY DEF Inv
      <4>2. /\ main[c] \in Working /\ client[c].tx = t /\ m.number <= client[c].typed
            /\ \A k \in 1 .. Len(executed[c]) : executed[c][k].number < m.number
        BY <2>6, <3>2 DEF Awaits
      <4>3. executed'[c] = new /\ main'[c] = main[c] /\ client'[c] = client[c]
        BY <1>5, <2>4, <3>2
      <4>4. \A k \in 1 .. Len(new) : /\ client[c].tx = RequestOf(new[k].by)
                                     /\ new[k].number <= client[c].typed
        BY <2>1, <2>5, <3>2, <4>1, <4>2 DEF ExecutedBy
      <4>5. \A i, j \in 1 .. Len(new) : i < j => new[i].number < new[j].number
        <5>1. ASSUME NEW i \in 1 .. Len(new), NEW j \in 1 .. Len(new), i < j
              PROVE  new[i].number < new[j].number
          <6>1. i \in 1 .. Len(executed[c]) /\ new[i] = executed[c][i]
            BY <2>2, <3>2, <5>1
          <6>2. CASE new[j] = e
            BY <2>1, <4>2, <6>1, <6>2
          <6>3. CASE j \in 1 .. Len(executed[c]) /\ new[j] = executed[c][j]
            BY <4>1, <5>1, <6>1, <6>3 DEF ExecutedBy
          <6> QED
            BY <2>5, <3>2, <6>2, <6>3
        <5> QED
          BY <5>1
      <4> QED
        BY <2>2, <4>2, <4>3, <4>4, <4>5 DEF ExecutedBy, RequestOf
    <3> QED
      BY <3>1, <3>2
  <2>9. executed' \in [Clients -> Seq([number : Nat, by : Servers])]
    BY <1>7, <1>10, <2>2, <2>3
  <2> QED
    BY <1>1, <2>7, <2>8, <2>9 DEF Inv
<1> QED
  BY <1>11, <1>12

LEMMA InvInit ==
  ASSUME Init
  PROVE  Inv
<1>1. Types
  BY TypesInit
<1>2. \A q \in RequestQueues : queue[q] = << >>
  BY QueuesApart DEF Init
<1>3. \A c \in Clients : executed[c] = << >>
  BY DEF Init
<1>4. executed \in [Clients -> Seq([number : Nat, by : Servers])]
  BY DEF Init
<1> QED
  BY <1>1, <1>2, <1>3, <1>4 DEF Inv, Waiting, ExecutedBy

LEMMA InvNext ==
  ASSUME Inv, [Next]_vars
  PROVE  Inv'
<1>1. CASE Next
  BY <1>1, ServerInv, ExecuteInv, ClientInv DEF Next
<1>2. CASE UNCHANGED vars
  <2>1. Types' /\ SessionsKept
    BY <1>2, TypesNext, Idle DEF Inv, vars
  <2> QED
    BY <1>2, <2>1, Quiet DEF vars
<1> QED
  BY <1>1, <1>2

---------------------------------------------------------------------------
(* The theorems. *)

\* The invariant: messages, queues and records have their types, commands
\* wait in the queue of their session in the order in which they were typed,
\* and what a session had executed came from that queue, in that order
\* (remote_read_mq, xjremote's dothework).
THEOREM Invariant == Spec => []Inv
<1>1. Init => Inv
  BY InvInit
<1>2. Inv /\ [Next]_vars => Inv'
  BY InvNext
<1> QED
  BY <1>1, <1>2, PTL DEF Spec

\* Every variable has its type and no queue holds more than mq_maxmsg
\* messages, however many clients and instances there are (mymq_init, mq_send).
THEOREM TypeCorrect == Spec => []TypeOK
<1>1. Inv => TypeOK
  <2> SUFFICES ASSUME Inv PROVE TypeOK
    OBVIOUS
  <2>1. {request, reply} \subseteq Queues \cup {None} /\ \A q \in Queues : Len(queue[q]) <= QueueSize
    BY QueuesApart DEF Inv, Types, NameType, QueueType
  <2>2. ASSUME NEW s \in Servers
        PROVE  /\ server[s].stage \in {"off", "start", "created", "drain", "run", "leave", "gone"}
               /\ server[s].mq => server[s].stage \in {"run", "leave", "gone"}
    BY DEF Inv, Types, ServerOK, ServerType, Stages, OwnQueues
  <2>3. ASSUME NEW c \in Clients
        PROVE  /\ main[c] \in MainStages /\ reader[c] \in ReaderStages
               /\ reader[c] = "read" => client[c].rx \in Queues
               /\ main[c] \in {"connect", "ping", "work"} => client[c].tx \in Queues
    BY QueuesApart DEF Inv, Types, ClientOK
  <2> QED
    BY <2>1, <2>2, <2>3 DEF TypeOK, MainStages, ReaderStages
<1> QED
  BY <1>1, Invariant, PTL

\* The commands of a session of xjremote are executed by one instance of
\* xjadeo, in the order in which they were typed and none of them twice.
THEOREM OneServer == Spec => []SessionHasOneServer
<1>1. Inv => SessionHasOneServer
  <2> SUFFICES ASSUME Inv, NEW c \in Clients, NEW i \in DOMAIN executed[c],
                      NEW j \in DOMAIN executed[c], i < j
               PROVE  /\ executed[c][i].by = executed[c][j].by
                      /\ executed[c][i].number < executed[c][j].number
    BY DEF SessionHasOneServer
  <2>1. ExecutedBy(c) /\ executed[c] \in Seq([number : Nat, by : Servers])
    BY DEF Inv
  <2>2. i \in 1 .. Len(executed[c]) /\ j \in 1 .. Len(executed[c])
    BY <2>1
  <2>3. executed[c][i] \in [number : Nat, by : Servers]
        /\ executed[c][j] \in [number : Nat, by : Servers]
    BY <2>1, <2>2, Element
  <2>4. RequestOf(executed[c][i].by) = RequestOf(executed[c][j].by)
    BY <2>1, <2>2 DEF ExecutedBy
  <2> QED
    BY <2>1, <2>2, <2>3, <2>4, QueuesApart DEF ExecutedBy
<1> QED
  BY <1>1, Invariant, PTL

---------------------------------------------------------------------------
(* The answer to a ping.  A pong does not say who asked for it; that it is  *)
(* taken for the right one rests on the queues: as long as an instance owes *)
(* a pong, or has sent one that was not read, the only client either sends  *)
(* to that instance or can never read what it says.                         *)

HasPing(q) == \E i \in 1 .. Len(q) : q[i].kind = "ping"
HasPong(q) == \E i \in 1 .. Len(q) : q[i] = "pong"

ReaderQueues == Clients \X (0 .. MaxRestarts)

\* An instance has a ping to answer, or has answered and was not read yet.
PongDue(s) == \/ server[s].mq /\ HasPing(queue[RequestOf(s)])
              \/ HasPong(queue[ReplyOf(s)])

\* The client does not read what the instance sends, and never will.
Unreachable(c, s) == reply # ReplyOf(s) /\ client[c].rx # ReplyOf(s)

\* What the queues hold: only an instance that took up remote control has
\* answered a ping.
Answers == /\ \A q \in ReaderQueues : queue[q] = << >>
           /\ \A s \in Servers : HasPong(queue[ReplyOf(s)]) => server[s].mq

\* No pong is taken for one before the reader reads.
Early(c) == /\ main[c] \in {"off", "open"} => client[c].tx = None
            /\ main[c] \in {"off", "open", "connect"} =>
                  client[c].rx = None /\ ~client[c].pong /\ reader[c] = "none"
            /\ reader[c] = "open" => ~client[c].pong

\* Whoever still owes a pong is the one that the client talks to, or cannot
\* be heard any more.
Asked(c) == \A s \in Servers :
               PongDue(s) => /\ main[c] # "off"
                             /\ client[c].tx = RequestOf(s) \/ Unreachable(c, s)

Mated(c) == client[c].pong /\ client[c].rx # ReplyOf(None) =>
               \E s \in Servers : /\ server[s].mq
                                  /\ client[c].tx = RequestOf(s) /\ client[c].rx = ReplyOf(s)

PairInv == /\ Types /\ Answers
           /\ \A c \in Clients : Early(c) /\ (Alone(c) => Asked(c) /\ Mated(c))

LEMMA HasAppend ==
  ASSUME NEW S, NEW q \in Seq(S), NEW x \in S
  PROVE  /\ HasPing(Append(q, x)) => HasPing(q) \/ x.kind = "ping"
         /\ HasPong(Append(q, x)) => HasPong(q) \/ x = "pong"
<1>1. /\ Len(q) \in Nat /\ Len(Append(q, x)) = Len(q) + 1 /\ Append(q, x)[Len(q) + 1] = x
      /\ \A i \in 1 .. Len(q) : Append(q, x)[i] = q[i]
  BY Appended
<1>2. PICK n, new : n \in Nat /\ n = Len(q) /\ new = Append(q, x)
  BY <1>1
<1>3. \A i \in 1 .. Len(new) : \/ i = n + 1 /\ new[i] = x
                               \/ i \in 1 .. n /\ new[i] = q[i]
  BY <1>1, <1>2
<1> QED
  BY <1>2, <1>3 DEF HasPing, HasPong

LEMMA HasTail ==
  ASSUME NEW S, NEW q \in Seq(S), q # << >>
  PROVE  /\ HasPing(Tail(q)) => HasPing(q)
         /\ HasPong(Tail(q)) => HasPong(q)
         /\ Head(q).kind = "ping" => HasPing(q)
         /\ Head(q) = "pong" => HasPong(q)
<1>1. /\ Head(q) = q[1] /\ Len(q) \in Nat \ {0} /\ Len(Tail(q)) = Len(q) - 1
      /\ \A i \in 1 .. Len(Tail(q)) : Tail(q)[i] = q[i + 1]
  BY TakenFirst
<1>2. PICK n, new, first : n \in Nat \ {0} /\ n = Len(q) /\ new = Tail(q) /\ first = Head(q)
  BY <1>1
<1>3. /\ 1 \in 1 .. n /\ first = q[1]
      /\ \A i \in 1 .. Len(new) : i + 1 \in 1 .. n /\ new[i] = q[i + 1]
  BY <1>1, <1>2
<1> QED
  BY <1>2, <1>3 DEF HasPing, HasPong

LEMMA HasNone == ~HasPing(<< >>) /\ ~HasPong(<< >>)
  BY DEF HasPing, HasPong

\* Sending adds nothing else to the queue, and nothing to the others.
LEMMA SentHas ==
  ASSUME QueueType, NEW q \in Queues, NEW m \in Contents,
         q \in RequestQueues => m \in MessageType, NEW p \in Queues
  PROVE  /\ p # q => Sent(q, m)[p] = queue[p]
         /\ HasPing(Sent(q, m)[p]) => HasPing(queue[p]) \/ (p = q /\ m.kind = "ping")
         /\ HasPong(Sent(q, m)[p]) => HasPong(queue[p]) \/ (p = q /\ m = "pong")
<1>1. queue[q] \in Seq(Contents)
  BY DEF QueueType
<1>2. p # q => Sent(q, m)[p] = queue[p]
  BY SentType
<1>3. Sent(q, m)[q] = queue[q] \/ Sent(q, m)[q] = Append(queue[q], m)
  BY SentType
<1>4. /\ HasPing(Append(queue[q], m)) => HasPing(queue[q]) \/ m.kind = "ping"
      /\ HasPong(Append(queue[q], m)) => HasPong(queue[q]) \/ m = "pong"
  BY <1>1, HasAppend
<1> QED
  BY <1>2, <1>3, <1>4

LEMMA ReadersApart ==
  /\ ReaderQueues \subseteq ReplyQueues
  /\ \A s \in Servers : RequestOf(s) \notin ReaderQueues /\ ReplyOf(s) \notin ReaderQueues
  /\ \A s, t \in Servers \cup {None} : ReplyOf(s) = ReplyOf(t) => s = t
  /\ \A s \in Servers : RequestOf(s) # None /\ ReplyOf(s) # None
<1>1. \A s \in Servers : RequestOf(s) # None /\ ReplyOf(s) # None
  BY NoneAssumption, QueuesApart
<1> QED
  BY <1>1, OwnersAssumption DEF ReaderQueues, ReplyQueues, RequestOf, ReplyOf

---------------------------------------------------------------------------
(* The steps of the instances. *)

\* A step that changes no client.
LEMMA Bystander ==
  ASSUME PairInv, Types', Answers', UNCHANGED <<main, reader, client>>,
         \A s \in Servers : /\ PongDue(s)' => PongDue(s)
                            /\ server[s].mq => server'[s].mq
                            /\ PongDue(s) /\ reply' = ReplyOf(s) => reply = ReplyOf(s)
  PROVE  PairInv'
<1>1. ASSUME NEW c \in Clients
      PROVE  Early(c)' /\ (Alone(c)' => Asked(c)' /\ Mated(c)')
  <2>1. Early(c) /\ (Alone(c) => Asked(c) /\ Mated(c))
    BY DEF PairInv
  <2>2. Early(c)' /\ (Alone(c)' => Alone(c))
    BY <2>1 DEF Early, Alone
  <2>3. ASSUME Asked(c), NEW s \in Servers, PongDue(s)'
        PROVE  (main[c] # "off" /\ (client[c].tx = RequestOf(s) \/ Unreachable(c, s)))'
    <3>1. main[c] # "off" /\ (client[c].tx = RequestOf(s) \/ Unreachable(c, s)) /\ PongDue(s)
      BY <2>3 DEF Asked
    <3> QED
      BY <3>1 DEF Unreachable, RequestOf
  <2>4. Asked(c) => Asked(c)'
    BY <2>3 DEF Asked
  <2>5. Mated(c) => Mated(c)'
    BY DEF Mated, RequestOf, ReplyOf
  <2> QED
    BY <2>1, <2>2, <2>4, <2>5
<1> QED
  BY <1>1 DEF PairInv

\* No queue gets a ping or a pong that it did not have.
Fewer == /\ \A q \in ReaderQueues : queue'[q] = << >>
         /\ \A t \in Servers : /\ HasPing(queue'[RequestOf(t)]) => HasPing(queue[RequestOf(t)])
                               /\ HasPong(queue'[ReplyOf(t)]) => HasPong(queue[ReplyOf(t)])

SameRemote == \A t \in Servers : server'[t].mq = server[t].mq

LEMMA FewerAnswers ==
  ASSUME PairInv, Fewer, SameRemote
  PROVE  Answers' /\ \A t \in Servers : PongDue(t)' => PongDue(t)
  BY DEF PairInv, Fewer, SameRemote, Answers, PongDue, ReaderQueues, RequestOf, ReplyOf

LEMMA SameQueues ==
  ASSUME PairInv, UNCHANGED queue
  PROVE  Fewer
  BY DEF PairInv, Fewer, Answers

LEMMA SentFewer ==
  ASSUME PairInv, NEW q \in RequestQueues \cup ReplyQueues, NEW m \in Contents, q \notin ReaderQueues,
         q \in RequestQueues => m \in MessageType /\ m.kind # "ping",
         q \in ReplyQueues => m # "pong", queue' = Sent(q, m)
  PROVE  Fewer
<1>1. QueueType /\ q \in Queues /\ \A p \in ReaderQueues : queue[p] = << >> /\ p # q /\ p \in Queues
  BY QueuesApart, ReadersApart DEF PairInv, Types, Answers
<1>2. \A p \in ReaderQueues : queue'[p] = << >>
  BY <1>1, SentHas
<1>3. ASSUME NEW t \in Servers
      PROVE  /\ HasPing(queue'[RequestOf(t)]) => HasPing(queue[RequestOf(t)])
             /\ HasPong(queue'[ReplyOf(t)]) => HasPong(queue[ReplyOf(t)])
  <2>1. /\ RequestOf(t) \in RequestQueues /\ RequestOf(t) \in Queues
        /\ ReplyOf(t) \in ReplyQueues /\ ReplyOf(t) \in Queues /\ RequestQueues \cap ReplyQueues = {}
    BY QueuesApart
  <2>2. /\ HasPing(Sent(q, m)[RequestOf(t)])
              => HasPing(queue[RequestOf(t)]) \/ (RequestOf(t) = q /\ m.kind = "ping")
        /\ HasPong(Sent(q, m)[ReplyOf(t)])
              => HasPong(queue[ReplyOf(t)]) \/ (ReplyOf(t) = q /\ m = "pong")
    BY <1>1, <2>1, SentHas
  <2> QED
    BY <2>1, <2>2
<1> QED
  BY <1>2, <1>3 DEF Fewer

LEMMA ServerPair ==
  ASSUME PairInv, NEW s \in Servers,
         ServerSteps(s) \/ Launch(s) \/ Notify(s) \/ Leave(s) \/ Crash(s)
  PROVE  PairInv'
<1> DEFINE r == server[s]
           t == RequestOf(s)
           u == ReplyOf(s)
<1>1. /\ Types /\ Types' /\ Answers /\ QueueType /\ OwnQueues(s)
      /\ server \in [Servers -> ServerType] /\ r \in ServerType
  BY ServerTypes DEF PairInv, Types, ServerOK
<1>2. UNCHANGED <<main, reader, client>>
  BY DEF ServerSteps, CreateRequest, CreateReply, Drain, Execute, Leave, UnlinkOnClose, Launch,
         Notify, Crash, clientVars
<1>3. /\ t \in RequestQueues /\ t \in Queues /\ u \in ReplyQueues /\ u \in Queues
      /\ t \notin ReaderQueues /\ u \notin ReaderQueues /\ u \notin RequestQueues /\ t \notin ReplyQueues
  BY QueuesApart, ReadersApart
<1>4. ASSUME UNCHANGED reply \/ reply' = None \/ (reply' = u /\ ~r.mq)
      PROVE  \A x \in Servers : PongDue(x) /\ reply' = ReplyOf(x) => reply = ReplyOf(x)
  <2>1. ~r.mq => ~PongDue(s)
    BY <1>1 DEF PongDue, Answers
  <2>2. \A x \in Servers : ReplyOf(x) # None /\ (ReplyOf(x) = u => x = s)
    BY ReadersApart
  <2> QED
    BY <1>4, <2>1, <2>2
<1>5. ASSUME Fewer, SameRemote, UNCHANGED reply \/ reply' = None \/ (reply' = u /\ ~r.mq)
      PROVE  PairInv'
  BY <1>1, <1>2, <1>4, <1>5, FewerAnswers, Bystander DEF SameRemote
<1>6. CASE Launch(s)
  <2>1. UNCHANGED <<queue, reply>> /\ SameRemote
    BY <1>1, <1>6 DEF Launch, Stage, SameRemote, ServerType
  <2> QED
    BY <1>5, <2>1, SameQueues
<1>7. CASE CreateRequest(s)
  <2>1. UNCHANGED <<queue, reply>>
    BY <1>7 DEF CreateRequest
  <2>2. \/ server' = [server EXCEPT ![s] = [@ EXCEPT !.stage = "run", !.rx = None]]
        \/ server' = [server EXCEPT ![s] = [@ EXCEPT !.stage = "created", !.rx = request']]
    BY <1>7 DEF CreateRequest, WithoutRemote
  <2>3. SameRemote
    BY <1>1, <2>2 DEF SameRemote, ServerType
  <2> QED
    BY <1>5, <2>1, <2>3, SameQueues
<1>8. CASE CreateReply(s)
  <2>1. UNCHANGED queue /\ SameRemote /\ (UNCHANGED reply \/ reply' = u) /\ ~r.mq
    BY <1>1, <1>8 DEF CreateReply, WithoutRemote, SameRemote, ServerType, Opened, Free, OwnQueues
  <2> QED
    BY <1>5, <2>1, SameQueues
<1>9. CASE Notify(s) \/ Leave(s)
  <2>1. /\ UNCHANGED reply
        /\ UNCHANGED queue \/ (r.mq /\ \E m \in {"text", "quit"} : queue' = Sent(r.tx, m))
    BY <1>9 DEF Notify, Leave
  <2>2. SameRemote
    BY <1>1, <1>9 DEF Notify, Leave, Stage, SameRemote, ServerType
  <2>3. CASE UNCHANGED queue
    BY <1>5, <2>1, <2>2, <2>3, SameQueues
  <2>4. ASSUME NEW m \in {"text", "quit"}, r.mq, queue' = Sent(r.tx, m)
        PROVE  PairInv'
    <3>1. r.tx = u /\ m \in Contents /\ m # "pong"
      BY <1>1, <2>4 DEF OwnQueues, Contents, Replies
    <3>2. Fewer
      BY <1>3, <2>4, <3>1, SentFewer
    <3> QED
      BY <1>5, <2>1, <2>2, <3>2
  <2> QED
    BY <2>1, <2>3, <2>4
<1>10. CASE UnlinkOnClose(s) \/ Crash(s)
  <2>1. (UNCHANGED reply \/ reply' = None) /\ queue' = Unread(s)
    BY <1>10 DEF UnlinkOnClose, Crash
  <2>2. SameRemote
    BY <1>1, <1>10 DEF UnlinkOnClose, Crash, SameRemote, ServerType
  <2>3. \A q \in Queues : queue'[q] = queue[q] \/ queue'[q] = << >>
    BY <1>1, <2>1 DEF Unread, QueueType
  <2>4. Fewer
    BY <1>1, <2>3, HasNone, QueuesApart, ReadersApart DEF Fewer, Answers
  <2> QED
    BY <1>5, <2>1, <2>2, <2>4
<1>11. CASE Drain(s)
  <2>1. /\ r.rx = t /\ r.tx = u /\ ~r.mq /\ UNCHANGED reply
        /\ queue' = [Sent(u, "text") EXCEPT ![t] = << >>]
        /\ server' = [server EXCEPT ![s] = [r EXCEPT !.stage = "run", !.mq = TRUE]]
    BY <1>1, <1>11 DEF Drain, OwnQueues
  <2>2. /\ "text" \in Contents /\ Sent(u, "text") \in [Queues -> Seq(Contents)]
        /\ \A q \in Queues : /\ q # u => Sent(u, "text")[q] = queue[q]
                             /\ HasPong(Sent(u, "text")[q]) => HasPong(queue[q])
    <3>1. "text" \in Contents /\ "text" # "pong"
      BY DEF Contents, Replies
    <3> QED
      BY <1>1, <1>3, <3>1, SentType, SentHas
  <2>3. /\ \A q \in Queues \ {t} : queue'[q] = Sent(u, "text")[q]
        /\ queue'[t] = << >>
    <3> HIDE DEF t, u
    <3> QED
      BY <1>3, <2>1, <2>2
  <2>4. Fewer
    <3>1. \A q \in ReaderQueues : queue'[q] = << >>
      BY <1>1, <1>3, <2>2, <2>3, ReadersApart, QueuesApart DEF Answers
    <3>2. ASSUME NEW x \in Servers
          PROVE  /\ HasPing(queue'[RequestOf(x)]) => HasPing(queue[RequestOf(x)])
                 /\ HasPong(queue'[ReplyOf(x)]) => HasPong(queue[ReplyOf(x)])
      <4>1. /\ RequestOf(x) \in RequestQueues /\ RequestOf(x) \in Queues
            /\ ReplyOf(x) \in ReplyQueues /\ ReplyOf(x) \in Queues
        BY QueuesApart
      <4> HIDE DEF t, u
      <4> QED
        BY <1>3, <2>2, <2>3, <4>1, HasNone
    <3> QED
      BY <3>1, <3>2 DEF Fewer
  <2>5. /\ \A x \in Servers : server[x].mq => server'[x].mq
        /\ \A x \in Servers \ {s} : server'[x].mq = server[x].mq
        /\ server'[s].mq
    BY <1>1, <2>1 DEF ServerType
  <2>6. Answers'
    BY <1>1, <2>4, <2>5 DEF Answers, Fewer, ReaderQueues, ReplyOf
  <2>7. ~PongDue(s)'
    <3>1. ~HasPong(queue[u])
      BY <1>1, <2>1 DEF Answers
    <3>2. ~HasPong(queue'[u]) /\ ~HasPing(queue'[t])
      BY <2>3, <2>4, <3>1, HasNone DEF Fewer
    <3> QED
      BY <3>2 DEF PongDue, RequestOf, ReplyOf
  <2>8. \A x \in Servers : PongDue(x)' => PongDue(x)
    BY <2>4, <2>5, <2>7 DEF PongDue, Fewer, RequestOf, ReplyOf
  <2> QED
    BY <1>1, <1>2, <1>4, <2>1, <2>5, <2>6, <2>8, Bystander
<1>12. CASE Execute(s)
  <2> DEFINE old == queue[t]
  <2>1. r.rx = t /\ r.tx = u /\ r.mq /\ UNCHANGED reply /\ old # << >>
    BY <1>1, <1>12 DEF Execute, OwnQueues
  <2>2. old \in Seq(MessageType)
    BY <1>1, <1>3 DEF QueueType
  <2>3. PICK m \in MessageType : m = Head(old)
    BY <2>1, <2>2, TakenFirst
  <2>4. queue' = [Sent(u, Answer(m)) EXCEPT ![t] = Tail(@)]
    BY <1>12, <2>1, <2>3 DEF Execute
  <2>5. Answer(m) \in Contents /\ (Answer(m) = "pong" => m.kind = "ping")
    BY DEF Answer, Contents, Replies
  <2>6. /\ Sent(u, Answer(m)) \in [Queues -> Seq(Contents)]
        /\ \A q \in Queues : /\ q # u => Sent(u, Answer(m))[q] = queue[q]
                             /\ HasPong(Sent(u, Answer(m))[q]) =>
                                   HasPong(queue[q]) \/ (q = u /\ Answer(m) = "pong")
    BY <1>1, <1>3, <2>5, SentType, SentHas
  <2>7. /\ \A q \in Queues \ {t} : queue'[q] = Sent(u, Answer(m))[q]
        /\ queue'[t] = Tail(old)
    <3> HIDE DEF u
    <3>1. t # u /\ Sent(u, Answer(m))[t] = old
      BY <1>3, <2>6
    <3> HIDE DEF t, old
    <3> QED
      BY <1>3, <2>4, <2>6, <3>1
  <2>8. /\ HasPing(Tail(old)) => HasPing(old)
        /\ m.kind = "ping" => HasPing(old)
    BY <2>1, <2>2, <2>3, HasTail
  <2>9. SameRemote
    BY <1>1, <1>12 DEF Execute, SameRemote, ServerType
  <2>10. \A q \in ReaderQueues : queue'[q] = << >>
    BY <1>1, <1>3, <2>6, <2>7, ReadersApart, QueuesApart DEF Answers
  <2>11. ASSUME NEW x \in Servers
         PROVE  /\ HasPing(queue'[RequestOf(x)]) => HasPing(queue[RequestOf(x)])
                /\ HasPong(queue'[ReplyOf(x)]) => HasPong(queue[ReplyOf(x)]) \/ (x = s /\ HasPing(old))
    <3>1. /\ RequestOf(x) \in RequestQueues /\ RequestOf(x) \in Queues /\ ReplyOf(x) \in Queues
          /\ ReplyOf(x) \in ReplyQueues /\ (ReplyOf(x) = u => x = s)
      BY QueuesApart, ReadersApart
    <3> HIDE DEF t, u
    <3>2. RequestOf(x) # u /\ ReplyOf(x) # t
      BY <1>3, <3>1
    <3>3. queue'[RequestOf(x)] = queue[RequestOf(x)] \/ (RequestOf(x) = t /\ queue'[RequestOf(x)] = Tail(old))
      BY <2>6, <2>7, <3>1, <3>2
    <3>4. HasPong(queue'[ReplyOf(x)]) =>
             HasPong(queue[ReplyOf(x)]) \/ (ReplyOf(x) = u /\ Answer(m) = "pong")
      BY <2>6, <2>7, <3>1, <3>2
    <3> QED
      BY <2>5, <2>8, <3>1, <3>3, <3>4 DEF old
  <2>12. \A x \in Servers : PongDue(x)' => PongDue(x)
    BY <2>1, <2>9, <2>11 DEF PongDue, SameRemote, RequestOf, ReplyOf
  <2>13. Answers'
    BY <1>1, <2>1, <2>9, <2>10, <2>11 DEF Answers, SameRemote, ReaderQueues, ReplyOf
  <2> QED
    BY <1>1, <1>2, <1>4, <2>1, <2>9, <2>12, <2>13, Bystander DEF SameRemote
<1> QED
  BY <1>6, <1>7, <1>8, <1>9, <1>10, <1>11, <1>12 DEF ServerSteps

---------------------------------------------------------------------------
(* The steps of the clients. *)

OthersStay(c) == \A d \in Clients \ {c} :
                    main'[d] = main[d] /\ reader'[d] = reader[d] /\ client'[d] = client[d]

LEMMA ActorPair ==
  ASSUME PairInv, Types', Answers', NEW c \in Clients, OthersStay(c), main'[c] # "off", Early(c)',
         Alone(c) /\ Asked(c) /\ Mated(c) => Asked(c)' /\ Mated(c)'
  PROVE  PairInv'
<1>1. ASSUME NEW d \in Clients \ {c}
      PROVE  Early(d)' /\ ~Alone(d)'
  BY DEF PairInv, OthersStay, Early, Alone
<1>2. Alone(c)' => Alone(c)
  BY DEF OthersStay, Alone
<1>3. Alone(c) => Asked(c) /\ Mated(c)
  BY DEF PairInv
<1> QED
  BY <1>1, <1>2, <1>3 DEF PairInv

\* A step of a client that goes on with its queues as it was.
LEMMA QuietPair ==
  ASSUME PairInv, Types', NEW c \in Clients, OthersStay(c), Fewer, SameRemote,
         main[c] # "off", main'[c] # "off", Early(c)', UNCHANGED reply \/ reply' = None,
         client'[c].tx = client[c].tx, client'[c].rx = client[c].rx,
         client'[c].pong = client[c].pong
  PROVE  PairInv'
<1>1. Answers' /\ \A s \in Servers : PongDue(s)' => PongDue(s)
  BY FewerAnswers
<1>2. Asked(c) => Asked(c)'
  <2> SUFFICES ASSUME Asked(c), NEW s \in Servers, PongDue(s)'
               PROVE  (client[c].tx = RequestOf(s) \/ Unreachable(c, s))'
    BY DEF Asked
  <2>1. client[c].tx = RequestOf(s) \/ Unreachable(c, s)
    BY <1>1 DEF Asked
  <2>2. ReplyOf(s) # None
    BY ReadersApart
  <2> QED
    BY <2>1, <2>2 DEF Unreachable, RequestOf, ReplyOf
<1>3. Mated(c) => Mated(c)'
  BY DEF Mated, SameRemote, RequestOf, ReplyOf
<1> QED
  BY <1>1, <1>2, <1>3, ActorPair

LEMMA ClientPair ==
  ASSUME PairInv, NEW c \in Clients,
         \/ \E opts \in Options : Start(c, opts)
         \/ ReaderSteps(c) \/ MainSteps(c) \/ NoPong(c)
         \/ \E kind \in {"command", "quit"} : Type(c, kind)
         \/ Exit(c)
  PROVE  PairInv'
<1> DEFINE r == client[c]
<1>1. /\ Types /\ Types' /\ Answers /\ Early(c) /\ QueueType /\ ClientOK
      /\ client \in [Clients -> ClientType] /\ main \in [Clients -> MainStages]
      /\ reader \in [Clients -> ReaderStages] /\ r \in ClientType
  BY ClientTypes DEF PairInv, Types, ClientOK
<1>2. \A s \in Servers : /\ RequestOf(s) \in RequestQueues /\ ReplyOf(s) \in ReplyQueues
                         /\ ReplyOf(s) # None /\ RequestOf(s) # None /\ ReplyOf(s) \notin ReaderQueues
  BY QueuesApart, ReadersApart
<1>3. ASSUME UNCHANGED server
      PROVE  SameRemote
  BY <1>3 DEF SameRemote
<1>4. ASSUME NEW opts \in Options, Start(c, opts)
      PROVE  PairInv'
  <2>1. /\ main[c] = "off" /\ main' = [main EXCEPT ![c] = "open"]
        /\ client' = [client EXCEPT ![c] = Fresh(opts)] /\ UNCHANGED <<queue, server, reader>>
    BY <1>4 DEF Start, serverVars
  <2>2. /\ OthersStay(c) /\ main'[c] = "open" /\ client'[c].tx = None /\ client'[c].rx = None
        /\ ~client'[c].pong /\ reader'[c] = "none"
    BY <1>1, <2>1 DEF OthersStay, Fresh, Early
  <2>3. Early(c)'
    BY <2>2 DEF Early
  <2>4. Answers' /\ \A s \in Servers : PongDue(s)' => PongDue(s)
    BY <1>3, <2>1, FewerAnswers, SameQueues
  <2>5. Asked(c) => Asked(c)'
    BY <2>1, <2>4 DEF Asked
  <2>6. Mated(c)'
    BY <2>2 DEF Mated
  <2> QED
    BY <1>1, <2>2, <2>3, <2>4, <2>5, <2>6, ActorPair
<1>5. CASE OpenRequest(c)
  <2>1. /\ main[c] = "open" /\ main' = [main EXCEPT ![c] = "connect"]
        /\ client' = [client EXCEPT ![c].tx = request] /\ UNCHANGED <<queue, server, reader, reply>>
    BY <1>5 DEF OpenRequest, serverVars
  <2>2. /\ OthersStay(c) /\ main'[c] = "connect" /\ r.tx = None
        /\ client'[c].rx = r.rx /\ client'[c].pong = r.pong /\ reader'[c] = reader[c]
    BY <1>1, <2>1 DEF OthersStay, Early, ClientType
  <2>3. Early(c)' /\ ~client'[c].pong
    BY <1>1, <2>1, <2>2 DEF Early
  <2>4. Answers' /\ \A s \in Servers : PongDue(s)' => PongDue(s)
    BY <1>3, <2>1, FewerAnswers, SameQueues
  <2>5. Asked(c) => Asked(c)'
    <3> SUFFICES ASSUME Asked(c), NEW s \in Servers, PongDue(s)'
                 PROVE  Unreachable(c, s)'
      BY <2>2 DEF Asked
    <3>1. Unreachable(c, s)
      BY <1>2, <2>2, <2>4 DEF Asked
    <3> QED
      BY <2>1, <2>2, <3>1 DEF Unreachable, ReplyOf
  <2>6. Mated(c)'
    BY <2>3 DEF Mated
  <2> QED
    BY <1>1, <2>2, <2>3, <2>4, <2>5, <2>6, ActorPair
<1>6. CASE NoQueue(c)
  <2>1. UNCHANGED <<queue, reader, reply>> /\ main[c] = "open"
    BY <1>6 DEF NoQueue
  <2>2. SameRemote
    <3>1. UNCHANGED server \/ \E s \in Servers : Stage(s, "off", "start")
      BY <1>6 DEF NoQueue, ForkXjadeo
    <3>2. server \in [Servers -> ServerType]
      BY <1>1 DEF Types, ServerOK
    <3> QED
      BY <3>1, <3>2 DEF Stage, SameRemote, ServerType
  <2>3. \/ main' = [main EXCEPT ![c] = "done"] /\ UNCHANGED client
        \/ /\ client' = [client EXCEPT ![c].timeout = @ - 1, ![c].forked = TRUE]
           /\ UNCHANGED main
    BY <1>6 DEF NoQueue
  <2>4. /\ OthersStay(c) /\ main'[c] \in {"open", "done"}
        /\ client'[c].tx = r.tx /\ client'[c].rx = r.rx /\ client'[c].pong = r.pong
        /\ reader'[c] = reader[c]
    BY <1>1, <2>1, <2>3 DEF OthersStay, ClientType
  <2>5. Early(c)'
    BY <1>1, <2>1, <2>4 DEF Early
  <2> QED
    BY <1>1, <2>1, <2>2, <2>4, <2>5, SameQueues, QuietPair
<1>7. CASE Connect(c)
  <2>1. UNCHANGED <<queue, server, reply>> /\ main[c] = "connect"
        /\ reader' = [reader EXCEPT ![c] = "open"]
        /\ \/ client' = [client EXCEPT ![c].mute = FALSE] /\ main' = [main EXCEPT ![c] = "work"]
           \/ main' = [main EXCEPT ![c] = "ping"] /\ UNCHANGED client
    BY <1>7 DEF Connect, serverVars
  <2>2. /\ OthersStay(c) /\ main'[c] \in {"ping", "work"} /\ reader'[c] = "open"
        /\ client'[c].tx = r.tx /\ client'[c].rx = r.rx /\ client'[c].pong = r.pong
    BY <1>1, <2>1 DEF OthersStay, ClientType
  <2>3. Early(c)'
    BY <1>1, <2>1, <2>2 DEF Early
  <2> QED
    BY <1>1, <1>3, <2>1, <2>2, <2>3, SameQueues, QuietPair
<1>8. CASE SendPing(c)
  <2> DEFINE m == Message(c, "ping", 0)
  <2>1. /\ main[c] = "ping" /\ queue' = Sent(r.tx, m) /\ UNCHANGED <<reply, server, main, reader>>
        /\ client' = [client EXCEPT ![c] = [@ EXCEPT !.ping = TRUE, !.pong = FALSE]]
    BY <1>8 DEF SendPing, serverVars
  <2>2. /\ OthersStay(c) /\ main'[c] = "ping" /\ client'[c].tx = r.tx /\ client'[c].rx = r.rx
        /\ ~client'[c].pong
    BY <1>1, <2>1 DEF OthersStay, ClientType
  <2>3. Early(c)'
    BY <2>2 DEF Early
  <2>4. m \in MessageType /\ m \in Contents /\ m.kind = "ping"
    BY DEF Message, MessageType, Contents
  <2>5. r.tx \in RequestQueues /\ r.tx \in Queues
    BY <1>1, <2>1, QueuesApart DEF ClientOK
  <2>6. \A q \in ReplyQueues : queue'[q] = queue[q]
    <3>1. \A q \in Queues \ {r.tx} : Sent(r.tx, m)[q] = queue[q]
      BY <1>1, <2>4, <2>5, SentType
    <3> HIDE DEF m
    <3> QED
      BY <2>1, <2>5, <3>1, QueuesApart
  <2>7. ASSUME NEW s \in Servers, HasPing(queue'[RequestOf(s)])
        PROVE  HasPing(queue[RequestOf(s)]) \/ r.tx = RequestOf(s)
    BY <1>1, <1>2, <2>1, <2>4, <2>5, <2>7, SentHas, QueuesApart
  <2>8. Answers'
    BY <1>1, <1>2, <2>1, <2>6, ReadersApart DEF Answers, ReaderQueues, ReplyOf
  <2>9. ASSUME NEW s \in Servers, PongDue(s)'
        PROVE  PongDue(s) \/ r.tx = RequestOf(s)
    BY <1>2, <2>1, <2>6, <2>7, <2>9 DEF PongDue, RequestOf, ReplyOf
  <2>10. Asked(c) => Asked(c)'
    BY <2>1, <2>2, <2>9 DEF Asked, Unreachable, RequestOf, ReplyOf
  <2>11. Mated(c)'
    BY <2>2 DEF Mated
  <2> QED
    BY <1>1, <2>2, <2>3, <2>8, <2>10, <2>11, ActorPair
<1>9. CASE Alive(c)
  <2>1. /\ main[c] = "ping" /\ main' = [main EXCEPT ![c] = "work"]
        /\ client' = [client EXCEPT ![c].mute = FALSE] /\ UNCHANGED <<queue, server, reply, reader>>
    BY <1>9 DEF Alive, serverVars
  <2>2. /\ OthersStay(c) /\ main'[c] = "work" /\ reader'[c] = reader[c]
        /\ client'[c].tx = r.tx /\ client'[c].rx = r.rx /\ client'[c].pong = r.pong
    BY <1>1, <2>1 DEF OthersStay, ClientType
  <2>3. Early(c)'
    BY <1>1, <2>2 DEF Early
  <2> QED
    BY <1>1, <1>3, <2>1, <2>2, <2>3, SameQueues, QuietPair
<1>10. CASE NoPong(c)
  <2>1. /\ main[c] = "ping" /\ UNCHANGED <<queue, server>> /\ (UNCHANGED reply \/ reply' = None)
        /\ \/ main' = [main EXCEPT ![c] = "done"] /\ reader' = [reader EXCEPT ![c] = "none"]
              /\ UNCHANGED client
           \/ client' = [client EXCEPT ![c].loop = FALSE] /\ main' = [main EXCEPT ![c] = "rejoin"]
              /\ UNCHANGED reader
    BY <1>10 DEF NoPong, serverVars, Unlinked
  <2>2. /\ OthersStay(c) /\ main'[c] \in {"done", "rejoin"} /\ reader'[c] \in {reader[c], "none"}
        /\ client'[c].tx = r.tx /\ client'[c].rx = r.rx /\ client'[c].pong = r.pong
    BY <1>1, <2>1 DEF OthersStay, ClientType
  <2>3. Early(c)'
    BY <1>1, <2>2 DEF Early
  <2> QED
    BY <1>1, <1>3, <2>1, <2>2, <2>3, SameQueues, QuietPair
<1>11. CASE Restart(c)
  <2>1. /\ main[c] = "rejoin" /\ reader[c] = "none" /\ main' = [main EXCEPT ![c] = "open"]
        /\ client' = [client EXCEPT ![c] = Again(c)] /\ UNCHANGED <<queue, server, reader>>
        /\ reply' = None
    BY <1>11 DEF Restart, serverVars, Unlinked
  <2>2. /\ OthersStay(c) /\ main'[c] = "open" /\ client'[c].tx = None /\ client'[c].rx = None
        /\ ~client'[c].pong /\ reader'[c] = "none"
    BY <1>1, <2>1 DEF OthersStay, Fresh, Again
  <2>3. Early(c)'
    BY <2>2 DEF Early
  <2>4. Answers'
    BY <1>3, <2>1, FewerAnswers, SameQueues
  <2>5. Asked(c)'
    BY <1>2, <2>1, <2>2 DEF Asked, Unreachable, ReplyOf
  <2>6. Mated(c)'
    BY <2>2 DEF Mated
  <2> QED
    BY <1>1, <2>2, <2>3, <2>4, <2>5, <2>6, ActorPair
<1>12. ASSUME NEW kind \in {"command", "quit"}, Type(c, kind)
       PROVE  PairInv'
  <2> DEFINE n == r.typed + 1
             m == Message(c, kind, n)
  <2>1. /\ main[c] = "work" /\ UNCHANGED <<server, reply, main, reader>>
        /\ client' = [client EXCEPT ![c].typed = @ + 1]
        /\ queue' = Sent(r.tx, Message(c, kind, client'[c].typed))
    BY <1>12 DEF Type, serverVars
  <2>2. /\ OthersStay(c) /\ main'[c] = "work" /\ reader'[c] = reader[c] /\ client'[c].typed = n
        /\ client'[c].tx = r.tx /\ client'[c].rx = r.rx /\ client'[c].pong = r.pong /\ n \in Nat
    BY <1>1, <2>1 DEF OthersStay, ClientType
  <2>3. Early(c)'
    BY <1>1, <2>2 DEF Early
  <2>4. m \in MessageType /\ m \in Contents /\ m.kind # "ping" /\ queue' = Sent(r.tx, m)
    BY <2>1, <2>2 DEF Message, MessageType, Contents
  <2>5. r.tx \in RequestQueues /\ r.tx \notin ReplyQueues /\ r.tx \notin ReaderQueues
    BY <1>1, <2>1, QueuesApart, ReadersApart DEF ClientOK
  <2>6. Fewer
    <3> HIDE DEF m
    <3> QED
      BY <2>4, <2>5, SentFewer
  <2> QED
    BY <1>1, <1>3, <2>1, <2>2, <2>3, <2>6, QuietPair
<1>13. CASE Exit(c) \/ LoopEnds(c)
  <2>1. /\ main[c] = "work" /\ main' = [main EXCEPT ![c] = "bye"]
        /\ client' = [client EXCEPT ![c].loop = FALSE] /\ UNCHANGED <<queue, server, reply, reader>>
    BY <1>13 DEF Exit, LoopEnds, serverVars
  <2>2. /\ OthersStay(c) /\ main'[c] = "bye" /\ reader'[c] = reader[c]
        /\ client'[c].tx = r.tx /\ client'[c].rx = r.rx /\ client'[c].pong = r.pong
    BY <1>1, <2>1 DEF OthersStay, ClientType
  <2>3. Early(c)'
    BY <1>1, <2>2 DEF Early
  <2> QED
    BY <1>1, <1>3, <2>1, <2>2, <2>3, SameQueues, QuietPair
<1>14. CASE Bye(c)
  <2>1. /\ main[c] = "bye" /\ main' = [main EXCEPT ![c] = "done"]
        /\ UNCHANGED <<queue, server, reply, reader, client>>
    BY <1>14 DEF Bye, serverVars
  <2>2. OthersStay(c) /\ main'[c] = "done" /\ reader'[c] = reader[c] /\ client'[c] = r
    BY <1>1, <2>1 DEF OthersStay
  <2>3. Early(c)'
    BY <1>1, <2>2 DEF Early
  <2> QED
    BY <1>1, <1>3, <2>1, <2>2, <2>3, SameQueues, QuietPair
<1>15. CASE ReceiveTimeout(c) \/ OpenReplyFails(c)
  <2>1. /\ reader[c] \in {"read", "open"} /\ reader' = [reader EXCEPT ![c] = "none"]
        /\ UNCHANGED <<queue, server, reply, main, client>>
    BY <1>15 DEF ReceiveTimeout, OpenReplyFails, Reading, serverVars
  <2>2. /\ OthersStay(c) /\ main'[c] = main[c] /\ reader'[c] = "none" /\ client'[c] = r
        /\ main[c] # "off"
    BY <1>1, <2>1 DEF OthersStay, Early
  <2>3. Early(c)'
    BY <1>1, <2>2 DEF Early
  <2> QED
    BY <1>1, <1>3, <2>1, <2>2, <2>3, SameQueues, QuietPair
<1>16. CASE OpenReply(c)
  <2>1. /\ reader[c] = "open" /\ UNCHANGED <<queue, server, main>>
        /\ client' = [client EXCEPT ![c].rx = reply']
        /\ reply' = IF reply = None THEN ReaderOf(c) ELSE reply
        /\ \E x \in {"read", "none"} : reader' = [reader EXCEPT ![c] = x]
    BY <1>16 DEF OpenReply, Reading, serverVars
  <2>2. /\ OthersStay(c) /\ main'[c] = main[c] /\ reader'[c] \in {"read", "none"}
        /\ client'[c].tx = r.tx /\ client'[c].rx = reply' /\ client'[c].pong = r.pong
        /\ main[c] \notin {"off", "open", "connect"} /\ ~r.pong
    BY <1>1, <2>1 DEF OthersStay, ClientType, Early
  <2>3. Early(c)'
    BY <2>2 DEF Early
  <2>4. Answers' /\ \A s \in Servers : PongDue(s)' => PongDue(s)
    BY <1>3, <2>1, FewerAnswers, SameQueues
  <2>5. Asked(c) => Asked(c)'
    <3> SUFFICES ASSUME Asked(c), NEW s \in Servers, PongDue(s)'
                 PROVE  (client[c].tx = RequestOf(s) \/ Unreachable(c, s))'
      BY <2>2 DEF Asked
    <3>1. r.tx = RequestOf(s) \/ Unreachable(c, s)
      BY <2>4 DEF Asked
    <3>2. ReaderOf(c) \in ReaderQueues
      BY <1>1 DEF ReaderOf, ReaderQueues, ClientType
    <3>3. reply # ReplyOf(s) => reply' # ReplyOf(s)
      BY <1>2, <2>1, <3>2
    <3> QED
      BY <2>2, <3>1, <3>3 DEF Unreachable, ReplyOf, RequestOf
  <2>6. Mated(c)'
    BY <2>2 DEF Mated
  <2> QED
    BY <1>1, <2>2, <2>3, <2>4, <2>5, <2>6, ActorPair
<1>17. CASE Receive(c)
  <2> DEFINE q == r.rx
             old == queue[q]
             m == Head(old)
             p == r.pong \/ IsPong(c, m)
             l == r.loop /\ ~IsEnd(c, m)
  <2>1. /\ reader[c] = "read" /\ old # << >> /\ UNCHANGED <<server, main, reply>>
        /\ client' = [client EXCEPT ![c].pong = p, ![c].loop = l]
        /\ queue' = [queue EXCEPT ![q] = Tail(@)]
        /\ \E x \in {"read", "none"} : reader' = [reader EXCEPT ![c] = x]
    BY <1>17 DEF Receive, Reading, serverVars
  <2>2. /\ OthersStay(c) /\ main'[c] = main[c] /\ reader'[c] \in {"read", "none"}
        /\ client'[c].tx = r.tx /\ client'[c].rx = q /\ client'[c].pong = p
        /\ main[c] \notin {"off", "open", "connect"}
    <3> HIDE DEF p, l, q
    <3> QED
      BY <1>1, <2>1 DEF OthersStay, ClientType, Early, q
  <2>3. Early(c)'
    BY <2>2 DEF Early
  <2>4. /\ q \in ReplyQueues /\ q \in Queues /\ q \notin RequestQueues
        /\ old \in Seq(Contents)
    BY <1>1, <2>1, QueuesApart DEF ClientOK, QueueType
  <2>5. /\ HasPing(Tail(old)) => HasPing(old)
        /\ HasPong(Tail(old)) => HasPong(old)
        /\ m = "pong" => HasPong(old)
    <3> HIDE DEF old
    <3> QED
      BY <2>1, <2>4, HasTail DEF m
  <2>6. queue'[q] = Tail(old) /\ \A x \in Queues \ {q} : queue'[x] = queue[x]
    BY <1>1, <2>1, <2>4 DEF QueueType
  <2>7. q \notin ReaderQueues
    BY <1>1, <2>1 DEF Answers
  <2>8. Fewer
    <3>1. \A x \in ReaderQueues : queue'[x] = << >>
      BY <1>1, <2>6, <2>7, ReadersApart, QueuesApart DEF Answers
    <3>2. ASSUME NEW s \in Servers
          PROVE  /\ HasPing(queue'[RequestOf(s)]) => HasPing(queue[RequestOf(s)])
                 /\ HasPong(queue'[ReplyOf(s)]) => HasPong(queue[ReplyOf(s)])
      <4>1. RequestOf(s) \in Queues \ {q} /\ ReplyOf(s) \in Queues
        BY <1>2, <2>4, QueuesApart
      <4>2. queue'[ReplyOf(s)] = queue[ReplyOf(s)] \/ (ReplyOf(s) = q /\ queue'[ReplyOf(s)] = Tail(old))
        BY <2>6, <4>1
      <4> QED
        BY <2>5, <2>6, <4>1, <4>2
    <3> QED
      BY <3>1, <3>2 DEF Fewer
  <2>9. SameRemote /\ Answers' /\ \A s \in Servers : PongDue(s)' => PongDue(s)
    BY <1>3, <2>1, <2>8, FewerAnswers
  <2>10. Asked(c) => Asked(c)'
    BY <2>1, <2>2, <2>9 DEF Asked, Unreachable, RequestOf, ReplyOf
  <2>11. Asked(c) /\ Mated(c) => Mated(c)'
    <3> SUFFICES ASSUME Asked(c), Mated(c), p, q # ReplyOf(None)
                 PROVE  \E s \in Servers : /\ server[s].mq
                                           /\ r.tx = RequestOf(s) /\ q = ReplyOf(s)
      BY <2>1, <2>2 DEF Mated, RequestOf, ReplyOf
    <3>1. CASE r.pong
      BY <3>1 DEF Mated
    <3>2. CASE IsPong(c, m)
      <4>1. HasPong(old)
        BY <2>5, <3>2 DEF IsPong
      <4>2. PICK s \in Servers \cup {None} : q = ReplyOf(s)
        BY <2>4, <2>7 DEF ReplyQueues, ReaderQueues, ReplyOf
      <4>3. s \in Servers
        BY <4>2
      <4>4. server[s].mq /\ PongDue(s) /\ ~Unreachable(c, s)
        BY <1>1, <4>1, <4>2, <4>3 DEF Answers, PongDue, Unreachable
      <4> QED
        BY <4>2, <4>3, <4>4 DEF Asked
    <3> QED
      BY <3>1, <3>2
  <2> QED
    BY <1>1, <2>2, <2>3, <2>9, <2>10, <2>11, ActorPair
<1> QED
  BY <1>4, <1>5, <1>6, <1>7, <1>8, <1>9, <1>10, <1>11, <1>12, <1>13, <1>14, <1>15, <1>16, <1>17
     DEF ReaderSteps, MainSteps

LEMMA PairInit ==
  ASSUME Init
  PROVE  PairInv
<1>1. Types
  BY TypesInit
<1>2. \A q \in Queues \ {ReplyOf(None)} : queue[q] = << >>
  BY DEF Init
<1>3. \A s \in Servers : RequestOf(s) \in Queues \ {ReplyOf(None)} /\ ReplyOf(s) \in Queues \ {ReplyOf(None)}
  BY QueuesApart, ReadersApart, OwnersAssumption
<1>4. ReplyOf(None) \notin ReaderQueues
  BY OwnersAssumption DEF ReplyOf, ReaderQueues
<1>5. Answers
  BY <1>2, <1>3, <1>4, HasNone, QueuesApart, ReadersApart DEF Answers
<1>6. \A s \in Servers : ~PongDue(s)
  BY <1>2, <1>3, HasNone DEF PongDue
<1>7. \A c \in Clients : Early(c) /\ Asked(c) /\ Mated(c)
  BY <1>6 DEF Init, Fresh, Early, Asked, Mated
<1> QED
  BY <1>1, <1>5, <1>7 DEF PairInv

LEMMA PairNext ==
  ASSUME PairInv, [Next]_vars
  PROVE  PairInv'
<1>1. CASE Next
  BY <1>1, ServerPair, ClientPair DEF Next
<1>2. CASE UNCHANGED vars
  <2>1. Types' /\ UNCHANGED <<main, reader, client, queue, server, reply>>
    BY <1>2, TypesNext DEF PairInv, vars
  <2>2. Answers' /\ \A s \in Servers : PongDue(s)' => PongDue(s)
    BY <2>1, FewerAnswers, SameQueues DEF SameRemote
  <2> QED
    BY <2>1, <2>2, Bystander
<1> QED
  BY <1>1, <1>2

\* An xjremote that is alone and had an answer to its ping reads the replies of
\* the instance that it sends its commands to, whatever instances are launched,
\* killed and unlinked meanwhile (ping, read_thread, unlink_queues).
THEOREM AnswersArePaired == Spec => []Paired
<1>1. Init => PairInv
  BY PairInit
<1>2. PairInv /\ [Next]_vars => PairInv'
  BY PairNext
<1>3. PairInv => Paired
  <2> SUFFICES ASSUME PairInv, NEW c \in Clients, Alone(c), client[c].pong,
                      client[c].rx # ReplyOf(None)
               PROVE  \E s \in Servers : client[c].tx = server[s].rx /\ client[c].rx = server[s].tx
    BY DEF Paired
  <2>1. PICK s \in Servers : server[s].mq /\ client[c].tx = RequestOf(s) /\ client[c].rx = ReplyOf(s)
    BY DEF PairInv, Mated
  <2>2. server[s].rx = RequestOf(s) /\ server[s].tx = ReplyOf(s)
    BY <2>1 DEF PairInv, Types, ServerOK, OwnQueues
  <2> QED
    BY <2>1, <2>2
<1> QED
  BY <1>1, <1>2, <1>3, PTL DEF Spec

---------------------------------------------------------------------------
(* Standard input.  Induction over the natural numbers.                    *)

Less == OpToRel(<, Nat)

\* Every set of natural numbers that is not empty has a least element.
LEMMA LeastElement ==
  ASSUME NEW T, T \subseteq Nat, T # {}
  PROVE  \E x \in T : \A y \in T : x <= y
  <1>1. IsWellFoundedOn(Less, Nat)
    BY NatLessThanWellFounded DEF Less
  <1>2. \A x, y \in Nat : x < y => <<x, y>> \in Less
    BY DEF Less, OpToRel
  <1>3. PICK x \in T : \A y \in T : ~ (<<y, x>> \in Less)
    BY <1>1, WFMin
  <1>4. \A y \in T : ~ (y < x)
    BY <1>2, <1>3
  <1>5. \A y \in T : x <= y
    BY <1>4, <1>3
  <1> QED BY <1>3, <1>5

LEMMA Induction ==
  ASSUME NEW S, 0 \in S, \A n \in Nat : n \in S => n + 1 \in S
  PROVE  Nat \subseteq S
  <1> SUFFICES ASSUME Nat \ S # {} PROVE FALSE
    OBVIOUS
  <1>1. PICK x \in Nat \ S : \A y \in Nat \ S : x <= y
    BY LeastElement
  <1> QED BY <1>1

-----------------------------------------------------------------------------
(* The function that cuts.                                                 *)

Uncut == [whole |-> << >>, part |-> << >>]

IsCut(c, s, m) == c = [n \in 0 .. m |-> IF n = 0 THEN Uncut ELSE WithByte(c[n - 1], s[n])]

\* The bytes s can be cut up to every place.
LEMMA CutExists ==
  ASSUME NEW s
  PROVE  \A m \in Nat : \E c : IsCut(c, s, m)
  <1> DEFINE S == {m \in Nat : \E c : IsCut(c, s, m)}
  <1>1. 0 \in S
    <2> DEFINE c == [n \in 0 .. 0 |-> Uncut]
    <2>1. c = [n \in 0 .. 0 |-> IF n = 0 THEN Uncut ELSE WithByte(c[n - 1], s[n])]
      OBVIOUS
    <2> QED BY <2>1 DEF IsCut
  <1>2. ASSUME NEW m \in Nat, m \in S PROVE m + 1 \in S
    <2>1. PICK c : IsCut(c, s, m)
      BY <1>2
    <2> DEFINE d == [n \in 0 .. m + 1 |-> IF n <= m THEN c[n] ELSE WithByte(c[m], s[m + 1])]
    <2> DEFINE e == [n \in 0 .. m + 1 |-> IF n = 0 THEN Uncut ELSE WithByte(d[n - 1], s[n])]
    <2>2. \A n \in 0 .. m : c[n] = IF n = 0 THEN Uncut ELSE WithByte(c[n - 1], s[n])
      BY <2>1 DEF IsCut
    <2>3. \A n \in 0 .. m + 1 : d[n] = e[n]
      <3> TAKE n \in 0 .. m + 1
      <3>1. CASE n = 0
        BY <2>2, <3>1
      <3>2. CASE n # 0 /\ n <= m
        <4>1. d[n - 1] = c[n - 1] /\ d[n] = c[n]
          BY <3>2
        <4> QED BY <4>1, <2>2, <3>2
      <3>3. CASE n = m + 1
        <4>1. d[n - 1] = c[m] /\ s[n] = s[m + 1] /\ d[n] = WithByte(c[m], s[m + 1])
          BY <3>3
        <4> QED BY <4>1, <3>3
      <3> QED BY <3>1, <3>2, <3>3
    <2>4. d = e
      BY <2>3
    <2>5. IsCut(d, s, m + 1)
      BY <2>4 DEF IsCut
    <2> QED BY <2>5
  <1> HIDE DEF S
  <1>3. Nat \subseteq S
    BY <1>1, <1>2, Induction
  <1> QED BY <1>3 DEF S

\* CutUpTo cuts one byte after the other.
LEMMA CutStep ==
  ASSUME NEW s \in Seq(Nat)
  PROVE  /\ CutUpTo(s)[0] = Uncut
         /\ \A n \in 1 .. Len(s) : CutUpTo(s)[n] = WithByte(CutUpTo(s)[n - 1], s[n])
  <1>1. \E c : IsCut(c, s, Len(s))
    <2>1. Len(s) \in Nat
      OBVIOUS
    <2> QED BY <2>1, CutExists
  <1>2. IsCut(CHOOSE c : IsCut(c, s, Len(s)), s, Len(s))
    BY <1>1, Zenon
  <1>3. CutUpTo(s) = CHOOSE c : IsCut(c, s, Len(s))
    BY DEF CutUpTo, IsCut, Uncut
  <1>4. IsCut(CutUpTo(s), s, Len(s))
    BY <1>2, <1>3
  <1>5. Len(s) \in Nat
    OBVIOUS
  <1> QED BY <1>4, <1>5 DEF IsCut

Lines == Seq(Seq(Nat))

LEMMA CutType ==
  ASSUME NEW s \in Seq(Nat)
  PROVE  \A n \in 0 .. Len(s) : CutUpTo(s)[n] \in [whole : Lines, part : Seq(Nat)]
  <1> DEFINE S == {n \in Nat : n <= Len(s) => CutUpTo(s)[n] \in [whole : Lines, part : Seq(Nat)]}
  <1>1. 0 \in S
    <2>1. CutUpTo(s)[0] = Uncut
      BY CutStep
    <2>2. Uncut \in [whole : Lines, part : Seq(Nat)]
      BY DEF Uncut, Lines
    <2> QED BY <2>1, <2>2
  <1>2. ASSUME NEW n \in Nat, n \in S PROVE n + 1 \in S
    <2> SUFFICES ASSUME n + 1 <= Len(s)
                 PROVE  CutUpTo(s)[n + 1] \in [whole : Lines, part : Seq(Nat)]
      OBVIOUS
    <2>1. PICK c : c = CutUpTo(s)[n]
      OBVIOUS
    <2>2. c \in [whole : Lines, part : Seq(Nat)]
      BY <1>2, <2>1
    <2>3. CutUpTo(s)[n + 1] = WithByte(c, s[n + 1])
      <3>1. n + 1 \in 1 .. Len(s) /\ (n + 1) - 1 = n
        OBVIOUS
      <3> QED BY <3>1, <2>1, CutStep
    <2>4. s[n + 1] \in Nat
      OBVIOUS
    <2>5. /\ Append(c.whole, c.part) \in Lines
          /\ Append(c.part, s[n + 1]) \in Seq(Nat)
          /\ c.whole \in Lines
      BY <2>2, <2>4 DEF Lines
    <2> QED BY <2>3, <2>5 DEF WithByte
  <1> HIDE DEF S
  <1>3. Nat \subseteq S
    BY <1>1, <1>2, Induction
  <1> QED BY <1>3 DEF S

\* What arrives later changes nothing in how the first bytes are cut.
LEMMA CutExtends ==
  ASSUME NEW s \in Seq(Nat), NEW t \in Seq(Nat)
  PROVE  \A n \in 0 .. Len(s) : CutUpTo(s \o t)[n] = CutUpTo(s)[n]
  <1> DEFINE S == {n \in Nat : n <= Len(s) => CutUpTo(s \o t)[n] = CutUpTo(s)[n]}
  <1>0. s \o t \in Seq(Nat) /\ Len(s \o t) = Len(s) + Len(t) /\ Len(s) \in Nat /\ Len(t) \in Nat
    OBVIOUS
  <1>1. 0 \in S
    BY <1>0, CutStep
  <1>2. ASSUME NEW n \in Nat, n \in S PROVE n + 1 \in S
    <2> SUFFICES ASSUME n + 1 <= Len(s)
                 PROVE  CutUpTo(s \o t)[n + 1] = CutUpTo(s)[n + 1]
      OBVIOUS
    <2>1. n + 1 \in 1 .. Len(s) /\ n + 1 \in 1 .. Len(s \o t) /\ (n + 1) - 1 = n
      BY <1>0
    <2>2. CutUpTo(s)[n + 1] = WithByte(CutUpTo(s)[n], s[n + 1])
      BY <2>1, CutStep
    <2>3. CutUpTo(s \o t)[n + 1] = WithByte(CutUpTo(s \o t)[n], (s \o t)[n + 1])
      BY <1>0, <2>1, CutStep
    <2>4. (s \o t)[n + 1] = s[n + 1]
      BY <2>1
    <2>5. CutUpTo(s \o t)[n] = CutUpTo(s)[n]
      BY <1>2
    <2> QED BY <2>2, <2>3, <2>4, <2>5
  <1> HIDE DEF S
  <1>3. Nat \subseteq S
    BY <1>1, <1>2, Induction
  <1> QED BY <1>3, <1>0 DEF S

\* Behind the end of a line, bytes that end none are the part of the next.
LEMMA CutPart ==
  ASSUME NEW s \in Seq(Nat), NEW t \in 0 .. Len(s), NEW w,
         CutUpTo(s)[t] = [whole |-> w, part |-> << >>]
  PROVE  \A k \in Nat : (t + k <= Len(s) /\ \A i \in t + 1 .. t + k : s[i] # NL)
                          => CutUpTo(s)[t + k] = [whole |-> w, part |-> SubSeq(s, t + 1, t + k)]
  <1> DEFINE Plain(k) == t + k <= Len(s) /\ \A i \in t + 1 .. t + k : s[i] # NL
             S == {k \in Nat : Plain(k) => CutUpTo(s)[t + k] = [whole |-> w, part |-> SubSeq(s, t + 1, t + k)]}
  <1>1. 0 \in S
    <2>1. SubSeq(s, t + 1, t + 0) = << >> /\ t + 0 = t
      OBVIOUS
    <2> QED BY <2>1
  <1>2. ASSUME NEW k \in Nat, k \in S PROVE k + 1 \in S
    <2> SUFFICES ASSUME Plain(k + 1)
                 PROVE  CutUpTo(s)[t + (k + 1)] = [whole |-> w, part |-> SubSeq(s, t + 1, t + (k + 1))]
      OBVIOUS
    <2>1. Plain(k)
      OBVIOUS
    <2>2. CutUpTo(s)[t + k] = [whole |-> w, part |-> SubSeq(s, t + 1, t + k)]
      BY <2>1, <1>2
    <2>3. t + (k + 1) \in 1 .. Len(s) /\ (t + (k + 1)) - 1 = t + k
      OBVIOUS
    <2>4. CutUpTo(s)[t + (k + 1)] = WithByte(CutUpTo(s)[t + k], s[t + (k + 1)])
      BY <2>3, CutStep
    <2>5. s[t + (k + 1)] # NL
      BY <2>3
    <2>6. SubSeq(s, t + 1, t + (k + 1)) = Append(SubSeq(s, t + 1, t + k), s[t + (k + 1)])
      BY <2>3
    <2>7. PICK p : p = SubSeq(s, t + 1, t + k)
      OBVIOUS
    <2>8. WithByte([whole |-> w, part |-> p], s[t + (k + 1)]) = [whole |-> w, part |-> Append(p, s[t + (k + 1)])]
      BY <2>5 DEF WithByte
    <2> QED BY <2>2, <2>4, <2>6, <2>7, <2>8
  <1> HIDE DEF S
  <1>3. Nat \subseteq S
    BY <1>1, <1>2, Induction
  <1> QED BY <1>3 DEF S

\* ... and the byte that ends it makes it a line.
LEMMA CutLine ==
  ASSUME NEW s \in Seq(Nat), NEW t \in 0 .. Len(s), NEW w,
         CutUpTo(s)[t] = [whole |-> w, part |-> << >>],
         NEW k \in Nat, t + k + 1 <= Len(s), \A i \in t + 1 .. t + k : s[i] # NL, s[t + k + 1] = NL
  PROVE  CutUpTo(s)[t + k + 1] = [whole |-> Append(w, SubSeq(s, t + 1, t + k)), part |-> << >>]
  <1>1. CutUpTo(s)[t + k] = [whole |-> w, part |-> SubSeq(s, t + 1, t + k)]
    <2>1. t + k <= Len(s)
      OBVIOUS
    <2> QED BY <2>1, CutPart
  <1>2. t + k + 1 \in 1 .. Len(s) /\ (t + k + 1) - 1 = t + k
    OBVIOUS
  <1>3. CutUpTo(s)[t + k + 1] = WithByte(CutUpTo(s)[t + k], s[t + k + 1])
    BY <1>2, CutStep
  <1> QED BY <1>1, <1>3 DEF WithByte

\* A line that was found once remains.
LEMMA CutPrefix ==
  ASSUME NEW s \in Seq(Nat), NEW t \in 0 .. Len(s)
  PROVE  IsPrefix(CutUpTo(s)[t].whole, CutUpTo(s)[Len(s)].whole)
  <1> DEFINE w == CutUpTo(s)[t].whole
             S == {k \in Nat : t + k <= Len(s) => IsPrefix(w, CutUpTo(s)[t + k].whole)}
  <1>1. w \in Lines
    BY CutType
  <1>2. 0 \in S
    <2>1. t + 0 = t /\ IsPrefix(w, w)
      BY <1>1 DEF IsPrefix, Lines
    <2> QED BY <2>1
  <1>3. ASSUME NEW k \in Nat, k \in S PROVE k + 1 \in S
    <2> SUFFICES ASSUME t + (k + 1) <= Len(s)
                 PROVE  IsPrefix(w, CutUpTo(s)[t + (k + 1)].whole)
      OBVIOUS
    <2>1. PICK c : c = CutUpTo(s)[t + k]
      OBVIOUS
    <2>2. c \in [whole : Lines, part : Seq(Nat)]
      BY <2>1, CutType
    <2>3. IsPrefix(w, c.whole)
      BY <2>1, <1>3
    <2>4. CutUpTo(s)[t + (k + 1)] = WithByte(c, s[t + (k + 1)])
      <3>1. t + (k + 1) \in 1 .. Len(s) /\ (t + (k + 1)) - 1 = t + k
        OBVIOUS
      <3> QED BY <3>1, <2>1, CutStep
    <2>5. WithByte(c, s[t + (k + 1)]).whole \in {c.whole, Append(c.whole, c.part)}
      BY DEF WithByte
    <2>6. IsPrefix(w, Append(c.whole, c.part))
      <3>1. w \in Seq(Seq(Nat)) /\ c.whole \in Seq(Seq(Nat)) /\ c.part \in Seq(Nat)
        BY <1>1, <2>2 DEF Lines
      <3> HIDE DEF w
      <3> QED BY <3>1, <2>3 DEF IsPrefix
    <2> QED BY <2>3, <2>4, <2>5, <2>6
  <1> HIDE DEF S
  <1>4. Nat \subseteq S
    BY <1>2, <1>3, Induction
  <1>5. Len(s) - t \in Nat /\ t + (Len(s) - t) = Len(s)
    OBVIOUS
  <1>6. Len(s) - t \in S
    BY <1>4, <1>5
  <1>7. Len(s) - t \in S => IsPrefix(w, CutUpTo(s)[t + (Len(s) - t)].whole)
    BY <1>5 DEF S
  <1> QED BY <1>5, <1>6, <1>7

-----------------------------------------------------------------------------
(* The invariant.  Taken bytes of the input made the lines; the others are *)
(* at the front of the buffer, in front of the end of a string, at e.  Of  *)
(* the old bytes between them and e none ends a line - and when a line has *)
(* just been taken out of what a read brought, either another end of a     *)
(* line comes last, or there is none but the one.                          *)

Taken == Len(fed) - offset

TypeInv == /\ fed \in Seq(Nat)
           /\ buf \in [Cells -> Int]
           /\ pc \in {"read", "lines", "ended"}
           /\ offset \in Cells
           /\ offset <= Len(fed)
           /\ fed = << >> => pc = "read"

\* The lines that were executed are what was typed, as far as it was taken.
LinesInv == CutUpTo(fed)[Taken] = [whole |-> lines, part |-> << >>]

\* The rest of what was typed is at the front of the buffer.
RestInv == \A i \in 0 .. offset - 1 : buf[i] = fed[Taken + i + 1]

NoEnds(e)  == \A i \in 0 .. e - 1 : buf[i] # NL
OneEnd(e)  == /\ \A i \in 0 .. e - 1 : buf[i] = NL => i < offset
              /\ \A i, j \in 0 .. e - 1 : buf[i] = NL /\ buf[j] = NL => i = j
EndIsLast  == offset > 0 /\ buf[offset - 1] = NL

StringInv == fed # << >> => \E e \in offset .. Size - 1 :
                               /\ buf[e] = NUL
                               /\ pc = "lines" => EndIsLast \/ OneEnd(e)
                               /\ pc # "lines" => NoEnds(e)

LineInv == TypeInv /\ LinesInv /\ RestInv /\ StringInv

\* A string that has an end has a first one, behind what is still to come.
LEMMA FirstEnd ==
  ASSUME TypeInv, RestInv, NEW e \in offset .. Size - 1, buf[e] = NUL
  PROVE  /\ StringEnd \in offset .. e
         /\ buf[StringEnd] = NUL
  <1>1. e \in Cells /\ offset \in Nat
    BY SizeAssumption DEF TypeInv, Cells
  <1>2. \E i \in Cells : buf[i] = NUL /\ \A j \in 0 .. i - 1 : buf[j] # NUL
    <2> DEFINE T == {i \in Cells : buf[i] = NUL}
    <2>1. T \subseteq Nat /\ T # {}
      BY <1>1 DEF Cells
    <2>2. PICK i \in T : \A j \in T : i <= j
      BY <2>1, LeastElement
    <2>3. i \in Cells /\ i \in Nat /\ buf[i] = NUL
      BY <2>2, <2>1
    <2>4. \A j \in 0 .. i - 1 : j \in Cells /\ ~ (i <= j)
      BY <2>3, SizeAssumption DEF Cells
    <2> QED BY <2>2, <2>3, <2>4
  <1>3. /\ StringEnd \in Cells
        /\ buf[StringEnd] = NUL
        /\ \A j \in 0 .. StringEnd - 1 : buf[j] # NUL
    BY <1>2, Zenon DEF StringEnd
  <1>4. PICK n : n = StringEnd
    OBVIOUS
  <1>5. n \in Nat /\ buf[n] = NUL /\ \A j \in 0 .. n - 1 : buf[j] # NUL
    BY <1>3, <1>4 DEF Cells
  <1>6. n <= e
    BY <1>1, <1>5 DEF Cells
  <1>7. ~ (n < offset)
    <2> SUFFICES ASSUME n < offset PROVE FALSE
      OBVIOUS
    <2>1. n \in 0 .. offset - 1 /\ Taken + n + 1 \in 1 .. Len(fed)
      BY <1>1, <1>5 DEF TypeInv, Taken
    <2>2. fed[Taken + n + 1] \in Nat
      BY <2>1 DEF TypeInv
    <2> QED BY <2>1, <2>2, <1>5 DEF RestInv, NUL
  <1> QED BY <1>1, <1>3, <1>4, <1>5, <1>6, <1>7

LEMMA FirstLineEnd ==
  ASSUME StringEnd \in Nat, LineEnds # {}
  PROVE  /\ LineEnd \in 0 .. StringEnd
         /\ buf[LineEnd] = NL
         /\ \A j \in 0 .. LineEnd - 1 : buf[j] # NL
  <1>1. LineEnds \subseteq Nat
    BY DEF LineEnds
  <1>2. \E i \in LineEnds : \A j \in LineEnds : i <= j
    BY <1>1, LeastElement
  <1>3. LineEnd \in LineEnds /\ \A j \in LineEnds : LineEnd <= j
    BY <1>2, Zenon DEF LineEnd
  <1>4. PICK n, k : n = StringEnd /\ k = LineEnd
    OBVIOUS
  <1>5. n \in Nat /\ k \in 0 .. n /\ buf[k] = NL
    BY <1>3, <1>4 DEF LineEnds
  <1>6. \A j \in 0 .. k - 1 : buf[j] # NL
    <2> SUFFICES ASSUME NEW j \in 0 .. k - 1, buf[j] = NL PROVE FALSE
      OBVIOUS
    <2>1. j \in 0 .. n
      BY <1>5
    <2>2. j \in LineEnds
      BY <2>1, <1>4 DEF LineEnds
    <2>3. k <= j
      BY <2>2, <1>3, <1>4
    <2> QED BY <2>3, <1>5
  <1> QED BY <1>4, <1>5, <1>6

-----------------------------------------------------------------------------
(* The steps.                                                              *)

LEMMA InitLine == LineInit => LineInv
  <1> SUFFICES ASSUME LineInit PROVE LineInv
    OBVIOUS
  <1>1. buf \in [Cells -> Int]
    BY DEF LineInit, Unwritten, NL, NUL, Old
  <1>2. TypeInv
    BY <1>1, SizeAssumption DEF LineInit, TypeInv, Cells
  <1>3. fed \in Seq(Nat) /\ Taken = 0 /\ lines = << >>
    BY DEF LineInit, Taken
  <1>4. LinesInv
    BY <1>3, CutStep DEF LinesInv, Uncut
  <1> QED BY <1>2, <1>4 DEF LineInv, RestInv, StringInv, LineInit

\* What arrives is put behind what is there, and ends the string.
LEMMA ReadKeeps ==
  ASSUME LineInv, LinesPerRead \in {0, 1},
         NEW n \in 1 .. InputLength - Len(fed), n <= Size - 1 - offset,
         NEW chunk \in Chunks(n), Read(chunk)
  PROVE  LineInv'
  <1> USE DEF LineInv
  <1>1. /\ n \in Nat \ {0}
        /\ offset \in Nat
        /\ Len(fed) \in Nat
        /\ Size \in Nat
        /\ offset <= Len(fed)
        /\ offset + n <= Size - 1
    BY SizeAssumption, InputAssumption DEF TypeInv, Cells
  <1>2. /\ chunk \in Seq(Nat)
        /\ Len(chunk) = n
        /\ DOMAIN chunk = 1 .. n
    <2>1. PICK ends \in SUBSET (1 .. n) : chunk = [i \in 1 .. n |-> IF i \in ends THEN NL ELSE Len(fed) + i]
      BY DEF Chunks
    <2>2. chunk \in [1 .. n -> Nat]
      BY <2>1, <1>1 DEF NL
    <2> QED BY <2>2, <1>1
  <1>3. /\ offset' = offset + n
        /\ fed' = fed \o chunk
        /\ buf' = [i \in Cells |-> CASE i \in offset .. offset + n - 1 -> chunk[i - offset + 1]
                                     [] i = offset + n -> NUL
                                     [] OTHER -> buf[i]]
        /\ pc' = "lines"
        /\ lines' = lines
        /\ pc = "read"
    BY <1>2 DEF Read, Stored
  <1>4. /\ fed' \in Seq(Nat)
        /\ Len(fed') = Len(fed) + n
        /\ Taken' = Taken
        /\ Taken \in 0 .. Len(fed)
    BY <1>1, <1>2, <1>3 DEF TypeInv, Taken
  <1>5. /\ offset' \in Cells
        /\ fed' # << >>
    BY <1>1, <1>3, <1>4 DEF Cells
  <1>6. /\ \A i \in 0 .. offset - 1 : i \in Cells /\ buf'[i] = buf[i]
        /\ \A i \in offset .. offset + n - 1 : i \in Cells /\ buf'[i] = chunk[i - offset + 1]
        /\ buf'[offset + n] = NUL
    BY <1>1, <1>3 DEF Cells
  <1>7. buf' \in [Cells -> Int]
    <2> SUFFICES ASSUME NEW i \in Cells
                 PROVE  (CASE i \in offset .. offset + n - 1 -> chunk[i - offset + 1]
                           [] i = offset + n -> NUL
                           [] OTHER -> buf[i]) \in Int
      BY <1>3
    <2>1. i \in offset .. offset + n - 1 => chunk[i - offset + 1] \in Int
      BY <1>1, <1>2
    <2>2. buf[i] \in Int
      BY DEF TypeInv
    <2> QED BY <2>1, <2>2, <1>1 DEF NUL, Cells
  <1>8. TypeInv'
    BY <1>1, <1>3, <1>4, <1>5, <1>7 DEF TypeInv
  <1>9. LinesInv'
    <2>1. CutUpTo(fed \o chunk)[Taken] = CutUpTo(fed)[Taken]
      BY <1>2, <1>4, CutExtends DEF TypeInv
    <2> QED BY <2>1, <1>3, <1>4 DEF LinesInv
  <1>10. RestInv'
    <2> SUFFICES ASSUME NEW i \in 0 .. offset' - 1
                 PROVE  buf'[i] = fed'[Taken' + i + 1]
      BY DEF RestInv
    <2>0. offset' = offset + n /\ fed' = fed \o chunk /\ Taken' = Taken
      BY <1>3, <1>4
    <2>1. CASE i \in 0 .. offset - 1
      <3>1. Taken + i + 1 \in 1 .. Len(fed)
        BY <2>1, <1>1 DEF Taken
      <3>2. (fed \o chunk)[Taken + i + 1] = fed[Taken + i + 1]
        BY <3>1, <1>2 DEF TypeInv
      <3> QED BY <3>2, <2>0, <2>1, <1>6 DEF RestInv
    <2>2. CASE i \in offset .. offset + n - 1
      <3>1. /\ Taken + i + 1 = Len(fed) + (i - offset + 1)
            /\ i - offset + 1 \in 1 .. Len(chunk)
        BY <2>2, <1>1, <1>2 DEF Taken
      <3>2. (fed \o chunk)[Len(fed) + (i - offset + 1)] = chunk[i - offset + 1]
        BY <3>1, <1>2 DEF TypeInv
      <3> QED BY <3>1, <3>2, <2>0, <2>2, <1>6
    <2>3. i \in 0 .. offset - 1 \/ i \in offset .. offset + n - 1
      BY <2>0, <1>1
    <2> QED BY <2>1, <2>2, <2>3
  <1>11. \A i \in 0 .. offset - 1 : buf'[i] # NL
    <2>1. fed = << >> => offset = 0
      BY <1>1
    <2>2. fed # << >> => \A i \in 0 .. offset - 1 : buf[i] # NL
      <3> SUFFICES ASSUME fed # << >>, NEW i \in 0 .. offset - 1
                   PROVE  buf[i] # NL
        OBVIOUS
      <3>1. PICK e \in offset .. Size - 1 : NoEnds(e)
        BY <1>3 DEF StringInv
      <3>2. i \in 0 .. e - 1
        BY <1>1
      <3> QED BY <3>1, <3>2 DEF NoEnds
    <2> QED BY <2>1, <2>2, <1>1, <1>6
  <1>12. PICK e : e = offset + n
    OBVIOUS
  <1>13. EndIsLast' \/ OneEnd(e)'
    <2>1. CASE Last(chunk) = NL
      <3>1. /\ offset + n - 1 \in offset .. offset + n - 1
            /\ (offset + n - 1) - offset + 1 = n
        BY <1>1
      <3>2. buf'[offset + n - 1] = chunk[n]
        BY <3>1, <1>6
      <3> QED BY <2>1, <3>2, <1>1, <1>2, <1>3 DEF EndIsLast, Last
    <2>2. CASE Cardinality({i \in DOMAIN chunk : chunk[i] = NL}) <= LinesPerRead
      <3> DEFINE E == {i \in 1 .. n : chunk[i] = NL}
      <3>0. {i \in DOMAIN chunk : chunk[i] = NL} = E
        BY <1>2
      <3>1. IsFiniteSet(E) /\ Cardinality(E) \in Nat
        <4>1. IsFiniteSet(1 .. n)
          BY <1>1, FS_Interval
        <4> QED BY <4>1, FS_Subset, FS_CardinalityType
      <3>2. \A i, j \in E : i = j
        <4>1. Cardinality(E) <= LinesPerRead
          BY <2>2, <3>0
        <4> HIDE DEF E
        <4>3. Cardinality(E) = 0 \/ Cardinality(E) = 1
          BY <4>1, <3>1
        <4>4. Cardinality(E) = 0 => E = {}
          BY <3>1, FS_EmptySet
        <4>5. Cardinality(E) = 1 => \E x : E = {x}
          BY <3>1, FS_Singleton
        <4> QED BY <4>3, <4>4, <4>5
      <3>3. \A i \in 0 .. offset + n - 1 : buf'[i] = NL => i \in offset .. offset + n - 1 /\ i - offset + 1 \in E
        <4> SUFFICES ASSUME NEW i \in 0 .. offset + n - 1, buf'[i] = NL
                     PROVE  i \in offset .. offset + n - 1 /\ i - offset + 1 \in E
          OBVIOUS
        <4>1. i \in offset .. offset + n - 1
          BY <1>1, <1>11
        <4>2. i - offset + 1 \in 1 .. n
          BY <4>1, <1>1
        <4> QED BY <4>1, <4>2, <1>6
      <3>5. \A i, j \in 0 .. offset + n - 1 : buf'[i] = NL /\ buf'[j] = NL => i = j
        <4> SUFFICES ASSUME NEW i \in 0 .. offset + n - 1, NEW j \in 0 .. offset + n - 1,
                            buf'[i] = NL, buf'[j] = NL
                     PROVE  i = j
          OBVIOUS
        <4>1. i - offset + 1 = j - offset + 1
          BY <3>2, <3>3
        <4> QED BY <4>1, <1>1
      <3>6. \A i \in 0 .. e - 1 : buf'[i] = NL => i < offset'
        BY <1>12, <1>1, <1>3
      <3>7. \A i, j \in 0 .. e - 1 : buf'[i] = NL /\ buf'[j] = NL => i = j
        BY <3>5, <1>12, <1>1
      <3> QED BY <3>6, <3>7 DEF OneEnd
    <2> QED BY <2>1, <2>2 DEF Read, Orderly
  <1>14. StringInv'
    <2>1. e \in offset' .. Size - 1 /\ buf'[e] = NUL
      BY <1>1, <1>3, <1>6, <1>12
    <2> QED BY <2>1, <1>3, <1>13 DEF StringInv
  <1> QED BY <1>8, <1>9, <1>10, <1>14

\* A line is taken out of what was typed: its end is among the bytes that
\* are still to come, never among old ones.
LEMMA LineKeeps ==
  ASSUME LineInv, Line
  PROVE  LineInv'
  <1> USE DEF LineInv
  <1>1. /\ pc = "lines"
        /\ LineEnds # {}
        /\ fed # << >>
    BY DEF Line, TypeInv
  <1>2. /\ offset \in Nat
        /\ Len(fed) \in Nat
        /\ Size \in Nat
        /\ offset <= Len(fed)
        /\ offset <= Size - 1
    BY SizeAssumption DEF TypeInv, Cells
  <1>3. PICK e \in offset .. Size - 1 : buf[e] = NUL /\ (EndIsLast \/ OneEnd(e))
    BY <1>1 DEF StringInv
  <1>4. StringEnd \in offset .. e /\ buf[StringEnd] = NUL
    BY <1>3, FirstEnd
  <1>5. PICK m, k : m = StringEnd /\ k = LineEnd
    OBVIOUS
  <1>6. m \in offset .. e /\ m \in Nat /\ buf[m] = NUL
    BY <1>2, <1>4, <1>5
  <1>7. /\ k \in 0 .. m
        /\ buf[k] = NL
        /\ \A j \in 0 .. k - 1 : buf[j] # NL
    BY <1>1, <1>5, <1>6, FirstLineEnd
  <1>8. k \in Nat /\ k < m /\ k < e
    BY <1>2, <1>3, <1>6, <1>7 DEF NL, NUL
  <1>9. k < offset
    <2>1. CASE EndIsLast
      <3>1. offset > 0 /\ offset - 1 \in 0 .. m /\ buf[offset - 1] = NL
        BY <2>1, <1>2, <1>6 DEF EndIsLast
      <3>2. ~ (offset - 1 \in 0 .. k - 1)
        BY <3>1, <1>7
      <3> QED BY <3>1, <3>2, <1>2, <1>8
    <2>2. CASE OneEnd(e)
      BY <2>2, <1>7, <1>8 DEF OneEnd
    <2> QED BY <2>1, <2>2, <1>3
  <1>10. PICK left : left = offset - (k + 1)
    OBVIOUS
  <1>11. left \in Nat /\ k + 1 + left = offset /\ left < offset
    BY <1>2, <1>8, <1>9, <1>10
  <1>12. PICK cut : cut = [buf EXCEPT ![k] = NUL]
    OBVIOUS
  <1>13. /\ cut \in [Cells -> Int]
         /\ cut[k] = NUL
         /\ \A i \in Cells : i # k => cut[i] = buf[i]
    <2>1. k \in Cells
      BY <1>2, <1>8, <1>9 DEF Cells
    <2> QED BY <2>1, <1>12 DEF TypeInv, NUL
  <1>14. /\ lines' = Append(lines, [i \in 1 .. k |-> buf[i - 1]])
         /\ offset' = left
         /\ buf' = IF left > 0 THEN Moved(cut, k + 1, left) ELSE cut
         /\ pc' = "lines"
         /\ fed' = fed
    BY <1>5, <1>10, <1>11, <1>12 DEF Line
  <1>15. left > 0 =>
           /\ \A i \in 0 .. left - 1 : buf'[i] = buf[k + 1 + i]
           /\ \A i \in left .. Size - 1 : buf'[i] = cut[i]
    <2> SUFFICES ASSUME left > 0
                 PROVE  /\ \A i \in 0 .. left - 1 : buf'[i] = buf[k + 1 + i]
                        /\ \A i \in left .. Size - 1 : buf'[i] = cut[i]
      OBVIOUS
    <2>1. buf' = [i \in Cells |-> IF i < left /\ k + 1 + i \in Cells THEN cut[k + 1 + i] ELSE cut[i]]
      BY <1>14 DEF Moved
    <2>2. \A i \in 0 .. left - 1 : i \in Cells /\ i < left /\ k + 1 + i \in Cells /\ k + 1 + i # k
      BY <1>2, <1>8, <1>11 DEF Cells
    <2>3. \A i \in left .. Size - 1 : i \in Cells /\ ~ (i < left)
      BY <1>2, <1>11 DEF Cells
    <2> QED BY <2>1, <2>2, <2>3, <1>13
  <1>16. TypeInv'
    <2>1. buf' \in [Cells -> Int]
      BY <1>13, <1>14 DEF Moved
    <2>2. left \in Cells /\ left <= Len(fed)
      BY <1>2, <1>11 DEF Cells
    <2> QED BY <2>1, <2>2, <1>1, <1>14 DEF TypeInv
  <1>17. PICK t : t = Taken
    OBVIOUS
  <1>18. t \in 0 .. Len(fed) /\ t + offset = Len(fed)
    BY <1>2, <1>17 DEF Taken
  <1>19. Taken' = t + k + 1
    BY <1>2, <1>8, <1>11, <1>14, <1>18 DEF Taken
  <1>20. \A i \in 0 .. offset - 1 : buf[i] = fed[t + i + 1]
    BY <1>17 DEF RestInv
  <1>21. LinesInv'
    <2>1. t + k + 1 <= Len(fed) /\ fed[t + k + 1] = NL
      BY <1>7, <1>8, <1>9, <1>18, <1>20, <1>2
    <2>2. \A i \in t + 1 .. t + k : fed[i] # NL
      <3> SUFFICES ASSUME NEW i \in t + 1 .. t + k PROVE fed[i] # NL
        OBVIOUS
      <3>1. i - t - 1 \in 0 .. k - 1 /\ i - t - 1 \in 0 .. offset - 1 /\ t + (i - t - 1) + 1 = i
        BY <1>2, <1>8, <1>9, <1>18
      <3>2. buf[i - t - 1] = fed[i]
        BY <3>1, <1>20
      <3> QED BY <3>1, <3>2, <1>7
    <2>3. CutUpTo(fed)[t] = [whole |-> lines, part |-> << >>]
      BY <1>17 DEF LinesInv
    <2>4. fed \in Seq(Nat)
      BY DEF TypeInv
    <2>5. CutUpTo(fed)[t + k + 1] = [whole |-> Append(lines, SubSeq(fed, t + 1, t + k)), part |-> << >>]
      BY <2>1, <2>2, <2>3, <2>4, <1>8, <1>18, CutLine
    <2>6. SubSeq(fed, t + 1, t + k) = [i \in 1 .. k |-> buf[i - 1]]
      <3>1. SubSeq(fed, t + 1, t + k) = [i \in 1 .. k |-> fed[t + i]]
        BY <2>1, <2>4, <1>8, <1>18
      <3>2. \A i \in 1 .. k : fed[t + i] = buf[i - 1]
        <4> SUFFICES ASSUME NEW i \in 1 .. k PROVE fed[t + i] = buf[i - 1]
          OBVIOUS
        <4>1. i - 1 \in 0 .. offset - 1 /\ t + (i - 1) + 1 = t + i
          BY <1>2, <1>8, <1>9, <1>18
        <4> QED BY <4>1, <1>20
      <3> QED BY <3>1, <3>2
    <2> QED BY <2>5, <2>6, <1>14, <1>19 DEF LinesInv
  <1>22. RestInv'
    <2> SUFFICES ASSUME NEW i \in 0 .. offset' - 1
                 PROVE  buf'[i] = fed'[Taken' + i + 1]
      BY DEF RestInv
    <2>1. i \in 0 .. left - 1 /\ left > 0
      BY <1>11, <1>14
    <2>2. buf'[i] = buf[k + 1 + i]
      BY <2>1, <1>15
    <2>3. k + 1 + i \in 0 .. offset - 1 /\ t + (k + 1 + i) + 1 = (t + k + 1) + i + 1
      BY <2>1, <1>8, <1>11, <1>2, <1>18
    <2>4. buf[k + 1 + i] = fed[(t + k + 1) + i + 1]
      BY <2>3, <1>20
    <2> QED BY <2>2, <2>4, <1>14, <1>19
  <1>23. CASE left = 0
    <2>1. buf' = cut
      BY <1>23, <1>14
    <2>2. k \in offset' .. Size - 1 /\ buf'[k] = NUL
      BY <2>1, <1>23, <1>2, <1>8, <1>9, <1>13, <1>14
    <2>3. \A i \in 0 .. k - 1 : buf'[i] # NL
      <3>1. \A i \in 0 .. k - 1 : i \in Cells /\ i # k
        BY <1>2, <1>8, <1>9 DEF Cells
      <3> QED BY <3>1, <2>1, <1>7, <1>13
    <2>4. OneEnd(k)'
      BY <2>3 DEF OneEnd
    <2>5. StringInv'
      BY <2>2, <2>4, <1>14 DEF StringInv
    <2> QED BY <2>5, <1>16, <1>21, <1>22
  <1>24. CASE left > 0
    <2>1. e \in offset' .. Size - 1 /\ e # k /\ e \in Cells
      BY <1>2, <1>3, <1>8, <1>11, <1>14 DEF Cells
    <2>2. buf'[e] = NUL
      BY <2>1, <1>24, <1>3, <1>13, <1>14, <1>15
    <2>3. ASSUME EndIsLast PROVE EndIsLast'
      <3>1. left - 1 \in 0 .. left - 1 /\ k + 1 + (left - 1) = offset - 1
        BY <1>24, <1>8, <1>11, <1>2
      <3>2. buf'[left - 1] = NL
        BY <3>1, <1>24, <2>3, <1>15 DEF EndIsLast
      <3> QED BY <3>2, <1>14, <1>24 DEF EndIsLast
    <2>4. ASSUME OneEnd(e) PROVE OneEnd(e)'
      <3>1. \A j \in 0 .. e - 1 : buf[j] = NL => j = k
        BY <2>4, <1>7, <1>8 DEF OneEnd
      <3>2. \A i \in 0 .. e - 1 : buf'[i] # NL
        <4> SUFFICES ASSUME NEW i \in 0 .. e - 1 PROVE buf'[i] # NL
          OBVIOUS
        <4>1. CASE i \in 0 .. left - 1
          <5>1. k + 1 + i \in 0 .. e - 1 /\ k + 1 + i # k
            BY <4>1, <1>2, <1>3, <1>8, <1>11
          <5> QED BY <5>1, <4>1, <3>1, <1>15, <1>24
        <4>2. CASE i \in left .. Size - 1
          <5>1. buf'[i] = cut[i] /\ i \in Cells
            BY <4>2, <1>15, <1>24, <1>11 DEF Cells
          <5>2. i = k \/ (cut[i] = buf[i] /\ buf[i] # NL)
            BY <5>1, <3>1, <1>13
          <5> QED BY <5>1, <5>2, <1>13 DEF NL, NUL
        <4> QED BY <4>1, <4>2, <1>2, <1>3, <1>11
      <3> QED BY <3>2 DEF OneEnd
    <2>5. StringInv'
      <3>1. EndIsLast' \/ OneEnd(e)'
        BY <2>3, <2>4, <1>3
      <3> QED BY <3>1, <2>1, <2>2, <1>14 DEF StringInv
    <2> QED BY <2>5, <1>16, <1>21, <1>22
  <1> QED BY <1>23, <1>24, <1>11

\* The loop ends when there is no end of a line in front of the end of the
\* string, and reads again.
LEMMA NoMoreLinesKeeps ==
  ASSUME LineInv, NoMoreLines
  PROVE  LineInv'
  <1> USE DEF LineInv
  <1>1. /\ pc = "lines" /\ LineEnds = {} /\ pc' = "read"
        /\ buf' = buf /\ offset' = offset /\ lines' = lines /\ fed' = fed
        /\ fed # << >>
    BY DEF NoMoreLines, TypeInv
  <1>2. PICK e \in offset .. Size - 1 : buf[e] = NUL
    BY <1>1 DEF StringInv
  <1>3. PICK m : m = StringEnd
    OBVIOUS
  <1>4. m \in offset .. e /\ buf[m] = NUL /\ offset \in Nat /\ Size \in Nat
    BY <1>2, <1>3, FirstEnd, SizeAssumption DEF TypeInv, Cells
  <1>5. NoEnds(m)
    <2> SUFFICES ASSUME NEW i \in 0 .. m - 1, buf[i] = NL PROVE FALSE
      BY DEF NoEnds
    <2>1. i \in 0 .. m
      BY <1>4
    <2> QED BY <2>1, <1>1, <1>3 DEF LineEnds
  <1>6. m \in offset .. Size - 1
    BY <1>2, <1>4
  <1>7. StringInv'
    BY <1>1, <1>4, <1>5, <1>6 DEF StringInv, NoEnds
  <1>8. Taken' = Taken
    BY <1>1 DEF Taken
  <1> QED BY <1>1, <1>7, <1>8 DEF TypeInv, LinesInv, RestInv

LEMMA ReadNothingKeeps ==
  ASSUME LineInv, ReadNothing
  PROVE  LineInv'
  <1> USE DEF LineInv
  <1>1. /\ pc = "read" /\ pc' \in {"ended", "lines"} /\ fed # << >>
        /\ buf' = buf /\ offset' = offset /\ lines' = lines /\ fed' = fed
    BY DEF ReadNothing
  <1>2. PICK e \in offset .. Size - 1 : buf[e] = NUL /\ NoEnds(e)
    BY <1>1 DEF StringInv
  <1>3. OneEnd(e)
    BY <1>2 DEF NoEnds, OneEnd
  <1>4. StringInv'
    BY <1>1, <1>2, <1>3 DEF StringInv, NoEnds, OneEnd
  <1>5. Taken' = Taken
    BY <1>1 DEF Taken
  <1> QED BY <1>1, <1>4, <1>5 DEF TypeInv, LinesInv, RestInv

LEMMA StutterKeeps ==
  ASSUME LineInv, UNCHANGED lineVars
  PROVE  LineInv'
  BY DEF LineInv, lineVars, TypeInv, LinesInv, RestInv, StringInv, Taken, NoEnds, OneEnd, EndIsLast

THEOREM LineInvariance == LinesPerRead \in {0, 1} => (LineSpec => []LineInv)
  <1> SUFFICES ASSUME LinesPerRead \in {0, 1} PROVE LineSpec => []LineInv
    OBVIOUS
  <1>1. LineInit => LineInv
    BY InitLine
  <1>2. LineInv /\ [LineNext]_lineVars => LineInv'
    <2> SUFFICES ASSUME LineInv, [LineNext]_lineVars PROVE LineInv'
      OBVIOUS
    <2>1. ASSUME NEW n \in 1 .. InputLength - Len(fed), n <= Size - 1 - offset,
                 NEW chunk \in Chunks(n), Read(chunk)
          PROVE  LineInv'
      BY <2>1, ReadKeeps
    <2>2. CASE ReadNothing
      BY <2>2, ReadNothingKeeps
    <2>3. CASE Line
      BY <2>3, LineKeeps
    <2>4. CASE NoMoreLines
      BY <2>4, NoMoreLinesKeeps
    <2>5. CASE UNCHANGED lineVars
      BY <2>5, StutterKeeps
    <2> QED BY <2>1, <2>2, <2>3, <2>4, <2>5 DEF LineNext
  <1> QED BY <1>1, <1>2, PTL DEF LineSpec

-----------------------------------------------------------------------------
(* The property.                                                           *)

\* In a state of the invariant every line is executed once.
LEMMA LinesAreTyped ==
  ASSUME LineInv
  PROVE  EachLineOnce
  <1> USE DEF LineInv
  <1>1. PICK t : t = Taken
    OBVIOUS
  <1>2. /\ offset \in Nat
        /\ Size \in Nat
        /\ offset <= Size - 1
        /\ fed \in Seq(Nat)
        /\ t \in 0 .. Len(fed)
        /\ t + offset = Len(fed)
    BY <1>1, SizeAssumption DEF TypeInv, Taken, Cells
  <1>3. CutUpTo(fed)[t] = [whole |-> lines, part |-> << >>]
    BY <1>1 DEF LinesInv
  <1>4. pc # "crashed"
    BY DEF TypeInv
  <1>5. IsPrefix(lines, Typed.whole)
    BY <1>2, <1>3, CutPrefix DEF Typed
  <1>6. ASSUME pc \in {"read", "ended"}
        PROVE  /\ lines = Typed.whole
               /\ SubSeq([i \in 1 .. Size |-> buf[i - 1]], 1, offset) = Typed.part
    <2>1. \A i \in 0 .. offset - 1 : buf[i] = fed[t + i + 1]
      BY <1>1 DEF RestInv
    <2>2. \A i \in 0 .. offset - 1 : buf[i] # NL
      <3>1. fed = << >> => offset = 0
        BY <1>2
      <3>2. ASSUME fed # << >>, NEW i \in 0 .. offset - 1 PROVE buf[i] # NL
        <4>1. PICK e \in offset .. Size - 1 : NoEnds(e)
          BY <3>2, <1>6 DEF StringInv
        <4>2. i \in 0 .. e - 1
          BY <1>2
        <4> QED BY <4>1, <4>2 DEF NoEnds
      <3> QED BY <3>1, <3>2
    <2>3. \A i \in t + 1 .. t + offset : fed[i] # NL
      <3> SUFFICES ASSUME NEW i \in t + 1 .. t + offset PROVE fed[i] # NL
        OBVIOUS
      <3>1. i - t - 1 \in 0 .. offset - 1 /\ t + (i - t - 1) + 1 = i
        BY <1>2
      <3>2. buf[i - t - 1] = fed[i]
        BY <3>1, <2>1
      <3> QED BY <3>1, <3>2, <2>2
    <2>4. t + offset <= Len(fed)
      BY <1>2
    <2>5. CutUpTo(fed)[t + offset] = [whole |-> lines, part |-> SubSeq(fed, t + 1, t + offset)]
      BY <1>2, <1>3, <2>3, <2>4, CutPart
    <2>6. Typed = [whole |-> lines, part |-> SubSeq(fed, t + 1, t + offset)]
      BY <2>5, <1>2 DEF Typed
    <2>7. SubSeq([i \in 1 .. Size |-> buf[i - 1]], 1, offset) = [i \in 1 .. offset |-> buf[i - 1]]
      <3> DEFINE b == [i \in 1 .. Size |-> buf[i - 1]]
      <3>1. b \in Seq(Int) /\ Len(b) = Size
        BY <1>2 DEF TypeInv, Cells
      <3>2. \A i \in 1 .. offset : b[i] = buf[i - 1]
        BY <1>2
      <3> HIDE DEF b
      <3>3. SubSeq(b, 1, offset) = [i \in 1 .. offset |-> b[i]]
        BY <3>1, <1>2
      <3> QED BY <3>2, <3>3 DEF b
    <2>8. SubSeq(fed, t + 1, t + offset) = [i \in 1 .. offset |-> fed[t + i]]
      BY <1>2
    <2>9. \A i \in 1 .. offset : fed[t + i] = buf[i - 1]
      <3> SUFFICES ASSUME NEW i \in 1 .. offset PROVE fed[t + i] = buf[i - 1]
        OBVIOUS
      <3>1. i - 1 \in 0 .. offset - 1 /\ t + (i - 1) + 1 = t + i
        BY <1>2
      <3> QED BY <3>1, <2>1
    <2> QED BY <2>6, <2>7, <2>8, <2>9
  <1> QED BY <1>4, <1>5, <1>6 DEF EachLineOnce

\* remote_read_io, dothework of xjremote: the commands on standard input are
\* executed once each, in their order and as they were typed, and the offset
\* never becomes negative, for a buffer of any size - if a read that ends
\* within a line brings the end of at most one other.
THEOREM LinesAreExecutedOnce == LinesPerRead \in {0, 1} => (LineSpec => []EachLineOnce)
  <1>1. LineInv => EachLineOnce
    BY LinesAreTyped
  <1>2. LinesPerRead \in {0, 1} => (LineSpec => []LineInv)
    BY LineInvariance
  <1> QED BY <1>1, <1>2, PTL

-----------------------------------------------------------------------------
(* Types, however many lines a read brings: once it was read into, the     *)
(* buffer never loses the end of its string.                               *)

Bytes == {NL, NUL, Old} \cup 1 .. InputLength

EndInv == /\ buf \in [Cells -> Bytes]
          /\ fed # << >> => \E e \in Cells : e >= offset /\ buf[e] = NUL
          /\ offset \in Int
          /\ pc # "crashed" => offset \in Cells
          /\ pc \in {"read", "lines", "ended", "crashed"}
          /\ fed \in Seq(Nat)
          /\ pc = "lines" => fed # << >>

LEMMA ReadKeepsEnd ==
  ASSUME EndInv, NEW n \in 1 .. InputLength - Len(fed), n <= Size - 1 - offset,
         NEW chunk \in Chunks(n), Read(chunk)
  PROVE  EndInv'
  <1> USE DEF EndInv
  <1>1. Len(fed) \in Nat /\ n \in Nat \ {0} /\ offset \in Cells /\ offset \in Nat
    BY InputAssumption, SizeAssumption DEF Read, Cells
  <1>2. PICK ends \in SUBSET (1 .. n) :
          chunk = [i \in 1 .. n |-> IF i \in ends THEN NL ELSE Len(fed) + i]
    BY DEF Chunks
  <1>3. /\ \A i \in 1 .. n : chunk[i] \in Bytes /\ chunk[i] \in Nat
        /\ chunk \in Seq(Nat) /\ Len(chunk) = n
    <2>1. \A i \in 1 .. n : chunk[i] \in Bytes /\ chunk[i] \in Nat
      BY <1>1, <1>2, InputAssumption DEF Bytes, NL
    <2>2. chunk = [i \in 1 .. n |-> chunk[i]]
      BY <1>2
    <2> QED BY <1>1, <2>1, <2>2
  <1>4. \A i \in Cells : Stored(chunk)[i] \in Bytes
    <2> TAKE i \in Cells
    <2>1. i \in offset .. offset + Len(chunk) - 1 => i - offset + 1 \in 1 .. n
      BY <1>1, <1>3 DEF Cells
    <2>2. NUL \in Bytes /\ buf[i] \in Bytes
      BY DEF Bytes
    <2> QED BY <1>3, <2>1, <2>2 DEF Stored
  <1>5. offset + n \in Cells /\ offset + n >= offset
    BY <1>1, SizeAssumption DEF Cells
  <1>6. Stored(chunk)[offset + n] = NUL
    BY <1>1, <1>3, <1>5 DEF Stored
  <1>7. Stored(chunk) \in [Cells -> Bytes]
    BY <1>4 DEF Stored
  <1>8. fed' \in Seq(Nat) /\ fed' # << >>
    BY <1>1, <1>3 DEF Read
  <1> QED BY <1>1, <1>3, <1>5, <1>6, <1>7, <1>8 DEF Read

LEMMA LineKeepsEnd ==
  ASSUME EndInv, Line
  PROVE  EndInv'
  <1> USE DEF EndInv
  <1> DEFINE k == LineEnd
             left == offset - (k + 1)
             cut == [buf EXCEPT ![k] = NUL]
  <1>1. offset \in Cells /\ Cells \subseteq Nat /\ fed # << >>
    BY DEF Line, Cells
  <1>2. \E i \in Cells : buf[i] = NUL /\ \A j \in 0 .. i - 1 : buf[j] # NUL
    <2> DEFINE T == {i \in Cells : buf[i] = NUL}
    <2>1. T \subseteq Nat /\ T # {}
      BY <1>1
    <2>2. PICK i \in T : \A j \in T : i <= j
      BY <2>1, LeastElement
    <2>3. i \in Cells /\ i \in Nat
      BY <2>2, <2>1
    <2>4. \A j \in 0 .. i - 1 : j \in Cells /\ ~ (i <= j)
      BY <2>3, SizeAssumption DEF Cells
    <2> QED BY <2>2, <2>3, <2>4
  <1>3. StringEnd \in Cells
    BY <1>2 DEF StringEnd
  <1>4. LineEnds \subseteq Nat /\ LineEnds \subseteq Cells /\ LineEnds # {}
    BY <1>1, <1>3, SizeAssumption DEF LineEnds, Line, Cells
  <1>5. k \in Cells
    <2>1. PICK i \in LineEnds : \A j \in LineEnds : i <= j
      BY <1>4, LeastElement
    <2>2. LineEnd \in LineEnds
      BY <2>1 DEF LineEnd
    <2> QED BY <1>4, <2>2
  <1>6. /\ offset' = left
        /\ buf' = IF left > 0 THEN Moved(cut, k + 1, left) ELSE cut
        /\ pc' = IF left < 0 THEN "crashed" ELSE "lines"
        /\ fed' = fed
    BY DEF Line
  <1> HIDE DEF k
  <1>7. left \in Int /\ left < offset /\ left <= Size - 1 /\ offset \in Int
    BY <1>1, <1>5, SizeAssumption DEF Cells
  <1>8. cut \in [Cells -> Bytes] /\ \A i \in Cells : buf[i] = NUL => cut[i] = NUL
    BY <1>5 DEF Bytes
  <1> HIDE DEF cut
  <1>9. PICK e \in Cells : e >= offset /\ buf[e] = NUL
    BY <1>1
  <1>10. Moved(cut, k + 1, left) \in [Cells -> Bytes] /\ Moved(cut, k + 1, left)[e] = NUL
    <2>1. ~ (e < left)
      BY <1>1, <1>7, <1>9
    <2> QED BY <1>8, <1>9, <2>1 DEF Moved
  <1>11. buf' \in [Cells -> Bytes] /\ buf'[e] = NUL
    BY <1>6, <1>8, <1>9, <1>10
  <1>12. offset' \in Int /\ e >= offset'
    BY <1>1, <1>6, <1>7, <1>9
  <1>13. pc' # "crashed" => offset' \in Cells
    BY <1>6, <1>7, SizeAssumption DEF Cells
  <1> QED BY <1>1, <1>6, <1>9, <1>11, <1>12, <1>13

\* remote_read_io, dothework of xjremote: whatever is typed and however it is
\* cut into reads, the buffer holds the end of a string behind the offset, and
\* the offset is in the buffer as long as it is not negative.
THEOREM LineTypeCorrect == LineSpec => []LineTypeOK
  <1>1. LineInit => EndInv
    <2> SUFFICES ASSUME LineInit PROVE EndInv
      OBVIOUS
    <2>1. 0 \in Cells
      BY SizeAssumption DEF Cells
    <2>2. \A b \in Unwritten : b \in [Cells -> Bytes]
      BY DEF Unwritten, Bytes
    <2> QED BY <2>1, <2>2 DEF LineInit, EndInv, Cells
  <1>2. EndInv /\ [LineNext]_lineVars => EndInv'
    <2> SUFFICES ASSUME EndInv, [LineNext]_lineVars PROVE EndInv'
      OBVIOUS
    <2>1. ASSUME NEW n \in 1 .. InputLength - Len(fed), n <= Size - 1 - offset,
                 NEW chunk \in Chunks(n), Read(chunk)
          PROVE  EndInv'
      BY <2>1, ReadKeepsEnd
    <2>2. CASE ReadNothing
      BY <2>2 DEF ReadNothing, EndInv
    <2>3. CASE Line
      BY <2>3, LineKeepsEnd
    <2>4. CASE NoMoreLines
      BY <2>4 DEF NoMoreLines, EndInv
    <2>5. CASE UNCHANGED lineVars
      BY <2>5 DEF lineVars, EndInv
    <2> QED BY <2>1, <2>2, <2>3, <2>4, <2>5 DEF LineNext
  <1>3. EndInv => LineTypeOK
    BY DEF EndInv, LineTypeOK, Bytes
  <1> QED BY <1>1, <1>2, <1>3, PTL DEF LineSpec

=============================================================================
