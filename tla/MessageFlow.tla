---------------------------- MODULE MessageFlow ----------------------------
(***************************************************************************)
(* A message on its way between servers: Client.SendMessage hands it to    *)
(* Hub.Run, a goroutine (Hub.SendMessage) runs the send handlers, looks    *)
(* every target up in etcd, groups the targets by server and publishes one *)
(* copy per server to that server's durable RabbitMQ queue; a consumer     *)
(* (Client.ReceiveMessage, one per session ever accepted) acknowledges it  *)
(* and hands it to Hub.Run, whose goroutine (Hub.ReceiveMessage) gives it  *)
(* to the WriteChannels of the targets' clients, waiting where one is      *)
(* full.  Servers crash and start again.                                   *)
(*                                                                         *)
(* Sessions come and go as HubSessions has them; their routes follow       *)
(* RouteDirectory.  The channels of a client are in ClientPumps.           *)
(***************************************************************************)
EXTENDS Naturals, Sequences, FiniteSets

CONSTANTS Servers, Sessions, Ids, Msgs,
          IdOf, ServerOf,   \* of a session
          SourceOf,         \* the session that sends a message
          TargetsOf,        \* Message.TargetIds, a sequence of ids
          KindsOf,          \* what Message.Type may be: "chat", "match"
          SourceIdsOf,      \* what the client may write as Message.SourceId
          LongerIds,        \* the ids that have an id as a proper prefix
          BufSize,          \* capacity of a WriteChannel, bufSize
          ChannelMax,       \* AMQP channels one connection may open
          Unsteady,         \* bound: the sessions that end, or whose
                            \* connections to RabbitMQ or to the client fail
          MaxFaults,        \* bound: crashes from outside, and those failures
          Nil, Absent, Nowhere

ASSUME FlowAssumption ==
    /\ IsFiniteSet(Sessions)
    /\ IdOf \in [Sessions -> Ids]
    /\ ServerOf \in [Sessions -> Servers]
    /\ SourceOf \in [Msgs -> Sessions]
    /\ TargetsOf \in [Msgs -> Seq(Ids)]
    /\ KindsOf \in [Msgs -> SUBSET {"chat", "match"}]
    /\ SourceIdsOf \in [Msgs -> SUBSET Ids]
    /\ LongerIds \in [Ids -> SUBSET Ids]
    /\ BufSize \in Nat \ {0}
    /\ Unsteady \subseteq Sessions
    /\ ChannelMax \in Nat /\ MaxFaults \in Nat
    /\ {Nil, Absent, Nowhere} \cap Sessions = {}
    /\ Cardinality({Nil, Absent, Nowhere}) = 3

VARIABLES up,        \* the server process runs
          entry,     \* Hub.Clients: a session, nil, or no entry
          life,      \* of a session
          route,     \* etcd: the session that put the key, Nil, or the
                     \* value "test" a match message left there
          matching,  \* Engine.IsServerHandlerModel of a server
          channels,  \* AMQP channels the hub's connection has open
          stage,     \* of Hub.SendMessage for a message
          looked,    \* how many targets it has looked up
          group,     \* serverToMessage: the targets found on each server
          queue,     \* the durable queue of a server
          consumer,  \* of a session: "off", "wait", "got", then
                     \* "acked", or "lost" without its connection
          held,      \* the copy the consumer holds
          jobs,      \* the goroutines of Hub.ReceiveMessage
          outbox,    \* messages in the WriteChannel of a session
          writing,   \* the writePump of a session runs
          given,     \* history: how often an id's client got a message
          lostAcks,  \* history: acknowledgements of a message that failed
          faults     \* history: the faults there were

sessionVars == <<entry, life, route>>
sendVars    == <<matching, channels, stage, looked, group>>
recvVars    == <<consumer, held, jobs, given>>
clientVars  == <<outbox, writing>>
histVars    == <<lostAcks, faults>>
vars == <<up, entry, life, route, matching, channels, stage, looked, group,
          queue, consumer, held, jobs, outbox, writing, given, lostAcks, faults>>

NoCopy == [msg |-> Nil, targets |-> <<>>]
Copies == [msg : Msgs, targets : Seq(Ids)]
Jobs   == [msg : Msgs, by : Sessions, left : Seq(Ids), client : Sessions \cup {Nil}]
Queues  == Servers \cup {Nowhere}
NoGroup == [v \in Queues |-> <<>>]
Origin(m) == ServerOf[SourceOf[m]]

TypeOK ==
    /\ up \in [Servers -> BOOLEAN]
    /\ entry \in [Servers -> [Ids -> Sessions \cup {Nil, Absent}]]
    /\ life \in [Sessions -> {"new", "early", "live", "leaving", "closed"}]
    /\ route \in [Ids -> Sessions \cup {Nil, Nowhere}]
    /\ matching \in [Servers -> BOOLEAN]
    /\ channels \in [Servers -> 0 .. ChannelMax]
    /\ stage \in [Msgs -> {"new", "handler", "lookup", "publish", "sent", "dropped"}]
    /\ looked \in [Msgs -> Nat]
    /\ group \in [Msgs -> [Queues -> Seq(Ids)]]
    /\ queue \in [Queues -> Seq(Copies)]
    /\ consumer \in [Sessions -> {"off", "wait", "got", "acked", "lost"}]
    /\ held \in [Sessions -> Copies \cup {NoCopy}]
    /\ jobs \subseteq Jobs
    /\ outbox \in [Sessions -> 0 .. BufSize]
    /\ writing \in [Sessions -> BOOLEAN]
    /\ given \in [Msgs -> [Ids -> Nat]]
    /\ lostAcks \in [Msgs -> Nat]
    /\ faults \in 0 .. MaxFaults

Init ==
    /\ up = [v \in Servers |-> TRUE]
    /\ entry = [v \in Servers |-> [i \in Ids |-> Absent]]
    /\ life = [s \in Sessions |-> "new"]
    /\ route = [i \in Ids |-> Nil]
    /\ matching = [v \in Servers |-> FALSE]
    /\ channels = [v \in Servers |-> 0]
    /\ stage = [m \in Msgs |-> "new"]
    /\ looked = [m \in Msgs |-> 0]
    /\ group = [m \in Msgs |-> NoGroup]
    /\ queue = [v \in Queues |-> <<>>]
    /\ consumer = [s \in Sessions |-> "off"]
    /\ held = [s \in Sessions |-> NoCopy]
    /\ jobs = {}
    /\ outbox = [s \in Sessions |-> 0]
    /\ writing = [s \in Sessions |-> FALSE]
    /\ given = [m \in Msgs |-> [i \in Ids |-> 0]]
    /\ lostAcks = [m \in Msgs |-> 0]
    /\ faults = 0

-----------------------------------------------------------------------------
(* The end of a server process: memory is gone, unacknowledged copies go    *)
(* back to the head of the queue, routes stay until their leases lapse.     *)

At(v)      == {s \in Sessions : ServerOf[s] = v}
Unacked(v) == {s \in At(v) : consumer[s] = "got"}
SendingAt(v) == {m \in Msgs : Origin(m) = v /\ stage[m] \in {"handler", "lookup", "publish"}}
JobsAt(v)  == {j \in jobs : ServerOf[j.by] = v}

\* In which order the broker puts several copies back is not specified.
Requeues(v) ==
    {q \in [1 .. Cardinality(Unacked(v)) -> Unacked(v)] :
        \A s \in Unacked(v) : \E i \in DOMAIN q : q[i] = s}

Dies(v) ==
    /\ up' = [up EXCEPT ![v] = FALSE]
    /\ entry' = [entry EXCEPT ![v] = [i \in Ids |-> Absent]]
    /\ life' = [s \in Sessions |-> IF ServerOf[s] = v /\ life[s] # "new"
                                   THEN "closed" ELSE life[s]]
    /\ matching' = [matching EXCEPT ![v] = FALSE]
    /\ channels' = [channels EXCEPT ![v] = 0]
    /\ stage' = [m \in Msgs |-> IF m \in SendingAt(v) THEN "dropped" ELSE stage[m]]
    /\ looked' = [m \in Msgs |-> IF m \in SendingAt(v) THEN 0 ELSE looked[m]]
    /\ group' = [m \in Msgs |-> IF m \in SendingAt(v) THEN NoGroup ELSE group[m]]
    /\ \E q \in Requeues(v) :
          queue' = [queue EXCEPT ![v] = [i \in DOMAIN q |-> held[q[i]]] \o @]
    /\ consumer' = [s \in Sessions |-> IF ServerOf[s] = v THEN "off" ELSE consumer[s]]
    /\ held' = [s \in Sessions |-> IF ServerOf[s] = v THEN NoCopy ELSE held[s]]
    /\ jobs' = jobs \ JobsAt(v)
    /\ outbox' = [s \in Sessions |-> IF ServerOf[s] = v THEN 0 ELSE outbox[s]]
    /\ writing' = [s \in Sessions |-> writing[s] /\ ServerOf[s] # v]
    /\ UNCHANGED <<route, given, lostAcks>>

\* Whatever ends the process apart from the panics below: from outside, or
\* from parts that are not in this module (log.Fatal of SetLease, panics of
\* failOnError and of readPump, the map race of HubSessions).
Crash(v) ==
    /\ up[v]
    /\ faults < MaxFaults
    /\ Dies(v)
    /\ faults' = faults + 1

\* A panic in a goroutine, which nobody recovers.
Panic(v) == Dies(v) /\ UNCHANGED faults

Restart(v) ==
    /\ ~up[v]
    /\ up' = [up EXCEPT ![v] = TRUE]
    /\ UNCHANGED <<sessionVars, sendVars, queue, recvVars, clientVars, histVars>>

-----------------------------------------------------------------------------
(* Sessions, as in HubSessions and RouteDirectory.                          *)

\* ServeWs starts the registrar, the writer and the consumer of a session, which
\* is here from the first change of its entry on.
Start(s) ==
    /\ up[ServerOf[s]]
    /\ life[s] = "new"
    /\ consumer' = [consumer EXCEPT ![s] = "wait"]
    /\ writing' = [writing EXCEPT ![s] = TRUE]
    /\ UNCHANGED <<up, route, sendVars, queue, held, jobs, outbox, given, histVars>>

SetEntry(s, value) == entry' = [entry EXCEPT ![ServerOf[s]][IdOf[s]] = value]

\* Hub.RegisterClient's insertion, over whatever entry is there: two logins
\* that met both get here.
Login(s) ==
    /\ Start(s)
    /\ life' = [life EXCEPT ![s] = "live"]
    /\ SetEntry(s, s)

\* A connection that ends at once: Hub.RemoveClient precedes the insertion.
LoginRemoved(s) ==
    /\ s \in Unsteady
    /\ Start(s)
    /\ life' = [life EXCEPT ![s] = "early"]
    /\ SetEntry(s, Nil)

InsertRemoved(s) ==
    /\ up[ServerOf[s]]
    /\ life[s] = "early"
    /\ life' = [life EXCEPT ![s] = "leaving"]
    /\ SetEntry(s, s)
    /\ UNCHANGED <<up, route, sendVars, queue, recvVars, clientVars, histVars>>

\* The first put of the route, and every renewal.
Publish(s) ==
    /\ up[ServerOf[s]]
    /\ life[s] \in {"live", "leaving"}
    /\ route' = [route EXCEPT ![IdOf[s]] = s]
    /\ UNCHANGED <<up, entry, life, sendVars, queue, recvVars, clientVars, histVars>>

\* Hub.RemoveClient sets the entry of the id to nil and does not delete it,
\* whichever session it names.
Logout(s) ==
    /\ s \in Unsteady
    /\ up[ServerOf[s]]
    /\ life[s] = "live"
    /\ life' = [life EXCEPT ![s] = "leaving"]
    /\ SetEntry(s, Nil)
    /\ UNCHANGED <<up, route, sendVars, queue, recvVars, clientVars, histVars>>

\* Nothing is sent on a closed channel; how the writer drains it and leaves is
\* in ClientPumps.
CloseChannels(s) ==
    /\ up[ServerOf[s]]
    /\ life[s] = "leaving"
    /\ life' = [life EXCEPT ![s] = "closed"]
    /\ outbox' = [outbox EXCEPT ![s] = 0]
    /\ writing' = [writing EXCEPT ![s] = FALSE]
    /\ UNCHANGED <<up, entry, route, sendVars, queue, recvVars, histVars>>

\* CancelLease, or the end of a lease nobody renews.  A key that a match
\* message has put hangs on no lease.
Unroute(i) ==
    /\ route[i] \in Sessions
    /\ route' = [route EXCEPT ![i] = Nil]
    /\ UNCHANGED <<up, entry, life, sendVars, queue, recvVars, clientVars, histVars>>

-----------------------------------------------------------------------------
(* Client.SendMessage and Hub.SendMessage.                                  *)

Submit(m) ==
    /\ up[Origin(m)]
    /\ life[SourceOf[m]] \notin {"new", "closed"}
    /\ stage[m] = "new"
    /\ stage' = [stage EXCEPT ![m] = "handler"]
    /\ UNCHANGED <<up, sessionVars, matching, channels, looked, group, queue,
                   recvVars, clientVars, histVars>>

\* main.SendHandler for a match message switches the engine over and puts
\* "test" under the SourceId in the message; nothing switches it back.
MatchPut(m) == \E i \in SourceIdsOf[m] : route' = [route EXCEPT ![i] = Nowhere]

RunSendHandlers(m) ==
    \E kind \in KindsOf[m] :
        LET v == Origin(m)
        IN  /\ stage[m] = "handler"
            /\ matching' = [matching EXCEPT ![v] = @ \/ kind = "match"]
            /\ IF kind = "match" THEN MatchPut(m) ELSE UNCHANGED route
            /\ stage' = [stage EXCEPT ![m] = IF matching'[v] THEN "dropped"
                                             ELSE IF TargetsOf[m] = <<>> THEN "sent"
                                             ELSE "lookup"]
            /\ UNCHANGED <<up, entry, life, channels, looked, group, queue,
                           recvVars, clientVars, histVars>>

Target(m) == TargetsOf[m][looked[m] + 1]

\* Get with a prefix finds the keys of longer ids too; the id's own is first.
Found(i) == IF route[i] # Nil THEN {route[i]}
            ELSE {route[j] : j \in LongerIds[i]} \ {Nil}
Address(r) == IF r = Nowhere THEN Nowhere ELSE ServerOf[r]

\* Mutant: the id of the key that was found replaces the target asked for.
LookupByKey(m) ==
    /\ stage[m] = "lookup"
    /\ \/ /\ Found(Target(m)) = {}
          /\ UNCHANGED group
       \/ \E r \in Found(Target(m)) \ {Nowhere} :
             group' = [group EXCEPT ![m][Address(r)] = Append(@, IdOf[r])]
    /\ looked' = [looked EXCEPT ![m] = IF @ + 1 < Len(TargetsOf[m]) THEN @ + 1 ELSE 0]
    /\ stage' = [stage EXCEPT ![m] = IF looked'[m] > 0 THEN "lookup"
                                     ELSE IF group'[m] = NoGroup THEN "sent"
                                     ELSE "publish"]
    /\ UNCHANGED <<up, sessionVars, matching, channels, queue, recvVars, clientVars, histVars>>

\* After the last target the messages are published, if there are any.
Lookup(m) ==
    /\ stage[m] = "lookup"
    /\ \/ /\ Found(Target(m)) = {}
          /\ UNCHANGED group
       \/ \E r \in Found(Target(m)) :
             group' = [group EXCEPT ![m][Address(r)] = Append(@, Target(m))]
    /\ looked' = [looked EXCEPT ![m] = IF @ + 1 < Len(TargetsOf[m]) THEN @ + 1 ELSE 0]
    /\ stage' = [stage EXCEPT ![m] = IF looked'[m] > 0 THEN "lookup"
                                     ELSE IF group'[m] = NoGroup THEN "sent"
                                     ELSE "publish"]
    /\ UNCHANGED <<up, sessionVars, matching, channels, queue, recvVars, clientVars, histVars>>

\* An error of etcd ends the sending for all targets.
LookupFails(m) ==
    /\ stage[m] = "lookup"
    /\ stage' = [stage EXCEPT ![m] = "dropped"]
    /\ looked' = [looked EXCEPT ![m] = 0]
    /\ group' = [group EXCEPT ![m] = NoGroup]
    /\ UNCHANGED <<up, sessionVars, matching, channels, queue, recvVars, clientVars, histVars>>

\* Mutant: the number of channels is not limited.
PublishUnlimited(m, v) ==
    /\ stage[m] = "publish"
    /\ group[m][v] # <<>>
    /\ channels' = [channels EXCEPT ![Origin(m)] = @ + 1]
    /\ queue' = [queue EXCEPT ![v] = Append(@, [msg |-> m, targets |-> group[m][v]])]
    /\ group' = [group EXCEPT ![m][v] = <<>>]
    /\ stage' = [stage EXCEPT ![m] = IF group'[m] = NoGroup THEN "sent" ELSE @]
    /\ UNCHANGED <<up, sessionVars, matching, looked, recvVars, clientVars, histVars>>

\* PublishWorking opens a channel on the hub's connection and leaves it open.
PublishWorking(m, v) ==
    /\ stage[m] = "publish"
    /\ group[m][v] # <<>>
    /\ channels[Origin(m)] < ChannelMax
    /\ channels' = [channels EXCEPT ![Origin(m)] = @ + 1]
    /\ queue' = [queue EXCEPT ![v] = Append(@, [msg |-> m, targets |-> group[m][v]])]
    /\ group' = [group EXCEPT ![m][v] = <<>>]
    /\ stage' = [stage EXCEPT ![m] = IF group'[m] = NoGroup THEN "sent" ELSE @]
    /\ UNCHANGED <<up, sessionVars, matching, looked, recvVars, clientVars, histVars>>

\* Without a channel QueueDeclare is called on nil.
PublishPanics(m) ==
    /\ stage[m] = "publish"
    /\ channels[Origin(m)] = ChannelMax
    /\ Panic(Origin(m))

-----------------------------------------------------------------------------
(* Client.ReceiveMessage: prefetch 1, so a consumer holds one copy.         *)

Deliver(s) ==
    LET v == ServerOf[s] IN
    /\ consumer[s] = "wait"
    /\ queue[v] # <<>>
    /\ held' = [held EXCEPT ![s] = Head(queue[v])]
    /\ queue' = [queue EXCEPT ![v] = Tail(@)]
    /\ consumer' = [consumer EXCEPT ![s] = "got"]
    /\ UNCHANGED <<up, sessionVars, sendVars, jobs, given, clientVars, histVars>>

Ack(s) ==
    /\ consumer[s] = "got"
    /\ consumer' = [consumer EXCEPT ![s] = "acked"]
    /\ UNCHANGED <<up, sessionVars, sendVars, queue, held, jobs, given, clientVars, histVars>>

\* The connection to RabbitMQ is gone: the broker takes the copy back, the
\* error of Ack is printed, and the copy is handed on all the same.
AckFails(s) ==
    /\ s \in Unsteady
    /\ consumer[s] = "got"
    /\ faults < MaxFaults
    /\ faults' = faults + 1
    /\ lostAcks' = [lostAcks EXCEPT ![held[s].msg] = @ + 1]
    /\ queue' = [queue EXCEPT ![ServerOf[s]] = <<held[s]>> \o @]
    /\ consumer' = [consumer EXCEPT ![s] = "lost"]
    /\ UNCHANGED <<up, sessionVars, sendVars, held, jobs, given, clientVars>>

\* c.Hub.ReadChannel <- message, and Hub.Run starts the goroutine.  A lost
\* connection ends the range over the deliveries; nobody dials again.
HandOver(s) ==
    /\ consumer[s] \in {"acked", "lost"}
    /\ jobs' = jobs \cup {[msg |-> held[s].msg, by |-> s,
                           left |-> held[s].targets, client |-> Nil]}
    /\ held' = [held EXCEPT ![s] = NoCopy]
    /\ consumer' = [consumer EXCEPT ![s] = IF @ = "lost" THEN "off" ELSE "wait"]
    /\ UNCHANGED <<up, sessionVars, sendVars, queue, given, clientVars, histVars>>

ConnectionLost(s) ==
    /\ s \in Unsteady
    /\ consumer[s] = "wait"
    /\ faults < MaxFaults
    /\ faults' = faults + 1
    /\ consumer' = [consumer EXCEPT ![s] = "off"]
    /\ UNCHANGED <<up, sessionVars, sendVars, queue, held, jobs, given, clientVars, lostAcks>>

-----------------------------------------------------------------------------
(* Hub.ReceiveMessage, one target after the other.                          *)

JobEntry(j) == entry[ServerOf[j.by]][Head(j.left)]
\* The goroutine ends with its last target.
Replace(j, k) == jobs' = (jobs \ {j}) \cup (IF k.left = <<>> THEN {} ELSE {k})

\* Mutant: the first target without a client ends the goroutine.
JobStop(j) ==
    /\ j.client = Nil
    /\ JobEntry(j) = Absent
    /\ jobs' = jobs \ {j}
    /\ UNCHANGED <<up, sessionVars, sendVars, queue, consumer, held, given, clientVars, histVars>>

JobSkip(j) ==
    /\ j.client = Nil
    /\ JobEntry(j) = Absent
    /\ Replace(j, [j EXCEPT !.left = Tail(@)])
    /\ UNCHANGED <<up, sessionVars, sendVars, queue, consumer, held, given, clientVars, histVars>>

\* An entry that is there but nil: client.WriteChannel of a nil *Client.
JobNilPanics(j) ==
    /\ j.client = Nil
    /\ JobEntry(j) = Nil
    /\ Panic(ServerOf[j.by])

JobFind(j) ==
    /\ j.client = Nil
    /\ JobEntry(j) \in Sessions
    /\ Replace(j, [j EXCEPT !.client = JobEntry(j)])
    /\ UNCHANGED <<up, sessionVars, sendVars, queue, consumer, held, given, clientVars, histVars>>

\* client.WriteChannel <- jsonMessage waits while the channel is full.
JobGive(j) ==
    /\ j.client # Nil
    /\ life[j.client] # "closed"
    /\ outbox[j.client] < BufSize
    /\ outbox' = [outbox EXCEPT ![j.client] = @ + 1]
    /\ given' = [given EXCEPT ![j.msg][Head(j.left)] = @ + 1]
    /\ Replace(j, [j EXCEPT !.left = Tail(@), !.client = Nil])
    /\ UNCHANGED <<up, sessionVars, sendVars, queue, consumer, held, writing, histVars>>

\* The client was closed after it was found, perhaps while the goroutine waited.
JobClosedPanics(j) ==
    /\ j.client # Nil
    /\ life[j.client] = "closed"
    /\ Panic(ServerOf[j.by])

-----------------------------------------------------------------------------
(* Client.writePump, as far as it empties the channel or ends.              *)

\* Mutant: the writer writes no batch of less than two messages.
WriterHesitates(s) ==
    /\ writing[s]
    /\ outbox[s] > 1
    /\ outbox' = [outbox EXCEPT ![s] = @ - 1]
    /\ UNCHANGED <<up, sessionVars, sendVars, queue, recvVars, writing, histVars>>

\* It writes everything that is there, a message at a time.
WriterTakes(s) ==
    /\ writing[s]
    /\ outbox[s] > 0
    /\ outbox' = [outbox EXCEPT ![s] = @ - 1]
    /\ UNCHANGED <<up, sessionVars, sendVars, queue, recvVars, writing, histVars>>

\* A write or a ping fails: the peer is gone, or took nothing for writeWait.
WriterFails(s) ==
    /\ s \in Unsteady
    /\ writing[s]
    /\ faults < MaxFaults
    /\ faults' = faults + 1
    /\ writing' = [writing EXCEPT ![s] = FALSE]
    /\ UNCHANGED <<up, sessionVars, sendVars, queue, recvVars, outbox, lostAcks>>

-----------------------------------------------------------------------------
SendStep(m) ==
    \/ RunSendHandlers(m) \/ Lookup(m) \/ LookupFails(m)
    \/ \E v \in Queues : PublishWorking(m, v)
    \/ PublishPanics(m)

ConsumerStep(s) == Deliver(s) \/ Ack(s) \/ AckFails(s) \/ HandOver(s)

JobStep(j) ==
    JobSkip(j) \/ JobNilPanics(j) \/ JobFind(j) \/ JobGive(j)
    \/ JobClosedPanics(j)

Next ==
    \/ \E v \in Servers : Crash(v) \/ Restart(v)
    \/ \E s \in Sessions : \/ Login(s) \/ LoginRemoved(s) \/ InsertRemoved(s)
                           \/ Publish(s) \/ Logout(s) \/ CloseChannels(s)
                           \/ ConsumerStep(s) \/ ConnectionLost(s)
                           \/ WriterTakes(s) \/ WriterFails(s)
    \/ \E i \in Ids : Unroute(i)
    \/ \E m \in Msgs : Submit(m) \/ SendStep(m)
    \/ \E j \in jobs : JobStep(j)

Spec == Init /\ [][Next]_vars

\* The receiving half: the broker, the consumers, the goroutines they start and
\* the writers, which write what is there or fail within writeWait.
Receiving ==
    \/ \E s \in Sessions : ConsumerStep(s) \/ WriterTakes(s) \/ WriterFails(s)
    \/ \E j \in jobs : JobStep(j)

\* It is not at rest while one of its goroutines can go on.  Senders, clients,
\* etcd and faults owe nothing.
Fairness == WF_vars(Receiving)

FairSpec == Spec /\ Fairness

-----------------------------------------------------------------------------
(* What sending a message promises (DeliveryContract).                      *)

Wanted(m, i) == Cardinality({k \in DOMAIN TargetsOf[m] : TargetsOf[m][k] = i})

Contract == INSTANCE DeliveryContract WITH
    copies <- [m \in Msgs |-> IF stage[m] = "new" THEN 0 ELSE 1 + lostAcks[m]],
    got <- given
ContractSpec == Contract!Spec

\* At server v a copy of m for target i is in the queue or not acknowledged yet.
HasTarget(copy, m, i) == copy.msg = m /\ \E k \in DOMAIN copy.targets : copy.targets[k] = i
Unacknowledged(m, i, v) ==
    \/ \E k \in DOMAIN queue[v] : HasTarget(queue[v][k], m, i)
    \/ \E s \in Unacked(v) : HasTarget(held[s], m, i)

\* The same, or it is on its way through the server.
Pending(m, i, v) ==
    \/ \E k \in DOMAIN queue[v] : HasTarget(queue[v][k], m, i)
    \/ \E s \in Sessions : ServerOf[s] = v /\ HasTarget(held[s], m, i)
    \/ \E j \in jobs : /\ j.msg = m /\ ServerOf[j.by] = v
                      /\ \E k \in DOMAIN j.left : j.left[k] = i

\* A message stays at a server, whatever becomes of acknowledgements, consumers
\* and its other targets, until a client of the target gets it or the server
\* has none. A server that ends loses only what it has acknowledged
\* (client.go:197 acknowledges before it hands on).
KeptUntilGiven ==
    [][\A m \in Msgs, i \in Ids, v \in Servers :
         Pending(m, i, v) /\ ~Pending(m, i, v)' =>
            \/ given'[m][i] > given[m][i]
            \/ entry[v][i] = Absent
            \/ ~up'[v] /\ ~Unacknowledged(m, i, v)]_vars

\* The server has a consumer whose connection to RabbitMQ stands.
Consuming(v) == \E s \in Sessions : ServerOf[s] = v /\ consumer[s] # "off"

\* A goroutine of m waits at v for room in a channel that nobody empties: its
\* client has no writer any more and is not closed yet (hub.go:127).
HeldUp(m, v) ==
    \E j \in jobs : /\ j.msg = m /\ ServerOf[j.by] = v
                   /\ j.client # Nil
                   /\ outbox[j.client] = BufSize
                   /\ ~writing[j.client]

\* Again and again no server with a consumer is in the middle of a message, but
\* for goroutines that a client without a writer keeps from the targets that
\* come later.  With KeptUntilGiven: every target with a client there gets it.
HandedOn ==
    []<>(\A m \in Msgs, v \in Servers :
            (\E i \in Ids : Pending(m, i, v)) => ~Consuming(v) \/ HeldUp(m, v))

\* hub.go:120-122: a message for a target without a client here passes by.
\* A server ends by itself only without a free channel, or when a client is
\* closed after a goroutine found it.
OfflineTargetHarmless ==
    [][\A v \in Servers :
         up[v] /\ ~up'[v] /\ faults' = faults
         => channels[v] = ChannelMax \/ \E j \in JobsAt(v) : j.client # Nil]_vars

=============================================================================
