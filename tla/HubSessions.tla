---------------------------- MODULE HubSessions ----------------------------
(***************************************************************************)
(* The life of websocket sessions: login (Hub.ServeWs), the Hub.Run loop,  *)
(* the registrar goroutine of a session (Hub.RegisterClient, which keeps   *)
(* the etcd route of the session's id), the reading goroutine              *)
(* (Client.readPump) and Client.Close, which both the reader of a broken   *)
(* connection and a second login with the same id run.                     *)
(*                                                                         *)
(* A session is one accepted connection with its Client object.  Its       *)
(* goroutines are the processes Serve(s) and Pump(s), whose control points *)
(* are in pc, and the registrar, whose control point is reg[s].            *)
(***************************************************************************)
EXTENDS Naturals

CONSTANTS Sessions,     \* the connections that are ever attempted
          Ids,          \* client ids
          Servers,      \* server processes, named by Host+WSPort
          IdOf,         \* the client id a session logs in with
          ServerOf,     \* the server a session connects to
          MaxGrants,    \* bound: leases granted for one session
          SourceIds,    \* the SourceIds that clients write into match messages
          Test,         \* the value "test" that a match message leaves in etcd
          Nil

ASSUME SessionsAssumption ==
    /\ IdOf \in [Sessions -> Ids]
    /\ ServerOf \in [Sessions -> Servers]
    /\ MaxGrants \in Nat \ {0}
    /\ SourceIds \subseteq Ids
    /\ Nil \notin Sessions
    /\ Nil \notin Sessions \X Nat
    /\ Nil \notin Sessions \X {"serve", "pump"}
    /\ Test \notin Sessions \cup {Nil}
    /\ Test \notin Sessions \X Nat

VARIABLES pc,       \* control point of each process
          victim,   \* the session a login is closing, Nil for a nil *Client
          conn,     \* the websocket connection; "closed": nothing is left to read
          clients,  \* Hub.Clients: an absent entry and a nil one are both Nil
          mutex,    \* holder of the package variable unOnlineMutex
          run,      \* the session Hub.Run is removing, Nil when it selects
          reg,      \* control point of the registrar
          granted,  \* leases granted so far to a session
          leaseId,  \* the registrar's variable leaseId, 0 before the first
          leases,   \* the leases that live in etcd, <<session, n>>
          route,    \* etcd: the lease the key of an id hangs on, Test, or Nil
          closes,   \* how often a session's two channels were closed
          up        \* the server process runs

hubVars   == <<clients, run>>
etcdVars  == <<granted, leaseId, leases, route>>
vars == <<pc, victim, conn, clients, mutex, run, reg, granted, leaseId,
          leases, route, closes, up>>

Serve(s) == <<s, "serve">>
Pump(s)  == <<s, "pump">>
Procs    == Sessions \X {"serve", "pump"}

Locked     == {"unregister", "offline", "channels", "unlock"}
ClosePCs   == {"lock", "conn"} \cup Locked
ServePCs   == {"idle", "lookup", "fetch", "register", "done", "panicked"} \cup ClosePCs
PumpPCs    == {"idle", "reading", "stuck", "done"} \cup ClosePCs
RegPCs     == {"none", "insert", "grant", "put", "select", "revoke",
               "done", "orphaned"}

Leases    == Sessions \X (1 .. MaxGrants)
Target(p) == IF p[2] = "pump" THEN p[1] ELSE victim[p[1]]
Host(p)   == ServerOf[p[1]]
Running(s) == up[ServerOf[s]]

TypeOK ==
    /\ pc \in [Procs -> ServePCs \cup PumpPCs]
    /\ victim \in [Sessions -> Sessions \cup {Nil}]
    /\ conn \in [Sessions -> {"none", "open", "closed"}]
    /\ clients \in [Servers -> [Ids -> Sessions \cup {Nil}]]
    /\ mutex \in [Servers -> Procs \cup {Nil}]
    /\ run \in [Servers -> Sessions \cup {Nil}]
    /\ reg \in [Sessions -> RegPCs]
    /\ granted \in [Sessions -> 0 .. MaxGrants]
    /\ leaseId \in [Sessions -> 0 .. MaxGrants]
    /\ leases \in SUBSET Leases
    /\ route \in [Ids -> Leases \cup {Nil, Test}]
    /\ closes \in [Sessions -> Nat]
    /\ up \in [Servers -> BOOLEAN]

Init ==
    /\ pc = [p \in Procs |-> "idle"]
    /\ victim = [s \in Sessions |-> Nil]
    /\ conn = [s \in Sessions |-> "none"]
    /\ clients = [v \in Servers |-> [i \in Ids |-> Nil]]
    /\ mutex = [v \in Servers |-> Nil]
    /\ run = [v \in Servers |-> Nil]
    /\ reg = [s \in Sessions |-> "none"]
    /\ granted = [s \in Sessions |-> 0]
    /\ leaseId = [s \in Sessions |-> 0]
    /\ leases = {}
    /\ route = [i \in Ids |-> Nil]
    /\ closes = [s \in Sessions |-> 0]
    /\ up = [v \in Servers |-> TRUE]

-----------------------------------------------------------------------------
(* Hub.ServeWs.  A refused token, a missing id or a failed upgrade leaves   *)
(* no state behind and is not a step.                                       *)

Goto(p, label) == pc' = [pc EXCEPT ![p] = label]

Upgrade(s) ==
    /\ Running(s)
    /\ pc[Serve(s)] = "idle"
    /\ Goto(Serve(s), "lookup")
    /\ conn' = [conn EXCEPT ![s] = "open"]
    /\ UNCHANGED <<victim, hubVars, mutex, reg, etcdVars, closes, up>>

Lookup(s) ==
    /\ Running(s)
    /\ pc[Serve(s)] = "lookup"
    /\ Goto(Serve(s), IF clients[ServerOf[s]][IdOf[s]] # Nil
                      THEN "fetch" ELSE "register")
    /\ UNCHANGED <<victim, conn, hubVars, mutex, reg, etcdVars, closes, up>>

\* Mutant: the earlier client is closed by a goroutine of its own.
FetchAsync(s) ==
    /\ Running(s)
    /\ pc[Serve(s)] = "fetch"
    /\ Goto(Serve(s), "register")
    /\ victim' = [victim EXCEPT ![s] = clients[ServerOf[s]][IdOf[s]]]
    /\ UNCHANGED <<conn, hubVars, mutex, reg, etcdVars, closes, up>>

\* The map is read a second time to call Close: it may hold nil by now.
Fetch(s) ==
    /\ Running(s)
    /\ pc[Serve(s)] = "fetch"
    /\ Goto(Serve(s), "lock")
    /\ victim' = [victim EXCEPT ![s] = clients[ServerOf[s]][IdOf[s]]]
    /\ UNCHANGED <<conn, hubVars, mutex, reg, etcdVars, closes, up>>

\* client.Hub.Register <- client meets Hub.Run, which starts the registrar;
\* the handler starts the session's pumps and returns.
Register(s) ==
    /\ Running(s)
    /\ pc[Serve(s)] = "register"
    /\ run[ServerOf[s]] = Nil
    /\ reg' = [reg EXCEPT ![s] = "insert"]
    /\ pc' = [pc EXCEPT ![Serve(s)] = "done", ![Pump(s)] = "reading"]
    /\ UNCHANGED <<victim, conn, hubVars, mutex, etcdVars, closes, up>>

-----------------------------------------------------------------------------
(* Client.Close of Target(p), run by the process p.                         *)

CloseLock(p) ==
    /\ up[Host(p)]
    /\ pc[p] = "lock"
    /\ mutex[Host(p)] = Nil
    /\ mutex' = [mutex EXCEPT ![Host(p)] = p]
    /\ Goto(p, "unregister")
    /\ UNCHANGED <<victim, conn, hubVars, reg, etcdVars, closes, up>>

\* c.Hub of a nil *Client: the handler panics, net/http recovers it, and
\* the mutex stays locked.
NilClose(p) ==
    /\ up[Host(p)]
    /\ pc[p] = "unregister"
    /\ Target(p) = Nil
    /\ Goto(p, "panicked")
    /\ UNCHANGED <<victim, conn, hubVars, mutex, reg, etcdVars, closes, up>>

CloseUnregister(p) ==
    /\ up[Host(p)]
    /\ pc[p] = "unregister"
    /\ Target(p) # Nil
    /\ run[Host(p)] = Nil
    /\ run' = [run EXCEPT ![Host(p)] = Target(p)]
    /\ Goto(p, "offline")
    /\ UNCHANGED <<victim, conn, clients, mutex, reg, etcdVars, closes, up>>

\* Mutant: the send on ToOffline does not wait for the registrar.
CloseOfflineNoWait(p) ==
    /\ up[Host(p)]
    /\ pc[p] = "offline"
    /\ reg' = [reg EXCEPT ![Target(p)] = IF @ = "select" THEN "revoke" ELSE @]
    /\ Goto(p, "channels")
    /\ UNCHANGED <<victim, conn, hubVars, mutex, etcdVars, closes, up>>

\* c.ToOffline <- true has no buffer: it waits for the registrar's select.
CloseOffline(p) ==
    /\ up[Host(p)]
    /\ pc[p] = "offline"
    /\ reg[Target(p)] = "select"
    /\ reg' = [reg EXCEPT ![Target(p)] = "revoke"]
    /\ Goto(p, "channels")
    /\ UNCHANGED <<victim, conn, hubVars, mutex, etcdVars, closes, up>>

CloseChannels(p) ==
    /\ up[Host(p)]
    /\ pc[p] = "channels"
    /\ closes' = [closes EXCEPT ![Target(p)] = @ + 1]
    /\ Goto(p, "unlock")
    /\ UNCHANGED <<victim, conn, hubVars, mutex, reg, etcdVars, up>>

\* Mutant: the unlock is forgotten.
CloseNoUnlock(p) ==
    /\ up[Host(p)]
    /\ pc[p] = "unlock"
    /\ Goto(p, "conn")
    /\ UNCHANGED <<victim, conn, hubVars, mutex, reg, etcdVars, closes, up>>

CloseUnlock(p) ==
    /\ up[Host(p)]
    /\ pc[p] = "unlock"
    /\ mutex' = [mutex EXCEPT ![Host(p)] = Nil]
    /\ Goto(p, "conn")
    /\ UNCHANGED <<victim, conn, hubVars, reg, etcdVars, closes, up>>

\* After Close the reader returns and the login goes on to register.
CloseConn(p) ==
    /\ up[Host(p)]
    /\ pc[p] = "conn"
    /\ conn' = [conn EXCEPT ![Target(p)] = "closed"]
    /\ Goto(p, IF p[2] = "pump" THEN "done" ELSE "register")
    /\ UNCHANGED <<victim, hubVars, mutex, reg, etcdVars, closes, up>>

Close(p) ==
    \/ CloseLock(p) \/ NilClose(p) \/ CloseUnregister(p) \/ CloseOffline(p)
    \/ CloseChannels(p) \/ CloseUnlock(p) \/ CloseConn(p)

-----------------------------------------------------------------------------
(* Client.readPump and Client.writePump, as far as they end a session.      *)

\* ReadMessage fails on a connection that is not open any more.
PumpError(s) ==
    /\ Running(s)
    /\ pc[Pump(s)] = "reading"
    /\ conn[s] = "closed"
    /\ Goto(Pump(s), "lock")
    /\ UNCHANGED <<victim, conn, hubVars, mutex, reg, etcdVars, closes, up>>

\* After a frame that does not parse nobody empties ReadChannel (run
\* pumps_zombie of ClientPumps): once it is full the reader, with a frame in
\* hand, blocks in its send and reads no more.
PumpStuck(s) ==
    /\ Running(s)
    /\ pc[Pump(s)] = "reading"
    /\ conn[s] = "open"
    /\ closes[s] = 0
    /\ Goto(Pump(s), "stuck")
    /\ UNCHANGED <<victim, conn, hubVars, mutex, reg, etcdVars, closes, up>>

\* A login closes the channel that the reader blocks in: the send panics.
StuckPanics(s) ==
    /\ Running(s)
    /\ pc[Pump(s)] = "stuck"
    /\ closes[s] > 0
    /\ up' = [up EXCEPT ![ServerOf[s]] = FALSE]
    /\ UNCHANGED <<pc, victim, conn, hubVars, mutex, reg, etcdVars, closes>>

\* A message read while another process has closed ReadChannel: the send
\* panics in a goroutine nobody recovers, and the process ends.
PumpPanic(s) ==
    /\ Running(s)
    /\ pc[Pump(s)] = "reading"
    /\ conn[s] = "open"
    /\ closes[s] > 0
    /\ up' = [up EXCEPT ![ServerOf[s]] = FALSE]
    /\ UNCHANGED <<pc, victim, conn, hubVars, mutex, reg, etcdVars, closes>>

\* writePump finds WriteChannel closed, or cannot write, and closes the
\* connection; the peer or the network ends it.
WritePumpExit(s) ==
    /\ Running(s)
    /\ pc[Pump(s)] # "idle"
    /\ closes[s] > 0
    /\ conn' = [conn EXCEPT ![s] = "closed"]
    /\ UNCHANGED <<pc, victim, hubVars, mutex, reg, etcdVars, closes, up>>

PeerGone(s) ==
    /\ conn[s] = "open"
    /\ conn' = [conn EXCEPT ![s] = "closed"]
    /\ UNCHANGED <<pc, victim, hubVars, mutex, reg, etcdVars, closes, up>>

-----------------------------------------------------------------------------
(* Hub.Run's Unregister case and Hub.RemoveClient: the entry of the id is   *)
(* set to nil, whichever session it names.                                  *)

\* Mutant: the whole map is dropped.
RunRemoveAll(v) ==
    /\ up[v]
    /\ run[v] # Nil
    /\ clients' = [clients EXCEPT ![v] = Nil]
    /\ run' = [run EXCEPT ![v] = Nil]
    /\ UNCHANGED <<pc, victim, conn, mutex, reg, etcdVars, closes, up>>

RunRemove(v) ==
    /\ up[v]
    /\ run[v] # Nil
    /\ clients' = [clients EXCEPT ![v][IdOf[run[v]]] = Nil]
    /\ run' = [run EXCEPT ![v] = Nil]
    /\ UNCHANGED <<pc, victim, conn, mutex, reg, etcdVars, closes, up>>

\* Two goroutines at the unsynchronised Clients map, one of them writing:
\* the Go runtime may stop the process ("concurrent map writes").
Writing(v) == {c \in Sessions : ServerOf[c] = v /\ reg[c] = "insert"}
Reading(v) == {s \in Sessions : ServerOf[s] = v /\ pc[Serve(s)] \in {"lookup", "fetch"}}

MapRace(v) ==
    /\ up[v]
    /\ \/ run[v] # Nil /\ Writing(v) \cup Reading(v) # {}
       \/ \E c \in Writing(v) : Reading(v) \cup (Writing(v) \ {c}) # {}
    /\ up' = [up EXCEPT ![v] = FALSE]
    /\ UNCHANGED <<pc, victim, conn, hubVars, mutex, reg, etcdVars, closes>>

-----------------------------------------------------------------------------
(* Hub.RegisterClient with etcdService.SetLease (grant, then put) and       *)
(* etcdService.CancelLease.                                                 *)

RegInsert(c) ==
    /\ Running(c)
    /\ reg[c] = "insert"
    /\ clients' = [clients EXCEPT ![ServerOf[c]][IdOf[c]] = c]
    /\ reg' = [reg EXCEPT ![c] = "grant"]
    /\ UNCHANGED <<pc, victim, conn, mutex, run, etcdVars, closes, up>>

RegGrant(c) ==
    /\ Running(c)
    /\ reg[c] = "grant"
    /\ granted' = [granted EXCEPT ![c] = @ + 1]
    /\ leases' = leases \cup {<<c, granted[c] + 1>>}
    /\ reg' = [reg EXCEPT ![c] = "put"]
    /\ UNCHANGED <<pc, victim, conn, hubVars, mutex, leaseId, route, closes, up>>

\* Mutant: the registrar keeps the id of its first lease.
RegPutStaleId(c) ==
    /\ Running(c)
    /\ reg[c] = "put"
    /\ <<c, granted[c]>> \in leases
    /\ route' = [route EXCEPT ![IdOf[c]] = <<c, granted[c]>>]
    /\ leaseId' = [leaseId EXCEPT ![c] = IF @ = 0 THEN granted[c] ELSE @]
    /\ reg' = [reg EXCEPT ![c] = "select"]
    /\ UNCHANGED <<pc, victim, conn, hubVars, mutex, granted, leases, closes, up>>

\* Mutant: a renewal grants a lease and does not put the key again.
RegPutOnce(c) ==
    /\ Running(c)
    /\ reg[c] = "put"
    /\ route' = IF leaseId[c] > 0 THEN route
                ELSE [route EXCEPT ![IdOf[c]] = <<c, granted[c]>>]
    /\ leaseId' = [leaseId EXCEPT ![c] = granted[c]]
    /\ reg' = [reg EXCEPT ![c] = "select"]
    /\ UNCHANGED <<pc, victim, conn, hubVars, mutex, granted, leases, closes, up>>

\* Mutant: the key is put without the lease, which may be gone by then.
RegPutUnleased(c) ==
    /\ Running(c)
    /\ reg[c] = "put"
    /\ route' = [route EXCEPT ![IdOf[c]] = <<c, granted[c]>>]
    /\ leaseId' = [leaseId EXCEPT ![c] = granted[c]]
    /\ reg' = [reg EXCEPT ![c] = "select"]
    /\ UNCHANGED <<pc, victim, conn, hubVars, mutex, granted, leases, closes, up>>

\* Put with the new lease: the key leaves the lease it hung on before.
RegPut(c) ==
    /\ Running(c)
    /\ reg[c] = "put"
    /\ <<c, granted[c]>> \in leases
    /\ route' = [route EXCEPT ![IdOf[c]] = <<c, granted[c]>>]
    /\ leaseId' = [leaseId EXCEPT ![c] = granted[c]]
    /\ reg' = [reg EXCEPT ![c] = "select"]
    /\ UNCHANGED <<pc, victim, conn, hubVars, mutex, granted, leases, closes, up>>

\* An error of etcd, such as a lease that lapsed before the put: log.Fatal.
SetLeaseFails(c) ==
    /\ Running(c)
    /\ reg[c] \in {"grant", "put"}
    /\ up' = [up EXCEPT ![ServerOf[c]] = FALSE]
    /\ UNCHANGED <<pc, victim, conn, hubVars, mutex, reg, etcdVars, closes>>

RegTick(c) ==
    /\ Running(c)
    /\ reg[c] = "select"
    /\ granted[c] < MaxGrants
    /\ reg' = [reg EXCEPT ![c] = "grant"]
    /\ UNCHANGED <<pc, victim, conn, hubVars, mutex, etcdVars, closes, up>>

Drop(gone) == [i \in Ids |-> IF route[i] \in gone THEN Nil ELSE route[i]]

\* Mutant: going offline deletes the key instead of revoking the lease.
RegDelete(c) ==
    /\ Running(c)
    /\ reg[c] = "revoke"
    /\ route' = [route EXCEPT ![IdOf[c]] = Nil]
    /\ reg' = [reg EXCEPT ![c] = "done"]
    /\ UNCHANGED <<pc, victim, conn, hubVars, mutex, granted, leaseId, leases, closes, up>>

RegRevoke(c) ==
    /\ Running(c)
    /\ reg[c] = "revoke"
    /\ leases' = leases \ {<<c, leaseId[c]>>}
    /\ route' = Drop({<<c, leaseId[c]>>})
    /\ reg' = [reg EXCEPT ![c] = "done"]
    /\ UNCHANGED <<pc, victim, conn, hubVars, mutex, granted, leaseId, closes, up>>

\* An error of Revoke is only printed.
RevokeFails(c) ==
    /\ Running(c)
    /\ reg[c] = "revoke"
    /\ reg' = [reg EXCEPT ![c] = "orphaned"]
    /\ UNCHANGED <<pc, victim, conn, hubVars, mutex, etcdVars, closes, up>>

\* etcd: no lease is ever kept alive (SetKeepLiveLease has no caller), so
\* each one lapses, with the key that hangs on it.
LeaseExpire(l) ==
    /\ l \in leases
    /\ leases' = leases \ {l}
    /\ route' = Drop({l})
    /\ UNCHANGED <<pc, victim, conn, hubVars, mutex, reg, granted, leaseId, closes, up>>

\* The goroutine of a match message (Hub.SendMessage, SendHandler), which may
\* outlive the session the message came from: it puts "test" under the
\* SourceId the client wrote into the message, whosever id that is, without a
\* lease.
MatchPut(s, i) ==
    /\ Running(s)
    /\ pc[Pump(s)] # "idle"
    /\ route' = [route EXCEPT ![i] = Test]
    /\ UNCHANGED <<pc, victim, conn, hubVars, mutex, reg, granted, leaseId, leases,
                   closes, up>>

-----------------------------------------------------------------------------
ServeStep(s)    == Lookup(s) \/ Fetch(s) \/ Register(s) \/ Close(Serve(s))
PumpStep(s)     == PumpError(s) \/ StuckPanics(s) \/ Close(Pump(s))
RegistrarStep(c) == RegInsert(c) \/ RegGrant(c) \/ RegPut(c) \/ RegRevoke(c)

Next ==
    \/ \E s \in Sessions :
          \/ Upgrade(s) \/ PeerGone(s) \/ WritePumpExit(s) \/ PumpPanic(s)
          \/ PumpStuck(s) \/ \E i \in SourceIds : MatchPut(s, i)
          \/ ServeStep(s) \/ PumpStep(s)
          \/ RegistrarStep(s) \/ RegTick(s)
          \/ SetLeaseFails(s) \/ RevokeFails(s)
    \/ \E v \in Servers : RunRemove(v) \/ MapRace(v)
    \/ \E l \in leases : LeaseExpire(l)

Spec == Init /\ [][Next]_vars

\* The Go scheduler runs every goroutine that can step, sync.Mutex does not
\* starve a waiter, and etcd expires the leases.  A reader that is not stuck
\* notices a connection with nothing left to read.  Logins, ticks, failures,
\* match messages and the peer owe nothing.
Fairness ==
    /\ \A s \in Sessions : /\ WF_vars(ServeStep(s))
                           /\ WF_vars(PumpStep(s))
                           /\ WF_vars(RegistrarStep(s) \/ SetLeaseFails(s)
                                        \/ RevokeFails(s))
    /\ \A v \in Servers : WF_vars(RunRemove(v))
    /\ \A l \in Leases : WF_vars(LeaseExpire(l))

FairSpec == Spec /\ Fairness

-----------------------------------------------------------------------------
(* Safety.                                                                  *)

\* Client.Close closes each of a session's channels at most once, although
\* the reader and any number of logins may call it: a second close panics.
ChannelsClosedOnce == \A c \in Sessions : closes[c] <= 1

\* Messages for the id i go to the server of the session c.
LeadsTo(i, c) == route[i] \in Leases /\ route[i][1] = c

\* Once CancelLease has succeeded no route leads to the session any more:
\* the lease it revokes is the one the key hangs on, not an older one.
RetiredUnrouted ==
    \A c \in Sessions : reg[c] = "done" => \A i \in Ids : ~LeadsTo(i, c)

\* A login that found an earlier session registers itself only after the
\* earlier session has been taken offline.
TakeoverOrder ==
    \A s \in Sessions :
        /\ pc[Serve(s)] \in {"register", "done"}
        /\ victim[s] # Nil
        => /\ reg[victim[s]] \in {"revoke", "done", "orphaned"}
           /\ closes[victim[s]] > 0

\* No other session logs in with the id of c.
Alone(c) == \A d \in Sessions : IdOf[d] = IdOf[c] => d = c

\* What etcd may hold for the id of a session whose registrar waits and that
\* shares its id with nobody: the key hangs on the lease granted last; or that
\* lease ran out before the renewal and the session is not found until then; or
\* a match message that names the id left "test" there.  Never an older lease,
\* whose end would take the key away from under a newer one, and never nothing
\* while the lease lives.
OnlineRoute ==
    \A c \in Sessions : Alone(c) /\ reg[c] = "select" =>
        \/ route[IdOf[c]] = <<c, leaseId[c]>>
        \/ route[IdOf[c]] = Nil /\ <<c, leaseId[c]>> \notin leases
        \/ route[IdOf[c]] = Test /\ IdOf[c] \in SourceIds

\* hub.go:22 calls Clients the registered clients: the id of a registered
\* session that nobody is closing is in the map.
RegisteredIsInHub ==
    \A c \in Sessions :
        /\ Running(c)
        /\ reg[c] = "select"
        /\ conn[c] = "open"
        /\ pc[Pump(c)] = "reading"
        /\ \A s \in Sessions : victim[s] # c
        => clients[ServerOf[c]][IdOf[c]] # Nil

-----------------------------------------------------------------------------
(* Liveness.                                                                *)

\* client.go:89-95: when a connection ends, the session's registrar is told
\* to go offline (unless the server process ends first).  A reader that blocks
\* in a full ReadChannel never learns that its connection ended: that case is
\* the one run pumps_zombie shows, and is left to it.  (Disconnected once, a
\* session stays so, and offline as well: this is a leads-to.)
DisconnectedGoesOffline ==
    \A s \in Sessions :
        []<>(pc[Pump(s)] \notin {"idle", "stuck"} /\ conn[s] = "closed"
                => reg[s] \in {"done", "orphaned"} \/ ~Running(s))

\* hub.go:62 (the lease time is only the guarantee): after a failed revoke
\* and after the end of a server process, the routes to its sessions
\* disappear all the same.  (What a match message put stays.)
UnservedRouteLapses ==
    \A s \in Sessions :
        []<>(reg[s] \in {"done", "orphaned"} \/ ~Running(s)
                => \A i \in Ids : ~LeadsTo(i, s))

-----------------------------------------------------------------------------
(* What the sessions promise to the rest of the system: a directory of      *)
(* routes (RouteDirectory).                                                 *)

Phase == [c \in Sessions |->
            IF reg[c] \in {"done", "orphaned"} THEN "retired"
            ELSE IF leaseId[c] > 0 THEN "serving" ELSE "new"]
Entry == [i \in Ids |-> IF route[i] \in Leases THEN route[i][1] ELSE route[i]]

Directory == INSTANCE RouteDirectory WITH phase <- Phase, entry <- Entry
DirectorySpec == Directory!Spec
=============================================================================
