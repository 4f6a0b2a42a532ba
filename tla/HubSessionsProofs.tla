------------------------- MODULE HubSessionsProofs -------------------------
(* Theorems about HubSessions, for every set of sessions, ids and servers. *)
EXTENDS HubSessions, TLAPS

(***************************************************************************)
(* The inductive invariant, part by part.                                  *)
(***************************************************************************)

\* A registrar that is about to ask for a lease may still have one.
GrantInv ==
    \A c \in Sessions :
        /\ reg[c] \in {"none", "insert"} => granted[c] = 0
        /\ reg[c] = "grant" => granted[c] < MaxGrants

\* Until its login has registered it, a session has no reader and no registrar.
StartInv ==
    \A s \in Sessions :
        /\ pc[Serve(s)] # "done" => pc[Pump(s)] = "idle" /\ reg[s] = "none"
        /\ pc[Serve(s)] \in {"idle", "lookup", "fetch"} => victim[s] = Nil

\* A process closes only sessions of its own server.
HomeInv ==
    /\ \A v \in Servers, i \in Ids :
          clients[v][i] # Nil => ServerOf[clients[v][i]] = v
    /\ \A s \in Sessions : victim[s] # Nil => ServerOf[victim[s]] = ServerOf[s]
    /\ \A p \in Procs : pc[p] \in {"offline", "channels", "unlock", "conn"}
                          => Target(p) # Nil

\* Inside the critical section of Close a process holds the server's mutex.
MutexInv == \A p \in Procs : pc[p] \in Locked => mutex[Host(p)] = p

\* Past the handshake with the registrar of its target a Close knows that
\* the registrar is leaving; before it nobody has closed the channels.
Leaving(c) == reg[c] \in {"revoke", "done", "orphaned"}
CloseInv ==
    /\ \A c \in Sessions : closes[c] <= 1 /\ (~Leaving(c) => closes[c] = 0)
    /\ \A p \in Procs :
          /\ pc[p] \in {"channels", "unlock", "conn"} => Leaving(Target(p))
          /\ pc[p] = "channels" => closes[Target(p)] = 0
          /\ pc[p] \in {"unlock", "conn"} => closes[Target(p)] > 0
    /\ TakeoverOrder

\* A key with a lease hangs on the one its session's registrar knows, and on a
\* live one.
RouteInv ==
    /\ \A i \in Ids : route[i] \in Leases =>
          /\ route[i] \in leases
          /\ IdOf[route[i][1]] = i
          /\ leaseId[route[i][1]] = route[i][2]
          /\ reg[route[i][1]] # "done"
    /\ \A c \in Sessions : reg[c] \in {"select", "revoke"} => leaseId[c] > 0
    /\ \A c \in Sessions : reg[c] \in {"done", "orphaned"} => leaseId[c] > 0

IInv == /\ TypeOK /\ GrantInv /\ StartInv /\ HomeInv
        /\ MutexInv /\ CloseInv /\ RouteInv

-----------------------------------------------------------------------------
(* The names of the processes. *)

\* Serve and Pump name every process once, and Nil names none.
LEMMA ProcNames ==
    /\ \A s \in Sessions : /\ Serve(s) \in Procs /\ Serve(s)[1] = s /\ Serve(s)[2] = "serve"
                           /\ Pump(s) \in Procs /\ Pump(s)[1] = s /\ Pump(s)[2] = "pump"
    /\ \A s, t \in Sessions : /\ Serve(s) # Pump(t)
                              /\ Serve(s) = Serve(t) => s = t
                              /\ Pump(s) = Pump(t) => s = t
    /\ \A p \in Procs : /\ p[1] \in Sessions
                        /\ p[2] = "serve" => p = Serve(p[1])
                        /\ p[2] = "pump" => p = Pump(p[1])
                        /\ p[2] \in {"serve", "pump"}
    /\ Nil \notin Procs
BY SessionsAssumption DEF Serve, Pump, Procs

\* A lease is a pair of its session and a number, and is neither Nil nor Test.
LEMMA LeasePairs ==
  /\ Nil \notin Leases /\ Test \notin Leases /\ Test # Nil
  /\ Nil \notin Sessions /\ Test \notin Sessions
  /\ \A c \in Sessions, n \in 0 .. MaxGrants : <<c, n>> # Nil /\ <<c, n>> # Test
  /\ \A l \in Leases : /\ l[1] \in Sessions /\ l[1] # Nil
                       /\ l[2] \in 1 .. MaxGrants /\ l = <<l[1], l[2]>>
<1>1. 0 .. MaxGrants \subseteq Nat /\ 1 .. MaxGrants \subseteq Nat
  BY SessionsAssumption
<1>2. Leases \subseteq Sessions \X Nat
  BY <1>1 DEF Leases
<1>. QED
  BY <1>1, <1>2, SessionsAssumption DEF Leases

-----------------------------------------------------------------------------
(* Every step is one of the actions. *)

\* The invariant holds before anybody has logged in.
LEMMA InitIInv == Init => IInv
<1>. SUFFICES ASSUME Init PROVE IInv
  OBVIOUS
<1>. USE SessionsAssumption, ProcNames DEF Init
<1>1. TypeOK
  BY DEF TypeOK, ServePCs, PumpPCs, ClosePCs, Locked, RegPCs
<1>2. GrantInv /\ StartInv
  BY DEF GrantInv, StartInv, ServePCs, PumpPCs
<1>3. HomeInv /\ MutexInv
  BY DEF HomeInv, MutexInv, Locked
<1>4. CloseInv
  BY DEF CloseInv, Leaving, TakeoverOrder
<1>5. RouteInv
  BY LeasePairs DEF RouteInv
<1>. QED
  BY <1>1, <1>2, <1>3, <1>4, <1>5 DEF IInv

\* Every step keeps the types; a lease is granted only below the bound.
LEMMA TypeStep == TypeOK /\ GrantInv /\ HomeInv /\ [Next]_vars => TypeOK'
<1>. SUFFICES ASSUME TypeOK, GrantInv, HomeInv, [Next]_vars PROVE TypeOK'
  OBVIOUS
<1>. USE SessionsAssumption, ProcNames DEF TypeOK, hubVars, etcdVars, Goto
<1>1. ASSUME NEW s \in Sessions, Upgrade(s) PROVE TypeOK'
  BY <1>1 DEF Upgrade, ServePCs, PumpPCs
<1>2. ASSUME NEW s \in Sessions, Lookup(s) PROVE TypeOK'
  BY <1>2 DEF Lookup, ServePCs, PumpPCs
<1>3. ASSUME NEW s \in Sessions, Fetch(s) PROVE TypeOK'
  BY <1>3 DEF Fetch, ServePCs, PumpPCs, ClosePCs
<1>4. ASSUME NEW s \in Sessions, Register(s) PROVE TypeOK'
  BY <1>4 DEF Register, ServePCs, PumpPCs, RegPCs
<1>5. ASSUME NEW p \in Procs, CloseLock(p) PROVE TypeOK'
  BY <1>5 DEF CloseLock, ServePCs, ClosePCs, Locked
<1>6. ASSUME NEW p \in Procs, NilClose(p) PROVE TypeOK'
  BY <1>6 DEF NilClose, ServePCs
<1>7. ASSUME NEW p \in Procs, CloseUnregister(p) PROVE TypeOK'
  <2>1. Target(p) \in Sessions
    BY <1>7 DEF CloseUnregister, Target
  <2>. QED
    BY <1>7, <2>1 DEF CloseUnregister, ServePCs, ClosePCs, Locked
<1>8. ASSUME NEW p \in Procs, CloseOffline(p) PROVE TypeOK'
  BY <1>8 DEF CloseOffline, ServePCs, ClosePCs, Locked, RegPCs
<1>9. ASSUME NEW p \in Procs, CloseChannels(p) PROVE TypeOK'
  <2>1. closes' \in [Sessions -> Nat]
    <3>1. Target(p) \in Sessions
      BY <1>9 DEF CloseChannels, Target, HomeInv
    <3>. QED
      BY <1>9, <3>1 DEF CloseChannels
  <2>2. /\ pc' = [pc EXCEPT ![p] = "unlock"]
        /\ UNCHANGED <<victim, conn, hubVars, mutex, reg, etcdVars, up>>
    BY <1>9 DEF CloseChannels
  <2>. QED
    BY <2>1, <2>2 DEF ServePCs, ClosePCs, Locked
<1>10. ASSUME NEW p \in Procs, CloseUnlock(p) PROVE TypeOK'
  BY <1>10 DEF CloseUnlock, ServePCs, ClosePCs
<1>11. ASSUME NEW p \in Procs, CloseConn(p) PROVE TypeOK'
  BY <1>11 DEF CloseConn, ServePCs, PumpPCs
<1>12. ASSUME NEW s \in Sessions, PumpError(s) \/ PumpStuck(s) \/ StuckPanics(s)
       PROVE  TypeOK'
  <2>1. CASE PumpError(s)
    BY <2>1 DEF PumpError, PumpPCs, ClosePCs
  <2>2. CASE PumpStuck(s)
    BY <2>2 DEF PumpStuck, PumpPCs
  <2>3. CASE StuckPanics(s)
    BY <2>3 DEF StuckPanics
  <2>. QED
    BY <1>12, <2>1, <2>2, <2>3
<1>13. ASSUME NEW s \in Sessions, PumpPanic(s) PROVE TypeOK'
  BY <1>13 DEF PumpPanic
<1>14. ASSUME NEW s \in Sessions, WritePumpExit(s) PROVE TypeOK'
  BY <1>14 DEF WritePumpExit
<1>15. ASSUME NEW s \in Sessions, PeerGone(s) PROVE TypeOK'
  BY <1>15 DEF PeerGone
<1>16. ASSUME NEW v \in Servers, RunRemove(v) PROVE TypeOK'
  BY <1>16 DEF RunRemove
<1>17. ASSUME NEW v \in Servers, MapRace(v) PROVE TypeOK'
  BY <1>17 DEF MapRace
<1>18. ASSUME NEW c \in Sessions, RegInsert(c) PROVE TypeOK'
  BY <1>18 DEF RegInsert, RegPCs
<1>19. ASSUME NEW c \in Sessions, RegGrant(c) PROVE TypeOK'
  <2>1. granted[c] + 1 \in 1 .. MaxGrants
    BY <1>19 DEF RegGrant, GrantInv
  <2>2. <<c, granted[c] + 1>> \in Leases
    BY <2>1 DEF Leases
  <2>3. leases' \in SUBSET Leases
    BY <1>19, <2>2 DEF RegGrant
  <2>4. granted' \in [Sessions -> 0 .. MaxGrants]
    BY <1>19, <2>1 DEF RegGrant
  <2>5. /\ reg' = [reg EXCEPT ![c] = "put"]
        /\ UNCHANGED <<pc, victim, conn, hubVars, mutex, leaseId, route, closes, up>>
    BY <1>19 DEF RegGrant
  <2>. QED
    BY <2>3, <2>5, <2>4 DEF RegPCs
<1>20. ASSUME NEW c \in Sessions, RegPut(c) PROVE TypeOK'
  BY <1>20 DEF RegPut, RegPCs
<1>21. ASSUME NEW c \in Sessions, SetLeaseFails(c) PROVE TypeOK'
  BY <1>21 DEF SetLeaseFails
<1>22. ASSUME NEW c \in Sessions, RegTick(c) PROVE TypeOK'
  BY <1>22 DEF RegTick, RegPCs
<1>23. ASSUME NEW c \in Sessions, RegRevoke(c) PROVE TypeOK'
  BY <1>23 DEF RegRevoke, RegPCs, Drop
<1>24. ASSUME NEW c \in Sessions, RevokeFails(c) PROVE TypeOK'
  BY <1>24 DEF RevokeFails, RegPCs
<1>25. ASSUME NEW l \in leases, LeaseExpire(l) PROVE TypeOK'
  BY <1>25 DEF LeaseExpire, Drop
<1>26. ASSUME NEW s \in Sessions, NEW i \in SourceIds, MatchPut(s, i) PROVE TypeOK'
  BY <1>26 DEF MatchPut
<1>27. CASE UNCHANGED vars
  BY <1>27 DEF vars
<1>. QED
  BY <1>1, <1>2, <1>3, <1>4, <1>5, <1>6, <1>7, <1>8, <1>9, <1>10, <1>11,
     <1>12, <1>13, <1>14, <1>15, <1>16, <1>17, <1>18, <1>19, <1>20, <1>21,
     <1>22, <1>23, <1>24, <1>25, <1>26, <1>27
     DEF Next, ServeStep, PumpStep, RegistrarStep, Close

-----------------------------------------------------------------------------
(* GrantInv and StartInv. *)

\* Only a grant counts, and the next one waits until there is room for it.
LEMMA GrantStep == TypeOK /\ StartInv /\ GrantInv /\ [Next]_vars => GrantInv'
<1>. SUFFICES ASSUME TypeOK, StartInv, GrantInv, [Next]_vars PROVE GrantInv'
  OBVIOUS
<1>. USE SessionsAssumption, ProcNames DEF TypeOK, hubVars, etcdVars, Goto, GrantInv
<1>1. \/ UNCHANGED <<reg, granted>>
      \/ \E s \in Sessions : Register(s)
      \/ \E p \in Procs : CloseOffline(p)
      \/ \E c \in Sessions : \/ RegistrarStep(c) \/ RegTick(c) \/ RevokeFails(c)
  BY DEF Next, vars, ServeStep, PumpStep, Close, Upgrade, Lookup, Fetch, CloseLock,
         NilClose, CloseUnregister, CloseChannels, CloseUnlock, CloseConn,
         PumpError, PumpStuck, StuckPanics, PumpPanic, MatchPut, WritePumpExit, PeerGone,
         RunRemove, MapRace,
         SetLeaseFails, LeaseExpire
<1>2. CASE UNCHANGED <<reg, granted>>
  BY <1>2
<1>3. ASSUME NEW s \in Sessions, Register(s) PROVE GrantInv'
  BY <1>3 DEF Register, StartInv
<1>4. ASSUME NEW p \in Procs, CloseOffline(p) PROVE GrantInv'
  BY <1>4 DEF CloseOffline
<1>5. ASSUME NEW c \in Sessions, RegInsert(c) PROVE GrantInv'
  BY <1>5 DEF RegInsert
<1>6. ASSUME NEW c \in Sessions, RegGrant(c) PROVE GrantInv'
  BY <1>6 DEF RegGrant
<1>7. ASSUME NEW c \in Sessions, RegPut(c) PROVE GrantInv'
  BY <1>7 DEF RegPut
<1>8. ASSUME NEW c \in Sessions, RegRevoke(c) PROVE GrantInv'
  BY <1>8 DEF RegRevoke
<1>9. ASSUME NEW c \in Sessions, RegTick(c) PROVE GrantInv'
  BY <1>9 DEF RegTick
<1>10. ASSUME NEW c \in Sessions, RevokeFails(c) PROVE GrantInv'
  BY <1>10 DEF RevokeFails
<1>. QED
  BY <1>1, <1>2, <1>3, <1>4, <1>5, <1>6, <1>7, <1>8, <1>9, <1>10 DEF RegistrarStep

\* A login starts the reader and the registrar of its session, once.
LEMMA StartStep == TypeOK /\ StartInv /\ [Next]_vars => StartInv'
<1>. SUFFICES ASSUME TypeOK, StartInv, [Next]_vars PROVE StartInv'
  OBVIOUS
<1>. USE SessionsAssumption, ProcNames DEF TypeOK, hubVars, etcdVars, Goto, StartInv
<1>1. \/ UNCHANGED <<pc, victim, reg>>
      \/ \E s \in Sessions : Upgrade(s) \/ PumpStuck(s) \/ ServeStep(s) \/ PumpStep(s)
      \/ \E c \in Sessions : RegistrarStep(c) \/ RegTick(c) \/ RevokeFails(c)
  BY DEF Next, vars, PumpPanic, MatchPut, WritePumpExit, PeerGone, RunRemove, MapRace,
         SetLeaseFails, LeaseExpire
<1>2. CASE UNCHANGED <<pc, victim, reg>>
  BY <1>2
<1>3. ASSUME NEW s \in Sessions, Upgrade(s) PROVE StartInv'
  BY <1>3 DEF Upgrade
<1>4. ASSUME NEW s \in Sessions, Lookup(s) PROVE StartInv'
  BY <1>4 DEF Lookup
<1>5. ASSUME NEW s \in Sessions, Fetch(s) PROVE StartInv'
  BY <1>5 DEF Fetch
<1>6. ASSUME NEW s \in Sessions, Register(s) PROVE StartInv'
  BY <1>6 DEF Register
<1>7. ASSUME NEW s \in Sessions, PumpError(s) \/ PumpStuck(s) \/ StuckPanics(s)
      PROVE  StartInv'
  BY <1>7 DEF PumpError, PumpStuck, StuckPanics
<1>8. ASSUME NEW p \in Procs, Close(p) PROVE StartInv'
  <2>1. CASE CloseLock(p)
    BY <2>1 DEF CloseLock
  <2>2. CASE NilClose(p)
    BY <2>2 DEF NilClose
  <2>3. CASE CloseUnregister(p)
    BY <2>3 DEF CloseUnregister
  <2>4. CASE CloseOffline(p)
    BY <2>4 DEF CloseOffline
  <2>5. CASE CloseChannels(p)
    BY <2>5 DEF CloseChannels
  <2>6. CASE CloseUnlock(p)
    BY <2>6 DEF CloseUnlock
  <2>7. CASE CloseConn(p)
    BY <2>7 DEF CloseConn
  <2>. QED
    BY <1>8, <2>1, <2>2, <2>3, <2>4, <2>5, <2>6, <2>7 DEF Close
<1>9. ASSUME NEW c \in Sessions, RegInsert(c) PROVE StartInv'
  BY <1>9 DEF RegInsert
<1>10. ASSUME NEW c \in Sessions, RegGrant(c) PROVE StartInv'
  BY <1>10 DEF RegGrant
<1>11. ASSUME NEW c \in Sessions, RegPut(c) PROVE StartInv'
  BY <1>11 DEF RegPut
<1>12. ASSUME NEW c \in Sessions, RegRevoke(c) PROVE StartInv'
  BY <1>12 DEF RegRevoke
<1>13. ASSUME NEW c \in Sessions, RegTick(c) \/ RevokeFails(c) PROVE StartInv'
  BY <1>13 DEF RegTick, RevokeFails
<1>. QED
  BY <1>1, <1>2, <1>3, <1>4, <1>5, <1>6, <1>7, <1>8, <1>9, <1>10, <1>11, <1>12, <1>13
     DEF ServeStep, PumpStep, RegistrarStep

-----------------------------------------------------------------------------
(* HomeInv and MutexInv. *)

\* The map of a server names sessions of that server only.
LEMMA HomeStep == TypeOK /\ HomeInv /\ [Next]_vars => HomeInv'
<1>. SUFFICES ASSUME TypeOK, HomeInv, [Next]_vars PROVE HomeInv'
  OBVIOUS
<1>. USE SessionsAssumption, ProcNames
     DEF TypeOK, hubVars, etcdVars, Goto, HomeInv, Target, Host
<1>1. \/ UNCHANGED <<pc, victim, clients>>
      \/ \E s \in Sessions : Upgrade(s) \/ PumpStuck(s) \/ ServeStep(s) \/ PumpStep(s)
      \/ \E c \in Sessions : RegInsert(c)
      \/ \E v \in Servers : RunRemove(v)
  BY DEF Next, vars, RegistrarStep, PumpPanic, MatchPut, WritePumpExit, PeerGone, MapRace,
         RegGrant, RegPut, RegRevoke, RegTick, RevokeFails, SetLeaseFails, LeaseExpire
<1>2. CASE UNCHANGED <<pc, victim, clients>>
  BY <1>2
<1>3. ASSUME NEW s \in Sessions, Upgrade(s) PROVE HomeInv'
  BY <1>3 DEF Upgrade
<1>4. ASSUME NEW s \in Sessions, Lookup(s) PROVE HomeInv'
  BY <1>4 DEF Lookup
<1>5. ASSUME NEW s \in Sessions, Fetch(s) PROVE HomeInv'
  BY <1>5 DEF Fetch
<1>6. ASSUME NEW s \in Sessions, Register(s) PROVE HomeInv'
  BY <1>6 DEF Register
<1>7. ASSUME NEW s \in Sessions, PumpError(s) \/ PumpStuck(s) \/ StuckPanics(s)
      PROVE  HomeInv'
  BY <1>7 DEF PumpError, PumpStuck, StuckPanics
<1>8. ASSUME NEW p \in Procs, Close(p) PROVE HomeInv'
  <2>1. CASE CloseLock(p)
    BY <2>1 DEF CloseLock
  <2>2. CASE NilClose(p)
    BY <2>2 DEF NilClose
  <2>3. CASE CloseUnregister(p)
    BY <2>3 DEF CloseUnregister
  <2>4. CASE CloseOffline(p)
    BY <2>4 DEF CloseOffline
  <2>5. CASE CloseChannels(p)
    BY <2>5 DEF CloseChannels
  <2>6. CASE CloseUnlock(p)
    BY <2>6 DEF CloseUnlock
  <2>7. CASE CloseConn(p)
    BY <2>7 DEF CloseConn
  <2>. QED
    BY <1>8, <2>1, <2>2, <2>3, <2>4, <2>5, <2>6, <2>7 DEF Close
<1>9. ASSUME NEW c \in Sessions, RegInsert(c) PROVE HomeInv'
  BY <1>9 DEF RegInsert
<1>10. ASSUME NEW v \in Servers, RunRemove(v) PROVE HomeInv'
  BY <1>10 DEF RunRemove
<1>. QED
  BY <1>1, <1>2, <1>3, <1>4, <1>5, <1>6, <1>7, <1>8, <1>9, <1>10
     DEF ServeStep, PumpStep

\* Who enters the critical section finds the mutex free and takes it.
LEMMA MutexStep == TypeOK /\ MutexInv /\ [Next]_vars => MutexInv'
<1>. SUFFICES ASSUME TypeOK, MutexInv, [Next]_vars PROVE MutexInv'
  OBVIOUS
<1>. USE SessionsAssumption, ProcNames
     DEF TypeOK, hubVars, etcdVars, Goto, MutexInv, Locked, Host
<1>1. \/ UNCHANGED <<pc, mutex>>
      \/ \E s \in Sessions : Upgrade(s) \/ PumpStuck(s) \/ ServeStep(s) \/ PumpStep(s)
  BY DEF Next, vars, RegistrarStep, PumpPanic, MatchPut, WritePumpExit, PeerGone, MapRace, RunRemove,
         RegInsert, RegGrant, RegPut, RegRevoke, RegTick, RevokeFails, SetLeaseFails,
         LeaseExpire
<1>2. CASE UNCHANGED <<pc, mutex>>
  BY <1>2
<1>3. ASSUME NEW s \in Sessions, Upgrade(s) PROVE MutexInv'
  BY <1>3 DEF Upgrade
<1>4. ASSUME NEW s \in Sessions, Lookup(s) PROVE MutexInv'
  BY <1>4 DEF Lookup
<1>5. ASSUME NEW s \in Sessions, Fetch(s) PROVE MutexInv'
  BY <1>5 DEF Fetch
<1>6. ASSUME NEW s \in Sessions, Register(s) PROVE MutexInv'
  BY <1>6 DEF Register
<1>7. ASSUME NEW s \in Sessions, PumpError(s) \/ PumpStuck(s) \/ StuckPanics(s)
      PROVE  MutexInv'
  BY <1>7 DEF PumpError, PumpStuck, StuckPanics
<1>8. ASSUME NEW p \in Procs, Close(p) PROVE MutexInv'
  <2>1. CASE CloseLock(p)
    \* The mutex was free, so nobody of this server was in the section.
    BY <2>1 DEF CloseLock
  <2>2. CASE NilClose(p)
    BY <2>2 DEF NilClose
  <2>3. CASE CloseUnregister(p)
    BY <2>3 DEF CloseUnregister
  <2>4. CASE CloseOffline(p)
    BY <2>4 DEF CloseOffline
  <2>5. CASE CloseChannels(p)
    BY <2>5 DEF CloseChannels
  <2>6. CASE CloseUnlock(p)
    \* The one that unlocks is the one that holds the mutex.
    BY <2>6 DEF CloseUnlock
  <2>7. CASE CloseConn(p)
    BY <2>7 DEF CloseConn
  <2>. QED
    BY <1>8, <2>1, <2>2, <2>3, <2>4, <2>5, <2>6, <2>7 DEF Close
<1>. QED
  BY <1>1, <1>2, <1>3, <1>4, <1>5, <1>6, <1>7, <1>8 DEF ServeStep, PumpStep

-----------------------------------------------------------------------------
(* CloseInv: what the handshake on ToOffline orders. *)

\* The target of a Close past Unregister is a session of that server.
LEMMA TargetHome ==
  ASSUME TypeOK, HomeInv, NEW p \in Procs,
         pc[p] \in {"offline", "channels", "unlock", "conn"}
  PROVE  Target(p) \in Sessions /\ ServerOf[Target(p)] = Host(p)
BY SessionsAssumption, ProcNames DEF TypeOK, HomeInv, Target, Host

\* Only the Close that met the registrar closes the channels.
LEMMA CloseStep ==
  TypeOK /\ StartInv /\ HomeInv /\ MutexInv /\ CloseInv /\ [Next]_vars => CloseInv'
<1>. SUFFICES ASSUME TypeOK, StartInv, HomeInv, MutexInv, CloseInv, [Next]_vars
              PROVE  CloseInv'
  OBVIOUS
<1>. USE SessionsAssumption, ProcNames
     DEF TypeOK, hubVars, etcdVars, Goto, CloseInv, TakeoverOrder, Leaving, Target
<1>1. \/ UNCHANGED <<pc, victim, reg, closes>>
      \/ \E s \in Sessions : Upgrade(s) \/ PumpStuck(s) \/ ServeStep(s) \/ PumpStep(s)
      \/ \E c \in Sessions : RegistrarStep(c) \/ RegTick(c) \/ RevokeFails(c)
  BY DEF Next, vars, PumpPanic, MatchPut, WritePumpExit, PeerGone, RunRemove, MapRace,
         SetLeaseFails, LeaseExpire
<1>2. CASE UNCHANGED <<pc, victim, reg, closes>>
  BY <1>2
<1>3. ASSUME NEW s \in Sessions, Upgrade(s) PROVE CloseInv'
  BY <1>3 DEF Upgrade
<1>4. ASSUME NEW s \in Sessions, Lookup(s) PROVE CloseInv'
  BY <1>4 DEF Lookup, StartInv
<1>5. ASSUME NEW s \in Sessions, Fetch(s) PROVE CloseInv'
  BY <1>5 DEF Fetch
<1>6. ASSUME NEW s \in Sessions, Register(s) PROVE CloseInv'
  BY <1>6 DEF Register, StartInv
<1>7. ASSUME NEW s \in Sessions, PumpError(s) \/ PumpStuck(s) \/ StuckPanics(s)
      PROVE  CloseInv'
  BY <1>7 DEF PumpError, PumpStuck, StuckPanics
<1>8. ASSUME NEW p \in Procs, CloseLock(p) PROVE CloseInv'
  BY <1>8 DEF CloseLock
<1>9. ASSUME NEW p \in Procs, NilClose(p) PROVE CloseInv'
  BY <1>9 DEF NilClose
<1>10. ASSUME NEW p \in Procs, CloseUnregister(p) PROVE CloseInv'
  BY <1>10 DEF CloseUnregister
<1>11. ASSUME NEW p \in Procs, CloseOffline(p) PROVE CloseInv'
  \* The registrar was at its select, so the channels are still open and
  \* no other Close of the same session is past the handshake.
  BY <1>11, TargetHome DEF CloseOffline
<1>12. ASSUME NEW p \in Procs, CloseChannels(p) PROVE CloseInv'
  \* A second Close at this point would hold the same mutex.
  <2>1. Target(p) \in Sessions /\ Leaving(Target(p)) /\ closes[Target(p)] = 0
    BY <1>12, TargetHome DEF CloseChannels
  <2>2. ASSUME NEW q \in Procs, pc[q] = "channels", Target(q) = Target(p)
        PROVE  q = p
    BY <1>12, <2>2, TargetHome DEF CloseChannels, MutexInv, Locked
  <2>3. closes' = [closes EXCEPT ![Target(p)] = 1]
    BY <1>12, <2>1 DEF CloseChannels
  <2>. QED
    BY <1>12, <2>1, <2>2, <2>3 DEF CloseChannels
<1>13. ASSUME NEW p \in Procs, CloseUnlock(p) PROVE CloseInv'
  BY <1>13 DEF CloseUnlock
<1>14. ASSUME NEW p \in Procs, CloseConn(p) PROVE CloseInv'
  BY <1>14 DEF CloseConn
<1>15. ASSUME NEW c \in Sessions, RegInsert(c) PROVE CloseInv'
  BY <1>15 DEF RegInsert
<1>16. ASSUME NEW c \in Sessions, RegGrant(c) PROVE CloseInv'
  BY <1>16 DEF RegGrant
<1>17. ASSUME NEW c \in Sessions, RegPut(c) PROVE CloseInv'
  BY <1>17 DEF RegPut
<1>18. ASSUME NEW c \in Sessions, RegRevoke(c) PROVE CloseInv'
  BY <1>18 DEF RegRevoke
<1>19. ASSUME NEW c \in Sessions, RegTick(c) PROVE CloseInv'
  BY <1>19 DEF RegTick
<1>20. ASSUME NEW c \in Sessions, RevokeFails(c) PROVE CloseInv'
  BY <1>20 DEF RevokeFails
<1>. QED
  BY <1>1, <1>2, <1>3, <1>4, <1>5, <1>6, <1>7, <1>8, <1>9, <1>10, <1>11, <1>12,
     <1>13, <1>14, <1>15, <1>16, <1>17, <1>18, <1>19, <1>20
     DEF ServeStep, PumpStep, RegistrarStep, Close

-----------------------------------------------------------------------------
(* RouteInv: routes and leases. *)

\* A key moves with the lease its registrar knows, and goes with it.
LEMMA RouteStep ==
  TypeOK /\ HomeInv /\ RouteInv /\ [Next]_vars => RouteInv'
<1>. SUFFICES ASSUME TypeOK, HomeInv, RouteInv, [Next]_vars PROVE RouteInv'
  OBVIOUS
<1>. USE SessionsAssumption, ProcNames
     DEF TypeOK, hubVars, etcdVars, Goto, RouteInv, Drop
<1>1. \/ UNCHANGED <<reg, leaseId, leases, route>>
      \/ \E s \in Sessions : Register(s)
      \/ \E p \in Procs : CloseOffline(p)
      \/ \E c \in Sessions : RegistrarStep(c) \/ RegTick(c) \/ RevokeFails(c)
      \/ \E l \in leases : LeaseExpire(l)
      \/ \E s \in Sessions, i \in SourceIds : MatchPut(s, i)
  BY DEF Next, vars, ServeStep, PumpStep, Close, Upgrade, Lookup, Fetch, CloseLock,
         NilClose, CloseUnregister, CloseChannels, CloseUnlock, CloseConn,
         PumpError, PumpStuck, StuckPanics, PumpPanic, WritePumpExit, PeerGone, RunRemove, MapRace,
         SetLeaseFails
<1>2. CASE UNCHANGED <<reg, leaseId, leases, route>>
  BY <1>2
<1>3. ASSUME NEW s \in Sessions, Register(s) PROVE RouteInv'
  BY <1>3 DEF Register
<1>4. ASSUME NEW p \in Procs, CloseOffline(p) PROVE RouteInv'
  BY <1>4, TargetHome DEF CloseOffline
<1>5. ASSUME NEW c \in Sessions, RegInsert(c) PROVE RouteInv'
  BY <1>5 DEF RegInsert
<1>6. ASSUME NEW c \in Sessions, RegGrant(c) PROVE RouteInv'
  BY <1>6 DEF RegGrant
<1>7. ASSUME NEW c \in Sessions, RegPut(c) PROVE RouteInv'
  BY <1>7, LeasePairs DEF RegPut
<1>8. ASSUME NEW c \in Sessions, RegRevoke(c) PROVE RouteInv'
  BY <1>8, LeasePairs DEF RegRevoke
<1>9. ASSUME NEW c \in Sessions, RegTick(c) PROVE RouteInv'
  BY <1>9 DEF RegTick
<1>10. ASSUME NEW c \in Sessions, RevokeFails(c) PROVE RouteInv'
  BY <1>10 DEF RevokeFails
<1>11. ASSUME NEW l \in leases, LeaseExpire(l) PROVE RouteInv'
  BY <1>11, LeasePairs DEF LeaseExpire
<1>12. ASSUME NEW s \in Sessions, NEW i \in SourceIds, MatchPut(s, i) PROVE RouteInv'
  BY <1>12, LeasePairs DEF MatchPut
<1>. QED
  BY <1>1, <1>2, <1>3, <1>4, <1>5, <1>6, <1>7, <1>8, <1>9, <1>10, <1>11, <1>12
     DEF RegistrarStep

-----------------------------------------------------------------------------
(* The theorems. *)

\* The inductive invariant holds in every reachable state.
THEOREM Inductive == Spec => []IInv
<1>1. IInv /\ [Next]_vars => IInv'
  BY TypeStep, GrantStep, StartStep, HomeStep, MutexStep, CloseStep, RouteStep DEF IInv
<1>. QED
  BY InitIInv, <1>1, PTL DEF Spec

\* Every variable keeps its type, whatever the goroutines do.
THEOREM TypeCorrect == Spec => []TypeOK
<1>1. IInv => TypeOK
  BY DEF IInv
<1>. QED
  BY Inductive, <1>1, PTL

\* Client.Close closes the channels of a session at most once, however many
\* logins and readers run it: the handshake on ToOffline lets one through.
THEOREM ClosedOnce == Spec => []ChannelsClosedOnce
<1>1. IInv => ChannelsClosedOnce
  BY DEF IInv, CloseInv, ChannelsClosedOnce
<1>. QED
  BY Inductive, <1>1, PTL

\* After a successful CancelLease no route leads to the session.
THEOREM NoRouteOfRetired == Spec => []RetiredUnrouted
<1>1. IInv => RetiredUnrouted
  BY DEF IInv, RouteInv, RetiredUnrouted, LeadsTo
<1>. QED
  BY Inductive, <1>1, PTL

\* A login that found an earlier session registers itself only after that
\* session's registrar was told to leave and its channels were closed.
THEOREM TakeoverOrdered == Spec => []TakeoverOrder
<1>1. IInv => TakeoverOrder
  BY DEF IInv, CloseInv
<1>. QED
  BY Inductive, <1>1, PTL

-----------------------------------------------------------------------------
(* The refinement of RouteDirectory. *)

\* At first the directory is empty.
LEMMA DirectoryInitial == Init => Directory!DirectoryInit
BY SessionsAssumption, LeasePairs DEF Init, Directory!DirectoryInit, Phase, Entry

\* Every step is a step of the directory or leaves it alone.
LEMMA DirectoryStep ==
  IInv /\ [Next]_vars => [Directory!DirectoryNext]_(Directory!dirVars)
<1>. SUFFICES ASSUME IInv, [Next]_vars
              PROVE  [Directory!DirectoryNext]_<<Phase, Entry>>
  BY DEF Directory!dirVars
<1>. USE SessionsAssumption, ProcNames
     DEF IInv, TypeOK, hubVars, etcdVars, Goto
<1>1. \/ UNCHANGED <<reg, leaseId, route>>
      \/ \E s \in Sessions : Register(s)
      \/ \E p \in Procs : CloseOffline(p)
      \/ \E c \in Sessions : RegistrarStep(c) \/ RegTick(c) \/ RevokeFails(c)
      \/ \E l \in leases : LeaseExpire(l)
      \/ \E s \in Sessions, i \in SourceIds : MatchPut(s, i)
  BY DEF Next, vars, ServeStep, PumpStep, Close, Upgrade, Lookup, Fetch, CloseLock,
         NilClose, CloseUnregister, CloseChannels, CloseUnlock, CloseConn,
         PumpError, PumpStuck, StuckPanics, PumpPanic, WritePumpExit, PeerGone, RunRemove, MapRace,
         SetLeaseFails
<1>2. CASE UNCHANGED <<reg, leaseId, route>>
  BY <1>2 DEF Phase, Entry
<1>3. ASSUME NEW s \in Sessions, Register(s) PROVE UNCHANGED <<Phase, Entry>>
  BY <1>3 DEF Register, StartInv, Phase, Entry
<1>4. ASSUME NEW p \in Procs, CloseOffline(p) PROVE UNCHANGED <<Phase, Entry>>
  BY <1>4, TargetHome DEF CloseOffline, Phase, Entry
<1>5. ASSUME NEW c \in Sessions, RegInsert(c) \/ RegGrant(c) \/ RegTick(c)
      PROVE  UNCHANGED <<Phase, Entry>>
  <2>1. CASE RegInsert(c)
    BY <2>1 DEF RegInsert, Phase, Entry
  <2>2. CASE RegGrant(c)
    BY <2>2 DEF RegGrant, Phase, Entry
  <2>3. CASE RegTick(c)
    BY <2>3 DEF RegTick, Phase, Entry
  <2>. QED
    BY <1>5, <2>1, <2>2, <2>3
<1>6. ASSUME NEW c \in Sessions, RegPut(c) PROVE Directory!Publish(c)
  <2>1. granted[c] > 0
    BY <1>6 DEF RegPut, Leases
  <2>2. Phase[c] \in {"new", "serving"}
    BY <1>6 DEF RegPut, Phase
  <2>3. Phase' = [Phase EXCEPT ![c] = "serving"]
    BY <1>6, <2>1 DEF RegPut, Phase
  <2>4. Entry' = [Entry EXCEPT ![IdOf[c]] = c]
    <3>1. route' = [route EXCEPT ![IdOf[c]] = <<c, granted[c]>>]
      BY <1>6 DEF RegPut
    <3>2. <<c, granted[c]>> \in Leases
      BY <2>1 DEF Leases
    <3>3. ASSUME NEW i \in Ids
          PROVE  Entry'[i] = IF i = IdOf[c] THEN c ELSE Entry[i]
      BY <3>1, <3>2 DEF Entry
    <3>. QED
      BY <3>3 DEF Entry
  <2>. QED
    BY <2>2, <2>3, <2>4 DEF Directory!Publish
<1>7. ASSUME NEW c \in Sessions, RegRevoke(c) PROVE Directory!Retire(c)
  \* RouteInv: the lease it revokes is the one its route hangs on.
  <2>1. Phase[c] = "serving"
    BY <1>7 DEF RegRevoke, RouteInv, Phase
  <2>2. Phase' = [Phase EXCEPT ![c] = "retired"]
    BY <1>7 DEF RegRevoke, Phase
  <2>3. \A i \in Ids : route[i] = <<c, leaseId[c]>> <=> Entry[i] = c
    <3>. TAKE i \in Ids
    <3>1. CASE route[i] \notin Leases
      <4>1. route[i] \in {Nil, Test} /\ Entry[i] = route[i]
        BY <3>1 DEF Entry
      <4>2. PICK n \in 0 .. MaxGrants : n = leaseId[c]
        OBVIOUS
      <4>3. <<c, n>> # Nil /\ <<c, n>> # Test /\ Nil # c /\ Test # c
        BY LeasePairs
      <4>. QED
        BY <4>1, <4>2, <4>3
    <3>2. CASE route[i] \in Leases
      <4>1. route[i] \in Leases /\ Entry[i] = route[i][1]
        BY <3>2 DEF Entry
      <4>2. route[i] = <<route[i][1], leaseId[route[i][1]]>>
        BY <3>2, <4>1, LeasePairs DEF RouteInv
      <4>. QED
        BY <4>1, <4>2
    <3>. QED
      BY <3>1, <3>2
  <2>4. Entry' = [i \in Ids |-> IF Entry[i] = c THEN Nil ELSE Entry[i]]
    <3>1. route' = [i \in Ids |-> IF route[i] = <<c, leaseId[c]>> THEN Nil ELSE route[i]]
      BY <1>7 DEF RegRevoke, Drop
    <3>2. ASSUME NEW i \in Ids
          PROVE  Entry'[i] = IF Entry[i] = c THEN Nil ELSE Entry[i]
      <4>1. CASE Entry[i] = c
        BY <2>3, <3>1, <4>1, LeasePairs DEF Entry
      <4>2. CASE Entry[i] # c
        BY <2>3, <3>1, <4>2 DEF Entry
      <4>. QED
        BY <4>1, <4>2
    <3>. QED
      BY <3>2 DEF Entry
  <2>. QED
    BY <2>1, <2>2, <2>4 DEF Directory!Retire
<1>8. ASSUME NEW c \in Sessions, RevokeFails(c) PROVE Directory!Retire(c)
  <2>1. Phase[c] = "serving"
    BY <1>8 DEF RevokeFails, RouteInv, Phase
  <2>2. Phase' = [Phase EXCEPT ![c] = "retired"]
    BY <1>8 DEF RevokeFails, Phase
  <2>3. UNCHANGED Entry
    BY <1>8 DEF RevokeFails, Entry
  <2>. QED
    BY <2>1, <2>2, <2>3 DEF Directory!Retire
<1>9. ASSUME NEW l \in leases, LeaseExpire(l)
      PROVE  (\E i \in Ids : Directory!Lapse(i)) \/ UNCHANGED <<Phase, Entry>>
  <2>1. UNCHANGED Phase
    BY <1>9 DEF LeaseExpire, Phase
  <2>2. CASE \E i \in Ids : route[i] = l
    <3>1. PICK i \in Ids : route[i] = l
      BY <2>2
    <3>2. l \in Leases /\ l # Nil /\ l[1] \in Sessions /\ i = IdOf[l[1]]
      BY <3>1 DEF RouteInv, Leases
    <3>3. \A j \in Ids : route[j] = l => j = i
      BY <3>2 DEF RouteInv
    <3>4. Entry[i] \in Sessions
      BY <3>1, <3>2 DEF Entry
    <3>5. Entry' = [Entry EXCEPT ![i] = Nil]
      <4>1. route' = [j \in Ids |-> IF route[j] = l THEN Nil ELSE route[j]]
        BY <1>9 DEF LeaseExpire, Drop
      <4>2. ASSUME NEW j \in Ids
            PROVE  Entry'[j] = IF j = i THEN Nil ELSE Entry[j]
        <5>1. CASE j = i
          BY <3>1, <4>1, <5>1, LeasePairs DEF Entry
        <5>2. CASE j # i
          BY <3>3, <4>1, <5>2 DEF Entry
        <5>. QED
          BY <5>1, <5>2
      <4>. QED
        BY <4>2 DEF Entry
    <3>. QED
      BY <2>1, <3>4, <3>5 DEF Directory!Lapse
  <2>3. CASE \A i \in Ids : route[i] # l
    BY <1>9, <2>1, <2>3 DEF LeaseExpire, Drop, Entry
  <2>. QED
    BY <2>2, <2>3
<1>10. ASSUME NEW s \in Sessions, NEW i \in SourceIds, MatchPut(s, i)
       PROVE  i \in Ids /\ Directory!Usurp(i)
  <2>1. UNCHANGED Phase /\ i \in Ids
    BY <1>10 DEF MatchPut, Phase
  <2>2. route' = [route EXCEPT ![i] = Test] /\ Test \notin Leases
    BY <1>10, LeasePairs DEF MatchPut
  <2>3. ASSUME NEW j \in Ids
        PROVE  Entry'[j] = IF j = i THEN Test ELSE Entry[j]
    BY <2>1, <2>2 DEF Entry
  <2>4. Entry' = [Entry EXCEPT ![i] = Test]
    BY <2>3 DEF Entry
  <2>. QED
    BY <2>1, <2>4 DEF Directory!Usurp
<1>. QED
  BY <1>1, <1>2, <1>3, <1>4, <1>5, <1>6, <1>7, <1>8, <1>9, <1>10
     DEF RegistrarStep, Directory!DirectoryNext

\* What the goroutines of all servers do to the routes is what the abstract
\* directory allows: only a session that has not retired publishes, only
\* under its own id, and only its own route goes when it retires.
THEOREM ImplementsDirectory == Spec => DirectorySpec
<1>. QED
  BY DirectoryInitial, DirectoryStep, Inductive, PTL
     DEF Spec, DirectorySpec, Directory!Spec

-----------------------------------------------------------------------------
(* The route of a session that is online. *)

\* Only its own puts, the end of its newest lease and a match message that names
\* the id change the route of such a session.
LEMMA OnlineStep == TypeOK /\ HomeInv /\ OnlineRoute /\ [Next]_vars => OnlineRoute'
<1>. SUFFICES ASSUME TypeOK, HomeInv, OnlineRoute, [Next]_vars PROVE OnlineRoute'
  OBVIOUS
<1>. USE SessionsAssumption, ProcNames
     DEF TypeOK, hubVars, etcdVars, Goto, OnlineRoute, Alone, Drop
<1>1. \/ UNCHANGED <<reg, leaseId, leases, route>>
      \/ \E s \in Sessions : Register(s)
      \/ \E p \in Procs : CloseOffline(p)
      \/ \E c \in Sessions : RegistrarStep(c) \/ RegTick(c) \/ RevokeFails(c)
      \/ \E l \in leases : LeaseExpire(l)
      \/ \E s \in Sessions, i \in SourceIds : MatchPut(s, i)
  BY DEF Next, vars, ServeStep, PumpStep, Close, Upgrade, Lookup, Fetch, CloseLock,
         NilClose, CloseUnregister, CloseChannels, CloseUnlock, CloseConn,
         PumpError, PumpStuck, StuckPanics, PumpPanic, WritePumpExit, PeerGone, RunRemove, MapRace,
         SetLeaseFails
<1>2. CASE UNCHANGED <<reg, leaseId, leases, route>>
  BY <1>2
<1>3. ASSUME NEW s \in Sessions, Register(s) PROVE OnlineRoute'
  BY <1>3 DEF Register
<1>4. ASSUME NEW p \in Procs, CloseOffline(p) PROVE OnlineRoute'
  BY <1>4, TargetHome DEF CloseOffline
<1>5. ASSUME NEW c \in Sessions, RegInsert(c) PROVE OnlineRoute'
  BY <1>5 DEF RegInsert
<1>6. ASSUME NEW c \in Sessions, RegGrant(c) PROVE OnlineRoute'
  BY <1>6 DEF RegGrant
<1>7. ASSUME NEW c \in Sessions, RegPut(c) PROVE OnlineRoute'
  \* A put of another session is a put under another id.
  BY <1>7 DEF RegPut
<1>8. ASSUME NEW c \in Sessions, RegRevoke(c) PROVE OnlineRoute'
  <2>1. /\ leases' = leases \ {<<c, leaseId[c]>>} /\ leaseId' = leaseId
        /\ route' = [i \in Ids |-> IF route[i] = <<c, leaseId[c]>> THEN Nil ELSE route[i]]
        /\ reg' = [reg EXCEPT ![c] = "done"]
    BY <1>8 DEF RegRevoke
  <2>2. ASSUME NEW d \in Sessions, Alone(d), reg'[d] = "select"
        PROVE  \/ route'[IdOf[d]] = <<d, leaseId[d]>>
               \/ route'[IdOf[d]] = Nil /\ <<d, leaseId[d]>> \notin leases'
               \/ route'[IdOf[d]] = Test /\ IdOf[d] \in SourceIds
    <3>1. d # c /\ reg[d] = "select"
      BY <2>1, <2>2
    <3>2. IdOf[d] \in Ids
      OBVIOUS
    <3>3. <<d, leaseId[d]>> # <<c, leaseId[c]>>
      BY <3>1
    <3>4. Test # <<c, leaseId[c]>>
      BY LeasePairs
    <3>. QED
      BY <2>1, <2>2, <3>1, <3>2, <3>3, <3>4
  <2>. QED
    BY <2>1, <2>2
<1>9. ASSUME NEW c \in Sessions, RegTick(c) \/ RevokeFails(c) PROVE OnlineRoute'
  BY <1>9 DEF RegTick, RevokeFails
<1>10. ASSUME NEW l \in leases, LeaseExpire(l) PROVE OnlineRoute'
  <2>1. /\ leases' = leases \ {l} /\ leaseId' = leaseId /\ reg' = reg
        /\ route' = [i \in Ids |-> IF route[i] = l THEN Nil ELSE route[i]]
    BY <1>10 DEF LeaseExpire
  <2>2. Test # l /\ Nil # l
    BY LeasePairs
  <2>3. ASSUME NEW d \in Sessions, Alone(d), reg[d] = "select"
        PROVE  \/ route'[IdOf[d]] = <<d, leaseId[d]>>
               \/ route'[IdOf[d]] = Nil /\ <<d, leaseId[d]>> \notin leases'
               \/ route'[IdOf[d]] = Test /\ IdOf[d] \in SourceIds
    <3>1. IdOf[d] \in Ids
      OBVIOUS
    <3>2. CASE route[IdOf[d]] = <<d, leaseId[d]>>
      BY <2>1, <3>1, <3>2
    <3>3. CASE route[IdOf[d]] = Nil /\ <<d, leaseId[d]>> \notin leases
      BY <2>1, <2>2, <3>1, <3>3
    <3>4. CASE route[IdOf[d]] = Test /\ IdOf[d] \in SourceIds
      BY <2>1, <2>2, <3>1, <3>4
    <3>. QED
      BY <2>3, <3>2, <3>3, <3>4
  <2>. QED
    BY <2>1, <2>3
<1>11. ASSUME NEW s \in Sessions, NEW i \in SourceIds, MatchPut(s, i) PROVE OnlineRoute'
  BY <1>11 DEF MatchPut
<1>. QED
  BY <1>1, <1>2, <1>3, <1>4, <1>5, <1>6, <1>7, <1>8, <1>9, <1>10, <1>11 DEF RegistrarStep

\* The key of a session online that has its id for itself hangs on the lease its
\* registrar got last; it is gone only when that lease is, until the renewal, and
\* overwritten only by a match message that names the id.
THEOREM OnlineRouted == Spec => []OnlineRoute
<1>1. Init => OnlineRoute
  BY DEF Init, OnlineRoute
<1>2. IInv /\ OnlineRoute /\ [Next]_vars => OnlineRoute'
  BY OnlineStep DEF IInv
<1>. QED
  BY Inductive, <1>1, <1>2, PTL DEF Spec

\* A session whose id no other session has and no match message names is routed
\* as long as it waits in its select with the lease of its last put alive.
AloneIsRouted ==
    \A c \in Sessions :
        /\ Alone(c) /\ IdOf[c] \notin SourceIds
        /\ reg[c] = "select"
        /\ <<c, leaseId[c]>> \in leases
        => route[IdOf[c]] = <<c, leaseId[c]>>

\* What sessions and match messages with other ids do leaves its route alone.
THEOREM AloneRouted == Spec => []AloneIsRouted
<1>1. OnlineRoute => AloneIsRouted
  BY DEF OnlineRoute, AloneIsRouted
<1>. QED
  BY OnlineRouted, <1>1, PTL

-----------------------------------------------------------------------------
(* Who waits in vain on ToOffline.                                          *)

\* Whom a login finds has been registered, under the login's own id, and is
\* not the session that logs in.
FoundInv ==
    /\ \A s \in Sessions : pc[Serve(s)] = "done" => reg[s] # "none"
    /\ \A v \in Servers, i \in Ids : clients[v][i] # Nil =>
          /\ reg[clients[v][i]] # "none"
          /\ IdOf[clients[v][i]] = i
    /\ \A s \in Sessions : victim[s] # Nil =>
          /\ reg[victim[s]] # "none"
          /\ IdOf[victim[s]] = IdOf[s]
          /\ victim[s] # s

\* The process q has met the registrar of c on ToOffline.
Told(q, c) == Target(q) = c /\ pc[q] \in {"channels", "unlock", "conn", "register", "done"}

\* A registrar leaves if and only if a process told it so, and one did.
ToldInv ==
    /\ \A c \in Sessions : Leaving(c) <=> \E q \in Procs : Told(q, c)
    /\ \A c \in Sessions, q, r \in Procs : Told(q, c) /\ Told(r, c) => q = r

\* The registrar of c is at its select or on the way to it.
Receives(c) == reg[c] \in {"insert", "grant", "put", "select"}

\* A Close waits in vain for the registrar only if another process has closed
\* the same session before.
VainWaitIsSecond ==
    \A p \in Procs : pc[p] = "offline" =>
        Receives(Target(p)) \/ \E q \in Procs \ {p} : Told(q, Target(p))

\* And it never goes on: it keeps the mutex of its server for good.
VainWaitIsForEver ==
    [][\A p \in Procs : pc[p] = "offline" /\ ~Receives(Target(p)) =>
          /\ pc'[p] = "offline" /\ ~Receives(Target(p))'
          /\ mutex'[Host(p)] = p]_vars

\* The map names only sessions whose registrar has run, each under its id.
LEMMA FoundStep == TypeOK /\ StartInv /\ FoundInv /\ [Next]_vars => FoundInv'
<1>. SUFFICES ASSUME TypeOK, StartInv, FoundInv, [Next]_vars PROVE FoundInv'
  OBVIOUS
<1>. USE SessionsAssumption, ProcNames DEF TypeOK, hubVars, etcdVars, Goto, FoundInv
<1>1. \/ UNCHANGED <<pc, victim, reg, clients>>
      \/ \E s \in Sessions : Upgrade(s) \/ PumpStuck(s) \/ ServeStep(s) \/ PumpStep(s)
      \/ \E c \in Sessions : RegistrarStep(c) \/ RegTick(c) \/ RevokeFails(c)
      \/ \E v \in Servers : RunRemove(v)
  BY DEF Next, vars, PumpPanic, MatchPut, WritePumpExit, PeerGone, MapRace, SetLeaseFails, LeaseExpire
<1>2. CASE UNCHANGED <<pc, victim, reg, clients>>
  BY <1>2
<1>3. ASSUME NEW s \in Sessions, Upgrade(s) PROVE FoundInv'
  BY <1>3 DEF Upgrade
<1>4. ASSUME NEW s \in Sessions, Lookup(s) PROVE FoundInv'
  BY <1>4 DEF Lookup
<1>5. ASSUME NEW s \in Sessions, Fetch(s) PROVE FoundInv'
  \* The session that logs in has no registrar yet, so the entry is another's.
  BY <1>5 DEF Fetch, StartInv
<1>6. ASSUME NEW s \in Sessions, Register(s) PROVE FoundInv'
  BY <1>6 DEF Register
<1>7. ASSUME NEW s \in Sessions, PumpError(s) \/ PumpStuck(s) \/ StuckPanics(s)
      PROVE  FoundInv'
  BY <1>7 DEF PumpError, PumpStuck, StuckPanics
<1>8. ASSUME NEW p \in Procs, Close(p) PROVE FoundInv'
  <2>1. CASE CloseLock(p)
    BY <2>1 DEF CloseLock
  <2>2. CASE NilClose(p)
    BY <2>2 DEF NilClose
  <2>3. CASE CloseUnregister(p)
    BY <2>3 DEF CloseUnregister
  <2>4. CASE CloseOffline(p)
    BY <2>4 DEF CloseOffline
  <2>5. CASE CloseChannels(p)
    BY <2>5 DEF CloseChannels
  <2>6. CASE CloseUnlock(p)
    BY <2>6 DEF CloseUnlock
  <2>7. CASE CloseConn(p)
    BY <2>7 DEF CloseConn
  <2>. QED
    BY <1>8, <2>1, <2>2, <2>3, <2>4, <2>5, <2>6, <2>7 DEF Close
<1>9. ASSUME NEW c \in Sessions, RegInsert(c) PROVE FoundInv'
  BY <1>9 DEF RegInsert
<1>10. ASSUME NEW c \in Sessions, RegGrant(c) PROVE FoundInv'
  BY <1>10 DEF RegGrant
<1>11. ASSUME NEW c \in Sessions, RegPut(c) PROVE FoundInv'
  BY <1>11 DEF RegPut
<1>12. ASSUME NEW c \in Sessions, RegRevoke(c) PROVE FoundInv'
  BY <1>12 DEF RegRevoke
<1>13. ASSUME NEW c \in Sessions, RegTick(c) \/ RevokeFails(c) PROVE FoundInv'
  BY <1>13 DEF RegTick, RevokeFails
<1>14. ASSUME NEW v \in Servers, RunRemove(v) PROVE FoundInv'
  BY <1>14 DEF RunRemove
<1>. QED
  BY <1>1, <1>2, <1>3, <1>4, <1>5, <1>6, <1>7, <1>8, <1>9, <1>10, <1>11, <1>12,
     <1>13, <1>14 DEF ServeStep, PumpStep, RegistrarStep

\* A registrar receives from ToOffline once, and from the one that goes on.
LEMMA ToldStep ==
  TypeOK /\ StartInv /\ HomeInv /\ ToldInv /\ [Next]_vars => ToldInv'
<1>. SUFFICES ASSUME TypeOK, StartInv, HomeInv, ToldInv, [Next]_vars PROVE ToldInv'
  OBVIOUS
<1>. USE SessionsAssumption, ProcNames
     DEF TypeOK, hubVars, etcdVars, Goto, ToldInv, Told, Leaving, Target
<1>1. \/ UNCHANGED <<pc, victim, reg>>
      \/ \E s \in Sessions : Upgrade(s) \/ PumpStuck(s) \/ ServeStep(s) \/ PumpStep(s)
      \/ \E c \in Sessions : RegistrarStep(c) \/ RegTick(c) \/ RevokeFails(c)
  BY DEF Next, vars, PumpPanic, MatchPut, WritePumpExit, PeerGone, RunRemove, MapRace,
         SetLeaseFails, LeaseExpire
\* A step that changes neither who has been told nor who is leaving.
<1>a. ASSUME \A c \in Sessions, q \in Procs : Told(q, c)' <=> Told(q, c),
             \A c \in Sessions : Leaving(c)' <=> Leaving(c)
      PROVE  ToldInv'
  BY <1>a
<1>2. CASE UNCHANGED <<pc, victim, reg>>
  BY <1>2
<1>3. ASSUME NEW s \in Sessions, Upgrade(s) PROVE ToldInv'
  BY <1>3, <1>a DEF Upgrade
<1>4. ASSUME NEW s \in Sessions, Lookup(s) PROVE ToldInv'
  BY <1>4, <1>a DEF Lookup, StartInv
<1>5. ASSUME NEW s \in Sessions, Fetch(s) PROVE ToldInv'
  BY <1>5, <1>a DEF Fetch
<1>6. ASSUME NEW s \in Sessions, Register(s) PROVE ToldInv'
  <2>1. /\ pc[Serve(s)] = "register" /\ pc[Pump(s)] = "idle" /\ reg[s] = "none"
        /\ pc' = [pc EXCEPT ![Serve(s)] = "done", ![Pump(s)] = "reading"]
        /\ reg' = [reg EXCEPT ![s] = "insert"] /\ victim' = victim
    BY <1>6 DEF Register, StartInv
  <2>2. \A c \in Sessions, q \in Procs : Told(q, c)' <=> Told(q, c)
    BY <2>1
  <2>3. \A c \in Sessions : Leaving(c)' <=> Leaving(c)
    BY <2>1
  <2>. QED
    BY <2>2, <2>3, <1>a
<1>7. ASSUME NEW s \in Sessions, PumpError(s) \/ PumpStuck(s) \/ StuckPanics(s)
      PROVE  ToldInv'
  BY <1>7, <1>a DEF PumpError, PumpStuck, StuckPanics
<1>8. ASSUME NEW p \in Procs, Close(p) PROVE ToldInv'
  <2>1. CASE CloseLock(p)
    BY <2>1, <1>a DEF CloseLock
  <2>2. CASE NilClose(p)
    BY <2>2, <1>a DEF NilClose
  <2>3. CASE CloseUnregister(p)
    BY <2>3, <1>a DEF CloseUnregister
  <2>4. CASE CloseOffline(p)
    \* Before the handshake the registrar was not leaving: nobody had told it.
    <3>1. /\ Target(p) \in Sessions /\ reg[Target(p)] = "select" /\ pc[p] = "offline"
          /\ reg' = [reg EXCEPT ![Target(p)] = "revoke"]
          /\ pc' = [pc EXCEPT ![p] = "channels"] /\ victim' = victim
      BY <2>4, TargetHome DEF CloseOffline
    <3>2. \A c \in Sessions, q \in Procs :
             Told(q, c)' <=> Told(q, c) \/ (q = p /\ c = Target(p))
      BY <3>1
    <3>3. \A c \in Sessions : Leaving(c)' <=> Leaving(c) \/ c = Target(p)
      BY <3>1
    <3>4. PICK c0 \in Sessions : c0 = Target(p)
      BY <3>1
    <3>5. ~Leaving(c0)
      BY <3>1, <3>4
    <3>. HIDE DEF Told, Leaving, Target
    <3>6. \A q \in Procs : ~Told(q, c0)
      BY <3>5
    <3>7. /\ \A c \in Sessions, q \in Procs : Told(q, c)' <=> Told(q, c) \/ (q = p /\ c = c0)
          /\ \A c \in Sessions : Leaving(c)' <=> Leaving(c) \/ c = c0
      BY <3>2, <3>3, <3>4
    <3>. QED
      BY <3>6, <3>7
  <2>5. CASE CloseChannels(p)
    BY <2>5, <1>a DEF CloseChannels
  <2>6. CASE CloseUnlock(p)
    BY <2>6, <1>a DEF CloseUnlock
  <2>7. CASE CloseConn(p)
    BY <2>7, <1>a DEF CloseConn
  <2>. QED
    BY <1>8, <2>1, <2>2, <2>3, <2>4, <2>5, <2>6, <2>7 DEF Close
<1>9. ASSUME NEW c \in Sessions, RegInsert(c) PROVE ToldInv'
  BY <1>9, <1>a DEF RegInsert
<1>10. ASSUME NEW c \in Sessions, RegGrant(c) PROVE ToldInv'
  BY <1>10, <1>a DEF RegGrant
<1>11. ASSUME NEW c \in Sessions, RegPut(c) PROVE ToldInv'
  BY <1>11, <1>a DEF RegPut
<1>12. ASSUME NEW c \in Sessions, RegRevoke(c) PROVE ToldInv'
  BY <1>12, <1>a DEF RegRevoke
<1>13. ASSUME NEW c \in Sessions, RegTick(c) PROVE ToldInv'
  BY <1>13, <1>a DEF RegTick
<1>14. ASSUME NEW c \in Sessions, RevokeFails(c) PROVE ToldInv'
  BY <1>14, <1>a DEF RevokeFails
<1>. QED
  BY <1>1, <1>2, <1>3, <1>4, <1>5, <1>6, <1>7, <1>8, <1>9, <1>10, <1>11, <1>12,
     <1>13, <1>14 DEF ServeStep, PumpStep, RegistrarStep

\* Whom a login closes is registered, and a registrar that leaves was told so
\* by one process, which is past its handshake.
THEOREM OneToldIt == Spec => [](IInv /\ FoundInv /\ ToldInv)
<1>1. Init => FoundInv
  BY ProcNames, SessionsAssumption DEF Init, FoundInv
<1>2. Init => ToldInv
  BY ProcNames, SessionsAssumption DEF Init, ToldInv, Told, Leaving
<1>3. IInv /\ FoundInv /\ [Next]_vars => FoundInv'
  BY FoundStep DEF IInv
<1>4. IInv /\ ToldInv /\ [Next]_vars => ToldInv'
  BY ToldStep DEF IInv
<1>. QED
  BY Inductive, <1>1, <1>2, <1>3, <1>4, PTL DEF Spec

\* A target of a Close that is at the handshake has a registrar, or had one.
LEMMA TargetRegistered ==
  ASSUME IInv, FoundInv, NEW p \in Procs, pc[p] = "offline"
  PROVE  /\ Target(p) \in Sessions /\ reg[Target(p)] # "none"
         /\ Receives(Target(p)) \/ Leaving(Target(p))
<1>. USE SessionsAssumption, ProcNames
<1>1. Target(p) \in Sessions
  BY TargetHome DEF IInv
<1>2. CASE p[2] = "pump"
  \* The reader runs only after the login has registered the session.
  BY <1>1, <1>2 DEF IInv, TypeOK, StartInv, FoundInv, Target, Receives, Leaving, RegPCs
<1>3. CASE p[2] = "serve"
  BY <1>1, <1>3 DEF IInv, TypeOK, FoundInv, Target, Receives, Leaving, RegPCs
<1>. QED
  BY <1>2, <1>3

\* A Close that waits in vain for a registrar is the second Close of that
\* session: the first one is past its handshake.
THEOREM VainWait == Spec => []VainWaitIsSecond
<1>1. ASSUME IInv, FoundInv, ToldInv PROVE VainWaitIsSecond
  <2>. SUFFICES ASSUME NEW p \in Procs, pc[p] = "offline", ~Receives(Target(p))
                PROVE  \E q \in Procs \ {p} : Told(q, Target(p))
    BY DEF VainWaitIsSecond
  <2>1. Target(p) \in Sessions /\ Leaving(Target(p))
    BY <1>1, TargetRegistered
  <2>2. PICK q \in Procs : Told(q, Target(p))
    BY <1>1, <2>1 DEF ToldInv
  <2>. QED
    BY <2>2 DEF Told
<1>. QED
  BY OneToldIt, <1>1, PTL

\* A Close at the handshake with a registrar that leaves stays there.
LEMMA VainStep ==
  ASSUME IInv, IInv', FoundInv, [Next]_vars,
         NEW p \in Procs, pc[p] = "offline", ~Receives(Target(p))
  PROVE  /\ pc'[p] = "offline" /\ ~Receives(Target(p))'
         /\ mutex'[Host(p)] = p
<1>. DEFINE c == Target(p)
<1>. USE SessionsAssumption, ProcNames
<1>1. c \in Sessions /\ Leaving(c)
  BY TargetRegistered
<1>2. reg'[c] = reg[c] \/ reg'[c] \in {"done", "orphaned"}
  <2>1. \/ UNCHANGED reg
        \/ \E s \in Sessions : Register(s)
        \/ \E q \in Procs : CloseOffline(q)
        \/ \E d \in Sessions : RegistrarStep(d) \/ RegTick(d) \/ RevokeFails(d)
    BY DEF Next, vars, ServeStep, PumpStep, Close, Upgrade, Lookup, Fetch, CloseLock,
           NilClose, CloseUnregister, CloseChannels, CloseUnlock, CloseConn,
           PumpError, PumpStuck, StuckPanics, PumpPanic, MatchPut, WritePumpExit, PeerGone,
         RunRemove, MapRace,
           SetLeaseFails, LeaseExpire
  <2>. USE <1>1 DEF IInv, TypeOK, Leaving
  <2>2. ASSUME NEW s \in Sessions, Register(s) PROVE reg'[c] = reg[c]
    BY <2>2 DEF Register, StartInv
  <2>3. ASSUME NEW q \in Procs, CloseOffline(q) PROVE reg'[c] = reg[c]
    BY <2>3 DEF CloseOffline
  <2>4. ASSUME NEW d \in Sessions, RegInsert(d) \/ RegGrant(d) \/ RegPut(d) \/ RegTick(d)
        PROVE  reg'[c] = reg[c]
    BY <2>4 DEF RegInsert, RegGrant, RegPut, RegTick
  <2>5. ASSUME NEW d \in Sessions, RegRevoke(d) \/ RevokeFails(d)
        PROVE  reg'[c] = reg[c] \/ reg'[c] \in {"done", "orphaned"}
    BY <2>5 DEF RegRevoke, RevokeFails
  <2>. QED
    BY <2>1, <2>2, <2>3, <2>4, <2>5 DEF RegistrarStep
<1>3. pc'[p] = "offline" /\ Target(p)' = Target(p)
  <2>1. \/ UNCHANGED <<pc, victim>>
        \/ \E s \in Sessions : Upgrade(s) \/ PumpStuck(s) \/ ServeStep(s) \/ PumpStep(s)
    BY DEF Next, vars, PumpPanic, MatchPut, WritePumpExit, PeerGone, RunRemove, MapRace,
           RegistrarStep, RegInsert, RegGrant, RegPut, RegRevoke, RegTick, RevokeFails,
           SetLeaseFails, LeaseExpire, etcdVars
  <2>. USE <1>1 DEF IInv, TypeOK, Target, Goto
  <2>2. CASE UNCHANGED <<pc, victim>>
    BY <2>2
  <2>3. ASSUME NEW s \in Sessions,
               \/ Upgrade(s) \/ Lookup(s) \/ Fetch(s)
               \/ PumpError(s) \/ PumpStuck(s) \/ StuckPanics(s)
        PROVE  pc'[p] = "offline" /\ Target(p)' = Target(p)
    BY <2>3 DEF Upgrade, Lookup, Fetch, PumpError, PumpStuck, StuckPanics
  <2>4. ASSUME NEW s \in Sessions, Register(s)
        PROVE  pc'[p] = "offline" /\ Target(p)' = Target(p)
    BY <2>4 DEF Register, StartInv
  <2>5. ASSUME NEW q \in Procs, Close(q)
        PROVE  pc'[p] = "offline" /\ Target(p)' = Target(p)
    <3>1. q # p
      <4>1. ~CloseOffline(p)
        BY DEF CloseOffline, Receives
      <4>. QED
        BY <2>5, <4>1 DEF Close, CloseLock, NilClose, CloseUnregister, CloseChannels,
                          CloseUnlock, CloseConn
    <3>. QED
      BY <2>5, <3>1 DEF Close, CloseLock, NilClose, CloseUnregister, CloseOffline,
                        CloseChannels, CloseUnlock, CloseConn
  <2>. QED
    BY <2>1, <2>2, <2>3, <2>4, <2>5 DEF ServeStep, PumpStep
<1>5. mutex'[Host(p)] = p
  BY <1>3 DEF IInv, MutexInv, Locked, Host
<1>. QED
  BY <1>1, <1>2, <1>3, <1>5 DEF Receives, Leaving

\* Nothing in the server ends such a wait, and the mutex every Close of the
\* server needs stays with it.
THEOREM VainWaitLasts == Spec => VainWaitIsForEver
<1>1. IInv /\ IInv' /\ FoundInv /\ [Next]_vars
        => [\A p \in Procs : pc[p] = "offline" /\ ~Receives(Target(p)) =>
              /\ pc'[p] = "offline" /\ ~Receives(Target(p))'
              /\ mutex'[Host(p)] = p]_vars
  BY VainStep
<1>. QED
  BY OneToldIt, <1>1, PTL DEF Spec, VainWaitIsForEver

-----------------------------------------------------------------------------
(* Sessions that have their id at their server for themselves.              *)

\* No other session logs in at the server of c with the id of c.
AloneHere(c) ==
    \A d \in Sessions : IdOf[d] = IdOf[c] /\ ServerOf[d] = ServerOf[c] => d = c

\* Control points of a reader whose Unregister Hub.Run has taken.
Unregistered == {"offline", "channels", "unlock", "conn", "done"}

\* The login of such a session finds nobody; its entry is set to nil only for
\* its own reader, and until then it is in the map once the registrar put it there.
AloneInv ==
    /\ \A s \in Sessions : AloneHere(s) =>
          /\ pc[Serve(s)] \in {"idle", "lookup", "register", "done"}
          /\ victim[s] = Nil
    /\ \A v \in Servers : run[v] # Nil => ServerOf[run[v]] = v
    /\ \A c \in Sessions :
          AloneHere(c) /\ run[ServerOf[c]] = c => pc[Pump(c)] \in Unregistered
    /\ \A c \in Sessions :
          AloneHere(c) /\ reg[c] \notin {"none", "insert"} =>
             clients[ServerOf[c]][IdOf[c]] = c \/ pc[Pump(c)] \in Unregistered

\* Who holds the mutex of a server is in the critical section, or panicked there.
HolderInv ==
    \A v \in Servers : mutex[v] # Nil =>
        /\ mutex[v] \in Procs
        /\ Host(mutex[v]) = v
        /\ \/ pc[mutex[v]] \in Locked
           \/ pc[mutex[v]] = "panicked" /\ mutex[v][2] = "serve"

\* The Close of such a session meets its registrar.
AloneIsAnswered ==
    \A c \in Sessions : AloneHere(c) /\ pc[Pump(c)] = "offline" => Receives(c)

\* The map names such a session until its reader has ended it.
AloneIsInHub ==
    \A c \in Sessions :
        AloneHere(c) /\ reg[c] = "select" /\ pc[Pump(c)] \in {"reading", "stuck", "lock", "unregister"}
            => clients[ServerOf[c]][IdOf[c]] = c

\* The mutex is held by a reader that can go on: its client is there, and where
\* it waits for the registrar the registrar will come.
HolderGoesOn ==
    \A v \in Servers : mutex[v] # Nil =>
        \E c \in Sessions :
            /\ ServerOf[c] = v /\ mutex[v] = Pump(c)
            /\ pc[Pump(c)] \in Locked
            /\ pc[Pump(c)] = "offline" => Receives(c)

\* A login that has its id at its server for itself finds nobody there.
LEMMA AloneHereStep ==
  TypeOK /\ StartInv /\ HomeInv /\ FoundInv /\ AloneInv /\ [Next]_vars => AloneInv'
<1>. SUFFICES ASSUME TypeOK, StartInv, HomeInv, FoundInv, AloneInv, [Next]_vars
              PROVE  AloneInv'
  OBVIOUS
<1>. USE SessionsAssumption, ProcNames
     DEF TypeOK, hubVars, etcdVars, Goto, AloneInv, AloneHere, Unregistered, Target, Host
<1>1. \/ UNCHANGED <<pc, victim, reg, clients, run>>
      \/ \E s \in Sessions : Upgrade(s) \/ PumpStuck(s) \/ ServeStep(s) \/ PumpStep(s)
      \/ \E c \in Sessions : RegistrarStep(c) \/ RegTick(c) \/ RevokeFails(c)
      \/ \E v \in Servers : RunRemove(v)
  BY DEF Next, vars, PumpPanic, MatchPut, WritePumpExit, PeerGone, MapRace, SetLeaseFails, LeaseExpire
<1>2. CASE UNCHANGED <<pc, victim, reg, clients, run>>
  BY <1>2
<1>3. ASSUME NEW s \in Sessions, Upgrade(s) PROVE AloneInv'
  BY <1>3 DEF Upgrade
<1>4. ASSUME NEW s \in Sessions, Lookup(s) PROVE AloneInv'
  \* An entry of this id and server would be another session.
  <2>1. AloneHere(s) => clients[ServerOf[s]][IdOf[s]] = Nil
    BY <1>4 DEF Lookup, StartInv, HomeInv, FoundInv
  <2>. QED
    BY <1>4, <2>1 DEF Lookup
<1>5. ASSUME NEW s \in Sessions, Fetch(s) PROVE AloneInv'
  BY <1>5 DEF Fetch
<1>6. ASSUME NEW s \in Sessions, Register(s) PROVE AloneInv'
  <2>1. /\ pc[Serve(s)] = "register" /\ pc[Pump(s)] = "idle" /\ run[ServerOf[s]] = Nil
        /\ pc' = [pc EXCEPT ![Serve(s)] = "done", ![Pump(s)] = "reading"]
        /\ reg' = [reg EXCEPT ![s] = "insert"]
        /\ UNCHANGED <<victim, clients, run>>
    BY <1>6 DEF Register, StartInv
  <2>2. \A t \in Sessions : pc'[Pump(t)] = IF t = s THEN "reading" ELSE pc[Pump(t)]
    BY <2>1
  <2>3. \A t \in Sessions : pc'[Serve(t)] = IF t = s THEN "done" ELSE pc[Serve(t)]
    BY <2>1
  <2>. QED
    BY <2>1, <2>2, <2>3
<1>7. ASSUME NEW s \in Sessions, PumpError(s) \/ PumpStuck(s) \/ StuckPanics(s)
      PROVE  AloneInv'
  <2>1. CASE PumpError(s)
    BY <2>1 DEF PumpError
  <2>2. CASE PumpStuck(s)
    BY <2>2 DEF PumpStuck
  <2>3. CASE StuckPanics(s)
    BY <2>3 DEF StuckPanics
  <2>. QED
    BY <1>7, <2>1, <2>2, <2>3
<1>8. ASSUME NEW p \in Procs, Close(p) PROVE AloneInv'
  <2>1. CASE CloseLock(p)
    BY <2>1 DEF CloseLock
  <2>2. CASE NilClose(p)
    BY <2>2 DEF NilClose
  <2>3. CASE CloseUnregister(p)
    \* A login closes a session of its own id and server only if it is not alone.
    <3>1. PICK c0 \in Sessions : c0 = Target(p)
      BY <2>3 DEF CloseUnregister
    <3>2. ServerOf[c0] = Host(p)
      BY <3>1 DEF HomeInv
    <3>3. AloneHere(c0) => p = Pump(c0)
      <4>1. CASE p[2] = "pump"
        BY <3>1, <4>1
      <4>2. CASE p[2] = "serve"
        <5>1. p[1] \in Sessions /\ victim[p[1]] = c0
          BY <3>1, <4>2
        <5>2. IdOf[p[1]] = IdOf[c0] /\ ServerOf[p[1]] = ServerOf[c0] /\ p[1] # c0
          BY <5>1 DEF FoundInv, HomeInv
        <5>. QED
          BY <5>1, <5>2
      <4>. QED
        BY <4>1, <4>2
    <3>4. /\ run' = [run EXCEPT ![ServerOf[c0]] = c0] /\ pc[p] = "unregister"
          /\ pc' = [pc EXCEPT ![p] = "offline"]
          /\ UNCHANGED <<victim, clients, reg>>
      BY <2>3, <3>1, <3>2 DEF CloseUnregister
    <3>. QED
      BY <3>2, <3>3, <3>4
  <2>4. CASE CloseOffline(p)
    BY <2>4 DEF CloseOffline
  <2>5. CASE CloseChannels(p)
    BY <2>5 DEF CloseChannels
  <2>6. CASE CloseUnlock(p)
    BY <2>6 DEF CloseUnlock
  <2>7. CASE CloseConn(p)
    BY <2>7 DEF CloseConn
  <2>. QED
    BY <1>8, <2>1, <2>2, <2>3, <2>4, <2>5, <2>6, <2>7 DEF Close
<1>9. ASSUME NEW c \in Sessions, RegInsert(c) PROVE AloneInv'
  BY <1>9 DEF RegInsert
<1>10. ASSUME NEW c \in Sessions, RegGrant(c) PROVE AloneInv'
  BY <1>10 DEF RegGrant
<1>11. ASSUME NEW c \in Sessions, RegPut(c) PROVE AloneInv'
  BY <1>11 DEF RegPut
<1>12. ASSUME NEW c \in Sessions, RegRevoke(c) PROVE AloneInv'
  BY <1>12 DEF RegRevoke
<1>13. ASSUME NEW c \in Sessions, RegTick(c) \/ RevokeFails(c) PROVE AloneInv'
  <2>1. CASE RegTick(c)
    BY <2>1 DEF RegTick
  <2>2. CASE RevokeFails(c)
    BY <2>2 DEF RevokeFails
  <2>. QED
    BY <1>13, <2>1, <2>2
<1>14. ASSUME NEW v \in Servers, RunRemove(v) PROVE AloneInv'
  \* The entry that goes is the one of the session being removed.
  <2>1. ASSUME NEW c \in Sessions, AloneHere(c), ServerOf[c] = v, IdOf[run[v]] = IdOf[c]
        PROVE  pc[Pump(c)] \in Unregistered
    BY <1>14, <2>1 DEF RunRemove
  <2>. QED
    BY <1>14, <2>1 DEF RunRemove
<1>. QED
  BY <1>1, <1>2, <1>3, <1>4, <1>5, <1>6, <1>7, <1>8, <1>9, <1>10, <1>11, <1>12,
     <1>13, <1>14 DEF ServeStep, PumpStep, RegistrarStep

\* The mutex passes only through CloseLock and CloseUnlock.
LEMMA HolderStep == TypeOK /\ StartInv /\ HolderInv /\ [Next]_vars => HolderInv'
<1>. SUFFICES ASSUME TypeOK, StartInv, HolderInv, [Next]_vars PROVE HolderInv'
  OBVIOUS
<1>. USE SessionsAssumption, ProcNames
     DEF TypeOK, hubVars, etcdVars, Goto, HolderInv, Locked, Host
<1>1. \/ UNCHANGED <<pc, mutex>>
      \/ \E s \in Sessions : Upgrade(s) \/ PumpStuck(s) \/ ServeStep(s) \/ PumpStep(s)
  BY DEF Next, vars, RegistrarStep, PumpPanic, MatchPut, WritePumpExit, PeerGone, MapRace, RunRemove,
         RegInsert, RegGrant, RegPut, RegRevoke, RegTick, RevokeFails, SetLeaseFails,
         LeaseExpire
<1>2. CASE UNCHANGED <<pc, mutex>>
  BY <1>2
<1>3. ASSUME NEW s \in Sessions, Upgrade(s) PROVE HolderInv'
  BY <1>3 DEF Upgrade
<1>4. ASSUME NEW s \in Sessions, Lookup(s) PROVE HolderInv'
  BY <1>4 DEF Lookup
<1>5. ASSUME NEW s \in Sessions, Fetch(s) PROVE HolderInv'
  BY <1>5 DEF Fetch
<1>6. ASSUME NEW s \in Sessions, Register(s) PROVE HolderInv'
  BY <1>6 DEF Register, StartInv
<1>7. ASSUME NEW s \in Sessions, PumpError(s) \/ PumpStuck(s) \/ StuckPanics(s)
      PROVE  HolderInv'
  BY <1>7 DEF PumpError, PumpStuck, StuckPanics
<1>8. ASSUME NEW p \in Procs, Close(p) PROVE HolderInv'
  <2>1. CASE CloseLock(p)
    BY <2>1 DEF CloseLock
  <2>2. CASE NilClose(p)
    \* Only a login can have a nil client to close.
    BY <2>2 DEF NilClose, Target
  <2>3. CASE CloseUnregister(p)
    BY <2>3 DEF CloseUnregister
  <2>4. CASE CloseOffline(p)
    BY <2>4 DEF CloseOffline
  <2>5. CASE CloseChannels(p)
    BY <2>5 DEF CloseChannels
  <2>6. CASE CloseUnlock(p)
    BY <2>6 DEF CloseUnlock
  <2>7. CASE CloseConn(p)
    BY <2>7 DEF CloseConn
  <2>. QED
    BY <1>8, <2>1, <2>2, <2>3, <2>4, <2>5, <2>6, <2>7 DEF Close
<1>. QED
  BY <1>1, <1>2, <1>3, <1>4, <1>5, <1>6, <1>7, <1>8 DEF ServeStep, PumpStep

\* All parts of the invariant together, in every reachable state.
LEMMA AloneHolds == Spec => [](IInv /\ FoundInv /\ ToldInv /\ AloneInv /\ HolderInv)
<1>1. Init => AloneInv /\ HolderInv
  BY ProcNames, SessionsAssumption DEF Init, AloneInv, HolderInv
<1>2. IInv /\ FoundInv /\ AloneInv /\ [Next]_vars => AloneInv'
  BY AloneHereStep DEF IInv
<1>3. IInv /\ HolderInv /\ [Next]_vars => HolderInv'
  BY HolderStep DEF IInv
<1>. QED
  BY OneToldIt, <1>1, <1>2, <1>3, PTL DEF Spec

\* Another Close of the session would be one of a login with its id.
LEMMA AnsweredWhenAlone ==
  ASSUME IInv, FoundInv, ToldInv, AloneInv PROVE AloneIsAnswered
<1>. SUFFICES ASSUME NEW c \in Sessions, AloneHere(c), pc[Pump(c)] = "offline", ~Receives(c)
              PROVE  FALSE
  BY DEF AloneIsAnswered
<1>. USE SessionsAssumption, ProcNames
<1>1. Target(Pump(c)) = c
  BY DEF Target
<1>2. Leaving(c)
  BY <1>1, TargetRegistered
<1>3. PICK q \in Procs : Told(q, c)
  BY <1>2 DEF ToldInv
<1>4. q # Pump(c) /\ Target(q) = c
  BY <1>3 DEF Told
<1>5. q[2] = "serve" /\ victim[q[1]] = c /\ q[1] \in Sessions
  BY <1>4 DEF Target
\* So a login with this id at this server closed it: it is not alone.
<1>6. IdOf[q[1]] = IdOf[c] /\ ServerOf[q[1]] = ServerOf[c] /\ q[1] # c
  BY <1>5 DEF FoundInv, IInv, HomeInv
<1>. QED
  BY <1>5, <1>6 DEF AloneHere

\* Whoever holds the mutex of a server runs Close there, or is a login that
\* panicked on a nil client: with VainWait these are the two ways to keep it.
THEOREM MutexHolder == Spec => []HolderInv
<1>. QED
  BY AloneHolds, PTL

\* Whatever the other ids do, the Close of a session that has its id at its
\* server for itself waits for its registrar only as long as that is busy.
THEOREM AloneAnswered == Spec => []AloneIsAnswered
<1>. QED
  BY AloneHolds, AnsweredWhenAlone, PTL

\* And the map names that session until its own reader has left it.
THEOREM AloneInHub == Spec => []AloneIsInHub
<1>1. AloneInv => AloneIsInHub
  BY DEF AloneInv, AloneIsInHub, Unregistered
<1>. QED
  BY AloneHolds, <1>1, PTL

\* hub.go:22 is true of every server no id logs in at twice: its registered
\* clients are in the map.  (hub_lost_entry is the case of an id used twice.)
THEOREM RegisteredInHub ==
    ASSUME \A c \in Sessions : AloneHere(c)
    PROVE  Spec => []RegisteredIsInHub
<1>1. IInv /\ AloneInv => RegisteredIsInHub
  BY SessionsAssumption DEF AloneInv, RegisteredIsInHub, Unregistered
<1>. QED
  BY AloneHolds, <1>1, PTL

\* With one session per id and server nobody keeps the mutex for good: no Close
\* panics under it, and who holds it waits only for a registrar that will come.
THEOREM NobodyKeepsMutex ==
    ASSUME \A c \in Sessions : AloneHere(c)
    PROVE  Spec => []HolderGoesOn
<1>1. ASSUME IInv, FoundInv, ToldInv, AloneInv, HolderInv PROVE HolderGoesOn
  <2>. SUFFICES ASSUME NEW v \in Servers, mutex[v] # Nil
                PROVE  \E c \in Sessions : /\ ServerOf[c] = v /\ mutex[v] = Pump(c)
                                           /\ pc[Pump(c)] \in Locked
                                           /\ pc[Pump(c)] = "offline" => Receives(c)
    BY DEF HolderGoesOn
  <2>. USE ProcNames
  <2>1. PICK p \in Procs : p = mutex[v]
    BY <1>1 DEF HolderInv
  <2>2. Host(p) = v /\ pc[p] \in Locked \cup {"panicked"}
    BY <1>1, <2>1 DEF HolderInv
  <2>3. p[2] = "pump" /\ pc[p] \in Locked
    <3>1. p[2] # "serve"
      BY <1>1, <2>2 DEF AloneInv, Locked
    <3>. QED
      BY <1>1, <2>1, <2>2, <3>1 DEF HolderInv
  <2>. QED
    BY <1>1, <2>1, <2>2, <2>3, AnsweredWhenAlone DEF Host, AloneIsAnswered
<1>. QED
  BY AloneHolds, <1>1, PTL

=============================================================================
