------------------------- MODULE MessageFlowProofs -------------------------
(***************************************************************************)
(* Theorems about MessageFlow, for any servers, sessions, ids, messages    *)
(* and bounds: its types, and that a server forgets no message it has.     *)
(***************************************************************************)
EXTENDS MessageFlow, SequenceTheorems, FiniteSetTheorems, TLAPS

(***************************************************************************)
(* The inductive invariant.                                                *)
(***************************************************************************)

\* The copies and goroutines there are have a target.
FullCopies == {c \in Copies : c.targets # <<>>}
FullJobs   == {j \in Jobs : j.left # <<>>}

\* Processes, sessions, routes and channels.
WorldInv ==
    /\ up \in [Servers -> BOOLEAN]
    /\ entry \in [Servers -> [Ids -> Sessions \cup {Nil, Absent}]]
    /\ life \in [Sessions -> {"new", "early", "live", "leaving", "closed"}]
    /\ route \in [Ids -> Sessions \cup {Nil, Nowhere}]
    /\ matching \in [Servers -> BOOLEAN]
    /\ channels \in [Servers -> 0 .. ChannelMax]
    /\ faults \in 0 .. MaxFaults

\* A message that is being sent. A target is looked up while there is one.
SendInv ==
    /\ stage \in [Msgs -> {"new", "handler", "lookup", "publish", "sent", "dropped"}]
    /\ looked \in [Msgs -> Nat]
    /\ group \in [Msgs -> [Queues -> Seq(Ids)]]
    /\ \A m \in Msgs : IF stage[m] = "lookup" THEN looked[m] < Len(TargetsOf[m])
                                              ELSE looked[m] = 0

\* The copies of messages. A consumer holds one from its delivery to the
\* hand-over, and a session that never logged in has no consumer.
CopyInv ==
    /\ queue \in [Queues -> Seq(FullCopies)]
    /\ consumer \in [Sessions -> {"off", "wait", "got", "acked", "lost"}]
    /\ held \in [Sessions -> FullCopies \cup {NoCopy}]
    /\ jobs \subseteq FullJobs
    /\ \A s \in Sessions : IF consumer[s] \in {"got", "acked", "lost"}
                           THEN held[s] \in FullCopies ELSE held[s] = NoCopy
    /\ \A s \in Sessions : life[s] = "new" => consumer[s] = "off"

\* What was given, what stands in the clients' channels, and which
\* acknowledgements were lost.
CountInv ==
    /\ given \in [Msgs -> [Ids -> Nat]]
    /\ outbox \in [Sessions -> 0 .. BufSize]
    /\ writing \in [Sessions -> BOOLEAN]
    /\ lostAcks \in [Msgs -> Nat]

IInv == WorldInv /\ SendInv /\ CopyInv /\ CountInv

\* The invariant contains the types.
LEMMA IInvTypes == IInv => TypeOK
<1>. SUFFICES ASSUME IInv PROVE TypeOK
  OBVIOUS
<1>1. queue \in [Queues -> Seq(Copies)]
  <2>0. FullCopies \subseteq Copies
    BY DEF FullCopies
  <2>1. \A v \in Queues : queue[v] \in Seq(Copies)
    BY <2>0, SeqMonotonic DEF IInv, CopyInv
  <2>. QED
    BY <2>1 DEF IInv, CopyInv
<1>2. held \in [Sessions -> Copies \cup {NoCopy}] /\ jobs \subseteq Jobs
  BY DEF IInv, CopyInv, FullCopies, FullJobs
<1>. QED
  BY <1>1, <1>2 DEF IInv, WorldInv, SendInv, CopyInv, CountInv, TypeOK

\* The invariant holds at first.
LEMMA InitIInv == Init => IInv
<1>. SUFFICES ASSUME Init PROVE IInv
  OBVIOUS
<1>1. WorldInv
  BY FlowAssumption DEF Init, WorldInv
<1>2. SendInv
  <2>1. NoGroup \in [Queues -> Seq(Ids)]
    BY EmptySeq DEF NoGroup
  <2>. QED
    BY <2>1 DEF Init, SendInv
<1>3. CopyInv
  <2>1. <<>> \in Seq(FullCopies)
    BY EmptySeq
  <2>. QED
    BY <2>1 DEF Init, CopyInv
<1>4. CountInv
  BY FlowAssumption DEF Init, CountInv
<1>. QED
  BY <1>1, <1>2, <1>3, <1>4 DEF IInv

-----------------------------------------------------------------------------
(* The end of a server: what was not acknowledged is queued again. *)

\* Requeued copies form a sequence of copies with a target.
LEMMA RequeuedCopies ==
    ASSUME CopyInv, NEW v \in Servers, NEW q \in Requeues(v)
    PROVE  [i \in DOMAIN q |-> held[q[i]]] \in Seq(FullCopies)
<1>1. Cardinality(Unacked(v)) \in Nat
  <2>1. Unacked(v) \in SUBSET Sessions /\ IsFiniteSet(Sessions)
    BY FlowAssumption DEF Unacked, At
  <2>2. IsFiniteSet(Unacked(v))
    BY <2>1, FS_Subset
  <2>. QED
    BY <2>2, FS_CardinalityType
<1>2. DOMAIN q = 1 .. Cardinality(Unacked(v)) /\ \A i \in DOMAIN q : q[i] \in Unacked(v)
  BY DEF Requeues
<1>3. \A i \in DOMAIN q : held[q[i]] \in FullCopies
  BY <1>2 DEF Unacked, At, CopyInv
<1> DEFINE n == Cardinality(Unacked(v))
           e(i) == held[q[i]]
<1>4. n \in Nat /\ \A i \in 1 .. n : e(i) \in FullCopies
  BY <1>1, <1>2, <1>3
<1>. HIDE DEF n, e
<1>5. [i \in 1 .. n |-> e(i)] \in Seq(FullCopies)
  BY <1>4, IsASeq
<1>. QED
  BY <1>2, <1>5 DEF n, e

\* The end of a server keeps the invariant.
LEMMA DiesKeeps ==
    ASSUME IInv, NEW v \in Servers, Dies(v), faults' \in 0 .. MaxFaults
    PROVE  IInv'
<1>1. WorldInv'
  <2>1. /\ up' = [up EXCEPT ![v] = FALSE]
        /\ entry' = [entry EXCEPT ![v] = [i \in Ids |-> Absent]]
        /\ life' = [s \in Sessions |-> IF ServerOf[s] = v /\ life[s] # "new"
                                       THEN "closed" ELSE life[s]]
        /\ matching' = [matching EXCEPT ![v] = FALSE]
        /\ channels' = [channels EXCEPT ![v] = 0]
        /\ route' = route
    BY DEF Dies
  <2>2. WorldInv /\ ChannelMax \in Nat
    BY FlowAssumption DEF IInv
  <2>3. up' \in [Servers -> BOOLEAN] /\ matching' \in [Servers -> BOOLEAN]
    BY <2>1, <2>2 DEF WorldInv
  <2>4. entry' \in [Servers -> [Ids -> Sessions \cup {Nil, Absent}]]
    <3>1. [i \in Ids |-> Absent] \in [Ids -> Sessions \cup {Nil, Absent}]
      OBVIOUS
    <3>. QED
      BY <2>1, <2>2, <3>1 DEF WorldInv
  <2>5. life' \in [Sessions -> {"new", "early", "live", "leaving", "closed"}]
    BY <2>1, <2>2 DEF WorldInv
  <2>6. channels' \in [Servers -> 0 .. ChannelMax]
    BY <2>1, <2>2 DEF WorldInv
  <2>. QED
    BY <2>1, <2>2, <2>3, <2>4, <2>5, <2>6 DEF WorldInv
<1>2. SendInv'
  <2>1. NoGroup \in [Queues -> Seq(Ids)]
    BY EmptySeq DEF NoGroup
  <2>. QED
    BY <2>1 DEF IInv, SendInv, Dies
<1>3. CopyInv'
  <2>1. PICK q \in Requeues(v) :
           queue' = [queue EXCEPT ![v] = [i \in DOMAIN q |-> held[q[i]]] \o @]
    BY DEF Dies
  <2> DEFINE back == [i \in DOMAIN q |-> held[q[i]]]
  <2>2. back \in Seq(FullCopies) /\ queue[v] \in Seq(FullCopies)
    BY RequeuedCopies DEF IInv, CopyInv, Queues
  <2>. HIDE DEF back
  <2>3. back \o queue[v] \in Seq(FullCopies)
    BY <2>2, ConcatProperties
  <2>4. queue' \in [Queues -> Seq(FullCopies)]
    BY <2>1, <2>3 DEF IInv, CopyInv, back
  <2>5. /\ consumer' = [s \in Sessions |-> IF ServerOf[s] = v THEN "off" ELSE consumer[s]]
        /\ held' = [s \in Sessions |-> IF ServerOf[s] = v THEN NoCopy ELSE held[s]]
        /\ life' = [s \in Sessions |-> IF ServerOf[s] = v /\ life[s] # "new"
                                       THEN "closed" ELSE life[s]]
        /\ jobs' \subseteq jobs
    BY DEF Dies
  <2>. QED
    BY <2>4, <2>5 DEF IInv, CopyInv
<1>4. CountInv'
  <2>1. /\ given' = given /\ lostAcks' = lostAcks
        /\ outbox' = [s \in Sessions |-> IF ServerOf[s] = v THEN 0 ELSE outbox[s]]
        /\ writing' = [s \in Sessions |-> writing[s] /\ ServerOf[s] # v]
    BY DEF Dies
  <2>2. CountInv /\ BufSize \in Nat
    BY FlowAssumption DEF IInv
  <2>3. outbox' \in [Sessions -> 0 .. BufSize]
    BY <2>1, <2>2 DEF CountInv
  <2>4. writing' \in [Sessions -> BOOLEAN]
    BY <2>1
  <2>. QED
    BY <2>1, <2>2, <2>3, <2>4 DEF CountInv
<1>. QED
  BY <1>1, <1>2, <1>3, <1>4 DEF IInv

-----------------------------------------------------------------------------
(* Sessions. *)

\* The step of a session in its hub.
HubStep(s) == \/ Login(s) \/ LoginRemoved(s) \/ InsertRemoved(s)
              \/ Logout(s) \/ CloseChannels(s)

\* What such a step does to the life of its session and to the entry of its id.
LEMMA HubSteps ==
    ASSUME NEW s \in Sessions, HubStep(s)
    PROVE  /\ up[ServerOf[s]]
           /\ \/ life[s] = "new" /\ life' = [life EXCEPT ![s] = "early"] /\ SetEntry(s, Nil)
              \/ life[s] = "new" /\ life' = [life EXCEPT ![s] = "live"] /\ SetEntry(s, s)
              \/ life[s] = "early" /\ life' = [life EXCEPT ![s] = "leaving"] /\ SetEntry(s, s)
              \/ life[s] = "live" /\ life' = [life EXCEPT ![s] = "leaving"] /\ SetEntry(s, Nil)
              \/ life[s] = "leaving" /\ life' = [life EXCEPT ![s] = "closed"] /\ entry' = entry
           /\ UNCHANGED <<up, route, matching, channels, stage, looked, group, queue,
                          held, jobs, given, lostAcks, faults>>
           /\ \/ /\ life[s] = "new"
                 /\ consumer' = [consumer EXCEPT ![s] = "wait"]
                 /\ writing' = [writing EXCEPT ![s] = TRUE]
                 /\ outbox' = outbox
              \/ consumer' = consumer /\ writing' = writing /\ outbox' = outbox
              \/ /\ consumer' = consumer
                 /\ writing' = [writing EXCEPT ![s] = FALSE]
                 /\ outbox' = [outbox EXCEPT ![s] = 0]
<1>. USE DEF sessionVars, sendVars, recvVars, clientVars, histVars
<1>1. CASE Login(s) \/ LoginRemoved(s)
  BY <1>1 DEF Login, LoginRemoved, Start
<1>2. CASE InsertRemoved(s) \/ Logout(s) \/ CloseChannels(s)
  BY <1>2 DEF InsertRemoved, Logout, CloseChannels
<1>. QED
  BY <1>1, <1>2 DEF HubStep

\* A step of a session, of its writer, of etcd, or the start of a server.
SessionStep ==
    \/ \E v \in Servers : Restart(v)
    \/ \E s \in Sessions : HubStep(s) \/ Publish(s) \/ WriterTakes(s) \/ WriterFails(s)
    \/ \E i \in Ids : Unroute(i)

\* Such a step keeps the invariant.
LEMMA SessionStepKeeps == IInv /\ SessionStep => IInv'
<1>. SUFFICES ASSUME IInv, SessionStep PROVE IInv'
  OBVIOUS
<1>. USE DEF sessionVars, sendVars, recvVars, clientVars, histVars
<1>1. WorldInv /\ SendInv /\ CopyInv /\ CountInv /\ IdOf \in [Sessions -> Ids]
      /\ ServerOf \in [Sessions -> Servers]
  BY FlowAssumption DEF IInv
<1>2. ASSUME NEW v \in Servers, Restart(v) PROVE IInv'
  BY <1>1, <1>2 DEF Restart, IInv, WorldInv, SendInv, CopyInv, CountInv
<1>3. ASSUME NEW s \in Sessions, HubStep(s) PROVE IInv'
  <2>1. /\ UNCHANGED <<up, route, matching, channels, stage, looked, group, queue,
                       held, jobs, given, lostAcks, faults>>
        /\ life' \in {[life EXCEPT ![s] = x] : x \in {"early", "live", "leaving", "closed"}}
    BY <1>3, HubSteps
  <2>2. PICK x \in {"early", "live", "leaving", "closed"} : life' = [life EXCEPT ![s] = x]
    BY <2>1
  <2>3. entry' = entry \/ SetEntry(s, s) \/ SetEntry(s, Nil)
    BY <1>3, HubSteps
  <2>4. entry' \in [Servers -> [Ids -> Sessions \cup {Nil, Absent}]]
    <3>1. CASE entry' = entry
      BY <1>1, <3>1 DEF WorldInv
    <3>2. ASSUME NEW e \in {s, Nil}, SetEntry(s, e)
          PROVE  entry' \in [Servers -> [Ids -> Sessions \cup {Nil, Absent}]]
      <4>1. [entry[ServerOf[s]] EXCEPT ![IdOf[s]] = e] \in [Ids -> Sessions \cup {Nil, Absent}]
        BY <1>1 DEF WorldInv
      <4>2. entry' = [entry EXCEPT ![ServerOf[s]] = [entry[ServerOf[s]] EXCEPT ![IdOf[s]] = e]]
        BY <3>2 DEF SetEntry
      <4>. QED
        BY <1>1, <4>1, <4>2 DEF WorldInv
    <3>. QED
      BY <2>3, <3>1, <3>2
  <2>5. life' \in [Sessions -> {"new", "early", "live", "leaving", "closed"}]
    BY <1>1, <2>2 DEF WorldInv
  <2>6. WorldInv' /\ SendInv'
    BY <1>1, <2>1, <2>4, <2>5 DEF WorldInv, SendInv
  <2>7. CountInv'
    <3>1. /\ \/ outbox' = outbox
             \/ outbox' = [outbox EXCEPT ![s] = 0]
          /\ \/ writing' = writing
             \/ writing' = [writing EXCEPT ![s] = TRUE]
             \/ writing' = [writing EXCEPT ![s] = FALSE]
      BY <1>3, HubSteps
    <3>2. outbox' \in [Sessions -> 0 .. BufSize]
      <4>1. 0 \in 0 .. BufSize
        BY FlowAssumption
      <4>. QED
        BY <1>1, <3>1, <4>1 DEF CountInv
    <3>3. writing' \in [Sessions -> BOOLEAN]
      BY <1>1, <3>1 DEF CountInv
    <3>. QED
      BY <1>1, <2>1, <3>2, <3>3 DEF CountInv
  <2>8. CopyInv'
    <3>1. life'[s] # "new" /\ \A y \in Sessions \ {s} : life'[y] = life[y]
      BY <1>1, <2>2 DEF WorldInv
    <3>2. CASE consumer' = consumer
      BY <1>1, <2>1, <3>1, <3>2 DEF CopyInv
    <3>3. CASE life[s] = "new" /\ consumer' = [consumer EXCEPT ![s] = "wait"]
      <4>1. consumer[s] = "off" /\ held[s] = NoCopy
        BY <1>1, <3>3 DEF CopyInv
      <4>2. \A y \in Sessions : life'[y] = "new" => consumer'[y] = "off"
        BY <1>1, <3>1, <3>3 DEF CopyInv
      <4>3. \A y \in Sessions : IF consumer'[y] \in {"got", "acked", "lost"}
                                THEN held'[y] \in FullCopies ELSE held'[y] = NoCopy
        BY <1>1, <2>1, <3>3, <4>1 DEF CopyInv
      <4>4. consumer' \in [Sessions -> {"off", "wait", "got", "acked", "lost"}]
        BY <1>1, <3>3 DEF CopyInv
      <4>. QED
        BY <1>1, <2>1, <4>2, <4>3, <4>4 DEF CopyInv
    <3>. QED
      BY <1>3, <3>2, <3>3, HubSteps
  <2>. QED
    BY <2>6, <2>7, <2>8 DEF IInv
<1>4. ASSUME NEW s \in Sessions, Publish(s) PROVE IInv'
  <2>1. WorldInv'
    BY <1>1, <1>4 DEF Publish, WorldInv
  <2>. QED
    BY <1>1, <1>4, <2>1 DEF Publish, IInv, SendInv, CopyInv, CountInv
<1>5. ASSUME NEW s \in Sessions, WriterTakes(s) PROVE IInv'
  <2>1. outbox[s] \in 0 .. BufSize /\ outbox[s] > 0 /\ outbox' = [outbox EXCEPT ![s] = @ - 1]
        /\ BufSize \in Nat
    BY <1>1, <1>5, FlowAssumption DEF WriterTakes, CountInv
  <2>2. outbox' \in [Sessions -> 0 .. BufSize]
    BY <1>1, <2>1 DEF CountInv
  <2>. QED
    BY <1>1, <1>5, <2>2 DEF WriterTakes, IInv, WorldInv, SendInv, CopyInv, CountInv
<1>6. ASSUME NEW s \in Sessions, WriterFails(s) PROVE IInv'
  <2>1. faults' \in 0 .. MaxFaults
    BY <1>1, <1>6, FlowAssumption DEF WriterFails, WorldInv
  <2>. QED
    BY <1>1, <1>6, <2>1 DEF WriterFails, IInv, WorldInv, SendInv, CopyInv, CountInv
<1>7. ASSUME NEW i \in Ids, Unroute(i) PROVE IInv'
  <2>1. WorldInv'
    BY <1>1, <1>7 DEF Unroute, WorldInv
  <2>. QED
    BY <1>1, <1>7, <2>1 DEF Unroute, IInv, SendInv, CopyInv, CountInv
<1>. QED
  BY <1>2, <1>3, <1>4, <1>5, <1>6, <1>7 DEF SessionStep

-----------------------------------------------------------------------------
(* Sending. *)

\* The places of a message that is not at a target.
Elsewhere == {"new", "handler", "publish", "sent", "dropped"}

\* A message moves to another stage; only one that has a target left is looked up.
LEMMA StageMoves ==
    ASSUME SendInv, NEW m \in Msgs, NEW st \in Elsewhere \cup {"lookup"}, NEW n \in Nat,
           NEW g \in [Queues -> Seq(Ids)],
           IF st = "lookup" THEN n < Len(TargetsOf[m]) ELSE n = 0,
           stage' = [stage EXCEPT ![m] = st], looked' = [looked EXCEPT ![m] = n],
           group' = [group EXCEPT ![m] = g]
    PROVE  SendInv'
BY DEF SendInv, Elsewhere

\* What a lookup adds to the messages for a server.
LEMMA GroupWith ==
    ASSUME SendInv, NEW m \in Msgs, NEW v \in Queues, NEW i \in Ids
    PROVE  /\ [group[m] EXCEPT ![v] = Append(@, i)] \in [Queues -> Seq(Ids)]
           /\ [group[m] EXCEPT ![v] = <<>>] \in [Queues -> Seq(Ids)]
<1>1. group[m] \in [Queues -> Seq(Ids)] /\ group[m][v] \in Seq(Ids)
  BY DEF SendInv
<1>2. Append(group[m][v], i) \in Seq(Ids) /\ <<>> \in Seq(Ids)
  BY <1>1, AppendProperties, EmptySeq
<1>. QED
  BY <1>1, <1>2

\* Sending keeps the invariant.
LEMMA SendKeeps ==
    ASSUME IInv, NEW m \in Msgs, Submit(m) \/ SendStep(m)
    PROVE  IInv'
<1>. USE DEF sessionVars, sendVars, recvVars, clientVars, histVars
<1>1. /\ WorldInv /\ SendInv /\ CopyInv /\ CountInv
      /\ SourceOf[m] \in Sessions /\ Origin(m) \in Servers /\ IdOf[SourceOf[m]] \in Ids
      /\ TargetsOf[m] \in Seq(Ids) /\ Len(TargetsOf[m]) \in Nat
      /\ group[m] \in [Queues -> Seq(Ids)] /\ looked[m] \in Nat
  BY FlowAssumption, LenProperties DEF IInv, Origin, SendInv
<1>2. CASE Submit(m)
  <2>1. looked[m] = 0 /\ looked' = looked /\ group' = group
        /\ stage' = [stage EXCEPT ![m] = "handler"]
    BY <1>1, <1>2 DEF Submit, SendInv
  <2>2. SendInv'
    BY <1>1, <2>1 DEF SendInv
  <2>. QED
    BY <1>1, <1>2, <2>2 DEF Submit, IInv, WorldInv, CopyInv, CountInv
<1>3. CASE RunSendHandlers(m)
  <2>1. PICK match \in BOOLEAN :
           /\ stage[m] = "handler"
           /\ matching' = [matching EXCEPT ![Origin(m)] = @ \/ match]
           /\ \/ \E i \in SourceIdsOf[m] : route' = [route EXCEPT ![i] = Nowhere]
              \/ route' = route
           /\ stage' = [stage EXCEPT ![m] = IF matching'[Origin(m)] THEN "dropped"
                                            ELSE IF TargetsOf[m] = <<>> THEN "sent"
                                            ELSE "lookup"]
           /\ UNCHANGED <<up, entry, life, channels, looked, group, queue, recvVars,
                          clientVars, histVars>>
    BY <1>3 DEF RunSendHandlers, MatchPut
  <2>2. WorldInv'
    <3>1. matching' \in [Servers -> BOOLEAN]
      BY <1>1, <2>1 DEF WorldInv
    <3>2. route' \in [Ids -> Sessions \cup {Nil, Nowhere}]
      BY <1>1, <2>1, FlowAssumption DEF WorldInv
    <3>. QED
      BY <1>1, <2>1, <3>1, <3>2 DEF WorldInv
  <2>3. SendInv'
    <3>1. looked[m] = 0 /\ (TargetsOf[m] # <<>> => Len(TargetsOf[m]) > 0)
      BY <1>1, <2>1, EmptySeq DEF SendInv
    <3>2. PICK st \in {"dropped", "sent", "lookup"} :
             stage' = [stage EXCEPT ![m] = st] /\ (st = "lookup" => TargetsOf[m] # <<>>)
      BY <2>1
    <3>. QED
      BY <1>1, <2>1, <3>1, <3>2 DEF SendInv
  <2>. QED
    BY <1>1, <2>1, <2>2, <2>3 DEF IInv, CopyInv, CountInv
<1>4. CASE Lookup(m)
  <2>1. stage[m] = "lookup" /\ looked[m] < Len(TargetsOf[m])
    BY <1>1, <1>4 DEF Lookup, SendInv
  <2>2. Target(m) \in Ids
    <3>1. looked[m] + 1 \in 1 .. Len(TargetsOf[m])
      BY <1>1, <2>1
    <3>. QED
      BY <1>1, <3>1, ElementOfSeq DEF Target
  <2>3. PICK g \in [Queues -> Seq(Ids)] : group' = [group EXCEPT ![m] = g]
    <3>1. CASE group' = group
      BY <1>1, <3>1 DEF SendInv
    <3>2. CASE group' # group
      <4>1. PICK r \in Found(Target(m)) :
               group' = [group EXCEPT ![m][Address(r)] = Append(@, Target(m))]
        BY <1>4, <3>2 DEF Lookup
      <4>2. r \in Sessions \cup {Nowhere}
        BY <1>1, <2>2, FlowAssumption DEF Found, WorldInv
      <4>3. Address(r) \in Queues
        BY <4>2, FlowAssumption DEF Address, Queues
      <4>. QED
        BY <1>1, <2>2, <4>1, <4>3, GroupWith
    <3>. QED
      BY <3>1, <3>2
  <2> DEFINE n == IF looked[m] + 1 < Len(TargetsOf[m]) THEN looked[m] + 1 ELSE 0
  <2>4. n \in Nat /\ looked' = [looked EXCEPT ![m] = n] /\ (n > 0 => n < Len(TargetsOf[m]))
    BY <1>1, <1>4 DEF Lookup
  <2>. HIDE DEF n
  <2>5. looked'[m] = n
    BY <1>1, <2>4 DEF SendInv
  <2>6. PICK st \in {"lookup", "sent", "publish"} :
           stage' = [stage EXCEPT ![m] = st] /\ (n > 0 <=> st = "lookup")
    BY <1>4, <2>5 DEF Lookup
  <2>7. SendInv'
    <3>1. IF st = "lookup" THEN n < Len(TargetsOf[m]) ELSE n = 0
      BY <2>4, <2>6
    <3>2. st \in Elsewhere \cup {"lookup"}
      BY DEF Elsewhere
    <3>. QED
      BY <1>1, <2>3, <2>4, <2>6, <3>1, <3>2, StageMoves
  <2>. QED
    BY <1>1, <1>4, <2>7 DEF Lookup, IInv, WorldInv, CopyInv, CountInv
<1>5. CASE LookupFails(m)
  <2>1. NoGroup \in [Queues -> Seq(Ids)]
    BY EmptySeq DEF NoGroup
  <2>2. SendInv'
    BY <1>1, <1>5, <2>1, StageMoves DEF LookupFails, Elsewhere
  <2>. QED
    BY <1>1, <1>5, <2>2 DEF LookupFails, IInv, WorldInv, CopyInv, CountInv
<1>6. ASSUME NEW v \in Queues, PublishWorking(m, v) PROVE IInv'
  <2> DEFINE c == [msg |-> m, targets |-> group[m][v]]
  <2>1. c \in FullCopies
    BY <1>1, <1>6 DEF PublishWorking, FullCopies, Copies
  <2>2. queue' = [queue EXCEPT ![v] = Append(@, c)]
    BY <1>6 DEF PublishWorking
  <2>. HIDE DEF c
  <2>3. queue' \in [Queues -> Seq(FullCopies)]
    <3>1. queue[v] \in Seq(FullCopies)
      BY <1>1 DEF CopyInv
    <3>2. Append(queue[v], c) \in Seq(FullCopies)
      BY <2>1, <3>1, AppendProperties
    <3>. QED
      BY <1>1, <2>2, <3>2 DEF CopyInv
  <2>4. CopyInv'
    BY <1>1, <1>6, <2>3 DEF PublishWorking, CopyInv
  <2>5. WorldInv'
    <3>1. channels[Origin(m)] \in 0 .. ChannelMax /\ channels[Origin(m)] < ChannelMax
          /\ channels' = [channels EXCEPT ![Origin(m)] = @ + 1] /\ ChannelMax \in Nat
      BY <1>1, <1>6, FlowAssumption DEF PublishWorking, WorldInv
    <3>2. channels' \in [Servers -> 0 .. ChannelMax]
      BY <1>1, <3>1 DEF WorldInv
    <3>. QED
      BY <1>1, <1>6, <3>2 DEF PublishWorking, WorldInv
  <2>6. SendInv'
    <3>1. /\ group' = [group EXCEPT ![m] = [group[m] EXCEPT ![v] = <<>>]]
          /\ looked' = looked /\ stage[m] = "publish"
          /\ \/ stage' = [stage EXCEPT ![m] = "sent"]
             \/ stage' = [stage EXCEPT ![m] = "publish"]
      BY <1>6 DEF PublishWorking
    <3>2. [group[m] EXCEPT ![v] = <<>>] \in [Queues -> Seq(Ids)]
      BY <1>1, EmptySeq
    <3>3. looked[m] = 0 /\ looked' = [looked EXCEPT ![m] = 0]
      BY <1>1, <3>1 DEF SendInv
    <3>. QED
      BY <1>1, <3>1, <3>2, <3>3, StageMoves DEF Elsewhere
  <2>. QED
    BY <1>1, <1>6, <2>4, <2>5, <2>6 DEF PublishWorking, IInv, CountInv
<1>7. CASE PublishPanics(m)
  BY <1>1, <1>7, DiesKeeps DEF PublishPanics, Panic, WorldInv
<1>. QED
  BY <1>2, <1>3, <1>4, <1>5, <1>6, <1>7 DEF SendStep

-----------------------------------------------------------------------------
(* Receiving. *)

\* A goroutine goes on with k in the place of j, and ends without a target.
LEMMA ReplaceKeeps ==
    ASSUME NEW j \in jobs, NEW k \in Jobs, jobs \subseteq FullJobs, Replace(j, k)
    PROVE  /\ jobs' \subseteq FullJobs
           /\ jobs \ {j} \subseteq jobs'
           /\ k.left # <<>> => k \in jobs'
BY DEF Replace, FullJobs

\* The consumers and the goroutines they start keep the invariant.
LEMMA ReceiveKeeps ==
    ASSUME IInv,
           \/ \E s \in Sessions : ConsumerStep(s) \/ ConnectionLost(s)
           \/ \E j \in jobs : JobStep(j)
    PROVE  IInv'
<1>. USE DEF sessionVars, sendVars, recvVars, clientVars, histVars
<1>1. /\ WorldInv /\ SendInv /\ CopyInv /\ CountInv
      /\ ServerOf \in [Sessions -> Servers] /\ MaxFaults \in Nat
  BY FlowAssumption DEF IInv
<1>2. ASSUME NEW s \in Sessions, Deliver(s) PROVE IInv'
  <2> DEFINE v == ServerOf[s]
  <2>1. v \in Queues /\ queue[v] \in Seq(FullCopies) /\ queue[v] # <<>>
    BY <1>1, <1>2 DEF Deliver, CopyInv, Queues
  <2>2. Head(queue[v]) \in FullCopies /\ Tail(queue[v]) \in Seq(FullCopies)
    BY <2>1, HeadTailProperties
  <2>3. /\ held' = [held EXCEPT ![s] = Head(queue[v])]
        /\ queue' = [queue EXCEPT ![v] = Tail(queue[v])]
        /\ consumer' = [consumer EXCEPT ![s] = "got"] /\ consumer[s] = "wait"
        /\ jobs' = jobs /\ life' = life
    BY <1>2 DEF Deliver
  <2>. HIDE DEF v
  <2>4. CopyInv'
    <3>1. queue' \in [Queues -> Seq(FullCopies)]
      BY <1>1, <2>2, <2>3 DEF CopyInv
    <3>2. \A x \in Sessions : IF consumer'[x] \in {"got", "acked", "lost"}
                              THEN held'[x] \in FullCopies ELSE held'[x] = NoCopy
      BY <1>1, <2>2, <2>3 DEF CopyInv
    <3>3. \A x \in Sessions : life'[x] = "new" => consumer'[x] = "off"
      BY <1>1, <2>3 DEF CopyInv
    <3>4. held' \in [Sessions -> FullCopies \cup {NoCopy}]
      BY <1>1, <2>2, <2>3 DEF CopyInv
    <3>. QED
      BY <1>1, <2>3, <3>1, <3>2, <3>3, <3>4 DEF CopyInv
  <2>. QED
    BY <1>1, <1>2, <2>4 DEF Deliver, IInv, WorldInv, SendInv, CountInv
<1>3. ASSUME NEW s \in Sessions, Ack(s) \/ ConnectionLost(s) PROVE IInv'
  <2>1. CopyInv'
    BY <1>1, <1>3 DEF Ack, ConnectionLost, CopyInv
  <2>2. WorldInv'
    BY <1>1, <1>3 DEF Ack, ConnectionLost, WorldInv
  <2>. QED
    BY <1>1, <1>3, <2>1, <2>2 DEF Ack, ConnectionLost, IInv, SendInv, CountInv
<1>4. ASSUME NEW s \in Sessions, AckFails(s) PROVE IInv'
  <2> DEFINE v == ServerOf[s]
  <2>1. /\ consumer[s] = "got" /\ held[s] \in FullCopies /\ v \in Queues
        /\ queue[v] \in Seq(FullCopies)
    BY <1>1, <1>4 DEF AckFails, CopyInv, Queues
  <2>2. <<held[s]>> \o queue[v] \in Seq(FullCopies)
    <3>1. <<held[s]>> \in Seq(FullCopies)
      BY <2>1
    <3>. QED
      BY <2>1, <3>1, ConcatProperties
  <2>3. /\ queue' = [queue EXCEPT ![v] = <<held[s]>> \o queue[v]]
        /\ consumer' = [consumer EXCEPT ![s] = "lost"]
        /\ lostAcks' = [lostAcks EXCEPT ![held[s].msg] = @ + 1]
        /\ held' = held /\ jobs' = jobs /\ life' = life
    BY <1>4 DEF AckFails
  <2>. HIDE DEF v
  <2>4. CopyInv'
    <3>1. queue' \in [Queues -> Seq(FullCopies)]
      BY <1>1, <2>2, <2>3 DEF CopyInv
    <3>. QED
      BY <1>1, <2>1, <2>3, <3>1 DEF CopyInv
  <2>5. lostAcks' \in [Msgs -> Nat]
    <3>1. held[s].msg \in Msgs
      BY <2>1 DEF FullCopies, Copies
    <3>. QED
      BY <1>1, <2>3, <3>1 DEF CountInv
  <2>. QED
    BY <1>1, <1>4, <2>4, <2>5 DEF AckFails, IInv, WorldInv, SendInv, CountInv
<1>5. ASSUME NEW s \in Sessions, HandOver(s) PROVE IInv'
  <2> DEFINE j == [msg |-> held[s].msg, by |-> s, left |-> held[s].targets, client |-> Nil]
  <2>1. consumer[s] \in {"acked", "lost"} /\ held[s] \in FullCopies
    BY <1>1, <1>5 DEF HandOver, CopyInv
  <2>2. j \in FullJobs
    BY <2>1 DEF FullCopies, Copies, FullJobs, Jobs
  <2>3. /\ jobs' = jobs \cup {j} /\ held' = [held EXCEPT ![s] = NoCopy]
        /\ \/ consumer' = [consumer EXCEPT ![s] = "off"]
           \/ consumer' = [consumer EXCEPT ![s] = "wait"]
        /\ queue' = queue /\ life' = life
    BY <1>5 DEF HandOver
  <2>. HIDE DEF j
  <2>4. life[s] # "new"
    BY <1>1, <2>1 DEF CopyInv
  <2>5. CopyInv'
    BY <1>1, <2>2, <2>3, <2>4 DEF CopyInv
  <2>. QED
    BY <1>1, <1>5, <2>5 DEF HandOver, IInv, WorldInv, SendInv, CountInv
<1>6. ASSUME NEW j \in jobs, JobStep(j) PROVE IInv'
  <2>1. /\ j \in FullJobs /\ j.left \in Seq(Ids) /\ j.left # <<>> /\ j.msg \in Msgs
        /\ j.by \in Sessions /\ ServerOf[j.by] \in Servers /\ jobs \subseteq FullJobs
    BY <1>1, <1>6 DEF CopyInv, FullJobs, Jobs
  <2>2. Head(j.left) \in Ids /\ Tail(j.left) \in Seq(Ids)
    BY <2>1, HeadTailProperties
  <2>3. ASSUME NEW k \in Jobs, Replace(j, k), UNCHANGED <<queue, consumer, held, life>>
        PROVE  CopyInv'
    <3>1. jobs' \subseteq FullJobs
      BY <2>1, <2>3, ReplaceKeeps
    <3>. QED
      BY <1>1, <2>3, <3>1 DEF CopyInv
  <2>4. CASE JobSkip(j)
    <3>1. [j EXCEPT !.left = Tail(j.left)] \in Jobs
      BY <2>1, <2>2 DEF FullJobs, Jobs
    <3>2. CopyInv'
      BY <2>3, <2>4, <3>1 DEF JobSkip
    <3>. QED
      BY <1>1, <2>4, <3>2 DEF JobSkip, IInv, WorldInv, SendInv, CountInv
  <2>5. CASE JobFind(j)
    <3>1. [j EXCEPT !.client = JobEntry(j)] \in Jobs
      BY <2>1, <2>5 DEF JobFind, FullJobs, Jobs
    <3>2. CopyInv'
      BY <2>3, <2>5, <3>1 DEF JobFind
    <3>. QED
      BY <1>1, <2>5, <3>2 DEF JobFind, IInv, WorldInv, SendInv, CountInv
  <2>6. CASE JobGive(j)
    <3> DEFINE k == [j EXCEPT !.left = Tail(j.left), !.client = Nil]
    <3>1. k \in Jobs
      BY <2>1, <2>2 DEF FullJobs, Jobs
    <3>2. Replace(j, k)
      BY <2>6 DEF JobGive
    <3>. HIDE DEF k
    <3>3. CopyInv'
      BY <2>3, <2>6, <3>1, <3>2 DEF JobGive
    <3>5. outbox' \in [Sessions -> 0 .. BufSize]
      <4>1. j.client \in Sessions /\ outbox[j.client] < BufSize
            /\ outbox' = [outbox EXCEPT ![j.client] = @ + 1]
        BY <2>1, <2>6 DEF JobGive, FullJobs, Jobs
      <4>2. outbox[j.client] \in 0 .. BufSize /\ BufSize \in Nat
        BY <1>1, <4>1, FlowAssumption DEF CountInv
      <4>. QED
        BY <1>1, <4>1, <4>2 DEF CountInv
    <3>4. given' \in [Msgs -> [Ids -> Nat]]
      <4>1. given' = [given EXCEPT ![j.msg] = [given[j.msg] EXCEPT ![Head(j.left)] = @ + 1]]
        BY <2>6 DEF JobGive
      <4>2. [given[j.msg] EXCEPT ![Head(j.left)] = @ + 1] \in [Ids -> Nat]
        BY <1>1, <2>1, <2>2 DEF CountInv
      <4>. QED
        BY <1>1, <4>1, <4>2 DEF CountInv
    <3>. QED
      BY <1>1, <2>6, <3>3, <3>4, <3>5 DEF JobGive, IInv, WorldInv, SendInv, CountInv
  <2>7. CASE JobNilPanics(j) \/ JobClosedPanics(j)
    <3>1. Dies(ServerOf[j.by]) /\ faults' = faults
      BY <2>7 DEF JobNilPanics, JobClosedPanics, Panic
    <3>. QED
      BY <1>1, <2>1, <3>1, DiesKeeps DEF WorldInv
  <2>. QED
    BY <1>6, <2>4, <2>5, <2>6, <2>7 DEF JobStep
<1>. QED
  BY <1>2, <1>3, <1>4, <1>5, <1>6 DEF ConsumerStep

-----------------------------------------------------------------------------
(* Theorems. *)

\* The steps by what they do.
LEMMA NextCases ==
    ASSUME Next
    PROVE  \/ SessionStep
           \/ \E v \in Servers : Crash(v)
           \/ \E m \in Msgs : Submit(m) \/ SendStep(m)
           \/ \E s \in Sessions : ConsumerStep(s) \/ ConnectionLost(s)
           \/ \E j \in jobs : JobStep(j)
BY DEF Next, SessionStep, HubStep

\* The invariant is inductive: it holds at first and every step keeps it.
THEOREM Inductive == Spec => []IInv
<1>1. IInv /\ [Next]_vars => IInv'
  <2>. SUFFICES ASSUME IInv, [Next]_vars PROVE IInv'
    OBVIOUS
  <2>1. CASE UNCHANGED vars
    BY <2>1 DEF vars, clientVars, IInv, WorldInv, SendInv, CopyInv, CountInv
  <2>2. ASSUME NEW v \in Servers, Crash(v) PROVE IInv'
    <3>1. Dies(v) /\ faults < MaxFaults /\ faults' = faults + 1
      BY <2>2 DEF Crash
    <3>2. faults' \in 0 .. MaxFaults
      BY <3>1, FlowAssumption DEF IInv, WorldInv
    <3>. QED
      BY <3>1, <3>2, DiesKeeps
  <2>3. CASE Next
    BY <2>2, <2>3, NextCases, SessionStepKeeps, SendKeeps, ReceiveKeeps
  <2>. QED
    BY <2>1, <2>3
<1>. QED
  BY <1>1, InitIInv, PTL DEF Spec

\* The types of the message flow, with any number of servers and sessions.
THEOREM TypeCorrect == Spec => []TypeOK
BY Inductive, IInvTypes, PTL

-----------------------------------------------------------------------------
(* A message is kept until it is given. *)

\* Where a copy of m for target i at server v is: in the queue, in the hands of
\* a consumer, or with a goroutine.
InQueue(m, i, v) == \E k \in DOMAIN queue[v] : HasTarget(queue[v][k], m, i)
InHand(m, i, v)  == \E s \in At(v) : HasTarget(held[s], m, i)
AtWork(m, i, v)  == \E j \in JobsAt(v) : j.msg = m /\ \E k \in DOMAIN j.left : j.left[k] = i

\* Those are all the places of a pending message.
LEMMA WherePending ==
    ASSUME NEW m, NEW i, NEW v
    PROVE  Pending(m, i, v) <=> InQueue(m, i, v) \/ InHand(m, i, v) \/ AtWork(m, i, v)
BY DEF Pending, InQueue, InHand, AtWork, At, JobsAt

\* A queue that grows at its head keeps its copies.
LEMMA QueueGrows ==
    ASSUME NEW q \in Seq(FullCopies), NEW r \in Seq(FullCopies), NEW k \in DOMAIN q
    PROVE  \E n \in DOMAIN (r \o q) : (r \o q)[n] = q[k]
<1>1. DOMAIN q = 1 .. Len(q) /\ Len(q) \in Nat /\ Len(r) \in Nat
  BY LenProperties
<1>2. /\ r \o q \in Seq(FullCopies) /\ Len(r \o q) = Len(r) + Len(q)
      /\ \A n \in 1 .. Len(r) + Len(q) :
            (r \o q)[n] = IF n <= Len(r) THEN r[n] ELSE q[n - Len(r)]
  BY ConcatProperties
<1>3. DOMAIN (r \o q) = 1 .. Len(r) + Len(q)
  BY <1>2, LenProperties
<1>4. Len(r) + k \in 1 .. Len(r) + Len(q) /\ ~(Len(r) + k <= Len(r)) /\ Len(r) + k - Len(r) = k
  BY <1>1
<1>. QED
  BY <1>2, <1>3, <1>4

\* So does one that grows at its end.
LEMMA QueueAppended ==
    ASSUME NEW q \in Seq(FullCopies), NEW c \in FullCopies, NEW k \in DOMAIN q
    PROVE  \E n \in DOMAIN Append(q, c) : Append(q, c)[n] = q[k]
<1>1. DOMAIN q = 1 .. Len(q) /\ Len(q) \in Nat
  BY LenProperties
<1>2. /\ Append(q, c) \in Seq(FullCopies) /\ Len(Append(q, c)) = Len(q) + 1
      /\ \A n \in 1 .. Len(q) : Append(q, c)[n] = q[n]
  BY AppendProperties
<1>3. DOMAIN Append(q, c) = 1 .. Len(q) + 1
  BY <1>2, LenProperties
<1>. QED
  BY <1>1, <1>2, <1>3

\* An element of a sequence is its head or in its tail.
LEMMA HeadOrTail ==
    ASSUME NEW S, NEW q \in Seq(S), NEW k \in DOMAIN q
    PROVE  /\ q # <<>>
           /\ q[k] = Head(q) \/ \E n \in DOMAIN Tail(q) : Tail(q)[n] = q[k]
           /\ (\E n \in DOMAIN Tail(q) : TRUE) => Tail(q) # <<>>
<1>1. DOMAIN q = 1 .. Len(q) /\ Len(q) \in Nat
  BY LenProperties
<1>2. q # <<>>
  BY <1>1, EmptySeq
<1>3. /\ Tail(q) \in Seq(S) /\ Len(Tail(q)) = Len(q) - 1
      /\ \A n \in 1 .. Len(Tail(q)) : Tail(q)[n] = q[n + 1]
  BY <1>2, HeadTailProperties
<1>4. DOMAIN Tail(q) = 1 .. Len(q) - 1
  BY <1>3, LenProperties
<1>5. Head(q) = q[1]
  OBVIOUS
<1>6. k = 1 \/ (k - 1 \in 1 .. Len(q) - 1 /\ Tail(q)[k - 1] = q[k])
  BY <1>1, <1>3
<1>7. (\E n \in DOMAIN Tail(q) : TRUE) => Tail(q) # <<>>
  OBVIOUS
<1>. QED
  BY <1>2, <1>4, <1>5, <1>6, <1>7

\* The end of a server takes from another nothing, and from its own only what
\* was acknowledged.
LEMMA DiesLoses ==
    ASSUME IInv, NEW w \in Servers, Dies(w), NEW m, NEW i, NEW v \in Servers,
           Pending(m, i, v), Unacknowledged(m, i, v) \/ v # w
    PROVE  Pending(m, i, v)'
<1>1. CopyInv /\ ServerOf \in [Sessions -> Servers]
  BY FlowAssumption DEF IInv
<1>2. PICK q \in Requeues(w) :
         queue' = [queue EXCEPT ![w] = [k \in DOMAIN q |-> held[q[k]]] \o queue[w]]
  BY DEF Dies
<1> DEFINE back == [k \in DOMAIN q |-> held[q[k]]]
<1>3. back \in Seq(FullCopies) /\ queue[w] \in Seq(FullCopies) /\ w \in Queues
  BY <1>1, RequeuedCopies DEF CopyInv, Queues
<1>4. CASE v # w
  <2>1. queue'[v] = queue[v]
    BY <1>1, <1>2, <1>4 DEF CopyInv
  <2>2. \A s \in At(v) : held'[s] = held[s]
    BY <1>4 DEF Dies, At
  <2>3. JobsAt(v) \subseteq JobsAt(v)'
    BY <1>4 DEF Dies, JobsAt
  <2>4. InQueue(m, i, v) => InQueue(m, i, v)'
    BY <2>1 DEF InQueue
  <2>5. InHand(m, i, v) => InHand(m, i, v)'
    BY <2>2 DEF InHand, HasTarget, At
  <2>6. AtWork(m, i, v) => AtWork(m, i, v)'
    BY <2>3 DEF AtWork
  <2>. QED
    BY <2>4, <2>5, <2>6, WherePending, PTL
<1>5. CASE v = w
  <2>1. queue'[v] = back \o queue[v]
    BY <1>1, <1>2, <1>3, <1>5 DEF CopyInv
  <2>2. ASSUME NEW k \in DOMAIN queue[v], HasTarget(queue[v][k], m, i) PROVE InQueue(m, i, v)'
    <3>1. PICK n \in DOMAIN (back \o queue[v]) : (back \o queue[v])[n] = queue[v][k]
      <4>. HIDE DEF back
      <4>. QED
        BY <1>3, <1>5, QueueGrows
    <3>. QED
      BY <2>1, <2>2, <3>1 DEF InQueue, HasTarget
  <2>3. ASSUME NEW s \in Unacked(v), HasTarget(held[s], m, i) PROVE InQueue(m, i, v)'
    <3>1. PICK k \in DOMAIN q : q[k] = s
      BY <1>5 DEF Requeues
    <3>2. k \in DOMAIN back /\ back[k] = held[s]
      BY <3>1
    <3>. HIDE DEF back
    <3>3. /\ back \o queue[v] \in Seq(FullCopies) /\ Len(back \o queue[v]) = Len(back) + Len(queue[v])
          /\ \A n \in 1 .. Len(back) + Len(queue[v]) :
                (back \o queue[v])[n] = IF n <= Len(back) THEN back[n] ELSE queue[v][n - Len(back)]
      BY <1>3, <1>5, ConcatProperties
    <3>4. /\ DOMAIN (back \o queue[v]) = 1 .. Len(back) + Len(queue[v])
          /\ DOMAIN back = 1 .. Len(back) /\ Len(back) \in Nat /\ Len(queue[v]) \in Nat
      BY <1>3, <1>5, <3>3, LenProperties
    <3>5. k \in DOMAIN (back \o queue[v]) /\ (back \o queue[v])[k] = held[s]
      BY <3>2, <3>3, <3>4
    <3>. QED
      BY <2>1, <2>3, <3>5 DEF InQueue, HasTarget
  <2>4. Unacknowledged(m, i, v)
    BY <1>5
  <2>5. InQueue(m, i, v)'
    BY <2>2, <2>3, <2>4 DEF Unacknowledged
  <2>. QED
    BY <2>5, WherePending, PTL
<1>. QED
  BY <1>4, <1>5

\* The steps of a goroutine and of a consumer pass a copy on.
LEMMA ConsumerKeeps ==
    ASSUME IInv, NEW s \in Sessions, ConsumerStep(s) \/ ConnectionLost(s),
           NEW m, NEW i, NEW v \in Servers, Pending(m, i, v)
    PROVE  Pending(m, i, v)'
<1>1. CopyInv /\ ServerOf \in [Sessions -> Servers] /\ v \in Queues /\ queue[v] \in Seq(FullCopies)
  BY FlowAssumption DEF IInv, CopyInv, Queues
<1>2. SUFFICES InQueue(m, i, v)' \/ InHand(m, i, v)' \/ AtWork(m, i, v)'
  BY WherePending, PTL
<1>3. InQueue(m, i, v) \/ InHand(m, i, v) \/ AtWork(m, i, v)
  BY WherePending
<1>4. CASE Ack(s) \/ ConnectionLost(s)
  BY <1>3, <1>4 DEF Ack, ConnectionLost, InQueue, InHand, AtWork, HasTarget, At, JobsAt
<1>5. CASE Deliver(s)
  <2> DEFINE w == ServerOf[s]
  <2>1. /\ consumer[s] = "wait" /\ queue[w] # <<>> /\ jobs' = jobs
        /\ held' = [held EXCEPT ![s] = Head(queue[w])]
        /\ queue' = [queue EXCEPT ![w] = Tail(queue[w])]
    BY <1>5 DEF Deliver
  <2>2. held[s] = NoCopy /\ held'[s] = Head(queue[w])
    BY <1>1, <2>1 DEF CopyInv
  <2>3. AtWork(m, i, v) => AtWork(m, i, v)'
    BY <2>1 DEF AtWork, JobsAt
  <2>4. ASSUME NEW t \in At(v), HasTarget(held[t], m, i) PROVE InHand(m, i, v)'
    <3>1. t # s
      <4>1. ~HasTarget(NoCopy, m, i)
        BY DEF HasTarget, NoCopy
      <4>. QED
        BY <2>2, <2>4, <4>1
    <3>2. held'[t] = held[t]
      BY <1>1, <2>1, <3>1 DEF CopyInv
    <3>. QED
      BY <2>4, <3>2 DEF InHand, HasTarget, At
  <2>5. ASSUME NEW k \in DOMAIN queue[v], HasTarget(queue[v][k], m, i)
        PROVE  InQueue(m, i, v)' \/ InHand(m, i, v)'
    <3>1. CASE v # w
      <4>1. queue'[v] = queue[v]
        BY <1>1, <2>1, <3>1 DEF CopyInv
      <4>. QED
        BY <2>5, <4>1 DEF InQueue, HasTarget
    <3>2. CASE v = w
      <4>1. queue[v][k] = Head(queue[v]) \/ \E n \in DOMAIN Tail(queue[v]) : Tail(queue[v])[n] = queue[v][k]
        BY <1>1, HeadOrTail
      <4>2. queue'[v] = Tail(queue[v])
        BY <1>1, <2>1, <3>2 DEF CopyInv
      <4>3. CASE queue[v][k] = Head(queue[v])
        <5>1. s \in At(v) /\ HasTarget(held'[s], m, i)
          BY <2>2, <2>5, <3>2, <4>3 DEF At
        <5>. QED
          BY <5>1 DEF InHand, HasTarget, At
      <4>4. CASE \E n \in DOMAIN Tail(queue[v]) : Tail(queue[v])[n] = queue[v][k]
        BY <2>5, <4>2, <4>4 DEF InQueue, HasTarget
      <4>. QED
        BY <4>1, <4>3, <4>4
    <3>. QED
      BY <3>1, <3>2
  <2>. QED
    BY <1>3, <2>3, <2>4, <2>5 DEF InQueue, InHand
<1>6. CASE AckFails(s)
  <2> DEFINE w == ServerOf[s]
  <2>1. /\ consumer[s] = "got" /\ jobs' = jobs /\ held' = held
        /\ queue' = [queue EXCEPT ![w] = <<held[s]>> \o queue[w]]
    BY <1>6 DEF AckFails
  <2>2. AtWork(m, i, v) \/ InHand(m, i, v) => AtWork(m, i, v)' \/ InHand(m, i, v)'
    BY <2>1 DEF AtWork, JobsAt, InHand, HasTarget, At
  <2>3. ASSUME NEW k \in DOMAIN queue[v], HasTarget(queue[v][k], m, i) PROVE InQueue(m, i, v)'
    <3>1. CASE v # w
      <4>1. queue'[v] = queue[v]
        BY <1>1, <2>1, <3>1 DEF CopyInv
      <4>. QED
        BY <2>3, <4>1 DEF InQueue, HasTarget
    <3>2. CASE v = w
      <4>1. queue'[v] = <<held[s]>> \o queue[v]
        BY <1>1, <2>1, <3>2 DEF CopyInv
      <4>2. held[s] \in FullCopies
        BY <1>1, <2>1 DEF CopyInv
      <4>3. <<held[s]>> \in Seq(FullCopies)
        BY <4>2
      <4>4. \E n \in DOMAIN (<<held[s]>> \o queue[v]) : (<<held[s]>> \o queue[v])[n] = queue[v][k]
        BY <1>1, <4>2, <4>3, QueueGrows
      <4>. QED
        BY <2>3, <4>1, <4>4 DEF InQueue, HasTarget
    <3>. QED
      BY <3>1, <3>2
  <2>. QED
    BY <1>3, <2>2, <2>3 DEF InQueue
<1>7. CASE HandOver(s)
  <2> DEFINE j == [msg |-> held[s].msg, by |-> s, left |-> held[s].targets, client |-> Nil]
  <2>1. jobs' = jobs \cup {j} /\ held' = [held EXCEPT ![s] = NoCopy] /\ queue' = queue
    BY <1>7 DEF HandOver
  <2>2. InQueue(m, i, v) \/ AtWork(m, i, v) => InQueue(m, i, v)' \/ AtWork(m, i, v)'
    BY <2>1 DEF InQueue, AtWork, JobsAt, HasTarget
  <2>3. ASSUME NEW t \in At(v), HasTarget(held[t], m, i)
        PROVE  InHand(m, i, v)' \/ AtWork(m, i, v)'
    <3>1. CASE t = s
      <4>1. j \in jobs' /\ ServerOf[j.by] = v /\ j.msg = m /\ \E k \in DOMAIN j.left : j.left[k] = i
        BY <2>1, <2>3, <3>1 DEF HasTarget, At
      <4>. QED
        BY <4>1 DEF AtWork, JobsAt
    <3>2. CASE t # s
      <4>1. held'[t] = held[t]
        BY <1>1, <2>1, <3>2 DEF CopyInv
      <4>. QED
        BY <2>3, <4>1 DEF InHand, HasTarget, At
    <3>. QED
      BY <3>1, <3>2
  <2>. QED
    BY <1>3, <2>2, <2>3 DEF InHand
<1>. QED
  BY <1>4, <1>5, <1>6, <1>7 DEF ConsumerStep

\* What excuses a server for no longer having a message for a target: a client
\* got it, the server has none, or it ended after it had acknowledged it.
Excused(m, i, v) ==
    \/ given'[m][i] > given[m][i]
    \/ entry[v][i] = Absent
    \/ ~up'[v] /\ ~Unacknowledged(m, i, v)

\* The end of a server is excused for what it had acknowledged.
LEMMA DiesExcused ==
    ASSUME IInv, NEW w \in Servers, Dies(w), NEW m, NEW i, NEW v \in Servers,
           Pending(m, i, v)
    PROVE  Pending(m, i, v)' \/ Excused(m, i, v)
<1>1. CASE Unacknowledged(m, i, v) \/ v # w
  BY <1>1, DiesLoses
<1>2. CASE ~Unacknowledged(m, i, v) /\ v = w
  <2>1. up'[v] = FALSE
    BY <1>2 DEF Dies, IInv, WorldInv
  <2>. QED
    BY <1>2, <2>1 DEF Excused
<1>. QED
  BY <1>1, <1>2

\* A goroutine gives up a target only to its client, or without an entry for it.
LEMMA JobKeeps ==
    ASSUME IInv, NEW j \in jobs, JobStep(j),
           NEW m \in Msgs, NEW i \in Ids, NEW v \in Servers, Pending(m, i, v)
    PROVE  Pending(m, i, v)' \/ Excused(m, i, v)
<1>1. /\ CopyInv /\ CountInv /\ j.by \in Sessions /\ ServerOf[j.by] \in Servers
      /\ j.left \in Seq(Ids) /\ jobs \subseteq FullJobs /\ j.msg \in Msgs
  BY FlowAssumption DEF IInv, CopyInv, FullJobs, Jobs
<1>2. CASE JobNilPanics(j) \/ JobClosedPanics(j)
  <2>1. Dies(ServerOf[j.by])
    BY <1>2 DEF JobNilPanics, JobClosedPanics, Panic
  <2>. QED
    BY <1>1, <2>1, DiesExcused
<1>3. ASSUME NEW k, k.by = j.by, k.msg = j.msg, Replace(j, k), UNCHANGED <<queue, held>>,
             \/ k.left = j.left
             \/ k.left = Tail(j.left) /\ (j.msg = m /\ Head(j.left) = i /\ ServerOf[j.by] = v
                                          => Excused(m, i, v))
      PROVE  Pending(m, i, v)' \/ Excused(m, i, v)
  <2>1. InQueue(m, i, v) \/ InHand(m, i, v) => InQueue(m, i, v)' \/ InHand(m, i, v)'
    BY <1>3 DEF InQueue, InHand, HasTarget, At
  <2>2. ASSUME NEW x \in JobsAt(v), x.msg = m, NEW n \in DOMAIN x.left, x.left[n] = i
        PROVE  AtWork(m, i, v)' \/ Excused(m, i, v)
    <3>1. CASE x # j
      <4>1. x \in JobsAt(v)'
        BY <1>3, <2>2, <3>1 DEF Replace, JobsAt
      <4>. QED
        BY <2>2, <4>1 DEF AtWork
    <3>2. CASE x = j
      <4>1. ServerOf[k.by] = v /\ k.msg = m
        BY <1>3, <2>2, <3>2 DEF JobsAt
      <4>2. ASSUME NEW l \in DOMAIN k.left, k.left[l] = i, k.left # <<>>
            PROVE  AtWork(m, i, v)'
        <5>1. k \in jobs'
          BY <1>3, <4>2 DEF Replace
        <5>. QED
          BY <4>1, <4>2, <5>1 DEF AtWork, JobsAt
      <4>3. j.left # <<>> /\ (j.left[n] = Head(j.left) \/ \E l \in DOMAIN Tail(j.left) : Tail(j.left)[l] = i)
            /\ ((\E l \in DOMAIN Tail(j.left) : TRUE) => Tail(j.left) # <<>>)
        BY <1>1, <2>2, <3>2, HeadOrTail
      <4>4. CASE k.left = j.left
        BY <2>2, <3>2, <4>2, <4>3, <4>4
      <4>5. CASE k.left = Tail(j.left) /\ (j.msg = m /\ Head(j.left) = i /\ ServerOf[j.by] = v
                                           => Excused(m, i, v))
        <5>1. CASE j.left[n] = Head(j.left)
          BY <2>2, <3>2, <4>5, <5>1 DEF JobsAt
        <5>2. CASE \E l \in DOMAIN Tail(j.left) : Tail(j.left)[l] = i
          BY <4>2, <4>3, <4>5, <5>2
        <5>. QED
          BY <4>3, <5>1, <5>2
      <4>. QED
        BY <1>3, <4>4, <4>5
    <3>. QED
      BY <3>1, <3>2
  <2>3. AtWork(m, i, v) => AtWork(m, i, v)' \/ Excused(m, i, v)
    BY <2>2 DEF AtWork
  <2>4. Pending(m, i, v)' <=> (InQueue(m, i, v)' \/ InHand(m, i, v)' \/ AtWork(m, i, v)')
    BY WherePending, PTL
  <2>. QED
    BY <2>1, <2>3, <2>4, WherePending
<1>4. j.left = j.left /\ j \in [msg : Msgs, by : Sessions, left : Seq(Ids), client : Sessions \cup {Nil}]
  BY <1>1 DEF FullJobs, Jobs
<1>5. CASE JobSkip(j)
  <2> DEFINE k == [j EXCEPT !.left = Tail(j.left)]
  <2>1. k.by = j.by /\ k.msg = j.msg /\ k.left = Tail(j.left)
    BY <1>4
  <2>2. Replace(j, k) /\ queue' = queue /\ held' = held /\ JobEntry(j) = Absent
    BY <1>5 DEF JobSkip
  <2>. HIDE DEF k
  <2>3. Head(j.left) = i /\ ServerOf[j.by] = v => Excused(m, i, v)
    BY <2>2 DEF JobEntry, Excused
  <2>. QED
    BY <1>3, <2>1, <2>2, <2>3
<1>6. CASE JobFind(j)
  <2> DEFINE k == [j EXCEPT !.client = JobEntry(j)]
  <2>1. k.by = j.by /\ k.msg = j.msg /\ k.left = j.left
    BY <1>4
  <2>2. Replace(j, k) /\ queue' = queue /\ held' = held
    BY <1>6 DEF JobFind
  <2>. HIDE DEF k
  <2>. QED
    BY <1>3, <2>1, <2>2
<1>7. CASE JobGive(j)
  <2> DEFINE k == [j EXCEPT !.left = Tail(j.left), !.client = Nil]
  <2>1. k.by = j.by /\ k.msg = j.msg /\ k.left = Tail(j.left)
    BY <1>4
  <2>2. /\ Replace(j, k) /\ queue' = queue /\ held' = held
        /\ given' = [given EXCEPT ![j.msg][Head(j.left)] = @ + 1]
    BY <1>7 DEF JobGive
  <2>. HIDE DEF k
  <2>3. j.msg = m /\ Head(j.left) = i => Excused(m, i, v)
    <3>1. given \in [Msgs -> [Ids -> Nat]]
      BY <1>1 DEF CountInv
    <3>2. j.msg = m /\ Head(j.left) = i => given'[m][i] = given[m][i] + 1
      BY <2>2, <3>1
    <3>. QED
      BY <3>1, <3>2 DEF Excused
  <2>. QED
    BY <1>3, <2>1, <2>2, <2>3
<1>. QED
  BY <1>2, <1>5, <1>6, <1>7 DEF JobStep

\* Sending adds to a queue, or ends a server.
LEMMA SendingExcused ==
    ASSUME IInv, NEW x \in Msgs, Submit(x) \/ SendStep(x),
           NEW m, NEW i, NEW v \in Servers, Pending(m, i, v)
    PROVE  Pending(m, i, v)' \/ Excused(m, i, v)
<1>1. CASE PublishPanics(x)
  <2>1. Dies(Origin(x)) /\ Origin(x) \in Servers
    BY <1>1, FlowAssumption DEF PublishPanics, Panic, Origin
  <2>. QED
    BY <2>1, DiesExcused
<1>2. Pending(m, i, v)' <=> (InQueue(m, i, v)' \/ InHand(m, i, v)' \/ AtWork(m, i, v)')
  BY WherePending, PTL
<1>3. CASE UNCHANGED <<queue, held, jobs>>
  BY <1>2, <1>3, WherePending DEF InQueue, InHand, AtWork, HasTarget, At, JobsAt
<1>4. ASSUME NEW w \in Queues, PublishWorking(x, w) PROVE Pending(m, i, v)'
  <2> DEFINE c == [msg |-> x, targets |-> group[x][w]]
  <2>1. /\ queue' = [queue EXCEPT ![w] = Append(queue[w], c)]
        /\ held' = held /\ jobs' = jobs /\ group[x][w] # <<>>
    BY <1>4 DEF PublishWorking, recvVars
  <2>2. c \in FullCopies
    BY <2>1 DEF IInv, SendInv, FullCopies, Copies
  <2>. HIDE DEF c
  <2>3. InHand(m, i, v) \/ AtWork(m, i, v) => InHand(m, i, v)' \/ AtWork(m, i, v)'
    BY <2>1 DEF InHand, AtWork, HasTarget, At, JobsAt
  <2>4. queue \in [Queues -> Seq(FullCopies)] /\ v \in Queues
    BY DEF IInv, CopyInv, Queues
  <2>5. ASSUME NEW k \in DOMAIN queue[v], HasTarget(queue[v][k], m, i) PROVE InQueue(m, i, v)'
    <3>1. CASE v # w
      <4>1. queue'[v] = queue[v]
        BY <2>1, <2>4, <3>1
      <4>. QED
        BY <2>5, <4>1 DEF InQueue, HasTarget
    <3>2. CASE v = w
      <4>1. queue'[v] = Append(queue[v], c)
        BY <2>1, <2>4, <3>2
      <4>2. \E n \in DOMAIN Append(queue[v], c) : Append(queue[v], c)[n] = queue[v][k]
        BY <2>2, <2>4, QueueAppended
      <4>. QED
        BY <2>5, <4>1, <4>2 DEF InQueue, HasTarget
    <3>. QED
      BY <3>1, <3>2
  <2>. QED
    BY <1>2, <2>3, <2>5, WherePending DEF InQueue
<1>. QED
  BY <1>1, <1>3, <1>4 DEF Submit, SendStep, RunSendHandlers, Lookup, LookupFails, recvVars

\* No step loses a message for a target without an excuse.
LEMMA StepKeeps ==
    ASSUME IInv, [Next]_vars
    PROVE  \A m \in Msgs, i \in Ids, v \in Servers :
               Pending(m, i, v) => Pending(m, i, v)' \/ Excused(m, i, v)
<1>. SUFFICES ASSUME NEW m \in Msgs, NEW i \in Ids, NEW v \in Servers, Pending(m, i, v)
              PROVE  Pending(m, i, v)' \/ Excused(m, i, v)
  OBVIOUS
<1>1. CASE UNCHANGED <<queue, held, jobs>>
  <2>1. Pending(m, i, v)' <=> (InQueue(m, i, v)' \/ InHand(m, i, v)' \/ AtWork(m, i, v)')
    BY WherePending, PTL
  <2>. QED
    BY <1>1, <2>1, WherePending DEF InQueue, InHand, AtWork, HasTarget, At, JobsAt
<1>2. CASE SessionStep
  <2>1. UNCHANGED <<queue, held, jobs>>
    BY <1>2, HubSteps DEF SessionStep, Restart, Publish, WriterTakes, WriterFails, Unroute, recvVars
  <2>. QED
    BY <1>1, <2>1
<1>3. ASSUME NEW w \in Servers, Crash(w) PROVE Pending(m, i, v)' \/ Excused(m, i, v)
  BY <1>3, DiesExcused DEF Crash
<1>4. CASE Next
  BY <1>2, <1>3, <1>4, NextCases, SendingExcused, ConsumerKeeps, JobKeeps
<1>5. CASE UNCHANGED vars
  BY <1>1, <1>5 DEF vars
<1>. QED
  BY <1>4, <1>5

\* A message that reached a server's queue stays there, with a consumer or with
\* a goroutine until a client of the target has it, the server has no entry for
\* the target, or the server ends after acknowledging it (client.go:197).
THEOREM NothingForgotten == Spec => KeptUntilGiven
<1>1. IInv /\ [Next]_vars =>
          [\A m \in Msgs, i \in Ids, v \in Servers :
             Pending(m, i, v) /\ ~Pending(m, i, v)' =>
                \/ given'[m][i] > given[m][i]
                \/ entry[v][i] = Absent
                \/ ~up'[v] /\ ~Unacknowledged(m, i, v)]_vars
  BY StepKeeps DEF Excused
<1>. QED
  BY <1>1, Inductive, PTL DEF Spec, KeptUntilGiven

\* The three values that are no session differ from each other.
LEMMA Constants3 ==
    /\ Nil \notin Sessions /\ Absent \notin Sessions /\ Nowhere \notin Sessions
    /\ Nil # Absent /\ Nil # Nowhere /\ Absent # Nowhere
<1>0. IsFiniteSet({Nil}) /\ Cardinality({Nil}) = 1
  BY FS_Singleton
<1>1. /\ IsFiniteSet({Nil} \cup {Absent})
      /\ Cardinality({Nil} \cup {Absent}) = IF Absent \in {Nil} THEN 1 ELSE 1 + 1
  BY <1>0, FS_AddElement
<1>2. Cardinality(({Nil} \cup {Absent}) \cup {Nowhere})
        = IF Nowhere \in {Nil} \cup {Absent} THEN Cardinality({Nil} \cup {Absent})
          ELSE Cardinality({Nil} \cup {Absent}) + 1
  BY <1>1, FS_AddElement
<1>3. ({Nil} \cup {Absent}) \cup {Nowhere} = {Nil, Absent, Nowhere}
  OBVIOUS
<1>4. Cardinality({Nil, Absent, Nowhere}) = 3
  BY FlowAssumption
<1>5. Nil # Absent /\ Nowhere \notin {Nil} \cup {Absent}
  BY <1>1, <1>2, <1>3, <1>4
<1>. QED
  BY <1>5, FlowAssumption

-----------------------------------------------------------------------------
(* Which client a message is given to, and what ends a server. *)

\* The entry of an id is a session with that id at that server, which may have
\* ended since another overwrote it and left; it is nil only once the map lost such
\* a session to its own RemoveClient.  A client that was found is one of the target.
ClientInv ==
    /\ \A v \in Servers, i \in Ids : entry[v][i] \in Sessions =>
          /\ ServerOf[entry[v][i]] = v /\ IdOf[entry[v][i]] = i
          /\ life[entry[v][i]] \in {"live", "leaving", "closed"}
    /\ \A v \in Servers, i \in Ids : entry[v][i] = Nil =>
          \E s \in At(v) : IdOf[s] = i /\ life[s] \in {"early", "leaving", "closed"}
    /\ \A j \in jobs : j.client # Nil =>
          /\ j.client \in At(ServerOf[j.by])
          /\ IdOf[j.client] = Head(j.left)
          /\ life[j.client] \in {"live", "leaving", "closed"}

\* A server that has ended has no session, no consumer, no goroutine.
DownInv ==
    \A v \in Servers : ~up[v] =>
        /\ \A s \in At(v) : /\ life[s] \in {"new", "closed"}
                            /\ consumer[s] = "off" /\ ~writing[s]
        /\ \A i \in Ids : entry[v][i] = Absent
        /\ SendingAt(v) = {} /\ JobsAt(v) = {}

\* What belongs to server v stays as it is.
StillAt(v) ==
    /\ UNCHANGED <<entry[v], channels[v]>>
    /\ \A m \in Msgs : Origin(m) = v => UNCHANGED <<stage[m], group[m]>>
    /\ \A s \in At(v) : UNCHANGED <<life[s], consumer[s], held[s], outbox[s], writing[s]>>

\* Nothing that was running in a server acts after its end.
DeadIsQuiet == [][\A v \in Servers : ~up[v] => StillAt(v)]_vars

\* A message is given to a client of its target that is not closed, at the
\* server whose queue the copy was in.
GivenToItsClient ==
    [][\A m \in Msgs, i \in Ids : given'[m][i] # given[m][i] =>
          \E j \in jobs :
             /\ j.msg = m /\ Head(j.left) = i
             /\ j.client \in At(ServerOf[j.by]) /\ IdOf[j.client] = i
             /\ life[j.client] \in {"live", "leaving"}
             /\ up[ServerOf[j.by]]]_vars

\* The two panics of Hub.ReceiveMessage, at a nil entry and at a closed client,
\* wait only for a target that had a session here whose RemoveClient has run.
PanicsForLeaver ==
    \A j \in jobs :
        \/ j.client = Nil /\ JobEntry(j) = Nil
        \/ j.client # Nil /\ life[j.client] = "closed"
        => \E s \in At(ServerOf[j.by]) :
              IdOf[s] = Head(j.left) /\ life[s] \in {"early", "leaving", "closed"}

\* Sending, consuming and etcd leave the sessions and the goroutines alone, but
\* for the goroutine that a consumer starts without a client.
LEMMA ClientSame ==
    ASSUME ClientInv, UNCHANGED <<entry, life>>,
           \A j \in jobs' : j \in jobs \/ j.client = Nil
    PROVE  ClientInv'
BY DEF ClientInv, At

\* The end of a server keeps ClientInv: its sessions are closed, its map is empty.
LEMMA DiesKeepsClients ==
    ASSUME IInv, ClientInv, NEW w \in Servers, Dies(w)
    PROVE  ClientInv'
<1>1. /\ entry' = [entry EXCEPT ![w] = [i \in Ids |-> Absent]]
      /\ life' = [s \in Sessions |-> IF ServerOf[s] = w /\ life[s] # "new"
                                     THEN "closed" ELSE life[s]]
      /\ jobs' = jobs \ JobsAt(w)
  BY DEF Dies
<1>2. /\ entry \in [Servers -> [Ids -> Sessions \cup {Nil, Absent}]]
      /\ IdOf \in [Sessions -> Ids] /\ ServerOf \in [Sessions -> Servers]
      /\ Nil \notin Sessions /\ Absent \notin Sessions /\ Nil # Absent
      /\ jobs \subseteq FullJobs
  BY FlowAssumption, Constants3 DEF IInv, WorldInv, CopyInv
<1>3. ASSUME NEW v \in Servers, NEW i \in Ids
      PROVE  entry'[v][i] = IF v = w THEN Absent ELSE entry[v][i]
  BY <1>1, <1>2
<1>4. ASSUME NEW v \in Servers, NEW i \in Ids, entry'[v][i] \in Sessions
      PROVE  /\ ServerOf[entry'[v][i]] = v /\ IdOf[entry'[v][i]] = i
             /\ life'[entry'[v][i]] \in {"live", "leaving", "closed"}
  BY <1>1, <1>2, <1>3, <1>4 DEF ClientInv
<1>5. ASSUME NEW v \in Servers, NEW i \in Ids, entry'[v][i] = Nil
      PROVE  \E s \in At(v) : IdOf[s] = i /\ life'[s] \in {"early", "leaving", "closed"}
  BY <1>1, <1>2, <1>3, <1>5 DEF ClientInv, At
<1>6. ASSUME NEW j \in jobs', j.client # Nil
      PROVE  /\ j.client \in At(ServerOf[j.by]) /\ IdOf[j.client] = Head(j.left)
             /\ life'[j.client] \in {"live", "leaving", "closed"}
  BY <1>1, <1>2, <1>6 DEF ClientInv, At
<1>. QED
  BY <1>4, <1>5, <1>6 DEF ClientInv, At

\* A session puts only itself or nil in its map, nil as RemoveClient runs for it.
LEMMA SessionKeepsClients == IInv /\ ClientInv /\ SessionStep => ClientInv'
<1>. SUFFICES ASSUME IInv, ClientInv, SessionStep PROVE ClientInv'
  OBVIOUS
<1>. USE DEF sessionVars, sendVars, recvVars, clientVars, histVars
<1>1. /\ entry \in [Servers -> [Ids -> Sessions \cup {Nil, Absent}]]
      /\ life \in [Sessions -> {"new", "early", "live", "leaving", "closed"}]
      /\ IdOf \in [Sessions -> Ids] /\ ServerOf \in [Sessions -> Servers]
      /\ Nil \notin Sessions /\ Absent \notin Sessions /\ Nil # Absent
  BY FlowAssumption, Constants3 DEF IInv, WorldInv
<1>2. ASSUME \/ \E v \in Servers : Restart(v)
             \/ \E s \in Sessions : Publish(s) \/ WriterTakes(s) \/ WriterFails(s)
             \/ \E i \in Ids : Unroute(i)
      PROVE  ClientInv'
  BY <1>2, ClientSame DEF Restart, Publish, WriterTakes, WriterFails, Unroute
<1>3. ASSUME NEW s \in Sessions, HubStep(s) PROVE ClientInv'
  <2>1. PICK l \in {"early", "live", "leaving", "closed"} :
           /\ life' = [life EXCEPT ![s] = l] /\ jobs' = jobs
           /\ life[s] \in {"live", "leaving", "closed"} => l \in {"leaving", "closed"}
           /\ life[s] \in {"early", "leaving", "closed"} => l \in {"leaving", "closed"}
           /\ \/ entry' = entry
              \/ SetEntry(s, s) /\ l \in {"live", "leaving"}
              \/ SetEntry(s, Nil) /\ l \in {"early", "leaving"}
    BY <1>3, HubSteps
  <2>2. ASSUME NEW t \in Sessions PROVE life'[t] = IF t = s THEN l ELSE life[t]
    BY <1>1, <2>1
  <2>3. ASSUME NEW v \in Servers, NEW i \in Ids
        PROVE  \/ entry'[v][i] = entry[v][i]
               \/ /\ v = ServerOf[s] /\ i = IdOf[s]
                  /\ \/ entry'[v][i] = s /\ l \in {"live", "leaving"}
                     \/ entry'[v][i] = Nil /\ l \in {"early", "leaving"}
    BY <1>1, <2>1 DEF SetEntry
  <2>4. ASSUME NEW v \in Servers, NEW i \in Ids, entry'[v][i] \in Sessions
        PROVE  /\ ServerOf[entry'[v][i]] = v /\ IdOf[entry'[v][i]] = i
               /\ life'[entry'[v][i]] \in {"live", "leaving", "closed"}
    <3>1. CASE entry'[v][i] = entry[v][i]
      <4>1. PICK e \in Sessions : e = entry[v][i]
        BY <2>4, <3>1
      <4>2. ServerOf[e] = v /\ IdOf[e] = i /\ life[e] \in {"live", "leaving", "closed"}
        BY <4>1 DEF ClientInv
      <4>3. life'[e] \in {"live", "leaving", "closed"}
        BY <2>1, <2>2, <4>2
      <4>. QED
        BY <3>1, <4>1, <4>2, <4>3
    <3>2. CASE v = ServerOf[s] /\ i = IdOf[s] /\ entry'[v][i] = s /\ l \in {"live", "leaving"}
      BY <2>2, <3>2
    <3>. QED
      BY <1>1, <2>3, <2>4, <3>1, <3>2
  <2>5. ASSUME NEW v \in Servers, NEW i \in Ids, entry'[v][i] = Nil
        PROVE  \E e \in At(v) : IdOf[e] = i /\ life'[e] \in {"early", "leaving", "closed"}
    <3>1. CASE entry'[v][i] = entry[v][i]
      <4>1. PICK e \in At(v) : IdOf[e] = i /\ life[e] \in {"early", "leaving", "closed"}
        BY <2>5, <3>1 DEF ClientInv
      <4>2. life'[e] \in {"early", "leaving", "closed"}
        BY <2>1, <2>2, <4>1 DEF At
      <4>. QED
        BY <4>1, <4>2
    <3>2. CASE v = ServerOf[s] /\ i = IdOf[s] /\ l \in {"early", "leaving"}
      BY <2>2, <3>2 DEF At
    <3>. QED
      BY <1>1, <2>3, <2>5, <3>1, <3>2
  <2>6. ASSUME NEW j \in jobs', j.client # Nil
        PROVE  /\ j.client \in At(ServerOf[j.by]) /\ IdOf[j.client] = Head(j.left)
               /\ life'[j.client] \in {"live", "leaving", "closed"}
    <3>1. /\ j.client \in At(ServerOf[j.by]) /\ IdOf[j.client] = Head(j.left)
          /\ life[j.client] \in {"live", "leaving", "closed"}
      BY <2>1, <2>6 DEF ClientInv
    <3>. QED
      BY <2>1, <2>2, <3>1 DEF At
  <2>. QED
    BY <2>4, <2>5, <2>6 DEF ClientInv, At
<1>. QED
  BY <1>2, <1>3 DEF SessionStep

\* A goroutine takes the client its target has in the map.
LEMMA JobKeepsClients ==
    ASSUME IInv, ClientInv, NEW j \in jobs, JobStep(j)
    PROVE  ClientInv'
<1>. USE DEF sessionVars, sendVars, recvVars, clientVars, histVars
<1>1. /\ j \in FullJobs /\ jobs \subseteq FullJobs /\ j.by \in Sessions
      /\ j.left \in Seq(Ids) /\ j.left # <<>> /\ ServerOf[j.by] \in Servers
      /\ Nil \notin Sessions
  BY FlowAssumption, Constants3 DEF IInv, CopyInv, FullJobs, Jobs
<1>2. Head(j.left) \in Ids
  BY <1>1, HeadTailProperties
<1>3. CASE JobSkip(j) \/ JobGive(j)
  <2>1. PICK k : k.client = Nil /\ Replace(j, k)
    <3>1. [j EXCEPT !.left = Tail(j.left)].client = j.client
      BY <1>1 DEF FullJobs, Jobs
    <3>2. [j EXCEPT !.left = Tail(j.left), !.client = Nil].client = Nil
      BY <1>1 DEF FullJobs, Jobs
    <3>. QED
      BY <1>3, <3>1, <3>2 DEF JobSkip, JobGive
  <2>2. \A x \in jobs' : x \in jobs \/ x.client = Nil
    BY <2>1 DEF Replace
  <2>. QED
    BY <1>3, <2>2, ClientSame DEF JobSkip, JobGive
<1>4. CASE JobFind(j)
  <2>1. PICK k : /\ k.client = JobEntry(j) /\ k.left = j.left /\ k.by = j.by
                 /\ Replace(j, k)
    <3>1. /\ [j EXCEPT !.client = JobEntry(j)].client = JobEntry(j)
          /\ [j EXCEPT !.client = JobEntry(j)].left = j.left
          /\ [j EXCEPT !.client = JobEntry(j)].by = j.by
      BY <1>1 DEF FullJobs, Jobs
    <3>. QED
      BY <1>4, <3>1 DEF JobFind
  <2>2. UNCHANGED <<entry, life>> /\ JobEntry(j) \in Sessions
    BY <1>4 DEF JobFind
  <2>3. /\ k.client \in At(ServerOf[k.by]) /\ IdOf[k.client] = Head(k.left)
        /\ life[k.client] \in {"live", "leaving", "closed"}
    BY <1>1, <1>2, <2>1, <2>2 DEF JobEntry, ClientInv, At
  <2>. QED
    BY <2>1, <2>2, <2>3 DEF ClientInv, At, Replace
<1>5. CASE JobNilPanics(j) \/ JobClosedPanics(j)
  BY <1>1, <1>5, DiesKeepsClients DEF JobNilPanics, JobClosedPanics, Panic
<1>. QED
  BY <1>3, <1>4, <1>5 DEF JobStep

\* Every step keeps ClientInv.
LEMMA ClientStep == IInv /\ ClientInv /\ [Next]_vars => ClientInv'
<1>. SUFFICES ASSUME IInv, ClientInv, [Next]_vars PROVE ClientInv'
  OBVIOUS
<1>. USE DEF sessionVars, sendVars, recvVars, clientVars, histVars
<1>1. ASSUME NEW v \in Servers, Crash(v) PROVE ClientInv'
  BY <1>1, DiesKeepsClients DEF Crash
<1>2. ASSUME NEW m \in Msgs, Submit(m) \/ SendStep(m) PROVE ClientInv'
  <2>1. CASE PublishPanics(m)
    <3>1. Origin(m) \in Servers
      BY FlowAssumption DEF Origin
    <3>. QED
      BY <2>1, <3>1, DiesKeepsClients DEF PublishPanics, Panic
  <2>2. CASE ~PublishPanics(m)
    BY <1>2, <2>2, ClientSame DEF Submit, SendStep, RunSendHandlers, Lookup, LookupFails,
                                  PublishWorking
  <2>. QED
    BY <2>1, <2>2
<1>3. ASSUME NEW s \in Sessions, ConsumerStep(s) \/ ConnectionLost(s) PROVE ClientInv'
  BY <1>3, ClientSame DEF ConsumerStep, Deliver, Ack, AckFails, HandOver, ConnectionLost
<1>4. CASE UNCHANGED vars
  BY <1>4, ClientSame DEF vars
<1>5. CASE Next
  BY <1>1, <1>2, <1>3, <1>5, NextCases, SessionKeepsClients, JobKeepsClients
<1>. QED
  BY <1>4, <1>5

-----------------------------------------------------------------------------
(* A server that has ended. *)

\* The end of a server leaves nothing of it, and of the others everything.
LEMMA DiesLeavesNothing ==
    ASSUME IInv, DownInv, NEW w \in Servers, Dies(w)
    PROVE  DownInv'
<1>1. /\ up \in [Servers -> BOOLEAN]
      /\ entry \in [Servers -> [Ids -> Sessions \cup {Nil, Absent}]]
      /\ life \in [Sessions -> {"new", "early", "live", "leaving", "closed"}]
      /\ stage \in [Msgs -> {"new", "handler", "lookup", "publish", "sent", "dropped"}]
      /\ ServerOf \in [Sessions -> Servers]
  BY FlowAssumption DEF IInv, WorldInv, SendInv
<1>2. /\ up' = [up EXCEPT ![w] = FALSE]
      /\ entry' = [entry EXCEPT ![w] = [i \in Ids |-> Absent]]
      /\ life' = [s \in Sessions |-> IF ServerOf[s] = w /\ life[s] # "new"
                                     THEN "closed" ELSE life[s]]
      /\ consumer' = [s \in Sessions |-> IF ServerOf[s] = w THEN "off" ELSE consumer[s]]
      /\ writing' = [s \in Sessions |-> writing[s] /\ ServerOf[s] # w]
      /\ stage' = [m \in Msgs |-> IF m \in SendingAt(w) THEN "dropped" ELSE stage[m]]
      /\ jobs' = jobs \ JobsAt(w)
  BY DEF Dies
<1>3. SUFFICES ASSUME NEW v \in Servers, ~up'[v]
      PROVE  /\ \A s \in At(v) : /\ life'[s] \in {"new", "closed"}
                                 /\ consumer'[s] = "off" /\ ~writing'[s]
             /\ \A i \in Ids : entry'[v][i] = Absent
             /\ SendingAt(v)' = {} /\ JobsAt(v)' = {}
  BY DEF DownInv, At
<1>4. v = w \/ (v # w /\ ~up[v])
  BY <1>1, <1>2, <1>3
<1>5. \A s \in At(v) : life'[s] \in {"new", "closed"} /\ consumer'[s] = "off" /\ ~writing'[s]
  BY <1>1, <1>2, <1>4 DEF DownInv, At
<1>6. \A i \in Ids : entry'[v][i] = Absent
  BY <1>1, <1>2, <1>4 DEF DownInv
<1>7. SendingAt(v)' = {}
  BY <1>1, <1>2, <1>4 DEF DownInv, SendingAt
<1>8. JobsAt(v)' = {}
  BY <1>2, <1>4 DEF DownInv, JobsAt
<1>. QED
  BY <1>5, <1>6, <1>7, <1>8

\* A session in its hub leaves the maps and sessions of other servers alone.
LEMMA HubStepSpares ==
    ASSUME IInv, NEW s \in Sessions, HubStep(s), NEW v \in Servers, v # ServerOf[s]
    PROVE  /\ \A t \in At(v) : UNCHANGED <<life[t], consumer[t], writing[t], outbox[t], held[t]>>
           /\ UNCHANGED entry[v]
<1>1. /\ entry \in [Servers -> [Ids -> Sessions \cup {Nil, Absent}]]
      /\ life \in [Sessions -> {"new", "early", "live", "leaving", "closed"}]
      /\ consumer \in [Sessions -> {"off", "wait", "got", "acked", "lost"}]
      /\ writing \in [Sessions -> BOOLEAN] /\ outbox \in [Sessions -> 0 .. BufSize]
      /\ ServerOf \in [Sessions -> Servers]
  BY FlowAssumption DEF IInv, WorldInv, CopyInv, CountInv
<1>2. held' = held /\ (entry' = entry \/ SetEntry(s, s) \/ SetEntry(s, Nil))
  BY HubSteps
<1>3. UNCHANGED entry[v]
  BY <1>1, <1>2 DEF SetEntry
<1>4. ASSUME NEW t \in Sessions, t # s
      PROVE  UNCHANGED <<life[t], consumer[t], writing[t], outbox[t]>>
  <2>1. \E l \in {"early", "live", "leaving", "closed"} : life' = [life EXCEPT ![s] = l]
    BY HubSteps
  <2>2. consumer' = consumer \/ consumer' = [consumer EXCEPT ![s] = "wait"]
    BY HubSteps
  <2>3. writing' = writing \/ \E b \in BOOLEAN : writing' = [writing EXCEPT ![s] = b]
    BY HubSteps
  <2>4. outbox' = outbox \/ outbox' = [outbox EXCEPT ![s] = 0]
    BY HubSteps
  <2>. QED
    BY <1>1, <1>4, <2>1, <2>2, <2>3, <2>4
<1>. QED
  BY <1>2, <1>3, <1>4 DEF At

\* Who acts is at a server that is up.
LEMMA ActorsAreUp ==
    ASSUME IInv, DownInv
    PROVE  /\ \A j \in jobs : up[ServerOf[j.by]]
           /\ \A s \in Sessions : consumer[s] # "off" => up[ServerOf[s]]
           /\ \A m \in Msgs : stage[m] \in {"handler", "lookup", "publish"} => up[Origin(m)]
<1>1. ServerOf \in [Sessions -> Servers] /\ jobs \subseteq FullJobs
      /\ \A m \in Msgs : Origin(m) \in Servers
  BY FlowAssumption DEF IInv, CopyInv, Origin
<1>2. \A j \in jobs : j.by \in Sessions
  BY <1>1 DEF FullJobs, Jobs
<1>. QED
  BY <1>1, <1>2 DEF DownInv, JobsAt, SendingAt, At

\* A step of something at a server that is up starts nothing at one that is not.
LEMMA DownSame ==
    ASSUME DownInv,
           \A v \in Servers : up'[v] \/ ~up[v],
           \A v \in Servers : ~up[v] =>
              /\ \A s \in At(v) : UNCHANGED <<life[s], consumer[s], writing[s]>>
              /\ \A i \in Ids : UNCHANGED entry[v][i]
              /\ \A m \in Msgs : Origin(m) = v => UNCHANGED stage[m]
              /\ JobsAt(v)' \subseteq JobsAt(v)
    PROVE  DownInv'
<1>1. SUFFICES ASSUME NEW v \in Servers, ~up'[v]
      PROVE  /\ \A s \in At(v) : /\ life'[s] \in {"new", "closed"}
                                 /\ consumer'[s] = "off" /\ ~writing'[s]
             /\ \A i \in Ids : entry'[v][i] = Absent
             /\ SendingAt(v)' = {} /\ JobsAt(v)' = {}
  BY DEF DownInv, At
<1>2. ~up[v]
  BY <1>1
<1>. QED
  BY <1>2 DEF DownInv, SendingAt

\* Every step keeps DownInv.
LEMMA DownStep == IInv /\ DownInv /\ [Next]_vars => DownInv'
<1>. SUFFICES ASSUME IInv, DownInv, [Next]_vars PROVE DownInv'
  OBVIOUS
<1>. USE DEF sessionVars, sendVars, recvVars, clientVars, histVars
<1>0. /\ up \in [Servers -> BOOLEAN]
      /\ entry \in [Servers -> [Ids -> Sessions \cup {Nil, Absent}]]
      /\ life \in [Sessions -> {"new", "early", "live", "leaving", "closed"}]
      /\ stage \in [Msgs -> {"new", "handler", "lookup", "publish", "sent", "dropped"}]
      /\ consumer \in [Sessions -> {"off", "wait", "got", "acked", "lost"}]
      /\ writing \in [Sessions -> BOOLEAN]
      /\ ServerOf \in [Sessions -> Servers] /\ IdOf \in [Sessions -> Ids]
      /\ jobs \subseteq FullJobs
      /\ \A m \in Msgs : Origin(m) \in Servers
  BY FlowAssumption DEF IInv, WorldInv, SendInv, CopyInv, CountInv, Origin
<1>1. ASSUME NEW v \in Servers, Crash(v) PROVE DownInv'
  BY <1>1, DiesLeavesNothing DEF Crash
<1>2. CASE SessionStep
  <2>1. ASSUME NEW v \in Servers, Restart(v) PROVE DownInv'
    <3>1. up' = [up EXCEPT ![v] = TRUE]
          /\ UNCHANGED <<entry, life, stage, consumer, jobs, writing>>
      BY <2>1 DEF Restart
    <3>2. \A x \in Servers : JobsAt(x)' = JobsAt(x)
      BY <3>1 DEF JobsAt
    <3>. QED
      BY <1>0, <3>1, <3>2, DownSame
  <2>2. ASSUME NEW s \in Sessions, HubStep(s) PROVE DownInv'
    <3>1. up[ServerOf[s]] /\ UNCHANGED <<up, stage, jobs>>
      BY <2>2, HubSteps
    <3>2. \A x \in Servers : JobsAt(x)' = JobsAt(x)
      BY <3>1 DEF JobsAt
    <3>3. \A x \in Servers : x # ServerOf[s] =>
             /\ \A t \in At(x) : UNCHANGED <<life[t], consumer[t], writing[t]>>
             /\ UNCHANGED entry[x]
      BY <2>2, HubStepSpares
    <3>. QED
      BY <3>1, <3>2, <3>3, DownSame
  <2>3. ASSUME \/ \E s \in Sessions : Publish(s)
               \/ \E i \in Ids : Unroute(i)
        PROVE  DownInv'
    <3>1. UNCHANGED <<up, entry, life, stage, consumer, jobs, writing>>
      BY <2>3 DEF Publish, Unroute
    <3>. QED
      BY <3>1 DEF DownInv, SendingAt, JobsAt
  <2>4. ASSUME NEW s \in Sessions, WriterTakes(s) \/ WriterFails(s) PROVE DownInv'
    <3>1. /\ UNCHANGED <<up, entry, life, stage, consumer, jobs>>
          /\ \A t \in Sessions : writing'[t] = writing[t] \/ ~writing'[t]
      BY <1>0, <2>4 DEF WriterTakes, WriterFails
    <3>. QED
      BY <3>1 DEF DownInv, SendingAt, JobsAt, At
  <2>. QED
    BY <1>2, <2>1, <2>2, <2>3, <2>4 DEF SessionStep
<1>3. ASSUME NEW m \in Msgs, Submit(m) \/ SendStep(m) PROVE DownInv'
  <2>1. CASE PublishPanics(m)
    BY <1>0, <2>1, DiesLeavesNothing DEF PublishPanics, Panic
  <2>2. CASE ~PublishPanics(m)
    <3>1. /\ UNCHANGED <<up, entry, life, consumer, jobs, writing>>
          /\ stage[m] = "new" => up[Origin(m)]
          /\ \A n \in Msgs : n # m => stage'[n] = stage[n]
          /\ stage[m] \in {"new", "handler", "lookup", "publish"}
      <4>1. CASE Submit(m)
        BY <1>0, <4>1 DEF Submit
      <4>2. CASE RunSendHandlers(m)
        BY <1>0, <4>2 DEF RunSendHandlers
      <4>3. CASE Lookup(m)
        BY <1>0, <4>3 DEF Lookup
      <4>4. CASE LookupFails(m)
        BY <1>0, <4>4 DEF LookupFails
      <4>5. ASSUME NEW v \in Queues, PublishWorking(m, v)
            PROVE  /\ UNCHANGED <<up, entry, life, consumer, jobs, writing>>
                   /\ stage[m] = "publish"
                   /\ \A n \in Msgs : n # m => stage'[n] = stage[n]
        BY <1>0, <4>5 DEF PublishWorking
      <4>. QED
        BY <1>3, <2>2, <4>1, <4>2, <4>3, <4>4, <4>5 DEF SendStep
    <3>2. up[Origin(m)]
      BY <3>1, ActorsAreUp
    <3>3. \A x \in Servers : JobsAt(x)' = JobsAt(x)
      BY <3>1 DEF JobsAt
    <3>4. \A x \in Servers : ~up[x] => \A n \in Msgs : Origin(n) = x => UNCHANGED stage[n]
      BY <3>1, <3>2
    <3>. QED
      BY <3>1, <3>3, <3>4, DownSame
  <2>. QED
    BY <2>1, <2>2
<1>4. ASSUME NEW s \in Sessions, ConsumerStep(s) \/ ConnectionLost(s) PROVE DownInv'
  <2>1. /\ consumer[s] # "off" /\ UNCHANGED <<up, entry, life, stage, writing>>
        /\ \A t \in Sessions : t # s => consumer'[t] = consumer[t]
        /\ \A j \in jobs' : j \in jobs \/ j.by = s
    BY <1>0, <1>4 DEF ConsumerStep, ConnectionLost, Deliver, Ack, AckFails, HandOver
  <2>2. up[ServerOf[s]]
    BY <2>1, ActorsAreUp
  <2>3. \A x \in Servers : ~up[x] =>
           /\ \A t \in At(x) : UNCHANGED <<life[t], consumer[t], writing[t]>>
           /\ JobsAt(x)' \subseteq JobsAt(x)
    BY <2>1, <2>2 DEF At, JobsAt
  <2>. QED
    BY <2>1, <2>3, DownSame
<1>5. ASSUME NEW j \in jobs, JobStep(j) PROVE DownInv'
  <2>1. j \in FullJobs /\ j.by \in Sessions /\ ServerOf[j.by] \in Servers /\ up[ServerOf[j.by]]
    BY <1>0, ActorsAreUp DEF FullJobs, Jobs
  <2>2. CASE JobNilPanics(j) \/ JobClosedPanics(j)
    BY <2>1, <2>2, DiesLeavesNothing DEF JobNilPanics, JobClosedPanics, Panic
  <2>3. CASE JobSkip(j) \/ JobFind(j) \/ JobGive(j)
    <3>1. UNCHANGED <<up, entry, life, stage, consumer, writing>>
      BY <2>3 DEF JobSkip, JobFind, JobGive
    <3>2. PICK k : k.by = j.by /\ Replace(j, k)
      <4>1. /\ [j EXCEPT !.left = Tail(j.left)].by = j.by
            /\ [j EXCEPT !.client = JobEntry(j)].by = j.by
            /\ [j EXCEPT !.left = Tail(j.left), !.client = Nil].by = j.by
        BY <2>1 DEF FullJobs, Jobs
      <4>. QED
        BY <2>3, <4>1 DEF JobSkip, JobFind, JobGive
    <3>3. \A x \in Servers : ~up[x] => JobsAt(x)' \subseteq JobsAt(x)
      BY <2>1, <3>1, <3>2 DEF JobsAt, Replace
    <3>. QED
      BY <3>1, <3>3, DownSame
  <2>. QED
    BY <1>5, <2>2, <2>3 DEF JobStep
<1>6. CASE UNCHANGED vars
  <2>1. UNCHANGED <<up, entry, life, stage, consumer, jobs, writing>>
    BY <1>6 DEF vars
  <2>. QED
    BY <2>1 DEF DownInv, SendingAt, JobsAt
<1>7. CASE Next
  BY <1>1, <1>2, <1>3, <1>4, <1>5, <1>7, NextCases
<1>. QED
  BY <1>6, <1>7

\* The clients in the maps, and the silence of servers that have ended, in every
\* reachable state.
THEOREM ClientsAndServers == Spec => [](IInv /\ ClientInv /\ DownInv)
<1>1. Init => ClientInv /\ DownInv
  BY FlowAssumption, Constants3
     DEF Init, ClientInv, DownInv, At, SendingAt, JobsAt, Origin
<1>. QED
  BY Inductive, <1>1, ClientStep, DownStep, PTL DEF Spec

\* What a step of a job changes of what was given.
LEMMA GivenByJob ==
    ASSUME IInv, [Next]_vars, NEW m \in Msgs, NEW i \in Ids, given'[m][i] # given[m][i]
    PROVE  \E j \in jobs : JobGive(j) /\ j.msg = m /\ Head(j.left) = i
<1>. USE DEF sessionVars, sendVars, recvVars, clientVars, histVars
<1>1. PICK j \in jobs : JobGive(j)
  <2>1. SessionStep => given' = given
    BY HubSteps DEF SessionStep, Restart, Publish, WriterTakes, WriterFails, Unroute
  <2>2. \A x \in Msgs : Submit(x) \/ SendStep(x) => given' = given
    BY DEF Submit, SendStep, RunSendHandlers, Lookup, LookupFails, PublishWorking,
           PublishPanics, Panic, Dies
  <2>3. \A s \in Sessions : ConsumerStep(s) \/ ConnectionLost(s) => given' = given
    BY DEF ConsumerStep, Deliver, Ack, AckFails, HandOver, ConnectionLost
  <2>4. \A j \in jobs : JobStep(j) => JobGive(j) \/ given' = given
    BY DEF JobStep, JobSkip, JobNilPanics, JobFind, JobClosedPanics, Panic, Dies
  <2>5. \A v \in Servers : Crash(v) => given' = given
    BY DEF Crash, Dies
  <2>6. Next
    BY DEF vars
  <2>. QED
    BY <2>1, <2>2, <2>3, <2>4, <2>5, <2>6, NextCases
<1>2. given \in [Msgs -> [Ids -> Nat]]
  BY DEF IInv, CountInv
<1>3. given' = [given EXCEPT ![j.msg] = [given[j.msg] EXCEPT ![Head(j.left)] = @ + 1]]
  BY <1>1 DEF JobGive
<1>4. j.msg = m
  BY <1>2, <1>3
<1>5. Head(j.left) = i
  BY <1>2, <1>3, <1>4
<1>. QED
  BY <1>1, <1>4, <1>5

\* A message is given to a client that has its target's id, at the server the
\* copy was queued for, and never to one that has been closed.
THEOREM GivenRight == Spec => GivenToItsClient
<1>1. IInv /\ ClientInv /\ DownInv /\ [Next]_vars
        => [\A m \in Msgs, i \in Ids : given'[m][i] # given[m][i] =>
              \E j \in jobs :
                 /\ j.msg = m /\ Head(j.left) = i
                 /\ j.client \in At(ServerOf[j.by]) /\ IdOf[j.client] = i
                 /\ life[j.client] \in {"live", "leaving"}
                 /\ up[ServerOf[j.by]]]_vars
  <2>. SUFFICES ASSUME IInv, ClientInv, DownInv, [Next]_vars, NEW m \in Msgs, NEW i \in Ids,
                       given'[m][i] # given[m][i]
                PROVE  \E j \in jobs :
                          /\ j.msg = m /\ Head(j.left) = i
                          /\ j.client \in At(ServerOf[j.by]) /\ IdOf[j.client] = i
                          /\ life[j.client] \in {"live", "leaving"}
                          /\ up[ServerOf[j.by]]
    OBVIOUS
  <2>1. PICK j \in jobs : JobGive(j) /\ j.msg = m /\ Head(j.left) = i
    BY GivenByJob
  <2>2. j.client # Nil /\ life[j.client] # "closed"
    BY <2>1 DEF JobGive
  <2>3. /\ j.client \in At(ServerOf[j.by]) /\ IdOf[j.client] = i
        /\ life[j.client] \in {"live", "leaving", "closed"}
    BY <2>1, <2>2 DEF ClientInv
  <2>4. life[j.client] \in {"live", "leaving"}
    BY <2>2, <2>3 DEF At, IInv, WorldInv
  <2>. QED
    BY <2>1, <2>3, <2>4, ActorsAreUp
<1>. QED
  BY <1>1, ClientsAndServers, PTL DEF Spec, GivenToItsClient

\* The panics of flow_nil take a session of the target that was removed: a
\* goroutine all of whose targets stay, or never were here, meets neither.
THEOREM LeaversOnly == Spec => []PanicsForLeaver
<1>1. IInv /\ ClientInv => PanicsForLeaver
  <2>. SUFFICES ASSUME IInv, ClientInv, NEW j \in jobs,
                       \/ j.client = Nil /\ JobEntry(j) = Nil
                       \/ j.client # Nil /\ life[j.client] = "closed"
                PROVE  \E s \in At(ServerOf[j.by]) :
                          IdOf[s] = Head(j.left) /\ life[s] \in {"early", "leaving", "closed"}
    BY DEF PanicsForLeaver
  <2>1. CASE j.client = Nil /\ JobEntry(j) = Nil
    <3>1. j.left \in Seq(Ids) /\ j.left # <<>> /\ ServerOf[j.by] \in Servers
      BY FlowAssumption DEF IInv, CopyInv, FullJobs, Jobs
    <3>2. Head(j.left) \in Ids
      BY <3>1, HeadTailProperties
    <3>. QED
      BY <2>1, <3>1, <3>2 DEF JobEntry, ClientInv
  <2>2. CASE j.client # Nil /\ life[j.client] = "closed"
    BY <2>2 DEF ClientInv
  <2>. QED
    BY <2>1, <2>2
<1>. QED
  BY <1>1, ClientsAndServers, PTL

\* The end of one server is nothing to the memory of another.
LEMMA DiesSpares ==
    ASSUME IInv, NEW w \in Servers, NEW v \in Servers, v # w, Dies(w)
    PROVE  StillAt(v)
<1>1. /\ entry \in [Servers -> [Ids -> Sessions \cup {Nil, Absent}]]
      /\ channels \in [Servers -> 0 .. ChannelMax]
  BY DEF IInv, WorldInv
<1>2. \A m \in Msgs : Origin(m) = v => m \notin SendingAt(w)
  BY DEF SendingAt
<1>3. UNCHANGED <<entry[v], channels[v]>>
  BY <1>1 DEF Dies
<1>4. \A m \in Msgs : Origin(m) = v => UNCHANGED <<stage[m], group[m]>>
  BY <1>2 DEF Dies
<1>5. \A s \in At(v) : UNCHANGED <<life[s], consumer[s], held[s], outbox[s], writing[s]>>
  <2>1. writing \in [Sessions -> BOOLEAN]
    BY DEF IInv, CountInv
  <2>. QED
    BY <2>1 DEF Dies, At
<1>. QED
  BY <1>3, <1>4, <1>5 DEF StillAt

\* A step leaves a server that has ended, and is not started by it, as it is.
LEMMA DeadStays ==
    ASSUME IInv, ClientInv, DownInv, [Next]_vars, NEW v \in Servers, ~up[v]
    PROVE  StillAt(v)
<1>. USE DEF sessionVars, sendVars, recvVars, clientVars, histVars
<1>0. /\ up \in [Servers -> BOOLEAN]
      /\ entry \in [Servers -> [Ids -> Sessions \cup {Nil, Absent}]]
      /\ channels \in [Servers -> 0 .. ChannelMax]
      /\ life \in [Sessions -> {"new", "early", "live", "leaving", "closed"}]
      /\ stage \in [Msgs -> {"new", "handler", "lookup", "publish", "sent", "dropped"}]
      /\ group \in [Msgs -> [Queues -> Seq(Ids)]]
      /\ consumer \in [Sessions -> {"off", "wait", "got", "acked", "lost"}]
      /\ held \in [Sessions -> FullCopies \cup {NoCopy}]
      /\ outbox \in [Sessions -> 0 .. BufSize] /\ writing \in [Sessions -> BOOLEAN]
      /\ ServerOf \in [Sessions -> Servers] /\ IdOf \in [Sessions -> Ids]
      /\ jobs \subseteq FullJobs
      /\ \A m \in Msgs : Origin(m) \in Servers
  BY FlowAssumption DEF IInv, WorldInv, SendInv, CopyInv, CountInv, Origin
<1>1. ASSUME NEW w \in Servers, Crash(w) PROVE StillAt(v)
  BY <1>1, DiesSpares DEF Crash
<1>2. CASE SessionStep
  <2>1. ASSUME \/ \E w \in Servers : Restart(w)
               \/ \E s \in Sessions : Publish(s)
               \/ \E i \in Ids : Unroute(i)
        PROVE  StillAt(v)
    BY <2>1 DEF Restart, Publish, Unroute, StillAt
  <2>2. ASSUME NEW s \in Sessions, HubStep(s) PROVE StillAt(v)
    <3>1. ServerOf[s] # v /\ UNCHANGED <<channels, stage, group>>
      BY <2>2, HubSteps
    <3>. QED
      BY <2>2, <3>1, HubStepSpares DEF StillAt
  <2>3. ASSUME NEW s \in Sessions, WriterTakes(s) \/ WriterFails(s) PROVE StillAt(v)
    <3>1. /\ writing[s] /\ UNCHANGED <<entry, channels, stage, group, life, consumer, held>>
          /\ \A t \in Sessions : t # s => UNCHANGED <<outbox[t], writing[t]>>
      BY <1>0, <2>3 DEF WriterTakes, WriterFails
    <3>2. s \notin At(v)
      BY <3>1 DEF DownInv
    <3>. QED
      BY <3>1, <3>2 DEF StillAt, At
  <2>. QED
    BY <1>2, <2>1, <2>2, <2>3 DEF SessionStep
<1>3. ASSUME NEW m \in Msgs, Submit(m) \/ SendStep(m) PROVE StillAt(v)
  <2>1. Origin(m) # v
    BY <1>3, ActorsAreUp DEF Submit, SendStep, RunSendHandlers, Lookup, LookupFails,
                             PublishWorking, PublishPanics
  <2>2. CASE PublishPanics(m)
    BY <1>0, <2>1, <2>2, DiesSpares DEF PublishPanics, Panic
  <2>3. CASE ~PublishPanics(m)
    <3>1. /\ UNCHANGED <<entry, life, consumer, held, outbox, writing>>
          /\ \/ channels' = channels
             \/ channels' = [channels EXCEPT ![Origin(m)] = @ + 1]
          /\ \A n \in Msgs : n # m => UNCHANGED <<stage[n], group[n]>>
      <4>1. CASE Submit(m)
        BY <1>0, <4>1 DEF Submit
      <4>2. CASE RunSendHandlers(m)
        BY <1>0, <4>2 DEF RunSendHandlers
      <4>3. CASE Lookup(m)
        BY <1>0, <4>3 DEF Lookup
      <4>4. CASE LookupFails(m)
        BY <1>0, <4>4 DEF LookupFails
      <4>5. ASSUME NEW x \in Queues, PublishWorking(m, x)
            PROVE  /\ UNCHANGED <<entry, life, consumer, held, outbox, writing>>
                   /\ channels' = [channels EXCEPT ![Origin(m)] = @ + 1]
                   /\ \A n \in Msgs : n # m => UNCHANGED <<stage[n], group[n]>>
        BY <1>0, <4>5 DEF PublishWorking
      <4>. QED
        BY <1>3, <2>3, <4>1, <4>2, <4>3, <4>4, <4>5 DEF SendStep
    <3>. QED
      BY <1>0, <2>1, <3>1 DEF StillAt
  <2>. QED
    BY <2>2, <2>3
<1>4. ASSUME NEW s \in Sessions, ConsumerStep(s) \/ ConnectionLost(s) PROVE StillAt(v)
  <2>1. /\ consumer[s] # "off" /\ UNCHANGED <<entry, channels, stage, group, life,
                                                   outbox, writing>>
        /\ \A t \in Sessions : t # s => UNCHANGED <<consumer[t], held[t]>>
    BY <1>0, <1>4 DEF ConsumerStep, ConnectionLost, Deliver, Ack, AckFails, HandOver
  <2>2. ServerOf[s] # v
    BY <2>1, ActorsAreUp
  <2>. QED
    BY <2>1, <2>2 DEF StillAt, At
<1>5. ASSUME NEW j \in jobs, JobStep(j) PROVE StillAt(v)
  <2>1. ServerOf[j.by] \in Servers /\ ServerOf[j.by] # v
    BY <1>0, ActorsAreUp DEF FullJobs, Jobs
  <2>2. CASE JobNilPanics(j) \/ JobClosedPanics(j)
    BY <2>1, <2>2, DiesSpares DEF JobNilPanics, JobClosedPanics, Panic
  <2>3. CASE JobSkip(j) \/ JobFind(j)
    BY <2>3 DEF JobSkip, JobFind, StillAt
  <2>4. CASE JobGive(j)
    <3>1. j.client \in At(ServerOf[j.by])
      BY <2>4 DEF JobGive, ClientInv
    <3>2. \A t \in At(v) : UNCHANGED outbox[t]
      BY <1>0, <2>1, <2>4, <3>1 DEF JobGive, At
    <3>. QED
      BY <2>4, <3>2 DEF JobGive, StillAt
  <2>. QED
    BY <1>5, <2>2, <2>3, <2>4 DEF JobStep
<1>6. CASE UNCHANGED vars
  BY <1>6 DEF vars, StillAt
<1>7. CASE Next
  BY <1>1, <1>2, <1>3, <1>4, <1>5, <1>7, NextCases
<1>. QED
  BY <1>6, <1>7

\* After the end of a server nothing of it moves until its next start: its map,
\* its channels, its sendings, its sessions and their consumers.
THEOREM DeadServerQuiet == Spec => DeadIsQuiet
<1>1. IInv /\ ClientInv /\ DownInv /\ [Next]_vars
        => [\A v \in Servers : ~up[v] => StillAt(v)]_vars
  BY DeadStays
<1>. QED
  BY <1>1, ClientsAndServers, PTL DEF Spec, DeadIsQuiet

=============================================================================
