-------------------------- MODULE LogWritersProofs --------------------------
(* Theorems about LogWriters, for any goroutines, writers, levels and clock. *)
EXTENDS LogWriters, FoldLemmas, SequenceTheorems, TLAPS

(***************************************************************************)
(* The inductive invariant.                                                *)
(***************************************************************************)

\* A goroutine in the function of setupOnce runs SetUp; one that replaces the
\* writer has one to put in; one that is about to log, or reports discards on
\* the way, has a writer to log to.
PlaceInv ==
    \A p \in Procs :
       /\ pc[p] \in {"level", "level2", "open"} => local[p].op = "setup"
       /\ pc[p] \in {"guard", "store"} => local[p].w # <<>>
       /\ pc[p] \in {"clock", "compare", "discard", "set", "report", "errorf",
                  "execute"} =>
             local[p].left # <<>>
       /\ local[p].kind = "report" => local[p].rest # <<>>

\* What the limiter compares with is a time at which it let a stack through, or
\* long ago, and whoever is about to discard has seen such a time.
LimiterInv ==
    /\ lastTime = LongAgo \/ lastTime \in runs
    /\ \A p \in Procs : pc[p] = "discard" => \E t \in runs : local[p].at - t <= Threshold

\* While a Disable holds the level says so and nobody is about to store.
ShutInv ==
    shut = "yes" => /\ level = DisableLevel
                    /\ \A p \in Procs : pc[p] # "store"
                    /\ Range(writer) \subseteq {"nop", "console"}

\* The logs are opened in their order, and closed only when all are open.
\* Whoever has the file writer, or may bring it into use, has all of them.
LogsInv ==
    /\ \A i, j \in 1 .. 5 : i < j /\ logs[Logs[i]] = "absent" => logs[Logs[j]] = "absent"
    /\ once = "no" => logs["stat"] = "absent"
    /\ \A p \in Procs : pc[p] \in {"level", "level2", "open"} => logs["stat"] = "absent"
    /\ logs["stat"] = "absent" =>
          /\ \A i \in 1 .. 5 : logs[Logs[i]] # "closed"
          /\ "file" \notin Range(writer)
          /\ \A p \in Procs :
                "file" \notin Range(local[p].w) \cup Range(local[p].left) \cup Range(local[p].rest)

\* Logs that are partly closed are being closed, or a fault stopped that.
ClosingInv ==
    logs["stat"] = "absent" \/ faults > 0
    \/ (\A i \in 1 .. 5 : logs[Logs[i]] = "open")
    \/ (\A i \in 1 .. 5 : logs[Logs[i]] = "closed")
    \/ \E p \in Procs : pc[p] = "close" /\ "file" \in Range(local[p].left)

IInv == /\ TypeOK /\ PlaceInv /\ SetUpOnce /\ LimiterInv /\ ChainKept /\ ShutInv
        /\ LogsInv /\ ClosingInv

-----------------------------------------------------------------------------
(* Records, sequences and the five logs. *)

Locals == [op   : {"none", "setup", "set", "add"},
           w    : Seq(Leaves), left : Seq(Leaves), rest : Seq(Leaves),
           kind : AllKinds \cup {"none", "report"},
           at   : 0 .. MaxTicks, n : Nat, raced : BOOLEAN]

\* A goroutine outside all calls.
LEMMA IdleType == Idle \in Locals
<1>1. <<>> \in Seq(Leaves)
  BY EmptySeq
<1>. QED
  BY <1>1, LogAssumption DEF Idle, Locals

\* Spoilt changes nothing but the mark of an AddWriter that was raced.
LEMMA SpoiltKeeps ==
    ASSUME NEW p \in Procs, NEW loc \in [Procs -> Locals]
    PROVE  /\ Spoilt(p, loc) \in [Procs -> Locals]
           /\ Spoilt(p, loc)[p] = loc[p]
           /\ \A q \in Procs :
                 /\ Spoilt(p, loc)[q].op = loc[q].op
                 /\ Spoilt(p, loc)[q].w = loc[q].w
                 /\ Spoilt(p, loc)[q].left = loc[q].left
                 /\ Spoilt(p, loc)[q].rest = loc[q].rest
                 /\ Spoilt(p, loc)[q].kind = loc[q].kind
                 /\ Spoilt(p, loc)[q].at = loc[q].at
                 /\ Spoilt(p, loc)[q].n = loc[q].n
                 /\ q # p /\ Between(q) => Spoilt(p, loc)[q].raced
BY DEF Spoilt, Locals

\* The writers of a sequence: with one more at its end, and without the first.
LEMMA Ranges ==
    ASSUME NEW S, NEW s \in Seq(S)
    PROVE  /\ Range(s) \subseteq S
           /\ s = <<>> => Range(s) = {}
           /\ \A c \in S : Range(Append(s, c)) = Range(s) \cup {c} /\ Append(s, c) # <<>>
           /\ s # <<>> => /\ Last(s) \in Range(s) /\ Head(s) \in Range(s)
                          /\ Range(s) = {Head(s)} \cup Range(Tail(s))
<1>1. Len(s) \in Nat /\ DOMAIN s = 1 .. Len(s) /\ \A i \in 1 .. Len(s) : s[i] \in S
  BY LenProperties, ElementOfSeq
<1>2. Range(s) = {s[i] : i \in 1 .. Len(s)}
  BY <1>1 DEF Range
<1>3. s = <<>> => Range(s) = {}
  BY DEF Range
<1>4. ASSUME NEW c \in S PROVE Range(Append(s, c)) = Range(s) \cup {c} /\ Append(s, c) # <<>>
  <2> DEFINE a == Append(s, c)
  <2>1. /\ a \in Seq(S) /\ a # <<>> /\ Len(a) = Len(s) + 1
        /\ \A i \in 1 .. Len(s) : a[i] = s[i]
        /\ a[Len(s) + 1] = c
    BY AppendProperties
  <2>2. DOMAIN a = 1 .. Len(s) + 1
    BY <2>1, LenProperties
  <2>. HIDE DEF a
  <2>3. Range(a) = {a[i] : i \in 1 .. Len(s) + 1}
    BY <2>2 DEF Range
  <2>4. Range(a) = Range(s) \cup {c}
    BY <1>1, <1>2, <2>1, <2>3
  <2>. QED
    BY <2>1, <2>4 DEF a
<1>5. ASSUME s # <<>>
      PROVE  /\ Last(s) \in Range(s) /\ Head(s) \in Range(s)
             /\ Range(s) = {Head(s)} \cup Range(Tail(s))
  <2> DEFINE t == Tail(s)
  <2>1. /\ t \in Seq(S) /\ Len(t) = Len(s) - 1 /\ Len(s) \in Nat \ {0}
        /\ \A i \in 1 .. Len(t) : t[i] = s[i + 1]
    BY <1>5, HeadTailProperties, EmptySeq
  <2>2. DOMAIN t = 1 .. Len(s) - 1
    BY <2>1, LenProperties
  <2>3. Head(s) = s[1] /\ Last(s) = s[Len(s)]
    BY <1>5 DEF Last
  <2>. HIDE DEF t
  <2>4. Range(t) = {t[i] : i \in 1 .. Len(s) - 1}
    BY <2>2 DEF Range
  <2>5. \A i \in 1 .. Len(s) : i = 1 \/ (i - 1 \in 1 .. Len(s) - 1 /\ s[i] = t[i - 1])
    BY <2>1
  <2>6. Range(s) = {s[1]} \cup Range(t)
    <3>1. Range(s) \subseteq {s[1]} \cup Range(t)
      BY <1>2, <2>4, <2>5
    <3>2. Range(t) \subseteq Range(s)
      BY <1>2, <2>1, <2>4
    <3>3. s[1] \in Range(s)
      BY <1>2, <2>1
    <3>. QED
      BY <3>1, <3>2, <3>3
  <2>7. s[Len(s)] \in Range(s)
    BY <1>2, <2>1
  <2>. QED
    BY <2>3, <2>6, <2>7 DEF t
<1>. QED
  BY <1>1, <1>2, <1>3, <1>4, <1>5

\* The least of some of the five.
LEMMA MinOfFive ==
    ASSUME NEW U \in SUBSET (1 .. 5), U # {}
    PROVE  Min(U) \in U
<1>1. \E x \in U : \A y \in U : x <= y
  <2>1. CASE 1 \in U
    BY <2>1
  <2>2. CASE 1 \notin U /\ 2 \in U
    BY <2>2
  <2>3. CASE 1 \notin U /\ 2 \notin U /\ 3 \in U
    BY <2>3
  <2>4. CASE 1 \notin U /\ 2 \notin U /\ 3 \notin U /\ 4 \in U
    BY <2>4
  <2>5. CASE 1 \notin U /\ 2 \notin U /\ 3 \notin U /\ 4 \notin U
    <3>1. PICK u \in U : TRUE
      OBVIOUS
    <3>2. \A y \in U : y \in 1 .. 5
      OBVIOUS
    <3>3. \A y \in U : y = 5
      BY <2>5, <3>2
    <3>. QED
      BY <3>1, <3>3
  <2>. QED
    BY <2>1, <2>2, <2>3, <2>4, <2>5
<1>. QED
  BY <1>1 DEF Min

\* The five logs and their places.
LEMMA LogNames ==
    /\ Len(Logs) = 5 /\ DOMAIN Logs = 1 .. 5
    /\ Range(Logs) = {Logs[i] : i \in 1 .. 5}
    /\ LastLog = "stat" /\ Logs[5] = "stat"
    /\ \A i, j \in 1 .. 5 : Logs[i] = Logs[j] => i = j
BY DEF Logs, LastLog, Range

-----------------------------------------------------------------------------
(* Types and places. *)

\* The invariant holds at first.
LEMMA InitIInv == Init => IInv
<1>. SUFFICES ASSUME Init PROVE IInv
  OBVIOUS
<1>1. /\ local \in [Procs -> Locals] /\ writer = <<>> /\ writer \in Seq(Leaves)
      /\ chain = {} /\ runs = {}
      /\ \A p \in Procs : pc[p] = "idle" /\ local[p] = Idle
  BY IdleType, EmptySeq DEF Init
<1>2. TypeOK
  <2>1. level \in {DebugLevel, InfoLevel, ErrorLevel, SevereLevel, DisableLevel}
    BY DEF Init
  <2>2. /\ now \in 0 .. MaxTicks /\ lastTime \in (-Threshold - 1) .. MaxTicks
        /\ discarded \in Nat /\ dropped \in Nat /\ announced \in Nat /\ unannounced \in Nat
        /\ calls \in 0 .. MaxCalls /\ faults \in 0 .. MaxFaults
    BY LogAssumption DEF Init, LongAgo
  <2>3. /\ disableStat \in BOOLEAN /\ once \in {"no", "running", "done"}
        /\ logs \in [Range(Logs) -> {"absent", "open", "closed"}]
        /\ shut \in {"no", "raced", "yes"}
    BY DEF Init
  <2>. QED
    BY <1>1, <2>1, <2>2, <2>3 DEF Init, TypeOK, Locals
<1>3. PlaceInv /\ LimiterInv
  BY <1>1 DEF Init, PlaceInv, LimiterInv, Idle
<1>4. SetUpOnce
  BY <1>1 DEF SetUpOnce, InSetUp, Idle
<1>5. ChainKept
  BY <1>1 DEF ChainKept
<1>6. ShutInv
  BY DEF Init, ShutInv
<1>7. LogsInv
  <2>1. /\ Range(writer) = {}
        /\ \A p \in Procs : /\ Range(local[p].w) = {} /\ Range(local[p].left) = {}
                             /\ Range(local[p].rest) = {}
    BY <1>1 DEF Idle, Range
  <2>2. \A i \in 1 .. 5 : logs[Logs[i]] = "absent"
    BY LogNames DEF Init
  <2>3. Logs[5] = "stat" /\ \A p \in Procs : pc[p] = "idle"
    BY <1>1, LogNames
  <2>4. logs["stat"] = "absent"
    BY <2>2, <2>3
  <2>. QED
    BY <2>1, <2>2, <2>3, <2>4 DEF LogsInv
<1>8. ClosingInv
  BY LogNames DEF Init, ClosingInv
<1>. QED
  BY <1>2, <1>3, <1>4, <1>5, <1>6, <1>7, <1>8 DEF IInv

\* The next log to open is the first that is absent.
LEMMA NextLogIs ==
    ASSUME logs["stat"] = "absent"
    PROVE  \E k \in 1 .. 5 : /\ NextLog = Logs[k] /\ logs[Logs[k]] = "absent"
                             /\ \A j \in 1 .. k - 1 : logs[Logs[j]] # "absent"
<1> DEFINE First(i) == logs[Logs[i]] = "absent" /\ \A j \in 1 .. i - 1 : logs[Logs[j]] # "absent"
<1>1. \E i \in 1 .. 5 : First(i)
  <2>1. CASE logs[Logs[1]] = "absent"
    BY <2>1
  <2>2. CASE logs[Logs[1]] # "absent" /\ logs[Logs[2]] = "absent"
    BY <2>2
  <2>3. CASE logs[Logs[1]] # "absent" /\ logs[Logs[2]] # "absent" /\ logs[Logs[3]] = "absent"
    BY <2>3
  <2>4. CASE /\ logs[Logs[1]] # "absent" /\ logs[Logs[2]] # "absent" /\ logs[Logs[3]] # "absent"
             /\ logs[Logs[4]] = "absent"
    BY <2>4
  <2>5. CASE /\ logs[Logs[1]] # "absent" /\ logs[Logs[2]] # "absent" /\ logs[Logs[3]] # "absent"
             /\ logs[Logs[4]] # "absent"
    BY <2>5, LogNames
  <2>. QED
    BY <2>1, <2>2, <2>3, <2>4, <2>5
<1>2. NextLog = Logs[CHOOSE i \in 1 .. 5 : First(i)]
  BY LogNames DEF NextLog
<1>. HIDE DEF First
<1>3. (CHOOSE i \in 1 .. 5 : First(i)) \in 1 .. 5 /\ First(CHOOSE i \in 1 .. 5 : First(i))
  BY <1>1
<1>. QED
  BY <1>2, <1>3 DEF First

-----------------------------------------------------------------------------
(* TypeOK in four parts. *)

Places == {"idle", "level", "level2", "open", "guard", "store", "wait", "swap", "close",
           "nop", "recheck", "load", "lazy", "write", "clock", "compare", "discard", "set",
           "report", "errorf", "execute"}

SetUpTypes ==
    /\ level \in {DebugLevel, InfoLevel, ErrorLevel, SevereLevel, DisableLevel}
    /\ disableStat \in BOOLEAN
    /\ once \in {"no", "running", "done"}
    /\ logs \in [Range(Logs) -> {"absent", "open", "closed"}]
    /\ calls \in 0 .. MaxCalls /\ faults \in 0 .. MaxFaults
    /\ shut \in {"no", "raced", "yes"}

WriterTypes == writer \in Seq(Leaves) /\ chain \subseteq Leaves

LimiterTypes ==
    /\ now \in 0 .. MaxTicks
    /\ lastTime \in (-Threshold - 1) .. MaxTicks
    /\ discarded \in Nat
    /\ runs \subseteq 0 .. MaxTicks
    /\ dropped \in Nat /\ announced \in Nat /\ unannounced \in Nat

CallTypes == pc \in [Procs -> Places] /\ local \in [Procs -> Locals]

\* The four parts are TypeOK.
LEMMA TypeParts == TypeOK <=> SetUpTypes /\ WriterTypes /\ LimiterTypes /\ CallTypes
BY DEF TypeOK, SetUpTypes, WriterTypes, LimiterTypes, CallTypes, Places, Locals

\* The level, the switches, setupOnce, the logs and the counters.
LEMMA SetUpTypesStep == IInv /\ [Next]_vars => SetUpTypes'
<1>. SUFFICES ASSUME IInv, [Next]_vars PROVE SetUpTypes'
  OBVIOUS
<1>1. /\ SetUpTypes /\ ConfLevel \in {DebugLevel, InfoLevel, ErrorLevel, SevereLevel}
      /\ Levels \subseteq {DebugLevel, InfoLevel, ErrorLevel, SevereLevel}
      /\ MaxCalls \in Nat /\ MaxFaults \in Nat /\ ConfStat \in BOOLEAN
  BY LogAssumption, TypeParts
     DEF IInv, DebugLevel, InfoLevel, ErrorLevel, SevereLevel
<1>. USE <1>1 DEF SetUpTypes, SetUpVars, RestVars, ghosts
<1>2. CASE UNCHANGED vars
  BY <1>2 DEF vars
<1>3. CASE Tick
  BY <1>3 DEF Tick
<1>4. ASSUME NEW p \in Procs, NewCall(p) PROVE SetUpTypes'
  <2>1. CASE CallSetUp(p)
    BY <2>1 DEF CallSetUp, Call
  <2>2. CASE Reset(p) \/ Close(p)
    BY <2>2 DEF Reset, Close, TakeOut
  <2>3. CASE Disable(p)
    BY <2>3 DEF Disable, Call
  <2>7. CASE DisableStat(p)
    BY <2>7 DEF DisableStat, Call
  <2>4. ASSUME NEW c \in Custom, CallSetWriter(p, c) \/ AddWriter(p, c) PROVE SetUpTypes'
    BY <2>4 DEF CallSetWriter, AddWriter, Call
  <2>5. ASSUME NEW v \in Levels, SetLevel(p, v) PROVE SetUpTypes'
    BY <2>5 DEF SetLevel, Call
  <2>6. ASSUME NEW k \in Kinds, CallLog(p, k) PROVE SetUpTypes'
    BY <2>6 DEF CallLog, Call
  <2>. QED
    BY <1>4, <2>1, <2>2, <2>3, <2>4, <2>5, <2>6, <2>7 DEF NewCall
<1>5. ASSUME NEW p \in Procs, Step(p) PROVE SetUpTypes'
  <2>1. CASE WaitSetUp(p) \/ SetUpLevel(p) \/ FileWriterLevel(p)
    BY <2>1 DEF WaitSetUp, SetUpLevel, FileWriterLevel
  <2>5. CASE OpenLog(p)
    BY <2>5 DEF OpenLog
  <2>6. CASE OpenFails(p)
    BY <2>6 DEF OpenFails
  <2>2. CASE Guard(p) \/ Store(p) \/ StoreNop(p)
    BY <2>2 DEF Guard, Store, StoreNop
  <2>3. CASE CloseNext(p)
    BY <2>3 DEF CloseNext
  <2>4. CASE \/ Recheck(p) \/ Load(p) \/ StoreIfNil(p) \/ Write(p) \/ ReadClock(p) \/ Compare(p)
             \/ Discard(p) \/ SetLastTime(p) \/ SwapDiscarded(p)
             \/ Announce(p) \/ Execute(p)
    BY <2>4 DEF Recheck, Load, StoreIfNil, Write, ReadClock, Compare, Discard, SetLastTime,
                SwapDiscarded, Announce, Execute
  <2>. QED
    BY <1>5, <2>1, <2>2, <2>3, <2>4, <2>5, <2>6 DEF Step
<1>. QED
  BY <1>2, <1>3, <1>4, <1>5 DEF Next

\* What the limiter counts and compares.
LEMMA LimiterTypesStep == IInv /\ [Next]_vars => LimiterTypes'
<1>. SUFFICES ASSUME IInv, [Next]_vars PROVE LimiterTypes'
  OBVIOUS
<1>1. /\ LimiterTypes /\ CallTypes /\ MaxTicks \in Nat /\ Threshold \in Nat
      /\ \A p \in Procs : local[p].at \in 0 .. MaxTicks /\ local[p].n \in Nat
  BY LogAssumption, TypeParts DEF IInv, CallTypes, Locals
<1>. USE <1>1 DEF LimiterTypes, limiter
<1>2. CASE UNCHANGED vars
  BY <1>2 DEF vars
<1>3. CASE Tick
  BY <1>3 DEF Tick
<1>4. ASSUME NEW p \in Procs, NewCall(p) PROVE LimiterTypes'
  BY <1>4 DEF NewCall, CallSetUp, Reset, Close, TakeOut, Disable, DisableStat, CallSetWriter,
              AddWriter, SetLevel, CallLog
<1>5. ASSUME NEW p \in Procs, Step(p) PROVE LimiterTypes'
  <2>1. CASE \/ WaitSetUp(p) \/ SetUpLevel(p) \/ FileWriterLevel(p) \/ OpenLog(p) \/ OpenFails(p)
             \/ Guard(p) \/ Store(p) \/ StoreNop(p) \/ CloseNext(p)
    BY <2>1 DEF WaitSetUp, SetUpLevel, FileWriterLevel, OpenLog, OpenFails, Guard, Store,
                StoreNop, CloseNext
  <2>2. CASE Recheck(p) \/ Load(p) \/ StoreIfNil(p) \/ ReadClock(p) \/ Compare(p) \/ Execute(p)
    BY <2>2 DEF Recheck, Load, StoreIfNil, ReadClock, Compare, Execute
  <2>3. CASE Write(p)
    BY <2>3 DEF Write
  <2>4. CASE Discard(p)
    BY <2>4 DEF Discard
  <2>5. CASE SetLastTime(p)
    <3>1. local[p].at \in (-Threshold - 1) .. MaxTicks
      OBVIOUS
    <3>. QED
      BY <2>5, <3>1 DEF SetLastTime
  <2>6. CASE SwapDiscarded(p)
    BY <2>6 DEF SwapDiscarded
  <2>7. CASE Announce(p)
    <3>1. local[p].n \in Nat
      BY DEF CallTypes, Locals
    <3>. QED
      BY <2>7, <3>1 DEF Announce
  <2>. QED
    BY <1>5, <2>1, <2>2, <2>3, <2>4, <2>5, <2>6, <2>7 DEF Step
<1>. QED
  BY <1>2, <1>3, <1>4, <1>5 DEF Next

\* A goroutine's writers, and its first and last.
LEMMA LocalTypes ==
    ASSUME IInv
    PROVE  /\ CallTypes /\ WriterTypes /\ LimiterTypes /\ Custom \subseteq Leaves
           /\ <<>> \in Seq(Leaves) /\ Idle \in Locals
           /\ \A x \in Leaves : <<x>> \in Seq(Leaves)
           /\ \A p \in Procs :
                 /\ local[p].w \in Seq(Leaves) /\ local[p].left \in Seq(Leaves)
                 /\ local[p].rest \in Seq(Leaves)
                 /\ local[p].left # <<>> =>
                       Head(local[p].left) \in Leaves /\ Tail(local[p].left) \in Seq(Leaves)
                 /\ local[p].w # <<>> => Last(local[p].w) \in Leaves
<1>1. CallTypes /\ WriterTypes /\ LimiterTypes /\ Custom \subseteq Leaves
  BY TypeParts DEF IInv, Leaves
<1>2. \A p \in Procs : /\ local[p].w \in Seq(Leaves) /\ local[p].left \in Seq(Leaves)
                       /\ local[p].rest \in Seq(Leaves)
  BY <1>1 DEF CallTypes, Locals
<1>3. \A x \in Leaves : <<x>> \in Seq(Leaves)
  OBVIOUS
<1>4. ASSUME NEW p \in Procs, local[p].left # <<>>
      PROVE  Head(local[p].left) \in Leaves /\ Tail(local[p].left) \in Seq(Leaves)
  BY <1>2, <1>4, HeadTailProperties
<1>5. ASSUME NEW p \in Procs, local[p].w # <<>> PROVE Last(local[p].w) \in Leaves
  BY <1>2, <1>5, Ranges
<1>. QED
  BY <1>1, <1>2, <1>3, <1>4, <1>5, IdleType, EmptySeq

\* The writer in use and the history of those that must be.
LEMMA WriterTypesStep == IInv /\ [Next]_vars => WriterTypes'
<1>. SUFFICES ASSUME IInv, [Next]_vars PROVE WriterTypes'
  OBVIOUS
<1>1. /\ WriterTypes /\ Custom \subseteq Leaves /\ <<>> \in Seq(Leaves)
      /\ \A x \in Leaves : <<x>> \in Seq(Leaves)
      /\ "nop" \in Leaves /\ "console" \in Leaves
      /\ \A p \in Procs : /\ local[p].w \in Seq(Leaves)
                           /\ local[p].w # <<>> => Last(local[p].w) \in Leaves
  BY LocalTypes DEF Leaves
<1>. USE DEF WriterTypes, ghosts, SetUpVars
<1>2. CASE UNCHANGED vars
  BY <1>1, <1>2 DEF vars
<1>3. CASE Tick
  BY <1>1, <1>3 DEF Tick
<1>4. ASSUME NEW p \in Procs, NewCall(p) PROVE WriterTypes'
  <2>1. CASE CallSetUp(p) \/ Disable(p) \/ DisableStat(p)
    BY <1>1, <2>1 DEF CallSetUp, Disable, DisableStat
  <2>2. CASE Reset(p) \/ Close(p)
    BY <1>1, <2>2 DEF Reset, Close, TakeOut
  <2>3. ASSUME NEW c \in Custom, CallSetWriter(p, c) \/ AddWriter(p, c) PROVE WriterTypes'
    BY <1>1, <2>3 DEF CallSetWriter, AddWriter
  <2>4. ASSUME NEW v \in Levels, SetLevel(p, v) PROVE WriterTypes'
    BY <1>1, <2>4 DEF SetLevel
  <2>5. ASSUME NEW k \in Kinds, CallLog(p, k) PROVE WriterTypes'
    BY <1>1, <2>5 DEF CallLog
  <2>. QED
    BY <1>4, <2>1, <2>2, <2>3, <2>4, <2>5 DEF NewCall
<1>5. ASSUME NEW p \in Procs, Step(p) PROVE WriterTypes'
  <2>1. CASE WaitSetUp(p) \/ SetUpLevel(p) \/ FileWriterLevel(p) \/ OpenLog(p) \/ OpenFails(p)
             \/ CloseNext(p) \/ Guard(p)
    BY <1>1, <2>1 DEF WaitSetUp, SetUpLevel, FileWriterLevel, OpenLog, OpenFails, CloseNext, Guard
  <2>2. CASE Store(p)
    <3>1. local[p].w # <<>>
      BY <2>2 DEF Store, IInv, PlaceInv
    <3>2. local[p].w \in Seq(Leaves) /\ Last(local[p].w) \in Leaves
      BY LocalTypes, <3>1
    <3>3. writer' = local[p].w /\ chain' \subseteq chain \cup {Last(local[p].w)}
      BY <2>2 DEF Store
    <3>. QED
      BY <1>1, <3>2, <3>3
  <2>3. CASE StoreNop(p) \/ StoreIfNil(p)
    BY <1>1, <2>3 DEF StoreNop, StoreIfNil
  <2>4. CASE \/ Recheck(p) \/ Load(p) \/ Write(p) \/ ReadClock(p) \/ Compare(p)
             \/ Discard(p) \/ SetLastTime(p) \/ SwapDiscarded(p)
             \/ Announce(p) \/ Execute(p)
    BY <1>1, <2>4 DEF Recheck, Load, Write, ReadClock, Compare, Discard, SetLastTime,
                      SwapDiscarded, Announce, Execute
  <2>. QED
    BY <1>5, <2>1, <2>2, <2>3, <2>4 DEF Step
<1>. QED
  BY <1>2, <1>3, <1>4, <1>5 DEF Next

\* A goroutine comes to a place with the variables r.
LEMMA Put ==
    ASSUME CallTypes, NEW p \in Procs, NEW place \in Places, NEW r \in Locals,
           pc' = [pc EXCEPT ![p] = place], local' = [local EXCEPT ![p] = r]
    PROVE  CallTypes'
BY DEF CallTypes

\* The variables of a goroutine with some of them changed.
LEMMA LocalWith ==
    ASSUME CallTypes, NEW p \in Procs, NEW s \in Seq(Leaves), NEW t \in Seq(Leaves),
           NEW k \in AllKinds \cup {"report"}, NEW at \in 0 .. MaxTicks, NEW n \in Nat
    PROVE  /\ [local[p] EXCEPT !.w = s] \in Locals
           /\ [local[p] EXCEPT !.left = s] \in Locals
           /\ [local[p] EXCEPT !.at = at] \in Locals
           /\ [local[p] EXCEPT !.left = s, !.at = at] \in Locals
           /\ [local[p] EXCEPT !.n = n] \in Locals
           /\ [local[p] EXCEPT !.kind = k, !.rest = s] \in Locals
           /\ [local[p] EXCEPT !.kind = k, !.n = n, !.left = s, !.rest = t] \in Locals
<1>1. local[p] \in Locals
  BY DEF CallTypes
<1>. QED
  BY <1>1 DEF Locals

\* Where a goroutine is and its variables.
LEMMA CallTypesStep == IInv /\ [Next]_vars => CallTypes'
<1>. SUFFICES ASSUME IInv, [Next]_vars PROVE CallTypes'
  OBVIOUS
<1>1. /\ CallTypes /\ WriterTypes /\ LimiterTypes /\ Custom \subseteq Leaves
      /\ <<>> \in Seq(Leaves) /\ Idle \in Locals
      /\ \A x \in Leaves : <<x>> \in Seq(Leaves)
      /\ "file" \in Leaves /\ "console" \in Leaves
      /\ 0 \in 0 .. MaxTicks /\ Kinds \subseteq AllKinds /\ "stack" \in AllKinds
      /\ \A p \in Procs :
            /\ local[p].left \in Seq(Leaves) /\ local[p].rest \in Seq(Leaves)
            /\ local[p].left # <<>> => Tail(local[p].left) \in Seq(Leaves)
  BY LocalTypes, LogAssumption DEF Leaves, AllKinds
<1>. USE DEF CallTypes, Go, Return, Call
<1>2. CASE UNCHANGED vars \/ Tick
  BY <1>1, <1>2 DEF vars, Tick
<1>4. ASSUME NEW p \in Procs, NewCall(p) PROVE CallTypes'
  <2>1. CASE CallSetUp(p)
    <3>1. [Idle EXCEPT !.op = "setup"] \in Locals
      BY <1>1 DEF Locals
    <3>2. PICK r \in Locals, place \in Places :
             local' = [local EXCEPT ![p] = r] /\ pc' = [pc EXCEPT ![p] = place]
      <4>1. once = "done" => local' = [local EXCEPT ![p] = Idle] /\ pc' = [pc EXCEPT ![p] = "idle"]
        BY <2>1 DEF CallSetUp
      <4>2. once # "done" =>
               /\ local' = [local EXCEPT ![p] = [Idle EXCEPT !.op = "setup"]]
               /\ \/ pc' = [pc EXCEPT ![p] = "level"]
                  \/ pc' = [pc EXCEPT ![p] = "wait"]
        BY <2>1 DEF CallSetUp, IInv, TypeOK
      <4>. QED
        BY <1>1, <3>1, <4>1, <4>2 DEF Places
    <3>. QED
      BY <1>1, <3>2, Put
  <2>2. CASE Reset(p) \/ Close(p)
    <3>1. [Idle EXCEPT !.left = writer] \in Locals
      BY <1>1 DEF Locals, WriterTypes
    <3>2. PICK r \in Locals, place \in Places : TakeOut(p, place, r)
      BY <1>1, <2>2, <3>1 DEF Reset, Close, Places
    <3>3. [local EXCEPT ![p] = r] \in [Procs -> Locals]
      BY <1>1
    <3>. QED
      BY <1>1, <3>2, <3>3, SpoiltKeeps DEF TakeOut
  <2>3. CASE Disable(p) \/ DisableStat(p)
    BY <1>1, <2>3 DEF Disable, DisableStat, Places
  <2>4. ASSUME NEW c \in Custom, CallSetWriter(p, c) PROVE CallTypes'
    <3>1. [Idle EXCEPT !.op = "set", !.w = <<c>>] \in Locals
      BY <1>1 DEF Locals
    <3>. QED
      BY <1>1, <2>4, <3>1 DEF CallSetWriter, Places
  <2>5. ASSUME NEW c \in Custom, AddWriter(p, c) PROVE CallTypes'
    <3> DEFINE raced == \E q \in Procs : Between(q)
               r == [Idle EXCEPT !.op = "add", !.w = Append(writer, c), !.raced = raced]
    <3>1. Append(writer, c) \in Seq(Leaves) /\ raced \in BOOLEAN
      BY <1>1 DEF WriterTypes
    <3>. HIDE DEF raced
    <3>2. r \in Locals
      BY <1>1, <3>1 DEF Locals
    <3>. HIDE DEF r
    <3>3. [local EXCEPT ![p] = r] \in [Procs -> Locals]
      BY <1>1, <3>2
    <3>4. local' = Spoilt(p, [local EXCEPT ![p] = r]) /\ pc' = [pc EXCEPT ![p] = "guard"]
      BY <2>5 DEF AddWriter, r, raced
    <3>. QED
      BY <1>1, <3>3, <3>4, SpoiltKeeps DEF Places
  <2>6. ASSUME NEW v \in Levels, SetLevel(p, v) PROVE CallTypes'
    BY <1>1, <2>6 DEF SetLevel, Places
  <2>7. ASSUME NEW k \in Kinds, CallLog(p, k) PROVE CallTypes'
    <3>1. [Idle EXCEPT !.kind = k] \in Locals
      BY <1>1 DEF Locals
    <3>. QED
      BY <1>1, <2>7, <3>1 DEF CallLog, Places
  <2>. QED
    BY <1>4, <2>1, <2>2, <2>3, <2>4, <2>5, <2>6, <2>7 DEF NewCall
<1>5. ASSUME NEW p \in Procs, Step(p) PROVE CallTypes'
  <2> DEFINE l == local[p].left
  <2>. HIDE DEF CallTypes
  <2>1. CASE WaitSetUp(p) \/ OpenFails(p)
    BY <1>1, <2>1, Put DEF WaitSetUp, OpenFails, Places
  <2>2. CASE SetUpLevel(p)
    <3>1. [local[p] EXCEPT !.w = <<"console">>] \in Locals
      BY <1>1, LocalWith
    <3>2. CASE Files
      BY <1>1, <2>2, <3>2 DEF SetUpLevel, Places, CallTypes
    <3>3. CASE ~Files
      <4>1. /\ pc' = [pc EXCEPT ![p] = "guard"]
            /\ local' = [local EXCEPT ![p] = [local[p] EXCEPT !.w = <<"console">>]]
        BY <2>2, <3>3 DEF SetUpLevel
      <4>. QED
        BY <1>1, <3>1, <4>1, Put DEF Places
    <3>. QED
      BY <3>2, <3>3
  <2>3. CASE OpenLog(p)
    <3>1. [local[p] EXCEPT !.w = <<"file">>] \in Locals
      BY <1>1, LocalWith
    <3>2. CASE NextLog = LastLog
      <4>1. /\ pc' = [pc EXCEPT ![p] = "guard"]
            /\ local' = [local EXCEPT ![p] = [local[p] EXCEPT !.w = <<"file">>]]
        BY <2>3, <3>2 DEF OpenLog
      <4>. QED
        BY <1>1, <3>1, <4>1, Put DEF Places
    <3>3. CASE NextLog # LastLog
      BY <1>1, <2>3, <3>3 DEF OpenLog, CallTypes
    <3>. QED
      BY <3>2, <3>3
  <2>4. CASE Guard(p)
    BY <1>1, <2>4 DEF Guard, Places, CallTypes
  <2>5. CASE Store(p) \/ StoreNop(p)
    <3>1. [local EXCEPT ![p] = Idle] \in [Procs -> Locals]
      BY <1>1 DEF CallTypes
    <3>2. local' = Spoilt(p, [local EXCEPT ![p] = Idle]) /\ pc' = [pc EXCEPT ![p] = "idle"]
      BY <2>5 DEF Store, StoreNop
    <3>. QED
      BY <1>1, <3>1, <3>2, SpoiltKeeps DEF Places, CallTypes
  <2>6. CASE CloseNext(p)
    <3>1. CASE l = <<>>
      BY <1>1, <2>6, <3>1, Put DEF CloseNext, Places
    <3>2. CASE l # <<>>
      <4>1. [local[p] EXCEPT !.left = Tail(l)] \in Locals
        BY <1>1, <3>2, LocalWith
      <4>2. /\ pc' = pc
            /\ \/ local' = local
               \/ local' = [local EXCEPT ![p] = [local[p] EXCEPT !.left = Tail(l)]]
        BY <2>6, <3>2 DEF CloseNext
      <4>. QED
        BY <1>1, <4>1, <4>2 DEF CallTypes
    <3>. QED
      BY <3>1, <3>2
  <2>7. CASE Recheck(p) \/ Compare(p) \/ SetLastTime(p) \/ FileWriterLevel(p)
    BY <1>1, <2>7 DEF Recheck, Compare, SetLastTime, FileWriterLevel, Places, CallTypes
  <2>8. CASE Load(p) \/ StoreIfNil(p)
    <3>1. writer \in Seq(Leaves) /\ writer' \in Seq(Leaves)
      BY <1>1, WriterTypesStep DEF WriterTypes
    <3>2. PICK s \in {writer, writer'} :
             /\ local' = [local EXCEPT ![p] = [local[p] EXCEPT !.left = s]]
             /\ pc' \in {[pc EXCEPT ![p] = "lazy"], [pc EXCEPT ![p] = "write"]}
      BY <2>8 DEF Load, StoreIfNil
    <3>3. [local[p] EXCEPT !.left = s] \in Locals
      BY <1>1, <3>1, LocalWith
    <3>. QED
      BY <1>1, <3>2, <3>3, Put DEF Places
  <2>9. CASE Write(p)
    <3>1. CASE l = <<>> /\ local[p].kind = "report"
      <4>1. [local[p] EXCEPT !.kind = "stack", !.n = 0, !.left = local[p].rest, !.rest = <<>>]
               \in Locals
        BY <1>1, LocalWith
      <4>2. /\ local' = [local EXCEPT ![p] = [local[p] EXCEPT !.kind = "stack", !.n = 0,
                                               !.left = local[p].rest, !.rest = <<>>]]
            /\ pc' = [pc EXCEPT ![p] = "execute"]
        BY <1>1, <2>9, <3>1 DEF Write, CallTypes
      <4>. QED
        BY <1>1, <4>1, <4>2, Put DEF Places
    <3>2. CASE l = <<>> /\ local[p].kind # "report"
      BY <1>1, <2>9, <3>2, Put DEF Write, Places
    <3>3. CASE l # <<>> /\ Head(l) = "file" /\ local[p].kind = "stack"
      BY <1>1, <2>9, <3>3 DEF Write, Places, CallTypes
    <3>4. CASE l # <<>> /\ ~(Head(l) = "file" /\ local[p].kind = "stack")
      <4>1. [local[p] EXCEPT !.left = Tail(l)] \in Locals
        BY <1>1, <3>4, LocalWith
      <4>2. pc' = pc /\ local' = [local EXCEPT ![p] = [local[p] EXCEPT !.left = Tail(l)]]
        BY <2>9, <3>4 DEF Write
      <4>. QED
        BY <1>1, <4>1, <4>2 DEF CallTypes
    <3>. QED
      BY <3>1, <3>2, <3>3, <3>4
  <2>10. CASE ReadClock(p)
    <3>1. [local[p] EXCEPT !.at = now] \in Locals
      BY <1>1, LocalWith DEF LimiterTypes
    <3>2. /\ local' = [local EXCEPT ![p] = [local[p] EXCEPT !.at = now]]
          /\ pc' \in {[pc EXCEPT ![p] = "execute"], [pc EXCEPT ![p] = "compare"]}
      BY <2>10 DEF ReadClock
    <3>. QED
      BY <1>1, <3>1, <3>2, Put DEF Places
  <2>11. CASE Discard(p) \/ Execute(p)
    <3>1. Tail(l) \in Seq(Leaves)
      BY <1>1, <2>11 DEF Discard, Execute, IInv, PlaceInv
    <3>2. [local[p] EXCEPT !.left = Tail(l), !.at = 0] \in Locals
      BY <1>1, <3>1, LocalWith
    <3>3. /\ local' = [local EXCEPT ![p] = [local[p] EXCEPT !.left = Tail(l), !.at = 0]]
          /\ pc' = [pc EXCEPT ![p] = "write"]
      BY <1>1, <2>11 DEF Discard, Execute, CallTypes
    <3>. QED
      BY <1>1, <3>2, <3>3, Put DEF Places
  <2>12. CASE SwapDiscarded(p)
    <3>1. [local[p] EXCEPT !.n = discarded] \in Locals
      BY <1>1, LocalWith DEF LimiterTypes
    <3>2. \/ local' = local /\ pc' = [pc EXCEPT ![p] = "execute"]
          \/ /\ local' = [local EXCEPT ![p] = [local[p] EXCEPT !.n = discarded]]
             /\ pc' = [pc EXCEPT ![p] = "errorf"]
      BY <1>1, <2>12 DEF SwapDiscarded, CallTypes
    <3>3. CASE local' = local /\ pc' = [pc EXCEPT ![p] = "execute"]
      BY <1>1, <3>3 DEF Places, CallTypes
    <3>. QED
      BY <1>1, <3>1, <3>2, <3>3, Put DEF Places
  <2>13. CASE Announce(p)
    <3>1. /\ [local[p] EXCEPT !.n = 0] \in Locals
          /\ [local[p] EXCEPT !.kind = "report", !.rest = l] \in Locals
      BY <1>1, LocalWith
    <3>2. \/ /\ local' = [local EXCEPT ![p] = [local[p] EXCEPT !.n = 0]]
             /\ pc' = [pc EXCEPT ![p] = "execute"]
          \/ /\ local' = [local EXCEPT ![p] = [local[p] EXCEPT !.kind = "report", !.rest = l]]
             /\ pc' = [pc EXCEPT ![p] = "load"]
      BY <1>1, <2>13 DEF Announce, CallTypes
    <3>. QED
      BY <1>1, <3>1, <3>2, Put DEF Places
  <2>. QED
    BY <1>5, <2>1, <2>2, <2>3, <2>4, <2>5, <2>6, <2>7, <2>8, <2>9, <2>10, <2>11, <2>12, <2>13
       DEF Step
<1>. QED
  BY <1>2, <1>4, <1>5 DEF Next

-----------------------------------------------------------------------------
(* A step of one goroutine, as the others see it. *)

\* Nothing of goroutine q changes but, for an AddWriter, the mark of a race.
Untouched(q) ==
    /\ pc'[q] = pc[q]
    /\ local'[q].op = local[q].op /\ local'[q].kind = local[q].kind
    /\ local'[q].w = local[q].w /\ local'[q].left = local[q].left
    /\ local'[q].rest = local[q].rest
    /\ local'[q].at = local[q].at /\ local'[q].n = local[q].n
    /\ local[q].raced => local'[q].raced

\* A store of p's record, whatever it is, leaves the others alone.
LEMMA PutOthers ==
    ASSUME CallTypes, NEW p \in Procs, NEW q \in Procs, q # p, NEW place, NEW r,
           pc' \in {pc, [pc EXCEPT ![p] = place]}, local' \in {local, [local EXCEPT ![p] = r]}
    PROVE  Untouched(q)
BY DEF CallTypes, Untouched

\* So does one that spoils AddWriter calls on the way.
LEMMA SpoiltOthers ==
    ASSUME CallTypes, NEW p \in Procs, NEW q \in Procs, q # p, NEW place, NEW r \in Locals,
           pc' = [pc EXCEPT ![p] = place], local' = Spoilt(p, [local EXCEPT ![p] = r])
    PROVE  /\ Untouched(q)
           /\ Between(q) => local'[q].raced
           /\ local'[p] = r
<1>1. [local EXCEPT ![p] = r] \in [Procs -> Locals]
  BY DEF CallTypes
<1>. DEFINE loc == [local EXCEPT ![p] = r]
<1>2. loc[q] = local[q] /\ loc[p] = r /\ pc'[q] = pc[q]
  BY DEF CallTypes
<1>3. local[q].raced => local'[q].raced
  BY <1>2 DEF Spoilt
<1>. HIDE DEF loc
<1>4. loc \in [Procs -> Locals] /\ local' = Spoilt(p, loc)
  BY <1>1 DEF loc
<1>. QED
  BY <1>2, <1>3, <1>4, SpoiltKeeps DEF Untouched

\* No step of one goroutine touches another.
LEMMA OthersUntouched ==
    ASSUME IInv, NEW p \in Procs, NewCall(p) \/ Step(p), NEW q \in Procs, q # p
    PROVE  Untouched(q)
<1>1. CallTypes /\ WriterTypes /\ LimiterTypes /\ Idle \in Locals
  BY LocalTypes
<1>. USE DEF Go, Return, Call
<1>2. ASSUME NewCall(p) PROVE Untouched(q)
  <2>1. CASE CallSetUp(p)
    BY <1>1, <2>1 DEF CallSetUp, CallTypes, Untouched
  <2>2. CASE Reset(p) \/ Close(p)
    <3>1. [Idle EXCEPT !.left = writer] \in Locals
      BY <1>1 DEF Locals, WriterTypes
    <3>2. PICK r \in Locals, place \in Places : TakeOut(p, place, r)
      BY <1>1, <2>2, <3>1 DEF Reset, Close, Places
    <3>. QED
      BY <1>1, <3>2, SpoiltOthers DEF TakeOut
  <2>3. CASE Disable(p) \/ DisableStat(p)
    BY <1>1, <2>3, PutOthers DEF Disable, DisableStat
  <2>4. ASSUME NEW c \in Custom, CallSetWriter(p, c) PROVE Untouched(q)
    BY <1>1, <2>4 DEF CallSetWriter, CallTypes, Untouched
  <2>5. ASSUME NEW c \in Custom, AddWriter(p, c) PROVE Untouched(q)
    <3> DEFINE raced == \E x \in Procs : Between(x)
               r == [Idle EXCEPT !.op = "add", !.w = Append(writer, c), !.raced = raced]
    <3>1. Append(writer, c) \in Seq(Leaves) /\ raced \in BOOLEAN
      BY LocalTypes DEF WriterTypes
    <3>. HIDE DEF raced
    <3>2. r \in Locals
      BY <1>1, <3>1 DEF Locals
    <3>. HIDE DEF r
    <3>3. local' = Spoilt(p, [local EXCEPT ![p] = r]) /\ pc' = [pc EXCEPT ![p] = "guard"]
      BY <2>5 DEF AddWriter, r, raced
    <3>. QED
      BY <1>1, <3>2, <3>3, SpoiltOthers
  <2>6. ASSUME NEW v \in Levels, SetLevel(p, v) PROVE Untouched(q)
    BY <1>1, <2>6 DEF SetLevel, CallTypes, Untouched
  <2>7. ASSUME NEW k \in Kinds, CallLog(p, k) PROVE Untouched(q)
    BY <1>1, <2>7 DEF CallLog, CallTypes, Untouched
  <2>. QED
    BY <1>2, <2>1, <2>2, <2>3, <2>4, <2>5, <2>6, <2>7 DEF NewCall
<1>3. ASSUME Step(p) PROVE Untouched(q)
  <2>1. CASE WaitSetUp(p) \/ SetUpLevel(p) \/ FileWriterLevel(p) \/ OpenLog(p) \/ OpenFails(p)
    BY <1>1, <2>1, PutOthers DEF WaitSetUp, SetUpLevel, FileWriterLevel, OpenLog, OpenFails
  <2>2. CASE Guard(p)
    BY <1>1, <2>2, PutOthers DEF Guard
  <2>3. CASE Store(p) \/ StoreNop(p)
    <3>1. local' = Spoilt(p, [local EXCEPT ![p] = Idle]) /\ pc' = [pc EXCEPT ![p] = "idle"]
      BY <2>3 DEF Store, StoreNop
    <3>. QED
      BY <1>1, <3>1, SpoiltOthers
  <2>4. CASE CloseNext(p)
    BY <1>1, <2>4, PutOthers DEF CloseNext
  <2>5. CASE Recheck(p) \/ Load(p) \/ StoreIfNil(p) \/ ReadClock(p) \/ Compare(p)
             \/ SetLastTime(p)
    BY <1>1, <2>5, PutOthers DEF Recheck, Load, StoreIfNil, ReadClock, Compare, SetLastTime
  <2>6. CASE Write(p)
    BY <1>1, <2>6, PutOthers DEF Write
  <2>7. CASE Discard(p) \/ Execute(p)
    BY <1>1, <2>7 DEF Discard, Execute, CallTypes, Untouched
  <2>8. CASE SwapDiscarded(p) \/ Announce(p)
    BY <1>1, <2>8, PutOthers DEF SwapDiscarded, Announce
  <2>. QED
    BY <1>3, <2>1, <2>2, <2>3, <2>4, <2>5, <2>6, <2>7, <2>8 DEF Step
<1>. QED
  BY <1>2, <1>3

-----------------------------------------------------------------------------
(* Each part of the invariant over a step. *)

\* One goroutine at most is in the function of setupOnce.
LEMMA SetUpOnceStep == IInv /\ [Next]_vars => SetUpOnce'
<1>. SUFFICES ASSUME IInv, [Next]_vars PROVE SetUpOnce'
  OBVIOUS
<1>1. CallTypes /\ SetUpOnce /\ once \in {"no", "running", "done"}
  BY LocalTypes DEF IInv, TypeOK
<1>2. CASE UNCHANGED vars \/ Tick
  BY <1>1, <1>2 DEF vars, Tick, RestVars, SetUpOnce, InSetUp
<1>3. ASSUME NEW p \in Procs, NewCall(p) \/ Step(p) PROVE SetUpOnce'
  <2>1. \A q \in Procs : q # p => (InSetUp(q)' <=> InSetUp(q))
    BY <1>3, OthersUntouched DEF Untouched, InSetUp
  <2>2. \/ once' = once /\ (InSetUp(p)' => InSetUp(p))
        \/ once = "no" /\ once' = "running"
        \/ InSetUp(p) /\ ~InSetUp(p)'
    <3>. USE <1>1 DEF CallTypes, InSetUp, Go, Return, Call
    <3>1. ASSUME NewCall(p)
          PROVE  \/ once' = once /\ (InSetUp(p)' => InSetUp(p))
                 \/ once = "no" /\ once' = "running"
      <4>1. CASE CallSetUp(p)
        BY <4>1 DEF CallSetUp, Idle
      <4>2. CASE Reset(p) \/ Close(p)
        BY <4>2 DEF Reset, Close, TakeOut
      <4>3. CASE Disable(p) \/ DisableStat(p)
        BY <4>3 DEF Disable, DisableStat
      <4>4. ASSUME NEW c \in Custom, CallSetWriter(p, c) PROVE once' = once /\ ~InSetUp(p)'
        BY <4>4 DEF CallSetWriter, Idle
      <4>5. ASSUME NEW c \in Custom, AddWriter(p, c) PROVE once' = once /\ ~InSetUp(p)'
        <5>1. once' = once /\ pc' = [pc EXCEPT ![p] = "guard"]
          BY <4>5 DEF AddWriter
        <5>2. local'[p].op = "add"
          BY <4>5 DEF AddWriter, Spoilt, Idle
        <5>. QED
          BY <5>1, <5>2
      <4>6. ASSUME NEW v \in Levels, SetLevel(p, v) PROVE once' = once /\ ~InSetUp(p)'
        BY <4>6 DEF SetLevel
      <4>7. ASSUME NEW k \in Kinds, CallLog(p, k) PROVE once' = once /\ ~InSetUp(p)'
        BY <4>7 DEF CallLog, ghosts, RestVars
      <4>. QED
        BY <3>1, <4>1, <4>2, <4>3, <4>4, <4>5, <4>6, <4>7 DEF NewCall
    <3>2. CASE Step(p)
      <4>1. CASE WaitSetUp(p) \/ SetUpLevel(p) \/ FileWriterLevel(p) \/ OpenLog(p)
        BY <4>1 DEF WaitSetUp, SetUpLevel, FileWriterLevel, OpenLog
      <4>2. CASE OpenFails(p)
        BY <4>2 DEF OpenFails
      <4>3. CASE Guard(p)
        BY <4>3 DEF Guard
      <4>4. CASE Store(p)
        BY <4>4 DEF Store
      <4>5. CASE CloseNext(p) \/ StoreNop(p)
        BY <4>5 DEF CloseNext, StoreNop
      <4>6. CASE \/ Recheck(p) \/ Load(p) \/ StoreIfNil(p) \/ Write(p) \/ ReadClock(p)
                 \/ Compare(p) \/ Discard(p) \/ SetLastTime(p) \/ SwapDiscarded(p)
                 \/ Announce(p) \/ Execute(p)
        BY <4>6 DEF Recheck, Load, StoreIfNil, Write, ReadClock, Compare, Discard,
                    SetLastTime, SwapDiscarded, Announce, Execute, RestVars
      <4>. QED
        BY <3>2, <4>1, <4>2, <4>3, <4>4, <4>5, <4>6 DEF Step
    <3>. QED
      BY <1>3, <3>1, <3>2
  <2>. QED
    <3>. HIDE DEF InSetUp
    <3>1. CASE once' = once /\ (InSetUp(p)' => InSetUp(p))
      BY <1>1, <2>1, <3>1 DEF SetUpOnce
    <3>2. CASE once = "no" /\ once' = "running"
      BY <1>1, <2>1, <3>2 DEF SetUpOnce
    <3>3. CASE InSetUp(p) /\ ~InSetUp(p)'
      BY <1>1, <2>1, <3>3 DEF SetUpOnce
    <3>. QED
      BY <2>2, <3>1, <3>2, <3>3
<1>. QED
  BY <1>2, <1>3 DEF Next

\* What the limiter compares with.
LEMMA LimiterStep == IInv /\ [Next]_vars => LimiterInv'
<1>. SUFFICES ASSUME IInv, [Next]_vars PROVE LimiterInv'
  OBVIOUS
<1>1. CallTypes /\ LimiterTypes /\ LimiterInv /\ Threshold \in Nat /\ MaxTicks \in Nat
  BY LocalTypes, LogAssumption DEF IInv
<1>2. CASE UNCHANGED vars \/ Tick
  BY <1>1, <1>2 DEF vars, Tick, LimiterInv
<1>3. ASSUME NEW p \in Procs, NewCall(p) \/ Step(p) PROVE LimiterInv'
  <2>1. /\ runs \subseteq runs'
        /\ lastTime' = LongAgo \/ lastTime' \in runs'
        /\ pc'[p] = "discard" => \E t \in runs' : local'[p].at - t <= Threshold
    <3>. USE <1>1 DEF Go, Return, Call
    <3>1. ASSUME NewCall(p) PROVE /\ runs' = runs /\ lastTime' = lastTime
                                  /\ pc'[p] # "discard"
      <4>. USE DEF CallTypes
      <4>1. CASE CallSetUp(p)
        <5>1. once \in {"no", "running", "done"}
          BY DEF IInv, TypeOK
        <5>. QED
          BY <4>1, <5>1 DEF CallSetUp, limiter
      <4>2. CASE Reset(p) \/ Close(p)
        BY <4>2 DEF Reset, Close, TakeOut, limiter
      <4>3. CASE Disable(p) \/ DisableStat(p)
        BY <4>3 DEF Disable, DisableStat, limiter
      <4>4. ASSUME NEW c \in Custom, CallSetWriter(p, c) \/ AddWriter(p, c)
            PROVE  runs' = runs /\ lastTime' = lastTime /\ pc'[p] # "discard"
        BY <4>4 DEF CallSetWriter, AddWriter, limiter
      <4>5. ASSUME NEW v \in Levels, SetLevel(p, v)
            PROVE  runs' = runs /\ lastTime' = lastTime /\ pc'[p] # "discard"
        BY <4>5 DEF SetLevel, limiter
      <4>6. ASSUME NEW k \in Kinds, CallLog(p, k)
            PROVE  runs' = runs /\ lastTime' = lastTime /\ pc'[p] # "discard"
        BY <4>6 DEF CallLog, limiter
      <4>. QED
        BY <3>1, <4>1, <4>2, <4>3, <4>4, <4>5, <4>6 DEF NewCall
    <3>2. CASE SetLastTime(p)
      <4>1. runs' = runs \cup {local[p].at} /\ lastTime' = local[p].at /\ pc'[p] # "discard"
        BY <3>2 DEF SetLastTime, CallTypes
      <4>. QED
        BY <4>1
    <3>3. CASE Compare(p)
      <4>1. runs' = runs /\ lastTime' = lastTime /\ local' = local
        BY <3>3 DEF Compare, limiter
      <4>2. pc'[p] = "discard" => local[p].at - lastTime <= Threshold
        BY <3>3 DEF Compare, CallTypes
      <4>3. local[p].at \in 0 .. MaxTicks
        BY DEF CallTypes, Locals
      <4>4. lastTime = LongAgo => ~(local[p].at - lastTime <= Threshold)
        BY <4>3 DEF LongAgo
      <4>. QED
        BY <4>1, <4>2, <4>4 DEF LimiterInv
    <3>4. ASSUME Step(p), ~SetLastTime(p), ~Compare(p)
          PROVE  runs' = runs /\ lastTime' = lastTime /\ pc'[p] # "discard"
      <4>. USE DEF CallTypes, limiter
      <4>1. CASE WaitSetUp(p) \/ SetUpLevel(p) \/ FileWriterLevel(p) \/ OpenLog(p) \/ OpenFails(p)
        BY <4>1 DEF WaitSetUp, SetUpLevel, FileWriterLevel, OpenLog, OpenFails
      <4>2. CASE Guard(p) \/ Store(p) \/ CloseNext(p) \/ StoreNop(p)
        BY <4>2 DEF Guard, Store, CloseNext, StoreNop
      <4>3. CASE \/ Recheck(p) \/ Load(p) \/ StoreIfNil(p) \/ Write(p) \/ ReadClock(p)
                 \/ Discard(p) \/ SwapDiscarded(p) \/ Announce(p) \/ Execute(p)
        BY <4>3 DEF Recheck, Load, StoreIfNil, Write, ReadClock, Discard, SwapDiscarded,
                    Announce, Execute
      <4>. QED
        BY <3>4, <4>1, <4>2, <4>3 DEF Step
    <3>. QED
      BY <1>3, <3>1, <3>2, <3>3, <3>4 DEF LimiterInv
  <2>2. ASSUME NEW q \in Procs, q # p, pc'[q] = "discard"
        PROVE  \E t \in runs' : local'[q].at - t <= Threshold
    <3>1. pc[q] = "discard" /\ local'[q].at = local[q].at
      BY <1>3, <2>2, OthersUntouched DEF Untouched
    <3>2. PICK t \in runs : local[q].at - t <= Threshold
      BY <1>1, <3>1 DEF LimiterInv
    <3>. QED
      BY <2>1, <3>1, <3>2
  <2>. QED
    BY <2>1, <2>2 DEF LimiterInv
<1>. QED
  BY <1>2, <1>3 DEF Next

\* What a goroutine at a place has in hand.
InHand(p) ==
    /\ pc[p] \in {"level", "level2", "open"} => local[p].op = "setup"
    /\ pc[p] \in {"guard", "store"} => local[p].w # <<>>
    /\ pc[p] \in {"clock", "compare", "discard", "set", "report", "errorf",
                  "execute"} =>
          local[p].left # <<>>
    /\ local[p].kind = "report" => local[p].rest # <<>>

\* A step leaves everybody with what its place needs.
LEMMA PlaceStep == IInv /\ [Next]_vars => PlaceInv'
<1>. SUFFICES ASSUME IInv, [Next]_vars PROVE PlaceInv'
  OBVIOUS
<1>1. CallTypes /\ WriterTypes /\ \A p \in Procs : InHand(p)
  BY LocalTypes DEF IInv, PlaceInv, InHand
<1>2. CASE UNCHANGED vars \/ Tick
  BY <1>1, <1>2 DEF vars, Tick, PlaceInv, InHand
<1>3. ASSUME NEW p \in Procs, NewCall(p) \/ Step(p) PROVE PlaceInv'
  <2>1. \A q \in Procs : q # p => InHand(q)'
    BY <1>1, <1>3, OthersUntouched DEF Untouched, InHand
  <2>. USE DEF CallTypes, Go, Return, Call, Idle
  <2>2. ASSUME NewCall(p) PROVE InHand(p)'
    <3>1. CASE CallSetUp(p)
      <4>1. once \in {"no", "running", "done"}
        BY DEF IInv, TypeOK
      <4>. QED
        BY <1>1, <3>1, <4>1 DEF CallSetUp, InHand
    <3>2. CASE Reset(p) \/ Close(p)
      <4>1. pc'[p] \in {"idle", "close"}
        BY <1>1, <3>2 DEF Reset, Close, TakeOut
      <4>2. local'[p].kind = "none"
        BY <1>1, <3>2 DEF Reset, Close, TakeOut, Spoilt
      <4>. QED
        BY <4>1, <4>2 DEF InHand
    <3>3. CASE Disable(p) \/ DisableStat(p)
      BY <1>1, <3>3 DEF Disable, DisableStat, InHand
    <3>4. ASSUME NEW c \in Custom, CallSetWriter(p, c) PROVE InHand(p)'
      BY <1>1, <3>4 DEF CallSetWriter, InHand
    <3>5. ASSUME NEW c \in Custom, AddWriter(p, c) PROVE InHand(p)'
      <4>1. pc'[p] = "guard"
        BY <1>1, <3>5 DEF AddWriter
      <4>2. local'[p].kind = "none" /\ local'[p].w = Append(writer, c)
        BY <1>1, <3>5 DEF AddWriter, Spoilt
      <4>3. Append(writer, c) # <<>>
        BY LocalTypes, AppendProperties DEF WriterTypes
      <4>. QED
        BY <4>1, <4>2, <4>3 DEF InHand
    <3>6. ASSUME NEW v \in Levels, SetLevel(p, v) PROVE InHand(p)'
      BY <1>1, <3>6 DEF SetLevel, InHand
    <3>7. ASSUME NEW k \in Kinds, CallLog(p, k) PROVE InHand(p)'
      <4>1. k # "report"
        BY LogAssumption DEF AllKinds
      <4>. QED
        BY <1>1, <3>7, <4>1 DEF CallLog, InHand
    <3>. QED
      BY <2>2, <3>1, <3>2, <3>3, <3>4, <3>5, <3>6, <3>7 DEF NewCall
  <2>3. ASSUME Step(p) PROVE InHand(p)'
    <3>. USE DEF InHand
    <3>0. InHand(p) /\ local[p] \in Locals
      BY <1>1
    <3>1. CASE WaitSetUp(p) \/ FileWriterLevel(p) \/ OpenFails(p)
      BY <1>1, <3>0, <3>1 DEF WaitSetUp, FileWriterLevel, OpenFails
    <3>2. CASE SetUpLevel(p)
      <4>1. /\ local'[p].kind = local[p].kind /\ local'[p].rest = local[p].rest
            /\ \/ pc'[p] = "guard" /\ local'[p].w = <<"console">>
               \/ pc'[p] = "level2" /\ pc[p] = "level" /\ local'[p].op = local[p].op
        BY <1>1, <3>0, <3>2 DEF SetUpLevel, Locals
      <4>2. <<"console">> # <<>>
        OBVIOUS
      <4>. QED
        BY <3>0, <4>1, <4>2
    <3>3. CASE OpenLog(p)
      <4>1. /\ local'[p].kind = local[p].kind /\ local'[p].rest = local[p].rest
            /\ \/ pc'[p] = "guard" /\ local'[p].w = <<"file">>
               \/ pc'[p] = "open" /\ pc[p] = "open" /\ local'[p].op = local[p].op
        BY <1>1, <3>0, <3>3 DEF OpenLog, Locals
      <4>2. <<"file">> # <<>>
        OBVIOUS
      <4>. QED
        BY <3>0, <4>1, <4>2
    <3>4. CASE Guard(p)
      BY <1>1, <3>0, <3>4 DEF Guard
    <3>5. CASE Store(p) \/ StoreNop(p)
      <4>1. pc'[p] = "idle"
        BY <1>1, <3>5 DEF Store, StoreNop
      <4>2. local'[p].kind = "none"
        BY <1>1, <3>5 DEF Store, StoreNop, Spoilt
      <4>. QED
        BY <4>1, <4>2
    <3>6. CASE CloseNext(p)
      BY <1>1, <3>0, <3>6 DEF CloseNext, Locals
    <3>7. CASE Recheck(p) \/ Load(p) \/ StoreIfNil(p)
      <4>1. CASE Recheck(p)
        BY <1>1, <3>0, <4>1 DEF Recheck, Idle
      <4>2. CASE Load(p)
        BY <1>1, <3>0, <4>2 DEF Load, Locals
      <4>3. CASE StoreIfNil(p)
        BY <1>1, <3>0, <4>3 DEF StoreIfNil, Locals
      <4>. QED
        BY <3>7, <4>1, <4>2, <4>3
    <3>8. CASE Write(p)
      BY <1>1, <3>0, <3>8 DEF Write, Locals
    <3>9. CASE ReadClock(p) \/ Compare(p) \/ SetLastTime(p)
      BY <1>1, <3>0, <3>9 DEF ReadClock, Compare, SetLastTime, Locals
    <3>10. CASE Discard(p) \/ Execute(p)
      BY <1>1, <3>0, <3>10 DEF Discard, Execute, Locals
    <3>11. CASE SwapDiscarded(p) \/ Announce(p)
      BY <1>1, <3>0, <3>11 DEF SwapDiscarded, Announce, Locals
    <3>. QED
      BY <2>3, <3>1, <3>2, <3>3, <3>4, <3>5, <3>6, <3>7, <3>8, <3>9, <3>10, <3>11 DEF Step
  <2>. QED
    BY <1>3, <2>1, <2>2, <2>3 DEF PlaceInv, InHand
<1>. QED
  BY <1>2, <1>3 DEF Next

\* Nothing comes into use past a Disable.
LEMMA ShutStep == IInv /\ [Next]_vars => ShutInv'
<1>. SUFFICES ASSUME IInv, [Next]_vars, shut' = "yes"
              PROVE  /\ level' = DisableLevel
                     /\ \A p \in Procs : pc'[p] # "store"
                     /\ Range(writer') \subseteq {"nop", "console"}
  BY DEF ShutInv
<1> DEFINE Goal == /\ level' = DisableLevel
                   /\ \A p \in Procs : pc'[p] # "store"
                   /\ Range(writer') \subseteq {"nop", "console"}
<1>1. CallTypes /\ ShutInv
  BY LocalTypes DEF IInv
<1>2. CASE UNCHANGED vars \/ Tick
  BY <1>1, <1>2 DEF vars, Tick, RestVars, ghosts, ShutInv
<1>3. ASSUME NEW p \in Procs, StoreNop(p) PROVE Goal
  <2>1. level = DisableLevel /\ \A q \in Procs : pc[q] # "store"
    BY <1>3 DEF StoreNop
  <2>2. level' = level /\ writer' = <<"nop">> /\ pc' = [pc EXCEPT ![p] = "idle"]
    BY <1>3 DEF StoreNop, Go
  <2>3. Range(<<"nop">>) = {"nop"}
    BY DEF Range
  <2>. QED
    BY <1>1, <2>1, <2>2, <2>3 DEF CallTypes
<1>4. ASSUME NEW p \in Procs, NewCall(p) \/ Step(p), ~StoreNop(p) PROVE Goal
  <2>1. ASSUME shut = "yes"
        PROVE  /\ level' = DisableLevel
               /\ pc'[p] # "store"
               /\ writer' = writer \/ writer' = <<>> \/ writer' = <<"console">>
    <3>1. level = DisableLevel /\ pc[p] # "store" /\ pc \in [Procs -> Places]
      BY <1>1, <2>1 DEF ShutInv, CallTypes
    <3>. USE <3>1 DEF Go, Return, Call, ghosts, SetUpVars
    <3>2. CASE NewCall(p)
      <4>1. CASE CallSetUp(p)
        <5>1. once \in {"no", "running", "done"}
          BY DEF IInv, TypeOK
        <5>. QED
          BY <4>1, <5>1 DEF CallSetUp
      <4>2. CASE Reset(p) \/ Close(p)
        BY <4>2 DEF Reset, Close, TakeOut
      <4>3. CASE Disable(p) \/ DisableStat(p)
        BY <4>3 DEF Disable, DisableStat
      <4>4. ASSUME NEW c \in Custom, CallSetWriter(p, c) \/ AddWriter(p, c)
            PROVE  /\ level' = DisableLevel /\ pc'[p] # "store"
                   /\ writer' = writer \/ writer' = <<>>
        BY <4>4 DEF CallSetWriter, AddWriter
      <4>5. ASSUME NEW v \in Levels, SetLevel(p, v) PROVE FALSE
        BY <4>5 DEF SetLevel
      <4>6. ASSUME NEW k \in Kinds, CallLog(p, k)
            PROVE  level' = DisableLevel /\ pc'[p] # "store" /\ writer' = writer
        BY <4>6 DEF CallLog, RestVars
      <4>. QED
        BY <3>2, <4>1, <4>2, <4>3, <4>4, <4>5, <4>6 DEF NewCall
    <3>3. CASE Step(p)
      <4>1. CASE WaitSetUp(p) \/ SetUpLevel(p) \/ FileWriterLevel(p) \/ OpenLog(p) \/ OpenFails(p)
        BY <4>1 DEF WaitSetUp, SetUpLevel, FileWriterLevel, OpenLog, OpenFails
      <4>2. CASE Guard(p) \/ Store(p) \/ CloseNext(p)
        BY <4>2 DEF Guard, Store, CloseNext
      <4>3. CASE \/ Recheck(p) \/ Load(p) \/ StoreIfNil(p) \/ Write(p) \/ ReadClock(p)
                 \/ Compare(p) \/ Discard(p) \/ SetLastTime(p) \/ SwapDiscarded(p)
                 \/ Announce(p) \/ Execute(p)
        BY <4>3 DEF Recheck, Load, StoreIfNil, Write, ReadClock, Compare, Discard, SetLastTime,
                    SwapDiscarded, Announce, Execute, RestVars
      <4>. QED
        BY <1>4, <3>3, <4>1, <4>2, <4>3 DEF Step
    <3>. QED
      BY <1>4, <3>2, <3>3
  <2>2. shut = "yes"
    <3>. USE DEF ghosts, SetUpVars
    <3>1. CASE NewCall(p)
      BY <3>1 DEF NewCall, CallSetUp, Reset, Close, TakeOut, Disable, DisableStat, CallSetWriter,
                  AddWriter, SetLevel, CallLog
    <3>2. CASE Step(p)
      <4>1. CASE WaitSetUp(p) \/ SetUpLevel(p) \/ FileWriterLevel(p) \/ OpenLog(p) \/ OpenFails(p)
        BY <4>1 DEF WaitSetUp, SetUpLevel, FileWriterLevel, OpenLog, OpenFails
      <4>2. CASE Guard(p) \/ Store(p) \/ CloseNext(p)
        BY <4>2 DEF Guard, Store, CloseNext
      <4>3. CASE \/ Recheck(p) \/ Load(p) \/ StoreIfNil(p) \/ Write(p) \/ ReadClock(p)
                 \/ Compare(p) \/ Discard(p) \/ SetLastTime(p) \/ SwapDiscarded(p)
                 \/ Announce(p) \/ Execute(p)
        BY <4>3 DEF Recheck, Load, StoreIfNil, Write, ReadClock, Compare, Discard, SetLastTime,
                    SwapDiscarded, Announce, Execute
      <4>. QED
        BY <1>4, <3>2, <4>1, <4>2, <4>3 DEF Step
    <3>. QED
      BY <1>4, <3>1, <3>2
  <2>3. Range(<<>>) = {} /\ Range(<<"console">>) = {"console"}
    BY DEF Range
  <2>4. \A q \in Procs : pc'[q] # "store"
    BY <1>1, <1>4, <2>1, <2>2, OthersUntouched DEF Untouched, ShutInv
  <2>. QED
    BY <1>1, <2>1, <2>2, <2>3, <2>4 DEF ShutInv
<1>. QED
  BY <1>2, <1>3, <1>4 DEF Next

\* Who is between the two halves of AddWriter, and with what.
SameHalf(p) ==
    /\ Between(p)' <=> Between(p)
    /\ Between(p)' => local'[p].w = local[p].w /\ local'[p].raced = local[p].raced

\* All but the steps that put a writer in, or take it out, leave the history of
\* writers alone (or forget it).
LEMMA ChainUntouched ==
    ASSUME IInv, NEW p \in Procs, NewCall(p) \/ Step(p),
           ~Store(p), ~StoreIfNil(p), \A c \in Custom : ~AddWriter(p, c)
    PROVE  \/ chain' = {}
           \/ chain' = chain /\ writer' = writer /\ SameHalf(p)
<1>1. CallTypes /\ InHand(p) /\ once \in {"no", "running", "done"}
  BY LocalTypes DEF IInv, PlaceInv, InHand, TypeOK
<1>. USE <1>1 DEF CallTypes, Go, Return, Call, ghosts, SetUpVars, SameHalf, Between
<1>2. ASSUME NewCall(p)
      PROVE  chain' = {} \/ (chain' = chain /\ writer' = writer /\ SameHalf(p))
  <2>1. CASE CallSetUp(p)
    <3>1. pc[p] = "idle" /\ pc'[p] \notin {"guard", "store"}
      BY <2>1 DEF CallSetUp
    <3>2. chain' = chain /\ writer' = writer
      BY <2>1 DEF CallSetUp
    <3>. QED
      BY <3>1, <3>2
  <2>2. CASE Reset(p) \/ Close(p)
    BY <2>2 DEF Reset, Close, TakeOut
  <2>3. CASE Disable(p) \/ DisableStat(p)
    BY <2>3 DEF Disable, DisableStat
  <2>4. ASSUME NEW c \in Custom, CallSetWriter(p, c)
        PROVE  chain' = chain /\ writer' = writer /\ SameHalf(p)
    BY <2>4 DEF CallSetWriter, Idle
  <2>5. ASSUME NEW v \in Levels, SetLevel(p, v)
        PROVE  chain' = chain /\ writer' = writer /\ SameHalf(p)
    BY <2>5 DEF SetLevel
  <2>6. ASSUME NEW k \in Kinds, CallLog(p, k)
        PROVE  chain' = chain /\ writer' = writer /\ SameHalf(p)
    BY <2>6 DEF CallLog, RestVars
  <2>. QED
    BY <1>2, <2>1, <2>2, <2>3, <2>4, <2>5, <2>6 DEF NewCall
<1>3. ASSUME Step(p)
      PROVE  chain' = {} \/ (chain' = chain /\ writer' = writer /\ SameHalf(p))
  <2>1. CASE WaitSetUp(p) \/ FileWriterLevel(p) \/ OpenFails(p)
    BY <2>1 DEF WaitSetUp, FileWriterLevel, OpenFails
  <2>2. CASE SetUpLevel(p) \/ OpenLog(p)
    <3>1. pc[p] \notin {"guard", "store"} /\ local'[p].op = "setup"
      BY <2>2 DEF SetUpLevel, OpenLog, InHand, Locals
    <3>2. chain' = chain /\ writer' = writer
      BY <2>2 DEF SetUpLevel, OpenLog
    <3>. QED
      BY <3>1, <3>2
  <2>3. CASE Guard(p)
    BY <2>3 DEF Guard
  <2>4. CASE StoreNop(p)
    BY <2>4 DEF StoreNop
  <2>5. CASE \/ CloseNext(p) \/ Recheck(p) \/ Load(p) \/ Write(p) \/ ReadClock(p)
             \/ Compare(p) \/ Discard(p) \/ SetLastTime(p) \/ SwapDiscarded(p)
             \/ Announce(p) \/ Execute(p)
    BY <2>5 DEF CloseNext, Recheck, Load, Write, ReadClock, Compare, Discard, SetLastTime,
                SwapDiscarded, Announce, Execute
  <2>. QED
    BY <1>3, <2>1, <2>2, <2>3, <2>4, <2>5 DEF Step
<1>. QED
  BY <1>2, <1>3

\* The writers that were set and must be in use.
LEMMA ChainStep == IInv /\ [Next]_vars => ChainKept'
<1>. SUFFICES ASSUME IInv, [Next]_vars PROVE ChainKept'
  OBVIOUS
<1>1. CallTypes /\ WriterTypes /\ ChainKept
  BY LocalTypes DEF IInv
<1>2. CASE UNCHANGED vars \/ Tick
  BY <1>1, <1>2 DEF vars, Tick, RestVars, ghosts, ChainKept, Between
<1>3. ASSUME NEW p \in Procs, NewCall(p) \/ Step(p) PROVE ChainKept'
  <2>1. ASSUME NEW q \in Procs, q # p
        PROVE  /\ Between(q)' <=> Between(q)
               /\ local'[q].w = local[q].w /\ (local[q].raced => local'[q].raced)
    BY <1>3, <2>1, OthersUntouched DEF Untouched, Between
  <2>2. CASE Store(p)
    <3> DEFINE l == local[p]
    <3>1. pc[p] = "store" /\ writer' = l.w /\ pc' = [pc EXCEPT ![p] = "idle"]
          /\ local' = Spoilt(p, [local EXCEPT ![p] = Idle])
          /\ chain' = IF l.op = "add" /\ ~l.raced THEN chain \cup {Last(l.w)}
                      ELSE IF l.op = "add" THEN {} ELSE {Last(l.w)}
      BY <2>2 DEF Store, Go
    <3>2. Last(l.w) \in Range(l.w)
      <4>1. l.w # <<>> /\ l.w \in Seq(Leaves)
        BY <3>1, LocalTypes DEF IInv, PlaceInv
      <4>. QED
        BY <4>1, Ranges
    <3>3. l.op = "add" /\ ~l.raced => chain \subseteq Range(l.w)
      BY <1>1, <3>1 DEF ChainKept, Between
    <3>4. chain' \subseteq Range(writer')
      BY <3>1, <3>2, <3>3
    <3>5. ~Between(p)'
      BY <1>1, <3>1 DEF Between, CallTypes
    <3>6. \A q \in Procs : q # p /\ Between(q) => local'[q].raced
      BY <1>1, <3>1, LocalTypes, SpoiltOthers
    <3>. QED
      BY <2>1, <3>4, <3>5, <3>6 DEF ChainKept
  <2>3. CASE StoreIfNil(p)
    <3>1. ~Between(p) /\ ~Between(p)' /\ chain' = chain /\ (writer = <<>> \/ writer' = writer)
      BY <1>1, <2>3 DEF StoreIfNil, Between, CallTypes, Go, ghosts
    <3>2. \A q \in Procs : Between(q)' <=> Between(q)
      BY <2>1, <3>1
    <3>3. writer = <<>> => Range(writer) = {}
      BY <1>1, Ranges DEF WriterTypes
    <3>4. (\A q \in Procs : ~Between(q)) => chain \subseteq Range(writer')
      BY <1>1, <3>1, <3>3 DEF ChainKept
    <3>5. \A q \in Procs : Between(q)' /\ ~local'[q].raced => chain \subseteq Range(local'[q].w)
      BY <1>1, <2>1, <3>1 DEF ChainKept
    <3>. QED
      BY <3>1, <3>2, <3>4, <3>5 DEF ChainKept
  <2>4. ASSUME NEW c \in Custom, AddWriter(p, c) PROVE ChainKept'
    <3>1. /\ pc[p] = "idle" /\ pc'[p] = "guard"
          /\ local'[p].op = "add" /\ local'[p].w = Append(writer, c)
          /\ chain' = IF \E q \in Procs : Between(q) THEN {} ELSE chain
      BY <1>1, <2>4 DEF AddWriter, CallTypes, Go, Spoilt, Idle
    <3>2. Between(p)'
      BY <3>1 DEF Between
    <3>3. CASE \E q \in Procs : Between(q)
      BY <3>1, <3>3 DEF ChainKept
    <3>4. CASE \A q \in Procs : ~Between(q)
      <4>1. chain' = chain /\ chain \subseteq Range(writer)
        BY <1>1, <3>1, <3>4 DEF ChainKept
      <4>2. Range(writer) \subseteq Range(Append(writer, c))
        BY LocalTypes, Ranges DEF WriterTypes
      <4>3. chain' \subseteq Range(local'[p].w)
        BY <3>1, <4>1, <4>2
      <4>4. \A q \in Procs : Between(q)' => q = p
        BY <2>1, <3>4
      <4>. QED
        BY <3>2, <4>3, <4>4 DEF ChainKept
    <3>. QED
      BY <3>3, <3>4
  <2>5. CASE /\ ~Store(p) /\ ~StoreIfNil(p) /\ \A c \in Custom : ~AddWriter(p, c)
    <3>1. CASE chain' = {}
      BY <3>1 DEF ChainKept
    <3>2. CASE chain' = chain /\ writer' = writer /\ SameHalf(p)
      <4>1. \A q \in Procs : Between(q)' <=> Between(q)
        BY <2>1, <3>2 DEF SameHalf
      <4>2. \A q \in Procs : Between(q)' /\ ~local'[q].raced =>
                                 ~local[q].raced /\ local'[q].w = local[q].w
        BY <2>1, <3>2 DEF SameHalf
      <4>. QED
        BY <1>1, <3>2, <4>1, <4>2 DEF ChainKept
    <3>. QED
      BY <1>3, <2>5, <3>1, <3>2, ChainUntouched
  <2>. QED
    BY <2>2, <2>3, <2>4, <2>5
<1>. QED
  BY <1>2, <1>3 DEF Next

\* All the writers that are in use or that a goroutine has in hand.
Hands(p) == Range(writer) \cup Range(local[p].w) \cup Range(local[p].left) \cup Range(local[p].rest)

\* A step makes no writer of files but that which opens the last log.
LEMMA NoNewFiles ==
    ASSUME IInv, NEW p \in Procs, NewCall(p) \/ Step(p), ~OpenLog(p), "file" \notin Hands(p)
    PROVE  "file" \notin Hands(p)'
<1>1. /\ CallTypes /\ InHand(p) /\ local[p] \in Locals /\ local[p].left \in Seq(Leaves)
      /\ writer \in Seq(Leaves)
  BY LocalTypes DEF IInv, PlaceInv, InHand, CallTypes, WriterTypes
<1>2. Range(<<>>) = {} /\ \A x \in Leaves : Range(<<x>>) = {x}
  BY DEF Range
<1>3. local[p].left # <<>> => Range(Tail(local[p].left)) \subseteq Range(local[p].left)
  BY <1>1, Ranges
<1>4. \A c \in Custom : c # "file" /\ c \in Leaves
  BY LogAssumption DEF Leaves
<1>5. "console" \in Leaves /\ "nop" \in Leaves
  BY DEF Leaves
<1>. USE DEF CallTypes, Go, Return, Call, ghosts, SetUpVars, Hands
<1>6. ASSUME NewCall(p) PROVE "file" \notin Hands(p)'
  <2>. USE DEF Idle
  <2>1. CASE CallSetUp(p)
    <3>1. /\ writer' = writer /\ local'[p].w = <<>> /\ local'[p].left = <<>>
          /\ local'[p].rest = <<>>
      BY <1>1, <2>1 DEF CallSetUp
    <3>. QED
      BY <1>2, <3>1
  <2>2. CASE Reset(p) \/ Close(p)
    <3>1. /\ writer' = <<>> /\ local'[p].w = <<>> /\ local'[p].left \in {<<>>, writer}
          /\ local'[p].rest = <<>>
      BY <1>1, <2>2 DEF Reset, Close, TakeOut, Spoilt
    <3>. QED
      BY <1>2, <3>1
  <2>3. CASE Disable(p) \/ DisableStat(p)
    <3>1. /\ writer' = writer /\ local'[p].w = <<>> /\ local'[p].left = <<>>
          /\ local'[p].rest = <<>>
      BY <1>1, <2>3 DEF Disable, DisableStat
    <3>. QED
      BY <1>2, <3>1
  <2>4. ASSUME NEW c \in Custom, CallSetWriter(p, c) PROVE "file" \notin Hands(p)'
    <3>1. /\ writer' = writer /\ local'[p].w = <<c>> /\ local'[p].left = <<>>
          /\ local'[p].rest = <<>>
      BY <1>1, <2>4 DEF CallSetWriter
    <3>. QED
      BY <1>2, <1>4, <3>1
  <2>5. ASSUME NEW c \in Custom, AddWriter(p, c) PROVE "file" \notin Hands(p)'
    <3>1. /\ writer' = <<>> /\ local'[p].w = Append(writer, c) /\ local'[p].left = <<>>
          /\ local'[p].rest = <<>>
      BY <1>1, <2>5 DEF AddWriter, Spoilt
    <3>2. Range(Append(writer, c)) = Range(writer) \cup {c}
      BY <1>1, <1>4, Ranges
    <3>. QED
      BY <1>2, <1>4, <3>1, <3>2
  <2>6. ASSUME NEW v \in Levels, SetLevel(p, v) PROVE "file" \notin Hands(p)'
    <3>1. /\ writer' = writer /\ local'[p].w = <<>> /\ local'[p].left = <<>>
          /\ local'[p].rest = <<>>
      BY <1>1, <2>6 DEF SetLevel
    <3>. QED
      BY <1>2, <3>1
  <2>7. ASSUME NEW k \in Kinds, CallLog(p, k) PROVE "file" \notin Hands(p)'
    <3>1. /\ writer' = writer /\ local'[p].w = <<>> /\ local'[p].left = <<>>
          /\ local'[p].rest = <<>>
      BY <1>1, <2>7 DEF CallLog
    <3>. QED
      BY <1>2, <3>1
  <2>. QED
    BY <1>6, <2>1, <2>2, <2>3, <2>4, <2>5, <2>6, <2>7 DEF NewCall
<1>7. ASSUME Step(p) PROVE "file" \notin Hands(p)'
  <2> DEFINE old == {<<>>, local[p].w, local[p].left, local[p].rest, writer}
  <2>0. \A s \in old : "file" \notin Range(s)
    BY <1>2
  <2>1. CASE WaitSetUp(p) \/ OpenFails(p) \/ Guard(p) \/ FileWriterLevel(p) \/ Recheck(p)
             \/ Compare(p) \/ SetLastTime(p)
    <3>1. writer' = writer /\ (local' = local \/ local' = [local EXCEPT ![p] = Idle])
      BY <1>1, <2>1 DEF WaitSetUp, OpenFails, Guard, FileWriterLevel, Recheck, Compare, SetLastTime
    <3>2. local'[p].w \in old /\ local'[p].left \in old /\ local'[p].rest \in old
      BY <1>1, <3>1 DEF Idle
    <3>. QED
      BY <2>0, <3>1, <3>2
  <2>2. CASE SetUpLevel(p)
    <3>1. /\ writer' = writer /\ local'[p].w \in {local[p].w, <<"console">>}
          /\ local'[p].left = local[p].left /\ local'[p].rest = local[p].rest
      BY <1>1, <2>2 DEF SetUpLevel, Locals
    <3>. QED
      BY <1>2, <1>5, <3>1
  <2>3. CASE Store(p) \/ StoreNop(p)
    <3>1. /\ writer' \in {local[p].w, <<"nop">>} /\ local'[p].w = <<>>
          /\ local'[p].left = <<>> /\ local'[p].rest = <<>>
      BY <1>1, <2>3 DEF Store, StoreNop, Spoilt, Idle
    <3>. QED
      BY <1>2, <1>5, <3>1
  <2>4. CASE CloseNext(p)
    <3>1. CASE local[p].left = <<>>
      <4>1. /\ writer' = writer /\ local'[p].w = <<>> /\ local'[p].left = <<>>
            /\ local'[p].rest = <<>>
        BY <1>1, <2>4, <3>1 DEF CloseNext, Idle
      <4>. QED
        BY <1>2, <4>1
    <3>2. CASE local[p].left # <<>>
      <4>1. /\ writer' = writer /\ local'[p].left \in {local[p].left, Tail(local[p].left)}
            /\ local'[p].w = local[p].w /\ local'[p].rest = local[p].rest
        BY <1>1, <2>4, <3>2 DEF CloseNext, Locals
      <4>. QED
        BY <1>3, <3>2, <4>1
    <3>. QED
      BY <3>1, <3>2
  <2>5. CASE Load(p) \/ StoreIfNil(p)
    <3>1. /\ writer' \in {writer, <<"console">>} /\ local'[p].left \in {writer, writer'}
          /\ local'[p].w = local[p].w /\ local'[p].rest = local[p].rest
      BY <1>1, <2>5 DEF Load, StoreIfNil, Locals
    <3>2. "file" \notin Range(writer')
      BY <1>2, <1>5, <3>1
    <3>. QED
      BY <1>2, <3>1, <3>2
  <2>6. CASE Write(p)
    <3>1. CASE local[p].left = <<>>
      <4>1. /\ writer' = writer /\ local'[p].left \in {<<>>, local[p].rest}
            /\ local'[p].w \in {<<>>, local[p].w} /\ local'[p].rest = <<>>
        BY <1>1, <2>6, <3>1 DEF Write, Idle, Locals
      <4>. QED
        BY <1>2, <4>1
    <3>2. CASE local[p].left # <<>>
      <4>1. /\ writer' = writer /\ local'[p].left \in {local[p].left, Tail(local[p].left)}
            /\ local'[p].w = local[p].w /\ local'[p].rest = local[p].rest
        BY <1>1, <2>6, <3>2 DEF Write, Locals
      <4>. QED
        BY <1>3, <3>2, <4>1
    <3>. QED
      BY <3>1, <3>2
  <2>7. CASE ReadClock(p)
    <3>1. /\ writer' = writer /\ local'[p].left = local[p].left
          /\ local'[p].w = local[p].w /\ local'[p].rest = local[p].rest
      BY <1>1, <2>7 DEF ReadClock, Locals
    <3>. QED
      BY <3>1
  <2>8. CASE Discard(p) \/ Execute(p)
    <3>1. /\ writer' = writer /\ local'[p].left = Tail(local[p].left)
          /\ local'[p].w = local[p].w /\ local'[p].rest = local[p].rest
      BY <1>1, <2>8 DEF Discard, Execute, Locals
    <3>2. local[p].left # <<>>
      BY <1>1, <2>8 DEF Discard, Execute, InHand
    <3>. QED
      BY <1>3, <3>1, <3>2
  <2>9. CASE SwapDiscarded(p) \/ Announce(p)
    <3>1. /\ writer' = writer /\ local'[p].left = local[p].left
          /\ local'[p].w = local[p].w /\ local'[p].rest \in {local[p].rest, local[p].left}
      BY <1>1, <2>9 DEF SwapDiscarded, Announce, Locals
    <3>. QED
      BY <3>1
  <2>. QED
    BY <1>7, <2>1, <2>2, <2>3, <2>4, <2>5, <2>6, <2>7, <2>8, <2>9 DEF Step
<1>. QED
  BY <1>6, <1>7

\* One log that is open is closed, for a file writer that is being closed.
ClosesOne(p) ==
    /\ pc[p] = "close" /\ pc' = pc /\ local' = local
    /\ writer' = writer /\ once' = once /\ faults' = faults
    /\ local[p].left # <<>> /\ Head(local[p].left) = "file"
    /\ \E i \in 1 .. 5 : logs[Logs[i]] = "open" /\ logs' = [logs EXCEPT ![Logs[i]] = "closed"]

\* A step changes no log unless it opens the next or closes one.
LEMMA LogsUntouched ==
    ASSUME IInv, NEW p \in Procs, NewCall(p) \/ Step(p), ~OpenLog(p)
    PROVE  logs' = logs \/ ClosesOne(p)
<1>. USE DEF SetUpVars, RestVars
<1>1. CASE NewCall(p)
  BY <1>1 DEF NewCall, CallSetUp, Reset, Close, TakeOut, Disable, DisableStat, CallSetWriter,
              AddWriter, SetLevel, CallLog
<1>2. CASE CloseNext(p)
  <2>1. CASE \/ local[p].left = <<>> \/ Head(local[p].left) # "file" \/ Unclosed = {}
    BY <1>2, <2>1 DEF CloseNext
  <2>2. CASE local[p].left # <<>> /\ Head(local[p].left) = "file" /\ Unclosed # {}
    <3>1. Unclosed \in SUBSET (1 .. 5)
      BY LogNames DEF Unclosed
    <3>2. Min(Unclosed) \in Unclosed
      BY <2>2, <3>1, MinOfFive
    <3>3. Min(Unclosed) \in 1 .. 5 /\ logs[Logs[Min(Unclosed)]] = "open"
      BY <3>1, <3>2 DEF Unclosed
    <3>4. \/ logs' = logs
          \/ /\ logs' = [logs EXCEPT ![Logs[Min(Unclosed)]] = "closed"]
             /\ pc' = pc /\ local' = local /\ faults' = faults
      BY <1>2, <2>2 DEF CloseNext
    <3>5. pc[p] = "close" /\ writer' = writer /\ once' = once
      BY <1>2 DEF CloseNext
    <3>. QED
      BY <2>2, <3>3, <3>4, <3>5 DEF ClosesOne
  <2>. QED
    BY <2>1, <2>2
<1>3. CASE Step(p) /\ ~CloseNext(p)
  <2>1. CASE WaitSetUp(p) \/ SetUpLevel(p) \/ FileWriterLevel(p) \/ OpenFails(p)
    BY <2>1 DEF WaitSetUp, SetUpLevel, FileWriterLevel, OpenFails
  <2>2. CASE Guard(p) \/ Store(p) \/ StoreNop(p)
    BY <2>2 DEF Guard, Store, StoreNop
  <2>3. CASE \/ Recheck(p) \/ Load(p) \/ StoreIfNil(p) \/ Write(p) \/ ReadClock(p)
             \/ Compare(p) \/ Discard(p) \/ SetLastTime(p) \/ SwapDiscarded(p)
             \/ Announce(p) \/ Execute(p)
    BY <2>3 DEF Recheck, Load, StoreIfNil, Write, ReadClock, Compare, Discard, SetLastTime,
                SwapDiscarded, Announce, Execute
  <2>. QED
    BY <1>3, <2>1, <2>2, <2>3 DEF Step
<1>. QED
  BY <1>1, <1>2, <1>3

\* A goroutine comes into the function of setupOnce only for the first time.
LEMMA FirstSetUp ==
    ASSUME IInv, NEW p \in Procs, NewCall(p) \/ Step(p)
    PROVE  /\ once' = "no" => once = "no"
           /\ pc'[p] \in {"level", "level2", "open"} =>
                 once = "no" \/ pc[p] \in {"level", "level2", "open"}
<1>1. CallTypes /\ once \in {"no", "running", "done"}
  BY LocalTypes DEF IInv, TypeOK
<1>. USE <1>1 DEF CallTypes, Go, Return, Call, SetUpVars, RestVars, ghosts
<1>2. ASSUME NewCall(p)
      PROVE  /\ once' = "no" => once = "no"
             /\ pc'[p] \in {"level", "level2", "open"} => once = "no"
  <2>1. CASE CallSetUp(p)
    BY <2>1 DEF CallSetUp
  <2>2. CASE Reset(p) \/ Close(p)
    BY <2>2 DEF Reset, Close, TakeOut
  <2>3. CASE Disable(p) \/ DisableStat(p)
    BY <2>3 DEF Disable, DisableStat
  <2>4. ASSUME NEW c \in Custom, CallSetWriter(p, c) \/ AddWriter(p, c)
        PROVE  once' = once /\ pc'[p] \notin {"level", "level2", "open"}
    BY <2>4 DEF CallSetWriter, AddWriter
  <2>5. ASSUME NEW v \in Levels, SetLevel(p, v)
        PROVE  once' = once /\ pc'[p] \notin {"level", "level2", "open"}
    BY <2>5 DEF SetLevel
  <2>6. ASSUME NEW k \in Kinds, CallLog(p, k)
        PROVE  once' = once /\ pc'[p] \notin {"level", "level2", "open"}
    BY <2>6 DEF CallLog
  <2>. QED
    BY <1>2, <2>1, <2>2, <2>3, <2>4, <2>5, <2>6 DEF NewCall
<1>3. ASSUME Step(p)
      PROVE  /\ once' = "no" => once = "no"
             /\ pc'[p] \in {"level", "level2", "open"} => pc[p] \in {"level", "level2", "open"}
  <2>1. CASE WaitSetUp(p) \/ SetUpLevel(p) \/ FileWriterLevel(p) \/ OpenLog(p) \/ OpenFails(p)
    BY <2>1 DEF WaitSetUp, SetUpLevel, FileWriterLevel, OpenLog, OpenFails
  <2>2. CASE Guard(p) \/ Store(p) \/ CloseNext(p) \/ StoreNop(p)
    BY <2>2 DEF Guard, Store, CloseNext, StoreNop
  <2>3. CASE \/ Recheck(p) \/ Load(p) \/ StoreIfNil(p) \/ Write(p) \/ ReadClock(p)
             \/ Compare(p) \/ Discard(p) \/ SetLastTime(p) \/ SwapDiscarded(p)
             \/ Announce(p) \/ Execute(p)
    BY <2>3 DEF Recheck, Load, StoreIfNil, Write, ReadClock, Compare, Discard, SetLastTime,
                SwapDiscarded, Announce, Execute
  <2>. QED
    BY <1>3, <2>1, <2>2, <2>3 DEF Step
<1>. QED
  BY <1>2, <1>3

\* The first log that is absent is opened: what is open before and after.
LEMMA OpensNext ==
    ASSUME IInv, NEW p \in Procs, OpenLog(p)
    PROVE  \E k \in 1 .. 5 :
              /\ \A i \in 1 .. 5 : /\ i < k => logs[Logs[i]] = "open"
                                   /\ i >= k => logs[Logs[i]] = "absent"
              /\ \A i \in 1 .. 5 : logs'[Logs[i]] = IF i = k THEN "open" ELSE logs[Logs[i]]
              /\ IF k = 5 THEN pc' = [pc EXCEPT ![p] = "guard"] ELSE pc' = pc /\ local' = local
<1>1. /\ LogsInv /\ pc[p] = "open"
      /\ \A i \in 1 .. 5 : logs[Logs[i]] \in {"absent", "open", "closed"}
      /\ logs \in [Range(Logs) -> {"absent", "open", "closed"}]
  BY LogNames DEF IInv, TypeOK, OpenLog
<1>2. logs["stat"] = "absent" /\ \A i \in 1 .. 5 : logs[Logs[i]] # "closed"
  BY <1>1 DEF LogsInv
<1>3. PICK k \in 1 .. 5 : /\ NextLog = Logs[k] /\ logs[Logs[k]] = "absent"
                          /\ \A j \in 1 .. k - 1 : logs[Logs[j]] # "absent"
  BY <1>2, NextLogIs
<1>4. logs' = [logs EXCEPT ![Logs[k]] = "open"]
  BY <1>3 DEF OpenLog
<1>5. \A i \in 1 .. 5 : logs'[Logs[i]] = IF i = k THEN "open" ELSE logs[Logs[i]]
  BY <1>1, <1>4, LogNames
<1>6. \A i \in 1 .. 5 : i < k => logs[Logs[i]] = "open"
  BY <1>1, <1>2, <1>3
<1>7. \A i \in 1 .. 5 : i >= k => logs[Logs[i]] = "absent"
  BY <1>1, <1>3 DEF LogsInv
<1>8. NextLog = LastLog <=> k = 5
  BY <1>3, LogNames
<1>9. IF k = 5 THEN pc' = [pc EXCEPT ![p] = "guard"] ELSE pc' = pc /\ local' = local
  BY <1>8 DEF OpenLog, Go
<1>. QED
  BY <1>5, <1>6, <1>7, <1>9

\* The order of the logs, and who has the file writer.
LEMMA LogsStep == IInv /\ [Next]_vars => LogsInv'
<1>. SUFFICES ASSUME IInv, [Next]_vars PROVE LogsInv'
  OBVIOUS
<1>1. /\ LogsInv /\ SetUpOnce /\ CallTypes /\ logs \in [Range(Logs) -> {"absent", "open", "closed"}]
      /\ Logs[5] = "stat"
  BY LocalTypes, LogNames DEF IInv, TypeOK
<1>2. CASE UNCHANGED vars \/ Tick
  BY <1>1, <1>2 DEF vars, Tick, RestVars, LogsInv
<1>3. ASSUME NEW p \in Procs, NewCall(p) \/ Step(p) PROVE LogsInv'
  <2>1. \A q \in Procs : q # p => Untouched(q)
    BY <1>3, OthersUntouched
  <2>2. CASE OpenLog(p)
    <3>1. PICK k \in 1 .. 5 :
              /\ \A i \in 1 .. 5 : /\ i < k => logs[Logs[i]] = "open"
                                   /\ i >= k => logs[Logs[i]] = "absent"
              /\ \A i \in 1 .. 5 : logs'[Logs[i]] = IF i = k THEN "open" ELSE logs[Logs[i]]
              /\ IF k = 5 THEN pc' = [pc EXCEPT ![p] = "guard"] ELSE pc' = pc /\ local' = local
      BY <2>2, OpensNext
    <3>2. pc[p] = "open" /\ writer' = writer /\ once' = once
      BY <2>2 DEF OpenLog
    <3>3. once' # "no"
      BY <1>1, <3>2 DEF SetUpOnce, InSetUp
    <3>4. \A q \in Procs : q # p => pc'[q] \notin {"level", "level2", "open"}
      BY <1>1, <2>1, <3>2 DEF Untouched, SetUpOnce, InSetUp
    <3>5. \A i, j \in 1 .. 5 : i < j /\ logs'[Logs[i]] = "absent" => logs'[Logs[j]] = "absent"
      BY <3>1
    <3>6. CASE k = 5
      <4>1. logs'["stat"] # "absent" /\ pc'[p] = "guard"
        BY <1>1, <3>1, <3>6 DEF CallTypes
      <4>. QED
        BY <3>3, <3>4, <3>5, <4>1 DEF LogsInv
    <3>7. CASE k # 5
      <4>1. logs'["stat"] = "absent" /\ logs["stat"] = "absent" /\ local' = local
        BY <1>1, <3>1, <3>7
      <4>2. \A i \in 1 .. 5 : logs'[Logs[i]] # "closed"
        BY <3>1
      <4>. QED
        BY <1>1, <3>2, <3>5, <4>1, <4>2 DEF LogsInv
    <3>. QED
      BY <3>6, <3>7
  <2>3. CASE ~OpenLog(p) /\ ClosesOne(p)
    <3>1. PICK i \in 1 .. 5 : logs[Logs[i]] = "open" /\ logs' = [logs EXCEPT ![Logs[i]] = "closed"]
      BY <2>3 DEF ClosesOne
    <3>2. "file" \in Range(local[p].left)
      <4>1. local[p].left \in Seq(Leaves)
        BY LocalTypes
      <4>. QED
        BY <2>3, <4>1, Ranges DEF ClosesOne
    <3>3. logs["stat"] # "absent"
      BY <1>1, <3>2 DEF LogsInv
    <3>4. \A j \in 1 .. 5 : logs[Logs[j]] # "absent"
      BY <1>1, <3>3 DEF LogsInv
    <3>5. \A j \in 1 .. 5 : logs'[Logs[j]] # "absent"
      BY <1>1, <3>1, <3>4, LogNames
    <3>6. logs'["stat"] # "absent"
      BY <1>1, <3>5
    <3>7. pc' = pc /\ once' = once
      BY <2>3 DEF ClosesOne
    <3>. QED
      BY <1>1, <3>3, <3>5, <3>6, <3>7 DEF LogsInv
  <2>4. CASE ~OpenLog(p) /\ logs' = logs
    <3>1. /\ once' = "no" => logs["stat"] = "absent"
          /\ pc'[p] \in {"level", "level2", "open"} => logs["stat"] = "absent"
      BY <1>1, <1>3, FirstSetUp DEF LogsInv
    <3>2. \A q \in Procs : pc'[q] \in {"level", "level2", "open"} => logs["stat"] = "absent"
      BY <1>1, <2>1, <3>1 DEF LogsInv, Untouched
    <3>3. ASSUME logs["stat"] = "absent"
          PROVE  \A q \in Procs : "file" \notin Hands(q)'
      <4>1. \A q \in Procs : "file" \notin Hands(q)
        BY <1>1, <3>3 DEF LogsInv, Hands
      <4>2. "file" \notin Hands(p)'
        BY <1>3, <2>4, <4>1, NoNewFiles
      <4>3. ASSUME NEW q \in Procs, q # p PROVE "file" \notin Hands(q)'
        BY <2>1, <4>1, <4>2, <4>3 DEF Untouched, Hands
      <4>. QED
        BY <4>2, <4>3
    <3>4. ASSUME logs["stat"] = "absent"
          PROVE  /\ "file" \notin Range(writer')
                 /\ \A q \in Procs : "file" \notin Range(local'[q].w) \cup Range(local'[q].left)
                                                   \cup Range(local'[q].rest)
      BY <1>3, <3>3, <3>4 DEF Hands
    <3>. QED
      BY <1>1, <2>4, <3>1, <3>2, <3>4 DEF LogsInv
  <2>. QED
    BY <1>3, <2>2, <2>3, <2>4, LogsUntouched
<1>. QED
  BY <1>2, <1>3 DEF Next

\* A goroutine that is closing the file writer goes on until all five logs are
\* closed, or one could not be.
LEMMA GoesOnClosing ==
    ASSUME IInv, NEW p \in Procs, NewCall(p) \/ Step(p), ~OpenLog(p), ~ClosesOne(p),
           pc[p] = "close", "file" \in Range(local[p].left)
    PROVE  \/ faults' > 0
           \/ \A i \in 1 .. 5 : logs[Logs[i]] = "closed"
           \/ pc'[p] = "close" /\ "file" \in Range(local'[p].left)
<1>0. /\ CallTypes /\ LogsInv /\ faults \in 0 .. MaxFaults
      /\ logs \in [Range(Logs) -> {"absent", "open", "closed"}]
  BY LocalTypes DEF IInv, TypeOK
<1>1. /\ CallTypes /\ local[p].left \in Seq(Leaves) /\ logs["stat"] # "absent" /\ LogsInv
      /\ faults \in Nat /\ logs \in [Range(Logs) -> {"absent", "open", "closed"}]
  <2>1. logs["stat"] # "absent"
    BY <1>0 DEF LogsInv
  <2>2. local[p].left \in Seq(Leaves)
    BY LocalTypes
  <2>3. faults \in Nat
    BY <1>0, LogAssumption
  <2>. QED
    BY <1>0, <2>1, <2>2, <2>3
<1>2. CloseNext(p)
  BY DEF NewCall, Step, CallSetUp, Reset, Close, TakeOut, Disable, DisableStat, CallSetWriter,
         AddWriter, SetLevel, CallLog, Call, WaitSetUp, SetUpLevel, FileWriterLevel, OpenLog,
         OpenFails, Guard, Store, StoreNop, Recheck, Load, StoreIfNil, Write, ReadClock,
         Compare, Discard, SetLastTime, SwapDiscarded, Announce, Execute
<1>3. local[p].left # <<>>
  BY <1>1, Ranges
<1>4. Range(local[p].left) = {Head(local[p].left)} \cup Range(Tail(local[p].left))
  BY <1>1, <1>3, Ranges
<1>5. CASE Head(local[p].left) # "file"
  <2>1. pc' = pc /\ local' = [local EXCEPT ![p].left = Tail(local[p].left)]
    BY <1>2, <1>3, <1>5 DEF CloseNext
  <2>2. local'[p].left = Tail(local[p].left)
    BY <1>1, <2>1 DEF CallTypes, Locals
  <2>3. "file" \in Range(Tail(local[p].left))
    BY <1>4, <1>5
  <2>. QED
    BY <2>1, <2>2, <2>3
<1>6. CASE Head(local[p].left) = "file" /\ Unclosed = {}
  <2>1. \A i \in 1 .. 5 : logs[Logs[i]] # "open"
    BY <1>6, LogNames DEF Unclosed
  <2>2. \A i \in 1 .. 5 : logs[Logs[i]] # "absent"
    BY <1>1, LogNames DEF LogsInv
  <2>3. \A i \in 1 .. 5 : logs[Logs[i]] \in {"absent", "open", "closed"}
    BY <1>1, LogNames
  <2>. QED
    BY <2>1, <2>2, <2>3
<1>7. CASE Head(local[p].left) = "file" /\ Unclosed # {}
  <2>1. \/ faults' = faults + 1
        \/ /\ logs' = [logs EXCEPT ![Logs[Min(Unclosed)]] = "closed"]
           /\ pc' = pc /\ local' = local
    BY <1>2, <1>3, <1>7 DEF CloseNext
  <2>2. CASE faults' = faults + 1
    BY <1>1, <2>2
  <2>3. CASE pc' = pc /\ local' = local
    BY <2>3
  <2>. QED
    BY <2>1, <2>2, <2>3
<1>. QED
  BY <1>5, <1>6, <1>7

\* No step takes a fault back.
LEMMA FaultsStay ==
    ASSUME IInv, NEW p \in Procs, NewCall(p) \/ Step(p)
    PROVE  faults > 0 => faults' > 0
<1>1. faults \in Nat
  BY LogAssumption DEF IInv, TypeOK
<1>2. CASE NewCall(p)
  BY <1>2 DEF NewCall, CallSetUp, Reset, Close, TakeOut, Disable, DisableStat, CallSetWriter,
              AddWriter, SetLevel, CallLog, SetUpVars, RestVars
<1>3. CASE Step(p)
  <2>. USE <1>1 DEF SetUpVars, RestVars
  <2>1. CASE WaitSetUp(p) \/ SetUpLevel(p) \/ FileWriterLevel(p) \/ OpenLog(p) \/ OpenFails(p)
    BY <2>1 DEF WaitSetUp, SetUpLevel, FileWriterLevel, OpenLog, OpenFails
  <2>2. CASE Guard(p) \/ Store(p) \/ CloseNext(p) \/ StoreNop(p)
    BY <2>2 DEF Guard, Store, CloseNext, StoreNop
  <2>3. CASE \/ Recheck(p) \/ Load(p) \/ StoreIfNil(p) \/ Write(p) \/ ReadClock(p)
             \/ Compare(p) \/ Discard(p) \/ SetLastTime(p) \/ SwapDiscarded(p)
             \/ Announce(p) \/ Execute(p)
    BY <2>3 DEF Recheck, Load, StoreIfNil, Write, ReadClock, Compare, Discard, SetLastTime,
                SwapDiscarded, Announce, Execute
  <2>. QED
    BY <1>3, <2>1, <2>2, <2>3 DEF Step
<1>. QED
  BY <1>2, <1>3

\* The logs are open or closed together.
LEMMA ClosingStep == IInv /\ [Next]_vars => ClosingInv'
<1>. SUFFICES ASSUME IInv, [Next]_vars PROVE ClosingInv'
  OBVIOUS
<1>1. ClosingInv /\ Logs[5] = "stat" /\ CallTypes
  BY LocalTypes, LogNames DEF IInv
<1>2. CASE UNCHANGED vars \/ Tick
  BY <1>1, <1>2 DEF vars, Tick, RestVars, ClosingInv
<1>3. ASSUME NEW p \in Procs, NewCall(p) \/ Step(p) PROVE ClosingInv'
  <2>1. CASE OpenLog(p)
    <3>1. PICK k \in 1 .. 5 :
              /\ \A i \in 1 .. 5 : /\ i < k => logs[Logs[i]] = "open"
                                   /\ i >= k => logs[Logs[i]] = "absent"
              /\ \A i \in 1 .. 5 : logs'[Logs[i]] = IF i = k THEN "open" ELSE logs[Logs[i]]
      BY <2>1, OpensNext
    <3>2. CASE k = 5
      BY <3>1, <3>2 DEF ClosingInv
    <3>3. CASE k # 5
      <4>1. logs'["stat"] = "absent"
        BY <1>1, <3>1, <3>3
      <4>. QED
        BY <4>1 DEF ClosingInv
    <3>. QED
      BY <3>2, <3>3
  <2>2. CASE ~OpenLog(p) /\ ClosesOne(p)
    <3>1. "file" \in Range(local[p].left)
      <4>1. local[p].left \in Seq(Leaves)
        BY LocalTypes
      <4>. QED
        BY <2>2, <4>1, Ranges DEF ClosesOne
    <3>2. pc'[p] = "close" /\ "file" \in Range(local'[p].left)
      BY <2>2, <3>1 DEF ClosesOne
    <3>. QED
      BY <3>2 DEF ClosingInv
  <2>3. CASE ~OpenLog(p) /\ ~ClosesOne(p)
    <3>1. logs' = logs
      BY <1>3, <2>3, LogsUntouched
    <3>2. CASE faults > 0
      BY <1>3, <3>2, FaultsStay DEF ClosingInv
    <3>3. ASSUME NEW q \in Procs, pc[q] = "close", "file" \in Range(local[q].left)
          PROVE  ClosingInv'
      <4>1. CASE q = p
        <5>1. \/ faults' > 0
              \/ \A i \in 1 .. 5 : logs[Logs[i]] = "closed"
              \/ pc'[p] = "close" /\ "file" \in Range(local'[p].left)
          BY <1>3, <2>3, <3>3, <4>1, GoesOnClosing
        <5>. QED
          BY <3>1, <5>1 DEF ClosingInv
      <4>2. CASE q # p
        <5>1. pc'[q] = "close" /\ "file" \in Range(local'[q].left)
          BY <1>3, <3>3, <4>2, OthersUntouched DEF Untouched
        <5>. QED
          BY <5>1 DEF ClosingInv
      <4>. QED
        BY <4>1, <4>2
    <3>. QED
      BY <1>1, <3>1, <3>2, <3>3 DEF ClosingInv
  <2>. QED
    BY <2>1, <2>2, <2>3
<1>. QED
  BY <1>2, <1>3 DEF Next

-----------------------------------------------------------------------------
(* Theorems. *)

\* The invariant is inductive: it holds at first and every step keeps it.
THEOREM Inductive == Spec => []IInv
<1>1. Init => IInv
  BY InitIInv
<1>2. IInv /\ [Next]_vars => IInv'
  <2>. SUFFICES ASSUME IInv, [Next]_vars PROVE IInv'
    OBVIOUS
  <2>1. TypeOK'
    <3>1. SetUpTypes' /\ WriterTypes' /\ LimiterTypes' /\ CallTypes'
      BY SetUpTypesStep, WriterTypesStep, LimiterTypesStep, CallTypesStep
    <3>. QED
      BY <3>1, TypeParts, PTL
  <2>. QED
    BY <2>1, PlaceStep, SetUpOnceStep, LimiterStep, ChainStep, ShutStep, LogsStep, ClosingStep
       DEF IInv
<1>. QED
  BY <1>1, <1>2, PTL DEF Spec

\* The variables of logs.go, writer.go and limitedexecutor.go keep their types,
\* with any number of goroutines.
THEOREM TypeCorrect == Spec => []TypeOK
<1>1. IInv => TypeOK
  BY DEF IInv
<1>. QED
  BY <1>1, Inductive, PTL

\* SetUp's function runs in one goroutine, and once (logs.go:309).
THEOREM OneSetUp == Spec => []SetUpOnce
<1>1. IInv => SetUpOnce
  BY DEF IInv
<1>. QED
  BY <1>1, Inductive, PTL

\* What SetWriter and AddWriter put in stays in until it is replaced or taken out.
THEOREM WritersKept == Spec => []ChainKept
<1>1. IInv => ChainKept
  BY DEF IInv
<1>. QED
  BY <1>1, Inductive, PTL

\* While a Disable holds no writer of files or of a caller is in use, unless a
\* SetWriter had read the level before it.
THEOREM DisableHolds == Spec => []DisabledShutsOut
<1>1. IInv => DisabledShutsOut
  BY DEF IInv, ShutInv, DisabledShutsOut
<1>. QED
  BY <1>1, Inductive, PTL

\* The five logs of the file writer come and go together.
THEOREM LogsTogether == Spec => []FilesWhole
<1>1. IInv => FilesWhole
  <2>. SUFFICES ASSUME IInv PROVE FilesWhole
    OBVIOUS
  <2>1. LogsInv /\ ClosingInv /\ logs \in [Range(Logs) -> {"absent", "open", "closed"}]
    BY DEF IInv, TypeOK
  <2>2. ASSUME "file" \in Range(writer) PROVE \A l \in Range(Logs) : logs[l] # "absent"
    <3>1. logs[Logs[5]] # "absent"
      BY <2>1, <2>2, LogNames DEF LogsInv
    <3>2. \A i \in 1 .. 5 : logs[Logs[i]] # "absent"
      BY <2>1, <3>1 DEF LogsInv
    <3>. QED
      BY <3>2, LogNames
  <2>3. ASSUME {"open", "closed"} \subseteq Range(logs)
        PROVE  faults > 0 \/ \E p \in Procs : pc[p] = "close"
    <3>1. Range(logs) = {logs[Logs[i]] : i \in 1 .. 5}
      <4>1. Range(logs) = {logs[l] : l \in Range(Logs)}
        BY <2>1 DEF Range
      <4>. QED
        BY <4>1, LogNames
    <3>2. PICK i \in 1 .. 5, j \in 1 .. 5 : logs[Logs[i]] = "open" /\ logs[Logs[j]] = "closed"
      BY <2>3, <3>1
    <3>3. logs["stat"] # "absent"
      BY <2>1, <3>2 DEF LogsInv
    <3>. QED
      BY <2>1, <3>2, <3>3 DEF ClosingInv
  <2>. QED
    BY <2>2, <2>3 DEF FilesWhole
<1>. QED
  BY <1>1, Inductive, PTL

\* The limiter discards a stack only after another within its threshold.
THEOREM DiscardsJustified == Spec => DiscardJustified
<1>1. IInv => \A p \in Procs : pc[p] = "discard" => \E t \in runs : local[p].at - t <= Threshold
  BY DEF IInv, LimiterInv
<1>2. IInv /\ [Next]_vars =>
         [\A p \in Procs : pc[p] = "discard" /\ pc'[p] # "discard" =>
             \E t \in runs : local[p].at - t <= Threshold]_vars
  BY <1>1
<1>. QED
  BY <1>2, Inductive, PTL DEF Spec, DiscardJustified
-----------------------------------------------------------------------------
(* What the limiter counts. *)

\* A goroutine carries a count from where it took it to where the line that
\* reports it is written.
Carries(p) ==
    local[p].n # 0 => \/ pc[p] = "errorf"
                      \/ local[p].kind = "report" /\ pc[p] \in {"load", "lazy", "write"}
CarriedInv == \A p \in Procs : Carries(p)

\* The counts the goroutines carry.
Carried == [p \in Procs |-> local[p].n]

\* Every discarded stack is in one place.
Balanced == dropped = discarded + announced + unannounced + Total(Carried, Procs)

\* What a step of p does with the counts: no discarded stack comes from
\* nowhere or goes nowhere, and p ends where it may carry what it has.
CountsKept(p) ==
    /\ dropped' + (discarded + announced + unannounced) + local[p].n
         = dropped + (discarded' + announced' + unannounced') + local'[p].n
    /\ Carries(p)'

\* A call that begins has no count.
LEMMA CallsKeepCounts ==
    ASSUME IInv, NEW p \in Procs, Carries(p), NewCall(p)
    PROVE  CountsKept(p)
<1>1. CallTypes /\ LimiterTypes /\ WriterTypes
  BY LocalTypes
<1>2. pc[p] = "idle" /\ UNCHANGED limiter
  BY DEF NewCall, CallSetUp, Reset, Close, TakeOut, Disable, DisableStat, CallSetWriter,
         AddWriter, SetLevel, CallLog, Call
<1>3. local[p].n = 0
  BY <1>2 DEF Carries
<1>4. local'[p].n = 0
  <2>. USE <1>1 DEF CallTypes, Idle
  <2>1. CASE CallSetUp(p)
    BY <2>1 DEF CallSetUp, Call
  <2>2. CASE Reset(p) \/ Close(p)
    BY <2>2 DEF Reset, Close, TakeOut, Spoilt
  <2>3. CASE Disable(p) \/ DisableStat(p)
    BY <2>3 DEF Disable, DisableStat, Call
  <2>4. ASSUME NEW c \in Custom, CallSetWriter(p, c) PROVE local'[p].n = 0
    BY <2>4 DEF CallSetWriter, Call
  <2>5. ASSUME NEW c \in Custom, AddWriter(p, c) PROVE local'[p].n = 0
    BY <2>5 DEF AddWriter, Spoilt
  <2>6. ASSUME NEW v \in Levels, SetLevel(p, v) PROVE local'[p].n = 0
    BY <2>6 DEF SetLevel, Call
  <2>7. ASSUME NEW k \in Kinds, CallLog(p, k) PROVE local'[p].n = 0
    BY <2>7 DEF CallLog, Call
  <2>. QED
    BY <2>1, <2>2, <2>3, <2>4, <2>5, <2>6, <2>7 DEF NewCall
<1>. QED
  BY <1>1, <1>2, <1>3, <1>4 DEF CountsKept, Carries, limiter, LimiterTypes

\* Neither does a step of a call lose a count or make one up.
LEMMA StepsKeepCounts ==
    ASSUME IInv, NEW p \in Procs, Carries(p), Step(p)
    PROVE  CountsKept(p)
<1>1. CallTypes /\ LimiterTypes /\ WriterTypes /\ local[p] \in Locals
  BY LocalTypes DEF CallTypes
<1>2. /\ dropped \in Nat /\ discarded \in Nat /\ announced \in Nat /\ unannounced \in Nat
      /\ local[p].n \in Nat
  BY <1>1 DEF LimiterTypes, Locals
<1>. USE DEF CallTypes, Go, Return
<1>3. ASSUME UNCHANGED limiter, local'[p].n = 0, local[p].n = 0 PROVE CountsKept(p)
  BY <1>2, <1>3 DEF CountsKept, Carries, limiter
<1>4. CASE WaitSetUp(p) \/ OpenFails(p) \/ FileWriterLevel(p)
  <2>1. UNCHANGED limiter /\ local[p].n = 0
    BY <1>4 DEF WaitSetUp, OpenFails, FileWriterLevel, Carries
  <2>2. local'[p].n = 0
    BY <1>1, <1>4, <2>1 DEF WaitSetUp, OpenFails, FileWriterLevel, Idle
  <2>. QED
    BY <1>3, <2>1, <2>2
<1>5. CASE SetUpLevel(p) \/ OpenLog(p) \/ CloseNext(p) \/ ReadClock(p)
  <2>1. UNCHANGED limiter /\ local[p].n = 0
    BY <1>5 DEF SetUpLevel, OpenLog, CloseNext, ReadClock, Carries
  <2>2. local'[p].n = 0
    BY <1>1, <1>5, <2>1 DEF SetUpLevel, OpenLog, CloseNext, ReadClock, Idle, Locals
  <2>. QED
    BY <1>3, <2>1, <2>2
<1>6. CASE Guard(p) \/ Recheck(p) \/ Compare(p)
  <2>1. UNCHANGED limiter /\ local[p].n = 0
    BY <1>6 DEF Guard, Recheck, Compare, Carries
  <2>2. local'[p].n = 0
    BY <1>1, <1>6, <2>1 DEF Guard, Recheck, Compare, Idle
  <2>. QED
    BY <1>3, <2>1, <2>2
<1>7. CASE Store(p) \/ StoreNop(p)
  <2>1. UNCHANGED limiter /\ local[p].n = 0
    BY <1>7 DEF Store, StoreNop, Carries
  <2>2. local'[p].n = 0
    BY <1>1, <1>7 DEF Store, StoreNop, Spoilt, Idle
  <2>. QED
    BY <1>3, <2>1, <2>2
<1>8. CASE Load(p) \/ StoreIfNil(p)
  <2>1. UNCHANGED limiter
    BY <1>8 DEF Load, StoreIfNil
  <2>2. local'[p].n = local[p].n /\ local'[p].kind = local[p].kind
    BY <1>1, <1>8 DEF Load, StoreIfNil, Locals
  <2>3. pc'[p] \in {"lazy", "write"} /\ pc[p] \in {"load", "lazy"}
    BY <1>1, <1>8 DEF Load, StoreIfNil
  <2>. QED
    BY <1>2, <2>1, <2>2, <2>3 DEF CountsKept, Carries, limiter
<1>9. CASE Execute(p)
  <2>1. UNCHANGED limiter /\ local[p].n = 0
    BY <1>9 DEF Execute, Carries
  <2>2. local'[p].n = 0
    BY <1>1, <1>9, <2>1 DEF Execute, Locals
  <2>. QED
    BY <1>3, <2>1, <2>2
<1>10. CASE SetLastTime(p)
  <2>1. local[p].n = 0 /\ local' = local
    BY <1>10 DEF SetLastTime, Carries
  <2>. QED
    BY <1>2, <1>10, <2>1 DEF SetLastTime, CountsKept, Carries
<1>11. CASE Discard(p)
  <2>1. local[p].n = 0
    BY <1>11 DEF Discard, Carries
  <2>2. local'[p].n = 0
    BY <1>1, <1>11, <2>1 DEF Discard, Locals
  <2>3. /\ discarded' = discarded + 1 /\ dropped' = dropped + 1
        /\ UNCHANGED <<announced, unannounced>>
    BY <1>11 DEF Discard
  <2>. QED
    BY <1>2, <2>1, <2>2, <2>3 DEF CountsKept, Carries
<1>12. CASE SwapDiscarded(p)
  <2>1. local[p].n = 0 /\ discarded' = 0 /\ UNCHANGED <<dropped, announced, unannounced>>
    BY <1>12 DEF SwapDiscarded, Carries
  <2>2. CASE discarded = 0
    <3>1. local'[p].n = 0
      BY <1>12, <2>1, <2>2 DEF SwapDiscarded
    <3>. QED
      BY <1>2, <2>1, <2>2, <3>1 DEF CountsKept, Carries
  <2>3. CASE discarded # 0
    <3>1. local'[p].n = discarded /\ pc'[p] = "errorf"
      BY <1>1, <1>12, <2>3 DEF SwapDiscarded, Locals
    <3>. QED
      BY <1>2, <2>1, <3>1 DEF CountsKept, Carries
  <2>. QED
    BY <2>2, <2>3
<1>14. CASE Announce(p)
  <2>1. UNCHANGED <<dropped, announced, discarded>>
    BY <1>14 DEF Announce
  <2>2. CASE level <= ErrorLevel
    <3>1. /\ unannounced' = unannounced /\ local'[p].n = local[p].n
          /\ local'[p].kind = "report" /\ pc'[p] = "load"
      BY <1>1, <1>14, <2>2 DEF Announce, Locals
    <3>. QED
      BY <1>2, <2>1, <3>1 DEF CountsKept, Carries
  <2>3. CASE ~(level <= ErrorLevel)
    <3>1. unannounced' = unannounced + local[p].n /\ local'[p].n = 0
      BY <1>1, <1>14, <2>3 DEF Announce, Locals
    <3>. QED
      BY <1>2, <2>1, <3>1 DEF CountsKept, Carries
  <2>. QED
    BY <2>2, <2>3
<1>13. CASE Write(p)
  <2>1. UNCHANGED <<dropped, discarded, unannounced>>
    BY <1>13 DEF Write
  <2>2. CASE local[p].left = <<>> /\ local[p].kind = "report"
    <3>1. announced' = announced + local[p].n /\ local'[p].n = 0
      BY <1>1, <1>13, <2>2 DEF Write, Locals
    <3>. QED
      BY <1>2, <2>1, <3>1 DEF CountsKept, Carries
  <2>3. CASE local[p].left = <<>> /\ local[p].kind # "report"
    <3>1. announced' = announced /\ local'[p].n = 0 /\ local[p].n = 0
      BY <1>1, <1>13, <2>3 DEF Write, Idle, Carries
    <3>. QED
      BY <1>2, <2>1, <3>1 DEF CountsKept, Carries
  <2>4. CASE local[p].left # <<>>
    <3>1. /\ announced' = announced /\ local'[p].n = local[p].n
          /\ local'[p].kind = local[p].kind
      BY <1>1, <1>13, <2>4 DEF Write, Locals
    <3>2. pc'[p] = "write" \/ local[p].kind = "stack"
      BY <1>1, <1>13, <2>4 DEF Write
    <3>3. pc[p] = "write"
      BY <1>13 DEF Write
    <3>. QED
      BY <1>2, <2>1, <3>1, <3>2, <3>3 DEF CountsKept, Carries
  <2>. QED
    BY <2>2, <2>3, <2>4
<1>. QED
  BY <1>4, <1>5, <1>6, <1>7, <1>8, <1>9, <1>10, <1>11, <1>12, <1>13, <1>14 DEF Step

\* A step of one goroutine changes what is carried by what that one carries.
LEMMA CarriedChanges ==
    ASSUME IInv, NEW p \in Procs, NewCall(p) \/ Step(p), CallTypes'
    PROVE  /\ Total(Carried, Procs) \in Nat
           /\ Total(Carried', Procs) + local[p].n = Total(Carried, Procs) + local'[p].n
<1>1. /\ CallTypes /\ IsFiniteSet(Procs)
      /\ local \in [Procs -> Locals] /\ local' \in [Procs -> Locals]
  BY LocalTypes, LogAssumption DEF CallTypes
<1>2. Carried \in [Procs -> Nat] /\ Carried' \in [Procs -> Nat]
  BY <1>1 DEF Carried, Locals
<1>3. \A q \in Procs : q # p => local'[q].n = local[q].n
  BY OthersUntouched DEF Untouched
<1>4. \A q \in Procs : Carried[q] = local[q].n /\ Carried'[q] = local'[q].n
  BY DEF Carried
<1>. HIDE DEF Carried
<1>5. \A q \in Procs : q # p => Carried'[q] = Carried[q]
  BY <1>3, <1>4
<1>6. Total(Carried', Procs) + Carried[p] = Total(Carried, Procs) + Carried'[p]
  BY <1>1, <1>2, <1>5, TotalChanges
<1>. QED
  BY <1>1, <1>2, <1>4, <1>6, TotalType

\* What was discarded, counted, reported, suppressed and carried, before a step
\* and after it.
LEMMA StaysEqual ==
    ASSUME NEW d \in Nat, NEW s \in Nat, NEW t \in Nat, NEW n \in Nat,
           NEW d2 \in Nat, NEW s2 \in Nat, NEW t2 \in Nat, NEW m \in Nat,
           d = s + t, t2 + n = t + m, d2 + s + n = d + s2 + m
    PROVE  d2 = s2 + t2
OBVIOUS

\* The counts that are carried and those that were kept and reported make up
\* what was discarded, after a step as before.
LEMMA BalanceStep == IInv /\ CarriedInv /\ Balanced /\ [Next]_vars => CarriedInv' /\ Balanced'
<1>. SUFFICES ASSUME IInv, CarriedInv, Balanced, [Next]_vars PROVE CarriedInv' /\ Balanced'
  OBVIOUS
<1>1. CASE UNCHANGED vars \/ Tick
  <2>1. UNCHANGED <<pc, local, dropped, discarded, announced, unannounced>>
    BY <1>1 DEF vars, Tick
  <2>. QED
    BY <2>1 DEF CarriedInv, Carries, Balanced, Carried
<1>2. ASSUME NEW p \in Procs, NewCall(p) \/ Step(p) PROVE CarriedInv' /\ Balanced'
  <2>1. CountsKept(p)
    BY <1>2, CallsKeepCounts, StepsKeepCounts DEF CarriedInv
  <2>2. \A q \in Procs : q # p => Carries(q)'
    BY <1>2, OthersUntouched DEF Untouched, CarriedInv, Carries
  <2>3. CarriedInv'
    BY <2>1, <2>2 DEF CarriedInv, CountsKept
  <2>4. CallTypes' /\ LimiterTypes' /\ local[p].n \in Nat /\ local'[p].n \in Nat
    BY CallTypesStep, LimiterTypesStep, LocalTypes DEF CallTypes, Locals
  <2>5. /\ Total(Carried, Procs) \in Nat
        /\ Total(Carried', Procs) + local[p].n = Total(Carried, Procs) + local'[p].n
    BY <1>2, <2>4, CarriedChanges
  <2>6. Total(Carried', Procs) \in Nat
    <3>1. Carried' \in [Procs -> Nat]
      BY <2>4 DEF Carried, CallTypes, Locals
    <3>. QED
      BY <3>1, TotalType, LogAssumption
  <2>7. /\ dropped \in Nat /\ discarded \in Nat /\ announced \in Nat /\ unannounced \in Nat
        /\ dropped' \in Nat /\ discarded' \in Nat /\ announced' \in Nat /\ unannounced' \in Nat
    BY <2>4, LocalTypes DEF LimiterTypes
  <2>8. PICK x \in Nat, y \in Nat : /\ x = discarded + announced + unannounced
                                    /\ y = discarded' + announced' + unannounced'
    <3>1. \A i, j, k \in Nat : i + j + k \in Nat
      OBVIOUS
    <3>. QED
      BY <2>7, <3>1
  <2>9. dropped = discarded + announced + unannounced + Total(Carried, Procs)
    BY DEF Balanced
  <2>10. dropped' + (discarded + announced + unannounced) + local[p].n
           = dropped + (discarded' + announced' + unannounced') + local'[p].n
    BY <2>1 DEF CountsKept
  <2>11. dropped' = discarded' + announced' + unannounced' + Total(Carried', Procs)
    <3>1. dropped = x + Total(Carried, Procs)
      BY <2>8, <2>9
    <3>2. dropped' + x + local[p].n = dropped + y + local'[p].n
      BY <2>8, <2>10
    <3>3. PICK d \in Nat, e \in Nat, t \in Nat, u \in Nat, n \in Nat, m \in Nat :
             /\ d = dropped /\ e = dropped' /\ n = local[p].n /\ m = local'[p].n
             /\ t = Total(Carried, Procs) /\ u = Total(Carried', Procs)
      BY <2>4, <2>5, <2>6, <2>7
    <3>4. d = x + t /\ u + n = t + m /\ e + x + n = d + y + m
      BY <2>5, <3>1, <3>2, <3>3
    <3>5. e = y + u
      BY <3>4, StaysEqual
    <3>6. dropped' = y + Total(Carried', Procs)
      BY <3>3, <3>5
    <3>. QED
      BY <2>8, <3>6
  <2>. QED
    BY <2>3, <2>11 DEF Balanced
<1>. QED
  BY <1>1, <1>2 DEF Next

\* No stack that the limiter of limitedexecutor.go discarded is forgotten,
\* however the goroutines that discard, swap the count and report it interleave.
THEOREM DiscardsCounted == Spec => []DiscardsAccounted
<1>1. Init => CarriedInv /\ Balanced
  <2>. SUFFICES ASSUME Init PROVE CarriedInv /\ Balanced
    OBVIOUS
  <2>1. \A p \in Procs : local[p].n = 0
    BY DEF Init, Idle
  <2>2. Carried \in [Procs -> Nat] /\ \A p \in Procs : Carried[p] = 0
    BY <2>1 DEF Carried
  <2>3. Total(Carried, Procs) = 0
    BY <2>2, TotalType, LogAssumption
  <2>. QED
    BY <2>1, <2>3 DEF Init, CarriedInv, Carries, Balanced
<1>2. Balanced => DiscardsAccounted
  <2>1. Total(Carried, Procs) = MapThenSumSet(LAMBDA p : local[p].n, Procs)
    BY DEF Total, Carried, MapThenSumSet, MapThenFoldSet
  <2>. QED
    BY <2>1 DEF Balanced, DiscardsAccounted
<1>. QED
  BY <1>1, <1>2, BalanceStep, Inductive, PTL DEF Spec
=============================================================================
