----------------------------- MODULE LogWriters -----------------------------
(***************************************************************************)
(* The writer behind the functions of core/logx and everything that        *)
(* replaces it: SetUp, SetWriter, AddWriter, Reset, Close and Disable,     *)
(* beside calls that log and the limited executor that thins out stacks.   *)
(* A process is a goroutine inside one call; a step is one atomic          *)
(* operation (of sync/atomic, or under the lock of atomicWriter).          *)
(*                                                                         *)
(* A writer is the sequence of the writers a comboWriter would call: the   *)
(* writer of SetUp's files, a console, nopWriter, writers of callers; the  *)
(* empty sequence is nil.                                                  *)
(***************************************************************************)
EXTENDS Integers, Sequences, FiniteSetsExt, SequencesExt

CONSTANTS Procs,      \* goroutines
          Custom,     \* the writers callers bring
          Kinds,      \* the logging functions in use
          Rich,       \* goroutines that log through a Logger (richLogger)
          Levels,     \* the levels SetLevel is called with
          ConfLevel,  \* LogConf.Level
          ConfStat,   \* LogConf.Stat
          Files,      \* LogConf.Mode is file or volume, and not console
          Threshold,  \* LogConf.StackCooldownMillis, in ticks of the clock
          MaxCalls,   \* bound: calls in all
          MaxTicks,   \* bound: ticks of the clock
          MaxFaults   \* bound: logs that fail to open or to close

DebugLevel   == 0
InfoLevel    == 1
ErrorLevel   == 2
SevereLevel  == 3
DisableLevel == 255

AllKinds == {"debug", "info", "stat", "error", "slow", "stack", "severe", "alert"}

ASSUME LogAssumption ==
    /\ IsFiniteSet(Procs)
    /\ Kinds \subseteq AllKinds /\ Rich \subseteq Procs
    /\ Custom \cap {"file", "console", "nop"} = {}
    /\ Levels \subseteq DebugLevel .. SevereLevel
    /\ ConfLevel \in DebugLevel .. SevereLevel
    /\ ConfStat \in BOOLEAN /\ Files \in BOOLEAN
    /\ Threshold \in Nat
    /\ MaxCalls \in Nat /\ MaxTicks \in Nat /\ MaxFaults \in Nat

VARIABLES level,       \* logLevel
          disableStat, \* disableStat
          writer,      \* atomicWriter.writer
          once,        \* setupOnce: "no", "running", "done"
          logs,        \* the five logs of the file writer
          now,         \* timex.Now
          lastTime,    \* limitedExecutor.lastTime of the file writer's stack log
          discarded,   \* limitedExecutor.discarded
          pc, local,   \* where a goroutine is, and its local variables
          calls, faults,
          chain,       \* history: the writers that were set and must be in use
          shut,        \* history: nothing but Disable's writer may be in use
          runs,        \* history: the times the limiter let a stack through
          dropped,     \* history: how many stacks the limiter discarded
          announced,   \* history: how many of them a line reported
          unannounced  \* history: how many a line would have, but for the level

limiter == <<now, lastTime, discarded, runs, dropped, announced, unannounced>>
ghosts  == <<chain, shut>>
vars == <<level, disableStat, writer, once, logs, now, lastTime, discarded, pc, local,
          calls, faults, chain, shut, runs, dropped, announced, unannounced>>

\* The order in which newFileWriter opens the logs and concreteWriter.Close closes them.
Logs == <<"access", "error", "severe", "slow", "stat">>

\* The level a function asks for.
LevelOf == [k \in AllKinds |->
    CASE k = "debug" -> DebugLevel
      [] k \in {"info", "stat"} -> InfoLevel
      [] k \in {"error", "slow", "stack"} -> ErrorLevel
      [] k = "severe" -> SevereLevel
      [] k = "alert" -> DisableLevel]

ShallLog(k) == /\ level <= LevelOf[k]
               /\ k = "stat" => ~disableStat

Leaves == Custom \cup {"file", "console", "nop"}
Idle == [op |-> "none", w |-> <<>>, left |-> <<>>, rest |-> <<>>, kind |-> "none",
         at |-> 0, n |-> 0, raced |-> FALSE]

\* The places inside SetUp, in the function that setupOnce runs.
InSetUp(p) ==
    \/ pc[p] \in {"level", "level2", "open"}
    \/ local[p].op = "setup" /\ pc[p] \in {"guard", "store"}
\* AddWriter has taken the writer out and not yet put the combination in.
Between(p) == local[p].op = "add" /\ pc[p] \in {"guard", "store"}

TypeOK ==
    /\ level \in {DebugLevel, InfoLevel, ErrorLevel, SevereLevel, DisableLevel}
    /\ disableStat \in BOOLEAN
    /\ writer \in Seq(Leaves)
    /\ once \in {"no", "running", "done"}
    /\ logs \in [Range(Logs) -> {"absent", "open", "closed"}]
    /\ now \in 0 .. MaxTicks
    /\ lastTime \in (-Threshold - 1) .. MaxTicks
    /\ discarded \in Nat
    /\ pc \in [Procs -> {"idle", "level", "level2", "open", "guard", "store", "wait",
                         "swap", "close", "nop", "recheck", "load", "lazy", "write",
                         "clock", "compare", "discard", "set", "report", "errorf",
                         "execute"}]
    /\ local \in [Procs -> [op   : {"none", "setup", "set", "add"},
                            w    : Seq(Leaves), left : Seq(Leaves), rest : Seq(Leaves),
                            kind : AllKinds \cup {"none", "report"},
                            at   : 0 .. MaxTicks, n : Nat, raced : BOOLEAN]]
    /\ calls \in 0 .. MaxCalls /\ faults \in 0 .. MaxFaults
    /\ chain \subseteq Leaves /\ shut \in {"no", "raced", "yes"}
    /\ runs \subseteq 0 .. MaxTicks
    /\ dropped \in Nat /\ announced \in Nat /\ unannounced \in Nat

\* Mutant: the clock and the last time both start at zero.
MutantLongAgo == 0

\* timex.Now counts from a year before the process started, and the last time is 0.
LongAgo == -Threshold - 1

Init ==
    /\ level = DebugLevel /\ disableStat = FALSE /\ writer = <<>> /\ once = "no"
    /\ logs = [l \in Range(Logs) |-> "absent"]
    /\ now = 0 /\ lastTime = LongAgo /\ discarded = 0
    /\ pc = [p \in Procs |-> "idle"] /\ local = [p \in Procs |-> Idle]
    /\ calls = 0 /\ faults = 0
    /\ chain = {} /\ shut = "no"
    /\ runs = {} /\ dropped = 0 /\ announced = 0 /\ unannounced = 0

-----------------------------------------------------------------------------
(* Calls and returns *)

Go(p, place) == pc' = [pc EXCEPT ![p] = place]

\* A goroutine calls a function: it comes to place with the local variables r.
Call(p, place, r) ==
    /\ pc[p] = "idle" /\ calls < MaxCalls
    /\ calls' = calls + 1
    /\ Go(p, place)
    /\ local' = [local EXCEPT ![p] = r]

Return(p) == /\ Go(p, "idle")
             /\ local' = [local EXCEPT ![p] = Idle]

\* Whoever replaces the writer spoils the AddWriter calls under way: what they
\* hold is no longer what is in use.
Spoilt(p, loc) ==
    [q \in Procs |-> IF q # p /\ Between(q) THEN [loc[q] EXCEPT !.raced = TRUE] ELSE loc[q]]

-----------------------------------------------------------------------------
(* SetUp *)

SetUpVars == <<level, disableStat, writer, logs, faults>>

\* Mutant: setup is recorded as done before it runs.
MutantCallSetUp(p) ==
    /\ Call(p, IF once = "no" THEN "level" ELSE "idle",
            IF once = "no" THEN [Idle EXCEPT !.op = "setup"] ELSE Idle)
    /\ once' = "done"
    /\ UNCHANGED <<SetUpVars, limiter, ghosts>>

\* SetUp: the first caller runs the function, later ones wait for it or return.
CallSetUp(p) ==
    /\ Call(p, CASE once = "no" -> "level"
                 [] once = "running" -> "wait"
                 [] once = "done" -> "idle",
            IF once = "done" THEN Idle ELSE [Idle EXCEPT !.op = "setup"])
    /\ once' = IF once = "no" THEN "running" ELSE once
    /\ UNCHANGED <<SetUpVars, limiter, ghosts>>

WaitSetUp(p) ==
    /\ pc[p] = "wait" /\ once = "done"
    /\ Return(p)
    /\ UNCHANGED <<SetUpVars, once, calls, limiter, ghosts>>

\* setupLogLevel and the settings after it; a console is ready at once.
SetUpLevel(p) ==
    /\ pc[p] = "level"
    /\ level' = ConfLevel /\ shut' = "no"
    /\ disableStat' = (disableStat \/ ~ConfStat)
    /\ IF Files THEN Go(p, "level2") /\ UNCHANGED local
                ELSE /\ Go(p, "guard")
                     /\ local' = [local EXCEPT ![p].w = <<"console">>]
    /\ UNCHANGED <<writer, logs, faults, once, calls, limiter, chain>>

\* newFileWriter up to the first log: the options, and the level once more.
FileWriterLevel(p) ==
    /\ pc[p] = "level2"
    /\ level' = ConfLevel /\ shut' = "no"
    /\ Go(p, "open")
    /\ UNCHANGED <<disableStat, writer, logs, faults, once, calls, local, limiter, chain>>

NextLog == Logs[CHOOSE i \in DOMAIN Logs :
                  logs[Logs[i]] = "absent" /\ \A j \in 1 .. i - 1 : logs[Logs[j]] # "absent"]
LastLog == Logs[Len(Logs)]

\* newFileWriter, one createOutput: after the last log the writer is made.
OpenLog(p) ==
    /\ pc[p] = "open"
    /\ logs' = [logs EXCEPT ![NextLog] = "open"]
    /\ IF NextLog = LastLog
       THEN /\ Go(p, "guard")
            /\ local' = [local EXCEPT ![p].w = <<"file">>]
       ELSE UNCHANGED <<pc, local>>
    /\ UNCHANGED <<level, disableStat, writer, faults, once, calls, limiter, ghosts>>

\* Mutant: the error of createOutput is dropped.
MutantOpenFails(p) ==
    /\ pc[p] = "open" /\ faults < MaxFaults
    /\ faults' = faults + 1
    /\ Go(p, "guard")
    /\ local' = [local EXCEPT ![p].w = <<"file">>]
    /\ UNCHANGED <<level, disableStat, writer, logs, once, calls, limiter, ghosts>>

\* Mutant: the error returns past the end of setupOnce.
MutantOpenFailsHalfway(p) ==
    /\ pc[p] = "open" /\ faults < MaxFaults
    /\ faults' = faults + 1
    /\ Return(p)
    /\ UNCHANGED <<level, disableStat, writer, logs, once, calls, limiter, ghosts>>

\* createOutput fails: SetUp returns the error, the logs opened stay open, and
\* setupOnce has run.
OpenFails(p) ==
    /\ pc[p] = "open" /\ faults < MaxFaults
    /\ faults' = faults + 1
    /\ once' = "done"
    /\ Return(p)
    /\ UNCHANGED <<level, disableStat, writer, logs, calls, limiter, ghosts>>

-----------------------------------------------------------------------------
(* What replaces the writer *)

\* Mutant: SetWriter does not look at the level.
MutantGuard(p) ==
    /\ pc[p] = "guard"
    /\ Go(p, "store")
    /\ UNCHANGED <<SetUpVars, local, once, calls, limiter, ghosts>>

\* SetWriter, the read of the level; then AddWriter and SetUp return as well.
Guard(p) ==
    /\ pc[p] = "guard"
    /\ IF level # DisableLevel
       THEN Go(p, "store") /\ UNCHANGED <<local, once, chain>>
       ELSE /\ Return(p)
            /\ once' = IF local[p].op = "setup" THEN "done" ELSE once
            /\ chain' = IF local[p].op = "add" THEN {} ELSE chain
    /\ UNCHANGED <<SetUpVars, calls, limiter, shut>>

\* SetWriter, the store.
Store(p) ==
    LET l == local[p]
        fresh == l.op = "add" /\ ~l.raced
    IN
    /\ pc[p] = "store"
    /\ writer' = l.w
    /\ Go(p, "idle")
    /\ local' = Spoilt(p, [local EXCEPT ![p] = Idle])
    /\ once' = IF l.op = "setup" THEN "done" ELSE once
    /\ chain' = CASE fresh -> chain \cup {Last(l.w)}
                  [] l.op = "add" /\ l.raced -> {}
                  [] OTHER -> {Last(l.w)}
    /\ UNCHANGED <<level, disableStat, logs, faults, calls, limiter, shut>>

CallSetWriter(p, c) ==
    /\ Call(p, "guard", [Idle EXCEPT !.op = "set", !.w = <<c>>])
    /\ UNCHANGED <<SetUpVars, once, limiter, ghosts>>

\* AddWriter up to and with Reset: it holds the old writer and its own.
AddWriter(p, c) ==
    LET raced == \E q \in Procs : Between(q) IN
    /\ pc[p] = "idle" /\ calls < MaxCalls
    /\ calls' = calls + 1
    /\ writer' = <<>>
    /\ Go(p, "guard")
    /\ local' = Spoilt(p, [local EXCEPT ![p] =
                   [Idle EXCEPT !.op = "add", !.w = Append(writer, c), !.raced = raced]])
    /\ chain' = IF raced THEN {} ELSE chain
    /\ UNCHANGED <<level, disableStat, once, logs, faults, limiter, shut>>

\* The writer is taken out; AddWriter calls under way will put back what they hold.
TakeOut(p, place, r) ==
    /\ pc[p] = "idle" /\ calls < MaxCalls
    /\ calls' = calls + 1
    /\ writer' = <<>> /\ chain' = {}
    /\ Go(p, place)
    /\ local' = Spoilt(p, [local EXCEPT ![p] = r])
    /\ UNCHANGED <<level, disableStat, once, logs, faults, limiter, shut>>

\* Reset, as a caller of its own: the writer is the caller's, the level stays.
Reset(p) == TakeOut(p, "idle", Idle)

Close(p) == TakeOut(p, IF writer = <<>> THEN "idle" ELSE "close", [Idle EXCEPT !.left = writer])

\* The next of the five logs that concreteWriter.Close closes.
Unclosed == {i \in DOMAIN Logs : logs[Logs[i]] = "open"}

\* Close of the writers in turn; those of callers and consoles have nothing to close.
CloseNext(p) ==
    LET l == local[p].left IN
    /\ pc[p] = "close"
    /\ IF l = <<>> THEN Return(p) /\ UNCHANGED <<logs, faults>>
       ELSE IF Head(l) # "file" \/ Unclosed = {}
       THEN /\ local' = [local EXCEPT ![p].left = Tail(l)]
            /\ UNCHANGED <<pc, logs, faults>>
       ELSE \/ /\ logs' = [logs EXCEPT ![Logs[Min(Unclosed)]] = "closed"]
               /\ UNCHANGED <<pc, local, faults>>
            \* One that cannot be closed ends the Close of its writer.
            \/ /\ faults < MaxFaults /\ faults' = faults + 1
               /\ local' = [local EXCEPT ![p].left = Tail(l)]
               /\ UNCHANGED <<pc, logs>>
    /\ UNCHANGED <<level, disableStat, writer, once, calls, limiter, ghosts>>

\* Disable: the level, then the writer.
Disable(p) ==
    /\ Call(p, "nop", Idle)
    /\ level' = DisableLevel
    /\ UNCHANGED <<disableStat, writer, once, logs, faults, limiter, ghosts>>

StoreNop(p) ==
    /\ pc[p] = "nop"
    /\ writer' = <<"nop">> /\ chain' = {}
    /\ shut' = IF level # DisableLevel THEN "no"
               ELSE IF \E q \in Procs : pc[q] = "store" THEN "raced" ELSE "yes"
    /\ Go(p, "idle")
    /\ local' = Spoilt(p, [local EXCEPT ![p] = Idle])
    /\ UNCHANGED <<level, disableStat, once, logs, faults, calls, limiter>>

SetLevel(p, v) ==
    /\ Call(p, "idle", Idle)
    /\ level' = v /\ shut' = "no"
    /\ UNCHANGED <<disableStat, writer, once, logs, faults, limiter, chain>>

DisableStat(p) ==
    /\ Call(p, "idle", Idle)
    /\ disableStat' = TRUE
    /\ UNCHANGED <<level, writer, once, logs, faults, limiter, ghosts>>

-----------------------------------------------------------------------------
(* Calls that log *)

RestVars == <<level, disableStat, once, logs, faults>>

\* A logging function: the level first, for Alert not at all. A Logger's
\* function asks twice.
CallLog(p, k) ==
    /\ ShallLog(k)
    /\ Call(p, IF p \in Rich THEN "recheck" ELSE "load", [Idle EXCEPT !.kind = k])
    /\ UNCHANGED <<RestVars, writer, limiter, ghosts>>

Recheck(p) ==
    /\ pc[p] = "recheck"
    /\ IF ShallLog(local[p].kind) THEN Go(p, "load") /\ UNCHANGED local ELSE Return(p)
    /\ UNCHANGED <<RestVars, writer, calls, limiter, ghosts>>

\* getWriter: what is in place, or else a console.
Load(p) ==
    /\ pc[p] = "load"
    /\ Go(p, IF writer = <<>> THEN "lazy" ELSE "write")
    /\ local' = [local EXCEPT ![p].left = writer]
    /\ UNCHANGED <<RestVars, writer, calls, limiter, ghosts>>

\* Mutant: the console is stored whatever came in between.
MutantStoreIfNil(p) ==
    /\ pc[p] = "lazy"
    /\ writer' = <<"console">>
    /\ Go(p, "write")
    /\ local' = [local EXCEPT ![p].left = writer']
    /\ UNCHANGED <<RestVars, calls, limiter, ghosts>>

StoreIfNil(p) ==
    /\ pc[p] = "lazy"
    /\ writer' = IF writer = <<>> THEN <<"console">> ELSE writer
    /\ Go(p, "write")
    /\ local' = [local EXCEPT ![p].left = writer']
    /\ UNCHANGED <<RestVars, calls, limiter, ghosts>>

\* The writers in turn. A stack for the file writer goes to its limiter. After
\* the last, a call returns; the line that reports discards goes back to the
\* stack that sent it.
Write(p) ==
    LET r == local[p] IN
    /\ pc[p] = "write"
    /\ IF r.left = <<>>
       THEN IF r.kind = "report"
            THEN /\ announced' = announced + r.n
                 /\ local' = [local EXCEPT ![p].kind = "stack", ![p].n = 0,
                                           ![p].left = r.rest, ![p].rest = <<>>]
                 /\ Go(p, "execute")
            ELSE Return(p) /\ UNCHANGED announced
       ELSE /\ IF Head(r.left) = "file" /\ r.kind = "stack"
               THEN Go(p, "clock") /\ UNCHANGED local
               ELSE /\ local' = [local EXCEPT ![p].left = Tail(r.left)]
                    /\ UNCHANGED pc
            /\ UNCHANGED announced
    /\ UNCHANGED <<RestVars, writer, calls, now, lastTime, discarded, runs, dropped,
                   unannounced, ghosts>>

\* timex.Now in logOrDiscard; without a cooldown the stack is written.
ReadClock(p) ==
    /\ pc[p] = "clock"
    /\ local' = [local EXCEPT ![p].at = now]
    /\ Go(p, IF Threshold = 0 THEN "execute" ELSE "compare")
    /\ UNCHANGED <<RestVars, writer, calls, limiter, ghosts>>

Compare(p) ==
    /\ pc[p] = "compare"
    /\ Go(p, IF local[p].at - lastTime <= Threshold THEN "discard" ELSE "set")
    /\ UNCHANGED <<RestVars, writer, calls, local, limiter, ghosts>>

Discard(p) ==
    /\ pc[p] = "discard"
    /\ discarded' = discarded + 1 /\ dropped' = dropped + 1
    /\ local' = [local EXCEPT ![p].left = Tail(@), ![p].at = 0]
    /\ Go(p, "write")
    /\ UNCHANGED <<RestVars, writer, calls, now, lastTime, runs, announced, unannounced,
                   ghosts>>

SetLastTime(p) ==
    /\ pc[p] = "set"
    /\ lastTime' = local[p].at /\ runs' = runs \cup {local[p].at}
    /\ Go(p, "report")
    /\ UNCHANGED <<RestVars, writer, calls, local, now, discarded, dropped, announced,
                   unannounced, ghosts>>

\* Mutant: the count is read and not reset.
MutantSwapDiscarded(p) ==
    /\ pc[p] = "report"
    /\ IF discarded = 0 THEN Go(p, "execute") /\ UNCHANGED local
       ELSE /\ Go(p, "errorf")
            /\ local' = [local EXCEPT ![p].n = discarded]
    /\ UNCHANGED <<RestVars, writer, calls, limiter, ghosts>>

\* Mutant: the count goes down by one, and below zero.
MutantSwapDown(p) ==
    /\ pc[p] = "report"
    /\ discarded' = discarded - 1
    /\ Go(p, "execute")
    /\ UNCHANGED <<RestVars, writer, calls, local, now, lastTime, runs, dropped, announced,
                   unannounced, ghosts>>

\* The count is taken and, if it is not zero, Errorf called with it.
SwapDiscarded(p) ==
    /\ pc[p] = "report"
    /\ discarded' = 0
    /\ IF discarded = 0 THEN Go(p, "execute") /\ UNCHANGED local
       ELSE /\ Go(p, "errorf")
            /\ local' = [local EXCEPT ![p].n = discarded]
    /\ UNCHANGED <<RestVars, writer, calls, now, lastTime, runs, dropped, announced,
                   unannounced, ghosts>>

\* Errorf of the line that reports the count: its level, as in any other call.
Announce(p) ==
    LET n == local[p].n IN
    /\ pc[p] = "errorf"
    /\ IF level <= ErrorLevel
       THEN /\ Go(p, "load")
            /\ local' = [local EXCEPT ![p].kind = "report", ![p].rest = local[p].left]
            /\ UNCHANGED unannounced
       ELSE /\ Go(p, "execute")
            /\ local' = [local EXCEPT ![p].n = 0]
            /\ unannounced' = unannounced + n
    /\ UNCHANGED <<RestVars, writer, calls, now, lastTime, discarded, runs, dropped,
                   announced, ghosts>>

\* The stack is written to the error log.
Execute(p) ==
    /\ pc[p] = "execute"
    /\ local' = [local EXCEPT ![p].left = Tail(@), ![p].at = 0]
    /\ Go(p, "write")
    /\ UNCHANGED <<RestVars, writer, calls, limiter, ghosts>>

Tick == /\ now < MaxTicks
        /\ now' = now + 1
        /\ UNCHANGED <<RestVars, writer, pc, local, calls, lastTime, discarded, runs,
                       dropped, announced, unannounced, ghosts>>

-----------------------------------------------------------------------------

Step(p) ==
    \/ WaitSetUp(p) \/ SetUpLevel(p) \/ FileWriterLevel(p) \/ OpenLog(p) \/ OpenFails(p)
    \/ Guard(p) \/ Store(p) \/ CloseNext(p) \/ StoreNop(p)
    \/ Recheck(p) \/ Load(p) \/ StoreIfNil(p) \/ Write(p)
    \/ ReadClock(p) \/ Compare(p) \/ Discard(p) \/ SetLastTime(p) \/ SwapDiscarded(p)
    \/ Announce(p) \/ Execute(p)

NewCall(p) ==
    \/ CallSetUp(p) \/ Reset(p) \/ Close(p) \/ Disable(p) \/ DisableStat(p)
    \/ \E c \in Custom : CallSetWriter(p, c) \/ AddWriter(p, c)
    \/ \E v \in Levels : SetLevel(p, v)
    \/ \E k \in Kinds : CallLog(p, k)

Next == (\E p \in Procs : NewCall(p) \/ Step(p)) \/ Tick

Spec == Init /\ [][Next]_vars

\* Go's scheduler runs every goroutine that is inside a call; nothing is
\* assumed of callers and of the clock.
FairSpec == Spec /\ \A p \in Procs : WF_vars(Step(p))

-----------------------------------------------------------------------------
(* Properties *)

\* One goroutine at most is inside the function of setupOnce, and SetUp
\* returns to nobody before it is through (logs.go:306 to :309).
SetUpOnce ==
    \A p \in Procs : InSetUp(p) =>
        once = "running" /\ \A q \in Procs : InSetUp(q) => q = p

\* A writer that was set or added stays in use until somebody takes it out or
\* sets another: neither the console of a first line nor an AddWriter pushes it
\* out, unless AddWriter meets another call that replaces the writer.
ChainKept ==
    /\ (\A p \in Procs : ~Between(p)) => chain \subseteq Range(writer)
    /\ \A p \in Procs : Between(p) /\ ~local[p].raced => chain \subseteq Range(local[p].w)

\* While logging is disabled no writer comes into use but Disable's and a
\* console, save by a SetWriter that had read the level before. Only SetLevel and
\* SetUp end it, by the level they store. Reset does not, though the comment over
\* it says that it "resets the log level" (logs.go:284): it swaps the writer and
\* no more, so that SetWriter and AddWriter are refused after Disable and Reset as
\* they were before.
DisabledShutsOut == shut = "yes" => Range(writer) \subseteq {"nop", "console"}

\* The file writer is only in use when all five logs were opened, and logs are
\* closed together unless a fault left some open.
FilesWhole ==
    /\ "file" \in Range(writer) => \A l \in Range(Logs) : logs[l] # "absent"
    /\ {"open", "closed"} \subseteq Range(logs) =>
          faults > 0 \/ \E p \in Procs : pc[p] = "close"

\* No discarded stack is forgotten: it is counted, or on its way in a line that
\* reports the count, or was reported (or suppressed with that line).
DiscardsAccounted ==
    dropped = discarded + announced + unannounced
              + MapThenSumSet(LAMBDA p : local[p].n, Procs)

\* A stack is discarded only when another was let through at most the
\* threshold before it, so the first of a burst is always written.
DiscardJustified ==
    [][\A p \in Procs : pc[p] = "discard" /\ pc'[p] # "discard" =>
         \E t \in runs : local[p].at - t <= Threshold]_vars

\* Every call returns: nobody waits for ever for setup, whatever fails.
CallsReturn == \A p \in Procs : pc[p] # "idle" ~> pc[p] = "idle"
=============================================================================
