------------------------- MODULE RotatingLogProofs -------------------------
(***************************************************************************)
(* Theorems about RotatingLog, for any settings and bounds: its types, the *)
(* drain before Close returns, the newest backups, the number of backups,  *)
(* the lines that are lost, and for the daily rule the order of the log    *)
(* and its refinement of RetainedLog.  The invariant is inductive as a     *)
(* whole; the parts that are about the daily rule only are proved where    *)
(* Daily holds.                                                            *)
(***************************************************************************)
EXTENDS RotatingLog, SequenceTheorems, FiniteSetTheorems, FunctionTheorems,
        FoldLemmas, TLAPS

(***************************************************************************)
(* The inductive invariant.                                                *)
(***************************************************************************)

\* The lines of a file.
LinesOf(s)   == {s[k] : k \in 1..Len(s)}
LogLines(i)  == LinesOf(logs[i])
ArchLines(i) == LinesOf(archives[i])

\* A goroutine holds files that exist, and compresses only if it is asked to.
PostInv ==
  \A p \in posts :
    /\ p.id \in 1..Len(logs)
    /\ p.at \in {"zip", "copy", "remove"} => Compress /\ p.in \in 1..Len(logs)
    /\ p.at \in {"copy", "remove"} => p.out \in DOMAIN archives

\* The channel holds the lines accepted last, and the worker leaves only after
\* it has seen done and taken all that was accepted before.
CloseInv ==
  /\ \A k \in 1..Len(channel) : channel[k] + Len(channel) = Len(accepted) + k
  /\ atClose <= Len(accepted)
  /\ draining => closing # "open"
  /\ worker = "off" => closing = "open" /\ ~draining
  /\ worker = "gone" => draining /\ \A k \in 1..Len(channel) : channel[k] > atClose
  /\ closing = "closed" => worker = "gone"

\* A file on a list to remove is outdated, and stays so.
Kind == IF Compress THEN "gz" ELSE "backup"
Younger(t) == {g \in Glob : g[2] > t}
Expired(t) == KeepDays > 0 /\ t + KeepDays < now

ListInv ==
  \A p \in posts : \A f \in p.list :
    /\ f[1] = Kind
    /\ Daily => Expired(f[2])
    /\ KeepDays = 0 => MaxBackups > 0 /\ Cardinality(Younger(f[2])) >= MaxBackups

\* Lines are stored in the order of acceptance, in the file created last.
LineInv ==
  /\ \A l \in 1..Len(accepted) : accepted[l] <= now
  /\ event + Len(channel) <= Len(accepted)
  /\ \A i \in 1..Len(logs) : \A l \in LogLines(i) :
       l + Len(channel) <= Len(accepted) /\ (event # 0 => l < event)
  /\ \A i, j \in 1..Len(logs) : i < j =>
       \A k \in LogLines(i), l \in LogLines(j) : k < l
  /\ \A i \in DOMAIN archives : ArchLines(i) \subseteq LogLines(i)

\* File i is, or is going to be, in the directory with time t in its name.
Stamped(t, i) ==
  \/ \E f \in DOMAIN dir : f # Main /\ f[2] = t /\ dir[f] = i
  \/ \E p \in posts : p.file = t /\ p.id = i

\* The log file is the file created last, and open as long as it has that name.
MainInv ==
  /\ fp # 0 => Main \in DOMAIN dir /\ dir[Main] = fp
  /\ Main \in DOMAIN dir => dir[Main] = Len(logs)
  /\ worker \in {"off", "rename", "create"} => fp = 0
  /\ worker = "create" => Main \notin DOMAIN dir

\* A backup gets a time that no name has had, and names grow with the files.
NameInv ==
  /\ \A t \in Time, i \in Nat : Stamped(t, i) =>
       /\ t < now
       /\ worker # "off" => t < backup \/ (worker = "create" /\ t = backup)
       /\ Main \in DOMAIN dir => i < Len(logs)
  /\ \A t, u \in Time, i, j \in Nat : Stamped(t, i) /\ Stamped(u, j) =>
       (t < u => i < j) /\ (t = u => i = j)

\* The time of the next backup has passed when a file gets it, and the rule's
\* time is that of the open file's backup or the day after: a rotation may
\* begin before midnight and be marked after it.
TimeInv ==
  /\ backup <= now /\ rotatedTime <= now
  /\ Main \in DOMAIN dir /\ worker \notin {"off", "mark"} => backup <= rotatedTime
  /\ Main \in DOMAIN dir /\ worker \in {"rotate", "rename"} => backup < now
  /\ worker = "mark" => now <= backup + 1
  /\ fp # 0 /\ worker # "mark" => rotatedTime <= backup + 1

\* One goroutine compresses a backup, which stays until the archive is complete.
ZipInv ==
  /\ \A p, q \in posts : p.file = q.file => p = q
  /\ \A p \in posts :
       /\ p.at \in {"zip", "copy", "remove"} => Backup(p.file) \in DOMAIN dir /\ p.in = p.id
       /\ p.at \in {"copy", "remove"} =>
            p.out = p.id /\ (GzipFile(p.file) \in DOMAIN dir \/ Expired(p.file))
       /\ p.at = "remove" => archives[p.id] = logs[p.id]

\* No line is younger than the day after the one its file is named after.
AgeInv ==
  /\ \A t \in Time, i \in Nat : Stamped(t, i) => \A l \in LogLines(i) : accepted[l] <= t + 1
  /\ Main \in DOMAIN dir /\ worker # "off" =>
       \A l \in LogLines(Len(logs)) : accepted[l] <= backup + 1
  /\ fp # 0 /\ worker = "put" => accepted[event] <= backup + 1

DailyInv == MainInv /\ NameInv /\ TimeInv /\ ZipInv /\ AgeInv

IInv ==
  /\ TypeOK /\ PostInv /\ CloseInv /\ ListInv
  /\ Daily => LineInv /\ DailyInv

-----------------------------------------------------------------------------
(* Names, files and lines. *)

\* The log file, backups and archives have different names, which show the time.
LEMMA NameFacts ==
  /\ Main \in Name /\ Main[1] = "log"
  /\ \A t \in Time :
       /\ Backup(t) \in Name /\ Backup(t) # Main /\ Backup(t)[1] = "backup" /\ Backup(t)[2] = t
       /\ GzipFile(t) \in Name /\ GzipFile(t) # Main /\ GzipFile(t)[1] = "gz" /\ GzipFile(t)[2] = t
  /\ \A f \in Name :
       /\ f # Main => f[2] \in Time /\ f \in {Backup(f[2]), GzipFile(f[2])}
       /\ f[1] \in {"log", "backup", "gz"}
       /\ f[1] = "log" <=> f = Main
<1>1. Main \in Name /\ Main[1] = "log"
  BY DEF Name, Main
<1>2. ASSUME NEW t \in Time
      PROVE  /\ Backup(t) \in Name /\ Backup(t) # Main
             /\ Backup(t)[1] = "backup" /\ Backup(t)[2] = t
             /\ GzipFile(t) \in Name /\ GzipFile(t) # Main /\ GzipFile(t)[1] = "gz" /\ GzipFile(t)[2] = t
  BY DEF Name, Main, Backup, GzipFile
<1>3. ASSUME NEW f \in Name
      PROVE  /\ f # Main => f[2] \in Time /\ f \in {Backup(f[2]), GzipFile(f[2])}
             /\ f[1] \in {"log", "backup", "gz"}
             /\ f[1] = "log" <=> f = Main
  <2>1. CASE f = Main
    BY <1>1, <2>1
  <2>2. CASE f # Main
    <3>1. PICK t \in Time : f = Backup(t) \/ f = GzipFile(t)
      BY <1>3, <2>2 DEF Name
    <3>. QED
      BY <1>2, <2>2, <3>1
  <2>. QED
    BY <2>1, <2>2
<1>. QED
  BY <1>1, <1>2, <1>3

\* There are finitely many names.
LEMMA NameFinite == IsFiniteSet(Name)
<1>1. IsFiniteSet(Time)
  BY BoundAssumption, FS_Interval DEF Time
<1> DEFINE B == {Backup(t) : t \in Time}
           Z == {GzipFile(t) : t \in Time}
<1>2. IsFiniteSet(B)
  <2>1. [t \in Time |-> Backup(t)] \in Surjection(Time, B)
    BY DEF Surjection
  <2>. QED
    BY <1>1, <2>1, FS_Surjection
<1>3. IsFiniteSet(Z)
  <2>1. [t \in Time |-> GzipFile(t)] \in Surjection(Time, Z)
    BY DEF Surjection
  <2>. QED
    BY <1>1, <2>1, FS_Surjection
<1>. HIDE DEF B, Z
<1>4. IsFiniteSet({Main} \union B)
  BY <1>2, FS_Singleton, FS_Union
<1>5. IsFiniteSet(({Main} \union B) \union Z)
  BY <1>3, <1>4, FS_Union
<1>. QED
  BY <1>5 DEF Name, B, Z

\* The directory with a name more and a name less.
LEMMA PutUnlink ==
  ASSUME NEW d, NEW f, NEW x
  PROVE  /\ DOMAIN Put(d, f, x) = DOMAIN d \union {f}
         /\ Put(d, f, x)[f] = x
         /\ \A g \in DOMAIN d : g # f => Put(d, f, x)[g] = d[g]
         /\ DOMAIN Unlink(d, f) = DOMAIN d \ {f}
         /\ \A g \in DOMAIN d \ {f} : Unlink(d, f)[g] = d[g]
BY DEF Put, Unlink

\* The parts of the type invariant.
ClockOK == now \in Time /\ fails \in 0..MaxFails /\ restarts \in 0..MaxRestarts
CallOK ==
  /\ accepted \in Seq(Time) /\ Len(accepted) <= MaxLines
  /\ channel \in Seq(Line) /\ Len(channel) <= BufSize
  /\ closing \in {"open", "closing", "closed"} /\ atClose \in 0..MaxLines
HandOK ==
  /\ worker \in {"off", "select", "write", "rotate", "rename", "create", "mark", "put", "gone"}
  /\ draining \in BOOLEAN
  /\ event \in 0..MaxLines /\ (event # 0 <=> worker \notin {"off", "select", "gone"})
FileOK == fp \in 0..Len(logs) /\ backup \in Time /\ rotatedTime \in Time /\ currentSize \in Nat
LogsOK ==
  /\ logs \in Seq(Seq(Line))
  /\ DOMAIN archives \subseteq 1..Len(logs)
  /\ \A i \in DOMAIN archives : archives[i] \in Seq(Line)
DirOK ==
  /\ DOMAIN dir \subseteq Name
  /\ \A f \in DOMAIN dir : dir[f] \in IF f[1] = "gz" THEN DOMAIN archives ELSE 1..Len(logs)
PostOK == posts \subseteq PostState /\ PostInv

\* Together with PostInv they are the type invariant.
LEMMA TypeParts ==
  TypeOK /\ PostInv
    <=> ClockOK /\ CallOK /\ HandOK /\ FileOK /\ LogsOK /\ DirOK /\ PostOK
BY DEF TypeOK, ClockOK, CallOK, HandOK, FileOK, LogsOK, DirOK, PostOK

\* Files are numbered from one, and a new one gets the next number.
LEMMA LogsGrow ==
  ASSUME LogsOK, CreateLog
  PROVE  /\ Len(logs) \in Nat /\ Len(logs') = Len(logs) + 1
         /\ logs' \in Seq(Seq(Line))
         /\ \A i \in 1..Len(logs) : logs'[i] = logs[i]
         /\ logs'[Len(logs) + 1] = <<>>
         /\ fp' = Len(logs) + 1 /\ archives' = archives
         /\ dir' = Put(dir, Main, Len(logs) + 1)
<1>1. logs \in Seq(Seq(Line)) /\ <<>> \in Seq(Line) /\ Len(logs) \in Nat
  BY EmptySeq, LenProperties DEF LogsOK
<1>2. logs' = Append(logs, <<>>)
  BY DEF CreateLog
<1>. QED
  BY <1>1, <1>2, AppendProperties DEF CreateLog

\* A new log file keeps the types of the disk.
LEMMA CreateTypes ==
  ASSUME LogsOK, DirOK, PostInv, CreateLog
  PROVE  LogsOK' /\ DirOK' /\ fp' \in 0..Len(logs') /\ 1..Len(logs) \subseteq 1..Len(logs')
<1>1. /\ Len(logs) \in Nat /\ Len(logs') = Len(logs) + 1 /\ logs' \in Seq(Seq(Line))
      /\ fp' = Len(logs) + 1 /\ archives' = archives
      /\ dir' = Put(dir, Main, Len(logs) + 1)
  BY LogsGrow
<1>2. 1..Len(logs) \subseteq 1..Len(logs') /\ Len(logs) + 1 \in 1..Len(logs')
  BY <1>1
<1>3. LogsOK'
  BY <1>1, <1>2 DEF LogsOK
<1>4. DirOK'
  <2>1. DOMAIN dir' = DOMAIN dir \union {Main} /\ dir'[Main] = Len(logs) + 1
        /\ \A g \in DOMAIN dir : g # Main => dir'[g] = dir[g]
    BY <1>1 DEF Put
  <2>2. Main \in Name /\ Main[1] # "gz"
    BY NameFacts
  <2>. QED
    BY <1>1, <1>2, <2>1, <2>2 DEF DirOK
<1>. QED
  BY <1>1, <1>2, <1>3, <1>4

-----------------------------------------------------------------------------
(* Types. *)

\* The steps by what they concern: the process, its callers, the worker's hands,
\* the worker's files, the goroutines of rotations.
Process == Tick \/ NewLogger \/ Crash
Calls   == Write \/ CloseStart \/ CloseFinish
Hands   == TakeEvent \/ SeeDone \/ Drained \/ CheckRotate
Files   == RotateClose \/ RotateRename \/ RotateCreate \/ MarkRotated \/ PutLine

\* Next by these cases.
LEMMA NextCases ==
  Next => Process \/ Calls \/ Hands \/ Files \/ \E p \in posts : Post(p)
BY DEF Next, Worker, Process, Calls, Hands, Files

Types == ClockOK /\ CallOK /\ HandOK /\ FileOK /\ LogsOK /\ DirOK /\ PostOK

\* The beginning, the end and the clock of the process keep the types.
LEMMA ProcessTypes ==
  ASSUME Types, Process PROVE Types'
<1>. USE DEF clockVars, callVars, handVars, fileVars, diskVars
<1>1. CASE Tick
  <2>1. now \in Nat /\ MaxNow \in Nat /\ now < MaxNow
    BY <1>1, BoundAssumption DEF Tick, Types, ClockOK, Time
  <2>2. now' \in Time
    BY <1>1, <2>1 DEF Tick, Time
  <2>. QED
    BY <1>1, <2>2 DEF Tick, Types, ClockOK, CallOK, HandOK, FileOK, LogsOK, DirOK, PostOK,
                      PostInv
<1>2. CASE NewLogger
  <2>1. ClockOK' /\ CallOK' /\ HandOK'
    BY <1>2 DEF NewLogger, Types, ClockOK, CallOK, HandOK
  <2>2. CASE Main \in DOMAIN dir
    <3>1. fp' = dir[Main] /\ currentSize' = Len(Content(Main)) /\ UNCHANGED <<dir, logs, archives>>
      BY <1>2, <2>2 DEF NewLogger
    <3>2. Main[1] # "gz"
      BY NameFacts
    <3>3. fp' \in 0..Len(logs)
      BY <2>2, <3>1, <3>2 DEF Types, DirOK
    <3>4. currentSize' \in Nat
      <4>1. Content(Main) \in Seq(Line)
        BY <2>2, <3>2, ElementOfSeq DEF Types, DirOK, LogsOK, Content
      <4>. QED
        BY <3>1, <4>1, LenProperties
    <3>5. FileOK'
      BY <1>2, <3>1, <3>3, <3>4 DEF NewLogger, Types, FileOK, ClockOK
    <3>6. LogsOK' /\ DirOK' /\ PostOK'
      BY <1>2, <3>1 DEF NewLogger, Types, LogsOK, DirOK, PostOK, PostInv
    <3>. QED
      BY <2>1, <3>5, <3>6 DEF Types
  <2>3. CASE Main \notin DOMAIN dir
    <3>1. CreateLog /\ currentSize' = 0 /\ posts' = posts
      BY <1>2, <2>3 DEF NewLogger
    <3>2. LogsOK' /\ DirOK' /\ fp' \in 0..Len(logs') /\ 1..Len(logs) \subseteq 1..Len(logs')
      BY <3>1, CreateTypes DEF Types, PostOK
    <3>3. FileOK'
      BY <1>2, <3>1, <3>2 DEF NewLogger, Types, FileOK, ClockOK
    <3>4. PostOK'
      BY <3>1, <3>2 DEF CreateLog, Types, PostOK, PostInv
    <3>. QED
      BY <2>1, <3>2, <3>3, <3>4 DEF Types
  <2>. QED
    BY <2>2, <2>3
<1>3. CASE Crash
  <2>1. ClockOK'
    BY <1>3, BoundAssumption DEF Crash, Types, ClockOK
  <2>2. CallOK'
    BY <1>3, BoundAssumption, EmptySeq DEF Crash, Types, CallOK
  <2>3. HandOK'
    <3>1. 0 \in 0..MaxLines
      BY BoundAssumption
    <3>2. worker' = "off" /\ draining' = FALSE /\ event' = 0
      BY <1>3 DEF Crash
    <3>. QED
      BY <3>1, <3>2 DEF HandOK
  <2>4. FileOK'
    <3>1. Len(logs) \in Nat /\ 0 \in Time
      BY BoundAssumption, LenProperties DEF Types, LogsOK, Time
    <3>. QED
      BY <1>3, <3>1 DEF Crash, FileOK
  <2>5. LogsOK' /\ DirOK' /\ PostOK'
    BY <1>3 DEF Crash, Types, LogsOK, DirOK, PostOK, PostInv
  <2>. QED
    BY <2>1, <2>2, <2>3, <2>4, <2>5 DEF Types
<1>. QED
  BY <1>1, <1>2, <1>3 DEF Process

\* The callers and the worker's hands keep the types.
LEMMA CallTypes ==
  ASSUME Types, Calls \/ Hands PROVE Types'
<1>. USE DEF clockVars, callVars, handVars, fileVars, diskVars
<1>1. /\ accepted \in Seq(Time) /\ channel \in Seq(Line) /\ Len(accepted) \in Nat
      /\ Len(channel) \in Nat /\ BufSize \in Nat /\ MaxLines \in Nat
  BY BoundAssumption, LenProperties DEF Types, CallOK
<1>2. CASE Write
  <2>1. Len(accepted) < MaxLines /\ Len(channel) < BufSize /\ now \in Time
    BY <1>2 DEF Write, Types, ClockOK
  <2>2. Len(accepted) + 1 \in Line
    BY <1>1, <2>1 DEF Line
  <2>3. accepted' \in Seq(Time) /\ Len(accepted') = Len(accepted) + 1
    BY <1>1, <1>2, <2>1, AppendProperties DEF Write
  <2>4. channel' \in Seq(Line) /\ Len(channel') = Len(channel) + 1
    BY <1>1, <1>2, <2>2, AppendProperties DEF Write
  <2>5. CallOK'
    BY <1>1, <1>2, <2>1, <2>3, <2>4 DEF Write, Types, CallOK
  <2>. QED
    BY <1>2, <2>5 DEF Write, Types, ClockOK, HandOK, FileOK, LogsOK, DirOK, PostOK, PostInv
<1>3. CASE CloseStart
  <2>1. CallOK'
    BY <1>1, <1>3 DEF CloseStart, Types, CallOK
  <2>. QED
    BY <1>3, <2>1 DEF CloseStart, Types, ClockOK, HandOK, FileOK, LogsOK, DirOK, PostOK, PostInv
<1>4. CASE CloseFinish
  <2>1. CallOK'
    BY <1>1, <1>4 DEF CloseFinish, Types, CallOK
  <2>2. FileOK'
    BY <1>4 DEF CloseFinish, Types, FileOK
  <2>. QED
    BY <1>4, <2>1, <2>2 DEF CloseFinish, Types, ClockOK, HandOK, LogsOK, DirOK, PostOK, PostInv
<1>5. CASE TakeEvent
  <2>1. channel # <<>>
    BY <1>5 DEF TakeEvent
  <2>2. Head(channel) \in Line /\ Tail(channel) \in Seq(Line) /\ Len(Tail(channel)) = Len(channel) - 1
    BY <1>1, <2>1, HeadTailProperties
  <2>3. CallOK'
    BY <1>1, <1>5, <2>2 DEF TakeEvent, Types, CallOK
  <2>4. HandOK'
    BY <1>1, <1>5, <2>2 DEF TakeEvent, Types, HandOK, Line
  <2>. QED
    BY <1>5, <2>3, <2>4 DEF TakeEvent, Types, ClockOK, FileOK, LogsOK, DirOK, PostOK, PostInv
<1>6. CASE SeeDone \/ Drained \/ CheckRotate
  <2>1. HandOK'
    BY <1>6 DEF SeeDone, Drained, CheckRotate, Types, HandOK
  <2>2. UNCHANGED <<clockVars, callVars, fileVars, diskVars, posts>>
    BY <1>6 DEF SeeDone, Drained, CheckRotate
  <2>. QED
    BY <2>1, <2>2 DEF Types, ClockOK, CallOK, FileOK, LogsOK, DirOK, PostOK, PostInv
<1>. QED
  BY <1>2, <1>3, <1>4, <1>5, <1>6 DEF Calls, Hands

\* A failing or succeeding file operation counts.
LEMMA FailTypes == ASSUME ClockOK, Ok \/ Fail PROVE ClockOK' /\ now' = now
BY BoundAssumption DEF ClockOK, Ok, Fail, clockVars

\* The worker's files keep the types.
LEMMA FileTypes ==
  ASSUME Types, Files PROVE Types'
<1>. USE DEF callVars, handVars, fileVars, diskVars
<1>0. Len(logs) \in Nat /\ logs \in Seq(Seq(Line)) /\ 0 \in 0..Len(logs)
  BY LenProperties DEF Types, LogsOK
<1>1. CASE RotateClose
  <2>1. ClockOK'
    BY <1>1, FailTypes DEF RotateClose, Types
  <2>2. HandOK' /\ FileOK'
    BY <1>0, <1>1 DEF RotateClose, Types, HandOK, FileOK
  <2>. QED
    BY <1>1, <2>1, <2>2 DEF RotateClose, Types, CallOK, LogsOK, DirOK, PostOK, PostInv
<1>2. CASE RotateRename
  <2>1. ClockOK'
    BY <1>2, FailTypes DEF RotateRename, Types
  <2>2. HandOK' /\ FileOK' /\ CallOK' /\ LogsOK'
    BY <1>2 DEF RotateRename, Types, HandOK, FileOK, CallOK, LogsOK
  <2>3. DirOK' /\ PostOK'
    <3>1. CASE UNCHANGED <<dir, posts>>
      BY <1>2, <3>1 DEF RotateRename, Types, DirOK, PostOK, PostInv
    <3> DEFINE p == [at |-> "open", id |-> dir[Main], file |-> backup, in |-> 0, out |-> 0,
                     list |-> {}]
    <3>2. CASE /\ Main \in DOMAIN dir
               /\ dir' = Put(Unlink(dir, Main), Backup(backup), dir[Main])
               /\ posts' = posts \union {p}
      <4>1. dir[Main] \in 1..Len(logs) /\ backup \in Time /\ Main[1] # "gz"
        BY <3>2, NameFacts DEF Types, DirOK, FileOK
      <4>2. Backup(backup) \in Name /\ Backup(backup)[1] # "gz"
        BY <4>1, NameFacts
      <4>3. /\ DOMAIN dir' \subseteq DOMAIN dir \union {Backup(backup)}
            /\ dir'[Backup(backup)] = dir[Main]
            /\ \A f \in DOMAIN dir' : f # Backup(backup) => f \in DOMAIN dir /\ dir'[f] = dir[f]
        BY <3>2 DEF Put, Unlink
      <4>4. UNCHANGED <<logs, archives>>
        BY <1>2 DEF RotateRename
      <4>5. DirOK'
        <5>1. DOMAIN dir' \subseteq Name
          BY <4>2, <4>3 DEF Types, DirOK
        <5>2. ASSUME NEW f \in DOMAIN dir'
              PROVE  dir'[f] \in IF f[1] = "gz" THEN DOMAIN archives ELSE 1..Len(logs)
          BY <4>1, <4>2, <4>3, <5>2 DEF Types, DirOK
        <5>. QED
          BY <4>4, <5>1, <5>2 DEF DirOK
      <4>6. p \in PostState /\ p.id = dir[Main] /\ p.at = "open"
        BY <1>0, <4>1 DEF PostState
      <4>. HIDE DEF p
      <4>7. PostOK'
        BY <3>2, <4>1, <4>4, <4>6 DEF Types, PostOK, PostInv
      <4>. QED
        BY <4>5, <4>7
    <3>. QED
      BY <1>2, <3>1, <3>2 DEF RotateRename
  <2>. QED
    BY <2>1, <2>2, <2>3 DEF Types
<1>3. CASE RotateCreate
  <2>1. ClockOK' /\ now' = now
    BY <1>3, FailTypes DEF RotateCreate, Types
  <2>2. HandOK' /\ CallOK'
    BY <1>3 DEF RotateCreate, Types, HandOK, CallOK
  <2>3. CASE CreateLog
    <3>1. LogsOK' /\ DirOK' /\ fp' \in 0..Len(logs') /\ 1..Len(logs) \subseteq 1..Len(logs')
      BY <2>3, CreateTypes DEF Types, PostOK
    <3>2. FileOK'
      BY <1>3, <3>1 DEF RotateCreate, Types, FileOK, ClockOK
    <3>3. PostOK'
      BY <1>3, <2>3, <3>1 DEF RotateCreate, CreateLog, Types, PostOK, PostInv
    <3>. QED
      BY <2>1, <2>2, <3>1, <3>2, <3>3 DEF Types
  <2>4. CASE UNCHANGED <<fp, diskVars>>
    BY <1>3, <2>1, <2>2, <2>4 DEF RotateCreate, Types, FileOK, ClockOK, LogsOK, DirOK, PostOK, PostInv
  <2>. QED
    BY <1>3, <2>3, <2>4 DEF RotateCreate
<1>4. CASE MarkRotated
  <2>1. HandOK' /\ FileOK'
    BY <1>4 DEF MarkRotated, Types, HandOK, FileOK, ClockOK
  <2>. QED
    BY <1>4, <2>1 DEF MarkRotated, Types, ClockOK, CallOK, LogsOK, DirOK, PostOK, PostInv, clockVars
<1>5. CASE PutLine
  <2>1. ClockOK'
    BY <1>5, FailTypes DEF PutLine, Types
  <2>2. HandOK' /\ CallOK'
    BY <1>5, BoundAssumption DEF PutLine, Types, HandOK, CallOK
  <2>3. logs' \in Seq(Seq(Line)) /\ Len(logs') = Len(logs)
    <3>1. CASE fp # 0 /\ logs' = [logs EXCEPT ![fp] = Append(logs[fp], event)]
      <4>1. fp \in 1..Len(logs) /\ event \in Line
        BY <1>0, <1>5, <3>1 DEF PutLine, Types, FileOK, HandOK, Line
      <4>2. logs[fp] \in Seq(Line)
        BY <1>0, <4>1, ElementOfSeq
      <4>3. Append(logs[fp], event) \in Seq(Line)
        BY <4>1, <4>2, AppendProperties
      <4>. QED
        BY <1>0, <3>1, <4>1, <4>3, ExceptSeq
    <3>2. CASE logs' = logs
      BY <1>0, <3>2
    <3>. QED
      BY <1>5, <3>1, <3>2 DEF PutLine
  <2>4. FileOK'
    BY <1>5, <2>3 DEF PutLine, Types, FileOK
  <2>5. LogsOK' /\ DirOK' /\ PostOK'
    BY <1>5, <2>3 DEF PutLine, Types, LogsOK, DirOK, PostOK, PostInv
  <2>. QED
    BY <2>1, <2>2, <2>4, <2>5 DEF Types
<1>. QED
  BY <1>1, <1>2, <1>3, <1>4, <1>5 DEF Files

\* One goroutine goes on as another.
LEMMA GoOnTypes ==
  ASSUME PostOK, NEW p \in posts, NEW q \in PostState, GoOn(p, q),
         NEW n \in Nat, 1..Len(logs) \subseteq 1..n, NEW A, DOMAIN archives \subseteq A,
         q.id \in 1..n, q.at \in {"zip", "copy", "remove"} => Compress /\ q.in \in 1..n,
         q.at \in {"copy", "remove"} => q.out \in A
  PROVE  /\ posts' \subseteq PostState
         /\ \A r \in posts' :
              /\ r.id \in 1..n
              /\ r.at \in {"zip", "copy", "remove"} => Compress /\ r.in \in 1..n
              /\ r.at \in {"copy", "remove"} => r.out \in A
BY DEF PostOK, PostInv, GoOn

\* What a goroutine turns into when it compresses no longer, or deletes.
LEMMA GoCleanTypes ==
  ASSUME PostOK, NEW p \in posts, NEW A, DOMAIN archives \subseteq A,
         GoClean(p) \/ \E list \in SUBSET Name : GoDelete(p, list)
  PROVE  /\ posts' \subseteq PostState
         /\ \A r \in posts' :
              /\ r.id \in 1..Len(logs)
              /\ r.at \in {"zip", "copy", "remove"} => Compress /\ r.in \in 1..Len(logs)
              /\ r.at \in {"copy", "remove"} => r.out \in A
<1>1. p \in PostState /\ p.id \in 1..Len(logs)
  BY DEF PostOK, PostInv
<1>2. ASSUME NEW q \in PostState, q.at \in {"clean", "delete"}, q.id = p.id,
             posts' \subseteq posts \union {q}
      PROVE  /\ posts' \subseteq PostState
             /\ \A r \in posts' :
                  /\ r.id \in 1..Len(logs)
                  /\ r.at \in {"zip", "copy", "remove"} => Compress /\ r.in \in 1..Len(logs)
                  /\ r.at \in {"copy", "remove"} => r.out \in A
  BY <1>1, <1>2 DEF PostOK, PostInv
<1>3. CASE GoClean(p)
  <2> DEFINE q == [p EXCEPT !.at = "clean", !.in = 0, !.out = 0]
  <2>1. q \in PostState /\ q.at = "clean" /\ q.id = p.id
    BY <1>1 DEF PostState
  <2>2. posts' \subseteq posts \union {q}
    BY <1>3 DEF GoClean, GoOn
  <2>. HIDE DEF q
  <2>. QED
    BY <1>2, <2>1, <2>2
<1>4. ASSUME NEW list \in SUBSET Name, GoDelete(p, list)
      PROVE  /\ posts' \subseteq PostState
             /\ \A r \in posts' :
                  /\ r.id \in 1..Len(logs)
                  /\ r.at \in {"zip", "copy", "remove"} => Compress /\ r.in \in 1..Len(logs)
                  /\ r.at \in {"copy", "remove"} => r.out \in A
  <2> DEFINE q == [p EXCEPT !.at = "delete", !.list = list]
  <2>1. q \in PostState /\ q.at = "delete" /\ q.id = p.id
    BY <1>1 DEF PostState
  <2>2. posts' \subseteq posts \union {q}
    BY <1>4 DEF GoDelete, GoOn
  <2>. HIDE DEF q
  <2>. QED
    BY <1>2, <2>1, <2>2
<1>. QED
  BY <1>3, <1>4

\* The goroutines of rotations keep the types.
LEMMA PostTypes ==
  ASSUME Types, NEW p \in posts, Post(p) PROVE Types'
<1>. USE DEF callVars, handVars, fileVars, diskVars
<1>1. /\ Len(logs) \in Nat /\ p \in PostState /\ p.id \in 1..Len(logs) /\ p.file \in Time
      /\ p.list \in SUBSET Name /\ PostOK
  BY LenProperties DEF Types, LogsOK, PostOK, PostInv, PostState
<1>2. CallOK' /\ HandOK' /\ UNCHANGED <<fp, backup, rotatedTime, currentSize, logs>>
  BY DEF Types, Post, PostOpen, PostZip, PostCopy, PostRemove, PostList, PostDelete,
         PostUnchanged, CallOK, HandOK
<1>3. ClockOK'
  BY FailTypes DEF Types, Post, PostOpen, PostZip, PostCopy, PostRemove, PostList, PostDelete
<1>4. FileOK'
  BY <1>2 DEF Types, FileOK
<1>5. SUFFICES LogsOK' /\ DirOK' /\ PostOK'
  BY <1>2, <1>3, <1>4 DEF Types
<1>6. ASSUME GoClean(p) \/ (\E list \in SUBSET Name : GoDelete(p, list)), archives' = archives
      PROVE  LogsOK' /\ PostOK'
  BY <1>1, <1>2, <1>6, GoCleanTypes DEF Types, LogsOK, PostOK, PostInv
<1>7. CASE PostOpen(p)
  <2>1. UNCHANGED <<dir, archives>>
    BY <1>7 DEF PostOpen
  <2>2. CASE GoClean(p)
    BY <1>2, <1>6, <2>1, <2>2 DEF Types, DirOK
  <2>3. CASE /\ Compress /\ Backup(p.file) \in DOMAIN dir
             /\ GoOn(p, [p EXCEPT !.at = "zip", !.in = dir[Backup(p.file)]])
    <3> DEFINE q == [p EXCEPT !.at = "zip", !.in = dir[Backup(p.file)]]
    <3>1. dir[Backup(p.file)] \in 1..Len(logs)
      BY <1>1, <2>3, NameFacts DEF Types, DirOK
    <3>2. q \in PostState /\ q.at = "zip" /\ q.id = p.id /\ q.in \in 1..Len(logs)
      <4> DEFINE x == dir[Backup(p.file)]
      <4>1. x \in Nat /\ x \in 1..Len(logs)
        BY <1>1, <3>1
      <4>2. q = [p EXCEPT !.at = "zip", !.in = x]
        OBVIOUS
      <4>. HIDE DEF x, q
      <4>. QED
        BY <1>1, <4>1, <4>2 DEF PostState
    <3>3. GoOn(p, q)
      BY <2>3
    <3>. HIDE DEF q
    <3>4. PostOK'
      BY <1>1, <1>2, <2>1, <2>3, <3>2, <3>3, GoOnTypes DEF PostOK, PostInv
    <3>. QED
      BY <1>2, <2>1, <3>4 DEF Types, LogsOK, DirOK
  <2>. QED
    BY <1>7, <2>2, <2>3 DEF PostOpen
<1>8. CASE PostZip(p)
  <2>1. CASE GoClean(p) /\ UNCHANGED <<dir, archives>>
    BY <1>2, <1>6, <2>1 DEF Types, DirOK
  <2> DEFINE zip == GzipFile(p.file)
             out == IF zip \in DOMAIN dir THEN dir[zip] ELSE p.id
             q == [p EXCEPT !.at = "copy", !.out = out]
  <2>2. CASE /\ p.at = "zip" /\ dir' = Put(dir, zip, out) /\ archives' = Put(archives, out, <<>>)
             /\ GoOn(p, q)
    <3>1. zip \in Name /\ zip[1] = "gz"
      BY <1>1, NameFacts
    <3>2. out \in 1..Len(logs)
      BY <1>1, <3>1 DEF Types, DirOK, LogsOK
    <3>3. Compress /\ p.in \in 1..Len(logs)
      BY <1>1, <2>2 DEF PostOK, PostInv
    <3>4. q \in PostState /\ q.at = "copy" /\ q.id = p.id /\ q.in = p.in /\ q.out = out
      <4>. HIDE DEF out
      <4>1. out \in Nat
        BY <1>1, <3>2
      <4>. QED
        BY <1>1, <4>1 DEF PostState
    <3>. HIDE DEF out, q, zip
    <3>5. /\ DOMAIN archives' = DOMAIN archives \union {out} /\ archives'[out] = <<>>
          /\ \A i \in DOMAIN archives : i # out => archives'[i] = archives[i]
          /\ DOMAIN dir' = DOMAIN dir \union {zip} /\ dir'[zip] = out
          /\ \A f \in DOMAIN dir : f # zip => dir'[f] = dir[f]
      BY <2>2 DEF Put
    <3>6. LogsOK'
      BY <1>2, <3>2, <3>5, EmptySeq DEF Types, LogsOK
    <3>7. DirOK'
      BY <1>2, <3>1, <3>5 DEF Types, DirOK
    <3>8. PostOK'
      BY <1>1, <1>2, <2>2, <3>3, <3>4, <3>5, GoOnTypes DEF PostOK, PostInv
    <3>. QED
      BY <3>6, <3>7, <3>8
  <2>. QED
    BY <1>8, <2>1, <2>2 DEF PostZip
<1>9. CASE PostCopy(p)
  <2>1. CASE GoClean(p) /\ UNCHANGED <<dir, archives>>
    BY <1>2, <1>6, <2>1 DEF Types, DirOK
  <2>2. CASE /\ archives' = [archives EXCEPT ![p.out] = logs[p.in]] /\ dir' = dir
             /\ GoOn(p, [p EXCEPT !.at = "remove"]) /\ p.at = "copy"
    <3> DEFINE q == [p EXCEPT !.at = "remove"]
    <3>1. Compress /\ p.in \in 1..Len(logs) /\ p.out \in DOMAIN archives
      BY <1>1, <2>2 DEF PostOK, PostInv
    <3>2. q \in PostState /\ q.at = "remove" /\ q.id = p.id /\ q.in = p.in /\ q.out = p.out
          /\ GoOn(p, q)
      BY <1>1, <2>2 DEF PostState
    <3>. HIDE DEF q
    <3>3. logs[p.in] \in Seq(Line)
      BY <3>1, ElementOfSeq DEF Types, LogsOK
    <3>4. LogsOK' /\ DOMAIN archives' = DOMAIN archives
      BY <1>2, <2>2, <3>1, <3>3 DEF Types, LogsOK
    <3>5. DirOK'
      BY <1>2, <2>2, <3>4 DEF Types, DirOK
    <3>6. PostOK'
      BY <1>1, <1>2, <3>1, <3>2, <3>4, GoOnTypes DEF PostOK, PostInv
    <3>. QED
      BY <3>4, <3>5, <3>6
  <2>. QED
    BY <1>9, <2>1, <2>2 DEF PostCopy
<1>10. CASE PostRemove(p)
  <2>1. GoClean(p) /\ archives' = archives /\ dir' \in {dir, Unlink(dir, Backup(p.file))}
    BY <1>10 DEF PostRemove
  <2>2. DirOK'
    BY <1>2, <2>1 DEF Types, DirOK, Unlink
  <2>. QED
    BY <1>6, <2>1, <2>2
<1>11. CASE PostList(p)
  <2>1. OutdatedFiles \in SUBSET Name
    BY DEF OutdatedFiles, Glob, Types, DirOK
  <2>2. GoDelete(p, OutdatedFiles) /\ UNCHANGED <<dir, archives>>
    BY <1>11 DEF PostList
  <2>3. LogsOK' /\ PostOK'
    BY <1>6, <2>1, <2>2
  <2>. QED
    BY <1>2, <2>2, <2>3 DEF Types, DirOK
<1>12. CASE PostDelete(p)
  <2>1. PICK f \in p.list : GoDelete(p, p.list \ {f}) /\ dir' \in {dir, Unlink(dir, f)}
    BY <1>12 DEF PostDelete
  <2>2. p.list \ {f} \in SUBSET Name /\ archives' = archives
    BY <1>1, <1>12 DEF PostDelete
  <2>3. LogsOK' /\ PostOK'
    BY <1>6, <2>1, <2>2
  <2>4. DirOK'
    BY <1>2, <2>1, <2>2 DEF Types, DirOK, Unlink
  <2>. QED
    BY <2>3, <2>4
<1>. QED
  BY <1>7, <1>8, <1>9, <1>10, <1>11, <1>12 DEF Post

\* Every step keeps the types.
LEMMA StepTypes ==
  ASSUME Types, [Next]_vars PROVE Types'
<1>1. CASE UNCHANGED vars
  BY <1>1 DEF vars, clockVars, callVars, handVars, fileVars, diskVars, Types, ClockOK, CallOK,
              HandOK, FileOK, LogsOK, DirOK, PostOK, PostInv
<1>2. CASE Next
  BY <1>2, NextCases, ProcessTypes, CallTypes, FileTypes, PostTypes
<1>. QED
  BY <1>1, <1>2

\* They hold at first.
LEMMA InitTypes == Init => Types
<1>. SUFFICES ASSUME Init PROVE Types
  OBVIOUS
<1>1. ClockOK /\ CallOK /\ HandOK
  <2>1. ClockOK
    BY BoundAssumption DEF Init, ClockOK, Time
  <2>2. CallOK
    BY BoundAssumption, EmptySeq DEF Init, CallOK
  <2>3. HandOK
    <3>1. 0 \in 0..MaxLines
      BY BoundAssumption
    <3>2. worker = "off" /\ draining = FALSE /\ event = 0
      BY DEF Init
    <3>. QED
      BY <3>1, <3>2 DEF HandOK
  <2>. QED
    BY <2>1, <2>2, <2>3
<1>2. FileOK /\ LogsOK /\ DirOK /\ PostOK
  <2>1. logs = <<>> /\ archives = <<>> /\ dir = <<>> /\ posts = {} /\ Len(logs) = 0
    BY EmptySeq DEF Init
  <2>2. DOMAIN <<>> = {}
    OBVIOUS
  <2>. QED
    BY <2>1, <2>2, BoundAssumption, EmptySeq DEF Init, FileOK, LogsOK, DirOK, PostOK, PostInv, Time
<1>. QED
  BY <1>1, <1>2 DEF Types

-----------------------------------------------------------------------------
(* The end of the worker, and the lists of files to remove. *)

\* Every step keeps what Close needs.
LEMMA StepClose ==
  ASSUME Types, CloseInv, [Next]_vars PROVE CloseInv'
<1>. USE DEF clockVars, callVars, handVars, fileVars, diskVars
<1>1. /\ accepted \in Seq(Time) /\ channel \in Seq(Line) /\ Len(accepted) \in Nat
      /\ Len(channel) \in Nat /\ atClose \in Nat /\ now \in Time
      /\ \A k \in 1..Len(channel) : channel[k] \in Nat
  <2>1. channel \in Seq(Line) /\ accepted \in Seq(Time) /\ atClose \in Nat /\ now \in Time
    BY BoundAssumption DEF Types, CallOK, ClockOK
  <2>2. \A k \in 1..Len(channel) : channel[k] \in Line
    BY <2>1, ElementOfSeq
  <2>. QED
    BY <2>1, <2>2, LenProperties DEF Line
<1>2. CASE UNCHANGED <<accepted, channel, closing, atClose, draining>>
           /\ (worker' = worker \/ {worker, worker'} \cap {"off", "gone"} = {})
  BY <1>2 DEF CloseInv
<1>3. CASE NewLogger
  BY <1>3 DEF NewLogger, CloseInv
<1>4. CASE Crash
  <2>1. channel' = <<>> /\ Len(channel') = 0 /\ accepted' = accepted /\ closing' = "open"
        /\ atClose' = 0 /\ worker' = "off" /\ draining' = FALSE
    BY <1>4, EmptySeq DEF Crash
  <2>. QED
    BY <1>1, <2>1 DEF CloseInv
<1>5. CASE Write
  <2>1. Len(accepted) + 1 \in Line
    BY <1>1, <1>5, BoundAssumption DEF Write, Line
  <2>2. Len(accepted') = Len(accepted) + 1
    BY <1>1, <1>5, AppendProperties DEF Write
  <2>3. /\ Len(channel') = Len(channel) + 1 /\ channel'[Len(channel) + 1] = Len(accepted) + 1
        /\ \A k \in 1..Len(channel) : channel'[k] = channel[k]
    BY <1>1, <1>5, <2>1, AppendProperties DEF Write
  <2>4. UNCHANGED <<closing, atClose, draining, worker>>
    BY <1>5 DEF Write
  <2>5. \A k \in 1..Len(channel') : k \in 1..Len(channel) \/ k = Len(channel) + 1
    BY <1>1, <2>3
  <2>6. \A k \in 1..Len(channel') : channel'[k] + Len(channel') = Len(accepted') + k
    <3>1. SUFFICES ASSUME NEW k \in 1..Len(channel')
                   PROVE  channel'[k] + (Len(channel) + 1) = (Len(accepted) + 1) + k
      BY <2>2, <2>3
    <3>2. CASE k = Len(channel) + 1
      BY <1>1, <2>3, <3>2
    <3>3. CASE k \in 1..Len(channel)
      <4>1. channel'[k] \in Nat /\ channel'[k] + Len(channel) = Len(accepted) + k
        BY <1>1, <2>3, <3>3 DEF CloseInv
      <4>. QED
        BY <1>1, <3>3, <4>1
    <3>. QED
      BY <2>5, <3>2, <3>3
  <2>7. atClose' <= Len(accepted')
    BY <1>1, <2>2, <2>4 DEF CloseInv
  <2>8. worker = "gone" => \A k \in 1..Len(channel') : channel'[k] > atClose
    BY <1>1, <2>3, <2>5 DEF CloseInv
  <2>. QED
    BY <2>4, <2>6, <2>7, <2>8 DEF CloseInv
<1>6. CASE CloseStart
  BY <1>1, <1>6 DEF CloseStart, CloseInv
<1>7. CASE CloseFinish
  BY <1>7 DEF CloseFinish, CloseInv
<1>8. CASE TakeEvent
  <2>1. channel # <<>> /\ channel' = Tail(channel) /\ worker = "select" /\ worker' = "write"
        /\ UNCHANGED <<accepted, closing, atClose, draining>>
    BY <1>8 DEF TakeEvent
  <2>2. /\ Len(channel') = Len(channel) - 1
        /\ \A k \in 1..Len(channel') : channel'[k] = channel[k + 1]
    BY <1>1, <2>1, HeadTailProperties
  <2>3. \A k \in 1..Len(channel') : channel'[k] + Len(channel') = Len(accepted) + k
    <3>1. SUFFICES ASSUME NEW k \in 1..Len(channel')
                   PROVE  channel[k + 1] + (Len(channel) - 1) = Len(accepted) + k
      BY <2>2
    <3>2. k \in Nat /\ k + 1 \in 1..Len(channel)
      BY <1>1, <2>2
    <3>3. channel[k + 1] \in Nat /\ channel[k + 1] + Len(channel) = Len(accepted) + (k + 1)
      BY <1>1, <3>2 DEF CloseInv
    <3> DEFINE x == channel[k + 1]
               y == Len(channel)
               z == Len(accepted)
    <3>4. x \in Nat /\ y \in Nat /\ z \in Nat /\ k \in Nat /\ x + y = z + (k + 1)
      BY <1>1, <3>2, <3>3
    <3>. HIDE DEF x, y, z
    <3>5. x + (y - 1) = z + k
      BY <3>4
    <3>. QED
      BY <3>5 DEF x, y, z
  <2>. QED
    BY <2>1, <2>3 DEF CloseInv
<1>9. CASE SeeDone
  BY <1>9 DEF SeeDone, CloseInv
<1>10. CASE Drained
  <2>1. channel = <<>> /\ Len(channel) = 0
    BY <1>10, EmptySeq DEF Drained
  <2>. QED
    BY <1>10, <2>1 DEF Drained, CloseInv
<1>11. CASE Tick \/ CheckRotate \/ Files
  <2>1. UNCHANGED <<accepted, channel, closing, atClose, draining>>
    BY <1>11 DEF Tick, CheckRotate, Files, RotateClose, RotateRename, RotateCreate, MarkRotated,
                 PutLine
  <2>2. worker' = worker \/ {worker, worker'} \cap {"off", "gone"} = {}
    BY <1>11 DEF Tick, CheckRotate, Files, RotateClose, RotateRename, RotateCreate, MarkRotated,
                 PutLine
  <2>. QED
    BY <1>2, <2>1, <2>2
<1>12. CASE \E p \in posts : Post(p)
  BY <1>2, <1>12 DEF Post, PostOpen, PostZip, PostCopy, PostRemove, PostList, PostDelete,
                     PostUnchanged
<1>13. CASE UNCHANGED vars
  BY <1>2, <1>13 DEF vars
<1>. QED
  BY <1>3, <1>4, <1>5, <1>6, <1>7, <1>8, <1>9, <1>10, <1>11, <1>12, <1>13, NextCases
  DEF Process, Calls, Hands

\* Names that are matched show a time.
LEMMA KindNames ==
  ASSUME DirOK
  PROVE  /\ Glob \subseteq Name /\ Glob = {f \in DOMAIN dir : f[1] = Kind}
         /\ \A f \in Name : f[1] = Kind => f # Main /\ f[2] \in Nat
<1>1. Glob \subseteq Name /\ Glob = {f \in DOMAIN dir : f[1] = Kind}
  BY DEF DirOK, Glob, Kind
<1>2. \A f \in Name : f[1] = Kind => f # Main /\ f[2] \in Time
  BY NameFacts DEF Kind
<1>. QED
  BY <1>1, <1>2, BoundAssumption DEF Time

\* The numbers of younger files can be compared.
LEMMA YoungerCount ==
  ASSUME NEW S \in SUBSET Name, NEW T \in SUBSET S
  PROVE  Cardinality(T) \in Nat /\ Cardinality(S) \in Nat /\ Cardinality(T) <= Cardinality(S)
<1>1. IsFiniteSet(S) /\ IsFiniteSet(T)
  BY NameFinite, FS_Subset
<1>. QED
  BY <1>1, FS_Subset, FS_CardinalityType

\* Lists stay right while no file they count goes.
LEMMA ListKept ==
  ASSUME DirOK, DirOK', ListInv, PostOK, now \in Nat, now' \in Nat, now <= now',
         Glob \subseteq Glob',
         \A p \in posts' : \A f \in p.list : \E q \in posts : f \in q.list
  PROVE  ListInv'
<1>. SUFFICES ASSUME NEW p \in posts', NEW f \in p.list
              PROVE  /\ f[1] = Kind
                     /\ Daily => KeepDays > 0 /\ f[2] + KeepDays < now'
                     /\ KeepDays = 0 => MaxBackups > 0 /\ Cardinality(Younger(f[2])') >= MaxBackups
  BY DEF ListInv, Expired, Kind
<1>1. PICK q \in posts : f \in q.list
  OBVIOUS
<1>2. f \in Name /\ f[1] = Kind
  BY <1>1 DEF ListInv, PostOK, PostState
<1>3. f[2] \in Nat
  BY <1>2, KindNames
<1>4. Daily => KeepDays > 0 /\ f[2] + KeepDays < now'
  BY <1>1, <1>3, SettingAssumption DEF ListInv, Expired
<1>5. KeepDays = 0 => MaxBackups > 0 /\ Cardinality(Younger(f[2])) >= MaxBackups
  BY <1>1 DEF ListInv
<1>6. /\ Cardinality(Younger(f[2])) \in Nat /\ Cardinality(Younger(f[2])') \in Nat
      /\ Cardinality(Younger(f[2])) <= Cardinality(Younger(f[2])')
  <2>1. Younger(f[2]) \subseteq Younger(f[2])'
    BY DEF Younger
  <2>2. Younger(f[2])' \subseteq Name
    BY DEF Younger, DirOK, Glob
  <2>. QED
    BY <2>1, <2>2, YoungerCount
<1>. QED
  BY <1>2, <1>4, <1>5, <1>6, SettingAssumption

\* The deletion of a file keeps the lists right: a file that is counted for
\* another and goes itself has as many younger files, which stay.
LEMMA DeleteKeeps ==
  ASSUME DirOK, DirOK', ListInv, PostOK, SettingAssumption, now' = now,
         NEW p \in posts, NEW f \in p.list, dir' = Unlink(dir, f),
         \A q \in posts' : \A g \in q.list : \E r \in posts : g \in r.list
  PROVE  ListInv'
<1>. SUFFICES ASSUME NEW q \in posts', NEW g \in q.list
              PROVE  /\ g[1] = Kind
                     /\ Daily => Expired(g[2])
                     /\ KeepDays = 0 => MaxBackups > 0 /\ Cardinality(Younger(g[2])') >= MaxBackups
  BY DEF ListInv, Expired, Kind
<1>1. PICK r \in posts : g \in r.list
  OBVIOUS
<1>2. /\ g \in Name /\ g[1] = Kind /\ f \in Name /\ f[1] = Kind
      /\ Daily => Expired(g[2])
      /\ KeepDays = 0 => MaxBackups > 0 /\ Cardinality(Younger(g[2])) >= MaxBackups
      /\ KeepDays = 0 => Cardinality(Younger(f[2])) >= MaxBackups
  BY <1>1 DEF ListInv, PostOK, PostState
<1>3. g[2] \in Nat /\ f[2] \in Nat
  BY <1>2, KindNames
<1>4. Glob' = Glob \ {f}
  BY DEF Glob, Unlink
<1>5. Younger(g[2])' = Younger(g[2]) \ {f}
  BY <1>4 DEF Younger
<1>6. Younger(g[2])' \subseteq Name
  BY <1>5, KindNames DEF Younger
<1>7. CASE f[2] <= g[2]
  <2>1. f \notin Younger(g[2])
    BY <1>3, <1>7 DEF Younger
  <2>2. Younger(g[2])' = Younger(g[2])
    BY <1>5, <2>1
  <2>. QED
    BY <1>2, <2>2
<1>8. CASE f[2] > g[2]
  <2>1. Younger(f[2]) \subseteq Younger(g[2])'
    <3>1. ASSUME NEW h \in Younger(f[2]) PROVE h \in Younger(g[2]) /\ h # f
      <4>1. h[2] \in Nat /\ h[2] > f[2] /\ h \in Glob
        BY <3>1, KindNames DEF Younger
      <4>. QED
        BY <1>3, <1>8, <4>1 DEF Younger
    <3>. QED
      BY <1>5, <3>1
  <2>2. /\ Cardinality(Younger(f[2])) \in Nat /\ Cardinality(Younger(g[2])') \in Nat
        /\ Cardinality(Younger(f[2])) <= Cardinality(Younger(g[2])')
    BY <1>6, <2>1, YoungerCount
  <2>. QED
    BY <1>2, <2>2
<1>. QED
  BY <1>3, <1>7, <1>8

\* The lists of the goroutines there are after a step of one of them.
LEMMA PostLists ==
  ASSUME PostOK, NEW p \in posts, NEW D,
         \/ GoClean(p)
         \/ \E q \in PostState : GoOn(p, q) /\ q.list = p.list
         \/ GoDelete(p, D) /\ D \subseteq p.list
  PROVE  \A q \in posts' : \A f \in q.list : \E r \in posts : f \in r.list
<1>1. p \in PostState
  BY DEF PostOK
<1>2. ASSUME NEW q, q.list \subseteq p.list, posts' \subseteq posts \union {q}
      PROVE  \A x \in posts' : \A f \in x.list : \E r \in posts : f \in r.list
  BY <1>2
<1>3. CASE GoClean(p)
  <2> DEFINE q == [p EXCEPT !.at = "clean", !.in = 0, !.out = 0]
  <2>1. q.list = p.list /\ posts' \subseteq posts \union {q}
    BY <1>1, <1>3 DEF GoClean, GoOn, PostState
  <2>. HIDE DEF q
  <2>. QED
    BY <1>2, <2>1
<1>4. CASE \E q \in PostState : GoOn(p, q) /\ q.list = p.list
  BY <1>2, <1>4 DEF GoOn
<1>5. CASE GoDelete(p, D) /\ D \subseteq p.list
  <2> DEFINE q == [p EXCEPT !.at = "delete", !.list = D]
  <2>1. q.list = D /\ posts' \subseteq posts \union {q}
    BY <1>1, <1>5 DEF GoDelete, GoOn, PostState
  <2>. HIDE DEF q
  <2>. QED
    BY <1>2, <1>5, <2>1
<1>. QED
  BY <1>3, <1>4, <1>5

\* A list that is made holds outdated files.
LEMMA ListMade ==
  ASSUME DirOK, DirOK', ListInv, PostOK, SettingAssumption, now' = now, dir' = dir,
         NEW p \in posts, GoDelete(p, OutdatedFiles)
  PROVE  ListInv'
<1>1. ASSUME NEW f \in OutdatedFiles
      PROVE  /\ f[1] = Kind /\ (Daily => Expired(f[2]))
             /\ KeepDays = 0 => MaxBackups > 0 /\ Cardinality(Younger(f[2])) >= MaxBackups
  BY KindNames DEF OutdatedFiles, TooMany, TooOld, Expired, Younger
<1> DEFINE q == [p EXCEPT !.at = "delete", !.list = OutdatedFiles]
<1>2. q.list = OutdatedFiles /\ posts' \subseteq posts \union {q}
  BY DEF GoDelete, GoOn, PostOK, PostState
<1>. HIDE DEF q
<1>3. \A t : Younger(t)' = Younger(t)
  BY DEF Younger, Glob
<1>4. \A x \in posts' : \A f \in x.list :
         /\ f[1] = Kind /\ (Daily => Expired(f[2]))
         /\ KeepDays = 0 => MaxBackups > 0 /\ Cardinality(Younger(f[2])) >= MaxBackups
  BY <1>1, <1>2 DEF ListInv
<1>. QED
  BY <1>3, <1>4 DEF ListInv, Expired, Kind

\* How a goroutine changes the disk, and its part in the lists.
LEMMA PostCases ==
  ASSUME Types, NEW p \in posts, Post(p)
  PROVE  \/ /\ p.at = "clean" /\ GoDelete(p, OutdatedFiles) /\ dir' = dir
         \/ /\ \A q \in posts' : \A f \in q.list : \E r \in posts : f \in r.list
            /\ \/ Glob \subseteq Glob'
               \/ p.at = "delete" /\ \E f \in p.list : dir' = Unlink(dir, f)
<1>1. p \in PostState /\ PostOK /\ DirOK
  BY DEF Types, PostOK
<1>2. CASE PostOpen(p)
  <2>1. dir' = dir
    BY <1>2 DEF PostOpen, diskVars
  <2>2. Glob' = Glob
    BY <2>1 DEF Glob
  <2>3. CASE GoClean(p)
    BY <1>1, <2>2, <2>3, PostLists
  <2> DEFINE q == [p EXCEPT !.at = "zip", !.in = dir[Backup(p.file)]]
  <2>4. CASE GoOn(p, q) /\ Compress /\ Backup(p.file) \in DOMAIN dir
    <3>1. q.list = p.list /\ posts' \subseteq posts \union {q}
      BY <1>1, <2>4 DEF GoOn, PostState
    <3>. HIDE DEF q
    <3>2. \A x \in posts' : \A f \in x.list : \E r \in posts : f \in r.list
      BY <3>1
    <3>. QED
      BY <2>2, <3>2
  <2>. QED
    BY <1>2, <2>3, <2>4 DEF PostOpen
<1>3. CASE PostZip(p)
  <2>1. Glob \subseteq Glob'
    BY <1>3 DEF PostZip, Glob, Put
  <2>2. CASE GoClean(p)
    BY <1>1, <2>1, <2>2, PostLists
  <2> DEFINE zip == GzipFile(p.file)
             out == IF zip \in DOMAIN dir THEN dir[zip] ELSE p.id
             q == [p EXCEPT !.at = "copy", !.out = out]
  <2>3. CASE GoOn(p, q)
    <3>1. q.list = p.list /\ posts' \subseteq posts \union {q}
      BY <1>1, <2>3 DEF GoOn, PostState
    <3>. HIDE DEF q
    <3>2. \A x \in posts' : \A f \in x.list : \E r \in posts : f \in r.list
      BY <3>1
    <3>. QED
      BY <2>1, <3>2
  <2>. QED
    BY <1>3, <2>2, <2>3 DEF PostZip
<1>4. CASE PostCopy(p)
  <2>1. Glob' = Glob
    BY <1>4 DEF PostCopy, Glob
  <2>2. CASE GoClean(p)
    BY <1>1, <2>1, <2>2, PostLists
  <2> DEFINE q == [p EXCEPT !.at = "remove"]
  <2>3. CASE GoOn(p, q)
    <3>1. q.list = p.list /\ posts' \subseteq posts \union {q}
      BY <1>1, <2>3 DEF GoOn, PostState
    <3>. HIDE DEF q
    <3>2. \A x \in posts' : \A f \in x.list : \E r \in posts : f \in r.list
      BY <3>1
    <3>. QED
      BY <2>1, <3>2
  <2>. QED
    BY <1>4, <2>2, <2>3 DEF PostCopy
<1>5. CASE PostRemove(p)
  <2>1. Compress /\ p.file \in Time
    BY <1>1, <1>5 DEF PostRemove, PostOK, PostInv, PostState
  <2>2. Backup(p.file)[1] # "gz"
    BY <2>1, NameFacts
  <2>3. Glob \subseteq Glob'
    BY <1>5, <2>1, <2>2 DEF PostRemove, Glob, Unlink
  <2>4. GoClean(p)
    BY <1>5 DEF PostRemove
  <2>. QED
    BY <1>1, <2>3, <2>4, PostLists
<1>6. CASE PostList(p)
  BY <1>6 DEF PostList, diskVars
<1>7. CASE PostDelete(p)
  <2>1. PICK f \in p.list : GoDelete(p, p.list \ {f}) /\ dir' \in {dir, Unlink(dir, f)}
    BY <1>7 DEF PostDelete
  <2>2. \A q \in posts' : \A g \in q.list : \E r \in posts : g \in r.list
    BY <1>1, <2>1, PostLists
  <2>3. CASE dir' = dir
    BY <2>2, <2>3 DEF Glob
  <2>. QED
    BY <1>7, <2>1, <2>2, <2>3 DEF PostDelete
<1>. QED
  BY <1>2, <1>3, <1>4, <1>5, <1>6, <1>7 DEF Post

\* The directory keeps its backups and archives in every other step.
LEMMA GlobGrows ==
  ASSUME DirOK, Process \/ Calls \/ Hands \/ Files, Types
  PROVE  Glob \subseteq Glob'
<1>1. CASE UNCHANGED dir
  BY <1>1 DEF Glob
<1>2. CASE dir' = Put(dir, Main, Len(logs) + 1)
  BY <1>2 DEF Glob, Put
<1>3. CASE dir' = Put(Unlink(dir, Main), Backup(backup), dir[Main])
  BY <1>3, NameFacts DEF Glob, Put, Unlink
<1>. QED
  BY <1>1, <1>2, <1>3
  DEF Process, Tick, NewLogger, Crash, Calls, Write, CloseStart, CloseFinish, Hands, TakeEvent,
      SeeDone, Drained, CheckRotate, Files, RotateClose, RotateRename, RotateCreate, MarkRotated,
      PutLine, CreateLog, diskVars

\* Every step keeps the lists right.
LEMMA StepList ==
  ASSUME Types, ListInv, [Next]_vars PROVE ListInv'
<1>1. Types' /\ DirOK /\ DirOK' /\ PostOK /\ now \in Nat /\ now' \in Nat
  <2>1. Types'
    BY StepTypes
  <2>. QED
    BY <2>1, BoundAssumption DEF Types, ClockOK, Time
<1>2. CASE Process \/ Calls \/ Hands \/ Files
  <2>1. now' = now \/ now' = now + 1
    BY <1>2 DEF Process, Tick, NewLogger, Crash, Calls, Write, CloseStart, CloseFinish, Hands,
                TakeEvent, SeeDone, Drained, CheckRotate, Files, RotateClose, RotateRename,
                RotateCreate, MarkRotated, PutLine, clockVars, Ok, Fail
  <2>2. \A p \in posts' : \A f \in p.list : \E q \in posts : f \in q.list
    <3>1. posts' \subseteq posts
            \union {[at |-> "open", id |-> dir[Main], file |-> backup, in |-> 0, out |-> 0, list |-> {}]}
      BY <1>2 DEF Process, Tick, NewLogger, Crash, Calls, Write, CloseStart, CloseFinish, Hands,
                  TakeEvent, SeeDone, Drained, CheckRotate, Files, RotateClose, RotateRename,
                  RotateCreate, MarkRotated, PutLine
    <3>. QED
      BY <3>1
  <2>3. Glob \subseteq Glob'
    BY <1>1, <1>2, GlobGrows
  <2>. QED
    BY <1>1, <2>1, <2>2, <2>3, ListKept
<1>3. ASSUME NEW p \in posts, Post(p) PROVE ListInv'
  <2>1. now' = now
    BY <1>3, FailTypes DEF Types, Post, PostOpen, PostZip, PostCopy, PostRemove, PostList, PostDelete
  <2>. QED
    BY <1>1, <1>3, <2>1, PostCases, ListMade, ListKept, DeleteKeeps, SettingAssumption
<1>4. CASE UNCHANGED vars
  <2>1. UNCHANGED <<dir, posts, now>>
    BY <1>4 DEF vars, clockVars, diskVars
  <2>2. Glob' = Glob
    BY <2>1 DEF Glob
  <2>. QED
    BY <1>1, <2>1, <2>2, ListKept
<1>. QED
  BY <1>2, <1>3, <1>4, NextCases

-----------------------------------------------------------------------------
(* The daily rule: names, files and lines. *)

Full == Types /\ CloseInv /\ ListInv /\ LineInv /\ DailyInv

\* Steps of the worker, its callers and the process, but for the renaming of a
\* file, change no name but that of the log file and start no goroutine.
MainOnly ==
  /\ \A f \in DOMAIN dir' : f # Main => f \in DOMAIN dir /\ dir'[f] = dir[f]
  /\ \A f \in DOMAIN dir : f # Main => f \in DOMAIN dir'
  /\ posts' \subseteq posts

\* So they give no file a name.
LEMMA MainOnlyStamps ==
  ASSUME MainOnly PROVE \A t, i : Stamped(t, i)' => Stamped(t, i)
BY DEF MainOnly, Stamped

\* A renaming with effect.
Renamed ==
  /\ worker = "rename" /\ Main \in DOMAIN dir
  /\ dir' = Put(Unlink(dir, Main), Backup(backup), dir[Main])
  /\ posts' = posts \union
       {[at |-> "open", id |-> dir[Main], file |-> backup, in |-> 0, out |-> 0, list |-> {}]}

\* Every step that is not of a goroutine is one or the other.
LEMMA MainOnlyCases ==
  ASSUME Process \/ Calls \/ Hands \/ Files
  PROVE  MainOnly \/ (RotateRename /\ Renamed)
<1>1. CASE UNCHANGED dir /\ posts' \subseteq posts
  BY <1>1 DEF MainOnly
<1>2. CASE dir' = Put(dir, Main, Len(logs) + 1) /\ posts' \subseteq posts
  BY <1>2 DEF MainOnly, Put
<1>3. CASE RotateRename /\ Renamed
  BY <1>3
<1>4. CASE RotateRename
  BY <1>1, <1>3, <1>4 DEF RotateRename, Renamed
<1>. QED
  BY <1>1, <1>2, <1>4
  DEF Process, Tick, NewLogger, Crash, Calls, Write, CloseStart, CloseFinish, Hands, TakeEvent,
      SeeDone, Drained, CheckRotate, Files, RotateClose, RotateCreate, MarkRotated, PutLine,
      CreateLog, diskVars

\* The names after a renaming: the backup has the number the log file had.
LEMMA RenamedStamps ==
  ASSUME Types, Renamed
  PROVE  /\ Main \notin DOMAIN dir'
         /\ Backup(backup) \in DOMAIN dir' /\ dir'[Backup(backup)] = dir[Main]
         /\ \A f \in DOMAIN dir : f # Main => f \in DOMAIN dir'
         /\ \A f \in DOMAIN dir' : f # Backup(backup) => f \in DOMAIN dir /\ f # Main /\ dir'[f] = dir[f]
         /\ \A t, i : Stamped(t, i)' => Stamped(t, i) \/ (t = backup /\ i = dir[Main])
<1>1. Backup(backup) # Main /\ Backup(backup)[2] = backup
  BY NameFacts DEF Types, FileOK
<1>2. /\ DOMAIN dir' = (DOMAIN dir \ {Main}) \union {Backup(backup)}
      /\ dir'[Backup(backup)] = dir[Main]
      /\ \A f \in DOMAIN dir \ {Main} : f # Backup(backup) => dir'[f] = dir[f]
  BY DEF Renamed, Put, Unlink
<1> DEFINE p == [at |-> "open", id |-> dir[Main], file |-> backup, in |-> 0, out |-> 0,
                 list |-> {}]
<1>3. posts' = posts \union {p} /\ p.id = dir[Main] /\ p.file = backup
  BY DEF Renamed
<1>. HIDE DEF p
<1>4. \A t, i : Stamped(t, i)' => Stamped(t, i) \/ (t = backup /\ i = dir[Main])
  BY <1>1, <1>2, <1>3 DEF Stamped
<1>. QED
  BY <1>1, <1>2, <1>4

\* Stamped numbers are those of files.
LEMMA StampedFiles ==
  ASSUME Types
  PROVE  /\ \A t, i : Stamped(t, i) => t \in Time /\ i \in 1..Len(logs) /\ i \in Nat
         /\ \A p \in posts : Stamped(p.file, p.id) /\ p.file \in Time
         /\ \A f \in DOMAIN dir : f # Main => Stamped(f[2], dir[f]) /\ f[2] \in Time
<1>1. \A f \in DOMAIN dir : f # Main => f[2] \in Time /\ dir[f] \in 1..Len(logs)
  BY NameFacts DEF Types, DirOK, LogsOK
<1>2. \A p \in posts : p.file \in Time /\ p.id \in 1..Len(logs)
  BY DEF Types, PostOK, PostInv, PostState
<1>. QED
  BY <1>1, <1>2 DEF Stamped

\* What a goroutine can do to the names: it takes away one of its list, or its
\* backup, or adds the archive of its backup.
LEMMA PostNames ==
  ASSUME Full, Daily, NEW p \in posts, Post(p)
  PROVE  /\ UNCHANGED <<now, accepted, channel, worker, event, fp, backup, rotatedTime, logs>>
         /\ Main \in DOMAIN dir' <=> Main \in DOMAIN dir
         /\ Main \in DOMAIN dir => dir'[Main] = dir[Main]
         /\ \A t, i : Stamped(t, i)' => Stamped(t, i)
<1>0. /\ p \in PostState /\ p.file \in Time /\ Types /\ ListInv /\ NameInv /\ ZipInv
      /\ DOMAIN dir \subseteq Name
  BY DEF Full, DailyInv, Types, PostOK, PostState, DirOK
<1>1. UNCHANGED <<now, accepted, channel, worker, event, fp, backup, rotatedTime, logs>>
  <2>1. now' = now
    BY FailTypes DEF Full, Types, Post, PostOpen, PostZip, PostCopy, PostRemove, PostList, PostDelete
  <2>. QED
    BY <2>1 DEF Post, PostOpen, PostZip, PostCopy, PostRemove, PostList, PostDelete, PostUnchanged,
                callVars, handVars, fileVars, diskVars
<1>2. \A q \in posts' : \E r \in posts : q.file = r.file /\ q.id = r.id
  <2>1. ASSUME NEW q, q.file = p.file, q.id = p.id, posts' \subseteq posts \union {q}
        PROVE  \A x \in posts' : \E r \in posts : x.file = r.file /\ x.id = r.id
    BY <2>1
  <2>2. CASE GoClean(p)
    <3> DEFINE q == [p EXCEPT !.at = "clean", !.in = 0, !.out = 0]
    <3>1. q.file = p.file /\ q.id = p.id /\ posts' \subseteq posts \union {q}
      BY <1>0, <2>2 DEF GoClean, GoOn, PostState
    <3>. HIDE DEF q
    <3>. QED
      BY <2>1, <3>1
  <2>3. ASSUME NEW D, GoDelete(p, D)
        PROVE  \A x \in posts' : \E r \in posts : x.file = r.file /\ x.id = r.id
    <3> DEFINE q == [p EXCEPT !.at = "delete", !.list = D]
    <3>1. q.file = p.file /\ q.id = p.id /\ posts' \subseteq posts \union {q}
      BY <1>0, <2>3 DEF GoDelete, GoOn, PostState
    <3>. HIDE DEF q
    <3>. QED
      BY <2>1, <3>1
  <2>4. ASSUME NEW x, GoOn(p, [p EXCEPT !.at = "zip", !.in = x])
        PROVE  \A y \in posts' : \E r \in posts : y.file = r.file /\ y.id = r.id
    <3> DEFINE q == [p EXCEPT !.at = "zip", !.in = x]
    <3>1. q.file = p.file /\ q.id = p.id /\ posts' \subseteq posts \union {q}
      BY <1>0, <2>4 DEF GoOn, PostState
    <3>. HIDE DEF q
    <3>. QED
      BY <2>1, <3>1
  <2>5. ASSUME NEW x, GoOn(p, [p EXCEPT !.at = "copy", !.out = x])
        PROVE  \A y \in posts' : \E r \in posts : y.file = r.file /\ y.id = r.id
    <3> DEFINE q == [p EXCEPT !.at = "copy", !.out = x]
    <3>1. q.file = p.file /\ q.id = p.id /\ posts' \subseteq posts \union {q}
      BY <1>0, <2>5 DEF GoOn, PostState
    <3>. HIDE DEF q
    <3>. QED
      BY <2>1, <3>1
  <2>6. CASE GoOn(p, [p EXCEPT !.at = "remove"])
    <3> DEFINE q == [p EXCEPT !.at = "remove"]
    <3>1. q.file = p.file /\ q.id = p.id /\ posts' \subseteq posts \union {q}
      BY <1>0, <2>6 DEF GoOn, PostState
    <3>. HIDE DEF q
    <3>. QED
      BY <2>1, <3>1
  <2>. QED
    BY <2>2, <2>3, <2>4, <2>5, <2>6
    DEF Post, PostOpen, PostZip, PostCopy, PostRemove, PostList, PostDelete
<1>3. CASE \E f : f # Main /\ dir' = Unlink(dir, f)
  <2>1. /\ Main \in DOMAIN dir' <=> Main \in DOMAIN dir
        /\ Main \in DOMAIN dir => dir'[Main] = dir[Main]
        /\ \A f \in DOMAIN dir' : f \in DOMAIN dir /\ dir'[f] = dir[f]
    BY <1>3 DEF Unlink
  <2>. QED
    BY <1>1, <1>2, <2>1 DEF Stamped
<1>4. CASE dir' = dir
  BY <1>1, <1>2, <1>4 DEF Stamped
<1> DEFINE zip == GzipFile(p.file)
           out == IF zip \in DOMAIN dir THEN dir[zip] ELSE p.id
<1>5. CASE dir' = Put(dir, zip, out)
  <2>1. zip # Main /\ zip[2] = p.file
    BY <1>0, NameFacts
  <2>2. Stamped(p.file, out)
    BY <2>1 DEF Stamped
  <2>. HIDE DEF zip, out
  <2>3. /\ Main \in DOMAIN dir' <=> Main \in DOMAIN dir
        /\ Main \in DOMAIN dir => dir'[Main] = dir[Main]
        /\ \A f \in DOMAIN dir' : f # zip => f \in DOMAIN dir /\ dir'[f] = dir[f]
        /\ dir'[zip] = out
    BY <1>5, <2>1 DEF Put
  <2>4. \A t, i : Stamped(t, i)' => Stamped(t, i)
    BY <1>2, <2>1, <2>2, <2>3 DEF Stamped
  <2>. QED
    BY <1>1, <2>3, <2>4
<1>6. CASE PostRemove(p)
  <2>1. Backup(p.file) # Main
    BY <1>0, NameFacts
  <2>. QED
    BY <1>3, <1>4, <1>6, <2>1 DEF PostRemove
<1>7. CASE PostDelete(p)
  <2>1. PICK f \in p.list : dir' \in {dir, Unlink(dir, f)}
    BY <1>7 DEF PostDelete
  <2>2. f # Main
    BY <1>0, <1>7, <2>1, KindNames DEF ListInv, Types, PostState
  <2>. QED
    BY <1>3, <1>4, <2>1, <2>2
<1>. QED
  BY <1>4, <1>5, <1>6, <1>7 DEF Post, PostOpen, PostZip, PostCopy, PostList, diskVars

\* The lines of an empty file, and of one that got a line.
LEMMA LineSets ==
  /\ LinesOf(<<>>) = {}
  /\ \A s \in Seq(Line) : LinesOf(s) \subseteq Line
  /\ \A s \in Seq(Line), l \in Line : LinesOf(Append(s, l)) = LinesOf(s) \union {l}
<1>1. LinesOf(<<>>) = {}
  BY EmptySeq DEF LinesOf
<1>2. \A s \in Seq(Line) : LinesOf(s) \subseteq Line
  BY ElementOfSeq DEF LinesOf
<1>3. ASSUME NEW s \in Seq(Line), NEW l \in Line
      PROVE  LinesOf(Append(s, l)) = LinesOf(s) \union {l}
  <2>1. /\ Len(Append(s, l)) = Len(s) + 1 /\ Len(s) \in Nat
        /\ \A k \in 1..Len(s) : Append(s, l)[k] = s[k]
        /\ Append(s, l)[Len(s) + 1] = l
    BY AppendProperties, LenProperties
  <2>2. 1..(Len(s) + 1) = (1..Len(s)) \union {Len(s) + 1}
    BY <2>1
  <2>. QED
    BY <2>1, <2>2 DEF LinesOf
<1>. QED
  BY <1>1, <1>2, <1>3

\* Time, clock and numbers as numbers.
LEMMA Numbers ==
  ASSUME Types
  PROVE  /\ now \in Nat /\ backup \in Nat /\ rotatedTime \in Nat /\ fp \in Nat /\ event \in Nat
         /\ Len(logs) \in Nat /\ Len(accepted) \in Nat /\ Len(channel) \in Nat
         /\ KeepDays \in Nat /\ Time \subseteq Nat
         /\ \A l \in 1..Len(accepted) : accepted[l] \in Nat
         /\ \A i \in 1..Len(logs) : logs[i] \in Seq(Line) /\ LogLines(i) \subseteq Nat \ {0}
         /\ \A i \in DOMAIN archives : ArchLines(i) \subseteq Nat \ {0}
         /\ Main \in DOMAIN dir => dir[Main] \in 1..Len(logs)
<1>1. /\ now \in Time /\ backup \in Time /\ rotatedTime \in Time /\ Time \subseteq Nat
      /\ Line \subseteq Nat \ {0} /\ event \in Nat /\ accepted \in Seq(Time)
      /\ channel \in Seq(Line) /\ logs \in Seq(Seq(Line)) /\ fp \in 0..Len(logs)
  BY BoundAssumption DEF Types, ClockOK, FileOK, HandOK, CallOK, LogsOK, Time, Line
<1>2. Len(logs) \in Nat /\ Len(accepted) \in Nat /\ Len(channel) \in Nat
  BY <1>1, LenProperties
<1>3. \A l \in 1..Len(accepted) : accepted[l] \in Nat
  BY <1>1, ElementOfSeq
<1>4. \A i \in 1..Len(logs) : logs[i] \in Seq(Line)
  BY <1>1, ElementOfSeq
<1>5. \A s \in Seq(Line) : LinesOf(s) \subseteq Nat \ {0}
  BY <1>1, LineSets
<1>6. \A i \in DOMAIN archives : archives[i] \in Seq(Line)
  BY DEF Types, LogsOK
<1>7. Main \in DOMAIN dir => dir[Main] \in 1..Len(logs)
  BY NameFacts DEF Types, DirOK
<1>. QED
  BY <1>1, <1>2, <1>3, <1>4, <1>5, <1>6, <1>7, SettingAssumption DEF LogLines, ArchLines

\* How the lines in the files change: not at all, by an empty new file, or by
\* the line in hand at the end of the open file.
LEMMA NewFileLines ==
  ASSUME Types, CreateLog
  PROVE  /\ Len(logs') = Len(logs) + 1
         /\ \A i \in 1..Len(logs) : LogLines(i)' = LogLines(i)
         /\ LogLines(Len(logs))' = {}
         /\ \A i : ArchLines(i)' = ArchLines(i)
         /\ DOMAIN archives' = DOMAIN archives
         /\ fp' = Len(logs') /\ Main \in DOMAIN dir' /\ dir'[Main] = Len(logs')
<1>1. /\ Len(logs) \in Nat /\ Len(logs') = Len(logs) + 1
      /\ \A i \in 1..Len(logs) : logs'[i] = logs[i]
      /\ logs'[Len(logs) + 1] = <<>>
      /\ fp' = Len(logs) + 1 /\ archives' = archives
      /\ dir' = Put(dir, Main, Len(logs) + 1)
  BY LogsGrow DEF Types
<1>3. \A i \in 1..Len(logs) : LogLines(i)' = LogLines(i)
  BY <1>1 DEF LogLines
<1>4. LogLines(Len(logs))' = {}
  BY <1>1, LineSets DEF LogLines
<1>5. Main \in DOMAIN dir' /\ dir'[Main] = Len(logs) + 1
  BY <1>1 DEF Put
<1>. QED
  BY <1>1, <1>3, <1>4, <1>5 DEF ArchLines, LogLines

\* Writing adds the line in hand to the open file, or nothing.
LEMMA PutLineLines ==
  ASSUME Types, PutLine
  PROVE  /\ Len(logs') = Len(logs) /\ archives' = archives
         /\ \A i \in 1..Len(logs) : i # fp => logs'[i] = logs[i] /\ LogLines(i)' = LogLines(i)
         /\ fp # 0 => fp \in 1..Len(logs) /\ LogLines(fp)' \in {LogLines(fp), LogLines(fp) \union {event}}
         /\ logs' # logs => fp # 0 /\ LogLines(fp)' = LogLines(fp) \union {event}
<1>1. /\ logs \in Seq(Seq(Line)) /\ Len(logs) \in Nat /\ fp \in 0..Len(logs) /\ event \in Line
      /\ \A i \in 1..Len(logs) : logs[i] \in Seq(Line)
  BY Numbers DEF PutLine, Types, LogsOK, FileOK, HandOK, Line
<1>2. archives' = archives /\ fp' = fp
  BY DEF PutLine
<1>3. CASE logs' = logs
  BY <1>1, <1>2, <1>3 DEF LogLines
<1>4. CASE fp # 0 /\ logs' = [logs EXCEPT ![fp] = Append(logs[fp], event)]
  <2>1. fp \in 1..Len(logs) /\ logs[fp] \in Seq(Line)
    BY <1>1, <1>4
  <2>2. Append(logs[fp], event) \in Seq(Line)
    BY <1>1, <2>1, AppendProperties
  <2>3. /\ Len(logs') = Len(logs) /\ logs'[fp] = Append(logs[fp], event)
        /\ \A i \in 1..Len(logs) : i # fp => logs'[i] = logs[i]
    BY <1>1, <1>4, <2>1, <2>2, ExceptSeq
  <2>5. LogLines(fp)' = LogLines(fp) \union {event}
    BY <1>1, <1>2, <2>1, <2>3, LineSets DEF LogLines
  <2>. QED
    BY <1>2, <2>1, <2>3, <2>5 DEF LogLines
<1>. QED
  BY <1>3, <1>4 DEF PutLine

-----------------------------------------------------------------------------
(* Lines. *)

\* Steps that touch no line. Only the clock may go on.
LEMMA LineFrame ==
  ASSUME Full, UNCHANGED <<accepted, channel, event, logs, archives>>, now' = now \/ now' = now + 1
  PROVE  LineInv'
<1>1. \A l \in 1..Len(accepted) : accepted[l] <= now'
  BY Numbers DEF Full, LineInv
<1>. QED
  BY <1>1 DEF Full, LineInv, LogLines, ArchLines

\* A new, empty file keeps the order of the lines.
LEMMA LineCreate ==
  ASSUME Full, CreateLog, UNCHANGED <<accepted, channel, event, now>>
  PROVE  LineInv'
<1>1. /\ Len(logs) \in Nat /\ Len(logs') = Len(logs) + 1
      /\ \A i \in 1..Len(logs) : LogLines(i)' = LogLines(i)
      /\ \A i : ArchLines(i)' = ArchLines(i)
      /\ DOMAIN archives' = DOMAIN archives /\ DOMAIN archives \subseteq 1..Len(logs)
  BY NewFileLines, Numbers DEF Full, Types, LogsOK
<1>2. LogLines(Len(logs))' = {}
  BY NewFileLines DEF Full
<1>3. \A i \in 1..Len(logs') : i \in 1..Len(logs) \/ i = Len(logs')
  BY <1>1
<1>4. \A i \in 1..Len(logs') : i \in 1..Len(logs) \/ LogLines(i)' = {}
  BY <1>2, <1>3 DEF LogLines
<1>5. \A i \in 1..Len(logs') : \A l \in LogLines(i)' :
         l + Len(channel) <= Len(accepted) /\ (event # 0 => l < event)
  BY <1>1, <1>4 DEF Full, LineInv
<1>6. ASSUME NEW i \in 1..Len(logs'), NEW j \in 1..Len(logs'), i < j,
             NEW k \in LogLines(i)', NEW l \in LogLines(j)'
      PROVE  k < l
  BY <1>1, <1>4, <1>6 DEF Full, LineInv
<1>7. \A i \in DOMAIN archives' : ArchLines(i)' \subseteq LogLines(i)'
  BY <1>1 DEF Full, LineInv
<1>. QED
  BY <1>5, <1>6, <1>7 DEF Full, LineInv

\* The line in hand is younger than all that are stored.
LEMMA LinePut ==
  ASSUME Full, Daily, PutLine
  PROVE  LineInv'
<1>1. /\ Len(logs') = Len(logs) /\ archives' = archives /\ fp' = fp /\ event # 0 /\ event' = 0
      /\ \A i \in 1..Len(logs) : i # fp => LogLines(i)' = LogLines(i)
      /\ fp # 0 => fp = Len(logs) /\ LogLines(fp)' \in {LogLines(fp), LogLines(fp) \union {event}}
      /\ UNCHANGED <<accepted, channel, now>>
  <2>1. fp # 0 => fp = Len(logs)
    BY DEF Full, DailyInv, MainInv
  <2>2. now' = now
    BY FailTypes DEF PutLine, Full, Types
  <2>. QED
    BY <2>1, <2>2, PutLineLines DEF Full, Types, HandOK, PutLine, callVars
<1>2. /\ Len(logs) \in Nat /\ event \in Nat /\ Len(channel) \in Nat /\ Len(accepted) \in Nat
      /\ \A i \in 1..Len(logs) : LogLines(i) \subseteq Nat
      /\ DOMAIN archives \subseteq 1..Len(logs) /\ fp \in Nat
  BY Numbers DEF Full, Types, LogsOK
<1>3. \A i \in 1..Len(logs) : LogLines(i) \subseteq LogLines(i)' /\ LogLines(i)' \subseteq LogLines(i) \union {event}
  BY <1>1
<1>4. \A i \in 1..Len(logs) : i < Len(logs) => LogLines(i)' = LogLines(i)
  BY <1>1, <1>2
<1>5. \A i \in 1..Len(logs) : \A l \in LogLines(i)' : l + Len(channel) <= Len(accepted)
  BY <1>2, <1>3 DEF Full, LineInv
<1>6. ASSUME NEW i \in 1..Len(logs), NEW j \in 1..Len(logs), i < j,
             NEW k \in LogLines(i)', NEW l \in LogLines(j)'
      PROVE  k < l
  <2>1. k \in LogLines(i)
    BY <1>2, <1>4, <1>6
  <2>2. CASE l \in LogLines(j)
    BY <1>6, <2>1, <2>2 DEF Full, LineInv
  <2>3. CASE l = event
    BY <1>1, <2>1, <2>3 DEF Full, LineInv
  <2>. QED
    BY <1>3, <2>2, <2>3
<1>7. \A i \in DOMAIN archives' : ArchLines(i)' \subseteq LogLines(i)'
  BY <1>1, <1>2, <1>3 DEF Full, LineInv, ArchLines
<1>8. event' + Len(channel) <= Len(accepted)
  BY <1>1, <1>2 DEF Full, LineInv
<1>9. \A l \in 1..Len(accepted) : accepted[l] <= now
  BY DEF Full, LineInv
<1>. QED
  BY <1>1, <1>5, <1>6, <1>7, <1>8, <1>9 DEF LineInv

\* Accepted lines are younger, and leave the channel in order.
LEMMA LineCalls ==
  ASSUME Full, Write \/ TakeEvent \/ Crash
  PROVE  LineInv'
<1>. USE DEF clockVars, callVars, handVars, fileVars, diskVars
<1>1. /\ Len(accepted) \in Nat /\ Len(channel) \in Nat /\ event \in Nat /\ now \in Nat
      /\ \A l \in 1..Len(accepted) : accepted[l] \in Nat
      /\ \A i \in 1..Len(logs) : LogLines(i) \subseteq Nat
      /\ accepted \in Seq(Time) /\ channel \in Seq(Line) /\ now \in Time
      /\ LineInv /\ CloseInv
  BY Numbers DEF Full, Types, CallOK, ClockOK
<1>2. UNCHANGED <<logs, archives, now>>
  BY DEF Write, TakeEvent, Crash
<1>3. \A i : LogLines(i)' = LogLines(i) /\ ArchLines(i)' = ArchLines(i)
  BY <1>2 DEF LogLines, ArchLines
<1>4. CASE Write
  <2>1. event' = event /\ Len(accepted') = Len(accepted) + 1 /\ Len(channel') = Len(channel) + 1
    <3>1. Len(accepted) + 1 \in Line
      BY <1>1, <1>4, BoundAssumption DEF Write, Line
    <3>. QED
      BY <1>1, <1>4, <3>1, AppendProperties DEF Write
  <2>2. \A l \in 1..Len(accepted') : accepted'[l] <= now
    <3>1. accepted'[Len(accepted) + 1] = now /\ \A l \in 1..Len(accepted) : accepted'[l] = accepted[l]
      BY <1>1, <1>4, AppendProperties DEF Write
    <3>2. \A l \in 1..Len(accepted') : l \in 1..Len(accepted) \/ l = Len(accepted) + 1
      BY <1>1, <2>1
    <3>3. \A l \in 1..Len(accepted) : accepted[l] <= now
      BY <1>1 DEF LineInv
    <3>4. ASSUME NEW l \in 1..Len(accepted') PROVE accepted'[l] <= now
      <4>1. CASE l \in 1..Len(accepted)
        BY <3>1, <3>3, <4>1
      <4>2. CASE l = Len(accepted) + 1
        BY <1>1, <3>1, <4>2
      <4>. QED
        BY <3>2, <4>1, <4>2
    <3>. QED
      BY <3>4
  <2>3. event' + Len(channel') <= Len(accepted')
    BY <1>1, <2>1 DEF LineInv
  <2>4. ASSUME NEW i \in 1..Len(logs), NEW l \in LogLines(i)
        PROVE  l + Len(channel') <= Len(accepted') /\ (event # 0 => l < event)
    <3>1. l \in Nat /\ l + Len(channel) <= Len(accepted) /\ (event # 0 => l < event)
      BY <1>1 DEF LineInv
    <3>. QED
      BY <1>1, <2>1, <3>1
  <2>. QED
    BY <1>1, <1>2, <1>3, <2>1, <2>2, <2>3, <2>4 DEF LineInv
<1>5. CASE TakeEvent
  <2>1. /\ channel # <<>> /\ event' = Head(channel) /\ channel' = Tail(channel)
        /\ accepted' = accepted /\ event = 0
    BY <1>5 DEF TakeEvent, Full, Types, HandOK
  <2>2. Len(channel') = Len(channel) - 1 /\ Len(channel) > 0 /\ event' \in Nat
    <3>0. Head(channel) \in Line
      BY <1>1, <2>1, HeadTailProperties
    <3>1. Head(channel) \in Nat
      BY <3>0, BoundAssumption DEF Line
    <3>. QED
      BY <1>1, <2>1, <3>1, HeadTailProperties, EmptySeq
  <2>3. event' + Len(channel) = Len(accepted) + 1
    BY <1>1, <2>1, <2>2 DEF CloseInv
  <2>4. event' + Len(channel') <= Len(accepted')
    BY <1>1, <2>1, <2>2, <2>3
  <2>5. ASSUME NEW i \in 1..Len(logs), NEW l \in LogLines(i)
        PROVE  l + Len(channel') <= Len(accepted') /\ l < event'
    <3>1. l \in Nat /\ l + Len(channel) <= Len(accepted)
      BY <1>1 DEF LineInv
    <3>. QED
      BY <1>1, <2>1, <2>2, <2>3, <3>1
  <2>. QED
    BY <1>1, <1>2, <1>3, <2>1, <2>4, <2>5 DEF LineInv
<1>6. CASE Crash
  <2>1. accepted' = accepted /\ event' = 0 /\ Len(channel') = 0
    BY <1>6, EmptySeq DEF Crash
  <2>2. ASSUME NEW i \in 1..Len(logs), NEW l \in LogLines(i)
        PROVE  l + 0 <= Len(accepted)
    <3>1. l \in Nat /\ l + Len(channel) <= Len(accepted)
      BY <1>1 DEF LineInv
    <3>. QED
      BY <1>1, <3>1
  <2>. QED
    BY <1>1, <1>2, <1>3, <2>1, <2>2 DEF LineInv
<1>. QED
  BY <1>4, <1>5, <1>6

\* An archive is emptied, or gets the lines of the file it is of.
LEMMA LinePost ==
  ASSUME Full, Daily, NEW p \in posts, Post(p)
  PROVE  LineInv'
<1>1. UNCHANGED <<now, accepted, channel, event, logs>>
  BY PostNames
<1>2. CASE archives' = archives
  BY <1>1, <1>2, LineFrame
<1>3. \A i : LogLines(i)' = LogLines(i)
  BY <1>1 DEF LogLines
<1>4. SUFFICES \A i \in DOMAIN archives' : ArchLines(i)' \subseteq LogLines(i)
  BY <1>1, <1>3 DEF Full, LineInv
<1>5. ASSUME NEW x, archives' = Put(archives, x, <<>>)
      PROVE  \A i \in DOMAIN archives' : ArchLines(i)' \subseteq LogLines(i)
  <2>1. /\ DOMAIN archives' = DOMAIN archives \union {x} /\ archives'[x] = <<>>
        /\ \A i \in DOMAIN archives : i # x => archives'[i] = archives[i]
    BY <1>5 DEF Put
  <2>. QED
    BY <2>1, LineSets DEF ArchLines, Full, LineInv
<1>6. CASE archives' = [archives EXCEPT ![p.out] = logs[p.in]] /\ p.at = "copy"
  <2>1. p.in = p.id /\ p.out = p.id
    BY <1>6 DEF Full, DailyInv, ZipInv
  <2>. QED
    BY <1>6, <2>1 DEF ArchLines, LogLines, Full, LineInv
<1>. QED
  <2>1. CASE archives' = archives
    BY <1>2, <1>3, <2>1 DEF LineInv
  <2>2. CASE PostZip(p)
    <3>1. archives' = archives \/ \E x : archives' = Put(archives, x, <<>>)
      BY <2>2 DEF PostZip
    <3>. QED
      BY <1>5, <2>1, <3>1
  <2>3. CASE PostCopy(p)
    BY <1>6, <2>1, <2>3 DEF PostCopy
  <2>. QED
    BY <2>1, <2>2, <2>3 DEF Post, PostOpen, PostRemove, PostList, PostDelete, diskVars

\* Every step keeps the lines in order.
LEMMA StepLine ==
  ASSUME Full, Daily, [Next]_vars PROVE LineInv'
<1>. USE DEF clockVars, callVars, handVars, fileVars, diskVars
<1>1. CASE NewLogger \/ RotateCreate
  <2>1. UNCHANGED <<accepted, channel, event, now>>
    BY <1>1, FailTypes DEF NewLogger, RotateCreate, Full, Types
  <2>. QED
    BY <1>1, <2>1, LineCreate, LineFrame DEF NewLogger, RotateCreate
<1>2. CASE PutLine
  BY <1>2, LinePut
<1>3. CASE Write \/ TakeEvent \/ Crash
  BY <1>3, LineCalls
<1>4. CASE Tick \/ CloseStart \/ CloseFinish \/ SeeDone \/ Drained \/ CheckRotate
  BY <1>4, LineFrame DEF Tick, CloseStart, CloseFinish, SeeDone, Drained, CheckRotate
<1>5. CASE RotateClose \/ RotateRename \/ MarkRotated
  <2>1. now' = now
    BY <1>5, FailTypes DEF RotateClose, RotateRename, MarkRotated, Full, Types
  <2>. QED
    BY <1>5, <2>1, LineFrame DEF RotateClose, RotateRename, MarkRotated
<1>6. CASE \E p \in posts : Post(p)
  BY <1>6, LinePost
<1>7. CASE UNCHANGED vars
  BY <1>7, LineFrame DEF vars
<1>. QED
  BY <1>1, <1>2, <1>3, <1>4, <1>5, <1>6, <1>7, NextCases DEF Process, Calls, Hands, Files

-----------------------------------------------------------------------------
(* The log file, and the times in names. *)

\* Every step keeps the log file the one created last.
LEMMA StepMain ==
  ASSUME Full, Daily, [Next]_vars PROVE MainInv'
<1>. USE DEF clockVars, callVars, handVars, fileVars, diskVars
<1>1. Types /\ MainInv /\ Len(logs) \in Nat /\ fp \in Nat
  BY Numbers DEF Full, DailyInv
<1>2. ASSUME dir' = dir, Len(logs') = Len(logs), fp' = fp \/ fp' = 0,
             worker' \in {"off", "rename", "create"} => fp' = 0,
             worker' = "create" => Main \notin DOMAIN dir
      PROVE  MainInv'
  BY <1>1, <1>2 DEF MainInv
<1>3. CASE Tick \/ Write \/ CloseStart \/ CloseFinish \/ TakeEvent \/ SeeDone \/ Drained
           \/ CheckRotate \/ MarkRotated \/ RotateClose \/ Crash \/ UNCHANGED vars
  BY <1>1, <1>2, <1>3
  DEF Tick, Write, CloseStart, CloseFinish, TakeEvent, SeeDone, Drained, CheckRotate,
      MarkRotated, RotateClose, Crash, vars, MainInv
<1>4. CASE PutLine
  BY <1>1, <1>2, <1>4, PutLineLines DEF PutLine
<1>5. ASSUME CreateLog, worker' \notin {"off", "rename", "create"} PROVE MainInv'
  <2>1. fp' = Len(logs') /\ Main \in DOMAIN dir' /\ dir'[Main] = Len(logs')
    BY <1>1, <1>5, NewFileLines
  <2>. QED
    BY <1>5, <2>1 DEF MainInv
<1>6. CASE NewLogger
  BY <1>1, <1>5, <1>6 DEF NewLogger, MainInv
<1>7. CASE RotateCreate
  BY <1>1, <1>2, <1>5, <1>7 DEF RotateCreate
<1>8. CASE RotateRename
  <2>1. CASE Renamed
    BY <1>1, <1>8, <2>1, RenamedStamps DEF RotateRename, MainInv, Renamed
  <2>2. CASE ~Renamed
    <3>1. /\ UNCHANGED <<dir, logs, fp>> /\ worker = "rename"
          /\ worker' = "put" \/ (worker' = "create" /\ Main \notin DOMAIN dir)
      BY <1>8, <2>2 DEF RotateRename, Renamed
    <3>. QED
      BY <1>1, <1>2, <3>1 DEF MainInv
  <2>. QED
    BY <2>1, <2>2
<1>9. CASE \E p \in posts : Post(p)
  <2>1. /\ UNCHANGED <<worker, fp, logs>>
        /\ Main \in DOMAIN dir' <=> Main \in DOMAIN dir
        /\ Main \in DOMAIN dir => dir'[Main] = dir[Main]
    BY <1>9, PostNames
  <2>. QED
    BY <1>1, <2>1 DEF MainInv
<1>. QED
  BY <1>3, <1>4, <1>6, <1>7, <1>8, <1>9, NextCases DEF Process, Calls, Hands, Files

\* Names keep their times where no file is renamed.
LEMMA NamesKept ==
  ASSUME Full, Types', now <= now',
         \A t, i : Stamped(t, i)' => Stamped(t, i),
         Len(logs) <= Len(logs'), Main \in DOMAIN dir' => Main \in DOMAIN dir \/ Len(logs) < Len(logs'),
         \/ worker' = "off" \/ backup' = now
         \/ backup' = backup /\ worker # "off" /\ (worker = "create" => worker' = "create")
  PROVE  NameInv'
<1>1. NameInv /\ Types /\ now \in Nat /\ now' \in Nat /\ backup \in Nat /\ Len(logs) \in Nat
      /\ Len(logs') \in Nat /\ Time \subseteq Nat
  <2>1. now' \in Nat /\ Len(logs') \in Nat
    BY BoundAssumption, LenProperties DEF Types, ClockOK, LogsOK, Time
  <2>. QED
    BY <2>1, Numbers DEF Full, DailyInv
<1>2. ASSUME NEW t \in Time, NEW i \in Nat, Stamped(t, i)'
      PROVE  /\ t < now'
             /\ worker' # "off" => t < backup' \/ (worker' = "create" /\ t = backup')
             /\ Main \in DOMAIN dir' => i < Len(logs')
  <2>1. Stamped(t, i) /\ t < now /\ i <= Len(logs)
    BY <1>1, <1>2, StampedFiles DEF NameInv
  <2>2. worker # "off" => t < backup \/ (worker = "create" /\ t = backup)
    BY <1>1, <2>1 DEF NameInv
  <2>3. Main \in DOMAIN dir => i < Len(logs)
    BY <1>1, <2>1 DEF NameInv
  <2>4. t < now' /\ (Main \in DOMAIN dir' => i < Len(logs'))
    BY <1>1, <2>1, <2>3
  <2>5. worker' # "off" => t < backup' \/ (worker' = "create" /\ t = backup')
    BY <2>1, <2>2
  <2>. QED
    BY <2>4, <2>5
<1>3. \A t, u \in Time, i, j \in Nat : Stamped(t, i)' /\ Stamped(u, j)' =>
        (t < u => i < j) /\ (t = u => i = j)
  BY <1>1 DEF NameInv
<1>. QED
  BY <1>2, <1>3 DEF NameInv, Stamped

\* Every step names files in the order of their creation, with times that have passed.
LEMMA StepName ==
  ASSUME Full, Daily, [Next]_vars PROVE NameInv'
<1>. USE DEF clockVars, callVars, handVars, fileVars, diskVars
<1>1. Types /\ Types' /\ NameInv /\ MainInv /\ TimeInv
  BY StepTypes DEF Full, DailyInv
<1>2. /\ now \in Nat /\ now' \in Nat /\ Len(logs) \in Nat /\ backup \in Nat /\ Time \subseteq Nat
      /\ dir[Main] \in Nat \/ Main \notin DOMAIN dir
  <2>1. now' \in Nat
    BY <1>1, BoundAssumption DEF Types, ClockOK, Time
  <2>. QED
    BY <1>1, <2>1, Numbers
<1>3. ASSUME now' = now \/ now' = now + 1, MainOnly, Len(logs') = Len(logs),
             Main \in DOMAIN dir' => Main \in DOMAIN dir,
             \/ worker' = "off" \/ backup' = now
             \/ backup' = backup /\ worker # "off" /\ (worker = "create" => worker' = "create")
      PROVE  NameInv'
  <2>1. \A t, i : Stamped(t, i)' => Stamped(t, i)
    BY <1>3, MainOnlyStamps
  <2>2. now <= now' /\ Len(logs) <= Len(logs')
    BY <1>2, <1>3
  <2>. QED
    BY <1>1, <1>3, <2>1, <2>2, NamesKept
<1>4. CASE Tick \/ Write \/ CloseStart \/ CloseFinish \/ TakeEvent \/ SeeDone \/ Drained
           \/ CheckRotate \/ Crash
  <2>1. MainOnly
    BY <1>4 DEF MainOnly, Tick, Write, CloseStart, CloseFinish, TakeEvent, SeeDone, Drained,
                CheckRotate, Crash
  <2>2. CASE worker = "off"
    <3>1. Tick
      BY <1>4, <2>2 DEF Write, CloseStart, CloseFinish, TakeEvent, SeeDone, Drained, CheckRotate, Crash
    <3>2. /\ now' = now + 1 /\ worker' = "off"
          /\ UNCHANGED <<dir, logs>>
      BY <2>2, <3>1 DEF Tick
    <3>. QED
      BY <1>3, <2>1, <3>2
  <2>3. CASE worker # "off"
    <3>1. /\ UNCHANGED <<dir, logs>>
          /\ now' = now \/ now' = now + 1
          /\ worker' = "off" \/ (backup' = backup /\ (worker = "create" => worker' = "create"))
      BY <1>4, <2>3 DEF Tick, Write, CloseStart, CloseFinish, TakeEvent, SeeDone, Drained, CheckRotate, Crash
    <3>. QED
      BY <1>3, <2>1, <2>3, <3>1
  <2>. QED
    BY <2>2, <2>3
<1>5. CASE MarkRotated \/ RotateClose \/ PutLine
  <2>1. now' = now /\ MainOnly
    BY <1>1, <1>5, FailTypes DEF Types, MarkRotated, RotateClose, PutLine, MainOnly
  <2>2. Len(logs') = Len(logs)
    BY <1>1, <1>5, PutLineLines DEF MarkRotated, RotateClose
  <2>3. dir' = dir /\ backup' = backup /\ worker \notin {"off", "create"}
    BY <1>5 DEF MarkRotated, RotateClose, PutLine
  <2>. QED
    BY <1>3, <2>1, <2>2, <2>3
<1>6. CASE NewLogger \/ RotateCreate
  <2>1. now' = now /\ MainOnly /\ backup' = now
    BY <1>1, <1>6, FailTypes DEF Types, NewLogger, RotateCreate, MainOnly, CreateLog, Put
  <2>2. CASE UNCHANGED <<dir, logs>>
    BY <1>3, <2>1, <2>2
  <2>3. CASE CreateLog
    <3>1. Len(logs') = Len(logs) + 1
      BY <1>1, <2>3, NewFileLines
    <3>2. \A t, i : Stamped(t, i)' => Stamped(t, i)
      BY <2>1, MainOnlyStamps
    <3>3. now <= now' /\ Len(logs) <= Len(logs') /\ Len(logs) < Len(logs')
      BY <1>2, <2>1, <3>1
    <3>. QED
      BY <1>1, <2>1, <3>2, <3>3, NamesKept
  <2>. QED
    BY <1>6, <2>2, <2>3 DEF NewLogger, RotateCreate
<1>7. CASE RotateRename /\ ~Renamed
  <2>1. now' = now
    BY <1>1, <1>7, FailTypes DEF Types, RotateRename
  <2>2. UNCHANGED <<dir, logs, backup, posts>> /\ worker = "rename"
    BY <1>7 DEF RotateRename, Renamed
  <2>. QED
    BY <1>3, <2>1, <2>2 DEF MainOnly
<1>8. CASE RotateRename /\ Renamed
  <2>1. now' = now /\ UNCHANGED <<logs, backup>> /\ worker = "rename" /\ worker' = "create"
    <3>1. now' = now
      BY <1>1, <1>8, FailTypes DEF Types, RotateRename
    <3>2. dir' # dir
      BY <1>1, <1>8, RenamedStamps DEF Renamed
    <3>. QED
      BY <1>8, <3>1, <3>2 DEF RotateRename, Renamed
  <2>2. backup < now /\ Main \in DOMAIN dir /\ dir[Main] = Len(logs)
    BY <1>1, <1>8, <2>1 DEF TimeInv, MainInv, Renamed
  <2>3. Main \notin DOMAIN dir' /\ \A t, i : Stamped(t, i)' => Stamped(t, i) \/ (t = backup /\ i = Len(logs))
    BY <1>1, <1>8, <2>2, RenamedStamps
  <2>4. \A t \in Time, i \in Nat : Stamped(t, i) => t < now /\ t < backup /\ i < Len(logs)
    BY <1>1, <2>1, <2>2 DEF NameInv
  <2>5. \A t \in Time, i \in Nat : Stamped(t, i)' => t < now /\ (t < backup \/ t = backup)
    BY <2>2, <2>3, <2>4
  <2>6. ASSUME NEW t \in Time, NEW u \in Time, NEW i \in Nat, NEW j \in Nat,
               Stamped(t, i)', Stamped(u, j)'
        PROVE  (t < u => i < j) /\ (t = u => i = j)
    <3>1. CASE Stamped(t, i) /\ Stamped(u, j)
      BY <1>1, <3>1 DEF NameInv
    <3>2. CASE t = backup /\ i = Len(logs)
      BY <1>2, <2>3, <2>4, <2>6, <3>2
    <3>3. CASE u = backup /\ j = Len(logs)
      BY <1>2, <2>3, <2>4, <2>6, <3>3
    <3>. QED
      BY <2>3, <2>6, <3>1, <3>2, <3>3
  <2>. QED
    BY <2>1, <2>3, <2>5, <2>6 DEF NameInv, Stamped
<1>9. CASE \E p \in posts : Post(p)
  <2>1. /\ UNCHANGED <<now, worker, backup, logs>>
        /\ Main \in DOMAIN dir' <=> Main \in DOMAIN dir
        /\ \A t, i : Stamped(t, i)' => Stamped(t, i)
    BY <1>9, PostNames
  <2>2. now <= now' /\ Len(logs) <= Len(logs')
    BY <1>2, <2>1
  <2>. QED
    BY <1>1, <2>1, <2>2, NamesKept
<1>10. CASE UNCHANGED vars
  <2>1. UNCHANGED <<now, worker, backup, logs, dir, posts>>
    BY <1>10 DEF vars
  <2>. QED
    BY <1>1, <2>1 DEF NameInv, Stamped
<1>. QED
  BY <1>4, <1>5, <1>6, <1>7, <1>8, <1>9, <1>10, NextCases DEF Process, Calls, Hands, Files

\* Every step keeps the times of the rule and of the next backup.
LEMMA StepTime ==
  ASSUME Full, Daily, [Next]_vars PROVE TimeInv'
<1>. USE DEF clockVars, callVars, handVars, fileVars, diskVars
<1>1. Types /\ TimeInv /\ MainInv
  BY DEF Full, DailyInv
<1>2. now \in Nat /\ backup \in Nat /\ rotatedTime \in Nat
  BY <1>1, Numbers
<1>3. CASE Tick
  <2>1. /\ now' = now + 1
        /\ worker = "mark" => backup = now
        /\ UNCHANGED <<worker, fp, backup, rotatedTime, dir>>
    BY <1>3 DEF Tick
  <2>2. now + 1 <= backup + 1 \/ worker # "mark"
    BY <1>2, <2>1
  <2>. QED
    BY <1>1, <1>2, <2>1, <2>2 DEF TimeInv
<1>4. CASE NewLogger
  <2>1. now' = now /\ backup' = now /\ rotatedTime' = now /\ worker' = "select"
    BY <1>4 DEF NewLogger
  <2>. QED
    BY <1>2, <2>1 DEF TimeInv
<1>5. CASE Crash
  BY <1>2, <1>5 DEF Crash, TimeInv
<1>6. CASE Write \/ CloseStart \/ CloseFinish \/ TakeEvent \/ SeeDone \/ Drained
  BY <1>1, <1>6 DEF Write, CloseStart, CloseFinish, TakeEvent, SeeDone, Drained, TimeInv
<1>7. CASE CheckRotate
  <2>1. /\ UNCHANGED <<now, fp, backup, rotatedTime, dir>> /\ worker = "write"
        /\ worker' \in {"rotate", "put"}
        /\ worker' = "rotate" => now # rotatedTime
    BY <1>7 DEF CheckRotate, ShallRotate
  <2>. QED
    BY <1>1, <1>2, <2>1 DEF TimeInv
<1>8. CASE RotateClose \/ (RotateRename /\ ~Renamed) \/ PutLine
  <2>1. now' = now
    BY <1>1, <1>8, FailTypes DEF Types, RotateClose, RotateRename, PutLine
  <2>2. /\ UNCHANGED <<backup, rotatedTime, dir>> /\ worker \in {"rotate", "rename", "put"}
        /\ worker' = "rename" => worker = "rotate"
        /\ worker' \in {"rename", "create", "put", "select"} /\ fp' \in {0, fp}
    BY <1>8 DEF RotateClose, RotateRename, Renamed, PutLine
  <2>. QED
    BY <1>1, <1>2, <2>1, <2>2 DEF TimeInv
<1>9. CASE RotateRename /\ Renamed
  <2>1. now' = now
    BY <1>1, <1>9, FailTypes DEF Types, RotateRename
  <2>2. Main \notin DOMAIN dir'
    BY <1>1, <1>9, RenamedStamps
  <2>3. UNCHANGED <<fp, backup, rotatedTime>> /\ worker = "rename" /\ worker' \in {"create", "put"}
    BY <1>9 DEF RotateRename
  <2>. QED
    BY <1>1, <1>2, <2>1, <2>2, <2>3 DEF TimeInv
<1>10. CASE RotateCreate
  <2>1. now' = now
    BY <1>1, <1>10, FailTypes DEF Types, RotateCreate
  <2>2. fp = 0 /\ Main \notin DOMAIN dir
    BY <1>1, <1>10 DEF RotateCreate, MainInv
  <2>3. /\ backup' = now /\ rotatedTime' = rotatedTime
        /\ worker' = "mark" \/ (worker' = "put" /\ UNCHANGED <<fp, dir>>)
    BY <1>10 DEF RotateCreate
  <2>. QED
    BY <1>1, <1>2, <2>1, <2>2, <2>3 DEF TimeInv
<1>11. CASE MarkRotated
  <2>1. /\ UNCHANGED <<now, backup, fp, dir>> /\ rotatedTime' = now
        /\ worker = "mark" /\ worker' = "put"
    BY <1>11 DEF MarkRotated
  <2>. QED
    BY <1>1, <1>2, <2>1 DEF TimeInv
<1>12. CASE \E p \in posts : Post(p)
  <2>1. /\ UNCHANGED <<now, worker, fp, backup, rotatedTime>>
        /\ Main \in DOMAIN dir' <=> Main \in DOMAIN dir
    BY <1>12, PostNames
  <2>. QED
    BY <1>1, <2>1 DEF TimeInv
<1>13. CASE UNCHANGED vars
  BY <1>1, <1>13 DEF vars, TimeInv
<1>. QED
  BY <1>3, <1>4, <1>5, <1>6, <1>7, <1>8, <1>9, <1>10, <1>11, <1>12, <1>13, NextCases
  DEF Process, Calls, Hands, Files

-----------------------------------------------------------------------------
(* The age of lines. *)

\* Steps after which every file has at most the lines it had, and the names of
\* files and of the next backup show times that are not earlier, keep the age
\* of lines.
LEMMA AgeKept ==
  ASSUME Full, Types',
         \A t, i : Stamped(t, i)' => Stamped(t, i),
         \A i \in 1..Len(logs) : LogLines(i)' = LogLines(i),
         \A l \in 1..Len(accepted) : accepted'[l] = accepted[l],
         \/ worker' = "off" \/ Main \notin DOMAIN dir'
         \/ LogLines(Len(logs))' = {}
         \/ Len(logs') = Len(logs) /\ backup' = backup /\ worker # "off" /\ Main \in DOMAIN dir
         \/ Len(logs') = Len(logs) /\ backup' = now,
         fp' # 0 /\ worker' = "put" => accepted'[event'] <= backup' + 1
  PROVE  AgeInv'
<1>1. Types /\ AgeInv /\ LineInv /\ now \in Nat /\ Len(logs) \in Nat
      /\ Len(accepted) \in Nat /\ Len(channel) \in Nat
  BY Numbers DEF Full, DailyInv
<1>2. \A i \in 1..Len(logs) : \A l \in LogLines(i) :
        l \in 1..Len(accepted) /\ accepted[l] \in Nat /\ accepted[l] <= now
  <2>1. ASSUME NEW i \in 1..Len(logs), NEW l \in LogLines(i)
        PROVE  l \in 1..Len(accepted)
    <3>1. l \in Nat \ {0} /\ l + Len(channel) <= Len(accepted)
      BY <1>1, Numbers DEF LineInv
    <3>. QED
      BY <1>1, <3>1
  <2>. QED
    BY <1>1, <2>1, Numbers DEF LineInv
<1>3. ASSUME NEW t \in Time, NEW i \in Nat, Stamped(t, i)', NEW l \in LogLines(i)'
      PROVE  accepted'[l] <= t + 1
  <2>1. Stamped(t, i) /\ i \in 1..Len(logs)
    BY <1>1, <1>3, StampedFiles
  <2>2. l \in LogLines(i)
    BY <1>3, <2>1 DEF LogLines
  <2>. QED
    BY <1>1, <1>2, <2>1, <2>2 DEF AgeInv
<1>4. ASSUME Main \in DOMAIN dir', worker' # "off", NEW l \in LogLines(Len(logs))'
      PROVE  accepted'[l] <= backup' + 1
  <2>1. CASE Len(logs') = Len(logs)
    <3>1. Len(logs') \in 1..Len(logs')
      <4>1. dir'[Main] \in 1..Len(logs') /\ Len(logs') \in Nat
        BY <1>4, LenProperties, NameFacts DEF Types, DirOK, LogsOK
      <4>. QED
        BY <4>1
    <3>2. Len(logs) \in 1..Len(logs)
      BY <2>1, <3>1
    <3>3. l \in LogLines(Len(logs))
      BY <1>4, <2>1, <3>2 DEF LogLines
    <3>4. l \in 1..Len(accepted) /\ accepted[l] \in Nat /\ accepted[l] <= now /\ accepted'[l] = accepted[l]
      BY <1>2, <3>2, <3>3
    <3>5. CASE backup' = now
      BY <1>1, <3>4, <3>5
    <3>6. CASE backup' = backup /\ worker # "off" /\ Main \in DOMAIN dir
      BY <1>1, <3>3, <3>4, <3>6 DEF AgeInv
    <3>. QED
      BY <1>4, <3>5, <3>6
  <2>2. CASE LogLines(Len(logs))' = {}
    BY <1>4, <2>2
  <2>. QED
    BY <1>4, <2>1, <2>2
<1>. QED
  BY <1>3, <1>4 DEF AgeInv

\* Every step keeps the age of lines.
LEMMA StepAge ==
  ASSUME Full, Daily, [Next]_vars PROVE AgeInv'
<1>. USE DEF clockVars, callVars, handVars, fileVars, diskVars
<1>1. /\ Types /\ Types' /\ MainInv /\ AgeInv /\ LineInv /\ TimeInv /\ NameInv /\ Len(logs) \in Nat
      /\ Len(accepted) \in Nat /\ Len(channel) \in Nat /\ event \in Nat
      /\ now \in Nat /\ backup \in Nat /\ rotatedTime \in Nat
  BY StepTypes, Numbers DEF Full, DailyInv
<1>2. event # 0 => event \in 1..Len(accepted) /\ accepted[event] \in Nat /\ accepted[event] <= now
  <2>1. event # 0 => event \in 1..Len(accepted)
    BY <1>1 DEF LineInv
  <2>. QED
    BY <1>1, <2>1, Numbers DEF LineInv
<1>3. worker = "put" => event # 0
  BY <1>1 DEF Types, HandOK
<1>4. ASSUME UNCHANGED <<dir, logs, accepted>>, posts' \subseteq posts,
             worker' = "off" \/ (worker # "off" /\ backup' = backup),
             fp' # 0 /\ worker' = "put" => accepted[event'] <= backup + 1 /\ worker # "off"
      PROVE  AgeInv'
  <2>1. \A t, i : Stamped(t, i)' => Stamped(t, i)
    BY <1>4, MainOnlyStamps DEF MainOnly
  <2>2. \A i \in 1..Len(logs) : LogLines(i)' = LogLines(i)
    BY <1>4 DEF LogLines
  <2>3. fp' # 0 /\ worker' = "put" => accepted'[event'] <= backup' + 1
    BY <1>4
  <2>. QED
    BY <1>1, <1>4, <2>1, <2>2, <2>3, AgeKept
<1>5. CASE Tick \/ CloseStart \/ CloseFinish \/ TakeEvent \/ SeeDone \/ Drained \/ Crash
  <2>1. /\ UNCHANGED <<dir, logs, accepted>> /\ posts' \subseteq posts
        /\ worker' = "off" \/ (worker # "off" /\ backup' = backup)
        /\ worker' = "put" => worker = "put" /\ event' = event
        /\ fp' # 0 => fp' = fp
    BY <1>5 DEF Tick, CloseStart, CloseFinish, TakeEvent, SeeDone, Drained, Crash
  <2>. QED
    BY <1>1, <1>4, <2>1 DEF AgeInv
<1>6. CASE CheckRotate
  <2>1. /\ UNCHANGED <<dir, logs, accepted, posts, backup, event, fp, now>>
        /\ worker = "write"
        /\ worker' = "put" => now = rotatedTime
    BY <1>6 DEF CheckRotate, ShallRotate
  <2>2. event # 0
    BY <1>1, <2>1 DEF Types, HandOK
  <2>3. fp # 0 => rotatedTime <= backup + 1
    BY <1>1, <2>1 DEF TimeInv
  <2>4. fp # 0 /\ worker' = "put" => accepted[event] <= backup + 1
    BY <1>1, <1>2, <2>1, <2>2, <2>3
  <2>. QED
    BY <1>4, <2>1, <2>4
<1>7. CASE RotateClose
  BY <1>4, <1>7 DEF RotateClose
<1>8. CASE MarkRotated
  <2>1. /\ UNCHANGED <<dir, logs, accepted, posts, backup, event, fp, now>>
        /\ worker = "mark"
    BY <1>8 DEF MarkRotated
  <2>2. event # 0 /\ now <= backup + 1
    BY <1>1, <2>1 DEF Types, HandOK, TimeInv
  <2>3. accepted[event] <= backup + 1
    BY <1>1, <1>2, <2>2
  <2>. QED
    BY <1>4, <2>1, <2>3
<1>9. CASE RotateRename /\ ~Renamed
  <2>1. UNCHANGED <<dir, logs, accepted, posts, backup, event, fp>> /\ worker = "rename"
    BY <1>9 DEF RotateRename, Renamed
  <2>2. fp = 0
    BY <1>1, <2>1 DEF MainInv
  <2>. QED
    BY <1>4, <2>1, <2>2
<1>10. CASE RotateRename /\ Renamed
  <2>1. /\ UNCHANGED <<logs, accepted, backup, event, fp>> /\ worker = "rename"
        /\ Main \in DOMAIN dir
    BY <1>10 DEF RotateRename, Renamed
  <2>2. fp = 0 /\ dir[Main] = Len(logs)
    BY <1>1, <2>1 DEF MainInv
  <2>3. /\ Main \notin DOMAIN dir'
        /\ \A t, i : Stamped(t, i)' => Stamped(t, i) \/ (t = backup /\ i = Len(logs))
    BY <1>1, <1>10, <2>2, RenamedStamps
  <2>4. \A i : LogLines(i)' = LogLines(i)
    BY <2>1 DEF LogLines
  <2>5. \A l \in LogLines(Len(logs)) : accepted[l] <= backup + 1
    BY <1>1, <2>1 DEF AgeInv
  <2>6. ASSUME NEW t \in Time, NEW i \in Nat, Stamped(t, i)', NEW l \in LogLines(i)
        PROVE  accepted[l] <= t + 1
    <3>1. CASE Stamped(t, i)
      BY <1>1, <2>6, <3>1 DEF AgeInv
    <3>2. CASE t = backup /\ i = Len(logs)
      BY <2>5, <2>6, <3>2
    <3>. QED
      BY <2>3, <2>6, <3>1, <3>2
  <2>. QED
    BY <2>1, <2>2, <2>3, <2>4, <2>6 DEF AgeInv, Stamped
<1>11. CASE NewLogger \/ RotateCreate
  <2>1. /\ backup' = now /\ accepted' = accepted
        /\ MainOnly
        /\ CreateLog \/ (UNCHANGED <<dir, logs>> /\ (worker' = "put" => fp' = fp /\ worker = "create"))
        /\ CreateLog => worker' # "put"
    BY <1>11 DEF NewLogger, RotateCreate, MainOnly, CreateLog, Put
  <2>2. \A t, i : Stamped(t, i)' => Stamped(t, i)
    BY <2>1, MainOnlyStamps
  <2>3. worker' = "put" => fp' = 0
    BY <1>1, <2>1 DEF MainInv
  <2>4. CASE CreateLog
    <3>1. LogLines(Len(logs))' = {} /\ \A i \in 1..Len(logs) : LogLines(i)' = LogLines(i)
      BY <1>1, <2>4, NewFileLines
    <3>. QED
      BY <1>1, <2>1, <2>2, <2>3, <3>1, AgeKept
  <2>5. CASE UNCHANGED <<dir, logs>>
    <3>1. Len(logs') = Len(logs) /\ \A i \in 1..Len(logs) : LogLines(i)' = LogLines(i)
      BY <2>5 DEF LogLines
    <3>. QED
      BY <1>1, <2>1, <2>2, <2>3, <3>1, AgeKept
  <2>. QED
    BY <2>1, <2>4, <2>5
<1>12. CASE Write
  <2>1. /\ UNCHANGED <<dir, logs, posts, backup, event, fp, worker>> /\ worker # "off"
        /\ accepted' = Append(accepted, now) /\ Len(accepted) < MaxLines
    BY <1>12 DEF Write
  <2>2. \A l \in 1..Len(accepted) : accepted'[l] = accepted[l]
    BY <1>1, <2>1, AppendProperties DEF Types, CallOK, ClockOK
  <2>3. \A t, i : Stamped(t, i)' => Stamped(t, i)
    BY <2>1 DEF Stamped
  <2>4. Len(logs') = Len(logs) /\ \A i \in 1..Len(logs) : LogLines(i)' = LogLines(i)
    BY <2>1 DEF LogLines
  <2>5. fp' # 0 /\ worker' = "put" => accepted'[event'] <= backup' + 1
    BY <1>1, <1>2, <1>3, <2>1, <2>2 DEF AgeInv
  <2>6. Main \in DOMAIN dir' => Main \in DOMAIN dir
    BY <2>1
  <2>. QED
    BY <1>1, <2>1, <2>2, <2>3, <2>4, <2>5, <2>6, AgeKept
<1>13. CASE PutLine
  <2>1. /\ UNCHANGED <<dir, accepted, posts, backup, fp>> /\ worker = "put" /\ worker' = "select"
    BY <1>13 DEF PutLine
  <2>2. /\ Len(logs') = Len(logs)
        /\ \A i \in 1..Len(logs) : i # fp => LogLines(i)' = LogLines(i)
        /\ fp # 0 => fp \in 1..Len(logs) /\ LogLines(fp)' \in {LogLines(fp), LogLines(fp) \union {event}}
    BY <1>1, <1>13, PutLineLines
  <2>3. fp # 0 => fp = Len(logs) /\ Main \in DOMAIN dir
    BY <1>1 DEF MainInv
  <2>4. \A t, i : Stamped(t, i)' => Stamped(t, i)
    BY <2>1 DEF Stamped
  <2>5. ASSUME NEW t \in Time, NEW i \in Nat, Stamped(t, i)', NEW l \in LogLines(i)'
        PROVE  accepted[l] <= t + 1
    <3>1. Stamped(t, i) /\ i \in 1..Len(logs)
      BY <1>1, <2>4, <2>5, StampedFiles
    <3>2. i # fp \/ fp = 0
      BY <1>1, <2>3, <3>1 DEF NameInv
    <3>3. LogLines(i)' = LogLines(i)
      BY <2>2, <3>1, <3>2
    <3>. QED
      BY <1>1, <2>5, <3>1, <3>3 DEF AgeInv
  <2>6. ASSUME Main \in DOMAIN dir, NEW l \in LogLines(Len(logs))'
        PROVE  accepted[l] <= backup + 1
    <3>0. Len(logs) \in 1..Len(logs)
      BY <1>1, <2>6, Numbers DEF MainInv
    <3>1. \A k \in LogLines(Len(logs)) : accepted[k] <= backup + 1
      BY <1>1, <2>1, <2>6 DEF AgeInv
    <3>2. CASE fp = 0
      BY <2>2, <2>6, <3>0, <3>1, <3>2 DEF LogLines
    <3>3. CASE fp # 0
      <4>1. accepted[event] <= backup + 1
        BY <1>1, <2>1, <3>3 DEF AgeInv
      <4>2. l \in LogLines(fp)'
        BY <2>1, <2>2, <2>3, <2>6, <3>3 DEF LogLines
      <4>3. l \in LogLines(Len(logs)) \/ l = event
        BY <2>2, <2>3, <3>3, <4>2
      <4>. QED
        BY <3>1, <4>1, <4>3
    <3>. QED
      BY <3>2, <3>3
  <2>. QED
    BY <2>1, <2>5, <2>6 DEF AgeInv, Stamped
<1>14. CASE \E p \in posts : Post(p)
  <2>1. /\ UNCHANGED <<accepted, worker, event, fp, backup, logs>>
        /\ Main \in DOMAIN dir' <=> Main \in DOMAIN dir
        /\ \A t, i : Stamped(t, i)' => Stamped(t, i)
    BY <1>14, PostNames
  <2>2. \A i : LogLines(i)' = LogLines(i)
    BY <2>1 DEF LogLines
  <2>. QED
    BY <1>1, <2>1, <2>2 DEF AgeInv
<1>15. CASE UNCHANGED vars
  <2>1. UNCHANGED <<accepted, worker, event, fp, backup, logs, dir, posts>>
    BY <1>15 DEF vars
  <2>. QED
    BY <1>1, <2>1 DEF AgeInv, Stamped, LogLines
<1>. QED
  BY <1>5, <1>6, <1>7, <1>8, <1>9, <1>10, <1>11, <1>12, <1>13, <1>14, <1>15, NextCases
  DEF Process, Calls, Hands, Files

-----------------------------------------------------------------------------
(* Compression. *)

\* What ZipInv asks of a goroutine.
Zipping(p) ==
  /\ p.at \in {"zip", "copy", "remove"} => Backup(p.file) \in DOMAIN dir /\ p.in = p.id
  /\ p.at \in {"copy", "remove"} =>
       p.out = p.id /\ (GzipFile(p.file) \in DOMAIN dir \/ Expired(p.file))
  /\ p.at = "remove" => archives[p.id] = logs[p.id]

\* A file of the directory that shows the time of a goroutine has its number.
LEMMA SameNumber ==
  ASSUME Full, Daily, NEW p \in posts
  PROVE  /\ p \in PostState /\ p.id \in 1..Len(logs) /\ p.file \in Time
         /\ Backup(p.file) \in DOMAIN dir => dir[Backup(p.file)] = p.id
         /\ GzipFile(p.file) \in DOMAIN dir => dir[GzipFile(p.file)] = p.id
         /\ \A r \in posts : r.file # p.file => r.id # p.id
<1>1. Types /\ NameInv /\ Time \subseteq Nat
  BY Numbers DEF Full, DailyInv
<1>2. p \in PostState /\ Stamped(p.file, p.id) /\ p.file \in Time /\ p.id \in 1..Len(logs)
  BY <1>1, StampedFiles DEF Types, PostOK
<1>3. Backup(p.file)[2] = p.file /\ GzipFile(p.file)[2] = p.file /\ Backup(p.file) # Main /\ GzipFile(p.file) # Main
  BY <1>2, NameFacts
<1>4. /\ Backup(p.file) \in DOMAIN dir => Stamped(p.file, dir[Backup(p.file)])
      /\ GzipFile(p.file) \in DOMAIN dir => Stamped(p.file, dir[GzipFile(p.file)])
  BY <1>3 DEF Stamped
<1>0. \A t, u \in Time, i, j \in Nat : Stamped(t, i) /\ Stamped(u, j) =>
        (t < u => i < j) /\ (t = u => i = j)
  BY <1>1 DEF NameInv
<1>5. ASSUME NEW i, NEW j, Stamped(p.file, i), Stamped(p.file, j) PROVE i = j
  <2>1. i \in Nat /\ j \in Nat
    BY <1>1, <1>5, StampedFiles
  <2>. QED
    BY <1>0, <1>2, <1>5, <2>1
<1>6. ASSUME NEW r \in posts, r.file # p.file PROVE r.id # p.id
  <2>1. Stamped(r.file, r.id) /\ r.file \in Time /\ r.id \in Nat /\ p.id \in Nat
    BY <1>1, <1>2, StampedFiles
  <2>2. r.file < p.file \/ p.file < r.file
    <3>1. r.file \in Nat /\ p.file \in Nat
      BY <1>1, <1>2, <2>1
    <3>. QED
      BY <1>6, <3>1
  <2>3. r.id < p.id \/ p.id < r.id
    BY <1>0, <1>2, <2>1, <2>2
  <2>. QED
    BY <2>1, <2>3
<1>. QED
  BY <1>2, <1>4, <1>5, <1>6

\* Steps of the others leave a goroutine what it works on.
LEMMA ZipOthers ==
  ASSUME Full, Daily, MainOnly, now <= now', now' \in Nat, archives' = archives,
         \A i \in 1..Len(logs) : logs'[i] = logs[i] \/ \A t : ~Stamped(t, i)
  PROVE  ZipInv'
<1>1. Types /\ ZipInv /\ now \in Nat /\ Time \subseteq Nat /\ KeepDays \in Nat
  BY Numbers DEF Full, DailyInv
<1>2. ASSUME NEW p \in posts' PROVE Zipping(p)'
  <2>1. p \in posts /\ Zipping(p)
    BY <1>1, <1>2 DEF MainOnly, ZipInv, Zipping
  <2>2. Backup(p.file) # Main /\ GzipFile(p.file) # Main /\ p.file \in Nat
    BY <1>1, <2>1, NameFacts, StampedFiles
  <2>3. /\ Backup(p.file) \in DOMAIN dir => Backup(p.file) \in DOMAIN dir'
        /\ GzipFile(p.file) \in DOMAIN dir => GzipFile(p.file) \in DOMAIN dir'
    BY <2>2 DEF MainOnly
  <2>4. logs'[p.id] = logs[p.id]
    BY <1>1, <2>1, StampedFiles
  <2>5. Expired(p.file) => Expired(p.file)'
    BY <1>1, <2>2 DEF Expired
  <2>. QED
    BY <2>1, <2>3, <2>4, <2>5 DEF Zipping
<1>. QED
  BY <1>1, <1>2 DEF MainOnly, ZipInv, Zipping

\* A step of a goroutine leaves the others what they work on.
LEMMA ZipOne ==
  ASSUME ZipInv, NEW p \in posts, NEW q, q.file = p.file, Zipping(q)' \/ q \notin posts',
         posts' \subseteq (posts \ {p}) \union {q},
         \A r \in posts \ {p} : Zipping(r) /\ r.file # p.file => Zipping(r)'
  PROVE  ZipInv'
<1>1. \A r \in posts \ {p} : Zipping(r) /\ r.file # p.file
  BY DEF ZipInv, Zipping
<1>2. \A r \in posts' : Zipping(r)'
  BY <1>1
<1>3. \A r, s \in posts' : r.file = s.file => r = s
  BY <1>1 DEF ZipInv
<1>. QED
  BY <1>2, <1>3 DEF ZipInv, Zipping

\* Every step keeps compression on the way from a backup to its archive.
LEMMA StepZip ==
  ASSUME Full, Daily, [Next]_vars PROVE ZipInv'
<1>. USE DEF clockVars, callVars, handVars, fileVars, diskVars
<1>1. /\ Types /\ Types' /\ MainInv /\ ZipInv /\ NameInv /\ now \in Nat /\ now' \in Nat
      /\ now <= now' /\ Len(logs) \in Nat
  <2>1. Types /\ Types' /\ MainInv /\ ZipInv /\ NameInv /\ now \in Nat /\ Len(logs) \in Nat
    BY StepTypes, Numbers DEF Full, DailyInv
  <2>2. now' = now \/ now' = now + 1
    <3>1. CASE UNCHANGED vars
      BY <3>1 DEF vars
    <3>2. CASE Tick \/ NewLogger \/ Crash \/ Calls \/ Hands
      BY <3>2 DEF Tick, NewLogger, Crash, Calls, Write, CloseStart, CloseFinish, Hands, TakeEvent,
                  SeeDone, Drained, CheckRotate
    <3>3. CASE Files
      BY <2>1, <3>3, FailTypes
      DEF Types, Files, RotateClose, RotateRename, RotateCreate, MarkRotated, PutLine
    <3>4. CASE \E p \in posts : Post(p)
      BY <3>4, PostNames
    <3>. QED
      BY <3>1, <3>2, <3>3, <3>4, NextCases DEF Process
  <2>. QED
    BY <2>1, <2>2
<1>2. CASE MainOnly /\ (Process \/ Calls \/ Hands \/ Files)
  <2>1. archives' = archives
    BY <1>2 DEF Process, Tick, NewLogger, Crash, Calls, Write, CloseStart, CloseFinish, Hands,
                TakeEvent, SeeDone, Drained, CheckRotate, Files, RotateClose, RotateRename,
                RotateCreate, MarkRotated, PutLine, CreateLog
  <2>2. CASE logs' = logs
    BY <1>1, <1>2, <2>1, <2>2, ZipOthers
  <2>3. CASE CreateLog
    BY <1>1, <1>2, <2>1, <2>3, ZipOthers, LogsGrow DEF Types
  <2>4. CASE PutLine
    <3>1. \A i \in 1..Len(logs) : i # fp => logs'[i] = logs[i]
      BY <1>1, <2>4, PutLineLines
    <3>2. fp # 0 => \A t : ~Stamped(t, fp)
      <4>1. fp # 0 => fp = Len(logs) /\ Main \in DOMAIN dir
        BY <1>1 DEF MainInv
      <4>2. \A t, i : Stamped(t, i) /\ Main \in DOMAIN dir => i < Len(logs)
        BY <1>1, StampedFiles DEF NameInv
      <4>. QED
        BY <1>1, <4>1, <4>2
    <3>3. \A i \in 1..Len(logs) : logs'[i] = logs[i] \/ \A t : ~Stamped(t, i)
      BY <1>1, <3>1, <3>2
    <3>. QED
      BY <1>1, <1>2, <2>1, <3>3, ZipOthers
  <2>. QED
    BY <1>2, <2>2, <2>3, <2>4
    DEF Process, Tick, NewLogger, Crash, Calls, Write, CloseStart, CloseFinish, Hands, TakeEvent,
        SeeDone, Drained, CheckRotate, Files, RotateClose, RotateRename, RotateCreate, MarkRotated
<1>3. CASE RotateRename /\ Renamed
  <2>1. now' = now /\ UNCHANGED <<logs, archives>> /\ worker = "rename" /\ Main \in DOMAIN dir
    BY <1>1, <1>3, FailTypes DEF Types, RotateRename, Renamed
  <2>2. /\ \A f \in DOMAIN dir : f # Main => f \in DOMAIN dir'
        /\ backup \in Time
    BY <1>1, <1>3, RenamedStamps DEF Types, FileOK
  <2>0. PICK q : q = [at |-> "open", id |-> dir[Main], file |-> backup, in |-> 0, out |-> 0,
                      list |-> {}]
    OBVIOUS
  <2>3. posts' = posts \union {q} /\ q.file = backup /\ q.at = "open"
    BY <1>3, <2>0 DEF Renamed
  <2>4. \A p \in posts : p.file # backup
    BY <1>1, <2>1, StampedFiles, Numbers DEF NameInv
  <2>5. \A p \in posts : Zipping(p)'
    <3>1. \A p \in posts : Zipping(p) /\ Backup(p.file) # Main /\ GzipFile(p.file) # Main
      BY <1>1, StampedFiles, NameFacts DEF ZipInv, Zipping
    <3>. QED
      BY <2>1, <2>2, <3>1 DEF Zipping, Expired
  <2>6. Zipping(q)'
    BY <2>3 DEF Zipping
  <2>. QED
    BY <1>1, <2>3, <2>4, <2>5, <2>6 DEF ZipInv, Zipping
<1>4. ASSUME NEW p \in posts, Post(p) PROVE ZipInv'
  <2>1. UNCHANGED <<now, logs>>
    BY <1>4, PostNames
  <2>2. /\ p \in PostState /\ p.id \in 1..Len(logs) /\ p.file \in Time
        /\ Backup(p.file) \in DOMAIN dir => dir[Backup(p.file)] = p.id
        /\ GzipFile(p.file) \in DOMAIN dir => dir[GzipFile(p.file)] = p.id
        /\ \A r \in posts : r.file # p.file => r.id # p.id
        /\ Zipping(p)
    BY <1>1, <1>4, SameNumber DEF ZipInv, Zipping
  <2>3. \A r \in posts : /\ Backup(r.file) # GzipFile(p.file) /\ GzipFile(r.file) # Backup(p.file)
                         /\ Backup(r.file) = Backup(p.file) => r.file = p.file
                         /\ GzipFile(r.file) = GzipFile(p.file) => r.file = p.file
    BY <1>1, <2>2, StampedFiles, NameFacts
  <2>4. ASSUME UNCHANGED <<dir, archives>>, NEW q, q.file = p.file, Zipping(q)',
               posts' \subseteq (posts \ {p}) \union {q}
        PROVE  ZipInv'
    <3>1. \A r \in posts \ {p} : Zipping(r) /\ r.file # p.file => Zipping(r)'
      BY <2>1, <2>4 DEF Zipping, Expired
    <3>. QED
      BY <1>1, <2>4, <3>1, ZipOne
  <2>5. ASSUME GoClean(p), UNCHANGED archives, dir' = dir \/ dir' = Unlink(dir, Backup(p.file))
        PROVE  ZipInv'
    <3> DEFINE q == [p EXCEPT !.at = "clean", !.in = 0, !.out = 0]
    <3>1. q.file = p.file /\ q.at = "clean" /\ posts' = (posts \ {p}) \union {q}
      BY <2>2, <2>5 DEF GoClean, GoOn, PostState
    <3>. HIDE DEF q
    <3>2. Zipping(q)'
      BY <3>1 DEF Zipping
    <3>3. ASSUME NEW r \in posts \ {p}, Zipping(r), r.file # p.file PROVE Zipping(r)'
      <4>1. /\ Backup(r.file) \in DOMAIN dir => Backup(r.file) \in DOMAIN dir'
            /\ GzipFile(r.file) \in DOMAIN dir => GzipFile(r.file) \in DOMAIN dir'
        BY <2>3, <2>5, <3>3 DEF Unlink
      <4>. QED
        BY <2>1, <2>5, <3>3, <4>1 DEF Zipping, Expired
    <3>. QED
      BY <1>1, <3>1, <3>2, <3>3, ZipOne
  <2>6. CASE PostOpen(p)
    <3>1. CASE GoClean(p)
      BY <2>5, <2>6, <3>1 DEF PostOpen
    <3>2. CASE GoOn(p, [p EXCEPT !.at = "zip", !.in = dir[Backup(p.file)]]) /\ Backup(p.file) \in DOMAIN dir
      <4>0. PICK q : q = [p EXCEPT !.at = "zip", !.in = dir[Backup(p.file)]]
        OBVIOUS
      <4>1. /\ q.file = p.file /\ q.at = "zip" /\ q.in = dir[Backup(p.file)] /\ q.id = p.id
            /\ posts' = (posts \ {p}) \union {q}
        BY <2>2, <3>2, <4>0 DEF GoOn, PostState
      <4>2. UNCHANGED <<dir, archives>>
        BY <2>6 DEF PostOpen
      <4>3. Zipping(q)'
        BY <2>2, <3>2, <4>1, <4>2 DEF Zipping
      <4>. QED
        BY <2>4, <4>1, <4>2, <4>3
    <3>. QED
      BY <2>6, <3>1, <3>2 DEF PostOpen
  <2>7. CASE PostZip(p)
    <3>1. CASE GoClean(p) /\ UNCHANGED <<dir, archives>>
      BY <2>5, <3>1
    <3>2. CASE ~(GoClean(p) /\ UNCHANGED <<dir, archives>>)
      <4> DEFINE q == [p EXCEPT !.at = "copy", !.out = p.id]
      <4>1. /\ dir' = Put(dir, GzipFile(p.file), p.id) /\ archives' = Put(archives, p.id, <<>>)
            /\ GoOn(p, q) /\ p.at = "zip"
        BY <2>2, <2>7, <3>2 DEF PostZip
      <4>2. /\ q.file = p.file /\ q.at = "copy" /\ q.in = p.in /\ q.id = p.id /\ q.out = p.id
            /\ posts' = (posts \ {p}) \union {q}
        BY <2>2, <4>1 DEF GoOn, PostState
      <4>. HIDE DEF q
      <4>3. /\ DOMAIN dir' = DOMAIN dir \union {GzipFile(p.file)}
            /\ \A i \in DOMAIN archives : i # p.id => archives'[i] = archives[i]
        BY <4>1 DEF Put
      <4>4. Zipping(q)'
        BY <2>2, <4>1, <4>2, <4>3 DEF Zipping
      <4>5. ASSUME NEW r \in posts \ {p}, Zipping(r), r.file # p.file PROVE Zipping(r)'
        <5>1. r.id # p.id
          BY <2>2, <4>5
        <5>2. r.at = "remove" => r.id \in DOMAIN archives
          BY <1>1, <4>5 DEF Types, PostOK, PostInv, Zipping
        <5>. QED
          BY <2>1, <4>3, <4>5, <5>1, <5>2 DEF Zipping, Expired
      <4>. QED
        BY <1>1, <4>2, <4>4, <4>5, ZipOne
    <3>. QED
      BY <3>1, <3>2
  <2>8. CASE PostCopy(p)
    <3>1. CASE GoClean(p) /\ UNCHANGED archives
      BY <2>5, <2>8, <3>1 DEF PostCopy
    <3>2. CASE ~(GoClean(p) /\ UNCHANGED archives)
      <4> DEFINE q == [p EXCEPT !.at = "remove"]
      <4>1. /\ dir' = dir /\ archives' = [archives EXCEPT ![p.out] = logs[p.in]]
            /\ GoOn(p, q) /\ p.at = "copy"
        BY <2>8, <3>2 DEF PostCopy
      <4>2. /\ q.file = p.file /\ q.at = "remove" /\ q.in = p.in /\ q.id = p.id /\ q.out = p.out
            /\ posts' = (posts \ {p}) \union {q}
        BY <2>2, <4>1 DEF GoOn, PostState
      <4>. HIDE DEF q
      <4>3. p.in = p.id /\ p.out = p.id /\ p.id \in DOMAIN archives
        BY <1>1, <2>2, <4>1 DEF Zipping, Types, PostOK, PostInv
      <4>4. archives'[p.id] = logs[p.id] /\ \A i \in DOMAIN archives : i # p.id => archives'[i] = archives[i]
        BY <4>1, <4>3
      <4>5. Zipping(q)'
        BY <2>1, <2>2, <4>1, <4>2, <4>3, <4>4 DEF Zipping, Expired
      <4>6. ASSUME NEW r \in posts \ {p}, Zipping(r), r.file # p.file PROVE Zipping(r)'
        <5>1. r.id # p.id
          BY <2>2, <4>6
        <5>2. r.at = "remove" => r.id \in DOMAIN archives
          BY <1>1, <4>6 DEF Types, PostOK, PostInv, Zipping
        <5>. QED
          BY <2>1, <4>1, <4>4, <4>6, <5>1, <5>2 DEF Zipping, Expired
      <4>. QED
        BY <1>1, <4>2, <4>5, <4>6, ZipOne
    <3>. QED
      BY <3>1, <3>2
  <2>9. CASE PostRemove(p)
    BY <2>5, <2>9 DEF PostRemove
  <2>10. ASSUME NEW D, GoDelete(p, D)
         PROVE  \E q : q.file = p.file /\ q.at = "delete" /\ posts' \subseteq (posts \ {p}) \union {q}
    <3> DEFINE q == [p EXCEPT !.at = "delete", !.list = D]
    <3>1. q.file = p.file /\ q.at = "delete" /\ posts' \subseteq (posts \ {p}) \union {q}
      BY <2>2, <2>10 DEF GoDelete, GoOn, PostState
    <3>. HIDE DEF q
    <3>. QED
      BY <3>1
  <2>11. CASE PostList(p)
    <3>1. PICK q : q.file = p.file /\ q.at = "delete" /\ posts' \subseteq (posts \ {p}) \union {q}
      BY <2>10, <2>11 DEF PostList
    <3>2. UNCHANGED <<dir, archives>>
      BY <2>11 DEF PostList
    <3>3. Zipping(q)'
      BY <3>1 DEF Zipping
    <3>. QED
      BY <2>4, <3>1, <3>2, <3>3
  <2>12. CASE PostDelete(p)
    <3>1. PICK f \in p.list : GoDelete(p, p.list \ {f}) /\ dir' \in {dir, Unlink(dir, f)}
      BY <2>12 DEF PostDelete
    <3>2. PICK q : q.file = p.file /\ q.at = "delete" /\ posts' \subseteq (posts \ {p}) \union {q}
      BY <2>10, <3>1
    <3>3. archives' = archives /\ Zipping(q)'
      BY <2>12, <3>2 DEF PostDelete, Zipping
    <3>4. f[1] = Kind /\ Expired(f[2])
      BY <3>1 DEF Full, ListInv
    <3>5. ASSUME NEW r \in posts \ {p}, Zipping(r), r.file # p.file PROVE Zipping(r)'
      <4>1. /\ r.at \in {"zip", "copy", "remove"} => Compress
            /\ Backup(r.file)[1] = "backup" /\ GzipFile(r.file)[2] = r.file
        BY <1>1, StampedFiles, NameFacts DEF Types, PostOK, PostInv
      <4>2. r.at \in {"zip", "copy", "remove"} => Backup(r.file) # f
        BY <3>4, <4>1 DEF Kind
      <4>3. GzipFile(r.file) = f => Expired(r.file)
        BY <3>4, <4>1
      <4>4. \A g \in DOMAIN dir : g # f => g \in DOMAIN dir'
        BY <3>1 DEF Unlink
      <4>. QED
        BY <2>1, <3>3, <3>5, <4>2, <4>3, <4>4 DEF Zipping, Expired
    <3>. QED
      BY <1>1, <3>2, <3>3, <3>5, ZipOne
  <2>. QED
    BY <1>4, <2>6, <2>7, <2>8, <2>9, <2>11, <2>12 DEF Post
<1>5. CASE UNCHANGED vars
  <2>1. UNCHANGED <<now, dir, logs, archives, posts>>
    BY <1>5 DEF vars
  <2>. QED
    BY <1>1, <2>1 DEF ZipInv, Expired
<1>. QED
  BY <1>2, <1>3, <1>4, <1>5, NextCases, MainOnlyCases

-----------------------------------------------------------------------------
(* The invariant, and what follows from it. *)

\* The invariant in the parts it is proved in.
LEMMA Parts ==
  /\ IInv <=> Types /\ CloseInv /\ ListInv /\ (Daily => LineInv /\ DailyInv)
  /\ IInv /\ Daily => Full
  /\ Full => IInv
BY TypeParts DEF IInv, Full, Types

\* At the start nothing is in the directory and nobody is at work.
LEMMA InitInv == Init => IInv
<1>. SUFFICES ASSUME Init PROVE IInv
  OBVIOUS
<1>1. Types
  BY InitTypes
<1>2. /\ Len(channel) = 0 /\ Len(accepted) = 0 /\ Len(logs) = 0
      /\ DOMAIN dir = {} /\ DOMAIN archives = {} /\ posts = {}
      /\ worker = "off" /\ closing = "open" /\ draining = FALSE /\ atClose = 0
      /\ fp = 0 /\ event = 0 /\ now = 0 /\ backup = 0 /\ rotatedTime = 0
  BY DEF Init
<1>3. CloseInv
  BY <1>2 DEF CloseInv
<1>4. ListInv /\ ZipInv
  BY <1>2 DEF ListInv, ZipInv
<1>5. LineInv
  BY <1>2 DEF LineInv
<1>6. \A t, i : ~Stamped(t, i)
  BY <1>2 DEF Stamped
<1>7. MainInv /\ NameInv /\ TimeInv /\ AgeInv
  BY <1>2, <1>6 DEF MainInv, NameInv, TimeInv, AgeInv
<1>. QED
  BY <1>1, <1>3, <1>4, <1>5, <1>7, Parts DEF DailyInv

\* Every step keeps the invariant.
LEMMA StepInv == IInv /\ [Next]_vars => IInv'
<1>. SUFFICES ASSUME IInv, [Next]_vars PROVE IInv'
  OBVIOUS
<1>1. Types' /\ CloseInv' /\ ListInv'
  BY Parts, StepTypes, StepClose, StepList
<1>2. Daily => LineInv' /\ DailyInv'
  BY Parts, StepLine, StepMain, StepName, StepTime, StepZip, StepAge DEF DailyInv
<1>3. TypeOK' /\ PostInv'
  BY <1>1 DEF Types, TypeOK, ClockOK, CallOK, HandOK, FileOK, LogsOK, DirOK, PostOK
<1>. QED
  BY <1>1, <1>2, <1>3 DEF IInv

\* The invariant holds in every reachable state.
THEOREM Inductive == Spec => []IInv
BY InitInv, StepInv, PTL DEF Spec

\* The state has the types it is declared with, for any settings: the worker
\* has a line in hand where it needs one, no name leads to a file that does not
\* exist, no line is taken that was not accepted (rotatelogger.go).
THEOREM TypeCorrect == Spec => []TypeOK
<1>1. IInv => TypeOK
  BY DEF IInv
<1>. QED
  BY <1>1, Inductive, PTL

\* When Close has returned, the worker has taken every line that was accepted
\* before Close was called (rotatelogger.go, the drain in startWorker).
THEOREM Drains == Spec => []DrainedOnClose
<1>1. IInv => DrainedOnClose
  BY DEF IInv, CloseInv, DrainedOnClose
<1>. QED
  BY <1>1, Inductive, PTL

\* A backup that goes was on a list, and younger ones do not go before it.
LEMMA StepNewest ==
  ASSUME IInv, [Next]_vars, NEW f \in Glob \ Glob', KeepDays = 0
  PROVE  MaxBackups > 0 /\ Cardinality({g \in Glob' : g[2] > f[2]}) >= MaxBackups
<1>1. Types /\ ListInv /\ DirOK
  BY Parts DEF Types
<1>2. CASE Process \/ Calls \/ Hands \/ Files
  BY <1>1, <1>2, GlobGrows
<1>3. CASE UNCHANGED vars
  BY <1>3 DEF vars, diskVars, Glob
<1>4. ASSUME NEW p \in posts, Post(p)
      PROVE  MaxBackups > 0 /\ Cardinality({g \in Glob' : g[2] > f[2]}) >= MaxBackups
  <2>1. dir' # dir
    BY DEF Glob
  <2>2. PICK x \in p.list : dir' = Unlink(dir, x)
    BY <1>1, <1>4, <2>1, PostCases
  <2>3. f = x /\ Glob' = Glob \ {f}
    BY <2>2 DEF Glob, Unlink
  <2>4. f[2] \in Nat
    BY <1>1, KindNames
  <2>5. {g \in Glob' : g[2] > f[2]} = Younger(f[2])
    BY <2>3, <2>4 DEF Younger
  <2>. QED
    BY <1>1, <2>2, <2>3, <2>5 DEF ListInv
<1>. QED
  BY <1>2, <1>3, <1>4, NextCases

\* However the goroutines of several rotations overlap, none removes a backup
\* unless MaxBackups younger ones are there, or the age of the files counts
\* (rotatelogger.go, OutdatedFiles).
THEOREM Newest == Spec => NewestKept
<1>1. IInv /\ [Next]_vars =>
        [\A f \in Glob \ Glob' :
           KeepDays = 0 => MaxBackups > 0 /\ Cardinality({g \in Glob' : g[2] > f[2]}) >= MaxBackups]_vars
  BY StepNewest
<1>. QED
  BY <1>1, Inductive, PTL DEF Spec, NewestKept

-----------------------------------------------------------------------------
(* The limit on backups. *)

\* The goroutines that have not listed the outdated files yet.
Unlisted == {p \in posts : p.at # "delete"}

\* Without failures and restarts, every backup above the limit is on the list
\* of a goroutine, or one is still to make its list.
SurplusInv ==
  fails = 0 /\ restarts = 0 /\ Unlisted = {} =>
    \A f \in Glob : TooMany(f) => \E p \in posts : p.at = "delete" /\ f \in p.list

\* A file that is one too many after a step was one before, if none came.
LEMMA TooManyBefore ==
  ASSUME DirOK, Glob' \subseteq Glob, NEW f, TooMany(f)'
  PROVE  TooMany(f)
<1>1. {g \in Glob' : g[2] > f[2]} \subseteq {g \in Glob : g[2] > f[2]}
  OBVIOUS
<1>2. {g \in Glob : g[2] > f[2]} \subseteq Name
  BY KindNames
<1>3. /\ Cardinality({g \in Glob' : g[2] > f[2]}) \in Nat
      /\ Cardinality({g \in Glob : g[2] > f[2]}) \in Nat
      /\ Cardinality({g \in Glob' : g[2] > f[2]}) <= Cardinality({g \in Glob : g[2] > f[2]})
  BY <1>1, <1>2, YoungerCount
<1>4. ~Daily /\ MaxBackups > 0 /\ Cardinality({g \in Glob' : g[2] > f[2]}) >= MaxBackups
  BY DEF TooMany
<1>. QED
  BY <1>3, <1>4, SettingAssumption DEF TooMany

\* A goroutine that does not list or remove files has still to do it.
LEMMA StillUnlisted ==
  ASSUME Types, NEW p \in posts,
         PostOpen(p) \/ PostZip(p) \/ PostCopy(p) \/ PostRemove(p)
  PROVE  Unlisted' # {}
<1>1. p \in PostState
  BY DEF Types, PostOK
<1>2. CASE GoClean(p)
  <2>1. [p EXCEPT !.at = "clean", !.in = 0, !.out = 0].at = "clean"
    BY <1>1 DEF PostState
  <2>. QED
    BY <1>2, <2>1 DEF GoClean, GoOn, Unlisted
<1>3. CASE \E x : GoOn(p, [p EXCEPT !.at = "zip", !.in = x])
  <2>1. \A x : [p EXCEPT !.at = "zip", !.in = x].at = "zip"
    BY <1>1 DEF PostState
  <2>. QED
    BY <1>3, <2>1 DEF GoOn, Unlisted
<1>4. CASE \E x : GoOn(p, [p EXCEPT !.at = "copy", !.out = x])
  <2>1. \A x : [p EXCEPT !.at = "copy", !.out = x].at = "copy"
    BY <1>1 DEF PostState
  <2>. QED
    BY <1>4, <2>1 DEF GoOn, Unlisted
<1>5. CASE GoOn(p, [p EXCEPT !.at = "remove"])
  <2>1. [p EXCEPT !.at = "remove"].at = "remove"
    BY <1>1 DEF PostState
  <2>. QED
    BY <1>5, <2>1 DEF GoOn, Unlisted
<1>. QED
  BY <1>2, <1>3, <1>4, <1>5 DEF PostOpen, PostZip, PostCopy, PostRemove

\* Every step keeps the surplus on a list.
LEMMA StepSurplus ==
  ASSUME Types, SurplusInv, [Next]_vars
  PROVE  SurplusInv'
<1>. SUFFICES ASSUME fails' = 0, restarts' = 0, Unlisted' = {}, NEW f \in Glob', TooMany(f)'
              PROVE  \E q \in posts' : q.at = "delete" /\ f \in q.list
  BY DEF SurplusInv
<1>1. DirOK /\ fails \in Nat /\ restarts \in Nat /\ posts \subseteq PostState
  BY DEF Types, ClockOK, PostOK
<1>2. CASE Process \/ Calls \/ Hands \/ Files \/ UNCHANGED vars
  <2>1. fails = 0 /\ restarts = 0 /\ ~Crash
    <3>1. fails' \in {fails, fails + 1} /\ restarts' \in {restarts, restarts + 1}
          /\ (Crash => restarts' = restarts + 1)
      BY <1>2 DEF vars, Process, Tick, NewLogger, Crash, Calls, Write, CloseStart, CloseFinish, Hands,
                  TakeEvent, SeeDone, Drained, CheckRotate, Files, RotateClose, RotateRename,
                  RotateCreate, MarkRotated, PutLine, clockVars, Ok, Fail
    <3>. QED
      BY <1>1, <3>1
  <2>2. posts' = posts
    <3>1. \/ posts' = posts
          \/ [at |-> "open", id |-> dir[Main], file |-> backup, in |-> 0, out |-> 0, list |-> {}] \in posts'
      BY <1>2, <2>1 DEF vars, Process, Tick, NewLogger, Calls, Write, CloseStart, CloseFinish, Hands,
                  TakeEvent, SeeDone, Drained, CheckRotate, Files, RotateClose, RotateRename,
                  RotateCreate, MarkRotated, PutLine
    <3>. QED
      BY <3>1 DEF Unlisted
  <2>3. dir' = dir \/ dir' = Put(dir, Main, Len(logs) + 1)
    <3>1. ASSUME RotateRename PROVE dir' = dir
      <4>1. \/ dir' = dir
            \/ [at |-> "open", id |-> dir[Main], file |-> backup, in |-> 0, out |-> 0, list |-> {}] \in posts'
        BY <3>1 DEF RotateRename
      <4>. QED
        BY <4>1 DEF Unlisted
    <3>. QED
      BY <1>2, <3>1
      DEF vars, Process, Tick, NewLogger, Crash, Calls, Write, CloseStart, CloseFinish, Hands, TakeEvent,
          SeeDone, Drained, CheckRotate, Files, RotateClose, RotateCreate, MarkRotated,
          PutLine, CreateLog, diskVars
  <2>4. Glob' \subseteq Glob
    BY <2>3, NameFacts DEF Glob, Put
  <2>5. TooMany(f) /\ f \in Glob
    BY <1>1, <2>4, TooManyBefore
  <2>6. Unlisted = {}
    BY <2>2 DEF Unlisted
  <2>. QED
    BY <2>1, <2>2, <2>5, <2>6 DEF SurplusInv
<1>3. ASSUME NEW p \in posts, Post(p)
      PROVE  \E q \in posts' : q.at = "delete" /\ f \in q.list
  <2>1. Ok
    <3>1. Ok \/ Fail
      BY <1>3 DEF Post, PostOpen, PostZip, PostCopy, PostRemove, PostList, PostDelete
    <3>2. ~Fail
      BY <1>1 DEF Fail
    <3>. QED
      BY <3>1, <3>2
  <2>2. CASE PostOpen(p) \/ PostZip(p) \/ PostCopy(p) \/ PostRemove(p)
    BY <2>2, StillUnlisted
  <2>3. CASE PostList(p)
    <3> DEFINE q == [p EXCEPT !.at = "delete", !.list = OutdatedFiles]
    <3>1. dir' = dir /\ GoDelete(p, OutdatedFiles)
      BY <2>3 DEF PostList, diskVars
    <3>2. Glob' = Glob
      BY <3>1 DEF Glob
    <3>3. f \in OutdatedFiles
      BY <1>1, <3>2, TooManyBefore DEF OutdatedFiles
    <3>4. q.at = "delete" /\ q.list = OutdatedFiles
      BY <1>1, <1>3 DEF PostState
    <3>5. q \in posts'
      BY <3>1, <3>3 DEF GoDelete, GoOn
    <3>. HIDE DEF q
    <3>. QED
      BY <3>3, <3>4, <3>5
  <2>4. CASE PostDelete(p)
    <3>1. PICK x \in p.list : GoDelete(p, p.list \ {x}) /\ ((Ok /\ dir' = Unlink(dir, x)) \/ Fail)
      BY <2>4 DEF PostDelete
    <3>2. p.at = "delete" /\ p \in PostState
      BY <1>1, <1>3, <2>4 DEF PostDelete
    <3>3. ~Fail /\ fails = 0 /\ restarts = 0
      BY <1>1, <2>1 DEF Ok, Fail, clockVars
    <3>4. Glob' = Glob \ {x}
      BY <3>1, <3>3 DEF Glob, Unlink
    <3>5. TooMany(f) /\ f \in Glob /\ f # x
      BY <1>1, <3>4, TooManyBefore
    <3> DEFINE D == p.list \ {x}
               q == [p EXCEPT !.at = "delete", !.list = D]
    <3>6. q.at = "delete" /\ q.list = D
      BY <3>2 DEF PostState
    <3>7. /\ posts \ {p} \subseteq posts'
          /\ D # {} => q \in posts'
      BY <3>1 DEF GoDelete, GoOn
    <3>. HIDE DEF q
    <3>8. Unlisted = {}
      BY <3>2, <3>7 DEF Unlisted
    <3>9. PICK r \in posts : r.at = "delete" /\ f \in r.list
      BY <3>3, <3>5, <3>8 DEF SurplusInv
    <3>. QED
      BY <3>5, <3>6, <3>7, <3>9
  <2>. QED
    BY <1>3, <2>2, <2>3, <2>4 DEF Post
<1>. QED
  BY <1>2, <1>3, NextCases

\* Where no file is one too many, the files are within the limit: all others
\* are younger than the oldest.
LEMMA NoneTooMany ==
  ASSUME DirOK, ~Daily, MaxBackups > 0, \A f \in Glob : ~TooMany(f)
  PROVE  Cardinality(Glob) <= MaxBackups
<1>1. IsFiniteSet(Glob) /\ Cardinality(Glob) \in Nat
  BY KindNames, NameFinite, FS_Subset, FS_CardinalityType
<1>2. CASE Glob = {}
  BY <1>2, FS_EmptySet, SettingAssumption
<1>3. CASE Glob # {}
  <2>1. \A f \in Glob : f[2] \in Nat /\ f = <<Kind, f[2]>>
    BY KindNames, NameFacts DEF Backup, GzipFile
  <2>2. PICK f \in Glob : \A g \in Glob : f[2] <= g[2]
    <3> DEFINE S == {g[2] : g \in Glob}
    <3>1. S \in SUBSET Nat /\ S # {}
      BY <1>3, <2>1
    <3>. HIDE DEF S
    <3>2. PICK n \in S : \A k \in S : n <= k
      BY <3>1, LeastNumber
    <3>. QED
      BY <3>2 DEF S
  <2>3. \A g \in Glob : g # f => g[2] # f[2]
    BY <2>1
  <2>4. {g \in Glob : g[2] > f[2]} = Glob \ {f}
    BY <2>1, <2>2, <2>3
  <2>5. Cardinality(Glob \ {f}) = Cardinality(Glob) - 1
    BY <1>1, FS_RemoveElement
  <2>6. ~(Cardinality(Glob) - 1 >= MaxBackups)
    BY <2>4, <2>5 DEF TooMany
  <2>. QED
    BY <1>1, <2>6, SettingAssumption
<1>. QED
  BY <1>2, <1>3

\* When the goroutines of all rotations are done, and no file operation failed
\* and the process did not end before, no more backups than MaxBackups are
\* left, whatever the order in which they ran (rotatelogger.go:173-231).
THEOREM Bounded == Spec => []BackupsBounded
<1>1. Init => SurplusInv
  BY DEF Init, SurplusInv, Glob
<1>2. IInv /\ SurplusInv /\ [Next]_vars => SurplusInv'
  BY Parts, StepSurplus
<1>3. IInv /\ SurplusInv => BackupsBounded
  <2>. SUFFICES ASSUME IInv, SurplusInv, ~Daily, MaxBackups > 0, posts = {}, fails = 0, restarts = 0
                PROVE  Cardinality(Glob) <= MaxBackups
    BY DEF BackupsBounded
  <2>1. \A f \in Glob : ~TooMany(f)
    BY DEF SurplusInv, Unlisted
  <2>. QED
    BY <2>1, Parts, NoneTooMany DEF Types
<1>. QED
  BY <1>1, <1>2, <1>3, Inductive, PTL DEF Spec

-----------------------------------------------------------------------------
(* The order of the log, and what is kept. *)

\* What can be read under a name is in the log file of its number.
LEMMA LinesIn ==
  ASSUME Full
  PROVE  /\ \A f \in DOMAIN dir : Lines(f) = IF f[1] = "gz" THEN ArchLines(dir[f]) ELSE LogLines(dir[f])
         /\ \A f \in DOMAIN dir : Lines(f) \subseteq LogLines(dir[f]) /\ dir[f] \in 1..Len(logs)
<1>1. \A f \in DOMAIN dir : Lines(f) = IF f[1] = "gz" THEN ArchLines(dir[f]) ELSE LogLines(dir[f])
  BY DEF Lines, Content, ArchLines, LogLines, LinesOf
<1>. QED
  BY <1>1 DEF Full, Types, DirOK, LogsOK, LineInv

\* Under the daily rule the names of the files order them as their lines.
LEMMA InOrder == ASSUME Full, Daily PROVE LogInOrder
<1>. SUFFICES ASSUME NEW f \in DOMAIN dir, NEW g \in DOMAIN dir, Before(f, g)
              PROVE  \A k \in Lines(f), l \in Lines(g) : k < l
  BY DEF LogInOrder
<1>1. Types /\ NameInv /\ MainInv
  BY DEF Full, DailyInv
<1>2. f # Main /\ Stamped(f[2], dir[f]) /\ f[2] \in Time /\ dir[f] \in Nat
  BY <1>1, StampedFiles DEF Before
<1>3. dir[f] < dir[g]
  <2>1. CASE g = Main
    BY <1>1, <1>2, <2>1 DEF NameInv, MainInv
  <2>2. CASE g # Main
    <3>1. Stamped(g[2], dir[g]) /\ g[2] \in Time /\ dir[g] \in Nat /\ f[2] < g[2]
      BY <1>1, <2>2, StampedFiles DEF Before
    <3>. QED
      BY <1>1, <1>2, <3>1 DEF NameInv
  <2>. QED
    BY <2>1, <2>2
<1>. QED
  BY <1>3, LinesIn DEF Full, LineInv

\* Under the daily rule the log read in the order of its names is in the order
\* of acceptance, whatever was compressed, failed or started again in between
\* (rotatelogger.go, rotate and maybeCompressFile).
THEOREM Ordered == ASSUME Daily PROVE Spec => []LogInOrder
<1>1. IInv => LogInOrder
  BY Parts, InOrder
<1>. QED
  BY <1>1, Inductive, PTL

-----------------------------------------------------------------------------
(* The log as a whole. *)

\* What is kept does not change while the same lines can be read.
LEMMA KeptSame ==
  ASSUME \A f \in DOMAIN dir : \A l \in Lines(f) : \E g \in DOMAIN dir' : l \in Lines(g)',
         \A g \in DOMAIN dir' : \A l \in Lines(g)' : \E f \in DOMAIN dir : l \in Lines(f)
  PROVE  Kept' = Kept
BY DEF Kept

\* What can be read after a step, in terms of the files.
LEMMA LinesNext ==
  \A g \in DOMAIN dir' :
    Lines(g)' = IF g[1] = "gz" THEN LinesOf(archives'[dir'[g]]) ELSE LinesOf(logs'[dir'[g]])
BY DEF Lines, Content, LinesOf

\* A name that goes because its time has passed takes away lines that are old enough.
LEMMA UnlinkExpires ==
  ASSUME Full, Daily, NEW f, f # Main, Expired(f[2]), dir' = Unlink(dir, f),
         UNCHANGED <<logs, archives, now, accepted>>
  PROVE  Retained!Expire
<1>1. Types /\ NameInv /\ AgeInv /\ LineInv /\ now \in Nat /\ KeepDays \in Nat /\ Time \subseteq Nat
      /\ Len(accepted) \in Nat /\ Len(channel) \in Nat
  BY Numbers DEF Full, DailyInv
<1>2. \A g \in DOMAIN dir' : g \in DOMAIN dir /\ Lines(g)' = Lines(g)
  BY DEF Unlink, Lines, Content
<1>3. \A g \in DOMAIN dir : g # f => g \in DOMAIN dir' /\ Lines(g)' = Lines(g)
  BY DEF Unlink, Lines, Content
<1>4. ASSUME NEW l \in Kept \ Kept' PROVE accepted[l] + KeepDays <= now
  <2>1. f \in DOMAIN dir /\ l \in Lines(f)
    BY <1>3 DEF Kept
  <2>2. Stamped(f[2], dir[f]) /\ f[2] \in Time /\ dir[f] \in 1..Len(logs) /\ dir[f] \in Nat
        /\ l \in LogLines(dir[f])
    BY <1>1, <2>1, StampedFiles, LinesIn
  <2>3. accepted[l] <= f[2] + 1
    BY <1>1, <2>2 DEF AgeInv
  <2>4. l \in 1..Len(accepted)
    <3>1. l \in Nat \ {0} /\ l + Len(channel) <= Len(accepted)
      BY <1>1, <2>2, Numbers DEF LineInv
    <3>. QED
      BY <1>1, <3>1
  <2>5. accepted[l] \in Nat /\ f[2] \in Nat
    BY <1>1, <2>2, <2>4, Numbers
  <2>. QED
    BY <1>1, <2>3, <2>5 DEF Expired
<1>5. Kept' \subseteq Kept
  BY <1>2 DEF Kept
<1>6. KeepDays > 0
  BY DEF Expired
<1>. QED
  BY <1>4, <1>5, <1>6 DEF Retained!Expire

\* Under the daily rule a step of a goroutine takes away old lines or nothing.
LEMMA PostKeeps ==
  ASSUME Full, Daily, NEW p \in posts, Post(p)
  PROVE  UNCHANGED <<now, accepted>> /\ (Kept' = Kept \/ Retained!Expire)
<1>. USE DEF diskVars
<1>1. UNCHANGED <<now, accepted, logs>>
  BY PostNames
<1>2. /\ Types /\ ZipInv /\ Zipping(p) /\ ListInv /\ LineInv
  BY DEF Full, DailyInv, ZipInv, Zipping
<1>3. /\ p.file \in Time /\ p.id \in 1..Len(logs)
      /\ Backup(p.file) \in DOMAIN dir => dir[Backup(p.file)] = p.id
      /\ GzipFile(p.file) \in DOMAIN dir => dir[GzipFile(p.file)] = p.id
  BY SameNumber
<1>4. /\ Backup(p.file)[1] = "backup" /\ Backup(p.file) # Main
      /\ GzipFile(p.file)[1] = "gz" /\ GzipFile(p.file) # Main
  BY <1>3, NameFacts
<1>5. CASE UNCHANGED <<dir, archives>>
  BY <1>1, <1>5 DEF Kept, Lines, Content
\* An archive is written while the backup is there.
<1>6. ASSUME Backup(p.file) \in DOMAIN dir,
             \A g \in DOMAIN dir : g \in DOMAIN dir' /\ dir'[g] = dir[g],
             \A g \in DOMAIN dir' : g \in DOMAIN dir \/ (g = GzipFile(p.file) /\ dir'[g] = p.id),
             \A i \in DOMAIN archives : i # p.id => archives'[i] = archives[i],
             ArchLines(p.id)' \subseteq LogLines(p.id)
      PROVE  Kept' = Kept
  <2>0. Lines(Backup(p.file)) = LogLines(p.id)
    BY <1>3, <1>4, <1>6, LinesIn
  <2>1. Lines(Backup(p.file))' = LogLines(p.id)
    BY <1>1, <1>3, <1>4, <1>6, LinesNext DEF LogLines
  <2>2. ASSUME NEW f \in DOMAIN dir, NEW l \in Lines(f)
        PROVE  \E g \in DOMAIN dir' : l \in Lines(g)'
    <3>1. CASE l \in LogLines(p.id)
      BY <1>6, <2>1, <3>1
    <3>2. CASE f[1] = "gz" /\ dir[f] # p.id
      <4>1. dir[f] \in DOMAIN archives
        BY <1>2, <3>2 DEF Types, DirOK
      <4>2. archives'[dir[f]] = archives[dir[f]]
        BY <1>6, <3>2, <4>1
      <4>. QED
        BY <1>6, <2>2, <3>2, <4>2, LinesIn, LinesNext DEF ArchLines
    <3>3. CASE f[1] # "gz"
      BY <1>1, <1>6, <2>2, <3>3, LinesIn, LinesNext DEF LogLines
    <3>4. f[1] = "gz" /\ dir[f] = p.id => l \in LogLines(p.id)
      BY <2>2, LinesIn
    <3>. QED
      BY <3>1, <3>2, <3>3, <3>4
  <2>3. ASSUME NEW g \in DOMAIN dir', NEW l \in Lines(g)'
        PROVE  \E f \in DOMAIN dir : l \in Lines(f)
    <3>1. CASE g[1] = "gz" /\ dir'[g] = p.id
      <4>1. l \in LogLines(p.id)
        BY <1>6, <2>3, <3>1, LinesNext DEF ArchLines
      <4>. QED
        BY <1>6, <2>0, <4>1
    <3>2. (g \in DOMAIN dir /\ dir'[g] = dir[g]) \/ (g[1] = "gz" /\ dir'[g] = p.id)
      BY <1>4, <1>6
    <3>3. CASE g \in DOMAIN dir /\ dir'[g] = dir[g] /\ g[1] = "gz" /\ dir[g] # p.id
      <4>1. dir[g] \in DOMAIN archives
        BY <1>2, <3>3 DEF Types, DirOK
      <4>2. archives'[dir[g]] = archives[dir[g]]
        BY <1>6, <3>3, <4>1
      <4>. QED
        BY <2>3, <3>3, <4>2, LinesIn, LinesNext DEF ArchLines
    <3>4. CASE g \in DOMAIN dir /\ dir'[g] = dir[g] /\ g[1] # "gz"
      BY <1>1, <2>3, <3>4, LinesIn, LinesNext DEF LogLines
    <3>. QED
      BY <3>1, <3>2, <3>3, <3>4
  <2>. QED
    BY <2>2, <2>3, KeptSame
<1>7. CASE PostZip(p) /\ ~UNCHANGED <<dir, archives>>
  <2>1. /\ dir' = Put(dir, GzipFile(p.file), p.id) /\ archives' = Put(archives, p.id, <<>>) /\ p.at = "zip"
    BY <1>3, <1>7 DEF PostZip
  <2>2. Backup(p.file) \in DOMAIN dir
    BY <1>2, <2>1 DEF Zipping
  <2>3. ArchLines(p.id)' = {}
    <3>1. archives'[p.id] = <<>>
      BY <2>1 DEF Put
    <3>. QED
      BY <3>1, LineSets DEF ArchLines
  <2>4. /\ \A g \in DOMAIN dir : g \in DOMAIN dir' /\ dir'[g] = dir[g]
        /\ \A g \in DOMAIN dir' : g \in DOMAIN dir \/ (g = GzipFile(p.file) /\ dir'[g] = p.id)
        /\ \A i \in DOMAIN archives : i # p.id => archives'[i] = archives[i]
    BY <1>3, <2>1 DEF Put
  <2>. QED
    BY <1>1, <1>6, <2>2, <2>3, <2>4
<1>8. CASE PostCopy(p) /\ ~UNCHANGED <<dir, archives>>
  <2>1. /\ dir' = dir /\ archives' = [archives EXCEPT ![p.out] = logs[p.in]] /\ p.at = "copy"
    BY <1>8 DEF PostCopy
  <2>2. Backup(p.file) \in DOMAIN dir /\ p.in = p.id /\ p.out = p.id /\ p.id \in DOMAIN archives
    BY <1>2, <2>1 DEF Zipping, Types, PostOK, PostInv
  <2>3. ArchLines(p.id)' = LogLines(p.id)
    BY <2>1, <2>2 DEF ArchLines, LogLines
  <2>4. \A i \in DOMAIN archives : i # p.id => archives'[i] = archives[i]
    BY <2>1, <2>2
  <2>. QED
    BY <1>1, <1>6, <2>1, <2>2, <2>3, <2>4
\* The backup goes when the archive has its lines, or has gone because of its age.
<1>9. CASE PostRemove(p) /\ ~UNCHANGED dir
  <2>1. dir' = Unlink(dir, Backup(p.file)) /\ archives' = archives /\ p.at = "remove"
    BY <1>9 DEF PostRemove
  <2>2. Backup(p.file) \in DOMAIN dir /\ archives[p.id] = logs[p.id]
        /\ (GzipFile(p.file) \in DOMAIN dir \/ Expired(p.file))
    BY <1>2, <2>1 DEF Zipping
  <2>3. CASE Expired(p.file)
    <3>1. Backup(p.file)[2] = p.file
      BY <1>3, NameFacts
    <3>. QED
      BY <1>1, <1>4, <2>1, <2>3, <3>1, UnlinkExpires
  <2>4. CASE GzipFile(p.file) \in DOMAIN dir
    <3>1. Lines(GzipFile(p.file)) = Lines(Backup(p.file))
      BY <1>3, <1>4, <2>2, <2>4, LinesIn DEF ArchLines, LogLines
    <3>2. \A g \in DOMAIN dir' : g \in DOMAIN dir /\ Lines(g)' = Lines(g)
      BY <1>1, <2>1 DEF Unlink, Lines, Content
    <3>3. \A g \in DOMAIN dir : g # Backup(p.file) => g \in DOMAIN dir' /\ Lines(g)' = Lines(g)
      BY <1>1, <2>1 DEF Unlink, Lines, Content
    <3>4. GzipFile(p.file) # Backup(p.file)
      BY <1>4
    <3>5. \A f \in DOMAIN dir : \A l \in Lines(f) : \E g \in DOMAIN dir' : l \in Lines(g)'
      BY <2>4, <3>1, <3>3, <3>4
    <3>. QED
      BY <1>1, <3>2, <3>5, KeptSame
  <2>. QED
    BY <2>2, <2>3, <2>4
<1>10. CASE PostDelete(p) /\ ~UNCHANGED dir
  <2>1. PICK f \in p.list : dir' = Unlink(dir, f)
    BY <1>10 DEF PostDelete
  <2>2. archives' = archives
    BY <1>10 DEF PostDelete
  <2>3. f # Main /\ Expired(f[2])
    BY <1>2, <2>1, KindNames DEF ListInv, Types, PostOK, PostState
  <2>. QED
    BY <1>1, <2>1, <2>2, <2>3, UnlinkExpires
<1>. QED
  BY <1>1, <1>5, <1>7, <1>8, <1>9, <1>10 DEF Post, PostOpen, PostRemove, PostList, PostDelete

\* A new log file, which has no line, takes away none.
LEMMA CreateKeeps ==
  ASSUME Full, CreateLog, Main \notin DOMAIN dir
  PROVE  Kept' = Kept
<1>1. /\ Types /\ Len(logs) \in Nat /\ Len(logs') = Len(logs) + 1
      /\ \A i \in 1..Len(logs) : logs'[i] = logs[i]
      /\ logs'[Len(logs) + 1] = <<>> /\ archives' = archives
      /\ dir' = Put(dir, Main, Len(logs) + 1)
  BY LogsGrow DEF Full, Types
<1>2. /\ DOMAIN dir' = DOMAIN dir \union {Main} /\ dir'[Main] = Len(logs) + 1
      /\ \A f \in DOMAIN dir : dir'[f] = dir[f]
  BY <1>1 DEF Put
<1>3. \A f \in DOMAIN dir : Lines(f)' = Lines(f)
  <2>1. \A f \in DOMAIN dir : dir[f] \in 1..Len(logs)
    BY LinesIn
  <2>. QED
    BY <1>1, <1>2, <2>1, LinesIn, LinesNext DEF ArchLines, LogLines
<1>4. Lines(Main)' = {}
  BY <1>1, <1>2, NameFacts, LinesNext, LineSets
<1>. QED
  BY <1>2, <1>3, <1>4, KeptSame

\* A renamed file is read under its new name, which had no file.
LEMMA RenameKeeps ==
  ASSUME Full, Daily, Renamed, UNCHANGED <<logs, archives>>
  PROVE  Kept' = Kept
<1>0. PICK b : b = backup
  OBVIOUS
<1>1. Types /\ NameInv /\ Time \subseteq Nat /\ b \in Time /\ worker = "rename"
      /\ Main \in DOMAIN dir
  BY <1>0, Numbers DEF Full, DailyInv, Types, FileOK, Renamed
<1>2. Backup(b) # Main /\ Backup(b)[1] = "backup" /\ Backup(b)[2] = b
      /\ Main[1] = "log"
  BY <1>1, NameFacts
<1>3. Backup(b) \notin DOMAIN dir
  <2>1. ASSUME NEW i, Stamped(b, i) PROVE FALSE
    <3>1. i \in Nat /\ b \in Time /\ b \in Nat
      BY <1>0, <1>1, <2>1, StampedFiles
    <3>2. b < backup
      BY <1>1, <2>1, <3>1 DEF NameInv
    <3>. QED
      BY <1>0, <3>1, <3>2
  <2>. QED
    BY <1>2, <2>1 DEF Stamped
<1>4. /\ Main \notin DOMAIN dir'
      /\ Backup(b) \in DOMAIN dir' /\ dir'[Backup(b)] = dir[Main]
      /\ \A f \in DOMAIN dir : f # Main => f \in DOMAIN dir'
      /\ \A f \in DOMAIN dir' : f # Backup(b) => f \in DOMAIN dir /\ f # Main /\ dir'[f] = dir[f]
  BY <1>0, <1>1, RenamedStamps
<1>5. Lines(Backup(b))' = Lines(Main)
  BY <1>1, <1>2, <1>4, LinesIn, LinesNext DEF LogLines
<1>6. \A f \in DOMAIN dir : f # Main => f \in DOMAIN dir' /\ Lines(f)' = Lines(f)
  BY <1>3, <1>4, LinesIn, LinesNext DEF LogLines, ArchLines
<1>. QED
  BY <1>1, <1>4, <1>5, <1>6, KeptSame

\* A line written is stored after all that are there, and takes away none.
LEMMA PutKeeps ==
  ASSUME Full, Daily, PutLine
  PROVE  UNCHANGED <<now, accepted>> /\ (Kept' = Kept \/ \E l \in 1..Len(accepted) : Retained!Store(l))
<1>1. /\ Types /\ MainInv /\ NameInv /\ LineInv /\ event # 0 /\ event \in Nat
      /\ Len(accepted) \in Nat /\ Len(channel) \in Nat /\ Len(logs) \in Nat
  BY Numbers DEF Full, DailyInv, Types, HandOK, PutLine
<1>2. now' = now /\ accepted' = accepted /\ dir' = dir /\ fp' = fp
  BY <1>1, FailTypes DEF Types, PutLine, callVars
<1>3. /\ Len(logs') = Len(logs) /\ archives' = archives
      /\ \A i \in 1..Len(logs) : i # fp => logs'[i] = logs[i]
      /\ logs' # logs => fp # 0 /\ LogLines(fp)' = LogLines(fp) \union {event}
  BY <1>1, PutLineLines
<1>4. CASE logs' = logs
  BY <1>2, <1>3, <1>4 DEF Kept, Lines, Content
<1>5. CASE logs' # logs
  <2>1. fp # 0 /\ Main \in DOMAIN dir /\ dir[Main] = fp /\ fp = Len(logs)
    BY <1>1, <1>3, <1>5 DEF MainInv
  <2>2. Lines(Main)' = Lines(Main) \union {event}
    BY <1>2, <1>3, <1>5, <2>1, NameFacts, LinesIn, LinesNext DEF LogLines
  <2>3. ASSUME NEW f \in DOMAIN dir, f # Main PROVE Lines(f)' = Lines(f)
    <3>1. dir[f] \in 1..Len(logs) /\ dir[f] # fp
      BY <1>1, <2>1, <2>3, StampedFiles DEF NameInv
    <3>. QED
      BY <1>2, <1>3, <3>1, LinesIn, LinesNext DEF LogLines, ArchLines
  <2>4. Kept' = Kept \union {event}
    BY <1>2, <2>1, <2>2, <2>3 DEF Kept
  <2>5. \A k \in Kept : k < event
    BY <1>1, LinesIn DEF Kept, LineInv
  <2>6. event \in 1..Len(accepted)
    BY <1>1 DEF LineInv
  <2>7. Retained!Store(event)
    BY <1>2, <2>4, <2>5 DEF Retained!Store
  <2>. QED
    BY <1>2, <2>6, <2>7
<1>. QED
  BY <1>4, <1>5

\* A step of the logger is a step of the retained log or leaves it alone.
LEMMA RetainedStep ==
  ASSUME Full, Daily, [Next]_vars PROVE [Retained!Next]_(Retained!vars)
<1>. USE DEF clockVars, callVars, handVars, fileVars, diskVars
<1>1. Types /\ MainInv
  BY DEF Full, DailyInv
<1>2. ASSUME UNCHANGED <<now, accepted, dir, logs, archives>> PROVE UNCHANGED Retained!vars
  BY <1>2 DEF Retained!vars, Kept, Lines, Content
<1>3. CASE Tick
  <2>1. now' = now + 1 /\ accepted' = accepted /\ UNCHANGED <<dir, logs, archives>>
    BY <1>3 DEF Tick
  <2>2. Retained!Tick
    BY <2>1 DEF Retained!Tick, Kept, Lines, Content
  <2>. QED
    BY <2>2 DEF Retained!Next
<1>4. CASE Write
  <2>1. accepted' = Append(accepted, now) /\ now' = now /\ UNCHANGED <<dir, logs, archives>>
    BY <1>4 DEF Write
  <2>2. Retained!Accept
    BY <2>1 DEF Retained!Accept, Kept, Lines, Content
  <2>. QED
    BY <2>2 DEF Retained!Next
<1>5. CASE NewLogger \/ RotateCreate
  <2>1. now' = now /\ accepted' = accepted
    BY <1>1, <1>5, FailTypes DEF NewLogger, RotateCreate, Types
  <2>2. CASE UNCHANGED <<dir, logs, archives>>
    BY <1>2, <2>1, <2>2
  <2>3. CASE CreateLog /\ Main \notin DOMAIN dir
    BY <2>1, <2>3, CreateKeeps DEF Retained!vars
  <2>. QED
    BY <1>1, <1>5, <2>2, <2>3 DEF NewLogger, RotateCreate, MainInv
<1>6. CASE RotateRename
  <2>1. now' = now /\ UNCHANGED <<accepted, logs, archives>>
    BY <1>1, <1>6, FailTypes DEF RotateRename, Types
  <2>2. CASE Renamed
    BY <2>1, <2>2, RenameKeeps DEF Retained!vars
  <2>3. CASE ~Renamed
    BY <1>2, <1>6, <2>1, <2>3 DEF RotateRename, Renamed
  <2>. QED
    BY <2>2, <2>3
<1>7. CASE PutLine
  BY <1>7, PutKeeps DEF Retained!Next, Retained!vars
<1>8. CASE \E p \in posts : Post(p)
  BY <1>8, PostKeeps DEF Retained!Next, Retained!vars
<1>9. CASE RotateClose \/ MarkRotated
  BY <1>1, <1>2, <1>9, FailTypes DEF RotateClose, MarkRotated, Types
<1>10. CASE Crash \/ CloseStart \/ CloseFinish \/ Hands \/ UNCHANGED vars
  BY <1>2, <1>10
  DEF Crash, CloseStart, CloseFinish, Hands, TakeEvent, SeeDone, Drained, CheckRotate, vars
<1>. QED
  BY <1>3, <1>4, <1>5, <1>6, <1>7, <1>8, <1>9, <1>10, NextCases DEF Process, Calls, Files

\* Under the daily rule renaming, compressing, failures, restarts and the
\* deletion of outdated files together never take a stored line away before it
\* is KeepDays days old, and lines are stored in the order of acceptance: the
\* logger (rotatelogger.go) implements RetainedLog.
THEOREM Retains == ASSUME Daily PROVE Spec => RetainedSpec
<1>1. Init => Retained!Init
  <2>. SUFFICES ASSUME Init PROVE Retained!Init
    OBVIOUS
  <2>2. now = 0 /\ accepted = <<>> /\ dir = <<>>
    BY DEF Init
  <2>3. DOMAIN dir = {}
    BY <2>2
  <2>. QED
    BY <2>2, <2>3 DEF Retained!Init, Kept
<1>2. IInv /\ [Next]_vars => [Retained!Next]_(Retained!vars)
  BY Parts, RetainedStep
<1>. QED
  BY <1>1, <1>2, Inductive, PTL DEF Spec, RetainedSpec, Retained!Spec

-----------------------------------------------------------------------------
(* What becomes of every line, under either rule. *)

\* Lines that were written to a file, and lines the logger has still to write.
Stored  == UNION {LogLines(i) : i \in 1..Len(logs)}
Waiting == {channel[k] : k \in 1..Len(channel)} \union {event}

\* The lines that Write took and that are neither.
Lost == (1..Len(accepted)) \ (Stored \union Waiting)

\* What may be lost: a line for every file operation that failed, a full channel
\* and the line in hand for every end of the process.
LossesPaid == Cardinality(Lost) <= fails + restarts * (BufSize + 1)

\* The rule asks for a rotation, now and until one has succeeded.
Behind == IF Daily THEN rotatedTime < now ELSE MaxSize > 0 /\ MaxSize < currentSize + 1

\* The worker is about to lose the line in hand.
Charge == IF worker = "put" /\ fp = 0 THEN 1 ELSE 0

\* Without an open file the next line brings a rotation, so a line finds no file
\* only after a failure of its own.
PaidInv ==
  /\ rotatedTime <= now
  /\ worker = "mark" => fp # 0
  /\ worker \in {"rotate", "rename", "create"} => Behind
  /\ fp = 0 /\ worker \in {"select", "write", "put", "gone"} /\ closing # "closed" => Behind
  /\ Cardinality(Lost) + Charge <= fails + restarts * (BufSize + 1)

\* There are finitely many lost lines.
LEMMA LostFinite == ASSUME Types PROVE IsFiniteSet(Lost) /\ Cardinality(Lost) \in Nat
<1>1. IsFiniteSet(1..Len(accepted))
  BY Numbers, FS_Interval
<1>2. Lost \in SUBSET (1..Len(accepted))
  BY DEF Lost
<1>. QED
  BY <1>1, <1>2, FS_Subset, FS_CardinalityType

\* How their number grows when the lines of a set more are lost.
LEMMA LostMore ==
  ASSUME Types, NEW S, IsFiniteSet(S), Lost' \subseteq Lost \union S
  PROVE  /\ Cardinality(S) \in Nat /\ Cardinality(Lost') \in Nat
         /\ Cardinality(Lost') <= Cardinality(Lost) + Cardinality(S)
<1>1. IsFiniteSet(Lost) /\ Cardinality(Lost) \in Nat
  BY LostFinite
<1>2. IsFiniteSet(Lost \union S) /\ Cardinality(S) \in Nat /\ Cardinality(Lost \intersect S) \in Nat
      /\ Cardinality(Lost \union S) = Cardinality(Lost) + Cardinality(S) - Cardinality(Lost \intersect S)
  <2>1. IsFiniteSet(Lost \intersect S) /\ Lost \intersect S \in SUBSET S
    BY FS_Subset
  <2>. QED
    BY <1>1, <2>1, FS_Union, FS_CardinalityType
<1>3. IsFiniteSet(Lost') /\ Cardinality(Lost') <= Cardinality(Lost \union S)
  BY <1>2, FS_Subset
<1>4. Cardinality(Lost') \in Nat
  BY <1>3, FS_CardinalityType
<1>. QED
  BY <1>1, <1>2, <1>3, <1>4

\* One line more.
LEMMA LostOne ==
  ASSUME Types, NEW x, Lost' \subseteq Lost \union {x}
  PROVE  Cardinality(Lost') \in Nat /\ Cardinality(Lost') <= Cardinality(Lost) + 1
<1>1. IsFiniteSet({x}) /\ Cardinality({x}) = 1
  BY FS_Singleton
<1>. QED
  BY <1>1, LostMore

\* None.
LEMMA LostLess ==
  ASSUME Types, Lost' \subseteq Lost
  PROVE  Cardinality(Lost') \in Nat /\ Cardinality(Lost') <= Cardinality(Lost)
<1>1. IsFiniteSet({}) /\ Cardinality({}) = 0
  BY FS_EmptySet
<1>. QED
  BY <1>1, LostMore, LostFinite

\* A file more, or none: what is stored stays stored.
LEMMA StoredStays ==
  ASSUME Types, logs' = logs \/ CreateLog PROVE Stored \subseteq Stored'
<1>1. CASE logs' = logs
  BY <1>1 DEF Stored, LogLines
<1>2. CASE CreateLog
  <2>1. Len(logs) \in Nat /\ Len(logs') = Len(logs) + 1
        /\ \A i \in 1..Len(logs) : LogLines(i)' = LogLines(i)
    BY <1>2, Numbers, NewFileLines
  <2>2. 1..Len(logs) \subseteq 1..Len(logs')
    BY <2>1
  <2>. QED
    BY <2>1, <2>2 DEF Stored
<1>. QED
  BY <1>1, <1>2

\* A line is lost only where the worker writes it and where the process ends.
LEMMA LostNowhere ==
  ASSUME Types, [Next]_vars, ~Crash, ~PutLine PROVE Lost' \subseteq Lost
<1>. USE DEF callVars, handVars, fileVars, diskVars
<1>0. accepted \in Seq(Time) /\ channel \in Seq(Line) /\ now \in Time
      /\ Len(accepted) \in Nat /\ Len(channel) \in Nat /\ Line \subseteq Nat
  BY Numbers, BoundAssumption DEF Types, CallOK, ClockOK, Line
<1>1. logs' = logs \/ CreateLog
  BY NextCases
  DEF Process, Calls, Hands, Files, Tick, NewLogger, Write, CloseStart, CloseFinish, TakeEvent,
      SeeDone, Drained, CheckRotate, RotateClose, RotateRename, RotateCreate, MarkRotated, Post,
      PostOpen, PostZip, PostCopy, PostRemove, PostList, PostDelete, PostUnchanged, vars
<1>2. Stored \subseteq Stored'
  BY <1>1, StoredStays
<1>3. CASE Write
  <2>1. Len(accepted) + 1 \in Line
    BY <1>0, <1>3, BoundAssumption DEF Write, Line
  <2>2. Len(accepted') = Len(accepted) + 1 /\ event' = event
    BY <1>0, <1>3, AppendProperties DEF Write
  <2>3. /\ Len(channel') = Len(channel) + 1 /\ channel'[Len(channel) + 1] = Len(accepted) + 1
        /\ \A k \in 1..Len(channel) : channel'[k] = channel[k]
    BY <1>0, <1>3, <2>1, AppendProperties DEF Write
  <2>4. Waiting \subseteq Waiting' /\ Len(accepted) + 1 \in Waiting'
    <3>1. 1..Len(channel) \subseteq 1..Len(channel') /\ Len(channel) + 1 \in 1..Len(channel')
      BY <1>0, <2>3
    <3>. QED
      BY <2>2, <2>3, <3>1 DEF Waiting
  <2>5. \A l \in 1..Len(accepted') : l \in 1..Len(accepted) \/ l = Len(accepted) + 1
    BY <1>0, <2>2
  <2>. QED
    BY <1>2, <2>4, <2>5 DEF Lost
<1>4. CASE TakeEvent
  <2>1. channel # <<>> /\ channel' = Tail(channel) /\ event' = Head(channel) /\ event = 0
        /\ accepted' = accepted
    BY <1>4 DEF TakeEvent, Types, HandOK
  <2>2. /\ Len(channel') = Len(channel) - 1 /\ Head(channel) = channel[1]
        /\ \A k \in 1..Len(channel') : channel'[k] = channel[k + 1]
    BY <1>0, <2>1, HeadTailProperties
  <2>3. ASSUME NEW k \in 1..Len(channel) PROVE channel[k] \in Waiting'
    <3>1. CASE k = 1
      BY <2>1, <2>2, <3>1 DEF Waiting
    <3>2. CASE k # 1
      <4>1. k - 1 \in 1..Len(channel') /\ (k - 1) + 1 = k
        BY <1>0, <2>2, <3>2
      <4>2. channel'[k - 1] = channel[k]
        BY <2>2, <4>1
      <4>. QED
        BY <4>1, <4>2 DEF Waiting
    <3>. QED
      BY <3>1, <3>2
  <2>4. \A l \in 1..Len(accepted) : l # 0
    BY <1>0
  <2>. QED
    BY <1>2, <2>1, <2>3, <2>4 DEF Lost, Waiting
<1>5. CASE ~Write /\ ~TakeEvent
  <2>1. UNCHANGED <<accepted, channel, event>>
    BY <1>5, NextCases
    DEF Process, Calls, Hands, Files, Tick, NewLogger, CloseStart, CloseFinish,
        SeeDone, Drained, CheckRotate, RotateClose, RotateRename, RotateCreate, MarkRotated, Post,
        PostOpen, PostZip, PostCopy, PostRemove, PostList, PostDelete, PostUnchanged, vars
  <2>. QED
    BY <1>2, <2>1 DEF Lost, Waiting
<1>. QED
  BY <1>3, <1>4, <1>5

\* Where the worker writes, the line in hand is stored, or a failure or the
\* missing file loses it.
LEMMA LostAtPut ==
  ASSUME Types, PutLine
  PROVE  /\ Lost' \subseteq Lost \union {event}
         /\ fp # 0 /\ Ok => Lost' \subseteq Lost
<1>1. /\ Len(logs') = Len(logs) /\ fp \in 0..Len(logs) /\ Len(logs) \in Nat
      /\ \A i \in 1..Len(logs) : i # fp => LogLines(i)' = LogLines(i)
      /\ fp # 0 => LogLines(fp) \subseteq LogLines(fp)'
  BY Numbers, PutLineLines DEF Types, FileOK
<1>2. Stored \subseteq Stored'
  <2>1. ASSUME NEW i \in 1..Len(logs) PROVE LogLines(i) \subseteq LogLines(i)'
    <3>1. fp' = fp
      BY DEF PutLine
    <3>2. CASE i = fp
      <4>1. fp # 0 /\ LogLines(i)' = LogLines(fp)'
        BY <1>1, <3>1, <3>2 DEF LogLines
      <4>. QED
        BY <1>1, <3>2, <4>1
    <3>. QED
      BY <1>1, <3>2
  <2>. QED
    BY <1>1, <2>1 DEF Stored
<1>3. UNCHANGED <<accepted, channel>>
  BY DEF PutLine, callVars
<1>4. Lost' \subseteq Lost \union {event}
  BY <1>2, <1>3 DEF Lost, Waiting
<1>5. ASSUME fp # 0, Ok PROVE event \in Stored'
  <2>1. logs' # logs
    <3>1. logs' = [logs EXCEPT ![fp] = Append(@, event)]
      BY <1>5, BoundAssumption DEF PutLine, Ok, Fail, clockVars, Types, ClockOK
    <3>2. fp \in 1..Len(logs) /\ logs \in Seq(Seq(Line)) /\ event \in Line
      BY <1>1, <1>5, Numbers DEF Types, LogsOK, HandOK, PutLine, Line
    <3>3. logs[fp] \in Seq(Line) /\ logs'[fp] = Append(logs[fp], event)
      BY <3>1, <3>2, ExceptSeq, ElementOfSeq
    <3>4. Len(logs'[fp]) = Len(logs[fp]) + 1 /\ Len(logs[fp]) \in Nat
      BY <3>2, <3>3, AppendProperties, LenProperties
    <3>. QED
      BY <3>4
  <2>2. fp \in 1..Len(logs') /\ event \in LogLines(fp)'
    BY <1>1, <1>5, <2>1, PutLineLines
  <2>3. fp' = fp
    BY DEF PutLine
  <2>. QED
    BY <2>2, <2>3 DEF Stored, LogLines
<1>. QED
  BY <1>2, <1>3, <1>4, <1>5 DEF Lost, Waiting

\* An end of the process loses what waits.
LEMMA LostAtCrash ==
  ASSUME Types, CloseInv, Crash
  PROVE  Cardinality(Lost') \in Nat /\ Cardinality(Lost') <= Cardinality(Lost) + (BufSize + 1)
<1>. DEFINE n == Len(accepted)
            b == Len(channel)
            S == (n - b + 1 .. n) \union {event}
<1>1. n \in Nat /\ b \in Nat /\ b <= BufSize /\ BufSize \in Nat
      /\ \A k \in 1..b : channel[k] \in Nat
  <2>1. channel \in Seq(Line) /\ b <= BufSize
    BY DEF Types, CallOK
  <2>2. \A k \in 1..b : channel[k] \in Line
    BY <2>1, ElementOfSeq
  <2>. QED
    BY <2>1, <2>2, Numbers, BoundAssumption DEF Line
<1>2. Waiting \subseteq S
  <2>1. ASSUME NEW k \in 1..b PROVE channel[k] \in n - b + 1 .. n
    <3>1. channel[k] \in Nat /\ channel[k] + b = n + k
      BY <1>1 DEF CloseInv
    <3>2. PICK x : x = channel[k]
      OBVIOUS
    <3>. HIDE DEF n, b
    <3>3. x \in n - b + 1 .. n
      BY <1>1, <3>1, <3>2
    <3>. QED
      BY <3>2, <3>3
  <2>. QED
    BY <2>1 DEF Waiting
<1>3. IsFiniteSet(S) /\ Cardinality(S) <= BufSize + 1
  <2>. HIDE DEF n, b
  <2>1. IsFiniteSet(n - b + 1 .. n) /\ Cardinality(n - b + 1 .. n) = b
    <3>1. n - b + 1 \in Int /\ n \in Int
      BY <1>1
    <3>2. IsFiniteSet(n - b + 1 .. n)
          /\ Cardinality(n - b + 1 .. n) = IF n - b + 1 > n THEN 0 ELSE n - (n - b + 1) + 1
      BY <3>1, FS_Interval
    <3>. QED
      BY <1>1, <3>2
  <2>. DEFINE D == n - b + 1 .. n
  <2>. HIDE DEF D
  <2>2. IsFiniteSet(D \union {event}) /\ Cardinality(D) = b
        /\ Cardinality(D \union {event}) = IF event \in D THEN Cardinality(D) ELSE Cardinality(D) + 1
    BY <2>1, FS_AddElement DEF D
  <2>3. S = D \union {event}
    BY DEF D
  <2>. HIDE DEF S
  <2>. QED
    BY <1>1, <2>2, <2>3
<1>4. UNCHANGED <<accepted, logs>>
  BY DEF Crash, diskVars
<1>5. Lost' \subseteq Lost \union S
  BY <1>2, <1>4 DEF Lost, Stored, LogLines
<1>. HIDE DEF S
<1>6. Cardinality(S) \in Nat /\ Cardinality(Lost') \in Nat
      /\ Cardinality(Lost') <= Cardinality(Lost) + Cardinality(S)
  BY <1>3, <1>5, LostMore
<1>. QED
  BY <1>1, <1>3, <1>6, LostFinite

\* The invariant of the losses is inductive: a failure pays for the line it loses.
LEMMA StepPaid ==
  ASSUME Types, Types', CloseInv, PaidInv, [Next]_vars PROVE PaidInv'
<1>. USE DEF clockVars, callVars, handVars, fileVars, diskVars
<1>. DEFINE N == Cardinality(Lost)
            M == Cardinality(Lost)'
<1>1. /\ now \in Nat /\ rotatedTime \in Nat /\ fp \in Nat /\ fails \in Nat /\ restarts \in Nat
      /\ BufSize \in Nat /\ N \in Nat /\ currentSize \in Nat /\ MaxSize \in Nat
      /\ Daily \in BOOLEAN
  BY Numbers, LostFinite, BoundAssumption, SettingAssumption DEF Types, ClockOK, FileOK
<1>2. N + Charge <= fails + restarts * (BufSize + 1)
  BY DEF PaidInv
<1>3. ~Crash /\ ~PutLine => M \in Nat /\ M <= N
  BY LostNowhere, LostLess
<1>4. CASE Tick
  <2>1. now' = now + 1 /\ UNCHANGED <<fails, restarts, worker, fp, rotatedTime, currentSize, closing>>
        /\ M <= N /\ M \in Nat
    BY <1>3, <1>4 DEF Tick, Crash, PutLine
  <2>. QED
    BY <1>1, <1>2, <2>1 DEF PaidInv, Behind, Charge
<1>5. CASE NewLogger
  <2>1. now' = now /\ rotatedTime' = now /\ worker' = "select" /\ closing' = closing
        /\ fails' = fails /\ restarts' = restarts
    BY <1>5 DEF NewLogger
  <2>2. fp' # 0
    BY <1>5, Numbers, NewFileLines DEF NewLogger
  <2>3. M \in Nat /\ M <= N
    BY <1>3, <1>5, <2>1 DEF Crash, PutLine, NewLogger
  <2>. QED
    BY <1>1, <1>2, <2>1, <2>2, <2>3 DEF PaidInv, Charge
<1>6. CASE Crash
  <2>1. now' = now /\ rotatedTime' = 0 /\ worker' = "off" /\ fails' = fails
        /\ restarts' = restarts + 1
    BY <1>6 DEF Crash
  <2>2. M \in Nat /\ M <= N + (BufSize + 1)
    BY <1>6, LostAtCrash
  <2>3. (restarts + 1) * (BufSize + 1) = restarts * (BufSize + 1) + (BufSize + 1)
    BY <1>1
  <2>4. N <= fails + restarts * (BufSize + 1)
    BY <1>1, <1>2 DEF Charge
  <2>5. PICK r \in Nat : r = restarts * (BufSize + 1)
    BY <1>1
  <2>. QED
    BY <1>1, <2>1, <2>2, <2>3, <2>4, <2>5 DEF PaidInv, Charge
<1>. DEFINE bound == restarts * (BufSize + 1)
<1>7. PICK b \in Nat : b = bound
  BY <1>1
<1>8. ASSUME UNCHANGED <<now, fails, restarts, rotatedTime, currentSize, fp>>,
             ~Crash, ~PutLine, closing' = closing \/ (closing' # "closed" /\ closing # "closed"),
             \/ worker' = worker
             \/ worker' \in {"select", "write", "gone"} /\ worker \in {"select", "write"}
      PROVE  PaidInv'
  <2>1. closing = "closed" => worker = "gone"
    BY DEF CloseInv
  <2>2. M \in Nat /\ M <= N
    BY <1>3, <1>8
  <2>3. Charge' <= Charge /\ Charge \in Nat /\ Charge' \in Nat
    BY <1>8 DEF Charge
  <2>4. Behind' <=> Behind
    BY <1>8 DEF Behind
  <2>5. bound' = bound
    BY <1>8
  <2>6. M + Charge' <= fails + b
    BY <1>1, <1>2, <1>7, <2>2, <2>3
  <2>. HIDE DEF M, N, bound
  <2>7. fails' + bound' = fails + b
    BY <1>7, <1>8, <2>5
  <2>. QED
    BY <1>8, <2>1, <2>4, <2>6, <2>7 DEF PaidInv, M, bound
<1>9. CASE Write \/ CloseStart \/ TakeEvent \/ SeeDone \/ Drained \/ UNCHANGED vars
  <2>1. ~Crash /\ ~PutLine
    BY <1>1, <1>9 DEF Write, CloseStart, TakeEvent, SeeDone, Drained, Crash, PutLine, vars, Types, HandOK
  <2>2. UNCHANGED <<now, fails, restarts, rotatedTime, currentSize, fp>>
    BY <1>9 DEF Write, CloseStart, TakeEvent, SeeDone, Drained, vars
  <2>3. closing' = closing \/ (closing' # "closed" /\ closing # "closed")
    BY <1>9 DEF Write, CloseStart, TakeEvent, SeeDone, Drained, vars
  <2>4. \/ worker' = worker
        \/ worker' \in {"select", "write", "gone"} /\ worker \in {"select", "write"}
    BY <1>9 DEF Write, CloseStart, TakeEvent, SeeDone, Drained, vars
  <2>. QED
    BY <1>8, <2>1, <2>2, <2>3, <2>4
<1>10. CASE \E p \in posts : Post(p)
  <2>1. /\ UNCHANGED <<now, restarts, rotatedTime, currentSize, fp, closing, worker>>
        /\ fails' = fails \/ fails' = fails + 1
        /\ ~Crash /\ ~PutLine
    BY <1>1, <1>10
    DEF Post, PostOpen, PostZip, PostCopy, PostRemove, PostList, PostDelete, PostUnchanged,
        Ok, Fail, Crash, PutLine
  <2>. QED
    BY <1>1, <1>2, <1>3, <1>7, <2>1 DEF PaidInv, Behind, Charge
<1>11. CASE CloseFinish
  <2>1. /\ UNCHANGED <<now, fails, restarts, rotatedTime, currentSize, worker>>
        /\ closing' = "closed" /\ worker = "gone" /\ ~Crash /\ ~PutLine
    BY <1>1, <1>11 DEF CloseFinish, Crash, PutLine
  <2>. QED
    BY <1>1, <1>2, <1>3, <1>7, <2>1 DEF PaidInv, Behind, Charge
\* The steps of a rotation.  Each that fails brings the line a charge.
<1>12. ASSUME now' = now, restarts' = restarts, ~Crash, ~PutLine,
              fails' \in Nat, Charge' \in Nat, Charge' <= fails' - fails, Charge = 0
       PROVE  Cardinality(Lost)' + Charge' <= fails' + restarts' * (BufSize + 1)
  <2>1. M \in Nat /\ M <= N
    BY <1>3, <1>12
  <2>2. N <= fails + b
    BY <1>1, <1>2, <1>7, <1>12
  <2>3. bound' = b
    BY <1>7, <1>12
  <2>. HIDE DEF M, N, bound
  <2>4. M + Charge' <= fails' + b
    <3>1. PICK f \in Nat : f = fails'
      BY <1>12
    <3>2. PICK c \in Nat : c = Charge'
      BY <1>12
    <3>3. c <= f - fails
      BY <1>12, <3>1, <3>2
    <3>4. M + c <= f + b
      BY <1>1, <2>1, <2>2, <3>3
    <3>. QED
      BY <3>1, <3>2, <3>4
  <2>. QED
    BY <2>3, <2>4 DEF M, bound
<1>13. CASE CheckRotate
  <2>1. /\ UNCHANGED <<now, fails, restarts, rotatedTime, currentSize, fp, closing>>
        /\ worker = "write" /\ worker' = IF ShallRotate THEN "rotate" ELSE "put"
        /\ closing # "closed"
    BY <1>13 DEF CheckRotate, CloseInv
  <2>2. /\ ShallRotate => Behind
        /\ Behind => ShallRotate
    BY <1>1 DEF PaidInv, ShallRotate, Behind
  <2>3. (Behind' <=> Behind) /\ (fp = 0 => worker' = "rotate")
    BY <2>1, <2>2 DEF PaidInv, Behind
  <2>4. Charge = 0 /\ Charge' = 0 /\ ~Crash /\ ~PutLine
    BY <1>1, <2>1, <2>3 DEF Charge, Crash, PutLine
  <2>5. Cardinality(Lost)' + Charge' <= fails' + restarts' * (BufSize + 1)
    BY <1>1, <1>12, <2>1, <2>4
  <2>. QED
    BY <2>1, <2>2, <2>3, <2>5 DEF PaidInv
<1>14. CASE RotateClose \/ RotateRename \/ RotateCreate \/ MarkRotated
  <2>1. /\ now' = now /\ restarts' = restarts /\ closing' = closing
        /\ fails' \in {fails, fails + 1} /\ worker \in {"rotate", "rename", "create", "mark"}
        /\ worker' \in {"rename", "create", "mark", "put"}
    BY <1>14 DEF RotateClose, RotateRename, RotateCreate, MarkRotated, Ok, Fail
  <2>2. \/ /\ worker \in {"rotate", "rename", "create"}
           /\ UNCHANGED <<rotatedTime, currentSize>>
           /\ worker' = "put" => fails' = fails + 1
           /\ worker' = "mark" => fp' # 0
        \/ /\ worker = "mark" /\ rotatedTime' = now
           /\ worker' = "put" /\ fp' = fp
    BY <1>14, Numbers, NewFileLines
    DEF RotateClose, RotateRename, RotateCreate, MarkRotated, Ok, Fail
  <2>3. /\ Charge = 0 /\ Charge' \in {0, 1}
        /\ Charge' = 1 => fails' = fails + 1
    BY <2>1, <2>2 DEF Charge, PaidInv
  <2>4. ~Crash /\ ~PutLine
    BY <1>1, <2>1 DEF Crash, PutLine
  <2>5. Cardinality(Lost)' + Charge' <= fails' + restarts' * (BufSize + 1)
    <3>1. fails' \in Nat /\ Charge' \in Nat /\ Charge' <= fails' - fails
      <4>1. PICK f : f = fails'
        OBVIOUS
      <4>2. PICK c : c = Charge'
        OBVIOUS
      <4>3. f \in {fails, fails + 1} /\ c \in {0, 1} /\ (c = 1 => f = fails + 1)
        BY <2>1, <2>3, <4>1, <4>2
      <4>4. f \in Nat /\ c \in Nat /\ c <= f - fails
        BY <1>1, <4>3
      <4>. QED
        BY <4>1, <4>2, <4>4
    <3>. QED
      BY <1>12, <2>1, <2>3, <2>4, <3>1
  <2>6. worker # "mark" => (Behind /\ Behind')
    BY <2>1, <2>2 DEF PaidInv, Behind
  <2>7. worker = "mark" => fp # 0
    BY DEF PaidInv
  <2>. QED
    BY <1>1, <2>1, <2>2, <2>5, <2>6, <2>7 DEF PaidInv
<1>15. CASE PutLine
  <2>1. /\ now' = now /\ restarts' = restarts /\ UNCHANGED <<rotatedTime, fp, closing>>
        /\ worker = "put" /\ worker' = "select" /\ closing # "closed"
        /\ currentSize' = IF fp = 0 THEN currentSize ELSE currentSize + 1
    BY <1>15 DEF PutLine, Ok, Fail, CloseInv
  <2>2. Charge' = 0 /\ (fp = 0 => Charge = 1) /\ (fp # 0 => Charge = 0)
    BY <2>1 DEF Charge
  <2>3. M \in Nat /\ M <= N + 1
    BY <1>15, LostAtPut, LostOne
  <2>4. M + Charge' <= fails' + b
    <3>1. CASE fp = 0
      <4>1. fails' = fails
        BY <1>15, <3>1 DEF PutLine, Ok
      <4>. HIDE DEF M, N
      <4>. QED
        BY <1>1, <1>2, <1>7, <2>2, <2>3, <3>1, <4>1
    <3>2. CASE fp # 0 /\ Ok
      <4>1. M <= N /\ fails' = fails
        BY <1>15, <3>2, LostAtPut, LostLess DEF Ok
      <4>. HIDE DEF M, N
      <4>. QED
        BY <1>1, <1>2, <1>7, <2>2, <2>3, <3>2, <4>1
    <3>3. CASE fp # 0 /\ Fail
      <4>1. fails' = fails + 1
        BY <3>3 DEF Fail
      <4>. HIDE DEF M, N
      <4>. QED
        BY <1>1, <1>2, <1>7, <2>2, <2>3, <3>3, <4>1
    <3>. QED
      BY <1>15, <3>1, <3>2, <3>3 DEF PutLine
  <2>5. fp = 0 => Behind /\ Behind'
    BY <2>1 DEF PaidInv, Behind
  <2>6. bound' = b
    BY <1>7, <2>1
  <2>. HIDE DEF M, N, bound
  <2>7. Cardinality(Lost)' + Charge' <= fails' + restarts' * (BufSize + 1)
    BY <2>4, <2>6 DEF M, bound
  <2>8. rotatedTime' <= now'
    BY <2>1 DEF PaidInv
  <2>. QED
    BY <2>1, <2>5, <2>7, <2>8 DEF PaidInv
<1>. QED
  BY <1>4, <1>5, <1>6, <1>9, <1>10, <1>11, <1>13, <1>14, <1>15, NextCases
  DEF Process, Calls, Hands, Files

\* Every line Write took is in a file, waits, or is paid for by a failed operation
\* or an end of the process (rotatelogger.go): a rotation that failed costs the
\* line it was for and not the lines after it.
THEOREM NoUnpaidLoss == Spec => []LossesPaid
<1>1. Init => PaidInv
  <2>. SUFFICES ASSUME Init PROVE PaidInv
    OBVIOUS
  <2>1. /\ Len(accepted) = 0 /\ worker = "off" /\ rotatedTime = 0 /\ now = 0
        /\ fails = 0 /\ restarts = 0
    BY DEF Init
  <2>2. Lost = {} /\ Cardinality(Lost) = 0
    BY <2>1, FS_EmptySet DEF Lost
  <2>3. 0 * (BufSize + 1) = 0
    BY BoundAssumption
  <2>. QED
    BY <2>1, <2>2, <2>3 DEF PaidInv, Charge
<1>2. IInv /\ IInv' /\ PaidInv /\ [Next]_vars => PaidInv'
  <2>1. (IInv => Types /\ CloseInv) /\ (IInv' => Types')
    BY Parts DEF IInv, Types, TypeOK, ClockOK, CallOK, HandOK, FileOK, LogsOK, DirOK, PostOK
  <2>. QED
    BY <2>1, StepPaid
<1>3. IInv /\ PaidInv => LossesPaid
  <2>. SUFFICES ASSUME IInv, PaidInv PROVE LossesPaid
    OBVIOUS
  <2>1. Types
    BY Parts
  <2>2. Cardinality(Lost) \in Nat /\ fails \in Nat /\ restarts * (BufSize + 1) \in Nat
    BY <2>1, LostFinite, BoundAssumption DEF Types, ClockOK
  <2>. QED
    BY <2>2 DEF PaidInv, LossesPaid, Charge
<1>. QED
  BY <1>1, <1>2, <1>3, Inductive, PTL DEF Spec

\* When Close has returned, every line that was accepted before it is in a file,
\* if no operation failed and the process was not started anew.
ClosedIsWritten ==
    closing = "closed" /\ fails = 0 /\ restarts = 0 => 1..atClose \subseteq Stored

\* Close's promise to the end: the drain takes every line (Drains), and none of
\* them finds the file closed.
THEOREM CloseWrites == Spec => []ClosedIsWritten
<1>1. ASSUME IInv, LossesPaid PROVE ClosedIsWritten
  <2>. SUFFICES ASSUME closing = "closed", fails = 0, restarts = 0, NEW l \in 1..atClose
                PROVE  l \in Stored
    BY DEF ClosedIsWritten
  <2>1. Types /\ CloseInv
    BY <1>1, Parts
  <2>2. Cardinality(Lost) \in Nat /\ IsFiniteSet(Lost) /\ 0 * (BufSize + 1) = 0
    BY <2>1, LostFinite, BoundAssumption
  <2>3. Cardinality(Lost) = 0
    BY <1>1, <2>2 DEF LossesPaid
  <2>4. Lost = {}
    BY <2>2, <2>3, FS_EmptySet
  <2>5. worker = "gone" /\ event = 0 /\ atClose \in Nat /\ Len(accepted) \in Nat
        /\ atClose <= Len(accepted)
        /\ \A k \in 1..Len(channel) : channel[k] > atClose
    BY <2>1, Numbers, BoundAssumption DEF CloseInv, Types, HandOK, CallOK
  <2>6. l \in 1..Len(accepted) /\ l # 0 /\ \A k \in 1..Len(channel) : channel[k] # l
    BY <2>5
  <2>. QED
    BY <2>4, <2>5, <2>6 DEF Lost, Waiting
<1>. QED
  BY <1>1, Inductive, NoUnpaidLoss, PTL

-----------------------------------------------------------------------------
(* Under the daily rule what was written can be read. *)

\* The line is old enough to go.
Old(l) == KeepDays > 0 /\ accepted[l] + KeepDays <= now

\* A line that was written is in a file of the directory until it is old.
StoredIsReadable == \A l \in Stored : l \in Kept \/ Old(l)

\* Only PutLine stores a line, in the file that has the name of the log.
LEMMA StoredNext ==
  ASSUME Full, Daily, [Next]_vars, NEW l \in Stored' PROVE l \in Stored \/ l \in Kept'
<1>. USE DEF callVars, handVars, fileVars, diskVars
<1>1. Types /\ MainInv
  BY DEF Full, DailyInv
<1>2. CASE logs' = logs
  BY <1>2 DEF Stored, LogLines
<1>3. CASE CreateLog
  <2>1. Len(logs) \in Nat /\ Len(logs') = Len(logs) + 1
        /\ (\A i \in 1..Len(logs) : LogLines(i)' = LogLines(i)) /\ LogLines(Len(logs))' = {}
    BY <1>1, <1>3, Numbers, NewFileLines
  <2>2. PICK i \in 1..Len(logs') : l \in LogLines(i)'
    BY DEF Stored
  <2>3. i # Len(logs')
    BY <2>1, <2>2 DEF LogLines
  <2>4. i \in 1..Len(logs)
    BY <2>1, <2>2, <2>3
  <2>. QED
    BY <2>1, <2>2, <2>4 DEF Stored
<1>4. CASE PutLine /\ logs' # logs
  <2>1. Len(logs') = Len(logs) /\ fp # 0 /\ fp' = fp /\ dir' = dir
        /\ \A i \in 1..Len(logs) : i # fp => LogLines(i)' = LogLines(i)
    BY <1>1, <1>4, PutLineLines DEF PutLine
  <2>2. PICK i \in 1..Len(logs) : l \in LogLines(i)'
    BY <2>1 DEF Stored
  <2>3. CASE i # fp
    BY <2>1, <2>2, <2>3 DEF Stored
  <2>4. CASE i = fp
    <3>1. Main \in DOMAIN dir' /\ dir'[Main] = i /\ Main[1] # "gz"
      BY <1>1, <2>1, <2>4, NameFacts DEF MainInv
    <3>2. l \in Lines(Main)'
      BY <2>2, <3>1, LinesNext DEF LogLines
    <3>. QED
      BY <3>1, <3>2 DEF Kept
  <2>. QED
    BY <2>3, <2>4
<1>5. logs' = logs \/ CreateLog \/ PutLine
  BY NextCases
  DEF Process, Calls, Hands, Files, Tick, NewLogger, Crash, Write, CloseStart, CloseFinish,
      TakeEvent, SeeDone, Drained, CheckRotate, RotateClose, RotateRename, RotateCreate,
      MarkRotated, Post, PostOpen, PostZip, PostCopy, PostRemove, PostList, PostDelete,
      PostUnchanged, vars
<1>. QED
  BY <1>2, <1>3, <1>4, <1>5

\* A line that can be read, can be read after the step or is old; a line that is
\* old stays old.
LEMMA ReadableNext ==
  ASSUME Full, Daily, [Next]_vars, NEW l \in 1..Len(accepted), l \in Kept \/ Old(l)
  PROVE  l \in Kept' \/ Old(l)'
<1>1. accepted[l] \in Nat /\ now \in Nat /\ KeepDays \in Nat
  BY Numbers DEF Full
<1>2. [Retained!Next]_(Retained!vars)
  BY RetainedStep
<1>3. (now' = now \/ now' = now + 1) /\ accepted'[l] = accepted[l]
  <2>1. accepted \in Seq(Time) /\ now \in Time
    BY DEF Full, Types, CallOK, ClockOK
  <2>2. Append(accepted, now)[l] = accepted[l]
    BY <2>1, AppendProperties
  <2>. QED
    BY <1>2, <2>2
    DEF Retained!Next, Retained!Tick, Retained!Accept, Retained!Store, Retained!Expire,
        Retained!vars
<1>4. Old(l) => Old(l)'
  BY <1>1, <1>3 DEF Old
<1>5. Kept \subseteq Kept' \/ Retained!Expire
  BY <1>2
  DEF Retained!Next, Retained!Tick, Retained!Accept, Retained!Store, Retained!vars
<1>6. ASSUME Retained!Expire, l \in Kept, l \notin Kept' PROVE Old(l)'
  <2>1. KeepDays > 0 /\ accepted[l] + KeepDays <= now /\ now' = now
    BY <1>6 DEF Retained!Expire
  <2>. QED
    BY <1>3, <2>1 DEF Old
<1>. QED
  BY <1>4, <1>5, <1>6

\* Under the daily rule a line that was written once can be read until it is
\* KeepDays days old, through rotations, compression, failures and restarts: it is
\* in no file that lost its name.
THEOREM StaysReadable == ASSUME Daily PROVE Spec => []StoredIsReadable
<1>1. Init => StoredIsReadable
  <2>. SUFFICES ASSUME Init PROVE StoredIsReadable
    OBVIOUS
  <2>1. Len(logs) = 0
    BY DEF Init
  <2>. QED
    BY <2>1 DEF StoredIsReadable, Stored
<1>2. IInv /\ StoredIsReadable /\ [Next]_vars => StoredIsReadable'
  <2>. SUFFICES ASSUME IInv, StoredIsReadable, [Next]_vars, NEW l \in Stored'
                PROVE  l \in Kept' \/ Old(l)'
    BY DEF StoredIsReadable
  <2>1. Full
    BY Parts
  <2>2. CASE l \in Stored
    <3>1. l \in 1..Len(accepted)
      <4>1. PICK i \in 1..Len(logs) : l \in LogLines(i)
        BY <2>2 DEF Stored
      <4>2. l \in Nat \ {0} /\ l + Len(channel) <= Len(accepted) /\ Len(channel) \in Nat
            /\ Len(accepted) \in Nat
        BY <2>1, <4>1, Numbers DEF Full, LineInv
      <4>. QED
        BY <4>2
    <3>. QED
      BY <2>1, <2>2, <3>1, ReadableNext DEF StoredIsReadable
  <2>. QED
    BY <2>1, <2>2, StoredNext
<1>. QED
  BY <1>1, <1>2, Inductive, PTL DEF Spec
=============================================================================
