---------------------------- MODULE RotatingLog ----------------------------
(***************************************************************************)
(* One rotating log file (core/logx/rotatelogger.go): the callers of Write *)
(* and of Close, the worker goroutine that writes and rotates, and one     *)
(* goroutine per rotation that compresses the backup and deletes outdated  *)
(* ones, over a directory whose operations can fail.                       *)
(*                                                                         *)
(* A line is its number in the order of acceptance and weighs one unit of  *)
(* size.  Time is the unit in which the rule names backups: a day for the  *)
(* daily rule, a second for the size rule.  A name in the directory leads  *)
(* to a file by its number, so that a goroutine keeps reading the file it  *)
(* opened after the name went to another one: log files are numbered as    *)
(* they are created, and an archive has the number of the file it is of.   *)
(*                                                                         *)
(* Assumed: the clock does not go back; no midnight falls between the two  *)
(* readings of the clock at start-up (DefaultRotateRule and initialize),   *)
(* and at most one within a rotation; os.Stat tells presence truly.        *)
(***************************************************************************)
EXTENDS Naturals, Sequences, FiniteSets

CONSTANTS
  Daily,        \* TRUE: DailyRotateRule, FALSE: SizeLimitRotateRule
  MaxSize,      \* maxSize of the size rule, in lines; 0: no limit
  KeepDays,     \* days of the rule; 0: keep for ever
  MaxBackups,   \* maxBackups of the size rule; 0: no limit
  Compress,     \* compress of the logger and gzip of its rule
  BufSize,      \* bufferSize
  MaxLines,     \* bound: lines handed to Write
  Closes,       \* bound: whether Close is ever called
  MaxNow,       \* bound: units of time that pass
  MaxFails,     \* bound: file operations that fail
  MaxRestarts   \* bound: ends of the process

ASSUME SettingAssumption ==
  /\ Daily \in BOOLEAN /\ Compress \in BOOLEAN /\ Closes \in BOOLEAN
  /\ MaxSize \in Nat /\ KeepDays \in Nat /\ MaxBackups \in Nat

ASSUME BoundAssumption ==
  /\ BufSize \in Nat \ {0}
  /\ MaxLines \in Nat /\ MaxNow \in Nat /\ MaxFails \in Nat /\ MaxRestarts \in Nat

VARIABLES
  now,          \* the clock
  fails,        \* file operations that have failed
  restarts,     \* ends of the process so far
  accepted,     \* history: accepted[l] is the time at which line l was accepted
  channel,      \* lines accepted and not yet taken
  closing,      \* the caller of Close: "open", "closing" (done is closed), "closed"
  atClose,      \* history: lines accepted when done was closed
  worker,       \* where the worker is, "off" when there is no process
  draining,     \* the worker has seen done
  event,        \* the line the worker has in hand
  fp,           \* number of the open log file, 0 for nil
  backup,       \* l.backup: the time in the name of the next backup
  rotatedTime,  \* rotatedTime of the rule
  currentSize,  \* currentSize of the logger
  dir,          \* the directory: name -> number
  logs,         \* logs[i]: the lines in log file i
  archives,     \* archives[i]: the lines that can be read from archive i
  posts         \* the goroutines of postRotate

clockVars == <<now, fails, restarts>>
callVars == <<accepted, channel, closing, atClose>>
handVars == <<worker, draining, event>>
fileVars == <<fp, backup, rotatedTime, currentSize>>
diskVars == <<dir, logs, archives>>
vars == <<clockVars, callVars, handVars, fileVars, diskVars, posts>>

(* The names of the log file, of a backup and of a compressed backup. *)
Main == <<"log", 0>>
Backup(t) == <<"backup", t>>
GzipFile(t) == <<"gz", t>>

Line == 1..MaxLines
Time == 0..MaxNow
Name == {Main} \union {Backup(t) : t \in Time} \union {GzipFile(t) : t \in Time}

Content(f) == IF f[1] = "gz" THEN archives[dir[f]] ELSE logs[dir[f]]

Lines(f) == {Content(f)[k] : k \in 1..Len(Content(f))}

\* The lines that can be read from the directory.
Kept == UNION {Lines(f) : f \in DOMAIN dir}

Unlink(d, f) == [g \in DOMAIN d \ {f} |-> d[g]]
Put(d, f, x) == [g \in DOMAIN d \union {f} |-> IF g = f THEN x ELSE d[g]]

\* os.Create of the log file when there is none.
CreateLog ==
  /\ logs' = Append(logs, <<>>) /\ fp' = Len(logs) + 1
  /\ dir' = Put(dir, Main, Len(logs) + 1)
  /\ UNCHANGED archives

Fail == fails < MaxFails /\ fails' = fails + 1 /\ UNCHANGED <<now, restarts>>
Ok == UNCHANGED clockVars

Init ==
  /\ now = 0 /\ fails = 0 /\ restarts = 0
  /\ accepted = <<>> /\ channel = <<>> /\ closing = "open" /\ atClose = 0
  /\ worker = "off" /\ draining = FALSE /\ event = 0
  /\ fp = 0 /\ backup = 0 /\ rotatedTime = 0 /\ currentSize = 0
  /\ dir = <<>> /\ logs = <<>> /\ archives = <<>>
  /\ posts = {}

-----------------------------------------------------------------------------
(* The clock, and the process as a whole. *)

\* A rotation under the daily rule is shorter than a day.
Tick ==
  /\ now < MaxNow
  /\ Daily /\ worker = "mark" => backup = now
  /\ now' = now + 1
  /\ UNCHANGED <<fails, restarts, callVars, handVars, fileVars, diskVars, posts>>

\* createOutput and NewLogger: an existing file is appended to.
NewLogger ==
  /\ worker = "off"
  /\ rotatedTime' = now /\ backup' = now
  /\ IF Main \in DOMAIN dir
       THEN fp' = dir[Main] /\ currentSize' = Len(Content(Main)) /\ UNCHANGED diskVars
       ELSE CreateLog /\ currentSize' = 0
  /\ worker' = "select"
  /\ UNCHANGED <<clockVars, callVars, draining, event, posts>>

\* The process ends: what is in memory is gone, what was written is in the directory.
Crash ==
  /\ worker # "off" /\ restarts < MaxRestarts
  /\ restarts' = restarts + 1
  /\ channel' = <<>> /\ closing' = "open" /\ atClose' = 0
  /\ worker' = "off" /\ draining' = FALSE /\ event' = 0
  /\ fp' = 0 /\ backup' = 0 /\ rotatedTime' = 0 /\ currentSize' = 0
  /\ posts' = {}
  /\ UNCHANGED <<now, fails, accepted, diskVars>>

-----------------------------------------------------------------------------
(* The callers. *)

\* Mutant: a channel without a bound.
WriteUnbounded ==
  /\ worker # "off" /\ Len(accepted) < MaxLines
  /\ accepted' = Append(accepted, now)
  /\ channel' = Append(channel, Len(accepted) + 1)
  /\ UNCHANGED <<clockVars, closing, atClose, handVars, fileVars, diskVars, posts>>

\* Write sends on the channel.  Its select can take this branch although done
\* is closed; the other branch refuses the line and leaves no trace here.
Write ==
  /\ worker # "off"
  /\ Len(channel) < BufSize
  /\ Len(accepted) < MaxLines
  /\ accepted' = Append(accepted, now)
  /\ channel' = Append(channel, Len(accepted) + 1)
  /\ UNCHANGED <<clockVars, closing, atClose, handVars, fileVars, diskVars, posts>>

\* Close closes done and waits for the worker.
CloseStart ==
  /\ Closes /\ worker # "off" /\ closing = "open"
  /\ closing' = "closing" /\ atClose' = Len(accepted)
  /\ UNCHANGED <<clockVars, accepted, channel, handVars, fileVars, diskVars, posts>>

\* The worker is gone: the file is synced and closed.
CloseFinish ==
  /\ closing = "closing" /\ worker = "gone"
  /\ closing' = "closed" /\ fp' = 0
  /\ UNCHANGED <<clockVars, accepted, channel, atClose, handVars,
                 backup, rotatedTime, currentSize, diskVars, posts>>

-----------------------------------------------------------------------------
(* The worker. *)

TakeEvent ==
  /\ worker = "select" /\ channel # <<>>
  /\ event' = Head(channel) /\ channel' = Tail(channel)
  /\ worker' = "write"
  /\ UNCHANGED <<clockVars, accepted, closing, atClose, draining, fileVars, diskVars, posts>>

SeeDone ==
  /\ worker = "select" /\ ~draining /\ closing # "open"
  /\ draining' = TRUE
  /\ UNCHANGED <<clockVars, callVars, worker, event, fileVars, diskVars, posts>>

\* Mutant: the worker leaves when it sees done, without a last look at the channel.
DrainedAtOnce ==
  /\ worker = "select" /\ draining
  /\ worker' = "gone"
  /\ UNCHANGED <<clockVars, callVars, draining, event, fileVars, diskVars, posts>>

\* Mutant: the default branch of the drain does not return.
DrainedLoops ==
  /\ worker = "select" /\ draining /\ channel = <<>>
  /\ UNCHANGED vars

Drained ==
  /\ worker = "select" /\ draining /\ channel = <<>>
  /\ worker' = "gone"
  /\ UNCHANGED <<clockVars, callVars, draining, event, fileVars, diskVars, posts>>

ShallRotate ==
  IF Daily THEN now # rotatedTime ELSE MaxSize > 0 /\ MaxSize < currentSize + 1

CheckRotate ==
  /\ worker = "write"
  /\ worker' = IF ShallRotate THEN "rotate" ELSE "put"
  /\ UNCHANGED <<clockVars, callVars, draining, event, fileVars, diskVars, posts>>

\* rotate closes the file; an error of Close ends the rotation.
RotateClose ==
  /\ worker = "rotate"
  /\ fp' = 0
  /\ \/ Ok /\ worker' = "rename"
     \/ fp # 0 /\ Fail /\ worker' = "put"
  /\ UNCHANGED <<callVars, draining, event, backup, rotatedTime, currentSize, diskVars, posts>>

\* Mutant: the backup is a second name of the file, which stays where it is.
RenameLinks ==
  /\ worker = "rename" /\ Ok
  /\ dir' = IF Main \in DOMAIN dir THEN Put(dir, Backup(backup), dir[Main]) ELSE dir
  /\ worker' = "create"
  /\ UNCHANGED <<callVars, draining, event, fileVars, logs, archives, posts>>

\* rotate moves the file, if there is one, over its backup and starts postRotate.
RotateRename ==
  /\ worker = "rename"
  /\ \/ /\ Main \in DOMAIN dir /\ Ok
        /\ dir' = Put(Unlink(dir, Main), Backup(backup), dir[Main])
        /\ posts' = posts \union
             {[at |-> "open", id |-> dir[Main], file |-> backup, in |-> 0, out |-> 0, list |-> {}]}
        /\ worker' = "create"
     \/ Main \in DOMAIN dir /\ Fail /\ worker' = "put" /\ UNCHANGED <<dir, posts>>
     \/ Main \notin DOMAIN dir /\ Ok /\ worker' = "create" /\ UNCHANGED <<dir, posts>>
  /\ UNCHANGED <<callVars, draining, event, fileVars, logs, archives>>

\* rotate names the next backup and creates the log file.
RotateCreate ==
  /\ worker = "create"
  /\ backup' = now
  /\ \/ Ok /\ CreateLog /\ worker' = "mark"
     \/ Fail /\ worker' = "put" /\ UNCHANGED <<fp, diskVars>>
  /\ UNCHANGED <<callVars, draining, event, rotatedTime, currentSize, posts>>

MarkRotated ==
  /\ worker = "mark"
  /\ rotatedTime' = now /\ currentSize' = 0
  /\ worker' = "put"
  /\ UNCHANGED <<clockVars, callVars, draining, event, fp, backup, diskVars, posts>>

\* write drops the line when no file is open, and ignores an error of the file.
PutLine ==
  /\ worker = "put"
  /\ worker' = "select" /\ event' = 0
  /\ currentSize' = IF fp = 0 THEN currentSize ELSE currentSize + 1
  /\ \/ fp = 0 /\ Ok /\ UNCHANGED logs
     \/ fp # 0 /\ Ok /\ logs' = [logs EXCEPT ![fp] = Append(@, event)]
     \/ fp # 0 /\ Fail /\ UNCHANGED logs
  /\ UNCHANGED <<callVars, draining, fp, backup, rotatedTime, dir, archives, posts>>

-----------------------------------------------------------------------------
(* The goroutine p of postRotate: maybeCompressFile, then                  *)
(* maybeDeleteOutdatedFiles.                                               *)

GoOn(p, q) == posts' = (posts \ {p}) \union {q}

\* maybeCompressFile returns, whatever it achieved.
GoClean(p) == GoOn(p, [p EXCEPT !.at = "clean", !.in = 0, !.out = 0])

\* The goroutine ends with the list of files to remove.
GoDelete(p, list) ==
  IF list = {} THEN posts' = posts \ {p}
               ELSE GoOn(p, [p EXCEPT !.at = "delete", !.list = list])

PostUnchanged == UNCHANGED <<callVars, handVars, fileVars>>

\* Without compression, without the file, or when it cannot be opened: on to the deletion.
PostOpen(p) ==
  /\ p.at = "open"
  /\ \/ /\ Compress /\ Backup(p.file) \in DOMAIN dir /\ Ok
        /\ GoOn(p, [p EXCEPT !.at = "zip", !.in = dir[Backup(p.file)]])
     \/ /\ ~Compress \/ Backup(p.file) \notin DOMAIN dir
        /\ Ok /\ GoClean(p)
     \/ /\ Compress /\ Backup(p.file) \in DOMAIN dir /\ Fail
        /\ GoClean(p)
  /\ PostUnchanged /\ UNCHANGED diskVars

\* gzipFile creates the compressed file, or empties the one of that name.
PostZip(p) ==
  /\ p.at = "zip"
  /\ \/ Ok /\ LET zip == GzipFile(p.file)
                out == IF zip \in DOMAIN dir THEN dir[zip] ELSE p.id
            IN  /\ dir' = Put(dir, zip, out) /\ archives' = Put(archives, out, <<>>)
                /\ GoOn(p, [p EXCEPT !.at = "copy", !.out = out])
     \/ Fail /\ GoClean(p) /\ UNCHANGED <<dir, archives>>
  /\ PostUnchanged /\ UNCHANGED logs

\* Mutant: the original is removed whether or not the compression succeeded.
PostCopyAnyway(p) ==
  /\ p.at = "copy"
  /\ GoOn(p, [p EXCEPT !.at = "remove"])
  /\ \/ Ok /\ archives' = [archives EXCEPT ![p.out] = logs[p.in]]
     \/ Fail /\ UNCHANGED archives
  /\ PostUnchanged /\ UNCHANGED <<dir, logs>>

\* Copying and closing: an archive that was not finished cannot be read.
PostCopy(p) ==
  /\ p.at = "copy"
  /\ \/ /\ Ok /\ archives' = [archives EXCEPT ![p.out] = logs[p.in]]
        /\ GoOn(p, [p EXCEPT !.at = "remove"])
     \/ Fail /\ GoClean(p) /\ UNCHANGED archives
  /\ PostUnchanged /\ UNCHANGED <<dir, logs>>

\* Only after a successful compression the original is removed, by its name.
PostRemove(p) ==
  /\ p.at = "remove"
  /\ GoClean(p)
  /\ \/ Ok /\ dir' = Unlink(dir, Backup(p.file))
     \/ Fail /\ UNCHANGED dir
  /\ PostUnchanged /\ UNCHANGED <<logs, archives>>

\* What the pattern of OutdatedFiles matches.
Glob == {f \in DOMAIN dir : f[1] = IF Compress THEN "gz" ELSE "backup"}

\* Mutant: one backup more than the limit stays.
TooManyByOne(f) ==
  ~Daily /\ MaxBackups > 0 /\ Cardinality({g \in Glob : g[2] > f[2]}) > MaxBackups

\* Mutant: the list is taken from the wrong end.
TooManyNewest(f) ==
  ~Daily /\ MaxBackups > 0 /\ Cardinality({g \in Glob : g[2] < f[2]}) >= MaxBackups

TooMany(f) ==
  ~Daily /\ MaxBackups > 0 /\ Cardinality({g \in Glob : g[2] > f[2]}) >= MaxBackups

TooOld(f) == KeepDays > 0 /\ f[2] + KeepDays < now

OutdatedFiles == {f \in Glob : TooMany(f) \/ TooOld(f)}

PostList(p) ==
  /\ p.at = "clean"
  /\ Ok /\ GoDelete(p, OutdatedFiles)
  /\ PostUnchanged /\ UNCHANGED diskVars

\* One file of the list after the other is removed; an error does not stop the loop.
PostDelete(p) ==
  /\ p.at = "delete"
  /\ \E f \in p.list :
       /\ GoDelete(p, p.list \ {f})
       /\ \/ Ok /\ dir' = Unlink(dir, f)
          \/ Fail /\ UNCHANGED dir
  /\ PostUnchanged /\ UNCHANGED <<logs, archives>>

-----------------------------------------------------------------------------
Worker ==
  \/ TakeEvent \/ SeeDone \/ Drained \/ CheckRotate
  \/ RotateClose \/ RotateRename \/ RotateCreate \/ MarkRotated \/ PutLine

Post(p) ==
  PostOpen(p) \/ PostZip(p) \/ PostCopy(p) \/ PostRemove(p)
    \/ PostList(p) \/ PostDelete(p)

Next ==
  \/ Tick \/ NewLogger \/ Crash
  \/ Write \/ CloseStart \/ CloseFinish
  \/ Worker
  \/ \E p \in posts : Post(p)

Spec == Init /\ [][Next]_vars

\* The scheduler runs the worker and the caller that waits for it in Close.
Fairness == WF_vars(Worker) /\ WF_vars(CloseFinish)

FairSpec == Spec /\ Fairness
-----------------------------------------------------------------------------
(* Properties.                                                             *)

PostState ==
  [at : {"open", "zip", "copy", "remove", "clean", "delete"}, id : Nat, file : Time,
   in : Nat, out : Nat, list : SUBSET Name]

(* The types of the state, the channel within its buffer, a handle and a name *)
(* only for a file that exists, a line in hand only where the worker has one. *)
TypeOK ==
  /\ now \in Time /\ fails \in 0..MaxFails /\ restarts \in 0..MaxRestarts
  /\ accepted \in Seq(Time) /\ Len(accepted) <= MaxLines
  /\ channel \in Seq(Line) /\ Len(channel) <= BufSize
  /\ closing \in {"open", "closing", "closed"} /\ atClose \in 0..MaxLines
  /\ worker \in {"off", "select", "write", "rotate", "rename", "create", "mark", "put", "gone"}
  /\ draining \in BOOLEAN
  /\ event \in 0..MaxLines /\ (event # 0 <=> worker \notin {"off", "select", "gone"})
  /\ fp \in 0..Len(logs) /\ backup \in Time /\ rotatedTime \in Time /\ currentSize \in Nat
  /\ logs \in Seq(Seq(Line))
  /\ DOMAIN archives \subseteq 1..Len(logs)
  /\ \A i \in DOMAIN archives : archives[i] \in Seq(Line)
  /\ DOMAIN dir \subseteq Name
  /\ \A f \in DOMAIN dir : dir[f] \in IF f[1] = "gz" THEN DOMAIN archives ELSE 1..Len(logs)
  /\ posts \subseteq PostState

(* "avoid losing logs before closing" (the drain in startWorker): when Close *)
(* has returned, no line that Write accepted before Close is still waiting.  *)
DrainedOnClose ==
  closing = "closed" => \A k \in 1..Len(channel) : channel[k] > atClose

(* Read in the order of the names of the files, the log is in the order of   *)
(* acceptance: a backup never holds a line younger than one of a later file. *)
Before(f, g) == f # Main /\ (g = Main \/ f[2] < g[2])

LogInOrder ==
  \A f, g \in DOMAIN dir : Before(f, g) =>
    \A k \in Lines(f), l \in Lines(g) : k < l

(* Under the daily rule renaming, compressing, failures, restarts and the     *)
(* deletion of outdated files together never take a stored line away before   *)
(* it is KeepDays days old, and lines are stored in the order of acceptance.  *)
Retained == INSTANCE RetainedLog WITH kept <- Kept
RetainedSpec == Retained!Spec

(* With a limit on backups no more than that many are left once the          *)
(* goroutines of all rotations are done, unless a file operation failed or   *)
(* the process ended before they were.                                       *)
BackupsBounded ==
  ~Daily /\ MaxBackups > 0 /\ posts = {} /\ fails = 0 /\ restarts = 0
    => Cardinality(Glob) <= MaxBackups

(* However the goroutines of several rotations overlap, a backup goes only   *)
(* while MaxBackups younger ones are there.                                  *)
NewestKept ==
  [][\A f \in Glob \ Glob' :
       KeepDays = 0 => MaxBackups > 0 /\ Cardinality({g \in Glob' : g[2] > f[2]}) >= MaxBackups]_vars

(* Close returns: the worker sees done, empties the channel and leaves.      *)
CloseReturns == (closing = "closing") ~> (closing # "closing")
=============================================================================
