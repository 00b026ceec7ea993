------------------------------ MODULE DailyLog ------------------------------
(***************************************************************************)
(* The log file that all processes of one component share:                 *)
(* DailySizeRotatingFileHandler and the retention sweep over its directory.*)
(*                                                                         *)
(* A file is a number (its inode), a name a pair of a day and a backup     *)
(* index, 0 for the active file.  A process that has a file open keeps     *)
(* writing to it whatever its name has become.  Sizes are counted in lines.*)
(*                                                                         *)
(* A line is written under the lock file of its day.  The sweep takes no   *)
(* lock: it lists the directory, then unlinks file by file.                *)
(***************************************************************************)
EXTENDS Retention, FiniteSets

CONSTANTS
    LastDay,           \* bound on the days, 1 .. LastDay
    MaxBytes,          \* size limit of a file, in lines
    Backups,           \* retention_backups: backups the handler and the sweep keep
    MaxLines,          \* bound on the lines written, and on the files made for them
    MaxCuts            \* bound on the processes killed or interrupted

ASSUME LogAssumption ==
    /\ LastDay \in Nat \ {0}
    /\ MaxBytes \in Nat \ {0} /\ Backups \in Nat
    /\ MaxLines \in Nat /\ MaxCuts \in Nat

VARIABLES
    today,      \* the day
    names,      \* the directory: which file a day and an index name, 0 if none
    size,       \* lines in each file
    made,       \* files created so far, the next one is made + 1
    stream,     \* _stream: its file (0: None), the day it was opened for, not closed
    written,    \* lines handed to the handlers so far
    at,         \* where each process is in a rotation or a sweep
    left,       \* names a rotation has still to move up
    doomed,     \* names a sweep has still to unlink
    deleted,    \* files that sweeps have unlinked
    cuts        \* processes killed or interrupted

logVars == <<today, names, size, made, stream, written, at, left, doomed, deleted, cuts>>

Days == 1 .. LastDay
Overflow == Backups + 1
Slots == 0 .. Overflow
Files == 1 .. MaxLines

Closed == [file |-> 0, day |-> 0, open |-> FALSE]

LogInit ==
    /\ today = 1
    /\ names = [d \in Days |-> [i \in Slots |-> 0]]
    /\ size = [f \in Files |-> 0]
    /\ made = 0
    /\ stream = [p \in Processes |-> Closed]
    /\ written = 0
    /\ at = [p \in Processes |-> "free"]
    /\ left = [p \in Processes |-> 0]
    /\ doomed = [p \in Processes |-> {}]
    /\ deleted = 0
    /\ cuts = 0

-----------------------------------------------------------------------------
(* Writing a line *)

Rotating(p) == at[p] \in {"find", "drop", "shift", "reopen"}

\* (mutant) the lock is that of the handler's own process.
LockedByNone(day) == FALSE

\* _acquire_process_lock: one process at a time per name of an active file.
Locked(day) == \E q \in Processes : Rotating(q) /\ stream[q].day = day

\* _ensure_stream: the stream is kept while the name of the day stays the same,
\* whichever file has that name by now, and even if a rotation has closed it.
Kept(p) == stream[p].file # 0 /\ stream[p].day = today

\* Opening in append mode makes the file if its name is free.
Created(p) == ~Kept(p) /\ names[today][0] = 0

\* What _ensure_stream leaves.
Ensured(p) ==
    IF Kept(p) THEN stream[p]
    ELSE [file |-> IF Created(p) THEN made + 1 ELSE names[today][0], day |-> today, open |-> TRUE]

\* (mutant) the size is read before the line, not with it.
RollsBehind(lines) == lines > MaxBytes

\* _maybe_roll_by_size, for the file that has the active name.
Rolls(lines) == lines > 0 /\ lines + 1 > MaxBytes

Full == names[today][0] # 0 /\ Rolls(size[names[today][0]])

MakeFile(day) ==
    /\ names' = [names EXCEPT ![day][0] = made + 1]
    /\ made' = made + 1

\* emit without a rotation; a stream that is closed raises, which handleError
\* swallows, and the line is lost.
WriteLine(p) ==
    /\ at[p] = "free" /\ written < MaxLines /\ made < MaxLines
    /\ ~Locked(today) /\ ~Full
    /\ written' = written + 1
    /\ IF Created(p) THEN MakeFile(today) ELSE UNCHANGED <<names, made>>
    /\ stream' = [stream EXCEPT ![p] = Ensured(p)]
    /\ size' = IF Ensured(p).open THEN [size EXCEPT ![Ensured(p).file] = @ + 1] ELSE size
    /\ UNCHANGED <<today, at, left, doomed, deleted, cuts>>

\* emit with a rotation: the stream is closed before any name is touched.
StartRotation(p) ==
    /\ at[p] = "free" /\ written < MaxLines
    /\ ~Locked(today) /\ Full
    /\ written' = written + 1
    /\ stream' = [stream EXCEPT ![p] = [Ensured(p) EXCEPT !.open = FALSE]]
    /\ at' = [at EXCEPT ![p] = IF Backups = 0 THEN "shift" ELSE "find"]
    /\ left' = [left EXCEPT ![p] = Overflow]
    /\ UNCHANGED <<today, names, size, made, doomed, deleted, cuts>>

\* _rotate_size looks for a file beyond the last backup before it moves any name,
\* as one may be left of a rotation that was cut, and after it has moved all.
PastOverflow(p) == IF left[p] = 0 THEN "reopen" ELSE "shift"

FindOverflow(p) ==
    /\ at[p] = "find"
    /\ at' = [at EXCEPT ![p] =
                 IF names[stream[p].day][Overflow] # 0 THEN "drop" ELSE PastOverflow(p)]
    /\ UNCHANGED <<today, names, size, made, stream, written, left, doomed, deleted, cuts>>

DropOverflow(p) ==
    /\ at[p] = "drop" /\ names[stream[p].day][Overflow] # 0
    /\ names' = [names EXCEPT ![stream[p].day][Overflow] = 0]
    /\ at' = [at EXCEPT ![p] = PastOverflow(p)]
    /\ UNCHANGED <<today, size, made, stream, written, left, doomed, deleted, cuts>>

\* FileNotFoundError: the line is lost, and the stream stays as it is, closed.
FailRotation(p) ==
    /\ at[p] = "drop" /\ names[stream[p].day][Overflow] = 0
    /\ at' = [at EXCEPT ![p] = "free"]
    /\ UNCHANGED <<today, names, size, made, stream, written, left, doomed, deleted, cuts>>

ShiftName(p) ==
    /\ at[p] = "shift"
    /\ LET k == left[p]
           d == stream[p].day
       IN  /\ names' = [names EXCEPT ![d][k] = IF Backups = 0 THEN 0 ELSE names[d][k - 1],
                                     ![d][k - 1] = 0]
           /\ left' = [left EXCEPT ![p] = k - 1]
           /\ at' = [at EXCEPT ![p] = CASE k > 1 -> "shift"
                                        [] k = 1 /\ Backups = 0 -> "reopen"
                                        [] OTHER -> "find"]
    /\ UNCHANGED <<today, size, made, stream, written, doomed, deleted, cuts>>

\* The active name is free, and the lock keeps it so: a new file gets it.
ReopenLog(p) ==
    /\ at[p] = "reopen" /\ made < MaxLines
    /\ MakeFile(stream[p].day)
    /\ stream' = [stream EXCEPT ![p].file = made + 1, ![p].open = TRUE]
    /\ size' = [size EXCEPT ![made + 1] = @ + 1]
    /\ at' = [at EXCEPT ![p] = "free"]
    /\ UNCHANGED <<today, written, left, doomed, deleted, cuts>>

\* close, at the end of a command
CloseLog(p) ==
    /\ at[p] = "free"
    /\ stream' = [stream EXCEPT ![p] = Closed]
    /\ UNCHANGED <<today, names, size, made, written, at, left, doomed, deleted, cuts>>

-----------------------------------------------------------------------------
(* The sweep *)

Expired(day) == BeforeCutoff(day, today, RetentionDays)

ExpiredNames == {n \in Days \X Slots : Expired(n[1]) /\ names[n[1]][n[2]] # 0}

\* (mutant) the sweep keeps one backup less.
ExcessFromLast == {n \in Days \X {Backups} : ~Expired(n[1]) /\ names[n[1]][n[2]] # 0}

\* backups[retention_backups:] of a day: the file beyond the last backup, if the
\* listing has seen it and one under every lower index.  The directory is read
\* while a rotation moves the names, so it may see them before and after.
Excess ==
    {n \in Days \X {Overflow} :
        /\ ~Expired(n[1]) /\ names[n[1]][Overflow] # 0
        /\ \A i \in 1 .. Backups : names[n[1]][i] # 0 \/ Locked(n[1])}

\* iterdir, by a command that starts or by maintenance prune --force.
ListLogs(p) ==
    /\ at[p] = "free"
    /\ at' = [at EXCEPT ![p] = "sweep"]
    /\ \E seen \in SUBSET Excess : doomed' = [doomed EXCEPT ![p] = ExpiredNames \cup seen]
    /\ UNCHANGED <<today, names, size, made, stream, written, left, deleted, cuts>>

\* The expired files go first, the excess backups after them.
Turn(p) ==
    LET expired == {n \in doomed[p] : Expired(n[1])}
    IN  IF expired = {} THEN doomed[p] ELSE expired

UnlinkLog(p) ==
    /\ at[p] = "sweep"
    /\ \E n \in Turn(p) :
         /\ names[n[1]][n[2]] # 0
         /\ names' = [names EXCEPT ![n[1]][n[2]] = 0]
         /\ doomed' = [doomed EXCEPT ![p] = @ \ {n}]
    /\ deleted' = deleted + 1
    /\ UNCHANGED <<today, size, made, stream, written, at, left, cuts>>

\* An expired file that has gone is no file any more and passed over.
PassOver(p) ==
    /\ at[p] = "sweep"
    /\ \E n \in Turn(p) :
         /\ Expired(n[1]) /\ names[n[1]][n[2]] = 0
         /\ doomed' = [doomed EXCEPT ![p] = @ \ {n}]
    /\ UNCHANGED <<today, names, size, made, stream, written, at, left, deleted, cuts>>

\* Nothing is left to do, or a file has gone between is_file and unlink, or since
\* the listing: FileNotFoundError, a warning, and no sweep of anything else.
EndSweep(p) ==
    /\ at[p] = "sweep"
    /\ doomed[p] = {} \/ \E n \in Turn(p) : names[n[1]][n[2]] = 0
    /\ at' = [at EXCEPT ![p] = "free"]
    /\ doomed' = [doomed EXCEPT ![p] = {}]
    /\ UNCHANGED <<today, names, size, made, stream, written, left, deleted, cuts>>

-----------------------------------------------------------------------------
(* Kills, interrupts, midnight *)

\* The system gives the lock and the stream of a killed process back.
KillLogger(p) ==
    /\ at[p] # "free" /\ cuts < MaxCuts
    /\ cuts' = cuts + 1
    /\ at' = [at EXCEPT ![p] = "free"]
    /\ stream' = [stream EXCEPT ![p] = Closed]
    /\ doomed' = [doomed EXCEPT ![p] = {}]
    /\ UNCHANGED <<today, names, size, made, written, left, deleted>>

\* KeyboardInterrupt is no Exception: emit gives the lock back and no more, and
\* the command goes on to its finally blocks, which log.
InterruptLogger(p) ==
    /\ at[p] # "free" /\ cuts < MaxCuts
    /\ cuts' = cuts + 1
    /\ at' = [at EXCEPT ![p] = "free"]
    /\ doomed' = [doomed EXCEPT ![p] = {}]
    /\ UNCHANGED <<today, names, size, made, stream, written, left, deleted>>

NextDay ==
    /\ today < LastDay
    /\ today' = today + 1
    /\ UNCHANGED <<names, size, made, stream, written, at, left, doomed, deleted, cuts>>

LogStep(p) ==
    \/ WriteLine(p) \/ StartRotation(p) \/ FindOverflow(p) \/ DropOverflow(p) \/ FailRotation(p)
    \/ ShiftName(p) \/ ReopenLog(p) \/ CloseLog(p)
    \/ ListLogs(p) \/ UnlinkLog(p) \/ PassOver(p) \/ EndSweep(p)
    \/ KillLogger(p) \/ InterruptLogger(p)

LogNext == NextDay \/ \E p \in Processes : LogStep(p)

LogSpec == LogInit /\ [][LogNext]_logVars

-----------------------------------------------------------------------------
(* Properties *)

LogTypeOK ==
    /\ today \in Days
    /\ names \in [Days -> [Slots -> 0 .. MaxLines]]
    /\ size \in [Files -> Nat]
    /\ made \in 0 .. MaxLines /\ written \in 0 .. MaxLines
    /\ stream \in [Processes -> [file : 0 .. MaxLines, day : Days \cup {0}, open : BOOLEAN]]
    /\ at \in [Processes -> {"free", "find", "drop", "shift", "reopen", "sweep"}]
    /\ left \in [Processes -> Slots]
    /\ doomed \in [Processes -> SUBSET (Days \X Slots)]
    /\ deleted \in Nat /\ cuts \in Nat

\* The size limit holds for the file that has the active name, although
\* processes with an old stream judge it by a file they do not write to
\* (_maybe_roll_by_size stats the path, write goes to the stream).
ActiveFileBounded == \A d \in Days : names[d][0] # 0 => size[names[d][0]] <= MaxBytes

\* Processes whose rotation has failed: their stream is closed and kept, and
\* until the file of the day is full again, or the day over, they log nothing.
ShutOut == {p \in Processes : ~Rotating(p) /\ stream[p].file # 0 /\ ~stream[p].open}

\* Rotations never shut each other out, whichever processes rotate and whatever
\* a rotation that was cut has left behind: it takes a file that a sweep has
\* unlinked between a rotation's look at it and its own unlink, or an interrupt
\* of a rotation, and each of them costs one process its log at most (emit,
\* _rotate_size).
LossesHaveACause == Cardinality(ShutOut) <= deleted + cuts

\* No line vanishes early: a file of a day within the retention loses its name
\* only to as many newer ones as backups are kept; each rotation that was cut
\* midway leaves a gap that costs one of them (_rotate_size, the sweep).
BackupsComeFirst ==
    [][\A d \in Days : \A i \in Slots :
          LET f == names[d][i]
          IN  f # 0 /\ ~Expired(d) /\ (\A j \in Slots : names'[d][j] # f)
              => Cardinality({j \in Slots : names[d][j] > f}) + cuts >= Backups]_logVars

=============================================================================
