---------------------------- MODULE RunArtifacts ----------------------------
(***************************************************************************)
(* What the commands of one component that report leave on a shared disk,  *)
(* and how several processes get in each other's way: the reports with     *)
(* their latest.json, the run ledger index.jsonl, and the retention sweep  *)
(* at the start of every command.  The log has a module of its own,        *)
(* DailyLog: all that its sweep does to the others is to end theirs.       *)
(*                                                                         *)
(* A report is named after the second in which its run finished; seconds   *)
(* are ticks of the clock and DayLength of them make a day.                *)
(*                                                                         *)
(* The specification is that of the disk (DiskInit, ...), a name of its    *)
(* own, so that a module can extend this one beside CommandRuntime.        *)
(***************************************************************************)
EXTENDS Retention, Sequences

CONSTANTS
    DayLength,         \* ticks of a day
    LastTick,          \* bound on the clock
    ReportRetention,   \* reporting.retention_days
    MaxRuns,           \* bound on the commands
    MaxCrashes         \* bound on the processes that are killed

ASSUME ArtifactsAssumption ==
    /\ DayLength \in Nat \ {0} /\ LastTick \in Nat /\ DayLength <= LastTick
    /\ ReportRetention \in Nat
    /\ MaxRuns \in Nat /\ MaxCrashes \in Nat

VARIABLES
    clock,      \* the current second
    reports,    \* the report a name holds, None if there is no such file
    pointer,    \* latest.json: absent, a link to a name, or a copied report
    ledger,     \* index.jsonl, a sequence of records
    temp,       \* index.jsonl.tmp, shared by all that prune
    markers,    \* the day each sweep has last been done, 0 for never
    pc,         \* where each process is
    my,         \* what each process remembers
    runs,       \* commands started
    crashes     \* processes killed

diskVars == <<clock, reports, pointer, ledger, temp, markers, pc, my, runs, crashes>>

Ticks == DayLength .. LastTick
DayOf(t) == t \div DayLength
Today == DayOf(clock)

\* A run and the second it finished: the content of a report and the part of a
\* ledger record that matters here.
None == [run |-> 0, at |-> 0]
Report(p) == [run |-> my[p].run, at |-> my[p].at]

Absent == [kind |-> "absent", at |-> 0, copy |-> None]
LinkTo(t) == [kind |-> "link", at |-> t, copy |-> None]
CopyOf(r) == [kind |-> "copy", at |-> 0, copy |-> r]

NoFile == [exists |-> FALSE, lines |-> <<>>]
File(lines) == [exists |-> TRUE, lines |-> lines]

Idle == [run |-> 0, now |-> 0, at |-> 0, victims |-> {}, read |-> <<>>, handle |-> "none"]

DiskInit ==
    /\ clock = DayLength
    /\ reports = [t \in Ticks |-> None]
    /\ pointer = Absent
    /\ ledger = <<>>
    /\ temp = NoFile
    /\ markers = [reports |-> 0, ledger |-> 0]
    /\ pc = [p \in Processes |-> "idle"]
    /\ my = [p \in Processes |-> Idle]
    /\ runs = 0
    /\ crashes = 0

Goto(p, label) == pc' = [pc EXCEPT ![p] = label]

-----------------------------------------------------------------------------
(* The sweep at the start of a command *)

Start(p) ==
    /\ pc[p] = "idle" /\ runs < MaxRuns
    /\ runs' = runs + 1
    /\ my' = [my EXCEPT ![p] = [Idle EXCEPT !.run = runs + 1]]
    /\ Goto(p, "logs")
    /\ UNCHANGED <<clock, reports, pointer, ledger, temp, markers, crashes>>

\* A sweep is done once a day; maintenance prune --force does it on any.
Due(kind) == markers[kind] # Today

\* sweep_logs is done or not due, or it fails, which ends the sweep of this command.
SweepLogs(p) ==
    /\ pc[p] = "logs"
    /\ Goto(p, "reports") \/ Goto(p, "body")
    /\ UNCHANGED <<clock, reports, pointer, ledger, temp, markers, my, runs, crashes>>

\* _delete_expired_files
Old(t, now) == BeforeCutoff(DayOf(t), DayOf(now), ReportRetention)

ListReports(p) ==
    /\ pc[p] = "reports"
    /\ \/ /\ my' = [my EXCEPT ![p].now = clock,
                               ![p].victims = {t \in Ticks : reports[t] # None /\ Old(t, clock)}]
          /\ Goto(p, "delete")
       \/ ~Due("reports") /\ Goto(p, "ledger") /\ UNCHANGED my
    /\ UNCHANGED <<clock, reports, pointer, ledger, temp, markers, runs, crashes>>

\* is_file and unlink: a file that another sweep has deleted is skipped, or
\* deleted between the two, which ends the whole sweep of this command.
DeleteReport(p) ==
    /\ pc[p] = "delete"
    /\ \E t \in my[p].victims :
         /\ my' = [my EXCEPT ![p].victims = @ \ {t}]
         /\ \/ reports[t] # None /\ reports' = [reports EXCEPT ![t] = None] /\ UNCHANGED pc
            \/ reports[t] = None /\ UNCHANGED <<reports, pc>>
            \/ reports[t] = None /\ UNCHANGED reports /\ Goto(p, "body")
    /\ UNCHANGED <<clock, pointer, ledger, temp, markers, runs, crashes>>

MarkReports(p) ==
    /\ pc[p] = "delete" /\ my[p].victims = {}
    /\ markers' = [markers EXCEPT !.reports = DayOf(my[p].now)]
    /\ Goto(p, "ledger")
    /\ UNCHANGED <<clock, reports, pointer, ledger, temp, my, runs, crashes>>

\* (mutant) records of the cutoff day are dropped.
KeepsAfterCutoff(record, now) == DayOf(record.at) + RetentionDays > DayOf(now)

\* _should_keep_jsonl_line
Keeps(record, now) == ~BeforeCutoff(DayOf(record.at), DayOf(now), RetentionDays)

\* prune, first half: read the ledger.  Nothing is done to a missing ledger, while
\* one that a prune has emptied is rewritten: an empty ledger may be either.
ReadLedger(p) ==
    /\ pc[p] = "ledger"
    /\ \/ /\ my' = [my EXCEPT ![p].now = clock, ![p].read = ledger]
          /\ Goto(p, "truncate") \/ (ledger = <<>> /\ Goto(p, "mark"))
       \/ ~Due("ledger") /\ Goto(p, "body") /\ UNCHANGED my
    /\ UNCHANGED <<clock, reports, pointer, ledger, temp, markers, runs, crashes>>

\* write_text opens the temporary file, which every pruning process names alike.
Truncate(p) ==
    /\ pc[p] = "truncate"
    /\ temp' = File(<<>>)
    /\ my' = [my EXCEPT ![p].handle = "temp"]
    /\ Goto(p, "write")
    /\ UNCHANGED <<clock, reports, pointer, ledger, markers, runs, crashes>>

KeptLines(p) ==
    LET lines == my[p].read
        kept[k \in 0 .. Len(lines)] ==
            IF k = 0 THEN <<>>
            ELSE IF Keeps(lines[k], my[p].now) THEN Append(kept[k - 1], lines[k])
                 ELSE kept[k - 1]
    IN  kept[Len(lines)]

\* Writing from the start of a file that others may have extended.
Over(lines, old) == lines \o SubSeq(old, Len(lines) + 1, Len(old))

WriteTemp(p) ==
    /\ pc[p] = "write"
    /\ CASE my[p].handle = "temp" -> temp' = File(KeptLines(p)) /\ UNCHANGED ledger
         [] my[p].handle = "ledger" -> ledger' = Over(KeptLines(p), ledger) /\ UNCHANGED temp
         [] OTHER -> UNCHANGED <<temp, ledger>>
    /\ Goto(p, "replace")
    /\ UNCHANGED <<clock, reports, pointer, markers, my, runs, crashes>>

\* What an open handle refers to once the temporary file is the ledger.
Renamed(handle) == CASE handle = "temp" -> "ledger" [] handle = "ledger" -> "gone" [] OTHER -> handle

\* replace: whatever the temporary file holds becomes the ledger; without a
\* temporary file the sweep of this command ends.
Replace(p) ==
    /\ pc[p] = "replace"
    /\ IF temp.exists
       THEN /\ ledger' = temp.lines /\ temp' = NoFile
            /\ my' = [q \in Processes |-> [my[q] EXCEPT !.handle = Renamed(@)]]
            /\ Goto(p, "mark")
       ELSE Goto(p, "body") /\ UNCHANGED <<ledger, temp, my>>
    /\ UNCHANGED <<clock, reports, pointer, markers, runs, crashes>>

MarkLedger(p) ==
    /\ pc[p] = "mark"
    /\ markers' = [markers EXCEPT !.ledger = DayOf(my[p].now)]
    /\ Goto(p, "body")
    /\ UNCHANGED <<clock, reports, pointer, ledger, temp, my, runs, crashes>>

-----------------------------------------------------------------------------
(* The body and the end of a command *)

\* The report is finished; the name of its file follows from this second.
FinishReport(p) ==
    /\ pc[p] = "body"
    /\ my' = [my EXCEPT ![p].at = clock]
    /\ Goto(p, "render")
    /\ UNCHANGED <<clock, reports, pointer, ledger, temp, markers, runs, crashes>>

\* atomic_write_json: a temporary file of its own name, then os.replace.
Render(p) ==
    /\ pc[p] = "render"
    /\ reports' = [reports EXCEPT ![my[p].at] = Report(p)]
    /\ Goto(p, "check")
    /\ UNCHANGED <<clock, pointer, ledger, temp, markers, my, runs, crashes>>

\* current.log is published first.  Of two processes that publish it at the same
\* time one may fail to, and then publishes nothing else.  Otherwise the report
\* is next: nothing to do if a sweep has deleted it by now.
CheckPointer(p) ==
    /\ pc[p] = "check"
    /\ \/ \E q \in Processes \ {p} : pc[q] = "check" /\ Goto(p, "append")
       \/ Goto(p, CASE reports[my[p].at] = None -> "append"
                    [] reports[my[p].at] # None /\ pointer = Absent -> "link"
                    [] OTHER -> "unlink")
    /\ UNCHANGED <<clock, reports, pointer, ledger, temp, markers, my, runs, crashes>>

\* A pointer somebody else has unlinked meanwhile ends the publication.
UnlinkPointer(p) ==
    /\ pc[p] = "unlink"
    /\ pointer' = Absent
    /\ Goto(p, IF pointer = Absent THEN "append" ELSE "link")
    /\ UNCHANGED <<clock, reports, ledger, temp, markers, my, runs, crashes>>

\* (mutant) a pointer that is in the way is removed.
LinkOrRemove(p) ==
    /\ pc[p] = "link"
    /\ pointer' = IF pointer = Absent THEN LinkTo(my[p].at) ELSE Absent
    /\ Goto(p, "append")
    /\ UNCHANGED <<clock, reports, ledger, temp, markers, my, runs, crashes>>

\* symlink_to, or copy2 if it fails: because there are no links here, or because
\* another process has published in between, and copy2 then writes through the
\* other's link.
LinkPointer(p) ==
    /\ pc[p] = "link"
    /\ LET source == reports[my[p].at]
       IN  \/ pointer = Absent /\ pointer' = LinkTo(my[p].at) /\ UNCHANGED reports
           \/ /\ source # None /\ pointer.kind # "link"
              /\ pointer' = CopyOf(source) /\ UNCHANGED reports
           \/ /\ source # None /\ pointer.kind = "link"
              /\ reports' = [reports EXCEPT ![pointer.at] = source] /\ UNCHANGED pointer
           \/ source = None /\ UNCHANGED <<pointer, reports>>
    /\ Goto(p, "append")
    /\ UNCHANGED <<clock, ledger, temp, markers, my, runs, crashes>>

\* append, and the command ends.
AppendLedger(p) ==
    /\ pc[p] = "append"
    /\ \/ ledger' = Append(ledger, Report(p))
       \/ UNCHANGED ledger
    /\ my' = [my EXCEPT ![p] = Idle]
    /\ Goto(p, "idle")
    /\ UNCHANGED <<clock, reports, pointer, temp, markers, runs, crashes>>

Crash(p) ==
    /\ pc[p] # "idle" /\ crashes < MaxCrashes
    /\ crashes' = crashes + 1
    /\ my' = [my EXCEPT ![p] = Idle]
    /\ Goto(p, "idle")
    /\ UNCHANGED <<clock, reports, pointer, ledger, temp, markers, runs>>

Tick ==
    /\ clock < LastTick
    /\ clock' = clock + 1
    /\ UNCHANGED <<reports, pointer, ledger, temp, markers, pc, my, runs, crashes>>

DiskStep(p) ==
    \/ Start(p) \/ SweepLogs(p) \/ ListReports(p) \/ DeleteReport(p) \/ MarkReports(p)
    \/ ReadLedger(p) \/ Truncate(p) \/ WriteTemp(p) \/ Replace(p) \/ MarkLedger(p)
    \/ FinishReport(p) \/ Render(p) \/ CheckPointer(p) \/ UnlinkPointer(p)
    \/ LinkPointer(p) \/ AppendLedger(p)

DiskNext == Tick \/ \E p \in Processes : DiskStep(p) \/ Crash(p)

DiskSpec == DiskInit /\ [][DiskNext]_diskVars

-----------------------------------------------------------------------------
(* Properties *)

Labels == {"idle", "logs", "reports", "delete", "ledger", "truncate", "write", "replace",
           "mark", "body", "render", "check", "unlink", "link", "append"}

Contents == [run : 0 .. MaxRuns, at : 0 .. LastTick]

DiskTypeOK ==
    /\ clock \in Ticks
    /\ reports \in [Ticks -> Contents]
    /\ pointer \in [kind : {"absent", "link", "copy"}, at : 0 .. LastTick, copy : Contents]
    /\ ledger \in Seq(Contents)
    /\ temp.exists \in BOOLEAN /\ temp.lines \in Seq(Contents)
    /\ markers \in [{"reports", "ledger"} -> Nat]
    /\ pc \in [Processes -> Labels]
    /\ \A p \in Processes :
          /\ my[p].run \in 0 .. MaxRuns /\ {my[p].now, my[p].at} \subseteq 0 .. LastTick
          /\ my[p].victims \subseteq Ticks /\ my[p].read \in Seq(Contents)
          /\ my[p].handle \in {"none", "temp", "ledger", "gone"}
    /\ runs \in 0 .. MaxRuns /\ crashes \in 0 .. MaxCrashes

\* A record of a day the ledger keeps is lost only to a sweep that had read the
\* ledger before the record was appended, or to sweeps that meet in the file
\* they share: one replaced what another had put there, or writes through a
\* handle to what has become the ledger.  A sweep that meets none keeps every
\* record it has read (JsonlRunLedger.prune).
LoneSweepKeepsRecords ==
    [][\A i \in 1 .. Len(ledger) :
          LET r == ledger[i]
          IN  DayOf(r.at) + RetentionDays >= Today /\ (\A j \in 1 .. Len(ledger') : ledger'[j] # r)
              => \E p \in Processes :
                    \/ my[p].handle = "ledger"
                    \/ /\ pc[p] = "replace"
                       /\ \/ temp.lines # KeptLines(p)
                          \/ \A k \in 1 .. Len(my[p].read) : my[p].read[k] # r]_diskVars

\* Processes that publish at the same time unlink each other's pointers, and one
\* of two may give up, and still a pointer is left: as long as no process was
\* killed and no report was old enough to be swept from under its publisher, a
\* directory with a report and no latest.json has a process that is about to
\* make one.
PointerOrPublisher ==
    (/\ pointer = Absent /\ crashes = 0
     /\ \A t \in DayLength .. clock : ~Old(t, clock)
     /\ \E t \in Ticks : reports[t] # None)
        => \E p \in Processes : pc[p] \in {"check", "link"}

=============================================================================
