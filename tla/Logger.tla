------------------------------- MODULE Logger -------------------------------
(***************************************************************************)
(* The rolling log file (logger/logger.go).  Lines are numbered as they    *)
(* are logged.  A log call holds the read lock and a rotation the write    *)
(* lock of logObj, so each is one step; a monitor decides outside the lock *)
(* that it must rotate.  Each call of SetRollingFile or SetRollingDaily    *)
(* starts one more monitor, and ReSettingLog is called twice.              *)
(***************************************************************************)
EXTENDS Integers, Sequences, SequencesExt

CONSTANTS MaxFileCount,  \* maxFileCount
          MaxFileSize,   \* maxFileSize, in lines
          MaxLines, MaxDays, MaxStarts  \* bounds: lines, days, starts of the process

ASSUME LoggerAssumption ==
    /\ MaxFileCount \in Nat \ {0} /\ MaxFileSize \in Nat \ {0}
    /\ MaxLines \in Nat /\ MaxDays \in Nat /\ MaxStarts \in Nat \ {0}

VARIABLES dailyRolling,
          file,      \* the lines of the file that is written
          old,       \* the renamed files that exist, by suffix or by day
          suffix,    \* logObj._suffix
          date,      \* logObj._date
          today,
          buf,       \* lines in logObj.buf
          buffering, \* logObj.lg writes to buf
          monitors,  \* one per call: "wait", or "must" when it is about to rotate
          line,      \* the last line logged
          gone,      \* history: lines that were lost with a buffer
          blind,     \* history: a start found every suffix in use
          starts

logVars == <<dailyRolling, file, old, suffix, date, today, buf, buffering, monitors,
             line, gone, blind, starts>>

LoggerInit ==
    /\ dailyRolling \in BOOLEAN
    /\ file = <<>> /\ old = <<>>
    /\ suffix = 0 /\ date = 0 /\ today = 0
    /\ buf = <<>> /\ buffering = FALSE
    /\ monitors = <<>>
    /\ line = 0 /\ gone = {} /\ blind = FALSE
    /\ starts = 1

MustRename == IF dailyRolling THEN today > date
              ELSE MaxFileCount > 1 /\ Len(file) >= MaxFileSize

NextSuffix(s) == (s % MaxFileCount) + 1

With(files, k, f) == [x \in DOMAIN files \cup {k} |-> IF x = k THEN f ELSE files[x]]

\* coverNextOne: the file takes the place of the next suffix.
CoverNextOne(s) ==
    /\ suffix' = NextSuffix(s)
    /\ old' = With(old, NextSuffix(s), file)
    /\ file' = <<>>
    /\ UNCHANGED <<date, buf, buffering, gone>>

\* rename, daily: the file takes the name of its day, what is still in the
\* buffer is lost, and from now on lines are written without one.
RenameDaily ==
    IF MustRename /\ date \notin DOMAIN old
    THEN /\ old' = With(old, date, file)
         /\ file' = <<>>
         /\ date' = today
         /\ gone' = gone \cup ToSet(buf)
         /\ buf' = <<>> /\ buffering' = FALSE
         /\ UNCHANGED suffix
    ELSE UNCHANGED <<file, old, suffix, date, buf, buffering, gone>>

\* The largest i such that the suffixes 1 to i are in use.
LastSuffix == CHOOSE i \in 0..MaxFileCount :
                 /\ 1..i \subseteq DOMAIN old
                 /\ i < MaxFileCount => i + 1 \notin DOMAIN old

\* SetRollingFile, called by ReSettingLog.
SetRollingFile ==
    /\ ~dailyRolling /\ Len(monitors) < 2
    /\ monitors' = Append(monitors, "wait")
    /\ blind' = (blind \/ (MaxFileCount \in DOMAIN old /\ LastSuffix # suffix))
    /\ IF MustRename THEN CoverNextOne(LastSuffix)
       ELSE suffix' = LastSuffix /\ UNCHANGED <<file, old, date, buf, buffering, gone>>
    /\ UNCHANGED <<dailyRolling, today, line, starts>>

\* SetRollingDaily: the new logObj has a new buffer; _date is today, so that
\* nothing is renamed.
SetRollingDaily ==
    /\ dailyRolling /\ Len(monitors) < 2
    /\ monitors' = Append(monitors, "wait")
    /\ date' = today
    /\ gone' = gone \cup ToSet(buf)
    /\ buf' = <<>> /\ buffering' = TRUE
    /\ UNCHANGED <<dailyRolling, file, old, suffix, today, line, blind, starts>>

\* Trace, Debug, Info, Warn, Error, Profile, Fatal, at a level that is logged.
Log ==
    /\ monitors # <<>> /\ line < MaxLines
    /\ line' = line + 1
    /\ IF buffering THEN buf' = Append(buf, line') /\ UNCHANGED file
       ELSE file' = Append(file, line') /\ UNCHANGED buf
    /\ UNCHANGED <<dailyRolling, old, suffix, date, today, buffering, monitors, gone, blind, starts>>

\* The 4 MB buffer is full and is written to the file.
BufferFull ==
    /\ buf # <<>>
    /\ file' = file \o buf /\ buf' = <<>>
    /\ UNCHANGED <<dailyRolling, old, suffix, date, today, buffering, monitors, line, gone,
                   blind, starts>>

\* fileCheck, up to the lock.
FileCheck(i) ==
    /\ monitors[i] = "wait" /\ MustRename
    /\ monitors' = [monitors EXCEPT ![i] = "must"]
    /\ UNCHANGED <<dailyRolling, file, old, suffix, date, today, buf, buffering, line, gone,
                   blind, starts>>

\* The day is not checked again under the lock.
FaultyRename(i) ==
    /\ monitors[i] = "must"
    /\ monitors' = [monitors EXCEPT ![i] = "wait"]
    /\ IF dailyRolling
       THEN /\ old' = With(old, date, file)
            /\ file' = <<>> /\ date' = today
            /\ gone' = gone \cup ToSet(buf)
            /\ buf' = <<>> /\ buffering' = FALSE /\ UNCHANGED suffix
       ELSE CoverNextOne(suffix)
    /\ UNCHANGED <<dailyRolling, today, line, blind, starts>>

\* rename under the lock: daily checks again, by size does not.
Rename(i) ==
    /\ monitors[i] = "must"
    /\ monitors' = [monitors EXCEPT ![i] = "wait"]
    /\ IF dailyRolling THEN RenameDaily ELSE CoverNextOne(suffix)
    /\ UNCHANGED <<dailyRolling, today, line, blind, starts>>

Midnight ==
    /\ dailyRolling /\ today < MaxDays
    /\ today' = today + 1
    /\ UNCHANGED <<dailyRolling, file, old, suffix, date, buf, buffering, monitors, line, gone,
                   blind, starts>>

\* The process ends and is started again; nothing flushes the buffer.
Restart ==
    /\ starts < MaxStarts /\ starts' = starts + 1
    /\ monitors' = <<>>
    /\ gone' = gone \cup ToSet(buf)
    /\ buf' = <<>> /\ buffering' = FALSE
    /\ UNCHANGED <<dailyRolling, file, old, suffix, date, today, line, blind>>

LogRest == line = MaxLines /\ UNCHANGED logVars

LoggerNext ==
    \/ SetRollingFile \/ SetRollingDaily \/ Log \/ BufferFull
    \/ \E i \in DOMAIN monitors : FileCheck(i) \/ Rename(i)
    \/ Midnight \/ Restart \/ LogRest

LoggerSpec == LoggerInit /\ [][LoggerNext]_logVars

\* The files, oldest first.
InTurn(k) == IF dailyRolling THEN k - 1 ELSE ((suffix + k - 1) % MaxFileCount) + 1
OldFile(k) == IF k \in DOMAIN old THEN old[k] ELSE <<>>
\* The lines of the first n of them.
Joined(n) == LET upTo[k \in 0..n] == IF k = 0 THEN <<>> ELSE upTo[k-1] \o OldFile(InTurn(k))
             IN  upTo[n]
History == Joined(IF dailyRolling THEN MaxDays + 1 ELSE MaxFileCount) \o file

\* By size, the files hold the last lines without a gap and in order, although
\* two monitors may rotate for the same reason, as long as no start has lost the
\* count of the suffixes; by day, every line that was not lost with a buffer is
\* in a file, once and in order (fileCheck, rename, coverNextOne).
LogKept ==
    IF dailyRolling
    THEN /\ ToSet(History) = (1..line) \ (gone \cup ToSet(buf))
         /\ \A i, j \in DOMAIN History : i < j => History[i] < History[j]
    ELSE ~blind => History = [i \in 1..Len(History) |-> line - Len(History) + i]
=============================================================================
