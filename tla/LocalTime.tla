------------------------------ MODULE LocalTime ------------------------------
(***************************************************************************)
(* The log (p4_log) and the conversion of times (convert_utc_to_localtime) *)
(* as the threads of the process share them.                               *)
(*                                                                         *)
(* localtime() returns the address of one static struct tm: every call in  *)
(* any thread overwrites it, and p4_log reads it several times.  It is     *)
(* taken to be written and read whole.                                     *)
(*                                                                         *)
(* A log file belongs to a day and a module, in a directory of the day     *)
(* that p4_log makes when it is not there.                                 *)
(***************************************************************************)
EXTENDS Naturals, Sequences

CONSTANTS Threads,
          Files,            \* kinds of log file
          Converted,        \* times of records, the empty record's 0 among them
          DAY_LEN,          \* seconds of a day
          MaxTime           \* bound

ASSUME LocalTimeAssumption ==
    /\ Converted \subseteq Nat /\ DAY_LEN \in Nat \ {0} /\ MaxTime \in Nat

VARIABLES
    now,        \* the clock
    tm,         \* the static struct tm
    call,       \* what a thread is about: p4_log, convert_utc_to_localtime or none
    logDir,     \* is ./log there?
    dayDirs,    \* the days that have a directory in it
    lines       \* what was written to the logs, in this order

timeVars == <<now, tm, call, logDir, dayDirs, lines>>

Day(t)       == t \div DAY_LEN
TimeOfDay(t) == t % DAY_LEN

Idle == [op |-> "none"]

\* What p4_log is called with; number 0 is a complaint of the module itself.
Line == [file : Files, no : Nat]

\* Where a call of p4_log is: ahead of the name of the day's directory, of the
\* directory, and of the line.
Logs == {"name", "mkdir", "write"}

TimeTypeOK ==
    /\ now \in Nat /\ tm \in Nat
    /\ \A th \in Threads :
          \/ call[th] = Idle
          \/ call[th].op = "convert" /\ call[th].time \in Nat
          \/ /\ call[th].op \in Logs
             /\ call[th].line \in Line /\ call[th].time \in Nat /\ call[th].day \in Nat
             /\ call[th].touched \in BOOLEAN
    /\ logDir \in BOOLEAN /\ dayDirs \subseteq Nat
    /\ lines \in Seq([file : Files, no : Nat, day : Nat])

TimeInit ==
    /\ now = 1 /\ tm = 0
    /\ call = [th \in Threads |-> Idle]
    /\ logDir = FALSE /\ dayDirs = {} /\ lines = << >>

Tick == /\ now < MaxTime
        /\ now' = now + 1
        /\ UNCHANGED <<tm, call, logDir, dayDirs, lines>>

-----------------------------------------------------------------------------
\* localtime() by th: its own call becomes c, and the others that are between two
\* looks at the struct are touched (a history) when the day they see is another.
Localtime(th, t, c) ==
    /\ tm' = t
    /\ call' = [o \in Threads |->
                   IF o = th THEN c
                   ELSE IF call[o].op \in Logs /\ Day(t) # Day(call[o].time)
                        THEN [call[o] EXCEPT !.touched = TRUE]
                   ELSE call[o]]

\* convert_utc_to_localtime, up to the sprintf.
Convert(th, t) ==
    /\ call[th] = Idle
    /\ Localtime(th, t, [op |-> "convert", time |-> t])
    /\ UNCHANGED <<now, logDir, dayDirs, lines>>

\* The digits are those of the struct, as it is now.
Digits == TimeOfDay(tm)

ConvertReturns(th) ==
    /\ call[th].op = "convert"
    /\ call' = [call EXCEPT ![th] = Idle]
    /\ UNCHANGED <<now, tm, logDir, dayDirs, lines>>

\* p4_log, up to its localtime().
Log(th, file, no) ==
    /\ call[th] = Idle
    /\ Localtime(th, now, [op |-> "name", time |-> now, touched |-> FALSE, day |-> 0,
                           line |-> [file |-> file, no |-> no]])

\* The name of the directory is made from the struct.
LogName(th) ==
    /\ call[th].op = "name"
    /\ call' = [call EXCEPT ![th].op = "mkdir", ![th].day = Day(tm)]
    /\ UNCHANGED <<now, tm, logDir, dayDirs, lines>>

\* Fault: the directory of the day is not made.
LogMkdirNot(th) ==
    /\ call[th].op = "mkdir"
    /\ call' = [call EXCEPT ![th].op = "write"]
    /\ UNCHANGED <<now, tm, logDir, dayDirs, lines>>

\* mkdir() fails where ./log is not there, which is not looked at.
LogMkdir(th) ==
    /\ call[th].op = "mkdir"
    /\ dayDirs' = IF logDir THEN dayDirs \cup {call[th].day} ELSE dayDirs
    /\ call' = [call EXCEPT ![th].op = "write"]
    /\ UNCHANGED <<now, tm, logDir, lines>>

\* The path of the file is made from the struct anew.  fopen() fails where the
\* directory is not there, and the line is dropped.  Of a complaint that is made
\* again the same day only the first line is kept here.
LogWrite(th) ==
    /\ call[th].op = "write"
    /\ LET line == [file |-> call[th].line.file, no |-> call[th].line.no,
                    day |-> Day(tm)]
           told == line.no = 0 /\ \E k \in 1 .. Len(lines) : lines[k] = line
       IN  lines' = IF Day(tm) \in dayDirs /\ ~told THEN Append(lines, line) ELSE lines
    /\ call' = [call EXCEPT ![th] = Idle]
    /\ UNCHANGED <<now, tm, logDir, dayDirs>>

LogSteps(th) == LogName(th) \/ LogMkdir(th) \/ LogWrite(th)

-----------------------------------------------------------------------------
\* The threads alone.
Next ==
    \/ Tick
    \/ \E th \in Threads :
          \/ \E t \in Converted : Convert(th, t)
          \/ \E file \in Files :
                Log(th, file, 0) /\ UNCHANGED <<now, logDir, dayDirs, lines>>
          \/ ConvertReturns(th) \/ LogSteps(th)

Spec == TimeInit /\ [][Next]_timeVars

\* A line is in the file of its module and of the day it was logged on when p4_log
\* returns, whatever day directories there were before, if ./log is there and no
\* other thread called localtime() for a time of another day meanwhile.
LineLandsInItsDay ==
    [][\A th \in Threads :
          LogWrite(th) /\ logDir /\ ~call[th].touched =>
            \E k \in 1 .. Len(lines') :
                lines'[k] = [file |-> call[th].line.file, no |-> call[th].line.no,
                             day |-> Day(call[th].time)]]_timeVars

\* "Given utc, then convert utc to localtime" (p4storagefun.c:1562): what is printed
\* for a time are its own digits.
ConvertsItsTime ==
    \A th \in Threads : call[th].op = "convert" => Digits = TimeOfDay(call[th].time)
=============================================================================
