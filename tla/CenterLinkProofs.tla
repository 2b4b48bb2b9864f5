-------------------------- MODULE CenterLinkProofs --------------------------
(***************************************************************************)
(* For any number of starts, servers and datagrams, and queues of any      *)
(* size: heartbeats are those of registered processes, and collected lines *)
(* are in the right log, once and in order, and lines land in their day.   *)
(***************************************************************************)
EXTENDS CenterLink, SequenceTheorems, TLAPS

\* What a thread is about.
LogCall     == [op : Logs, time : Nat, touched : BOOLEAN, day : Nat, line : Line]
ConvertCall == [op : {"convert"}, time : Nat]
CallsTyped  == call \in [Threads -> {Idle} \cup LogCall \cup ConvertCall]

Started == main \in {"video", "index", "log", "threads", "run"}

\* Where the process is in its start.
Starting ==
    /\ main # "off" => pid \in Pids
    /\ threads # {} => main \in {"threads", "run"}

Typed == TypeOK /\ CallsTyped /\ Starting

\* A process past its registration has one; nobody has that of a later server.
Registration ==
    /\ Started => registered[pid] # 0
    /\ main = "register" => registered[pid] = 0
    /\ \A p \in Pids : registered[p] <= server /\ (p > pid => registered[p] = 0)
    /\ up => server # 0
    /\ ~up => mail = << >>

Registering(p, k) == mail[k] = [type |-> "REGISTER", pid |-> p]

\* Its server has it, or finds it in its queue.
Known ==
    \A p \in Pids : up /\ registered[p] = server =>
        p \in known \/ \E j \in 1 .. Len(mail) : Registering(p, j)

\* Is line the one of datagram no?
IsLineOf(line, no) == IsLine(no) /\ line.file = LogOf[sent[no]]

\* The datagrams come in order, behind the line the collector is about, which is
\* behind the lines that are written; the other threads' lines are their own.
Collection ==
    /\ \A k \in 1 .. Len(inbox) : inbox[k] \in 1 .. Len(sent)
    /\ \A j, k \in 1 .. Len(inbox) : j < k => inbox[j] < inbox[k]
    /\ \A k \in 1 .. Len(lines) :
          /\ lines[k].no <= Len(sent)
          /\ \A j \in 1 .. Len(inbox) : lines[k].no < inbox[j]
    /\ \A th \in Threads \ {"collect"} : call[th] \in LogCall => call[th].line.no = 0
    /\ call["collect"] \in LogCall =>
          LET c == call["collect"].line
          IN  /\ c.no \in 1 .. Len(sent) /\ IsLineOf(c, c.no)
              /\ \A j \in 1 .. Len(inbox) : c.no < inbox[j]
              /\ \A k \in 1 .. Len(lines) : lines[k].no < c.no

\* A call of p4_log no other thread has come between sees the struct of its own day,
\* makes that day's directory, and has it behind it when it writes.
OwnDay ==
    \A th \in Threads : call[th] \in LogCall /\ ~call[th].touched =>
        /\ Day(call[th].time) = Day(tm)
        /\ call[th].op = "mkdir" => call[th].day = Day(tm)
        /\ call[th].op = "write" /\ logDir => Day(tm) \in dayDirs

\* Ahead of the making of ./log nothing is logged but the failure to register.
LogDirFirst ==
    ~logDir => /\ main \notin {"threads", "run"}
               /\ \A th \in Threads : call[th] # Idle => main = "failed"

DaysInv == OwnDay /\ LogDirFirst

LinkInv == Typed /\ Registration /\ Known /\ HeartsAreRegistered

LinesInv == Collection /\ CollectedInOrder

-----------------------------------------------------------------------------
LEMMA DayIsNatural == ASSUME NEW t \in Nat PROVE Day(t) \in Nat
BY LocalTimeAssumption DEF Day

LEMMA KindsOfCall ==
    /\ Idle \notin LogCall /\ Idle \notin ConvertCall
    /\ \A c \in LogCall : c.op # "convert" /\ c \notin ConvertCall
    /\ \A c \in ConvertCall : c.op = "convert"
    /\ Idle.op = "none"
BY DEF Idle, LogCall, ConvertCall, Logs

LEMMA LogOfFiles ==
    \A tag \in DOMAIN LogOf : LogOf[tag] \in Files
BY LinkAssumption DEF LogOf

LEMMA LinkConstants ==
    /\ {"main", "heart", "video", "terminal", "collect"} \subseteq Threads
    /\ Converters \subseteq {"video", "terminal"} /\ "storage" \in Files
    /\ QUEUE \in Nat /\ QUEUE # 0 /\ MaxSent \in Nat /\ MaxStarts \in Nat /\ MaxServers \in Nat
BY LinkAssumption

\* Of a call of p4_log, and of one of localtime: the calls stay typed.
LEMMA LocaltimeTyped ==
    ASSUME CallsTyped, NEW th \in Threads, NEW t \in Nat,
           NEW c \in LogCall \cup ConvertCall, Localtime(th, t, c)
    PROVE  /\ CallsTyped' /\ tm' \in Nat /\ call'[th] = c
           /\ \A o \in Threads : o # th =>
                 /\ call[o] \notin LogCall => call'[o] = call[o]
                 /\ call[o] \in LogCall => /\ call'[o] \in LogCall
                                           /\ call'[o].line = call[o].line
                                           /\ call'[o].op = call[o].op
<1>1. /\ call' = [o \in Threads |->
                   IF o = th THEN c
                   ELSE IF call[o].op \in Logs /\ Day(t) # Day(call[o].time)
                        THEN [call[o] EXCEPT !.touched = TRUE]
                   ELSE call[o]]
      /\ tm' = t
  BY DEF Localtime
<1>2. ASSUME NEW o \in Threads, call[o] \in LogCall
      PROVE  /\ [call[o] EXCEPT !.touched = TRUE] \in LogCall
             /\ [call[o] EXCEPT !.touched = TRUE].line = call[o].line
             /\ [call[o] EXCEPT !.touched = TRUE].op = call[o].op
  BY <1>2 DEF LogCall
<1>3. ASSUME NEW o \in Threads, call[o] \notin LogCall
      PROVE  call[o].op \notin Logs
  BY <1>3, KindsOfCall DEF CallsTyped, Idle, ConvertCall, Logs
<1>4. ASSUME NEW o \in Threads, o # th
      PROVE  /\ call[o] \notin LogCall => call'[o] = call[o]
             /\ call[o] \in LogCall => /\ call'[o] \in LogCall
                                       /\ call'[o].line = call[o].line
                                       /\ call'[o].op = call[o].op
  <2>1. CASE call[o] \in LogCall
    <3>1. call'[o] = call[o] \/ call'[o] = [call[o] EXCEPT !.touched = TRUE]
      BY <1>1, <1>4
    <3> QED BY <2>1, <3>1, <1>2
  <2>2. CASE call[o] \notin LogCall
    <3>1. call'[o] = call[o]
      BY <1>1, <1>3, <1>4, <2>2
    <3> QED BY <3>1, <2>2
  <2> QED BY <2>1, <2>2
<1>5. call'[th] = c
  BY <1>1
<1>6. CallsTyped'
  <2>1. ASSUME NEW o \in Threads PROVE call'[o] \in {Idle} \cup LogCall \cup ConvertCall
    BY <1>4, <1>5 DEF CallsTyped
  <2>2. call' = [o \in Threads |-> call'[o]]
    BY <1>1
  <2> QED BY <2>1, <2>2 DEF CallsTyped
<1> QED BY <1>1, <1>4, <1>5, <1>6

-----------------------------------------------------------------------------
(* Types. *)

LEMMA TypedInit == Init => Typed
<1> SUFFICES ASSUME Init PROVE Typed
  OBVIOUS
<1>1. TimeTypeOK /\ CallsTyped
  <2>1. lines \in Seq([file : Files, no : Nat, day : Nat])
    BY EmptySeq DEF Init, TimeInit
  <2>2. call \in [Threads -> {Idle} \cup LogCall \cup ConvertCall]
    BY DEF Init, TimeInit
  <2>3. \A th \in Threads : call[th] = Idle
    BY DEF Init, TimeInit
  <2> QED BY <2>1, <2>2, <2>3 DEF Init, TimeInit, TimeTypeOK, CallsTyped
<1>2. /\ inbox \in Seq(1 .. MaxSent) /\ Len(inbox) <= QUEUE /\ sent \in Seq(Tags)
      /\ mail \in Seq([type : {"REGISTER", "HEART"}, pid : Pids]) /\ Len(mail) <= QUEUE
  BY EmptySeq, LinkConstants DEF Init
<1>3. /\ pid \in 0 .. MaxStarts /\ server \in 0 .. MaxServers
      /\ registered \in [Pids -> 0 .. MaxServers]
  BY LinkConstants DEF Init
<1> QED BY <1>1, <1>2, <1>3 DEF Typed, TypeOK, Starting, Init

\* The types of the calls give the weaker ones LocalTime states.
LEMMA TimeTyped ==
    ASSUME CallsTyped', now' \in Nat, tm' \in Nat, logDir' \in BOOLEAN, dayDirs' \subseteq Nat,
           lines' \in Seq([file : Files, no : Nat, day : Nat])
    PROVE  TimeTypeOK'
<1>1. ASSUME NEW th \in Threads
      PROVE  \/ call'[th] = Idle
             \/ call'[th].op = "convert" /\ call'[th].time \in Nat
             \/ /\ call'[th].op \in Logs
                /\ call'[th].line \in Line /\ call'[th].time \in Nat /\ call'[th].day \in Nat
                /\ call'[th].touched \in BOOLEAN
  BY DEF CallsTyped, LogCall, ConvertCall
<1> QED BY <1>1 DEF TimeTypeOK

LEMMA SendTyped ==
    ASSUME Typed, main # "off", NEW type \in {"REGISTER", "HEART"}, Send(type)
    PROVE  /\ mail' \in Seq([type : {"REGISTER", "HEART"}, pid : Pids])
           /\ Len(mail') <= QUEUE
           /\ Len(mail) \in Nat /\ Len(mail') = Len(mail) + 1
           /\ \A k \in 1 .. Len(mail) : mail'[k] = mail[k]
           /\ mail'[Len(mail) + 1] = [type |-> type, pid |-> pid]
           /\ UNCHANGED <<up, server, known>> /\ up
<1> DEFINE M == [type : {"REGISTER", "HEART"}, pid : Pids]
<1>1. mail \in Seq(M) /\ pid \in Pids
  BY DEF Typed, TypeOK, Starting
<1>2. [type |-> type, pid |-> pid] \in M
  BY <1>1
<1>3. /\ mail' = Append(mail, [type |-> type, pid |-> pid]) /\ Len(mail) < QUEUE
      /\ UNCHANGED <<up, server, known>> /\ up
  BY DEF Send
<1>4. Len(mail) \in Nat
  BY <1>1, LenProperties
<1> HIDE DEF M
<1> QED BY <1>1, <1>2, <1>3, <1>4, LinkConstants, AppendProperties DEF M

\* p4_log is begun: the part of the calls and the clock.
LEMMA LogTyped ==
    ASSUME Typed, NEW th \in Threads, NEW file \in Files, NEW no \in Nat, Log(th, file, no),
           UNCHANGED <<now, logDir, dayDirs, lines>>
    PROVE  /\ TimeTypeOK' /\ CallsTyped'
           /\ call[th] = Idle
           /\ call'[th] \in LogCall
           /\ call'[th].line = [file |-> file, no |-> no]
           /\ \A o \in Threads : o # th =>
                 /\ call[o] \notin LogCall => call'[o] = call[o]
                 /\ call[o] \in LogCall => /\ call'[o] \in LogCall
                                           /\ call'[o].line = call[o].line
                                           /\ call'[o].op = call[o].op
<1> DEFINE c == [op |-> "name", time |-> now, touched |-> FALSE, day |-> 0,
                 line |-> [file |-> file, no |-> no]]
<1>1. call[th] = Idle /\ Localtime(th, now, c)
  BY DEF Log
<1>2. now \in Nat /\ CallsTyped
  BY DEF Typed, TypeOK, TimeTypeOK
<1>3. c \in LogCall /\ c.line = [file |-> file, no |-> no]
  BY <1>2 DEF LogCall, Line, Logs
<1> HIDE DEF c
<1>4. /\ CallsTyped' /\ tm' \in Nat /\ call'[th] = c
      /\ \A o \in Threads : o # th =>
            /\ call[o] \notin LogCall => call'[o] = call[o]
            /\ call[o] \in LogCall => /\ call'[o] \in LogCall
                                      /\ call'[o].line = call[o].line
                                      /\ call'[o].op = call[o].op
  BY <1>1, <1>2, <1>3, LocaltimeTyped
<1>5. /\ now' \in Nat /\ logDir' \in BOOLEAN /\ dayDirs' \subseteq Nat
      /\ lines' \in Seq([file : Files, no : Nat, day : Nat])
  BY DEF Typed, TypeOK, TimeTypeOK
<1>6. TimeTypeOK'
  BY <1>4, <1>5, TimeTyped
<1> QED BY <1>1, <1>3, <1>4, <1>6

\* The steps of a call of p4_log that has begun.
LEMMA LogStepsTyped ==
    ASSUME Typed, NEW th \in Threads, LogSteps(th)
    PROVE  /\ TimeTypeOK' /\ CallsTyped'
           /\ \A o \in Threads : o # th => call'[o] = call[o]
           /\ call[th] \in LogCall
           /\ \/ /\ LogName(th) \/ LogMkdir(th)
                 /\ call'[th] \in LogCall /\ call'[th].line = call[th].line
                 /\ UNCHANGED lines
              \/ /\ LogWrite(th) /\ call'[th] = Idle
                 /\ \/ UNCHANGED lines
                    \/ \E line \in [file : Files, no : Nat, day : Nat] :
                          /\ line.file = call[th].line.file /\ line.no = call[th].line.no
                          /\ lines' = Append(lines, line)
<1> DEFINE L == [file : Files, no : Nat, day : Nat]
<1>1. /\ CallsTyped /\ now \in Nat /\ tm \in Nat /\ logDir \in BOOLEAN
      /\ dayDirs \subseteq Nat /\ lines \in Seq(L)
  BY DEF Typed, TypeOK, TimeTypeOK
<1>2. call[th].op \in Logs
  BY DEF LogSteps, LogName, LogMkdir, LogWrite, Logs
<1>3. call[th] \in LogCall
  BY <1>1, <1>2, KindsOfCall DEF CallsTyped, Idle, ConvertCall, Logs
<1>6. CASE LogName(th)
  <2>1. /\ call' = [call EXCEPT ![th].op = "mkdir", ![th].day = Day(tm)]
        /\ UNCHANGED <<now, tm, logDir, dayDirs, lines>>
    BY <1>6 DEF LogName
  <2>2. call'[th] \in LogCall /\ call'[th].line = call[th].line
    <3>1. Day(tm) \in Nat
      BY <1>1, DayIsNatural
    <3> QED BY <1>1, <1>3, <2>1, <3>1 DEF CallsTyped, LogCall, Logs
  <2>3. CallsTyped' /\ \A o \in Threads : o # th => call'[o] = call[o]
    BY <1>1, <2>1, <2>2 DEF CallsTyped
  <2>4. TimeTypeOK'
    BY <1>1, <2>1, <2>3, TimeTyped
  <2> QED BY <1>3, <1>6, <2>1, <2>2, <2>3, <2>4
<1>4. CASE LogMkdir(th)
  <2>1. /\ call' = [call EXCEPT ![th].op = "write"]
        /\ dayDirs' = IF logDir THEN dayDirs \cup {call[th].day} ELSE dayDirs
        /\ UNCHANGED <<now, tm, logDir, lines>>
    BY <1>4 DEF LogMkdir
  <2>2. call'[th] \in LogCall /\ call'[th].line = call[th].line /\ call[th].day \in Nat
    BY <1>1, <1>3, <2>1 DEF CallsTyped, LogCall, Logs
  <2>3. CallsTyped' /\ \A o \in Threads : o # th => call'[o] = call[o]
    BY <1>1, <2>1, <2>2 DEF CallsTyped
  <2>4. dayDirs' \subseteq Nat
    BY <1>1, <2>1, <2>2
  <2>5. TimeTypeOK'
    BY <1>1, <2>1, <2>3, <2>4, TimeTyped
  <2> QED BY <1>3, <1>4, <2>1, <2>2, <2>3, <2>5
<1>5. CASE LogWrite(th)
  <2> DEFINE line == [file |-> call[th].line.file, no |-> call[th].line.no, day |-> Day(tm)]
  <2>1. /\ lines' = lines \/ lines' = Append(lines, line)
        /\ call' = [call EXCEPT ![th] = Idle]
        /\ UNCHANGED <<now, tm, logDir, dayDirs>>
    BY <1>5 DEF LogWrite
  <2>2. line \in L /\ line.file = call[th].line.file /\ line.no = call[th].line.no
    <3>1. Day(tm) \in Nat
      BY <1>1, DayIsNatural
    <3>2. call[th].line \in Line
      BY <1>3 DEF LogCall
    <3> QED BY <3>1, <3>2 DEF Line
  <2>3. /\ CallsTyped' /\ call'[th] = Idle
        /\ \A o \in Threads : o # th => call'[o] = call[o]
    BY <1>1, <2>1 DEF CallsTyped
  <2> HIDE DEF line, L
  <2>4. lines' \in Seq(L)
    BY <1>1, <2>1, <2>2, AppendProperties
  <2>5. TimeTypeOK'
    BY <1>1, <2>1, <2>3, <2>4, TimeTyped DEF L
  <2> QED BY <1>3, <1>5, <2>1, <2>2, <2>3, <2>5 DEF L
<1> QED BY <1>4, <1>5, <1>6 DEF LogSteps

\* A conversion: no line is in it.
LEMMA ConvertsTyped ==
    ASSUME Typed, Converts
    PROVE  /\ TimeTypeOK' /\ CallsTyped' /\ UNCHANGED lines
           /\ \A o \in Threads :
                 call'[o] \in LogCall => call[o] \in LogCall /\ call'[o].line = call[o].line
<1>1. PICK th \in Converters \cap threads :
         (\E t \in Converted : Convert(th, t)) \/ ConvertReturns(th)
  BY DEF Converts
<1>2. th \in Threads
  BY DEF Typed, TypeOK
<1>3. /\ CallsTyped /\ now \in Nat /\ tm \in Nat /\ logDir \in BOOLEAN
      /\ dayDirs \subseteq Nat /\ lines \in Seq([file : Files, no : Nat, day : Nat])
  BY DEF Typed, TypeOK, TimeTypeOK
<1>4. CASE \E t \in Converted : Convert(th, t)
  <2>1. PICK t \in Converted : Convert(th, t)
    BY <1>4
  <2> DEFINE c == [op |-> "convert", time |-> t]
  <2>2. t \in Nat /\ c \in ConvertCall
    BY LocalTimeAssumption DEF ConvertCall
  <2>3. /\ Localtime(th, t, c) /\ UNCHANGED <<now, logDir, dayDirs, lines>>
    BY <2>1 DEF Convert
  <2> HIDE DEF c
  <2>4. /\ CallsTyped' /\ tm' \in Nat /\ call'[th] = c
        /\ \A o \in Threads : o # th =>
              /\ call[o] \notin LogCall => call'[o] = call[o]
              /\ call[o] \in LogCall => call'[o].line = call[o].line
    BY <1>2, <1>3, <2>2, <2>3, LocaltimeTyped
  <2>5. TimeTypeOK'
    BY <1>3, <2>3, <2>4, TimeTyped
  <2>6. c \notin LogCall
    BY <2>2, KindsOfCall
  <2> QED BY <2>3, <2>4, <2>5, <2>6
<1>5. CASE ConvertReturns(th)
  <2>1. call' = [call EXCEPT ![th] = Idle] /\ UNCHANGED <<now, tm, logDir, dayDirs, lines>>
    BY <1>5 DEF ConvertReturns
  <2>2. CallsTyped' /\ call'[th] = Idle /\ \A o \in Threads : o # th => call'[o] = call[o]
    BY <1>2, <1>3, <2>1 DEF CallsTyped
  <2>3. TimeTypeOK'
    BY <1>3, <2>1, <2>2, TimeTyped
  <2> QED BY <2>1, <2>2, <2>3, KindsOfCall
<1> QED BY <1>1, <1>4, <1>5

LEMMA TypedParts ==
    ASSUME Typed
    PROVE  /\ inbox \in Seq(1 .. MaxSent) /\ Len(inbox) \in Nat /\ Len(inbox) <= QUEUE
           /\ sent \in Seq(Tags) /\ Len(sent) \in Nat
           /\ mail \in Seq([type : {"REGISTER", "HEART"}, pid : Pids])
           /\ Len(mail) \in Nat /\ Len(mail) <= QUEUE
           /\ registered \in [Pids -> 0 .. MaxServers]
           /\ server \in 0 .. MaxServers /\ server \in Nat
           /\ pid \in 0 .. MaxStarts /\ pid \in Nat
           /\ TimeTypeOK /\ CallsTyped
BY LenProperties, LinkConstants DEF Typed, TypeOK

\* The steps of main.
LEMMA TypedMain ==
    ASSUME Typed, Start \/ Register \/ RegisterFails \/ MakeDirs \/ StartThread
    PROVE  Typed'
<1>1. CASE Start
  <2>1. pid' \in 0 .. MaxStarts /\ pid' \in Pids
    BY <1>1, TypedParts, LinkConstants DEF Start, Pids
  <2>2. inbox' \in Seq(1 .. MaxSent) /\ Len(inbox') <= QUEUE
    BY <1>1, EmptySeq, LinkConstants DEF Start
  <2>3. TimeTypeOK' /\ CallsTyped'
    BY <1>1 DEF Start, Quiet, timeVars, Typed, TypeOK, TimeTypeOK, CallsTyped
  <2>4. threads = {}
    BY <1>1 DEF Start, Typed, Starting
  <2> QED BY <1>1, <2>1, <2>2, <2>3, <2>4 DEF Start, Typed, TypeOK, Starting, serverVars
<1>2. CASE Register
  <2>1. /\ main = "register" /\ main' = "video" /\ pid \in Pids /\ Send("REGISTER")
        /\ threads = {}
    BY <1>2 DEF Register, Typed, Starting
  <2>2. /\ mail' \in Seq([type : {"REGISTER", "HEART"}, pid : Pids]) /\ Len(mail') <= QUEUE
        /\ UNCHANGED <<up, server, known>>
    BY <2>1, SendTyped
  <2>3. registered' \in [Pids -> 0 .. MaxServers]
    BY <1>2, <2>1, TypedParts DEF Register
  <2>4. TimeTypeOK' /\ CallsTyped'
    BY <1>2 DEF Register, Quiet, timeVars, Typed, TypeOK, TimeTypeOK, CallsTyped
  <2> QED BY <1>2, <2>1, <2>2, <2>3, <2>4 DEF Register, Typed, TypeOK, Starting
<1>3. CASE RegisterFails
  <2>1. TimeTypeOK' /\ CallsTyped'
    BY <1>3, LinkConstants, LogTyped DEF RegisterFails
  <2> QED BY <1>3, <2>1 DEF RegisterFails, Typed, TypeOK, Starting, serverVars
<1>4. CASE MakeDirs
  <2>1. PICK d \in {"video", "index", "log"}, next \in {"index", "log", "threads"} :
            MakeDir(d, next)
    BY <1>4 DEF MakeDirs
  <2>2. TimeTypeOK' /\ CallsTyped'
    BY <2>1 DEF MakeDir, Typed, TypeOK, TimeTypeOK, CallsTyped
  <2>3. threads = {} /\ dirs' \subseteq {"video", "index"}
    BY <2>1 DEF MakeDir, Typed, TypeOK, Starting
  <2> QED BY <2>1, <2>2, <2>3 DEF MakeDir, Typed, TypeOK, Starting, serverVars
<1>5. CASE StartThread
  <2>1. PICK k \in 1 .. Len(Order) :
            /\ threads' = threads \cup {Order[k]}
            /\ main' = IF k = Len(Order) THEN "run" ELSE "threads"
    BY <1>5 DEF StartThread
  <2>2. Order \in Seq({"heart", "video", "terminal", "collect"})
    BY DEF Order
  <2>3. Order[k] \in {"heart", "video", "terminal", "collect"}
    BY <2>2, ElementOfSeq
  <2>4. threads' \subseteq Threads
    BY <2>1, <2>3, LinkConstants DEF Typed, TypeOK
  <2>5. TimeTypeOK' /\ CallsTyped'
    BY <1>5 DEF StartThread, Quiet, timeVars, Typed, TypeOK, TimeTypeOK, CallsTyped
  <2> QED BY <1>5, <2>1, <2>4, <2>5 DEF StartThread, Typed, TypeOK, Starting, serverVars
<1> QED BY <1>1, <1>2, <1>3, <1>4, <1>5

LEMMA TypedEnd ==
    ASSUME Typed, End
    PROVE  Typed' /\ \A th \in Threads : call'[th] = Idle
<1>1. CallsTyped' /\ \A th \in Threads : call'[th] = Idle
  BY DEF End, CallsTyped
<1>2. TimeTypeOK'
  BY <1>1, TimeTyped DEF End, Typed, TypeOK, TimeTypeOK
<1>3. inbox' \in Seq(1 .. MaxSent) /\ Len(inbox') <= QUEUE
  BY EmptySeq, LinkConstants DEF End
<1> QED BY <1>1, <1>2, <1>3 DEF End, Typed, TypeOK, Starting, serverVars

LEMMA TypedHeart ==
    ASSUME Typed, Heart \/ HeartFails \/ HeartWakes
    PROVE  Typed'
<1>1. CASE Heart
  <2>1. main # "off" /\ Send("HEART")
    BY <1>1 DEF Heart, Beats, Typed, Starting
  <2>2. /\ mail' \in Seq([type : {"REGISTER", "HEART"}, pid : Pids]) /\ Len(mail') <= QUEUE
        /\ UNCHANGED <<up, server, known>>
    BY <2>1, SendTyped
  <2>3. TimeTypeOK' /\ CallsTyped'
    BY <1>1 DEF Heart, Quiet, timeVars, Typed, TypeOK, TimeTypeOK, CallsTyped
  <2> QED BY <1>1, <2>2, <2>3 DEF Heart, Typed, TypeOK, Starting
<1>2. CASE HeartFails
  <2>1. TimeTypeOK' /\ CallsTyped'
    BY <1>2, LinkConstants, LogTyped DEF HeartFails
  <2> QED BY <1>2, <2>1 DEF HeartFails, Typed, TypeOK, Starting, serverVars
<1>3. CASE HeartWakes
  BY <1>3 DEF HeartWakes, Quiet, timeVars, Typed, TypeOK, Starting, TimeTypeOK, CallsTyped,
              serverVars
<1> QED BY <1>1, <1>2, <1>3

\* The head of the queue is taken.
LEMMA InboxTail ==
    ASSUME Typed, inbox # << >>, inbox' = Tail(inbox)
    PROVE  /\ inbox' \in Seq(1 .. MaxSent) /\ Len(inbox) \in Nat /\ Len(inbox) >= 1
           /\ Len(inbox') = Len(inbox) - 1
           /\ \A k \in 1 .. Len(inbox') : inbox'[k] = inbox[k + 1]
           /\ Head(inbox) = inbox[1] /\ Head(inbox) \in 1 .. MaxSent
<1>1. inbox \in Seq(1 .. MaxSent) /\ Len(inbox) \in Nat
  BY TypedParts
<1>2. Len(inbox) >= 1
  BY <1>1, EmptySeq
<1>3. Head(inbox) = inbox[1]
  BY <1>1, <1>2
<1>4. /\ inbox' \in Seq(1 .. MaxSent) /\ Len(inbox') = Len(inbox) - 1
      /\ \A k \in 1 .. Len(inbox') : inbox'[k] = inbox[k + 1]
      /\ Head(inbox) \in 1 .. MaxSent
  BY <1>1, HeadTailProperties
<1> QED BY <1>1, <1>2, <1>3, <1>4

LEMMA TypedCollect ==
    ASSUME Typed, CollectLine \/ CollectOther
    PROVE  Typed'
<1>1. /\ inbox' = Tail(inbox) /\ inbox # << >>
      /\ UNCHANGED <<linkVars, sent, serverVars, registered>>
  BY DEF CollectLine, CollectOther, Collects
<1>2. inbox' \in Seq(1 .. MaxSent) /\ Len(inbox') <= QUEUE
  BY <1>1, InboxTail, TypedParts, LinkConstants
<1>3. TimeTypeOK' /\ CallsTyped'
  <2>1. CASE CollectLine
    <3> DEFINE no == Head(inbox)
    <3>1. no \in Nat /\ LogOf[sent[no]] \in Files
      BY <2>1, <1>1, InboxTail, LogOfFiles, LinkConstants DEF CollectLine, IsLine
    <3>2. Log("collect", LogOf[sent[no]], no) /\ UNCHANGED <<now, logDir, dayDirs, lines>>
      BY <2>1 DEF CollectLine
    <3> QED BY <3>1, <3>2, LinkConstants, LogTyped
  <2>2. CASE CollectOther
    BY <2>2 DEF CollectOther, Quiet, timeVars, Typed, TypeOK, TimeTypeOK, CallsTyped
  <2> QED BY <2>1, <2>2
<1> QED BY <1>1, <1>2, <1>3 DEF Typed, TypeOK, Starting, linkVars, serverVars

LEMMA TypedOthers ==
    ASSUME Typed,
           \/ \E tag \in Tags : ModuleSends(tag)
           \/ ServerStarts \/ ServerStops \/ ServerReads
    PROVE  Typed'
<1>1. CASE \E tag \in Tags : ModuleSends(tag)
  <2>1. PICK tag \in Tags : ModuleSends(tag)
    BY <1>1
  <2>2. sent' \in Seq(Tags) /\ Len(sent') = Len(sent) + 1
    BY <2>1, TypedParts, AppendProperties DEF ModuleSends
  <2>3. Len(sent') \in 1 .. MaxSent
    BY <2>1, <2>2, TypedParts, LinkConstants DEF ModuleSends
  <2>4. inbox' \in Seq(1 .. MaxSent) /\ Len(inbox') <= QUEUE
    BY <2>1, <2>3, TypedParts, LinkConstants, AppendProperties DEF ModuleSends
  <2> QED BY <2>1, <2>2, <2>4 DEF ModuleSends, Quiet, timeVars, linkVars, serverVars, Typed,
                                 TypeOK, Starting, TimeTypeOK, CallsTyped
<1>2. CASE ServerStarts
  <2>1. server' \in 0 .. MaxServers
    BY <1>2, TypedParts, LinkConstants DEF ServerStarts
  <2> QED BY <1>2, <2>1 DEF ServerStarts, Quiet, timeVars, linkVars, Typed, TypeOK, Starting,
                            TimeTypeOK, CallsTyped
<1>3. CASE ServerStops
  <2>1. /\ mail' \in Seq([type : {"REGISTER", "HEART"}, pid : Pids]) /\ Len(mail') <= QUEUE
    BY <1>3, EmptySeq, LinkConstants DEF ServerStops
  <2> QED BY <1>3, <2>1 DEF ServerStops, Quiet, timeVars, linkVars, Typed, TypeOK, Starting,
                            TimeTypeOK, CallsTyped
<1>4. CASE ServerReads
  <2>1. /\ mail' \in Seq([type : {"REGISTER", "HEART"}, pid : Pids])
        /\ Len(mail') = Len(mail) - 1 /\ Head(mail) \in [type : {"REGISTER", "HEART"}, pid : Pids]
    BY <1>4, TypedParts, HeadTailProperties DEF ServerReads
  <2>2. Len(mail') <= QUEUE
    BY <2>1, TypedParts, LinkConstants
  <2>3. known' \subseteq Pids
    BY <1>4, <2>1 DEF ServerReads, Typed, TypeOK
  <2> QED BY <1>4, <2>1, <2>2, <2>3 DEF ServerReads, Quiet, timeVars, linkVars, Typed, TypeOK,
                                        Starting, TimeTypeOK, CallsTyped
<1> QED BY <1>1, <1>2, <1>3, <1>4

LEMMA TypedPreserved == Typed /\ [LinkNext]_vars => Typed'
<1> SUFFICES ASSUME Typed, [LinkNext]_vars PROVE Typed'
  OBVIOUS
<1>1. CASE Start \/ Register \/ RegisterFails \/ MakeDirs \/ StartThread
  BY <1>1, TypedMain
<1>2. CASE Exit \/ Killed
  BY <1>2, TypedEnd DEF Exit, Killed
<1>3. CASE Heart \/ HeartFails \/ HeartWakes
  BY <1>3, TypedHeart
<1>4. CASE CollectLine \/ CollectOther
  BY <1>4, TypedCollect
<1>5. CASE Logging("main") \/ Logging("heart") \/ Logging("collect")
  <2>1. PICK th \in Threads : LogSteps(th) /\ Others
    BY <1>5, LinkConstants DEF Logging
  <2>2. TimeTypeOK' /\ CallsTyped'
    BY <2>1, LogStepsTyped
  <2> QED BY <2>1, <2>2 DEF Others, linkVars, serverVars, Typed, TypeOK, Starting
<1>6. CASE Converts /\ Others
  <2>1. TimeTypeOK' /\ CallsTyped'
    BY <1>6, ConvertsTyped
  <2> QED BY <1>6, <2>1 DEF Others, linkVars, serverVars, Typed, TypeOK, Starting
<1>7. CASE Tick /\ Others
  <2>1. CallsTyped' /\ now' \in Nat
    BY <1>7 DEF Tick, Typed, TypeOK, TimeTypeOK, CallsTyped
  <2>2. TimeTypeOK'
    BY <1>7, <2>1, TimeTyped DEF Tick, Typed, TypeOK, TimeTypeOK
  <2> QED BY <1>7, <2>1, <2>2 DEF Others, linkVars, serverVars, Typed, TypeOK, Starting
<1>8. CASE (\E tag \in Tags : ModuleSends(tag)) \/ ServerStarts \/ ServerStops \/ ServerReads
  BY <1>8, TypedOthers
<1>9. CASE UNCHANGED vars
  BY <1>9 DEF vars, timeVars, linkVars, serverVars, Typed, TypeOK, Starting, TimeTypeOK,
              CallsTyped
<1> QED BY <1>1, <1>2, <1>3, <1>4, <1>5, <1>6, <1>7, <1>8, <1>9
        DEF LinkNext, Main, HeartLoop, Collector

-----------------------------------------------------------------------------
(* Registration. *)

LEMMA LinkInvInit == Init => LinkInv
<1> SUFFICES ASSUME Init PROVE LinkInv
  OBVIOUS
<1>1. Len(mail) = 0 /\ mail = << >>
  BY EmptySeq DEF Init
<1> QED BY <1>1, TypedInit DEF Init, LinkInv, Registration, Started, Known, HeartsAreRegistered

\* What neither main nor the server has to do with.
LEMMA RegistrationUnchanged ==
    ASSUME LinkInv, UNCHANGED <<main, pid, serverVars, registered>>
    PROVE  Registration' /\ Known' /\ HeartsAreRegistered'
BY DEF LinkInv, serverVars, Registration, Started, Known, Registering, HeartsAreRegistered

LEMMA RegistrationMain ==
    ASSUME LinkInv,
           \/ Start \/ RegisterFails \/ MakeDirs \/ StartThread \/ Exit \/ Killed
    PROVE  Registration' /\ Known' /\ HeartsAreRegistered'
<1>1. UNCHANGED <<serverVars, registered>>
  BY DEF Start, RegisterFails, MakeDirs, MakeDir, StartThread, Exit, Killed, End
<1>2. Known' /\ HeartsAreRegistered'
  BY <1>1 DEF LinkInv, serverVars, Known, Registering, HeartsAreRegistered
<1>3. CASE Start
  <2>1. pid' = pid + 1 /\ main' = "register" /\ pid \in Nat /\ pid' \in Pids
    BY <1>3, TypedParts, LinkConstants DEF Start, LinkInv, Pids
  <2>2. \A p \in Pids : p > pid' => p > pid
    BY <2>1 DEF Pids
  <2>3. registered'[pid'] = 0
    BY <2>1, <1>1 DEF LinkInv, Registration
  <2> QED BY <1>1, <1>2, <2>1, <2>2, <2>3 DEF LinkInv, Registration, Started, serverVars
<1>4. CASE RegisterFails \/ MakeDirs \/ StartThread \/ Exit \/ Killed
  <2>1. pid' = pid /\ main' # "register" /\ (Started' => Started)
    BY <1>4 DEF RegisterFails, MakeDirs, MakeDir, StartThread, Exit, Killed, End, Started
  <2> QED BY <1>1, <1>2, <2>1 DEF LinkInv, Registration, serverVars
<1> QED BY <1>3, <1>4

LEMMA RegistrationRegister ==
    ASSUME LinkInv, Register
    PROVE  Registration' /\ Known' /\ HeartsAreRegistered'
<1>1. /\ main = "register" /\ main' = "video" /\ pid' = pid /\ pid \in Pids
      /\ Send("REGISTER") /\ registered' = [registered EXCEPT ![pid] = server]
  BY DEF Register, LinkInv, Typed, Starting
<1>2. /\ Len(mail) \in Nat /\ Len(mail') = Len(mail) + 1
      /\ \A k \in 1 .. Len(mail) : mail'[k] = mail[k]
      /\ mail'[Len(mail) + 1] = [type |-> "REGISTER", pid |-> pid]
      /\ UNCHANGED <<up, server, known>> /\ up
  BY <1>1, SendTyped DEF LinkInv
<1>3. /\ registered'[pid] = server /\ registered[pid] = 0 /\ server # 0 /\ server \in Nat
      /\ \A p \in Pids : p # pid => registered'[p] = registered[p]
  BY <1>1, <1>2, TypedParts DEF LinkInv, Registration
<1>4. Registration'
  <2>1. pid \in Nat /\ \A p \in Pids : p \in Nat
    BY TypedParts DEF LinkInv, Pids
  <2>2. ASSUME NEW p \in Pids
        PROVE  registered'[p] <= server' /\ (p > pid' => registered'[p] = 0)
    <3>1. CASE p = pid
      <4>1. registered'[p] = server /\ server' = server /\ server <= server
        BY <3>1, <1>2, <1>3
      <4>2. ~(p > pid')
        BY <3>1, <2>1, <1>1
      <4> QED BY <4>1, <4>2
    <3>2. CASE p # pid
      <4>1. registered'[p] = registered[p] /\ server' = server /\ pid' = pid
        BY <3>2, <1>1, <1>2, <1>3
      <4>2. registered[p] <= server /\ (p > pid => registered[p] = 0)
        BY DEF LinkInv, Registration
      <4> QED BY <4>1, <4>2
    <3> QED BY <3>1, <3>2
  <2> QED BY <2>2, <1>1, <1>2, <1>3 DEF Registration, Started
<1>5. Known'
  <2> SUFFICES ASSUME NEW p \in Pids, registered'[p] = server
               PROVE  p \in known \/ \E j \in 1 .. Len(mail') : Registering(p, j)'
    BY <1>2 DEF Known
  <2>1. CASE p = pid
    <3>1. Len(mail) + 1 \in 1 .. Len(mail')
      BY <1>2
    <3> QED BY <2>1, <3>1, <1>2 DEF Registering
  <2>2. CASE p # pid
    <3>1. p \in known \/ \E j \in 1 .. Len(mail) : Registering(p, j)
      BY <2>2, <1>2, <1>3 DEF LinkInv, Known
    <3> QED BY <3>1, <1>2 DEF Registering
  <2> QED BY <2>1, <2>2
<1>6. HeartsAreRegistered'
  <2> SUFFICES ASSUME NEW k \in 1 .. Len(mail'), NEW p, p = mail'[k].pid,
                      mail'[k].type = "HEART"
               PROVE  /\ registered'[p] # 0
                      /\ registered'[p] = server' =>
                            \/ p \in known'
                            \/ \E j \in 1 .. k - 1 :
                                  mail'[j] = [type |-> "REGISTER", pid |-> p]
    BY DEF HeartsAreRegistered
  <2>1. k \in 1 .. Len(mail)
    BY <1>2
  <2>2. mail'[k] = mail[k] /\ mail[k] \in [type : {"REGISTER", "HEART"}, pid : Pids]
    BY <2>1, <1>2, TypedParts, ElementOfSeq DEF LinkInv
  <2>3. /\ registered[p] # 0 /\ p \in Pids
        /\ registered[p] = server =>
              \/ p \in known
              \/ \E j \in 1 .. k - 1 : mail[j] = [type |-> "REGISTER", pid |-> p]
    BY <2>1, <2>2 DEF LinkInv, HeartsAreRegistered
  <2>4. p # pid /\ registered'[p] = registered[p]
    BY <2>3, <1>3
  <2>5. \A j \in 1 .. k - 1 : mail'[j] = mail[j]
    BY <2>1, <1>2
  <2> QED BY <2>3, <2>4, <2>5, <1>2
<1> QED BY <1>4, <1>5, <1>6

LEMMA RegistrationHeart ==
    ASSUME LinkInv, Heart
    PROVE  Registration' /\ Known' /\ HeartsAreRegistered'
<1>1. /\ Send("HEART") /\ Started /\ main # "off" /\ pid \in Pids
      /\ UNCHANGED <<main, pid, registered>>
  BY DEF Heart, Beats, LinkInv, Typed, Starting, Started
<1>2. /\ Len(mail) \in Nat /\ Len(mail') = Len(mail) + 1
      /\ \A k \in 1 .. Len(mail) : mail'[k] = mail[k]
      /\ mail'[Len(mail) + 1] = [type |-> "HEART", pid |-> pid]
      /\ UNCHANGED <<up, server, known>> /\ up
  BY <1>1, SendTyped DEF LinkInv
<1>3. Registration'
  BY <1>1, <1>2 DEF LinkInv, Registration, Started
<1>4. Known'
  BY <1>1, <1>2 DEF LinkInv, Known, Registering
<1>5. HeartsAreRegistered'
  <2> SUFFICES ASSUME NEW k \in 1 .. Len(mail'), NEW p, p = mail'[k].pid,
                      mail'[k].type = "HEART"
               PROVE  /\ registered[p] # 0
                      /\ registered[p] = server =>
                            \/ p \in known
                            \/ \E j \in 1 .. k - 1 :
                                  mail'[j] = [type |-> "REGISTER", pid |-> p]
    BY <1>1, <1>2 DEF HeartsAreRegistered
  <2>1. CASE k \in 1 .. Len(mail)
    <3>1. mail'[k] = mail[k] /\ \A j \in 1 .. k - 1 : mail'[j] = mail[j]
      BY <2>1, <1>2
    <3> QED BY <2>1, <3>1 DEF LinkInv, HeartsAreRegistered
  <2>2. CASE k = Len(mail) + 1
    <3>1. p = pid
      BY <2>2, <1>2
    <3>2. registered[p] # 0
      BY <3>1, <1>1 DEF LinkInv, Registration
    <3>3. ASSUME registered[p] = server, p \notin known
          PROVE  \E j \in 1 .. k - 1 : mail'[j] = [type |-> "REGISTER", pid |-> p]
      <4>1. PICK j \in 1 .. Len(mail) : Registering(p, j)
        BY <3>1, <3>3, <1>1, <1>2 DEF LinkInv, Known
      <4>2. j \in 1 .. k - 1 /\ mail'[j] = mail[j]
        BY <4>1, <2>2, <1>2
      <4> QED BY <4>1, <4>2 DEF Registering
    <3> QED BY <3>2, <3>3
  <2> QED BY <2>1, <2>2, <1>2
<1> QED BY <1>3, <1>4, <1>5

LEMMA RegistrationServer ==
    ASSUME LinkInv, ServerStarts \/ ServerStops \/ ServerReads
    PROVE  Registration' /\ Known' /\ HeartsAreRegistered'
<1>1. UNCHANGED <<main, pid, registered>> /\ Started' = Started
  BY DEF ServerStarts, ServerStops, ServerReads, linkVars, Started
<1>2. CASE ServerStarts
  <2>1. ~up /\ up' /\ server' = server + 1 /\ mail = << >> /\ mail' = << >> /\ known' = known
    BY <1>2 DEF ServerStarts, LinkInv, Registration
  <2>2. server \in Nat /\ \A p \in Pids : registered[p] \in Nat /\ registered[p] <= server
    BY TypedParts, LinkConstants DEF LinkInv, Registration
  <2>3. server' # 0 /\ \A p \in Pids : registered[p] <= server' /\ registered[p] # server'
    BY <2>1, <2>2
  <2>4. Len(mail') = 0
    BY <2>1, EmptySeq
  <2> QED BY <1>1, <2>1, <2>3, <2>4 DEF LinkInv, Registration, Known, HeartsAreRegistered
<1>3. CASE ServerStops
  <2>1. up /\ ~up' /\ server' = server /\ mail' = << >>
    BY <1>3 DEF ServerStops
  <2>2. Len(mail') = 0
    BY <2>1, EmptySeq
  <2> QED BY <1>1, <2>1, <2>2 DEF LinkInv, Registration, Known, HeartsAreRegistered
<1>4. CASE ServerReads
  <2>1. /\ mail # << >> /\ mail' = Tail(mail) /\ UNCHANGED <<up, server>>
        /\ known' = IF Head(mail).type = "REGISTER" THEN known \cup {Head(mail).pid} ELSE known
    BY <1>4 DEF ServerReads
  <2>2. /\ Len(mail) \in Nat /\ Len(mail) >= 1 /\ Len(mail') = Len(mail) - 1
        /\ \A k \in 1 .. Len(mail') : mail'[k] = mail[k + 1]
        /\ Head(mail) = mail[1]
    <3>1. /\ mail \in Seq([type : {"REGISTER", "HEART"}, pid : Pids]) /\ Len(mail) \in Nat
      BY TypedParts DEF LinkInv
    <3>2. Len(mail) >= 1
      BY <2>1, <3>1, EmptySeq
    <3>3. Head(mail) = mail[1]
      BY <3>1, <3>2
    <3> QED BY <2>1, <3>1, <3>2, <3>3, HeadTailProperties
  <2>3. \A p : Registering(p, 1) => p \in known'
    BY <2>1, <2>2 DEF Registering
  <2>4. ASSUME NEW p, NEW j \in 1 .. Len(mail), Registering(p, j)
        PROVE  p \in known' \/ (j - 1 \in 1 .. Len(mail') /\ Registering(p, j - 1)')
    <3>1. CASE j = 1
      BY <3>1, <2>3, <2>4
    <3>2. CASE j # 1
      <4>1. j - 1 \in 1 .. Len(mail') /\ mail'[j - 1] = mail[j]
        BY <3>2, <2>2
      <4> QED BY <4>1, <2>4 DEF Registering
    <3> QED BY <3>1, <3>2
  <2>5. known \subseteq known'
    BY <2>1
  <2>6. Registration'
    <3>1. up => up'
      BY <2>1
    <3>2. up
      BY <2>1 DEF LinkInv, Registration
    <3> QED BY <3>2, <1>1, <2>1 DEF LinkInv, Registration
  <2>7. Known'
    <3> SUFFICES ASSUME NEW p \in Pids, up, registered[p] = server
                 PROVE  p \in known' \/ \E j \in 1 .. Len(mail') : Registering(p, j)'
      BY <1>1, <2>1 DEF Known
    <3>1. p \in known \/ \E j \in 1 .. Len(mail) : Registering(p, j)
      BY DEF LinkInv, Known
    <3> QED BY <3>1, <2>4, <2>5
  <2>8. HeartsAreRegistered'
    <3> SUFFICES ASSUME NEW k \in 1 .. Len(mail'), NEW p, p = mail'[k].pid,
                        mail'[k].type = "HEART"
                 PROVE  /\ registered[p] # 0
                        /\ registered[p] = server =>
                              \/ p \in known'
                              \/ \E j \in 1 .. k - 1 :
                                    mail'[j] = [type |-> "REGISTER", pid |-> p]
      BY <1>1, <2>1 DEF HeartsAreRegistered
    <3>1. k + 1 \in 1 .. Len(mail) /\ mail'[k] = mail[k + 1]
      BY <2>2
    <3>2. /\ registered[p] # 0
          /\ registered[p] = server =>
                p \in known \/ \E j \in 1 .. (k + 1) - 1 :
                                  mail[j] = [type |-> "REGISTER", pid |-> p]
      BY <3>1 DEF LinkInv, HeartsAreRegistered
    <3>3. ASSUME NEW j \in 1 .. k, mail[j] = [type |-> "REGISTER", pid |-> p]
          PROVE  \/ p \in known'
                 \/ \E m \in 1 .. k - 1 : mail'[m] = [type |-> "REGISTER", pid |-> p]
      <4>1. CASE j = 1
        BY <4>1, <3>3, <2>3 DEF Registering
      <4>2. CASE j # 1
        <5>1. j - 1 \in 1 .. k - 1 /\ mail'[j - 1] = mail[j]
          BY <4>2, <2>2
        <5> QED BY <5>1, <3>3
      <4> QED BY <4>1, <4>2
    <3>4. (k + 1) - 1 = k
      BY <2>2
    <3> QED BY <3>2, <3>3, <3>4, <2>5
  <2> QED BY <2>6, <2>7, <2>8
<1> QED BY <1>2, <1>3, <1>4

LEMMA LinkInvPreserved == LinkInv /\ [LinkNext]_vars => LinkInv'
<1> SUFFICES ASSUME LinkInv, [LinkNext]_vars PROVE LinkInv'
  OBVIOUS
<1>1. Typed'
  BY TypedPreserved DEF LinkInv
<1>2. CASE Start \/ RegisterFails \/ MakeDirs \/ StartThread \/ Exit \/ Killed
  BY <1>1, <1>2, RegistrationMain DEF LinkInv
<1>3. CASE Register \/ Heart
  BY <1>1, <1>3, RegistrationRegister, RegistrationHeart DEF LinkInv
<1>4. CASE ServerStarts \/ ServerStops \/ ServerReads
  BY <1>1, <1>4, RegistrationServer DEF LinkInv
<1>5. CASE \/ HeartFails \/ HeartWakes \/ CollectLine \/ CollectOther
           \/ Logging("main") \/ Logging("heart") \/ Logging("collect")
           \/ (Converts /\ Others) \/ (Tick /\ Others)
           \/ (\E tag \in Tags : ModuleSends(tag)) \/ UNCHANGED vars
  <2>1. UNCHANGED <<main, pid, serverVars, registered>>
    BY <1>5 DEF HeartFails, HeartWakes, CollectLine, CollectOther, Logging, Others,
                ModuleSends, vars, linkVars
  <2> QED BY <1>1, <2>1, RegistrationUnchanged DEF LinkInv
<1> QED BY <1>2, <1>3, <1>4, <1>5 DEF LinkNext, Main, HeartLoop, Collector

LEMMA LinkInvAlways == LinkSpec => []LinkInv
BY LinkInvInit, LinkInvPreserved, PTL DEF LinkSpec

-----------------------------------------------------------------------------
(* The collected lines. *)

LEMMA LinesInvInit == Init => LinesInv
<1> SUFFICES ASSUME Init PROVE LinesInv
  OBVIOUS
<1>1. Len(inbox) = 0 /\ Len(lines) = 0
  BY EmptySeq DEF Init, TimeInit
<1>2. \A th \in Threads : call[th] \notin LogCall
  BY KindsOfCall DEF Init, TimeInit
<1> QED BY <1>1, <1>2, LinkConstants DEF LinesInv, Collection, CollectedInOrder

LEMMA LinesTyped ==
    ASSUME Typed
    PROVE  /\ lines \in Seq([file : Files, no : Nat, day : Nat]) /\ Len(lines) \in Nat
           /\ \A k \in 1 .. Len(lines) : lines[k].no \in Nat
           /\ \A k \in 1 .. Len(inbox) : inbox[k] \in Nat
           /\ Len(inbox) \in Nat /\ Len(sent) \in Nat
           /\ \A th \in Threads : call[th] \in LogCall => call[th].line.no \in Nat
<1> DEFINE L == [file : Files, no : Nat, day : Nat]
<1>1. lines \in Seq(L)
  BY DEF Typed, TypeOK, TimeTypeOK
<1>2. Len(lines) \in Nat /\ \A k \in 1 .. Len(lines) : lines[k] \in L
  BY <1>1, ElementOfSeq, LenProperties
<1>3. inbox \in Seq(1 .. MaxSent) /\ Len(inbox) \in Nat /\ Len(sent) \in Nat
  BY TypedParts
<1>4. \A k \in 1 .. Len(inbox) : inbox[k] \in 1 .. MaxSent
  BY <1>3, ElementOfSeq
<1>5. \A c \in LogCall : c.line.no \in Nat
  BY DEF LogCall, Line
<1> QED BY <1>1, <1>2, <1>3, <1>4, <1>5

\* No line is written or sent, the queue loses none but its first, and the collector
\* begins none.
LEMMA LinesKept ==
    ASSUME Typed, LinesInv, UNCHANGED <<sent, lines>>,
           NEW d \in Nat,
           \A k \in 1 .. Len(inbox') : k + d \in 1 .. Len(inbox) /\ inbox'[k] = inbox[k + d],
           Len(inbox') \in Nat,
           \A th \in Threads : call'[th] \in LogCall =>
               \/ call[th] \in LogCall /\ call'[th].line = call[th].line
               \/ th # "collect" /\ call'[th].line.no = 0
    PROVE  LinesInv'
<1>1. Collection /\ CollectedInOrder
  BY DEF LinesInv
<1>2. CollectedInOrder'
  BY <1>1 DEF CollectedInOrder, IsLine
<1>3. \A k \in 1 .. Len(inbox') : inbox'[k] \in 1 .. Len(sent)
  BY <1>1 DEF Collection
<1>4. \A j, k \in 1 .. Len(inbox') : j < k => inbox'[j] < inbox'[k]
  <2> SUFFICES ASSUME NEW j \in 1 .. Len(inbox'), NEW k \in 1 .. Len(inbox'), j < k
               PROVE  inbox'[j] < inbox'[k]
    OBVIOUS
  <2>1. j + d < k + d
    OBVIOUS
  <2> QED BY <2>1, <1>1 DEF Collection
<1>5. \A k \in 1 .. Len(lines) :
         lines[k].no <= Len(sent) /\ \A j \in 1 .. Len(inbox') : lines[k].no < inbox'[j]
  BY <1>1 DEF Collection
<1>6. \A th \in Threads \ {"collect"} : call'[th] \in LogCall => call'[th].line.no = 0
  BY <1>1 DEF Collection
<1>7. ASSUME call'["collect"] \in LogCall
      PROVE  LET c == call'["collect"].line
             IN  /\ c.no \in 1 .. Len(sent) /\ IsLineOf(c, c.no)
                 /\ \A j \in 1 .. Len(inbox') : c.no < inbox'[j]
                 /\ \A k \in 1 .. Len(lines) : lines[k].no < c.no
  <2>1. call["collect"] \in LogCall /\ call'["collect"].line = call["collect"].line
    BY <1>7, LinkConstants
  <2> QED BY <2>1, <1>1 DEF Collection
<1>8. Collection'
  BY <1>3, <1>4, <1>5, <1>6, <1>7 DEF Collection, IsLineOf, IsLine
<1> QED BY <1>2, <1>8 DEF LinesInv

\* The queue stays.
LEMMA LinesKeptWithQueue ==
    ASSUME Typed, LinesInv, UNCHANGED <<inbox, sent, lines>>,
           \A th \in Threads : call'[th] \in LogCall =>
               \/ call[th] \in LogCall /\ call'[th].line = call[th].line
               \/ th # "collect" /\ call'[th].line.no = 0
    PROVE  LinesInv'
<1>1. Len(inbox') \in Nat
  BY LinesTyped
<1>2. \A k \in 1 .. Len(inbox') : k + 0 \in 1 .. Len(inbox) /\ inbox'[k] = inbox[k + 0]
  <2> SUFFICES ASSUME NEW k \in 1 .. Len(inbox')
               PROVE  k + 0 \in 1 .. Len(inbox) /\ inbox'[k] = inbox[k + 0]
    OBVIOUS
  <2>1. k + 0 = k
    BY <1>1
  <2> QED BY <2>1
<1> QED BY <1>1, <1>2, LinesKept

\* A thread other than the collector begins to complain.
LEMMA LinesOfComplaint ==
    ASSUME Typed, LinesInv, NEW th \in Threads, th # "collect", Log(th, "storage", 0),
           UNCHANGED <<now, logDir, dayDirs, lines>>, UNCHANGED <<inbox, sent>>
    PROVE  LinesInv'
<1>1. "storage" \in Files
  BY LinkConstants
<1>2. 0 \in Nat
  OBVIOUS
<1>3. /\ call'[th].line = [file |-> "storage", no |-> 0]
      /\ \A o \in Threads : o # th =>
            /\ call[o] \notin LogCall => call'[o] = call[o]
            /\ call[o] \in LogCall => call'[o].line = call[o].line
  BY <1>1, <1>2, LogTyped
<1>4. call'[th].line.no = 0
  BY <1>3
<1>5. \A o \in Threads : call'[o] \in LogCall =>
         \/ call[o] \in LogCall /\ call'[o].line = call[o].line
         \/ o # "collect" /\ call'[o].line.no = 0
  BY <1>3, <1>4
<1> QED BY <1>5, LinesKeptWithQueue

LEMMA LinesOfMain ==
    ASSUME Typed, LinesInv,
           \/ Start \/ Register \/ RegisterFails \/ MakeDirs \/ StartThread \/ Exit \/ Killed
    PROVE  LinesInv'
<1>0. Len(<< >>) = 0 /\ Len(inbox) \in Nat
  BY EmptySeq, LinesTyped
<1>1. CASE Start
  <2>1. inbox' = << >> /\ UNCHANGED <<sent, lines, call>>
    BY <1>1 DEF Start, Quiet, timeVars
  <2> QED BY <2>1, <1>0, LinesKept
<1>2. CASE Register \/ MakeDirs \/ StartThread
  <2>1. UNCHANGED <<inbox, sent, lines, call>>
    BY <1>2 DEF Register, MakeDirs, MakeDir, StartThread, Quiet, timeVars
  <2> QED BY <2>1, LinesKeptWithQueue
<1>3. CASE RegisterFails
  <2>1. /\ Log("main", "storage", 0) /\ UNCHANGED <<now, logDir, dayDirs, lines>>
        /\ UNCHANGED <<inbox, sent>>
    BY <1>3 DEF RegisterFails
  <2>2. "main" \in Threads /\ "main" # "collect"
    BY LinkConstants
  <2> QED BY <2>1, <2>2, LinesOfComplaint
<1>4. CASE Exit \/ Killed
  <2>1. inbox' = << >> /\ UNCHANGED <<sent, lines>> /\ End
    BY <1>4 DEF Exit, Killed, End
  <2>2. \A th \in Threads : call'[th] \notin LogCall
    BY <2>1, TypedEnd, KindsOfCall
  <2> QED BY <2>1, <2>2, <1>0, LinesKept
<1> QED BY <1>1, <1>2, <1>3, <1>4

LEMMA LinesOfHeart ==
    ASSUME Typed, LinesInv, Heart \/ HeartFails \/ HeartWakes
    PROVE  LinesInv'
<1>1. CASE Heart \/ HeartWakes
  <2>1. UNCHANGED <<inbox, sent, lines, call>>
    BY <1>1 DEF Heart, HeartWakes, Quiet, timeVars
  <2> QED BY <2>1, LinesKeptWithQueue
<1>2. CASE HeartFails
  <2>1. /\ Log("heart", "storage", 0) /\ UNCHANGED <<now, logDir, dayDirs, lines>>
        /\ UNCHANGED <<inbox, sent>>
    BY <1>2 DEF HeartFails
  <2>2. "heart" \in Threads /\ "heart" # "collect"
    BY LinkConstants
  <2> QED BY <2>1, <2>2, LinesOfComplaint
<1> QED BY <1>1, <1>2

LEMMA LinesOfCollectOther ==
    ASSUME Typed, LinesInv, CollectOther
    PROVE  LinesInv'
<1>1. inbox # << >> /\ inbox' = Tail(inbox) /\ UNCHANGED <<sent, lines, call>>
  BY DEF CollectOther, Collects, Quiet, timeVars
<1>2. /\ Len(inbox) \in Nat /\ Len(inbox) >= 1 /\ Len(inbox') = Len(inbox) - 1
      /\ \A k \in 1 .. Len(inbox') : inbox'[k] = inbox[k + 1]
  BY <1>1, InboxTail
<1>3. Len(inbox') \in Nat /\ \A k \in 1 .. Len(inbox') : k + 1 \in 1 .. Len(inbox)
  BY <1>2
<1> QED BY <1>1, <1>2, <1>3, LinesKept

\* The collector takes the first line of the queue, ahead of the rest of it.
LEMMA LinesOfCollectLine ==
    ASSUME Typed, LinesInv, CollectLine
    PROVE  LinesInv'
<1> DEFINE no == Head(inbox)
           c  == call'["collect"].line
<1>1. /\ inbox # << >> /\ inbox' = Tail(inbox) /\ UNCHANGED <<sent, lines>>
      /\ IsLine(no) /\ Log("collect", LogOf[sent[no]], no)
      /\ UNCHANGED <<now, logDir, dayDirs, lines>>
  BY DEF CollectLine, Collects
<1>2. /\ Len(inbox) \in Nat /\ Len(inbox) >= 1 /\ Len(inbox') = Len(inbox) - 1
      /\ \A k \in 1 .. Len(inbox') : inbox'[k] = inbox[k + 1]
      /\ no = inbox[1] /\ no \in 1 .. MaxSent
  BY <1>1, InboxTail
<1>3. no \in Nat /\ LogOf[sent[no]] \in Files
  BY <1>1, <1>2, LogOfFiles, LinkConstants DEF IsLine
<1>4. /\ call["collect"] = Idle /\ call'["collect"] \in LogCall
      /\ c = [file |-> LogOf[sent[no]], no |-> no]
      /\ \A o \in Threads : o # "collect" /\ call'[o] \in LogCall =>
             call[o] \in LogCall /\ call'[o].line = call[o].line
  BY <1>1, <1>3, LogTyped, LinkConstants
<1>5. Collection /\ CollectedInOrder
  BY DEF LinesInv
<1>6. Len(inbox') \in Nat /\ \A k \in 1 .. Len(inbox') : k + 1 \in 1 .. Len(inbox) /\ 1 < k + 1
  BY <1>2
<1>7. CollectedInOrder'
  BY <1>1, <1>5 DEF CollectedInOrder, IsLine
<1>8. no \in 1 .. Len(sent) /\ \A k \in 1 .. Len(lines) : lines[k].no < no
  BY <1>2, <1>5 DEF Collection
<1>9. \A j \in 1 .. Len(inbox') : no < inbox'[j]
  <2> SUFFICES ASSUME NEW j \in 1 .. Len(inbox') PROVE inbox[1] < inbox[j + 1]
    BY <1>2
  <2> QED BY <1>2, <1>5, <1>6 DEF Collection
<1>10. c.no = no /\ IsLineOf(c, no)
  BY <1>1, <1>4 DEF IsLineOf
<1>11. \A k \in 1 .. Len(inbox') : inbox'[k] \in 1 .. Len(sent)
  BY <1>2, <1>5, <1>6 DEF Collection
<1>12. \A j, k \in 1 .. Len(inbox') : j < k => inbox'[j] < inbox'[k]
  <2> SUFFICES ASSUME NEW j \in 1 .. Len(inbox'), NEW k \in 1 .. Len(inbox'), j < k
               PROVE  inbox[j + 1] < inbox[k + 1]
    BY <1>2
  <2>1. j + 1 < k + 1
    BY <1>6
  <2> QED BY <2>1, <1>5, <1>6 DEF Collection
<1>13. \A k \in 1 .. Len(lines) :
          lines[k].no <= Len(sent) /\ \A j \in 1 .. Len(inbox') : lines[k].no < inbox'[j]
  BY <1>2, <1>5, <1>6 DEF Collection
<1>14. \A th \in Threads \ {"collect"} : call'[th] \in LogCall => call'[th].line.no = 0
  BY <1>4, <1>5 DEF Collection
<1> HIDE DEF no
<1>15. Collection'
  BY <1>1, <1>8, <1>9, <1>10, <1>11, <1>12, <1>13, <1>14 DEF Collection, IsLineOf, IsLine
<1> QED BY <1>7, <1>15 DEF LinesInv

\* A call of p4_log goes on: at its end the line is written, or it is dropped.
LEMMA LinesOfLogging ==
    ASSUME Typed, LinesInv, NEW th \in Threads, Logging(th)
    PROVE  LinesInv'
<1>1. LogSteps(th) /\ UNCHANGED <<inbox, sent>>
  BY DEF Logging, Others
<1>2. /\ \A o \in Threads : o # th => call'[o] = call[o]
      /\ call[th] \in LogCall
      /\ \/ call'[th] \in LogCall /\ call'[th].line = call[th].line /\ UNCHANGED lines
         \/ /\ call'[th] = Idle
            /\ \/ UNCHANGED lines
               \/ \E line \in [file : Files, no : Nat, day : Nat] :
                     /\ line.file = call[th].line.file /\ line.no = call[th].line.no
                     /\ lines' = Append(lines, line)
  BY <1>1, LogStepsTyped
<1>3. \A o \in Threads : call'[o] \in LogCall =>
         call[o] \in LogCall /\ call'[o].line = call[o].line
  BY <1>2, KindsOfCall
<1>4. CASE UNCHANGED lines
  BY <1>1, <1>3, <1>4, LinesKeptWithQueue
<1>5. ASSUME NEW line \in [file : Files, no : Nat, day : Nat],
             line.file = call[th].line.file, line.no = call[th].line.no,
             lines' = Append(lines, line), call'[th] = Idle
      PROVE  LinesInv'
  <2> DEFINE n == Len(lines)
  <2>1. /\ n \in Nat /\ Len(lines') = n + 1
        /\ \A k \in 1 .. n : lines'[k] = lines[k]
        /\ lines'[n + 1] = line
    BY <1>5, LinesTyped, AppendProperties
  <2>2. Collection /\ CollectedInOrder
    BY DEF LinesInv
  <2>3. /\ Len(sent) \in Nat /\ \A k \in 1 .. Len(inbox) : inbox[k] \in Nat
        /\ \A k \in 1 .. n : lines[k].no \in Nat
    BY LinesTyped
  <2>4. line.no # 0 => th = "collect"
    BY <1>2, <1>5, <2>2 DEF Collection
  <2>5. line.no # 0 =>
          /\ line.no \in 1 .. Len(sent) /\ IsLine(line.no)
          /\ line.file = LogOf[sent[line.no]]
          /\ \A j \in 1 .. Len(inbox) : line.no < inbox[j]
          /\ \A k \in 1 .. n : lines[k].no < line.no
    BY <1>2, <1>5, <2>2, <2>4 DEF Collection, IsLineOf
  <2>6. line.no <= Len(sent) /\ \A j \in 1 .. Len(inbox) : line.no < inbox[j]
    <3>1. CASE line.no = 0
      <4>1. \A j \in 1 .. Len(inbox) : inbox[j] \in 1 .. Len(sent)
        BY <2>2 DEF Collection
      <4> QED BY <3>1, <4>1, <2>3
    <3>2. CASE line.no # 0
      BY <3>2, <2>3, <2>5
    <3> QED BY <3>1, <3>2
  <2>7. \A k \in 1 .. Len(lines') : k \in 1 .. n \/ k = n + 1
    BY <2>1
  <2> HIDE DEF n
  <2>8. CollectedInOrder'
    <3> SUFFICES ASSUME NEW k \in 1 .. Len(lines'), lines'[k].no # 0
                 PROVE  /\ IsLine(lines'[k].no)
                        /\ lines'[k].file = LogOf[sent[lines'[k].no]]
                        /\ \A j \in 1 .. k - 1 : lines'[j].no < lines'[k].no
      BY <1>1 DEF CollectedInOrder, IsLine
    <3>1. CASE k \in 1 .. n
      <4>1. \A j \in 1 .. k - 1 : j \in 1 .. n
        BY <3>1, <2>1
      <4>2. lines'[k] = lines[k] /\ \A j \in 1 .. k - 1 : lines'[j] = lines[j]
        BY <3>1, <4>1, <2>1
      <4>3. /\ IsLine(lines[k].no) /\ lines[k].file = LogOf[sent[lines[k].no]]
            /\ \A j \in 1 .. k - 1 : lines[j].no < lines[k].no
        BY <3>1, <4>2, <2>2 DEF CollectedInOrder, n
      <4> QED BY <4>2, <4>3
    <3>2. CASE k = n + 1
      <4>1. \A j \in 1 .. k - 1 : j \in 1 .. n
        BY <3>2, <2>1
      <4>2. lines'[k] = line /\ \A j \in 1 .. k - 1 : lines'[j] = lines[j]
        BY <3>2, <4>1, <2>1
      <4> QED BY <4>1, <4>2, <2>5
    <3> QED BY <3>1, <3>2, <2>7
  <2>9. \A k \in 1 .. Len(lines') :
           lines'[k].no <= Len(sent) /\ \A j \in 1 .. Len(inbox) : lines'[k].no < inbox[j]
    <3> SUFFICES ASSUME NEW k \in 1 .. Len(lines')
                 PROVE  /\ lines'[k].no <= Len(sent)
                        /\ \A j \in 1 .. Len(inbox) : lines'[k].no < inbox[j]
      OBVIOUS
    <3>1. CASE k \in 1 .. n
      BY <3>1, <2>1, <2>2 DEF Collection, n
    <3>2. CASE k = n + 1
      BY <3>2, <2>1, <2>6
    <3> QED BY <3>1, <3>2, <2>7
  <2>10. \A o \in Threads \ {"collect"} : call'[o] \in LogCall => call'[o].line.no = 0
    BY <1>3, <2>2 DEF Collection
  <2>11. call'["collect"] \in LogCall =>
          LET c == call'["collect"].line
          IN  /\ c.no \in 1 .. Len(sent) /\ IsLineOf(c, c.no)
              /\ \A j \in 1 .. Len(inbox) : c.no < inbox[j]
              /\ \A k \in 1 .. Len(lines') : lines'[k].no < c.no
    <3> SUFFICES ASSUME call'["collect"] \in LogCall
                 PROVE  LET c == call'["collect"].line
                        IN  /\ c.no \in 1 .. Len(sent) /\ IsLineOf(c, c.no)
                            /\ \A j \in 1 .. Len(inbox) : c.no < inbox[j]
                            /\ \A k \in 1 .. Len(lines') : lines'[k].no < c.no
      OBVIOUS
    <3> DEFINE c == call'["collect"].line
    <3>1. "collect" \in Threads /\ th # "collect"
      BY <1>5, KindsOfCall, LinkConstants
    <3>2. call["collect"] \in LogCall /\ c = call["collect"].line
      BY <1>3, <3>1
    <3>3. /\ c.no \in 1 .. Len(sent) /\ IsLineOf(c, c.no)
          /\ \A j \in 1 .. Len(inbox) : c.no < inbox[j]
          /\ \A k \in 1 .. n : lines[k].no < c.no
      BY <3>2, <2>2 DEF Collection, n
    <3>4. line.no = 0
      BY <3>1, <2>4
    <3> HIDE DEF c
    <3>5. \A k \in 1 .. Len(lines') : lines'[k].no < c.no
      BY <3>3, <3>4, <2>1, <2>7, <2>3
    <3> QED BY <3>3, <3>5 DEF c
  <2>12. /\ \A k \in 1 .. Len(inbox) : inbox[k] \in 1 .. Len(sent)
         /\ \A j, k \in 1 .. Len(inbox) : j < k => inbox[j] < inbox[k]
    BY <2>2 DEF Collection
  <2>13. Collection'
    BY <1>1, <2>9, <2>10, <2>11, <2>12 DEF Collection, IsLineOf, IsLine
  <2> QED BY <2>8, <2>13 DEF LinesInv
<1> QED BY <1>2, <1>4, <1>5

LEMMA LinesOfOthers ==
    ASSUME Typed, LinesInv,
           \/ (Converts /\ Others) \/ (Tick /\ Others)
           \/ ServerStarts \/ ServerStops \/ ServerReads \/ UNCHANGED vars
    PROVE  LinesInv'
<1>1. CASE Converts /\ Others
  <2>1. /\ UNCHANGED <<inbox, sent, lines>>
        /\ \A o \in Threads :
              call'[o] \in LogCall => call[o] \in LogCall /\ call'[o].line = call[o].line
    BY <1>1, ConvertsTyped DEF Others
  <2> QED BY <2>1, LinesKeptWithQueue
<1>2. CASE \/ (Tick /\ Others)
           \/ ServerStarts \/ ServerStops \/ ServerReads \/ UNCHANGED vars
  <2>1. UNCHANGED <<inbox, sent, lines, call>>
    BY <1>2 DEF Tick, Others, ServerStarts, ServerStops, ServerReads, Quiet, timeVars, vars
  <2> QED BY <2>1, LinesKeptWithQueue
<1> QED BY <1>1, <1>2

\* The number of a new datagram is above all there are.
LEMMA LinesOfModuleSends ==
    ASSUME Typed, LinesInv, NEW tag \in Tags, ModuleSends(tag)
    PROVE  LinesInv'
<1> DEFINE s == Len(sent)
           b == Len(inbox)
<1>1. /\ sent' = Append(sent, tag) /\ inbox' = Append(inbox, Len(sent'))
      /\ UNCHANGED <<lines, call>>
  BY DEF ModuleSends, Quiet, timeVars
<1>2. /\ s \in Nat /\ Len(sent') = s + 1 /\ \A k \in 1 .. s : sent'[k] = sent[k]
  BY <1>1, TypedParts, AppendProperties
<1>3. /\ b \in Nat /\ Len(inbox') = b + 1 /\ inbox'[b + 1] = s + 1
      /\ \A k \in 1 .. b : inbox'[k] = inbox[k]
  <2>1. s < MaxSent /\ MaxSent \in Nat
    BY LinkConstants DEF ModuleSends
  <2>2. inbox' = Append(inbox, s + 1) /\ s + 1 \in 1 .. MaxSent
    BY <1>1, <1>2, <2>1
  <2> QED BY <2>2, TypedParts, AppendProperties
<1>4. Collection /\ CollectedInOrder
  BY DEF LinesInv
<1>5. /\ \A k \in 1 .. Len(lines) : lines[k].no \in Nat
      /\ Len(lines) \in Nat
  BY LinesTyped
<1>6. \A k \in 1 .. Len(inbox') : k \in 1 .. b \/ k = b + 1
  BY <1>3
<1>7. \A no \in 1 .. s : sent'[no] = sent[no]
  BY <1>2
<1>8. \A k \in 1 .. b : inbox[k] \in 1 .. s
  BY <1>4 DEF Collection
<1>9. \A k \in 1 .. Len(lines) : lines[k].no <= s /\ \A j \in 1 .. b : lines[k].no < inbox[j]
  BY <1>4 DEF Collection
<1>10. \A j, k \in 1 .. b : j < k => inbox[j] < inbox[k]
  BY <1>4 DEF Collection
<1>11. CollectedInOrder'
  <2> SUFFICES ASSUME NEW k \in 1 .. Len(lines), lines[k].no # 0
               PROVE  /\ sent'[lines[k].no] \in DOMAIN LogOf
                      /\ lines[k].file = LogOf[sent'[lines[k].no]]
                      /\ \A j \in 1 .. k - 1 : lines[j].no < lines[k].no
    BY <1>1 DEF CollectedInOrder, IsLine
  <2>1. lines[k].no \in 1 .. s
    BY <1>2, <1>5, <1>9
  <2>2. sent'[lines[k].no] = sent[lines[k].no]
    BY <1>7, <2>1
  <2> QED BY <2>2, <1>4 DEF CollectedInOrder, IsLine
<1> HIDE DEF s, b
<1>12. \A k \in 1 .. Len(inbox') : inbox'[k] \in 1 .. Len(sent')
  BY <1>2, <1>3, <1>6, <1>8
<1>13. \A j, k \in 1 .. Len(inbox') : j < k => inbox'[j] < inbox'[k]
  <2> SUFFICES ASSUME NEW j \in 1 .. Len(inbox'), NEW k \in 1 .. Len(inbox'), j < k
               PROVE  inbox'[j] < inbox'[k]
    OBVIOUS
  <2>1. j \in 1 .. b
    BY <1>3
  <2>2. CASE k \in 1 .. b
    BY <2>1, <2>2, <1>3, <1>10
  <2>3. CASE k = b + 1
    <3>1. inbox'[j] = inbox[j] /\ inbox[j] \in 1 .. s /\ inbox'[k] = s + 1
      BY <2>1, <2>3, <1>3, <1>8
    <3> QED BY <3>1, <1>2
  <2> QED BY <2>2, <2>3, <1>6
<1>14. \A k \in 1 .. Len(lines) :
          lines[k].no <= Len(sent') /\ \A j \in 1 .. Len(inbox') : lines[k].no < inbox'[j]
  <2> SUFFICES ASSUME NEW k \in 1 .. Len(lines)
               PROVE  /\ lines[k].no <= Len(sent')
                      /\ \A j \in 1 .. Len(inbox') : lines[k].no < inbox'[j]
    OBVIOUS
  <2>1. lines[k].no \in Nat /\ lines[k].no <= s
    BY <1>5, <1>9
  <2>2. lines[k].no <= s + 1 /\ lines[k].no < s + 1
    BY <2>1, <1>2
  <2> QED BY <2>2, <1>2, <1>3, <1>6, <1>9
<1>15. \A th \in Threads \ {"collect"} : call'[th] \in LogCall => call'[th].line.no = 0
  BY <1>1, <1>4 DEF Collection
<1>16. call'["collect"] \in LogCall =>
          LET c == call'["collect"].line
          IN  /\ c.no \in 1 .. Len(sent') /\ sent'[c.no] \in DOMAIN LogOf
              /\ c.file = LogOf[sent'[c.no]]
              /\ \A j \in 1 .. Len(inbox') : c.no < inbox'[j]
              /\ \A k \in 1 .. Len(lines) : lines[k].no < c.no
  <2> SUFFICES ASSUME call["collect"] \in LogCall
               PROVE  LET c == call["collect"].line
                      IN  /\ c.no \in 1 .. Len(sent') /\ sent'[c.no] \in DOMAIN LogOf
                          /\ c.file = LogOf[sent'[c.no]]
                          /\ \A j \in 1 .. Len(inbox') : c.no < inbox'[j]
                          /\ \A k \in 1 .. Len(lines) : lines[k].no < c.no
    BY <1>1
  <2> DEFINE c == call["collect"].line
  <2>1. /\ c.no \in 1 .. s /\ sent[c.no] \in DOMAIN LogOf /\ c.file = LogOf[sent[c.no]]
        /\ \A j \in 1 .. b : c.no < inbox[j]
        /\ \A k \in 1 .. Len(lines) : lines[k].no < c.no
    BY <1>4 DEF Collection, IsLineOf, IsLine, s, b
  <2> HIDE DEF c
  <2>2. c.no \in 1 .. Len(sent') /\ c.no < s + 1
    BY <2>1, <1>2
  <2>3. sent'[c.no] = sent[c.no]
    BY <2>1, <1>7
  <2>4. \A j \in 1 .. Len(inbox') : c.no < inbox'[j]
    BY <2>1, <2>2, <1>3, <1>6
  <2> QED BY <2>1, <2>2, <2>3, <2>4 DEF c
<1>17. Collection'
  BY <1>1, <1>12, <1>13, <1>14, <1>15, <1>16 DEF Collection, IsLineOf, IsLine
<1> QED BY <1>11, <1>17 DEF LinesInv

LEMMA LinesInvPreserved == Typed /\ LinesInv /\ [LinkNext]_vars => LinesInv'
<1> SUFFICES ASSUME Typed, LinesInv, [LinkNext]_vars PROVE LinesInv'
  OBVIOUS
<1>1. CASE Start \/ Register \/ RegisterFails \/ MakeDirs \/ StartThread \/ Exit \/ Killed
  BY <1>1, LinesOfMain
<1>2. CASE Heart \/ HeartFails \/ HeartWakes
  BY <1>2, LinesOfHeart
<1>3. CASE CollectLine \/ CollectOther
  BY <1>3, LinesOfCollectLine, LinesOfCollectOther
<1>4. CASE Logging("main") \/ Logging("heart") \/ Logging("collect")
  BY <1>4, LinesOfLogging, LinkConstants
<1>5. CASE \/ (Converts /\ Others) \/ (Tick /\ Others)
           \/ ServerStarts \/ ServerStops \/ ServerReads \/ UNCHANGED vars
  BY <1>5, LinesOfOthers
<1>6. CASE \E tag \in Tags : ModuleSends(tag)
  BY <1>6, LinesOfModuleSends
<1> QED BY <1>1, <1>2, <1>3, <1>4, <1>5, <1>6 DEF LinkNext, Main, HeartLoop, Collector

-----------------------------------------------------------------------------
(* The days of the log. *)

LEMMA DaysInvInit == Init => DaysInv
BY KindsOfCall DEF Init, TimeInit, DaysInv, OwnDay, LogDirFirst

\* localtime() by th leaves alone the calls that have seen the same day.
LEMMA LocaltimeOwnDay ==
    ASSUME Typed, OwnDay, NEW th \in Threads, NEW t \in Nat,
           NEW c \in LogCall \cup ConvertCall, Localtime(th, t, c),
           c \in LogCall => c.op = "name" /\ c.time = t, UNCHANGED <<logDir, dayDirs>>
    PROVE  OwnDay'
<1>1. /\ call' = [o \in Threads |->
                   IF o = th THEN c
                   ELSE IF call[o].op \in Logs /\ Day(t) # Day(call[o].time)
                        THEN [call[o] EXCEPT !.touched = TRUE]
                   ELSE call[o]]
      /\ tm' = t /\ CallsTyped
  BY DEF Localtime, Typed
<1> SUFFICES ASSUME NEW o \in Threads, call'[o] \in LogCall, ~call'[o].touched
             PROVE  /\ Day(call'[o].time) = Day(t)
                    /\ call'[o].op = "mkdir" => call'[o].day = Day(t)
                    /\ call'[o].op = "write" /\ logDir => Day(t) \in dayDirs
  BY <1>1 DEF OwnDay
<1>2. CASE o = th
  BY <1>1, <1>2
<1>3. CASE o # th
  <2>1. call[o] \in LogCall
    <3>1. \A x \in Threads : x # th /\ call[x] \notin LogCall => call'[x] = call[x]
      BY <1>1, LocaltimeTyped
    <3> QED BY <1>3, <3>1
  <2>2. [call[o] EXCEPT !.touched = TRUE].touched = TRUE
    BY <2>1 DEF LogCall
  <2>3. call[o].op \in Logs
    BY <2>1 DEF LogCall
  <2>4. call'[o] = call[o] /\ Day(t) = Day(call[o].time)
    BY <1>1, <1>3, <2>2, <2>3
  <2>5. /\ Day(call[o].time) = Day(tm)
        /\ call[o].op = "mkdir" => call[o].day = Day(tm)
        /\ call[o].op = "write" /\ logDir => Day(tm) \in dayDirs
    BY <2>1, <2>4 DEF OwnDay
  <2> QED BY <2>4, <2>5
<1> QED BY <1>2, <1>3

\* p4_log is begun.
LEMMA LogOwnDay ==
    ASSUME Typed, OwnDay, NEW th \in Threads, NEW file \in Files, NEW no \in Nat,
           Log(th, file, no), UNCHANGED <<now, logDir, dayDirs, lines>>
    PROVE  OwnDay'
<1> DEFINE c == [op |-> "name", time |-> now, touched |-> FALSE, day |-> 0,
                 line |-> [file |-> file, no |-> no]]
<1>1. Localtime(th, now, c) /\ UNCHANGED <<logDir, dayDirs>> /\ now \in Nat
  BY DEF Log, Typed, TypeOK, TimeTypeOK
<1>2. c \in LogCall /\ c.op = "name" /\ c.time = now
  BY <1>1 DEF LogCall, Line, Logs
<1> HIDE DEF c
<1> QED BY <1>1, <1>2, LocaltimeOwnDay

\* The days do not hear of what leaves the log alone.
LEMMA DaysKept ==
    ASSUME DaysInv, UNCHANGED <<tm, call, logDir, dayDirs>>,
           main' \in {"threads", "run"} => main \in {"threads", "run"},
           main = "failed" => main' = "failed" \/ call["main"] = Idle
    PROVE  OwnDay' /\ (main = main' \/ main # "failed" => LogDirFirst')
<1>1. OwnDay'
  BY DEF DaysInv, OwnDay
<1>2. ASSUME main = main' \/ main # "failed" PROVE LogDirFirst'
  BY <1>2 DEF DaysInv, LogDirFirst
<1> QED BY <1>1, <1>2

LEMMA DaysOfMain ==
    ASSUME Typed, DaysInv,
           Start \/ Register \/ RegisterFails \/ MakeDirs \/ StartThread \/ Exit \/ Killed
    PROVE  DaysInv'
<1>1. CASE Start \/ Register \/ StartThread
  <2>1. /\ UNCHANGED <<tm, call, logDir, dayDirs>> /\ main # "failed"
        /\ main' \in {"threads", "run"} => main \in {"threads", "run"}
    BY <1>1 DEF Start, Register, StartThread, Quiet, timeVars
  <2> QED BY <2>1, DaysKept DEF DaysInv
<1>2. CASE RegisterFails
  <2>1. Log("main", "storage", 0) /\ UNCHANGED <<now, logDir, dayDirs, lines>>
        /\ main' = "failed"
    BY <1>2 DEF RegisterFails
  <2>2. OwnDay'
    BY <2>1, LogOwnDay, LinkConstants DEF DaysInv
  <2> QED BY <2>1, <2>2 DEF DaysInv, LogDirFirst
<1>3. CASE MakeDirs
  <2>1. PICK d \in {"video", "index", "log"}, next \in {"index", "log", "threads"} :
            MakeDir(d, next) /\ (next = "threads" => d = "log")
    BY <1>3 DEF MakeDirs
  <2>2. /\ main = d /\ main' = next /\ logDir' = (logDir \/ d = "log")
        /\ UNCHANGED <<tm, call, dayDirs>>
    BY <2>1 DEF MakeDir
  <2>3. LogDirFirst'
    BY <2>1, <2>2 DEF DaysInv, LogDirFirst
  <2>4. ASSUME NEW th \in Threads, call[th] \in LogCall, ~logDir PROVE FALSE
    BY <2>2, <2>4, KindsOfCall DEF DaysInv, LogDirFirst
  <2>5. OwnDay'
    BY <2>2, <2>4 DEF DaysInv, OwnDay
  <2> QED BY <2>3, <2>5 DEF DaysInv
<1>4. CASE Exit \/ Killed
  <2>1. End
    BY <1>4 DEF Exit, Killed
  <2>2. \A th \in Threads : call'[th] = Idle
    BY <2>1, TypedEnd
  <2>3. main' = "off"
    BY <2>1 DEF End
  <2> QED BY <2>2, <2>3, KindsOfCall DEF DaysInv, OwnDay, LogDirFirst
<1> QED BY <1>1, <1>2, <1>3, <1>4

\* What a thread that has been started begins finds ./log made.
LEMMA DaysOfThread ==
    ASSUME Typed, DaysInv, threads # {}, OwnDay', UNCHANGED <<logDir, main>>
    PROVE  DaysInv'
<1>1. main \in {"threads", "run"}
  BY DEF Typed, Starting
<1> QED BY <1>1 DEF DaysInv, LogDirFirst

LEMMA DaysOfLogging ==
    ASSUME Typed, DaysInv, NEW th \in Threads, Logging(th)
    PROVE  DaysInv'
<1>1. LogSteps(th) /\ UNCHANGED main
  BY DEF Logging, Others, linkVars
<1>2. /\ \A o \in Threads : o # th => call'[o] = call[o]
      /\ call[th] \in LogCall /\ call[th] # Idle
      /\ CallsTyped /\ logDir \in BOOLEAN
  BY <1>1, LogStepsTyped, KindsOfCall DEF Typed, TypeOK, TimeTypeOK
<1>3. UNCHANGED <<tm, logDir>> /\ dayDirs \subseteq dayDirs'
  BY <1>1 DEF LogSteps, LogName, LogMkdir, LogWrite
<1>4. LogDirFirst'
  <2>1. logDir \/ main = "failed"
    BY <1>2 DEF DaysInv, LogDirFirst
  <2> QED BY <1>1, <1>3, <2>1 DEF DaysInv, LogDirFirst
<1>5. ASSUME NEW o \in Threads, o # th, call'[o] \in LogCall, ~call'[o].touched
      PROVE  /\ Day(call'[o].time) = Day(tm)
             /\ call'[o].op = "mkdir" => call'[o].day = Day(tm)
             /\ call'[o].op = "write" /\ logDir => Day(tm) \in dayDirs'
  <2>1. call'[o] = call[o]
    BY <1>2, <1>5
  <2> QED BY <1>3, <1>5, <2>1 DEF DaysInv, OwnDay
<1>6. ASSUME call'[th] \in LogCall, ~call'[th].touched
      PROVE  /\ Day(call'[th].time) = Day(tm)
             /\ call'[th].op = "mkdir" => call'[th].day = Day(tm)
             /\ call'[th].op = "write" /\ logDir => Day(tm) \in dayDirs'
  <2>0. CASE LogName(th)
    <3>1. call' = [call EXCEPT ![th].op = "mkdir", ![th].day = Day(tm)]
      BY <2>0 DEF LogName
    <3>2. /\ call'[th].touched = call[th].touched /\ call'[th].time = call[th].time
          /\ call'[th].op = "mkdir" /\ call'[th].day = Day(tm)
      BY <1>2, <3>1 DEF CallsTyped, LogCall
    <3>3. Day(call[th].time) = Day(tm)
      BY <1>2, <1>6, <3>2 DEF DaysInv, OwnDay
    <3> QED BY <3>2, <3>3
  <2>1. CASE LogMkdir(th)
    <3>1. /\ call' = [call EXCEPT ![th].op = "write"] /\ call[th].op = "mkdir"
          /\ dayDirs' = IF logDir THEN dayDirs \cup {call[th].day} ELSE dayDirs
      BY <2>1 DEF LogMkdir
    <3>2. /\ call'[th].touched = call[th].touched /\ call'[th].time = call[th].time
          /\ call'[th].op = "write"
      BY <1>2, <3>1 DEF CallsTyped, LogCall
    <3>3. Day(call[th].time) = Day(tm) /\ call[th].day = Day(tm)
      BY <1>2, <1>6, <3>1, <3>2 DEF DaysInv, OwnDay
    <3> QED BY <3>1, <3>2, <3>3
  <2>2. CASE LogWrite(th)
    <3>1. call'[th] = Idle
      BY <1>2, <2>2 DEF LogWrite, CallsTyped
    <3> QED BY <1>6, <3>1, KindsOfCall
  <2> QED BY <1>1, <2>0, <2>1, <2>2 DEF LogSteps
<1>7. OwnDay'
  BY <1>3, <1>5, <1>6 DEF OwnDay
<1> QED BY <1>4, <1>7 DEF DaysInv

LEMMA DaysOfConverts ==
    ASSUME Typed, DaysInv, Converts, Others
    PROVE  DaysInv'
<1>1. PICK th \in Converters \cap threads :
         (\E t \in Converted : Convert(th, t)) \/ ConvertReturns(th)
  BY DEF Converts
<1>2. th \in Threads /\ threads # {} /\ UNCHANGED main /\ CallsTyped
  BY <1>1 DEF Typed, TypeOK, Others, linkVars
<1>3. CASE \E t \in Converted : Convert(th, t)
  <2>1. PICK t \in Converted : Convert(th, t)
    BY <1>3
  <2> DEFINE c == [op |-> "convert", time |-> t]
  <2>2. t \in Nat /\ c \in ConvertCall
    BY LocalTimeAssumption DEF ConvertCall
  <2>3. Localtime(th, t, c) /\ UNCHANGED <<logDir, dayDirs>>
    BY <2>1 DEF Convert
  <2>4. c \notin LogCall
    BY <2>2, KindsOfCall
  <2> HIDE DEF c
  <2>5. OwnDay'
    BY <1>2, <2>2, <2>3, <2>4, LocaltimeOwnDay DEF DaysInv
  <2> QED BY <1>2, <2>3, <2>5, DaysOfThread
<1>4. CASE ConvertReturns(th)
  <2>1. call' = [call EXCEPT ![th] = Idle] /\ UNCHANGED <<tm, logDir, dayDirs>>
    BY <1>4 DEF ConvertReturns
  <2>2. \A o \in Threads : call'[o] \in LogCall => call'[o] = call[o]
    BY <1>2, <2>1, KindsOfCall DEF CallsTyped
  <2>3. OwnDay'
    BY <2>1, <2>2 DEF DaysInv, OwnDay
  <2> QED BY <1>2, <2>1, <2>3, DaysOfThread
<1> QED BY <1>1, <1>3, <1>4

LEMMA DaysInvPreserved == Typed /\ DaysInv /\ [LinkNext]_vars => DaysInv'
<1> SUFFICES ASSUME Typed, DaysInv, [LinkNext]_vars PROVE DaysInv'
  OBVIOUS
<1>1. CASE Start \/ Register \/ RegisterFails \/ MakeDirs \/ StartThread \/ Exit \/ Killed
  BY <1>1, DaysOfMain
<1>2. CASE Heart \/ HeartWakes \/ CollectOther \/ (Tick /\ Others)
           \/ (\E tag \in Tags : ModuleSends(tag))
           \/ ServerStarts \/ ServerStops \/ ServerReads \/ UNCHANGED vars
  <2>1. UNCHANGED <<main, tm, call, logDir, dayDirs>>
    BY <1>2 DEF Heart, HeartWakes, CollectOther, Tick, Others, ModuleSends, ServerStarts,
                ServerStops, ServerReads, vars, Quiet, timeVars, linkVars
  <2> QED BY <2>1, DaysKept DEF DaysInv
<1>3. CASE HeartFails
  <2>1. /\ Log("heart", "storage", 0) /\ UNCHANGED <<now, logDir, dayDirs, lines, main>>
        /\ threads # {}
    BY <1>3 DEF HeartFails, Beats
  <2>2. OwnDay'
    BY <2>1, LogOwnDay, LinkConstants DEF DaysInv
  <2> QED BY <2>1, <2>2, DaysOfThread
<1>4. CASE CollectLine
  <2> DEFINE no == Head(inbox)
  <2>1. /\ Log("collect", LogOf[sent[no]], no)
        /\ UNCHANGED <<now, logDir, dayDirs, lines, main>>
        /\ threads # {} /\ inbox # << >> /\ inbox' = Tail(inbox) /\ IsLine(no)
    BY <1>4 DEF CollectLine, Collects, linkVars
  <2>2. no \in Nat /\ LogOf[sent[no]] \in Files
    BY <2>1, InboxTail, LogOfFiles, LinkConstants DEF IsLine
  <2> HIDE DEF no
  <2>3. OwnDay'
    BY <2>1, <2>2, LogOwnDay, LinkConstants DEF DaysInv
  <2> QED BY <2>1, <2>3, DaysOfThread
<1>5. CASE Logging("main") \/ Logging("heart") \/ Logging("collect")
  BY <1>5, DaysOfLogging, LinkConstants
<1>6. CASE Converts /\ Others
  BY <1>6, DaysOfConverts
<1> QED BY <1>1, <1>2, <1>3, <1>4, <1>5, <1>6 DEF LinkNext, Main, HeartLoop, Collector

\* The line is where it belongs.
LEMMA WritesOwnDay ==
    ASSUME Typed, DaysInv, NEW th \in Threads, LogWrite(th), logDir, ~call[th].touched
    PROVE  \E k \in 1 .. Len(lines') :
               lines'[k] = [file |-> call[th].line.file, no |-> call[th].line.no,
                            day |-> Day(call[th].time)]
<1> DEFINE line == [file |-> call[th].line.file, no |-> call[th].line.no, day |-> Day(tm)]
           told == line.no = 0 /\ \E k \in 1 .. Len(lines) : lines[k] = line
           L == [file : Files, no : Nat, day : Nat]
<1>1. /\ call[th].op = "write"
      /\ lines' = IF Day(tm) \in dayDirs /\ ~told THEN Append(lines, line) ELSE lines
  BY DEF LogWrite
<1>2. /\ call[th] \in LogCall /\ lines \in Seq(L) /\ tm \in Nat
  <2>1. LogSteps(th)
    BY DEF LogSteps
  <2>2. call[th] \in LogCall
    BY <2>1, LogStepsTyped
  <2> QED BY <2>2 DEF Typed, TypeOK, TimeTypeOK
<1>3. line \in L
  BY <1>2, DayIsNatural DEF LogCall, Line
<1>4. Day(call[th].time) = Day(tm) /\ Day(tm) \in dayDirs
  BY <1>1, <1>2 DEF DaysInv, OwnDay
<1>5. line = [file |-> call[th].line.file, no |-> call[th].line.no,
              day |-> Day(call[th].time)]
  BY <1>4
<1> SUFFICES \E k \in 1 .. Len(lines') : lines'[k] = line
  BY <1>5
<1> HIDE DEF line, L
<1>6. CASE told
  BY <1>1, <1>6
<1>7. CASE ~told
  <2>1. lines' = Append(lines, line)
    BY <1>1, <1>4, <1>7
  <2>2. Len(lines) \in Nat /\ Len(lines') = Len(lines) + 1 /\ lines'[Len(lines) + 1] = line
    BY <1>2, <1>3, <2>1, AppendProperties, LenProperties
  <2>3. Len(lines) + 1 \in 1 .. Len(lines')
    BY <2>2
  <2> QED BY <2>2, <2>3
<1> QED BY <1>6, <1>7

-----------------------------------------------------------------------------
\* The process, its sockets, its threads' calls and the log stay of their types: above
\* all no queue ever holds more datagrams than the socket does.
THEOREM LinkStaysTyped == LinkSpec => []TypeOK
<1>1. LinkInv => TypeOK
  BY DEF LinkInv, Typed
<1> QED BY <1>1, LinkInvAlways, PTL

\* For any number of starts, servers and datagrams: a heartbeat in the server's queue
\* is that of a process some server took the REGISTER of, and if it was this one it
\* knows the process, or will when it comes to the heartbeat.
THEOREM HeartsAlwaysRegistered == LinkSpec => []HeartsAreRegistered
<1>1. LinkInv => HeartsAreRegistered
  BY DEF LinkInv
<1> QED BY <1>1, LinkInvAlways, PTL

\* For any number of starts and datagrams: each line sent by another module is in the
\* log of the module it names at most once, behind those sent before it.
THEOREM LinesAlwaysInOrder == LinkSpec => []CollectedInOrder
<1>1. LinesInv => CollectedInOrder
  BY DEF LinesInv
<1>2. LinkInv => Typed
  BY DEF LinkInv
<1> QED
  BY <1>1, <1>2, LinkInvAlways, LinesInvInit, LinesInvPreserved, PTL DEF LinkSpec

\* For any day length, any clock and any threads: when p4_log returns, its line is in the
\* file of its module and of the day it was called on, whatever directories there were,
\* if ./log is there and no other thread called localtime() for another day meanwhile.
THEOREM LinesAlwaysLandInTheirDay == LinkSpec => LineLandsInItsDay
<1> DEFINE Lands(th) ==
        LogWrite(th) /\ logDir /\ ~call[th].touched =>
            \E k \in 1 .. Len(lines') :
                lines'[k] = [file |-> call[th].line.file, no |-> call[th].line.no,
                             day |-> Day(call[th].time)]
<1>1. Typed /\ DaysInv => [\A th \in Threads : Lands(th)]_timeVars
  BY WritesOwnDay
<1>2. LinkInv => Typed
  BY DEF LinkInv
<1>3. LinkSpec => [](Typed /\ DaysInv)
  BY <1>2, LinkInvAlways, DaysInvInit, DaysInvPreserved, PTL DEF LinkSpec
<1> QED BY <1>1, <1>3, PTL DEF LineLandsInItsDay

=============================================================================
