----------------------------- MODULE CenterLink -----------------------------
(***************************************************************************)
(* The storage module among the other modules of the system: it starts     *)
(* (main, p4_storage_init), registers with the center server and sends it  *)
(* heartbeats (p4_heart), and collects the log lines the other modules     *)
(* send it (p4_log_collect).                                               *)
(*                                                                         *)
(* They talk over datagram sockets of the Unix domain: a datagram is not   *)
(* lost or overtaken once it is in the queue of the receiver's socket, the *)
(* sender waits while that is full, and fails when nobody has the socket   *)
(* open.  The server and the other modules are not part of this repository *)
(* and only do here what makes a difference to this one: they may stop and *)
(* start again.                                                            *)
(*                                                                         *)
(* The video and the terminal thread only convert times here: Recorder and *)
(* TerminalSearch have the rest of them.                                   *)
(***************************************************************************)
EXTENDS LocalTime, FiniteSets

CONSTANTS Tags,         \* what a datagram says it is from; "other" is no log line
          Converters,   \* the threads that convert times
          QUEUE,        \* datagrams a socket holds
          MaxSent, MaxStarts, MaxServers        \* bounds

ASSUME LinkAssumption ==
    /\ {"main", "heart", "video", "terminal", "collect"} \subseteq Threads
    /\ Converters \subseteq {"video", "terminal"}
    /\ {"storage", "center", "video", "device", "net"} \subseteq Files
    /\ QUEUE \in Nat \ {0}
    /\ MaxSent \in Nat /\ MaxStarts \in Nat /\ MaxServers \in Nat

VARIABLES
    main,           \* where main is; "off" when there is no process
    pid,            \* the process's id
    dirs,           \* ./video and ./index
    threads,        \* started so far
    heart,          \* where p4_heart is
    inbox,          \* the datagrams in storage_fd: their numbers
    sent,           \* history: the tags of all datagrams to it
    up, server,     \* does the server run; how many there have been
    mail,           \* the datagrams in the server's socket
    known,          \* the processes registered with the server
    registered      \* history: process |-> the server that took its REGISTER

linkVars   == <<main, pid, dirs, threads, heart>>
serverVars == <<up, server, mail, known>>
vars == <<timeVars, linkVars, inbox, sent, serverVars, registered>>

\* p4_log_collect's chain of strcmp.
LogOf == [STM |-> "storage", CSM |-> "center", VIM |-> "video", DEM |-> "device",
          NEM |-> "net"]
IsLine(no) == sent[no] \in DOMAIN LogOf

Pids == 1 .. MaxStarts

TypeOK ==
    /\ main \in {"off", "register", "failed", "video", "index", "log", "threads", "run"}
    /\ pid \in 0 .. MaxStarts
    /\ dirs \subseteq {"video", "index"}
    /\ threads \subseteq Threads
    /\ heart \in {"send", "sleep"}
    /\ inbox \in Seq(1 .. MaxSent) /\ sent \in Seq(Tags) /\ Len(inbox) <= QUEUE
    /\ up \in BOOLEAN /\ server \in 0 .. MaxServers
    /\ mail \in Seq([type : {"REGISTER", "HEART"}, pid : Pids]) /\ Len(mail) <= QUEUE
    /\ known \subseteq Pids
    /\ registered \in [Pids -> 0 .. MaxServers]
    /\ TimeTypeOK

Init ==
    /\ TimeInit
    /\ main = "off" /\ pid = 0 /\ dirs = {} /\ threads = {} /\ heart = "send"
    /\ inbox = << >> /\ sent = << >>
    /\ up = FALSE /\ server = 0 /\ mail = << >> /\ known = {}
    /\ registered = [p \in Pids |-> 0]

Quiet == UNCHANGED timeVars

-----------------------------------------------------------------------------
(* main and p4_storage_init. *)

\* The program is started: create_socket makes the socket anew.
Start ==
    /\ main = "off" /\ pid < MaxStarts
    /\ main' = "register" /\ pid' = pid + 1
    /\ inbox' = << >>
    /\ UNCHANGED <<dirs, threads, heart, sent, serverVars, registered>> /\ Quiet

\* Fault: the datagram is sent whether there is room or not.
SendNoWait(type) ==
    /\ up
    /\ mail' = Append(mail, [type |-> type, pid |-> pid])
    /\ UNCHANGED <<up, server, known>>

\* send_message: it comes back when the datagram is in the server's queue.
Send(type) ==
    /\ up /\ Len(mail) < QUEUE
    /\ mail' = Append(mail, [type |-> type, pid |-> pid])
    /\ UNCHANGED <<up, server, known>>

\* The process's REGISTER, the only one it sends.
Register ==
    /\ main = "register"
    /\ Send("REGISTER")
    /\ main' = "video"
    /\ registered' = [registered EXCEPT ![pid] = server]
    /\ UNCHANGED <<pid, dirs, threads, heart, inbox, sent>> /\ Quiet

\* Fault: the process goes on without it.
RegisterFailsGoesOn ==
    /\ main = "register" /\ ~up
    /\ Log("main", "storage", 0)
    /\ main' = "video"
    /\ UNCHANGED <<pid, dirs, threads, heart, inbox, sent, serverVars, registered,
                   now, logDir, dayDirs, lines>>

\* Without a server the process complains, and ends.
RegisterFails ==
    /\ main = "register" /\ ~up
    /\ Log("main", "storage", 0)
    /\ main' = "failed"
    /\ UNCHANGED <<pid, dirs, threads, heart, inbox, sent, serverVars, registered,
                   now, logDir, dayDirs, lines>>

\* The three directories are made when they are not there.
MakeDir(d, next) ==
    /\ main = d /\ main' = next
    /\ dirs' = dirs \cup ({d} \ {"log"})
    /\ logDir' = (logDir \/ d = "log")
    /\ UNCHANGED <<pid, threads, heart, inbox, sent, serverVars, registered,
                   now, tm, call, dayDirs, lines>>
MakeDirs == \/ MakeDir("video", "index") \/ MakeDir("index", "log")
            \/ MakeDir("log", "threads")

\* The threads, in the order of main.
Order == <<"heart", "video", "terminal", "collect">>
StartThread ==
    /\ main = "threads"
    /\ \E k \in 1 .. Len(Order) :
          /\ threads = {Order[j] : j \in 1 .. k - 1}
          /\ threads' = threads \cup {Order[k]}
          /\ main' = IF k = Len(Order) THEN "run" ELSE "threads"
    /\ UNCHANGED <<pid, dirs, heart, inbox, sent, serverVars, registered>> /\ Quiet

\* The process ends, by exit() behind the complaint or at any time by a signal: what
\* is in its socket and what a thread was about to log is gone, the files stay.
End ==
    /\ main' = "off" /\ threads' = {} /\ heart' = "send"
    /\ inbox' = << >>
    /\ call' = [th \in Threads |-> Idle] /\ tm' = 0
    /\ UNCHANGED <<pid, dirs, sent, serverVars, registered, now, logDir, dayDirs, lines>>
Exit   == main = "failed" /\ call["main"] = Idle /\ End
Killed == main # "off" /\ End

-----------------------------------------------------------------------------
(* p4_heart: a heartbeat, and five seconds of sleep, for ever. *)

Beats == "heart" \in threads /\ heart = "send" /\ call["heart"] = Idle

Heart ==
    /\ Beats
    /\ Send("HEART")
    /\ heart' = "sleep"
    /\ UNCHANGED <<main, pid, dirs, threads, inbox, sent, registered>> /\ Quiet

\* Fault: the loop is left after a failure.
HeartFailsEnds ==
    /\ Beats /\ ~up
    /\ Log("heart", "storage", 0)
    /\ threads' = threads \ {"heart"}
    /\ UNCHANGED <<main, pid, dirs, heart, inbox, sent, serverVars, registered,
                   now, logDir, dayDirs, lines>>

\* A failure is only complained of.
HeartFails ==
    /\ Beats /\ ~up
    /\ Log("heart", "storage", 0)
    /\ heart' = "sleep"
    /\ UNCHANGED <<main, pid, dirs, threads, inbox, sent, serverVars, registered,
                   now, logDir, dayDirs, lines>>

HeartWakes ==
    /\ heart = "sleep" /\ call["heart"] = Idle
    /\ heart' = "send"
    /\ UNCHANGED <<main, pid, dirs, threads, inbox, sent, serverVars, registered>>
    /\ Quiet

-----------------------------------------------------------------------------
(* p4_log_collect. *)

Collects == "collect" \in threads /\ call["collect"] = Idle /\ inbox # << >>

\* Fault: the line is left in the queue.
CollectLinePeeks ==
    /\ Collects /\ IsLine(Head(inbox))
    /\ Log("collect", LogOf[sent[Head(inbox)]], Head(inbox))
    /\ UNCHANGED <<linkVars, inbox, sent, serverVars, registered,
                   now, logDir, dayDirs, lines>>

\* A log line goes to the log of the module it names.
CollectLine ==
    /\ Collects /\ IsLine(Head(inbox))
    /\ Log("collect", LogOf[sent[Head(inbox)]], Head(inbox))
    /\ inbox' = Tail(inbox)
    /\ UNCHANGED <<linkVars, sent, serverVars, registered, now, logDir, dayDirs, lines>>

\* Fault: anything else is waited for.
CollectOtherKept ==
    /\ Collects /\ ~IsLine(Head(inbox))
    /\ UNCHANGED vars

\* Anything else, the server's answers among them, is dropped.
CollectOther ==
    /\ Collects /\ ~IsLine(Head(inbox))
    /\ inbox' = Tail(inbox)
    /\ UNCHANGED <<linkVars, sent, serverVars, registered>> /\ Quiet

-----------------------------------------------------------------------------
(* The other modules. *)

\* Somebody sends the storage module a datagram.
ModuleSends(tag) ==
    /\ main # "off" /\ Len(inbox) < QUEUE /\ Len(sent) < MaxSent
    /\ sent' = Append(sent, tag)
    /\ inbox' = Append(inbox, Len(sent'))
    /\ UNCHANGED <<linkVars, serverVars, registered>> /\ Quiet

ServerStarts ==
    /\ ~up /\ server < MaxServers
    /\ up' = TRUE /\ server' = server + 1
    /\ UNCHANGED <<linkVars, inbox, sent, mail, known, registered>> /\ Quiet

\* Its table of registrations is lost.
ServerStops ==
    /\ up
    /\ up' = FALSE /\ mail' = << >> /\ known' = {}
    /\ UNCHANGED <<linkVars, inbox, sent, server, registered>> /\ Quiet

ServerReads ==
    /\ mail # << >>
    /\ mail' = Tail(mail)
    /\ known' = IF Head(mail).type = "REGISTER" THEN known \cup {Head(mail).pid} ELSE known
    /\ UNCHANGED <<linkVars, inbox, sent, up, server, registered>> /\ Quiet

-----------------------------------------------------------------------------
Others == UNCHANGED <<linkVars, inbox, sent, serverVars, registered>>

\* The calls the threads have begun, and their conversions.
Converts == \E th \in Converters \cap threads :
               \/ \E t \in Converted : Convert(th, t)
               \/ ConvertReturns(th)
Logging(th) == LogSteps(th) /\ Others

Main      == \/ Register \/ RegisterFails \/ MakeDirs \/ StartThread \/ Exit
             \/ Logging("main")
HeartLoop == Heart \/ HeartFails \/ HeartWakes \/ Logging("heart")
Collector == CollectLine \/ CollectOther \/ Logging("collect")

LinkNext ==
    \/ Start \/ Main \/ Killed
    \/ HeartLoop \/ Collector
    \/ Converts /\ Others
    \/ Tick /\ Others
    \/ \E tag \in Tags : ModuleSends(tag)
    \/ ServerStarts \/ ServerStops \/ ServerReads

\* Threads are scheduled, and the server reads what it is sent.  Nobody has to start
\* or stop anything, or to send a line.
LinkSpec ==
    /\ Init /\ [][LinkNext]_vars
    /\ WF_vars(Main) /\ WF_vars(HeartLoop) /\ WF_vars(Collector)
    /\ WF_vars(ServerReads)

-----------------------------------------------------------------------------
\* A heartbeat is only ever sent by a process a server took the registration of, and
\* that server has the registration, or finds it ahead of the heartbeat, however often
\* either of them is killed and started again.  A server that was started later does
\* not have it: REGISTER is sent once.
HeartsAreRegistered ==
    \A k \in 1 .. Len(mail) :
        LET p == mail[k].pid
        IN  mail[k].type = "HEART" =>
              /\ registered[p] # 0
              /\ registered[p] = server =>
                    \/ p \in known
                    \/ \E j \in 1 .. k - 1 : mail[j] = [type |-> "REGISTER", pid |-> p]

\* Every line other modules send is in the log of the module it names, at most once,
\* and behind the lines sent before it, over kills, restarts and changes of the day.
CollectedInOrder ==
    \A k \in 1 .. Len(lines) : lines[k].no # 0 =>
        /\ IsLine(lines[k].no) /\ lines[k].file = LogOf[sent[lines[k].no]]
        /\ \A j \in 1 .. k - 1 : lines[j].no < lines[k].no

\* As long as a server is there in the end, and the process, heartbeats keep coming,
\* through all the failures before: no failed send, and no full queue, ends the loop.
HeartsGoOn ==
    <>[](up /\ main = "run") => []<>(\E k \in 1 .. Len(mail) :
                                         mail[k] = [type |-> "HEART", pid |-> pid])

Logged(no)  == \E k \in 1 .. Len(lines) : lines[k].no = no
InHand(no)  == call["collect"].op \in Logs /\ call["collect"].line.no = no
Pending(no) == InHand(no) \/ \E k \in 1 .. Len(inbox) : inbox[k] = no

\* No datagram stays in the queue or in the hands of p4_log_collect, whatever is ahead
\* of it; and a line leaves them into a log only, unless the process ends or another
\* thread calls localtime() for another day while p4_log_collect writes it.
LinesGetLogged ==
    /\ \A no \in 1 .. MaxSent : []<>(main # "run" \/ ~Pending(no))
    /\ [][\A no \in 1 .. MaxSent : Pending(no) /\ ~Pending(no)' /\ IsLine(no) =>
             \/ main' = "off"
             \/ Logged(no)'
             \/ InHand(no) /\ call["collect"].touched]_vars
=============================================================================
