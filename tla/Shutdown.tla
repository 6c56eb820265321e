------------------------------ MODULE Shutdown ------------------------------
(***************************************************************************)
(* How the replication loop is stopped: stop_event_loop(), pthread_kill()  *)
(* and the destructors in one thread (src/src/test/test_mysqlslave.cpp,    *)
(* src/README:94-102) against dispatch_events() and reconnect() in the     *)
(* other (src/src/mysqlslave/logparser.cpp), down to the descriptors of    *)
(* the process: stop_event_loop() closes a number, _mysql.net.fd, and the  *)
(* rest of the program opens and closes descriptors of its own meanwhile.  *)
(*                                                                         *)
(* The client library is external.  It keeps the number of the socket in   *)
(* net.fd, which is 0 after mysql_init() and keeps its value when the      *)
(* socket is closed, and in net.vio, which end_server() takes away.        *)
(***************************************************************************)
EXTENDS Naturals, FiniteSetsExt

CONSTANTS
    MaxFd,         \* descriptors are 0 .. MaxFd; 0 is open from the start
    NoFd,          \* no descriptor
    MaxEvents,     \* bound: events the master sends after the first of a dump
    MaxFailures,   \* bound: connections that break
    MaxOpens       \* bound: descriptors the rest of the program opens

ASSUME ShutdownBoundsAssumption ==
    /\ MaxFd \in Nat \ {0}     \* room for the connection
    /\ MaxEvents \in Nat /\ MaxFailures \in Nat /\ MaxOpens \in Nat

Fds == 0 .. MaxFd

ASSUME NoFdAssumption == NoFd \notin Fds

VARIABLES
    owner,         \* descriptor -> "free", "app", or "conn": the connection
    held,          \* the descriptors the rest of the program takes for its own
    dispatch,      \* _dispatch, as a Boolean
    is_connected,  \* _is_connected
    net_fd,        \* _mysql.net.fd
    vio,           \* the descriptor in _mysql.net.vio, NoFd when there is none
    pc,            \* where the replication thread is
    blocked,       \* it waits in read() for the connection
    waiting,       \* what there is to read: "none", "packet" or "end"
    asked,         \* the master owes an answer: to a login or a dump
    signalled,     \* a signal is pending for the thread
    stopper,       \* where the thread that stops the loop is
    foreign,       \* history: what was done to descriptors of others
    events, failures, opens     \* counted for the bounds

connVars == <<is_connected, net_fd, vio>>
wireVars == <<waiting, asked, events>>
stopVars == <<dispatch, stopper>>
vars == <<owner, held, connVars, pc, blocked, wireVars, stopVars, signalled,
          foreign, failures, opens>>

\* Behind prepare(): connected, the dump requested.
Init ==
    /\ owner = [f \in Fds |-> CASE f = 0 -> "app" [] f = 1 -> "conn"
                                [] OTHER -> "free"]
    /\ held = {0}
    /\ dispatch = TRUE /\ is_connected = TRUE
    /\ net_fd = 1 /\ vio = 1
    /\ pc = "loop" /\ blocked = FALSE
    /\ waiting = "none" /\ asked = TRUE
    /\ signalled = FALSE
    /\ stopper = "run"
    /\ foreign = {}
    /\ events = 0 /\ failures = 0 /\ opens = 0

-----------------------------------------------------------------------------
(* Descriptors (external) *)

Free == {f \in Fds : owner[f] = "free"}

Owner(f) == IF f = NoFd THEN "free" ELSE owner[f]

\* close(f): no error when f is not open, whoever has it when it is.
Close(f) ==
    /\ owner' = IF f # NoFd THEN [owner EXCEPT ![f] = "free"] ELSE owner
    /\ foreign' = IF Owner(f) = "app" THEN foreign \union {"closed"} ELSE foreign

\* The rest of the program.  What it reads are files: they are never waited for.
AppOpens ==
    /\ opens < MaxOpens /\ opens' = opens + 1
    /\ Free # {}
    /\ owner' = [owner EXCEPT ![Min(Free)] = "app"]
    /\ held' = held \union {Min(Free)}
    /\ UNCHANGED <<connVars, pc, blocked, wireVars, stopVars, signalled, foreign,
                   failures>>

AppCloses ==
    /\ \E f \in held :
         /\ held' = held \ {f}
         /\ owner' = [owner EXCEPT ![f] = "free"]
    /\ UNCHANGED <<connVars, pc, blocked, wireVars, stopVars, signalled, foreign,
                   failures, opens>>

-----------------------------------------------------------------------------
(* The master (external) *)

\* It answers a login; it begins each dump with an artificial ROTATE event.
Answers ==
    /\ asked /\ asked' = FALSE
    /\ waiting' = IF waiting = "none" THEN "packet" ELSE waiting
    /\ UNCHANGED <<owner, held, connVars, pc, blocked, events, stopVars,
                   signalled, foreign, failures, opens>>

SendsEvent ==
    /\ events < MaxEvents /\ events' = events + 1
    /\ is_connected /\ ~asked /\ waiting = "none"
    /\ waiting' = "packet"
    /\ UNCHANGED <<owner, held, connVars, pc, blocked, asked, stopVars,
                   signalled, foreign, failures, opens>>

Breaks ==
    /\ failures < MaxFailures /\ failures' = failures + 1
    /\ waiting' = "end"
    /\ UNCHANGED <<owner, held, connVars, pc, blocked, asked, events, stopVars,
                   signalled, foreign, opens>>

-----------------------------------------------------------------------------
(* The replication thread *)

ThreadGoes(from, to) ==
    /\ pc = from /\ pc' = to
    /\ UNCHANGED <<held, stopVars, failures, opens>>

Quiet == UNCHANGED <<owner, connVars, blocked, wireVars, signalled, foreign>>

\* end_server(): the socket is closed by its number, once.
EndServer == Close(vio) /\ vio' = NoFd

\* while (_dispatch && !_is_connected) reconnect();
BeginsRead == ThreadGoes("loop", "read") /\ (~dispatch \/ is_connected) /\ Quiet
BeginsReconnect == ThreadGoes("loop", "disconnect") /\ dispatch /\ ~is_connected
                   /\ Quiet

\* Mutation: the descriptor is closed the way stop_event_loop() closes it.
Disconnect_ByNumber(from, to) ==
    /\ ThreadGoes(from, to)
    /\ Close(net_fd) /\ vio' = NoFd /\ is_connected' = FALSE
    /\ UNCHANGED <<net_fd, blocked, wireVars, signalled>>

\* disconnect(), on the way to "to".
Disconnect(from, to) ==
    /\ ThreadGoes(from, to)
    /\ EndServer /\ is_connected' = FALSE
    /\ UNCHANGED <<net_fd, blocked, wireVars, signalled>>

\* connect(): mysql_init(), and then mysql_real_connect() in three steps: a
\* socket, my_net_init(), the login.
MysqlInit ==
    /\ ThreadGoes("init", "socket")
    /\ net_fd' = 0 /\ vio' = NoFd
    /\ UNCHANGED <<owner, is_connected, blocked, wireVars, signalled, foreign>>

OpensSocket ==
    /\ ThreadGoes("socket", "net_init")
    /\ Free # {}
    /\ vio' = Min(Free)
    /\ owner' = [owner EXCEPT ![vio'] = "conn"]
    /\ waiting' = "none" /\ asked' = TRUE
    /\ UNCHANGED <<is_connected, net_fd, blocked, events, signalled, foreign>>

SocketFails == ThreadGoes("socket", "left") /\ Free = {} /\ Quiet

MyNetInit ==
    /\ ThreadGoes("net_init", "login")
    /\ net_fd' = vio
    /\ UNCHANGED <<owner, is_connected, vio, blocked, wireVars, signalled,
                   foreign>>

\* read() by number: it waits for the connection, fails when nothing is open
\* there, and gets the bytes, or the end, of somebody's file.
Reading == pc \in {"login", "read"} /\ UNCHANGED <<held, stopVars, failures, opens>>
Waits ==
    /\ Reading /\ ~blocked /\ Owner(vio) = "conn"
    /\ blocked' = TRUE /\ signalled' = FALSE
    /\ UNCHANGED <<owner, connVars, pc, wireVars, foreign>>

\* A signal ends the wait; the read() is begun again.
Interrupted ==
    /\ Reading /\ blocked /\ signalled
    /\ blocked' = FALSE /\ signalled' = FALSE
    /\ UNCHANGED <<owner, connVars, pc, wireVars, foreign>>

GetsPacket ==
    /\ Reading /\ blocked /\ waiting = "packet"
    /\ blocked' = FALSE /\ waiting' = "none"
    /\ \/ pc = "login" /\ pc' = "dump" /\ is_connected' = TRUE
       \/ pc = "read" /\ pc' = "got" /\ UNCHANGED is_connected
    /\ UNCHANGED <<owner, net_fd, vio, asked, events, signalled, foreign>>

GetsForeignBytes ==
    /\ Reading /\ ~blocked /\ Owner(vio) = "app"
    /\ foreign' = foreign \union {"read"}
    /\ pc' = IF pc = "login" THEN "refused" ELSE "got foreign"
    /\ UNCHANGED <<owner, connVars, blocked, wireVars, signalled>>

ReadFails ==
    /\ Reading
    /\ \/ blocked /\ waiting = "end"
       \/ ~blocked /\ Owner(vio) # "conn"
    /\ blocked' = FALSE
    /\ EndServer
    /\ pc' = IF pc = "login" THEN "left" ELSE "error"
    /\ UNCHANGED <<is_connected, net_fd, wireVars, signalled>>

\* mysql_real_connect() does not accept the answer, and cleans up.
LoginRefused ==
    /\ ThreadGoes("refused", "left")
    /\ EndServer
    /\ UNCHANGED <<is_connected, net_fd, blocked, wireVars, signalled>>

\* request_binlog_dump(): the command is written to the socket by its number.
RequestBinlogDump ==
    /\ pc = "dump"
    /\ UNCHANGED <<held, stopVars, failures, opens, is_connected, net_fd, blocked,
                   waiting, events, signalled>>
    /\ IF Owner(vio) = "conn"
       THEN pc' = "loop" /\ asked' = TRUE /\ UNCHANGED <<owner, vio, foreign>>
       ELSE IF Owner(vio) = "app"
       THEN pc' = "loop" /\ foreign' = foreign \union {"written"}
            /\ UNCHANGED <<owner, vio, asked>>
       ELSE pc' = "left" /\ EndServer /\ UNCHANGED asked

\* Behind cli_safe_read(): if (!_dispatch) return; then the error is thrown.
HandlesError ==
    /\ ThreadGoes("error", "left")
    /\ is_connected' = (is_connected /\ ~dispatch)
    /\ UNCHANGED <<owner, net_fd, vio, blocked, wireVars, signalled, foreign>>

\* Mutation: what was read is looked at, stopped or not.
HandlesPacket_Always(got) ==
    /\ ThreadGoes(got, "handled")
    /\ foreign' = IF got = "got" THEN foreign ELSE foreign \union {"handled"}
    /\ UNCHANGED <<owner, connVars, blocked, wireVars, signalled>>

\* ... or the packet is handled as an event.
HandlesPacket(got) ==
    /\ ThreadGoes(got, IF dispatch THEN "handled" ELSE "left")
    /\ foreign' = IF dispatch /\ got # "got" THEN foreign \union {"handled"}
                  ELSE foreign
    /\ UNCHANGED <<owner, connVars, blocked, wireVars, signalled>>

\* while (dispatch()); disconnect()
GoesOn == ThreadGoes("handled", "loop") /\ dispatch /\ Quiet
Ends == ~dispatch /\ Disconnect("handled", "left")

\* replication_thread_proc(): dispatch_events() has returned or thrown.
CallsAgain == ThreadGoes("left", "loop") /\ dispatch /\ Quiet
Finishes == ThreadGoes("left", "finished") /\ ~dispatch /\ Quiet

-----------------------------------------------------------------------------
(* The thread that stops the loop *)

StopperGoes(from, to) ==
    /\ stopper = from /\ stopper' = to
    /\ UNCHANGED <<held, is_connected, net_fd, pc, blocked, wireVars, failures,
                   opens>>

\* Mutation: the descriptor is all that is taken away.
SetsDispatch_Not ==
    /\ StopperGoes("run", "close")
    /\ UNCHANGED <<owner, dispatch, vio, signalled, foreign>>

\* stop_event_loop(): first the flag.
SetsDispatch ==
    /\ StopperGoes("run", "close")
    /\ dispatch' = FALSE
    /\ UNCHANGED <<owner, vio, signalled, foreign>>

\* Mutation: nothing is closed.
ClosesNetFd_Not ==
    /\ StopperGoes("close", "kill")
    /\ UNCHANGED <<owner, foreign, dispatch, vio, signalled>>

\* ... then the descriptor, by the number there is at the moment.
ClosesNetFd ==
    /\ StopperGoes("close", "kill")
    /\ Close(net_fd)
    /\ UNCHANGED <<dispatch, vio, signalled>>

\* pthread_kill(th_repl, SIGTERM)
Kills ==
    /\ StopperGoes("kill", "join")
    /\ signalled' = TRUE
    /\ UNCHANGED <<owner, dispatch, vio, foreign>>

\* pthread_join(th_repl)
Joins ==
    /\ StopperGoes("join", "destroy") /\ pc = "finished"
    /\ UNCHANGED <<owner, dispatch, vio, signalled, foreign>>

\* Mutation: the connection is left to the loop.
Destroys_Nothing ==
    /\ StopperGoes("destroy", "done")
    /\ UNCHANGED <<owner, vio, foreign, dispatch, signalled>>

\* ~CLogParser(): disconnect()
Destroys ==
    /\ StopperGoes("destroy", "done")
    /\ EndServer
    /\ UNCHANGED <<dispatch, signalled>>

-----------------------------------------------------------------------------
Environment == AppOpens \/ AppCloses \/ Answers \/ SendsEvent \/ Breaks

Thread ==
    \/ BeginsRead \/ BeginsReconnect \/ Disconnect("disconnect", "init")
    \/ MysqlInit \/ OpensSocket \/ SocketFails \/ MyNetInit
    \/ Waits \/ Interrupted \/ GetsPacket \/ GetsForeignBytes \/ ReadFails
    \/ LoginRefused \/ RequestBinlogDump
    \/ HandlesError \/ HandlesPacket("got") \/ HandlesPacket("got foreign")
    \/ GoesOn \/ Ends \/ CallsAgain \/ Finishes

\* ~test_daemon(), once it has begun.
Destructor == ClosesNetFd \/ Kills \/ Joins \/ Destroys

Next == Environment \/ Thread \/ SetsDispatch \/ Destructor

Fairness == WF_vars(Thread) /\ WF_vars(Destructor) /\ WF_vars(Answers)

Spec == Init /\ [][Next]_vars /\ Fairness

-----------------------------------------------------------------------------
(* Properties *)

TypeOK ==
    /\ owner \in [Fds -> {"free", "app", "conn"}]
    /\ held \subseteq Fds
    /\ net_fd \in Fds /\ (vio = NoFd \/ vio \in Fds)
    /\ dispatch \in BOOLEAN /\ is_connected \in BOOLEAN
    /\ waiting \in {"none", "packet", "end"} /\ asked \in BOOLEAN
    /\ blocked => pc \in {"login", "read"}
    /\ foreign \subseteq {"closed", "read", "written", "handled"}
    /\ stopper = "run" <=> dispatch

\* A stopped loop ends and the destructor comes back, from wherever the thread
\* was - waiting for a master that has nothing to send, or anywhere in
\* reconnect(), when the number that is closed is not that of the connection.
StopEndsTheLoop == (stopper # "run") ~> (stopper = "done")

\* What is read from a descriptor that is not the connection's is never handled
\* as an event: the flag is set before the number is closed and looked at
\* behind every read.
NoForeignEvents == "handled" \notin foreign

\* As long as nobody stops the loop it closes, reads and writes no descriptor
\* but its own, however often it reconnects.
OthersLeftAlone == dispatch => foreign = {}

\* When the destructor has come back the connection is closed, on whichever of
\* its ways the loop was left.
NoConnectionLeft == stopper = "done" => \A f \in Fds : owner[f] # "conn"

=============================================================================
