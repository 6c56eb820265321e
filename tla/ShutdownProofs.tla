--------------------------- MODULE ShutdownProofs ---------------------------
(***************************************************************************)
(* Stopping the loop: who has which descriptor, for any number of them,    *)
(* however long the program runs and whatever else it opens.               *)
(***************************************************************************)
EXTENDS Shutdown, TLAPS, WellFoundedInduction

\* Until the loop is stopped the socket is the connection's, and what the rest
\* of the program took is still its own.
OwnInv ==
    dispatch =>
      /\ foreign = {} /\ pc # "got foreign"
      /\ vio # NoFd => owner[vio] = "conn"
      /\ \A f \in held : owner[f] = "app"

\* There is no connection but the one in _mysql.net.vio; a new one is made
\* when there is none, and nobody makes one behind the join.
ConnInv ==
    /\ \A f \in Fds : owner[f] = "conn" => f = vio
    /\ pc \in {"init", "socket"} => vio = NoFd
    /\ pc = "net_init" => vio # NoFd
    /\ stopper \in {"destroy", "done"} => pc = "finished"
    /\ stopper = "done" => vio = NoFd

SInv == TypeOK /\ OwnInv /\ ConnInv /\ NoForeignEvents

-----------------------------------------------------------------------------
(* The lowest free descriptor *)

LEMMA MinOfFds ==
    ASSUME NEW S, S \subseteq Fds, S # {}
    PROVE  Min(S) \in S
<1>1. S \subseteq Nat
  BY ShutdownBoundsAssumption DEF Fds
<1>2. \E x \in S : \A y \in S : ~(<<y, x>> \in OpToRel(<, Nat))
  BY <1>1, WFMin, NatLessThanWellFounded
<1>3. PICK x \in S : \A y \in S : ~(<<y, x>> \in OpToRel(<, Nat))
  BY <1>2
<1>4. \A y \in S : x <= y
  <2> TAKE y \in S
  <2>1. x \in Nat /\ y \in Nat
    BY <1>1
  <2>2. <<y, x>> \in Nat \X Nat
    BY <2>1
  <2>3. ~(y < x)
    BY <2>2, <1>3, Zenon DEF OpToRel
  <2>4. QED
    BY <2>1, <2>3
<1>5. QED
  BY <1>4 DEF Min

LEMMA LowestFree ==
    ASSUME Free # {}
    PROVE  /\ Min(Free) \in Fds
           /\ Min(Free) # NoFd
           /\ owner[Min(Free)] = "free"
<1>1. Free \subseteq Fds
  BY DEF Free
<1>2. Min(Free) \in Free
  BY <1>1, MinOfFds
<1>3. QED
  BY <1>1, <1>2, NoFdAssumption DEF Free

-----------------------------------------------------------------------------
(* The inductive invariant *)

LEMMA FirstFds == 0 \in Fds /\ 1 \in Fds
BY ShutdownBoundsAssumption DEF Fds

LEMMA SInit == Init => SInv
<1> SUFFICES ASSUME Init PROVE SInv
  OBVIOUS
<1>1. TypeOK
  BY FirstFds DEF Init, TypeOK
<1>2. OwnInv /\ ConnInv /\ NoForeignEvents
  BY FirstFds DEF Init, OwnInv, ConnInv, NoForeignEvents
<1>3. QED
  BY <1>1, <1>2 DEF SInv

\* What close() does to the descriptors, by whatever number it is called.
LEMMA Closing ==
    ASSUME SInv, NEW fd \in Fds \union {NoFd}, Close(fd)
    PROVE  /\ owner' \in [Fds -> {"free", "app", "conn"}]
           /\ \A f \in Fds : f # fd => owner'[f] = owner[f]
           /\ fd # NoFd => owner'[fd] = "free"
           /\ foreign' \subseteq {"closed", "read", "written", "handled"}
           /\ "handled" \notin foreign'
           /\ fd = NoFd \/ owner[fd] # "app" => foreign' = foreign
<1>1. owner \in [Fds -> {"free", "app", "conn"}]
      /\ foreign \subseteq {"closed", "read", "written", "handled"}
      /\ "handled" \notin foreign
  BY DEF SInv, TypeOK, NoForeignEvents
<1>2. CASE fd = NoFd
  BY <1>1, <1>2, NoFdAssumption DEF Close, Owner
<1>3. CASE fd # NoFd
  BY <1>1, <1>3 DEF Close, Owner
<1>4. QED
  BY <1>2, <1>3

\* When the library closes the socket there is no connection any more, and
\* until the loop is stopped nobody else notices.
LEMMA EndsConnection ==
    ASSUME SInv, Close(vio)
    PROVE  /\ owner' \in [Fds -> {"free", "app"}]
           /\ foreign' \subseteq {"closed", "read", "written"}
           /\ dispatch => foreign' = {} /\ \A f \in held : owner'[f] = "app"
<1>1. vio \in Fds \union {NoFd}
  BY DEF SInv, TypeOK
<1>2. /\ owner' \in [Fds -> {"free", "app", "conn"}]
      /\ \A f \in Fds : f # vio => owner'[f] = owner[f]
      /\ vio # NoFd => owner'[vio] = "free"
      /\ foreign' \subseteq {"closed", "read", "written", "handled"}
      /\ "handled" \notin foreign'
      /\ vio = NoFd \/ owner[vio] # "app" => foreign' = foreign
  BY <1>1, Closing
<1>3. \A f \in Fds : owner'[f] \in {"free", "app"}
  BY <1>1, <1>2, NoFdAssumption DEF SInv, ConnInv
<1>4. ASSUME dispatch
      PROVE  foreign' = {} /\ \A f \in held : owner'[f] = "app"
  BY <1>2, <1>4, NoFdAssumption DEF SInv, OwnInv, TypeOK
<1>5. QED
  BY <1>2, <1>3, <1>4

\* The rest of the program and the master.
LEMMA EnvironmentKeeps == SInv /\ Environment => SInv'
<1> SUFFICES ASSUME SInv, Environment PROVE SInv'
  OBVIOUS
<1> USE DEF connVars, wireVars, stopVars, SInv, TypeOK, OwnInv, ConnInv,
            NoForeignEvents
<1>1. CASE AppOpens
  <2>1. PICK f \in Fds : /\ f # NoFd /\ owner[f] = "free"
                         /\ owner' = [owner EXCEPT ![f] = "app"]
                         /\ held' = held \union {f}
    BY <1>1, LowestFree DEF AppOpens
  <2>2. QED
    BY <1>1, <2>1 DEF AppOpens
<1>2. CASE AppCloses
  BY <1>2 DEF AppCloses
<1>3. CASE Answers
  BY <1>3 DEF Answers
<1>4. CASE SendsEvent
  BY <1>4 DEF SendsEvent
<1>5. CASE Breaks
  BY <1>5 DEF Breaks
<1>6. QED
  BY <1>1, <1>2, <1>3, <1>4, <1>5 DEF Environment

\* The replication thread.
LEMMA ThreadKeeps == SInv /\ Thread => SInv'
<1> SUFFICES ASSUME SInv, Thread PROVE SInv'
  OBVIOUS
<1> USE DEF connVars, wireVars, stopVars, SInv, TypeOK, OwnInv, ConnInv,
            NoForeignEvents, ThreadGoes
<1>1. CASE BeginsRead
  BY <1>1 DEF BeginsRead, Quiet
<1>2. CASE BeginsReconnect
  BY <1>2 DEF BeginsReconnect, Quiet
<1>3. CASE Disconnect("disconnect", "init")
  <2>1. Close(vio) /\ vio' = NoFd
    BY <1>3 DEF Disconnect, EndServer
  <2>2. /\ owner' \in [Fds -> {"free", "app"}]
        /\ foreign' \subseteq {"closed", "read", "written"}
        /\ dispatch => foreign' = {} /\ \A f \in held : owner'[f] = "app"
    BY <2>1, EndsConnection
  <2>3. QED
    BY <1>3, <2>1, <2>2, NoFdAssumption DEF Disconnect
<1>4. CASE MysqlInit
  <2>1. vio = NoFd
    BY <1>4 DEF MysqlInit
  <2>2. QED
    BY <1>4, <2>1, FirstFds DEF MysqlInit
<1>5. CASE OpensSocket
  <2>1. PICK f \in Fds : /\ f # NoFd /\ owner[f] = "free" /\ vio' = f
                         /\ owner' = [owner EXCEPT ![f] = "conn"]
    BY <1>5, LowestFree DEF OpensSocket
  <2>2. vio = NoFd
    BY <1>5 DEF OpensSocket
  <2>3. \A d \in Fds : owner[d] # "conn"
    BY <2>2, NoFdAssumption
  <2>4. \A d \in Fds : owner'[d] = IF d = f THEN "conn" ELSE owner[d]
    BY <2>1
  <2>5. owner' \in [Fds -> {"free", "app", "conn"}]
    BY <2>1
  <2>6. ConnInv'
    BY <1>5, <2>1, <2>3, <2>4 DEF OpensSocket
  <2>7. QED
    BY <1>5, <2>1, <2>4, <2>5, <2>6 DEF OpensSocket
<1>6. CASE SocketFails
  BY <1>6 DEF SocketFails, Quiet
<1>7. CASE MyNetInit
  BY <1>7 DEF MyNetInit
<1>8. CASE Waits
  BY <1>8 DEF Waits, Reading
<1>9. CASE Interrupted
  BY <1>9 DEF Interrupted, Reading
<1>10. CASE GetsPacket
  BY <1>10 DEF GetsPacket, Reading
<1>11. CASE GetsForeignBytes
  BY <1>11 DEF GetsForeignBytes, Reading, Owner
<1>12. CASE ReadFails
  <2>1. Close(vio) /\ vio' = NoFd
    BY <1>12 DEF ReadFails, EndServer
  <2>2. /\ owner' \in [Fds -> {"free", "app"}]
        /\ foreign' \subseteq {"closed", "read", "written"}
        /\ dispatch => foreign' = {} /\ \A f \in held : owner'[f] = "app"
    BY <2>1, EndsConnection
  <2>3. QED
    BY <1>12, <2>1, <2>2, NoFdAssumption DEF ReadFails, Reading
<1>13. CASE LoginRefused
  <2>1. Close(vio) /\ vio' = NoFd
    BY <1>13 DEF LoginRefused, EndServer
  <2>2. /\ owner' \in [Fds -> {"free", "app"}]
        /\ foreign' \subseteq {"closed", "read", "written"}
        /\ dispatch => foreign' = {} /\ \A f \in held : owner'[f] = "app"
    BY <2>1, EndsConnection
  <2>3. QED
    BY <1>13, <2>1, <2>2, NoFdAssumption DEF LoginRefused
<1>14. CASE RequestBinlogDump
  <2>1. CASE Owner(vio) = "conn"
    BY <1>14, <2>1 DEF RequestBinlogDump
  <2>2. CASE Owner(vio) = "app"
    BY <1>14, <2>2 DEF RequestBinlogDump, Owner
  <2>3. CASE Owner(vio) \notin {"conn", "app"}
    <3>1. Close(vio) /\ vio' = NoFd /\ pc' = "left"
      BY <1>14, <2>3 DEF RequestBinlogDump, EndServer
    <3>2. /\ owner' \in [Fds -> {"free", "app"}]
          /\ foreign' \subseteq {"closed", "read", "written"}
          /\ dispatch => foreign' = {} /\ \A f \in held : owner'[f] = "app"
      BY <3>1, EndsConnection
    <3>3. QED
      BY <1>14, <3>1, <3>2, NoFdAssumption DEF RequestBinlogDump
  <2>4. QED
    BY <2>1, <2>2, <2>3
<1>15. CASE HandlesError
  BY <1>15 DEF HandlesError
<1>16. CASE HandlesPacket("got")
  BY <1>16 DEF HandlesPacket
<1>17. CASE HandlesPacket("got foreign")
  BY <1>17 DEF HandlesPacket
<1>18. CASE GoesOn
  BY <1>18 DEF GoesOn, Quiet
<1>19. CASE Ends
  <2>1. Close(vio) /\ vio' = NoFd
    BY <1>19 DEF Ends, Disconnect, EndServer
  <2>2. /\ owner' \in [Fds -> {"free", "app"}]
        /\ foreign' \subseteq {"closed", "read", "written"}
        /\ dispatch => foreign' = {} /\ \A f \in held : owner'[f] = "app"
    BY <2>1, EndsConnection
  <2>3. QED
    BY <1>19, <2>1, <2>2, NoFdAssumption DEF Ends, Disconnect
<1>20. CASE CallsAgain
  BY <1>20 DEF CallsAgain, Quiet
<1>21. CASE Finishes
  BY <1>21 DEF Finishes, Quiet
<1>22. QED
  BY <1>1, <1>2, <1>3, <1>4, <1>5, <1>6, <1>7, <1>8, <1>9, <1>10, <1>11,
     <1>12, <1>13, <1>14, <1>15, <1>16, <1>17, <1>18, <1>19, <1>20,
     <1>21  DEF Thread

\* stop_event_loop(), pthread_kill(), pthread_join() and the destructor.
LEMMA StopperKeeps == SInv /\ (SetsDispatch \/ Destructor) => SInv'
<1> SUFFICES ASSUME SInv, SetsDispatch \/ Destructor PROVE SInv'
  OBVIOUS
<1> USE DEF connVars, wireVars, stopVars, SInv, TypeOK, OwnInv, ConnInv,
            NoForeignEvents, StopperGoes
<1>1. CASE SetsDispatch
  BY <1>1 DEF SetsDispatch
<1>2. CASE ClosesNetFd
  <2>1. Close(net_fd)
    BY <1>2 DEF ClosesNetFd
  <2>2. net_fd \in Fds
    OBVIOUS
  <2>3. /\ owner' \in [Fds -> {"free", "app", "conn"}]
        /\ \A f \in Fds : f # net_fd => owner'[f] = owner[f]
        /\ net_fd # NoFd => owner'[net_fd] = "free"
        /\ foreign' \subseteq {"closed", "read", "written", "handled"}
        /\ "handled" \notin foreign'
    BY <2>1, <2>2, Closing
  <2>4. QED
    BY <1>2, <2>2, <2>3, NoFdAssumption DEF ClosesNetFd
<1>3. CASE Kills
  BY <1>3 DEF Kills
<1>4. CASE Joins
  BY <1>4 DEF Joins
<1>5. CASE Destroys
  <2>1. Close(vio) /\ vio' = NoFd
    BY <1>5 DEF Destroys, EndServer
  <2>2. /\ owner' \in [Fds -> {"free", "app"}]
        /\ foreign' \subseteq {"closed", "read", "written"}
        /\ dispatch => foreign' = {} /\ \A f \in held : owner'[f] = "app"
    BY <2>1, EndsConnection
  <2>3. QED
    BY <1>5, <2>1, <2>2, NoFdAssumption DEF Destroys
<1>6. QED
  BY <1>1, <1>2, <1>3, <1>4, <1>5 DEF Destructor

LEMMA SNext == SInv /\ [Next]_vars => SInv'
<1> SUFFICES ASSUME SInv, [Next]_vars PROVE SInv'
  OBVIOUS
<1>1. CASE Next
  BY <1>1, EnvironmentKeeps, ThreadKeeps, StopperKeeps DEF Next
<1>2. CASE UNCHANGED vars
  BY <1>2 DEF vars, connVars, wireVars, stopVars, SInv, TypeOK, OwnInv, ConnInv,
              NoForeignEvents
<1>3. QED
  BY <1>1, <1>2

-----------------------------------------------------------------------------
(* Theorems *)

LEMMA SInvariant == Spec => []SInv
BY SInit, SNext, PTL DEF Spec

\* The number in _mysql.net.fd and the one in _mysql.net.vio are always
\* descriptors or none, and _dispatch is set as long as stop_event_loop() has
\* not been called: for any number of descriptors, events, failures and opens.
THEOREM ShutdownTypes == Spec => []TypeOK
<1>1. SInv => TypeOK
  BY DEF SInv
<1>2. QED
  BY <1>1, SInvariant, PTL

\* stop_event_loop() sets the flag before it closes the number, and
\* dispatch_events() looks at the flag behind every read: bytes of a file of
\* the application that the thread read from the number are never handled.
THEOREM HandlesOwnEventsOnly == Spec => []NoForeignEvents
<1>1. SInv => NoForeignEvents
  BY DEF SInv
<1>2. QED
  BY <1>1, SInvariant, PTL

\* As long as _dispatch is set, the socket the library closes, reads and
\* writes by number is the connection's, whatever the rest of the program
\* opens between a disconnect() and the next connect().
THEOREM LeavesOthersAlone == Spec => []OthersLeftAlone
<1>1. SInv => OthersLeftAlone
  BY DEF SInv, OwnInv, OthersLeftAlone
<1>2. QED
  BY <1>1, SInvariant, PTL

\* Behind ~CLogParser() no descriptor of a connection is open, though the loop
\* may be left at three places of which one disconnects, and though
\* stop_event_loop() may have closed another number.
THEOREM ClosesItsConnection == Spec => []NoConnectionLeft
<1>1. SInv => NoConnectionLeft
  <2> SUFFICES ASSUME SInv, stopper = "done", NEW f \in Fds
               PROVE  owner[f] # "conn"
    BY DEF NoConnectionLeft
  <2>1. vio = NoFd
    BY DEF SInv, ConnInv
  <2>2. QED
    BY <2>1, NoFdAssumption DEF SInv, ConnInv
<1>2. QED
  BY <1>1, SInvariant, PTL

=============================================================================
