---------------------------- MODULE DaemonProofs ----------------------------
(***************************************************************************)
(* Safety of the daemon's start-up and shutdown, for any number of daemons *)
(* and commands, whatever fails and however they overlap.                  *)
(*                                                                         *)
(* The argument: the proxy's port, the one thing the kernel gives to one   *)
(* process at a time, is held from before a daemon touches the ssh socket, *)
(* the pidfile and the socket until after it has taken them down again.    *)
(*                                                                         *)
(* While commands look for the daemon one at a time, and see their waits   *)
(* to the end, more holds: a daemon comes up alone, since the command that *)
(* launched it found nobody serving and waits until it is up or gone.      *)
(***************************************************************************)
EXTENDS Daemon, TLAPS

(* The port is held by exactly the daemon that is past listening on it. *)
PortIsHeld == \A d \in Daemons : daemon[d] \in HasProxy <=> proxyPort = d

(* A listener is open exactly while its daemon serves. *)
ListensWhileServing == \A d \in Daemons : d \in listening <=> daemon[d] = "serving"

Owned == TypeOK /\ PortIsHeld /\ ListensWhileServing /\ CleansUpItsOwn

-----------------------------------------------------------------------------
(* Types                                                                   *)

LEMMA InitTypes == Init => TypeOK
  BY DEF Init, TypeOK, Stages, Command, Idle, Outcomes

LEMMA ServeTypes ==
  ASSUME TypeOK, NEW d \in Daemons, ServeStep(d) \/ AcceptFails(d) \/ Crash(d)
  PROVE  TypeOK'
<1> USE DEF TypeOK, files, Stage, Denied, Stages, Starting, Stopping
<1>1. CASE Check(d)         BY <1>1 DEF Check
<1>2. CASE Clear(d)         BY <1>2 DEF Clear
<1>3. CASE ListenProxy(d)   BY <1>3 DEF ListenProxy
<1>4. CASE ListenSSH(d)     BY <1>4 DEF ListenSSH
<1>5. CASE WritePid(d)      BY <1>5 DEF WritePid
<1>6. CASE Bind(d)          BY <1>6 DEF Bind
<1>7. CASE StopListening(d) BY <1>7 DEF StopListening
<1>8. CASE Drained(d)       BY <1>8 DEF Drained
<1>9. CASE RemoveSocket(d)  BY <1>9 DEF RemoveSocket
<1>10. CASE RemovePid(d)    BY <1>10 DEF RemovePid
<1>11. CASE CloseSSH(d)     BY <1>11 DEF CloseSSH
<1>12. CASE CloseProxy(d)   BY <1>12 DEF CloseProxy
<1>13. CASE AcceptFails(d)  BY <1>13 DEF AcceptFails
<1>14. CASE Crash(d)        BY <1>14 DEF Crash
<1>15. QED
  BY <1>1, <1>2, <1>3, <1>4, <1>5, <1>6, <1>7, <1>8, <1>9, <1>10, <1>11, <1>12, <1>13,
     <1>14 DEF ServeStep

LEMMA CommandTypes ==
  ASSUME TypeOK, NEW c \in Clients, Begin(c) \/ CommandStep(c) \/ Leave(c) \/ Interrupt(c)
  PROVE  TypeOK'
<1> USE DEF TypeOK, files, Command, Outcomes, Idle, Move, MoveTo, Finish, Want
<1>1. CASE Begin(c)         BY <1>1, ConstantsAssumption DEF Begin
<1>2. CASE Look(c)          BY <1>2 DEF Look, Alive
<1>3. CASE Launch(c)        BY <1>3 DEF Launch, Stages, Starting
<1>4. CASE Await(c)         BY <1>4 DEF Await, Alive
<1>5. CASE AwaitTimesOut(c) BY <1>5 DEF AwaitTimesOut
<1>6. CASE FindAnswering(c) BY <1>6 DEF FindAnswering
<1>7. CASE ReadPid(c)       BY <1>7 DEF ReadPid
<1>8. CASE Signal(c)        BY <1>8 DEF Signal
<1>9. CASE Quiet(c)         BY <1>9 DEF Quiet
<1>10. CASE QuietTimesOut(c) BY <1>10 DEF QuietTimesOut
<1>11. CASE Leave(c)        BY <1>11 DEF Leave
<1>12. CASE Interrupt(c)    BY <1>12 DEF Interrupt
<1>13. QED
  BY <1>1, <1>2, <1>3, <1>4, <1>5, <1>6, <1>7, <1>8, <1>9, <1>10, <1>11, <1>12
  DEF CommandStep

LEMMA TypesPreserved == TypeOK /\ [Next]_vars => TypeOK'
<1> SUFFICES ASSUME TypeOK, [Next]_vars PROVE TypeOK'
  OBVIOUS
<1>1. CASE \E d \in Daemons : ServeStep(d) \/ AcceptFails(d) \/ Crash(d)
  BY <1>1, ServeTypes
<1>2. CASE \E c \in Clients : Begin(c) \/ CommandStep(c) \/ Leave(c) \/ Interrupt(c)
  BY <1>2, CommandTypes
<1>3. CASE UNCHANGED vars
  BY <1>3 DEF vars, TypeOK
<1>4. QED
  BY <1>1, <1>2, <1>3 DEF Next

(* Whatever fails, every process id, file and outcome is one the program   *)
(* has, and a command that deals with a daemon has the pid of one.         *)
THEOREM TypeCorrect == Spec => []TypeOK
  BY InitTypes, TypesPreserved, PTL DEF Spec

-----------------------------------------------------------------------------
(* Ownership                                                               *)

LEMMA InitOwned == Init => Owned
<1> SUFFICES ASSUME Init PROVE Owned
  OBVIOUS
<1>1. TypeOK
  BY InitTypes
<1>2. PortIsHeld
  BY ConstantsAssumption DEF Init, PortIsHeld, HasProxy, Stopping
<1>3. ListensWhileServing /\ CleansUpItsOwn
  BY DEF Init, ListensWhileServing, CleansUpItsOwn, Stopping
<1>4. QED
  BY <1>1, <1>2, <1>3 DEF Owned

(* Nothing is taken from a daemon by another: a step of d that changes what *)
(* all share is one d takes while it holds the port, or while nobody does.  *)
LEMMA ServeOwned ==
  ASSUME Owned, NEW d \in Daemons, ServeStep(d) \/ AcceptFails(d) \/ Crash(d)
  PROVE  Owned'
<1>1. TypeOK /\ TypeOK'
  BY ServeTypes DEF Owned
<1> USE <1>1, ConstantsAssumption
    DEF Owned, TypeOK, PortIsHeld, ListensWhileServing, CleansUpItsOwn,
        files, Stage, Denied, HasProxy, Stages, Starting, Stopping
<1>2. CASE Check(d)          BY <1>2 DEF Check
<1>3. CASE Clear(d)          BY <1>3 DEF Clear
<1>4. CASE ListenProxy(d)    BY <1>4 DEF ListenProxy
<1>5. CASE ListenSSH(d)      BY <1>5 DEF ListenSSH
<1>6. CASE WritePid(d)       BY <1>6 DEF WritePid
<1>7. CASE Bind(d)           BY <1>7 DEF Bind
<1>8. CASE StopListening(d)  BY <1>8 DEF StopListening
<1>9. CASE Drained(d)        BY <1>9 DEF Drained
<1>10. CASE RemoveSocket(d)  BY <1>10 DEF RemoveSocket
<1>11. CASE RemovePid(d)     BY <1>11 DEF RemovePid
<1>12. CASE CloseSSH(d)      BY <1>12 DEF CloseSSH
<1>13. CASE CloseProxy(d)    BY <1>13 DEF CloseProxy
<1>14. CASE AcceptFails(d)   BY <1>14 DEF AcceptFails
<1>15. CASE Crash(d)         BY <1>15 DEF Crash
<1>16. QED
  BY <1>2, <1>3, <1>4, <1>5, <1>6, <1>7, <1>8, <1>9, <1>10, <1>11, <1>12, <1>13,
     <1>14, <1>15 DEF ServeStep

(* Commands only ever start daemons. *)
LEMMA CommandOwned ==
  ASSUME Owned, NEW c \in Clients, Begin(c) \/ CommandStep(c) \/ Leave(c) \/ Interrupt(c)
  PROVE  Owned'
<1>1. TypeOK'
  BY CommandTypes DEF Owned
<1>2. CASE Launch(c)
  <2>1. UNCHANGED files
    BY <1>2 DEF Launch
  <2>2. \A d \in Daemons : daemon'[d] = daemon[d] \/ (daemon[d] = "none" /\ daemon'[d] = "check")
    BY <1>2 DEF Launch, Fresh, Owned, TypeOK
  <2>3. QED
    BY <1>1, <2>1, <2>2
    DEF Owned, PortIsHeld, ListensWhileServing, CleansUpItsOwn, files, HasProxy, Stopping
<1>3. CASE UNCHANGED <<files, daemon>>
  BY <1>1, <1>3 DEF Owned, PortIsHeld, ListensWhileServing, CleansUpItsOwn, files
<1>4. Launch(c) \/ UNCHANGED <<files, daemon>>
  BY DEF CommandStep, Begin, Look, Await, AwaitTimesOut, FindAnswering, ReadPid, Signal,
         Quiet, QuietTimesOut, Leave, Interrupt
<1>5. QED
  BY <1>2, <1>3, <1>4

LEMMA AlwaysOwned == Spec => []Owned
<1>1. Owned /\ [Next]_vars => Owned'
  <2> SUFFICES ASSUME Owned, [Next]_vars PROVE Owned'
    OBVIOUS
  <2>1. CASE \E d \in Daemons : ServeStep(d) \/ AcceptFails(d) \/ Crash(d)
    BY <2>1, ServeOwned
  <2>2. CASE \E c \in Clients : Begin(c) \/ CommandStep(c) \/ Leave(c) \/ Interrupt(c)
    BY <2>2, CommandOwned
  <2>3. CASE UNCHANGED vars
    BY <2>3 DEF vars, Owned, TypeOK, PortIsHeld, ListensWhileServing, CleansUpItsOwn
  <2>4. QED
    BY <2>1, <2>2, <2>3 DEF Next
<1>2. QED
  BY InitOwned, <1>1, PTL DEF Spec

-----------------------------------------------------------------------------
(* Of any number of daemons started at once, one at most gets past its     *)
(* proxy and so to serving (daemon.Serve, serveProxy).                     *)
THEOREM OnlyOneServes == Spec => []OneDaemonServes
<1>1. Owned => OneDaemonServes
  BY DEF Owned, PortIsHeld, OneDaemonServes
<1>2. QED
  BY AlwaysOwned, <1>1, PTL

(* No daemon unlinks another's socket, pidfile or ssh socket on its way    *)
(* out, since it holds the proxy's port until they are gone (the order of  *)
(* Serve's deferred calls).                                                *)
THEOREM CleanUpIsSafe == Spec => []CleansUpItsOwn
<1>1. Owned => CleansUpItsOwn
  BY DEF Owned
<1>2. QED
  BY AlwaysOwned, <1>1, PTL

(* The pid beside a socket that answers is that of the daemon answering    *)
(* (daemon.Serve, daemon.Running).                                         *)
THEOREM PidIsRight == Spec => []PidNamesAnswering
<1>1. Owned => PidNamesAnswering
  BY DEF Owned, TypeOK, ListensWhileServing, CleansUpItsOwn, PidNamesAnswering, Alive
<1>2. QED
  BY AlwaysOwned, <1>1, PTL

-----------------------------------------------------------------------------
(* One command at a time                                                   *)

OneUnsettled == \A b, c \in Clients : ~Settled(b) /\ ~Settled(c) => b = c

(* Somebody waits for a daemon until it has come up or given up.           *)
Awaited ==
  \A d \in Daemons : daemon[d] \in Starting =>
    \E c \in Clients : client[c].pc = "await" /\ client[c].pid = d

(* A daemon comes up alone. *)
StartsAlone == \A d, e \in Daemons : daemon[d] \in Starting => daemon[e] # "serving"

Orderly ==
  /\ Owned
  /\ OneUnsettled
  /\ Awaited
  /\ StartsAlone
  /\ ReachableWhileServing

LEMMA InitOrderly == Init => Orderly
<1> SUFFICES ASSUME Init PROVE Orderly
  OBVIOUS
<1>1. Owned
  BY InitOwned
<1>2. QED
  BY <1>1
  DEF Init, Idle, Orderly, OneUnsettled, Awaited, StartsAlone,
      ReachableWhileServing, Settled, Starting

(* A daemon that serves is found, and the other way round. *)
LEMMA AliveMeansServing ==
  ASSUME Owned, ReachableWhileServing
  PROVE  Alive <=> \E d \in Daemons : daemon[d] = "serving"
  BY DEF Owned, TypeOK, ListensWhileServing, ReachableWhileServing, Alive

(* While somebody waits to launch, or nobody waits, no daemon is coming up. *)
LEMMA NoneStarting ==
  ASSUME Orderly, NEW c \in Clients, ~Settled(c), client[c].pc # "await"
  PROVE  \A d \in Daemons : daemon[d] \notin Starting
  BY DEF Orderly, OneUnsettled, Awaited, Settled

LEMMA OnlyOneStarts ==
  ASSUME Orderly, NEW d \in Daemons, daemon[d] \in Starting,
         NEW e \in Daemons, daemon[e] \in Starting
  PROVE  d = e
  BY DEF Orderly, OneUnsettled, Awaited, Settled

LEMMA ServeOrderly ==
  ASSUME Orderly, NEW d \in Daemons, ServeStep(d) \/ AcceptFails(d) \/ Crash(d)
  PROVE  Orderly'
<1>1. Owned /\ Owned' /\ TypeOK
  BY ServeOwned DEF Orderly, Owned
<1>2. /\ UNCHANGED client
      /\ \A e \in Daemons \ {d} : daemon'[e] = daemon[e]
      /\ daemon'[d] \in Starting => daemon[d] \in Starting
      /\ daemon'[d] = "serving" => Bind(d) /\ daemon[d] \in Starting /\ socket' = d
  BY <1>1
  DEF ServeStep, AcceptFails, Crash, Check, Clear, ListenProxy, ListenSSH, WritePid, Bind,
      StopListening, Drained, RemoveSocket, RemovePid, CloseSSH, CloseProxy, Stage, Denied,
      Owned, TypeOK, Starting
<1>3. OneUnsettled' /\ Awaited'
  BY <1>2 DEF Orderly, OneUnsettled, Awaited, Settled
<1>4. StartsAlone'
  <2>1. daemon'[d] = "serving" => \A e \in Daemons : daemon'[e] \notin Starting
    <3>1. "serving" \notin Starting
      BY DEF Starting
    <3>2. QED
      BY <1>2, <3>1, OnlyOneStarts
  <2>2. QED
    BY <1>2, <2>1 DEF Orderly, StartsAlone
<1>5. ReachableWhileServing'
  <2> SUFFICES ASSUME NEW e \in Daemons \ {d}, daemon[e] = "serving"
               PROVE  socket' = e
    BY <1>2 DEF ReachableWhileServing
  <2>1. socket = e
    BY DEF Orderly, ReachableWhileServing
  <2>2. daemon[d] \notin Starting
    BY DEF Orderly, StartsAlone
  <2>3. daemon[d] \notin HasProxy
    BY <1>1 DEF Owned, PortIsHeld, HasProxy
  <2>4. QED
    BY <2>1, <2>2, <2>3
    DEF ServeStep, AcceptFails, Crash, Check, Clear, ListenProxy, ListenSSH, WritePid, Bind,
        StopListening, Drained, RemoveSocket, RemovePid, CloseSSH, CloseProxy, Stage, Denied,
        Starting, Stopping, HasProxy
<1>6. QED
  BY <1>1, <1>3, <1>4, <1>5 DEF Orderly

LEMMA CommandOrderly ==
  ASSUME TakeTurns, {"interrupt", "slow"} \cap Faults = {}, Orderly,
         NEW c \in Clients, Begin(c) \/ CommandStep(c) \/ Leave(c) \/ Interrupt(c)
  PROVE  Orderly'
<1>1. Owned /\ Owned' /\ TypeOK /\ ReachableWhileServing
  BY CommandOwned DEF Orderly, Owned
<1>2. UNCHANGED files /\ \A b \in Clients \ {c} : client'[b] = client[b]
  BY <1>1
  DEF CommandStep, Begin, Look, Launch, Await, AwaitTimesOut, FindAnswering, ReadPid, Signal,
      Quiet, QuietTimesOut, Leave, Interrupt, Move, MoveTo, Finish, TypeOK
<1>3. Alive' = Alive
  BY <1>2 DEF files, Alive
<1>4. OneUnsettled'
  <2>1. CASE Begin(c)
    BY <1>2, <2>1 DEF Begin, OneUnsettled, Settled
  <2>2. CASE Leave(c)
    BY <1>1, <1>2, <2>2 DEF Leave, Finish, Idle, Orderly, OneUnsettled, Settled, TypeOK
  <2>3. CASE ~Begin(c) /\ ~Leave(c)
    <3>1. ~Settled(c)
      BY <2>3
      DEF CommandStep, Look, Launch, Await, AwaitTimesOut, FindAnswering, ReadPid, Signal,
          Quiet, QuietTimesOut, Interrupt, Settled
    <3>2. QED
      BY <1>2, <3>1 DEF Orderly, OneUnsettled, Settled
  <2>4. QED
    BY <2>1, <2>2, <2>3
<1>5. CASE Launch(c) /\ ~Alive
  <2>1. PICK d \in Daemons : /\ daemon' = [daemon EXCEPT ![d] = "check"]
                             /\ MoveTo(c, "await", d)
    BY <1>5 DEF Launch
  <2>2. \A e \in Daemons : daemon[e] \notin Starting /\ daemon[e] # "serving"
    BY <1>1, <1>5, NoneStarting, AliveMeansServing DEF Launch, Settled
  <2>3. client'[c].pc = "await" /\ client'[c].pid = d
    BY <1>1, <2>1 DEF MoveTo, TypeOK, Command
  <2>4. Awaited' /\ StartsAlone' /\ ReachableWhileServing'
    BY <1>1, <2>1, <2>2, <2>3 DEF Awaited, StartsAlone, ReachableWhileServing, TypeOK
  <2>5. QED
    BY <1>1, <1>4, <2>4 DEF Orderly
<1>6. CASE ~Launch(c) \/ Alive
  <2>1. UNCHANGED daemon
    BY <1>6
    DEF CommandStep, Begin, Look, Launch, Await, AwaitTimesOut, FindAnswering, ReadPid, Signal,
        Quiet, QuietTimesOut, Leave, Interrupt
  <2>2. StartsAlone' /\ ReachableWhileServing'
    BY <1>2, <2>1 DEF Orderly, StartsAlone, ReachableWhileServing, files
  <2>3. Awaited'
    <3> SUFFICES ASSUME NEW d \in Daemons, daemon[d] \in Starting
                 PROVE  \E b \in Clients : client'[b].pc = "await" /\ client'[b].pid = d
      BY <2>1 DEF Awaited
    <3>1. PICK b \in Clients : client[b].pc = "await" /\ client[b].pid = d
      BY DEF Orderly, Awaited
    <3>2. CASE b # c
      BY <1>2, <3>1, <3>2
    <3>3. CASE b = c
      <4>1. ~Alive
        BY <1>1, AliveMeansServing DEF Orderly, StartsAlone
      <4>2. QED
        BY <3>1, <3>3, <4>1
        DEF CommandStep, Begin, Look, Launch, Await, AwaitTimesOut, FindAnswering, ReadPid,
            Signal, Quiet, QuietTimesOut, Leave, Interrupt
    <3>4. QED
      BY <3>2, <3>3
  <2>4. QED
    BY <1>1, <1>4, <2>2, <2>3 DEF Orderly
<1>7. QED
  BY <1>5, <1>6

LEMMA AlwaysOrderly ==
  ASSUME TakeTurns, {"interrupt", "slow"} \cap Faults = {}
  PROVE  Spec => []Orderly
<1>1. Orderly /\ [Next]_vars => Orderly'
  <2> SUFFICES ASSUME Orderly, [Next]_vars PROVE Orderly'
    OBVIOUS
  <2>1. CASE \E d \in Daemons : ServeStep(d) \/ AcceptFails(d) \/ Crash(d)
    BY <2>1, ServeOrderly
  <2>2. CASE \E c \in Clients : Begin(c) \/ CommandStep(c) \/ Leave(c) \/ Interrupt(c)
    BY <2>2, CommandOrderly
  <2>3. CASE UNCHANGED vars
    BY <2>3
    DEF vars, Orderly, Owned, TypeOK, PortIsHeld, ListensWhileServing, CleansUpItsOwn,
        OneUnsettled, Awaited, StartsAlone, ReachableWhileServing,
        Settled, Alive
  <2>4. QED
    BY <2>1, <2>2, <2>3 DEF Next
<1>2. QED
  BY InitOrderly, <1>1, PTL DEF Spec

(* While commands look for the daemon one at a time and their waits last   *)
(* until it is up or gone, a daemon that serves is at its socket's path: none that comes  *)
(* up later unlinks it (daemon.Serve, daemon.Start's two checks).          *)
THEOREM ServingIsReachable ==
  ASSUME TakeTurns, {"interrupt", "slow"} \cap Faults = {}
  PROVE  Spec => []ReachableWhileServing
<1>1. Orderly => ReachableWhileServing
  BY DEF Orderly
<1>2. QED
  BY AlwaysOrderly, <1>1, PTL
=============================================================================
