------------------------------- MODULE Daemon -------------------------------
(***************************************************************************)
(* The life of plbxd and how commands find it: internal/daemon and the     *)
(* `plbx daemon` commands.                                                 *)
(*                                                                         *)
(* Daemons and commands share four things on the host: the daemon's        *)
(* socket, the pidfile and ssh socket beside it, and the fixed TCP port of *)
(* the egress proxy.  The three files are unlinked by path, whoever made   *)
(* them; only the port is exclusive, since the kernel refuses a second     *)
(* listener.  Every daemon here serves the same socket and proxy address.  *)
(***************************************************************************)

CONSTANTS
  Daemons,    (* process ids                                               *)
  Clients,    (* plbx commands that can run at once                        *)
  Wants,      (* what a command may want, see Wishes                       *)
  Faults,     (* what may go wrong, see Fault                              *)
  TakeTurns,  (* TRUE: no two commands look for the daemon at a time       *)
  Nobody      (* no process                                                *)

(* "use" is any command that needs a daemon; the others are those of       *)
(* `plbx daemon`.                                                          *)
Wishes == {"use", "start", "stop", "restart"}

(* "crash":     a daemon is killed.                                        *)
(* "refused":   the daemon is denied a file or a listener it asks for.     *)
(* "interrupt": the user of a command does not wait for it.                *)
(* "slow":      a daemon takes longer than the ten seconds a command       *)
(*              waits for it.                                              *)
Fault == {"crash", "refused", "interrupt", "slow"}

ASSUME ConstantsAssumption ==
  /\ Wants \subseteq Wishes
  /\ Faults \subseteq Fault
  /\ TakeTurns \in BOOLEAN
  /\ Nobody \notin Daemons

VARIABLES
  socket,     (* the daemon whose listener made the file at the socket's path *)
  pidFile,    (* the daemon the pidfile names                                 *)
  sshSocket,  (* the daemon whose gateway made the ssh socket                 *)
  proxyPort,  (* the daemon listening on the proxy's port                     *)
  listening,  (* the daemons whose listener is open                           *)
  asked,      (* the daemons that have been sent SIGTERM                      *)
  daemon,     (* where each daemon is in Serve                                *)
  client      (* where each command is, and the daemon it deals with          *)

files == <<socket, pidFile, sshSocket, proxyPort, listening>>
vars  == <<socket, pidFile, sshSocket, proxyPort, listening, asked, daemon, client>>

-----------------------------------------------------------------------------
Starting == {"check", "clear", "proxy", "ssh", "pid", "bind"}
Stopping == {"draining", "rmSocket", "rmPid", "closeSSH", "closeProxy"}
Stages   == Starting \cup {"serving"} \cup Stopping \cup {"none"}

(* Serve has the proxy's port from listening on it to the last of its      *)
(* deferred calls.                                                         *)
HasProxy == {"ssh", "pid", "bind", "serving"} \cup Stopping

Outcomes == {"none", "ok", "alreadyRunning", "didNotStart", "noDaemon", "unknownPid",
             "didNotStop", "interrupted"}

Command ==
  [pc   : {"idle", "look", "launch", "await", "using", "find", "readPid", "signal", "quiet"},
   want : Wants \cup {"none"},
   pid  : Daemons \cup {Nobody},
   out  : Outcomes]

Idle(out) == [pc |-> "idle", want |-> "none", pid |-> Nobody, out |-> out]

TypeOK ==
  /\ {socket, pidFile, sshSocket, proxyPort} \subseteq Daemons \cup {Nobody}
  /\ listening \subseteq Daemons
  /\ asked \subseteq Daemons
  /\ daemon \in [Daemons -> Stages]
  /\ client \in [Clients -> Command]
  /\ \A c \in Clients :
       client[c].pc \in {"await", "using", "signal", "quiet"} => client[c].pid \in Daemons

Init ==
  /\ socket = Nobody /\ pidFile = Nobody /\ sshSocket = Nobody /\ proxyPort = Nobody
  /\ listening = {}
  /\ asked = {}
  /\ daemon = [d \in Daemons |-> "none"]
  /\ client = [c \in Clients |-> Idle("none")]

(* Somebody answers at the socket's path. *)
Alive == socket \in listening

-----------------------------------------------------------------------------
(* How daemons and commands move                                           *)

Stage(d, from, to) == daemon[d] = from /\ daemon' = [daemon EXCEPT ![d] = to]

(* A call of Serve that fails, and what its deferred calls have to undo. *)
Denied(d, from, to) == "refused" \in Faults /\ Stage(d, from, to)

Uses(c, d) == client[c].pc = "using" /\ client[c].pid = d

Move(c, pc)    == client' = [client EXCEPT ![c].pc = pc]
MoveTo(c, pc, d) == client' = [client EXCEPT ![c].pc = pc, ![c].pid = d]
Finish(c, out) == client' = [client EXCEPT ![c] = Idle(out)]
Want(c) == client[c].want

-----------------------------------------------------------------------------
(* Defective variants of some of the definitions below, each with one      *)
(* plausible mistake.  Nothing here uses them: they show that the          *)
(* properties at the end of the module would notice.                       *)

(* takes another port when the proxy's is taken *)
ListenProxyAnywhere(d) ==
  /\ Stage(d, "proxy", "ssh")
  /\ proxyPort' = d
  /\ UNCHANGED <<socket, pidFile, sshSocket, listening, asked, client>>

(* leaves a pidfile that is there *)
WritePidOnce(d) ==
  /\ Stage(d, "pid", "bind")
  /\ pidFile' = IF pidFile = Nobody THEN d ELSE pidFile
  /\ UNCHANGED <<socket, sshSocket, proxyPort, listening, asked, client>>

(* listens before it has written its pid *)
ListenSSHThenBind(d) ==
  /\ Stage(d, "ssh", "bind")
  /\ sshSocket' = d
  /\ UNCHANGED <<socket, pidFile, proxyPort, listening, asked, client>>

(* closes the proxy first *)
DrainedClosingProxy(d) ==
  /\ \A c \in Clients : ~Uses(c, d)
  /\ Stage(d, "draining", "rmSocket")
  /\ proxyPort' = Nobody
  /\ UNCHANGED <<socket, pidFile, sshSocket, listening, asked, client>>

(* waits for the process to be gone *)
QuietWhenGone(c) ==
  /\ client[c].pc = "quiet"
  /\ daemon[client[c].pid] = "none"
  /\ IF Want(c) = "stop" THEN Finish(c, "ok") ELSE MoveTo(c, "launch", Nobody)
  /\ UNCHANGED <<files, asked, daemon>>

-----------------------------------------------------------------------------
(* Serve                                                                   *)

(* A daemon already answering makes this one leave. *)
Check(d) ==
  /\ Stage(d, "check", IF Alive THEN "none" ELSE "clear")
  /\ UNCHANGED <<files, asked, client>>

(* os.Remove takes whatever is at the path; the store is opened after it. *)
Clear(d) ==
  /\ \/ Stage(d, "clear", "proxy") /\ socket' = Nobody
     \/ Denied(d, "clear", "none") /\ socket' \in {socket, Nobody}
  /\ UNCHANGED <<pidFile, sshSocket, proxyPort, listening, asked, client>>

ListenProxy(d) ==
  /\ IF proxyPort = Nobody
     THEN \/ Stage(d, "proxy", "ssh") /\ proxyPort' = d
          \/ Denied(d, "proxy", "none") /\ UNCHANGED proxyPort
     ELSE Stage(d, "proxy", "none") /\ UNCHANGED proxyPort
  /\ UNCHANGED <<socket, pidFile, sshSocket, listening, asked, client>>

(* sshd.listen clears the path and binds it. *)
ListenSSH(d) ==
  /\ \/ Stage(d, "ssh", "pid") /\ sshSocket' = d
     \/ Denied(d, "ssh", "closeProxy") /\ sshSocket' \in {sshSocket, Nobody}
  /\ UNCHANGED <<socket, pidFile, proxyPort, listening, asked, client>>

WritePid(d) ==
  /\ \/ Stage(d, "pid", "bind") /\ pidFile' = d
     \/ Denied(d, "pid", "closeSSH") /\ UNCHANGED pidFile
  /\ UNCHANGED <<socket, sshSocket, proxyPort, listening, asked, client>>

(* net.Listen will not bind over a file that is there. *)
Bind(d) ==
  /\ \/ /\ socket = Nobody
        /\ Stage(d, "bind", "serving")
        /\ socket' = d
        /\ listening' = listening \cup {d}
     \/ /\ IF socket # Nobody THEN Stage(d, "bind", "rmPid") ELSE Denied(d, "bind", "rmPid")
        /\ UNCHANGED <<socket, listening>>
  /\ UNCHANGED <<pidFile, sshSocket, proxyPort, asked, client>>

(* The listener fails, and is closed. *)
AcceptFails(d) ==
  /\ Denied(d, "serving", "rmSocket")
  /\ socket' = Nobody
  /\ listening' = listening \ {d}
  /\ UNCHANGED <<pidFile, sshSocket, proxyPort, asked, client>>

(* GracefulStop closes the listener, which unlinks its path, and only then *)
(* waits for the calls in flight.                                          *)
StopListening(d) ==
  /\ d \in asked
  /\ Stage(d, "serving", "draining")
  /\ socket' = Nobody
  /\ listening' = listening \ {d}
  /\ UNCHANGED <<pidFile, sshSocket, proxyPort, asked, client>>

Drained(d) ==
  /\ \A c \in Clients : ~Uses(c, d)
  /\ Stage(d, "draining", "rmSocket")
  /\ UNCHANGED <<files, asked, client>>

(* Serve's deferred calls, last first. *)
RemoveSocket(d) ==
  /\ Stage(d, "rmSocket", "rmPid")
  /\ socket' = Nobody
  /\ UNCHANGED <<pidFile, sshSocket, proxyPort, listening, asked, client>>

RemovePid(d) ==
  /\ Stage(d, "rmPid", "closeSSH")
  /\ pidFile' = Nobody
  /\ UNCHANGED <<socket, sshSocket, proxyPort, listening, asked, client>>

CloseSSH(d) ==
  /\ Stage(d, "closeSSH", "closeProxy")
  /\ sshSocket' = Nobody
  /\ UNCHANGED <<socket, pidFile, proxyPort, listening, asked, client>>

CloseProxy(d) ==
  /\ Stage(d, "closeProxy", "none")
  /\ proxyPort' = Nobody
  /\ UNCHANGED <<socket, pidFile, sshSocket, listening, asked, client>>

(* A killed daemon leaves its files; the kernel takes back its listeners.  *)
Crash(d) ==
  /\ "crash" \in Faults
  /\ daemon[d] # "none"
  /\ daemon' = [daemon EXCEPT ![d] = "none"]
  /\ listening' = listening \ {d}
  /\ proxyPort' = IF proxyPort = d THEN Nobody ELSE proxyPort
  /\ UNCHANGED <<socket, pidFile, sshSocket, asked, client>>

-----------------------------------------------------------------------------
(* Commands                                                                *)

Settled(c) == client[c].pc \in {"idle", "using"}

Begin(c) ==
  /\ client[c].pc = "idle"
  /\ TakeTurns => \A e \in Clients : Settled(e)
  /\ \E want \in Wants :
       client' = [client EXCEPT ![c] =
                    [pc   |-> IF want = "stop" THEN "find" ELSE "look",
                     want |-> want, pid |-> Nobody, out |-> "none"]]
  /\ UNCHANGED <<files, asked, daemon>>

(* The first check of Connect, and of `start` and `restart`. *)
Look(c) ==
  /\ client[c].pc = "look"
  /\ \/ ~Alive /\ Move(c, "launch")
     \/ Alive /\ Want(c) = "use"     /\ MoveTo(c, "using", socket)
     \/ Alive /\ Want(c) = "start"   /\ Finish(c, "ok")
     \/ Alive /\ Want(c) = "restart" /\ Move(c, "find")
  /\ UNCHANGED <<files, asked, daemon>>

(* A process id that names nothing any more.  The host has process ids     *)
(* enough that none is seen to come back; who left a dead socket file does *)
(* not matter to anybody.                                                  *)
Fresh(d) ==
  /\ daemon[d] = "none"
  /\ pidFile # d
  /\ \A c \in Clients : client[c].pid # d

(* Start checks again, and then launches plbxd. *)
Launch(c) ==
  /\ client[c].pc = "launch"
  /\ \/ Alive /\ Finish(c, "alreadyRunning") /\ UNCHANGED <<daemon, asked>>
     \/ /\ ~Alive
        /\ \E d \in Daemons :
             /\ Fresh(d)
             /\ daemon' = [daemon EXCEPT ![d] = "check"]
             /\ asked' = asked \ {d}
             /\ MoveTo(c, "await", d)
  /\ UNCHANGED files

(* waitForSocket takes any daemon's answer for the one it launched. *)
Await(c) ==
  /\ client[c].pc = "await"
  /\ Alive
  /\ IF Want(c) = "use" THEN MoveTo(c, "using", socket) ELSE Finish(c, "ok")
  /\ UNCHANGED <<files, asked, daemon>>

(* Ten seconds are enough for a daemon to come up or to give up, unless it *)
(* is slow.                                                                *)
AwaitTimesOut(c) ==
  /\ client[c].pc = "await"
  /\ ~Alive
  /\ daemon[client[c].pid] \notin Starting \/ "slow" \in Faults
  /\ Finish(c, "didNotStart")
  /\ UNCHANGED <<files, asked, daemon>>

(* The command, or the session it held open, is over. *)
Leave(c) ==
  /\ client[c].pc = "using"
  /\ Finish(c, "ok")
  /\ UNCHANGED <<files, asked, daemon>>

(* Running, as Stop asks it: a socket that answers, and then the pid       *)
(* written beside it.                                                      *)
FindAnswering(c) ==
  /\ client[c].pc = "find"
  /\ IF Alive THEN Move(c, "readPid") ELSE Finish(c, "noDaemon")
  /\ UNCHANGED <<files, asked, daemon>>

ReadPid(c) ==
  /\ client[c].pc = "readPid"
  /\ IF pidFile = Nobody THEN Finish(c, "unknownPid") ELSE MoveTo(c, "signal", pidFile)
  /\ UNCHANGED <<files, asked, daemon>>

(* A pid nobody has any more is an error. *)
Signal(c) ==
  LET d == client[c].pid IN
  /\ client[c].pc = "signal"
  /\ IF daemon[d] # "none"
     THEN asked' = asked \cup {d} /\ Move(c, "quiet")
     ELSE Finish(c, "noDaemon") /\ UNCHANGED asked
  /\ UNCHANGED <<files, daemon>>

(* Stop waits for the socket to go quiet, not for the process to be gone.  *)
Quiet(c) ==
  /\ client[c].pc = "quiet"
  /\ ~Alive
  /\ IF Want(c) = "stop" THEN Finish(c, "ok") ELSE MoveTo(c, "launch", Nobody)
  /\ UNCHANGED <<files, asked, daemon>>

(* Ten seconds are enough to close a listener, unless the daemon is slow   *)
(* or another has answered in its place ever since.                        *)
QuietTimesOut(c) ==
  /\ client[c].pc = "quiet"
  /\ Alive
  /\ client[c].pid \notin listening \/ "slow" \in Faults
  /\ Finish(c, "didNotStop")
  /\ UNCHANGED <<files, asked, daemon>>

(* Both waits end when the user presses Ctrl-C. *)
Interrupt(c) ==
  /\ "interrupt" \in Faults
  /\ client[c].pc \in {"await", "quiet"}
  /\ Finish(c, "interrupted")
  /\ UNCHANGED <<files, asked, daemon>>

-----------------------------------------------------------------------------
ServeStep(d) ==
  \/ Check(d) \/ Clear(d) \/ ListenProxy(d) \/ ListenSSH(d) \/ WritePid(d) \/ Bind(d)
  \/ StopListening(d) \/ Drained(d)
  \/ RemoveSocket(d) \/ RemovePid(d) \/ CloseSSH(d) \/ CloseProxy(d)

(* Everything a command does of its own accord: it begins, and stays, for  *)
(* as long as its user likes.                                              *)
CommandStep(c) ==
  \/ Look(c) \/ Launch(c) \/ Await(c) \/ AwaitTimesOut(c)
  \/ FindAnswering(c) \/ ReadPid(c) \/ Signal(c) \/ Quiet(c) \/ QuietTimesOut(c)

Next ==
  \/ \E d \in Daemons : ServeStep(d) \/ AcceptFails(d) \/ Crash(d)
  \/ \E c \in Clients : Begin(c) \/ CommandStep(c) \/ Leave(c) \/ Interrupt(c)

Spec == Init /\ [][Next]_vars

(* Processes run.  Users need not come back, and need not leave.           *)
Fairness ==
  /\ \A d \in Daemons : WF_vars(ServeStep(d))
  /\ \A c \in Clients : WF_vars(CommandStep(c))

FairSpec == Spec /\ Fairness

-----------------------------------------------------------------------------
(* Properties                                                              *)

(* However many daemons are started at once, one at most gets past its     *)
(* proxy: nothing but the port keeps two from serving (daemon.Serve,       *)
(* serveProxy).                                                            *)
OneDaemonServes ==
  \A d, e \in Daemons : daemon[d] \in HasProxy /\ daemon[e] \in HasProxy => d = e

(* What a daemon unlinks by path on its way out is its own, or was taken   *)
(* already: the port goes last, so no successor has written anything by    *)
(* then (the order of Serve's deferred calls).                             *)
CleansUpItsOwn ==
  \A d \in Daemons :
    /\ daemon[d] \in {"serving", "draining", "rmSocket"} => socket \in {d, Nobody}
    /\ daemon[d] \in {"bind", "serving", "draining", "rmSocket", "rmPid"} => pidFile = d
    /\ daemon[d] \in {"pid", "bind", "serving"} \cup (Stopping \ {"closeProxy"}) =>
         sshSocket = d

(* Whoever finds the socket answering finds the pid of the daemon that     *)
(* answers beside it (daemon.Serve, daemon.Running).                       *)
PidNamesAnswering == Alive => pidFile = socket

(* A daemon that is serving is at its socket's path (daemon.Serve).        *)
ReachableWhileServing == \A d \in Daemons : daemon[d] = "serving" => socket = d

(* A restart gets a new daemon also while a session holds on to the old one *)
(* (`plbx daemon restart`: "Stop the daemon and start a new one"; Serve's   *)
(* GracefulStop, which waits for the session, comes before the proxy's port *)
(* is free).                                                                *)
SessionDrains == \E e \in Clients, d \in Daemons : Uses(e, d) /\ daemon[d] = "draining"

RestartSucceeds ==
  [][\A c \in Clients :
       Want(c) = "restart" /\ SessionDrains => client'[c].out # "didNotStart"]_vars

(* The two waits of a command, for a daemon to answer and for one to go    *)
(* quiet, come to an end, even if somebody stays in a session for ever and *)
(* daemons come and go: a stop waits for the socket and never for the      *)
(* process (daemon.waitForSocket, daemon.Stop and Serve's GracefulStop).   *)
WaitsEnd ==
  \A c \in Clients : \A wait \in {"await", "quiet"} :
    client[c].pc = wait ~> client[c].pc # wait
=============================================================================
