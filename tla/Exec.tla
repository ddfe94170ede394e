-------------------------------- MODULE Exec --------------------------------
(***************************************************************************)
(* One session: a command that runs in a sandbox, a user in front of it in *)
(* another process, and the stream of frames between the two               *)
(* (internal/api/rpc/exec.go, internal/runner/executor.go,                 *)
(* cmd/plbx/streams.go).                                                   *)
(*                                                                         *)
(* The client sends what is typed and how large the terminal is, as frames *)
(* of one stream; the daemon's handler runs the command while a loop       *)
(* beside it (serveFrames) reads the frames and hands them on: input       *)
(* through a pipe without room for anything, sizes through a channel with  *)
(* room for one.  A copier carries input from the pipe to the command, and *)
(* others its output back.                                                 *)
(***************************************************************************)
EXTENDS Naturals, Sequences

CONSTANTS
  Codes,      (* the exit codes a command can end with                      *)
  Success,    (* the one that Go's zero value stands for                    *)
  NoCode,     (* no exit code yet                                           *)
  Failed,     (* an error in place of an exit code                          *)
  Faults,     (* what can go wrong, see Fault                               *)
  MaxTyped,   (* bound: pieces of input                                     *)
  MaxSizes,   (* bound: sizes the terminal has had                          *)
  MaxPrinted, (* bound: pieces written to each output                       *)
  Window,     (* bound: frames sent and not yet received                    *)
  InputRoom   (* what the command's input holds unread                      *)

(* "refused": the command cannot be run at all; "client": the client goes  *)
(* away; "daemon": the daemon dies.                                        *)
Fault == {"refused", "client", "daemon"}

Outputs == {"stdout", "stderr"}

ASSUME ExecAssumption ==
  /\ Success \in Codes
  /\ NoCode \notin Codes /\ Failed \notin Codes \cup {NoCode}
  /\ Faults \subseteq Fault
  /\ MaxTyped \in Nat /\ MaxSizes \in Nat \ {0} /\ MaxPrinted \in Nat
  /\ Window \in Nat \ {0} /\ InputRoom \in Nat \ {0}

VARIABLES
  tty,        (* whether the session is a terminal's                        *)
  typed,      (* how many pieces of input there have been                   *)
  finished,   (* whether input has ended                                    *)
  dims,       (* the size the terminal has now: sizes are numbered          *)
  winch,      (* a signal says that the size has changed                    *)
  pumped,     (* the size that hostStreams is passing on, 0 for none        *)
  sizes,      (* Streams.Resize of the client: room for one                 *)
  client,     (* where the client is                                        *)
  sent,       (* how much of the input it has sent                          *)
  said,       (* whether it has said that input has ended                   *)
  answer,     (* what Client.Exec returned                                  *)
  up,         (* frames on their way to the daemon                          *)
  handler,    (* where Server.Exec is                                       *)
  loop,       (* where serveFrames is                                       *)
  held,       (* the piece of input or the size it holds, 0 for none        *)
  closed,     (* whether it has closed the pipe                             *)
  ssizes,     (* the daemon's channel of sizes: room for one                *)
  copier,     (* where the copying of input is                              *)
  chunk,      (* the piece it holds, 0 for none                             *)
  command,    (* whether the command has run                                *)
  exit,       (* its exit code                                              *)
  size,       (* the size of the terminal it is given, 0 for none           *)
  fed,        (* its input, unread                                          *)
  reads,      (* whether it still has its input open                        *)
  hungUp,     (* whether its input has ended                                *)
  eaten,      (* the pieces it has read                                     *)
  sawEnd,     (* whether it has read the end                                *)
  printed,    (* how many pieces it has written to each output              *)
  obuf,       (* those not yet copied                                       *)
  down,       (* frames on their way to the client                          *)
  shown       (* what the client has written to its own outputs             *)

userVars    == <<typed, finished, dims, winch>>
clientVars  == <<pumped, sizes, client, sent, said, answer, shown>>
serverVars  == <<handler, loop, held, closed, ssizes>>
inputVars   == <<copier, chunk>>
commandVars == <<command, exit, size, fed, reads, hungUp, eaten, sawEnd, printed, obuf>>
vars == <<tty, userVars, clientVars, up, serverVars, inputVars, commandVars, down>>

-----------------------------------------------------------------------------
(* Frames.  "status" is what gRPC sends when a handler returns.            *)
Frame(kind, what) == [kind |-> kind, what |-> what]

UpFrames ==
  {Frame("start", s) : s \in 0 .. MaxSizes} \cup {Frame("resize", s) : s \in 1 .. MaxSizes}
    \cup {Frame("stdin", p) : p \in 1 .. MaxTyped} \cup {Frame("close", 0)}

DownFrames ==
  {Frame(o, p) : o \in Outputs, p \in 1 .. MaxPrinted}
    \cup {Frame("exit", c) : c \in Codes}
    \cup {Frame("status", s) : s \in {Success, Failed}}

TypeOK ==
  /\ tty \in BOOLEAN /\ finished \in BOOLEAN /\ winch \in BOOLEAN
  /\ typed \in 0 .. MaxTyped /\ sent \in 0 .. typed
  /\ dims \in 1 .. MaxSizes /\ pumped \in 0 .. MaxSizes
  /\ sizes \in Seq(1 .. MaxSizes) /\ Len(sizes) <= 1
  /\ ssizes \in Seq(1 .. MaxSizes) /\ Len(ssizes) <= 1
  /\ client \in {"opening", "open", "done"} /\ said \in BOOLEAN
  /\ answer \in Codes \cup {NoCode, Failed}
  /\ up \in Seq(UpFrames) /\ Len(up) <= Window
  /\ handler \in {"waiting", "calling", "running", "returned", "dead"}
  /\ loop \in {"none", "recv", "write", "resize", "ended"}
  /\ held \in Nat
  /\ loop = "write" => held \in 1 .. MaxTyped
  /\ loop = "resize" => held \in 1 .. MaxSizes
  /\ closed \in BOOLEAN
  /\ copier \in {"none", "reading", "writing", "ended"}
  /\ chunk \in Nat /\ (copier = "writing" => chunk \in 1 .. MaxTyped)
  /\ command \in {"unborn", "running", "ended"}
  /\ exit \in Codes \cup {NoCode} /\ size \in 0 .. MaxSizes
  /\ fed \in Seq(1 .. MaxTyped) /\ Len(fed) <= InputRoom
  /\ eaten \in Seq(1 .. MaxTyped)
  /\ reads \in BOOLEAN /\ hungUp \in BOOLEAN /\ sawEnd \in BOOLEAN
  /\ printed \in [Outputs -> 0 .. MaxPrinted]
  /\ obuf \in [Outputs -> Seq(1 .. MaxPrinted)]
  /\ shown \in [Outputs -> Seq(1 .. MaxPrinted)]
  /\ down \in Seq(DownFrames)

Init ==
  /\ tty \in BOOLEAN
  /\ typed = 0 /\ finished = FALSE /\ dims = 1 /\ winch = FALSE
  /\ pumped = 0 /\ client = "opening" /\ sent = 0 /\ said = FALSE
  /\ answer = NoCode
  /\ sizes = IF tty THEN <<dims>> ELSE <<>>
  /\ up = <<>> /\ down = <<>>
  /\ handler = "waiting" /\ loop = "none" /\ held = 0 /\ closed = FALSE /\ ssizes = <<>>
  /\ copier = "none" /\ chunk = 0
  /\ command = "unborn" /\ exit = NoCode /\ size = 0
  /\ fed = <<>> /\ reads = TRUE /\ hungUp = FALSE /\ eaten = <<>> /\ sawEnd = FALSE
  /\ printed = [o \in Outputs |-> 0]
  /\ obuf = [o \in Outputs |-> <<>>] /\ shown = [o \in Outputs |-> <<>>]

-----------------------------------------------------------------------------
(* The user and the terminal                                               *)

Type ==
  /\ ~finished /\ typed < MaxTyped
  /\ typed' = typed + 1
  /\ UNCHANGED <<tty, finished, dims, winch, clientVars, up, serverVars, inputVars, commandVars, down>>

EndInput ==
  /\ ~finished
  /\ finished' = TRUE
  /\ UNCHANGED <<tty, typed, dims, winch, clientVars, up, serverVars, inputVars, commandVars, down>>

Resize ==
  /\ tty /\ dims < MaxSizes
  /\ dims' = dims + 1 /\ winch' = TRUE
  /\ UNCHANGED <<tty, typed, finished, clientVars, up, serverVars, inputVars, commandVars, down>>

(* hostStreams, on a signal: whatever the size is by now is passed on.     *)
Pump ==
  /\ winch /\ pumped = 0
  /\ winch' = FALSE /\ pumped' = dims
  /\ UNCHANGED <<tty, typed, finished, dims, sizes, client, sent, said, answer, shown, up,
                 serverVars, inputVars, commandVars, down>>

PumpOut ==
  /\ pumped # 0 /\ sizes = <<>>
  /\ sizes' = <<pumped>> /\ pumped' = 0
  /\ UNCHANGED <<tty, userVars, client, sent, said, answer, shown, up,
                 serverVars, inputVars, commandVars, down>>

-----------------------------------------------------------------------------
(* The client.  Its two senders share the stream: neither gets on while    *)
(* the window is full.                                                     *)

Send(frame) == Len(up) < Window /\ up' = Append(up, frame)

First(channel) == IF channel = <<>> THEN 0 ELSE Head(channel)

Drained(channel) == IF channel = <<>> THEN channel ELSE Tail(channel)

(* The size that is known by now goes with the first frame. *)
Open ==
  /\ client = "opening"
  /\ Send(Frame("start", First(sizes)))
  /\ sizes' = Drained(sizes)
  /\ client' = "open"
  /\ UNCHANGED <<tty, userVars, pumped, sent, said, answer, shown, serverVars, inputVars,
                 commandVars, down>>

RelayStdin ==
  /\ client = "open" /\ sent < typed
  /\ Send(Frame("stdin", sent + 1))
  /\ sent' = sent + 1
  /\ UNCHANGED <<tty, userVars, pumped, sizes, client, said, answer, shown, serverVars, inputVars,
                 commandVars, down>>

(* Input has been read to its end. *)
RelayEnd ==
  /\ client = "open" /\ ~said
  /\ finished /\ sent = typed
  /\ Send(Frame("close", 0))
  /\ said' = TRUE
  /\ UNCHANGED <<tty, userVars, pumped, sizes, client, sent, answer, shown, serverVars, inputVars,
                 commandVars, down>>

RelayResize ==
  /\ client = "open" /\ sizes # <<>>
  /\ Send(Frame("resize", Head(sizes)))
  /\ sizes' = Tail(sizes)
  /\ UNCHANGED <<tty, userVars, pumped, client, sent, said, answer, shown, serverVars, inputVars,
                 commandVars, down>>

(* Client.Exec returns, and that cancels the stream: nobody reads what is  *)
(* still on its way.                                                       *)
Return(what) ==
  /\ client = "open"
  /\ client' = "done" /\ answer' = what /\ down' = <<>>

(* A stream that ends in good order without an exit code counts as Success. *)
Receive ==
  /\ client = "open" /\ down # <<>>
  /\ LET frame == Head(down) IN
       CASE frame.kind \in Outputs ->
              /\ shown' = [shown EXCEPT ![frame.kind] = Append(@, frame.what)]
              /\ down' = Tail(down)
              /\ UNCHANGED <<client, answer>>
         [] frame.kind \in {"exit", "status"} ->
              Return(frame.what) /\ UNCHANGED shown
  /\ UNCHANGED <<tty, userVars, pumped, sizes, sent, said, up, serverVars, inputVars, commandVars>>

(* The stream breaks with the daemon. *)
Lost ==
  /\ handler = "dead"
  /\ Return(Failed)
  /\ UNCHANGED <<tty, userVars, pumped, sizes, sent, said, shown, up, serverVars, inputVars,
                 commandVars>>

(* The client is killed, or cannot write what it was sent. *)
ClientGone ==
  /\ "client" \in Faults
  /\ Return(Failed)
  /\ UNCHANGED <<tty, userVars, pumped, sizes, sent, said, shown, up, serverVars, inputVars,
                 commandVars>>

-----------------------------------------------------------------------------
(* The daemon: Server.Exec                                                 *)

Alive == handler # "dead"

(* What ends the stream's context. *)
Cancelled == client = "done" \/ handler = "returned"

(* The first frame is read; the size that came with it goes into the       *)
(* channel, and the loop starts.                                           *)
Accept ==
  /\ handler = "waiting" /\ up # <<>>
  /\ up' = Tail(up)
  /\ ssizes' = IF Head(up).what = 0 THEN <<>> ELSE <<Head(up).what>>
  /\ handler' = "calling" /\ loop' = "recv"
  /\ UNCHANGED <<tty, userVars, clientVars, held, closed, inputVars, commandVars, down>>

(* What is sent to a client that has gone reaches nobody. *)
Reply(frames) == down' = IF client = "done" THEN down ELSE down \o frames

(* As Refuse, with nothing made of the error. *)
RefuseQuietly ==
  /\ handler = "calling"
  /\ "refused" \in Faults \/ client = "done"
  /\ handler' = "returned"
  /\ Reply(<<Frame("status", Success)>>)
  /\ UNCHANGED <<tty, userVars, clientVars, up, loop, held, closed, ssizes, inputVars, commandVars>>

(* The handler returns an error: there is no such sandbox, the command     *)
(* cannot be started, or nobody waits for it any more.                     *)
Refuse ==
  /\ handler = "calling"
  /\ "refused" \in Faults \/ client = "done"
  /\ handler' = "returned"
  /\ Reply(<<Frame("status", Failed)>>)
  /\ UNCHANGED <<tty, userVars, clientVars, up, loop, held, closed, ssizes, inputVars, commandVars>>

(* As Begin, with the size left for later. *)
BeginUnsized ==
  /\ handler = "calling" /\ client # "done"
  /\ handler' = "running" /\ command' = "running" /\ copier' = "reading"
  /\ UNCHANGED <<tty, userVars, clientVars, up, loop, held, closed, ssizes, chunk, size, exit, fed,
                 reads, hungUp, eaten, sawEnd, printed, obuf, down>>

(* ptySession and pipedStdinSession: a terminal is given the size that is  *)
(* known by now before the command is started in it.                       *)
Begin ==
  /\ handler = "calling" /\ client # "done"
  /\ handler' = "running" /\ command' = "running" /\ copier' = "reading"
  /\ size' = IF tty THEN First(ssizes) ELSE 0
  /\ ssizes' = IF tty THEN Drained(ssizes) ELSE ssizes
  /\ UNCHANGED <<tty, userVars, clientVars, up, loop, held, closed, chunk, exit, fed, reads, hungUp,
                 eaten, sawEnd, printed, obuf, down>>

Empty == \A o \in Outputs : obuf[o] = <<>>

(* As Finish, with the command's end waited for alone. *)
FinishAtOnce ==
  /\ handler = "running" /\ command = "ended"
  /\ handler' = "returned"
  /\ Reply(<<Frame("exit", exit), Frame("status", Success)>>)
  /\ UNCHANGED <<tty, userVars, clientVars, up, loop, held, closed, ssizes, inputVars, commandVars>>

(* As Finish, with os/exec doing the copying of input, and waiting for it. *)
FinishAfterInput ==
  /\ handler = "running" /\ command = "ended" /\ Empty /\ copier = "ended"
  /\ handler' = "returned"
  /\ Reply(<<Frame("exit", exit), Frame("status", Success)>>)
  /\ UNCHANGED <<tty, userVars, clientVars, up, loop, held, closed, ssizes, inputVars, commandVars>>

(* The command has ended and all of its output is copied: its code is      *)
(* sent, and the stream ends.                                              *)
Finish ==
  /\ handler = "running" /\ command = "ended" /\ Empty
  /\ handler' = "returned"
  /\ Reply(<<Frame("exit", exit), Frame("status", Success)>>)
  /\ UNCHANGED <<tty, userVars, clientVars, up, loop, held, closed, ssizes, inputVars, commandVars>>

(* The command is killed when its context ends. *)
Kill ==
  /\ Alive /\ client = "done" /\ command = "running"
  /\ command' = "ended" /\ obuf' = [o \in Outputs |-> <<>>]
  /\ UNCHANGED <<tty, userVars, clientVars, up, serverVars, inputVars, exit, size, fed, reads,
                 hungUp, eaten, sawEnd, printed, down>>

DaemonDies ==
  /\ "daemon" \in Faults
  /\ Alive
  /\ handler' = "dead"
  /\ UNCHANGED <<tty, userVars, clientVars, up, loop, held, closed, ssizes, inputVars, commandVars,
                 down>>

-----------------------------------------------------------------------------
(* The daemon: serveFrames                                                 *)

(* The loop is left: the pipe and the channel are closed. *)
Leave == loop' = "ended" /\ held' = 0 /\ closed' = TRUE

(* As LoopResize, with a size dropped when there is no room for it. *)
LoopResizeOrDrop ==
  /\ Alive /\ loop = "resize"
  /\ ssizes' = IF ssizes = <<>> THEN <<held>> ELSE ssizes
  /\ loop' = "recv" /\ held' = 0
  /\ UNCHANGED <<tty, userVars, clientVars, up, handler, closed, inputVars, commandVars, down>>

LoopRecv ==
  /\ Alive /\ loop = "recv" /\ up # <<>>
  /\ up' = Tail(up)
  /\ LET frame == Head(up) IN
       CASE frame.kind = "stdin" /\ closed -> Leave
         [] frame.kind = "stdin" /\ ~closed ->
              loop' = "write" /\ held' = frame.what /\ UNCHANGED closed
         [] frame.kind = "resize" ->
              loop' = "resize" /\ held' = frame.what /\ UNCHANGED closed
         [] frame.kind = "close" -> closed' = TRUE /\ UNCHANGED <<loop, held>>
  /\ UNCHANGED <<tty, userVars, clientVars, handler, ssizes, inputVars, commandVars, down>>

LoopResize ==
  /\ Alive /\ loop = "resize" /\ ssizes = <<>>
  /\ ssizes' = <<held>>
  /\ loop' = "recv" /\ held' = 0
  /\ UNCHANGED <<tty, userVars, clientVars, up, handler, closed, inputVars, commandVars, down>>

(* Reading a frame, or waiting for room, ends with the stream.  Waiting    *)
(* for input to be taken does not.                                         *)
LoopEnds ==
  /\ Alive /\ loop \in {"recv", "resize"} /\ Cancelled
  /\ Leave
  /\ UNCHANGED <<tty, userVars, clientVars, up, handler, ssizes, inputVars, commandVars, down>>

-----------------------------------------------------------------------------
(* The daemon: the copying of input and of sizes, while there is anything  *)
(* to copy, and of output                                                  *)

CopierRead ==
  /\ Alive /\ copier = "reading" /\ loop = "write"
  /\ chunk' = held /\ copier' = "writing"
  /\ loop' = "recv" /\ held' = 0
  /\ UNCHANGED <<tty, userVars, clientVars, up, handler, closed, ssizes, commandVars, down>>

(* As CopierEnds, with the command's end of the pipe left open. *)
CopierEndsQuietly ==
  /\ Alive /\ copier = "reading" /\ closed
  /\ copier' = "ended"
  /\ UNCHANGED <<tty, userVars, clientVars, up, serverVars, chunk, commandVars, down>>

(* The end of input: a command without a terminal is told. *)
CopierEnds ==
  /\ Alive /\ copier = "reading" /\ closed
  /\ copier' = "ended"
  /\ hungUp' = ~tty
  /\ UNCHANGED <<tty, userVars, clientVars, up, serverVars, chunk, command, exit, size, fed, reads,
                 eaten, sawEnd, printed, obuf, down>>

CopierWrite ==
  /\ Alive /\ copier = "writing"
  /\ command = "running" /\ reads /\ Len(fed) < InputRoom
  /\ fed' = Append(fed, chunk)
  /\ copier' = "reading" /\ chunk' = 0
  /\ UNCHANGED <<tty, userVars, clientVars, up, serverVars, command, exit, size, reads, hungUp,
                 eaten, sawEnd, printed, obuf, down>>

(* Nobody reads what is written: copying ends, and the pipe from the loop  *)
(* is left as it is.                                                       *)
CopierFails ==
  /\ Alive /\ copier = "writing"
  /\ command = "ended" \/ ~reads
  /\ copier' = "ended" /\ chunk' = 0
  /\ UNCHANGED <<tty, userVars, clientVars, up, serverVars, commandVars, down>>

Sized ==
  /\ Alive /\ tty /\ command # "unborn" /\ ssizes # <<>>
  /\ ssizes' = Tail(ssizes)
  /\ size' = IF handler = "running" THEN Head(ssizes) ELSE size
  /\ UNCHANGED <<tty, userVars, clientVars, up, handler, loop, held, closed, inputVars, command,
                 exit, fed, reads, hungUp, eaten, sawEnd, printed, obuf, down>>

OutCopy(o) ==
  /\ Alive /\ obuf[o] # <<>>
  /\ obuf' = [obuf EXCEPT ![o] = Tail(@)]
  /\ Reply(<<Frame(o, Head(obuf[o]))>>)
  /\ UNCHANGED <<tty, userVars, clientVars, up, serverVars, inputVars, command, exit, size, fed,
                 reads, hungUp, eaten, sawEnd, printed>>

-----------------------------------------------------------------------------
(* The command, and the runtime's own process around it                    *)

Runs == Alive /\ command = "running"

CmdReads ==
  /\ Runs /\ reads
  /\ \/ /\ fed # <<>>
        /\ eaten' = Append(eaten, Head(fed)) /\ fed' = Tail(fed)
        /\ UNCHANGED sawEnd
     \/ /\ fed = <<>> /\ hungUp /\ ~sawEnd
        /\ sawEnd' = TRUE
        /\ UNCHANGED <<eaten, fed>>
  /\ UNCHANGED <<tty, userVars, clientVars, up, serverVars, inputVars, command, exit, size, reads,
                 hungUp, printed, obuf, down>>

CmdStopsReading ==
  /\ Runs /\ ~tty /\ reads
  /\ reads' = FALSE /\ fed' = <<>>
  /\ UNCHANGED <<tty, userVars, clientVars, up, serverVars, inputVars, command, exit, size, hungUp,
                 eaten, sawEnd, printed, obuf, down>>

(* A terminal has one output. *)
CmdPrints(o) ==
  /\ Runs /\ printed[o] < MaxPrinted
  /\ tty => o = "stdout"
  /\ printed' = [printed EXCEPT ![o] = @ + 1]
  /\ obuf' = [obuf EXCEPT ![o] = Append(@, printed[o] + 1)]
  /\ UNCHANGED <<tty, userVars, clientVars, up, serverVars, inputVars, command, exit, size, fed,
                 reads, hungUp, eaten, sawEnd, down>>

CmdExits ==
  /\ Runs
  /\ command' = "ended" /\ exit' \in Codes
  /\ fed' = <<>>
  /\ UNCHANGED <<tty, userVars, clientVars, up, serverVars, inputVars, size, reads, hungUp, eaten,
                 sawEnd, printed, obuf, down>>

-----------------------------------------------------------------------------
(* The user and the command do as they like; the rest is carried out. *)
Environment ==
  \/ Type \/ EndInput \/ Resize \/ ClientGone \/ DaemonDies
  \/ CmdReads \/ CmdStopsReading \/ CmdExits
  \/ \E o \in Outputs : CmdPrints(o)

Sending == Pump \/ PumpOut \/ Open \/ RelayStdin \/ RelayEnd \/ RelayResize

Handling == Accept \/ Refuse \/ Begin \/ Finish \/ Kill

Looping == LoopRecv \/ LoopResize \/ LoopEnds

Copying == CopierRead \/ CopierEnds \/ CopierWrite \/ CopierFails

Next ==
  \/ Environment
  \/ Sending \/ Receive \/ Lost
  \/ Handling \/ Looping \/ Copying \/ Sized
  \/ \E o \in Outputs : OutCopy(o)

Spec == Init /\ [][Next]_vars

(* Each goroutine gets on when it can.  A command that is left running     *)
(* reads its input in the end: one that never does stops the loop that     *)
(* sizes go through as well.                                               *)
FairSpec ==
  /\ Spec
  /\ WF_vars(Pump) /\ WF_vars(PumpOut) /\ WF_vars(Open)
  /\ SF_vars(RelayStdin) /\ SF_vars(RelayEnd) /\ SF_vars(RelayResize)
  /\ WF_vars(Receive) /\ WF_vars(Lost)
  /\ WF_vars(Handling) /\ WF_vars(Looping) /\ WF_vars(Copying) /\ WF_vars(Sized)
  /\ \A o \in Outputs : WF_vars(OutCopy(o))
  /\ WF_vars(CmdReads)

-----------------------------------------------------------------------------
(* A session keeps its promise (Session): the command reads what was typed *)
(* in order, its output is shown in order and to the end, and the caller   *)
(* is told the command's own exit code after all of it, or an error.       *)
(* exec.go:68-71 takes a stream that ends without an exit frame for exit   *)
(* code 0, executor.go:77-86 has the hang that comes of waiting for input, *)
(* and 133-136 the output lost by not draining.                            *)
Promise == INSTANCE Session

KeepsPromise == Promise!Spec

(* A full-screen program lays itself out once, as it starts: executor.go   *)
(* (115-117) gives the terminal its size before the command exists.        *)
OpensSized == tty /\ command # "unborn" => size # 0

(* Whatever happens to a size on its way, the terminal ends up with the    *)
(* size of the user's own, for as long as the session lasts                *)
(* (rpc/exec.go:118 "relayResize forwards terminal dimensions for as long  *)
(* as the session lasts").                                                 *)
Over == client = "done" \/ command = "ended" \/ ~Alive

LastSizeArrives == (tty /\ size # dims) ~> (size = dims \/ Over)

(* A command that reads to the end of its input gets there                 *)
(* (rpc/exec.go:90-92 "a command reading to EOF has to learn that input is *)
(* finished while its own output is still on the way back").               *)
InputEnds == (finished /\ ~tty) ~> (sawEnd \/ ~reads \/ Over)
=============================================================================
