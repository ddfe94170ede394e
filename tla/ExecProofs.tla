----------------------------- MODULE ExecProofs -----------------------------
(***************************************************************************)
(* Proofs about Exec: that its state has its types, that a terminal has    *)
(* its size before the command in it exists, and that a session keeps what *)
(* Session promises for as long as it lasts.                               *)
(*                                                                         *)
(* What the second rests on is that the size is never between two places:  *)
(* it is in the client's channel, then in the first frame, then in the     *)
(* daemon's channel, and then the terminal's.  Sizing says so.             *)
(*                                                                         *)
(* What the third rests on is that no piece is ever between two places, or *)
(* in two: of the input, while the command still reads (InOrder), and of   *)
(* each output (Flow), what has arrived, what each buffer on the way holds *)
(* and what is left are consecutive.  Flow also says that an exit code on  *)
(* its way is the command's own and has no output behind it.               *)
(***************************************************************************)
EXTENDS Exec, SequenceTheorems, TLAPS

(* The session's first frame is on its way until the handler has it, and   *)
(* nothing else of its kind ever is; a terminal's carries a size, which is *)
(* kept until the command has it.                                          *)
Sizing ==
  /\ client = "opening" =>
       /\ handler \in {"waiting", "dead"} /\ up = <<>>
       /\ tty => sizes # <<>>
  /\ handler = "waiting" =>
       /\ loop = "none"
       /\ client # "opening" =>
            up # <<>> /\ up[1].kind = "start" /\ (tty => up[1].what # 0)
  /\ \A i \in 1 .. Len(up) :
       up[i].kind = "start" => i = 1 /\ handler \in {"waiting", "dead"}
  /\ handler \in {"waiting", "calling"} => command = "unborn"
  /\ handler = "calling" /\ tty => ssizes # <<>>
  /\ loop = "none" => handler \in {"waiting", "dead"}
  /\ OpensSized

(* A command that ends by itself has an exit code; one that is killed has  *)
(* nobody to tell it to.                                                   *)
Coded == command = "ended" /\ client # "done" => exit \in Codes

Sound == TypeOK /\ Sizing /\ Coded

-----------------------------------------------------------------------------
(* Frames                                                                  *)

(* What a frame on its way to the daemon carries follows from its kind. *)
LEMMA UpFrameTypes ==
  /\ \A f \in UpFrames :
       /\ f.kind \in {"start", "resize", "stdin", "close"}
       /\ f.kind = "start" => f.what \in 0 .. MaxSizes
       /\ f.kind = "resize" => f.what \in 1 .. MaxSizes
       /\ f.kind = "stdin" => f.what \in 1 .. MaxTyped
  /\ \A s \in 0 .. MaxSizes : Frame("start", s) \in UpFrames
  /\ \A s \in 1 .. MaxSizes : Frame("resize", s) \in UpFrames
  /\ \A p \in 1 .. MaxTyped : Frame("stdin", p) \in UpFrames
  /\ Frame("close", 0) \in UpFrames
<1>1. ASSUME NEW f \in UpFrames
      PROVE  \/ \E s \in 0 .. MaxSizes : f = Frame("start", s)
             \/ \E s \in 1 .. MaxSizes : f = Frame("resize", s)
             \/ \E p \in 1 .. MaxTyped : f = Frame("stdin", p)
             \/ f = Frame("close", 0)
  BY DEF UpFrames
<1>2. \A k, w : Frame(k, w).kind = k /\ Frame(k, w).what = w
  BY DEF Frame
<1>3. ASSUME NEW f \in UpFrames
      PROVE  /\ f.kind \in {"start", "resize", "stdin", "close"}
             /\ f.kind = "start" => f.what \in 0 .. MaxSizes
             /\ f.kind = "resize" => f.what \in 1 .. MaxSizes
             /\ f.kind = "stdin" => f.what \in 1 .. MaxTyped
  <2>1. CASE \E s \in 0 .. MaxSizes : f = Frame("start", s)   BY <2>1, <1>2
  <2>2. CASE \E s \in 1 .. MaxSizes : f = Frame("resize", s)  BY <2>2, <1>2
  <2>3. CASE \E p \in 1 .. MaxTyped : f = Frame("stdin", p)   BY <2>3, <1>2
  <2>4. CASE f = Frame("close", 0)                            BY <2>4, <1>2
  <2>5. QED
    BY <1>1, <2>1, <2>2, <2>3, <2>4
<1>4. /\ \A s \in 0 .. MaxSizes : Frame("start", s) \in UpFrames
      /\ \A s \in 1 .. MaxSizes : Frame("resize", s) \in UpFrames
      /\ \A p \in 1 .. MaxTyped : Frame("stdin", p) \in UpFrames
      /\ Frame("close", 0) \in UpFrames
  BY DEF UpFrames
<1>5. QED
  BY <1>3, <1>4

(* And so for one on its way to the client. *)
LEMMA DownFrameTypes ==
  /\ \A f \in DownFrames :
       /\ f.kind \in Outputs \cup {"exit", "status"}
       /\ f.kind \in Outputs => f.what \in 1 .. MaxPrinted
       /\ f.kind \in {"exit", "status"} => f.what \in Codes \cup {Failed}
  /\ \A o \in Outputs, p \in 1 .. MaxPrinted : Frame(o, p) \in DownFrames
  /\ \A c \in Codes : Frame("exit", c) \in DownFrames
  /\ \A s \in {Success, Failed} : Frame("status", s) \in DownFrames
<1>1. ASSUME NEW f \in DownFrames
      PROVE  \/ \E o \in Outputs, p \in 1 .. MaxPrinted : f = Frame(o, p)
             \/ \E c \in Codes : f = Frame("exit", c)
             \/ \E s \in {Success, Failed} : f = Frame("status", s)
  BY DEF DownFrames
<1>2. \A k, w : Frame(k, w).kind = k /\ Frame(k, w).what = w
  BY DEF Frame
<1>3. {"exit", "status"} \cap Outputs = {} /\ Success \in Codes
  BY ExecAssumption DEF Outputs
<1>4. ASSUME NEW f \in DownFrames
      PROVE  /\ f.kind \in Outputs \cup {"exit", "status"}
             /\ f.kind \in Outputs => f.what \in 1 .. MaxPrinted
             /\ f.kind \in {"exit", "status"} => f.what \in Codes \cup {Failed}
  <2>1. CASE \E o \in Outputs, p \in 1 .. MaxPrinted : f = Frame(o, p)
    BY <2>1, <1>2, <1>3
  <2>2. CASE \E c \in Codes : f = Frame("exit", c)
    BY <2>2, <1>2, <1>3
  <2>3. CASE \E s \in {Success, Failed} : f = Frame("status", s)
    BY <2>3, <1>2, <1>3
  <2>4. QED
    BY <1>1, <2>1, <2>2, <2>3
<1>5. /\ \A o \in Outputs, p \in 1 .. MaxPrinted : Frame(o, p) \in DownFrames
      /\ \A c \in Codes : Frame("exit", c) \in DownFrames
      /\ \A s \in {Success, Failed} : Frame("status", s) \in DownFrames
  BY DEF DownFrames
<1>6. QED
  BY <1>4, <1>5

(* What is sent is what was on its way, and one frame more at the end. *)
LEMMA Sent ==
  ASSUME TypeOK, NEW f \in UpFrames, Send(f)
  PROVE  /\ up' \in Seq(UpFrames) /\ Len(up') <= Window /\ Len(up') = Len(up) + 1
         /\ \A i \in 1 .. Len(up) : up'[i] = up[i]
         /\ up'[Len(up) + 1] = f
<1>1. Len(up) < Window /\ up' = Append(up, f) /\ up \in Seq(UpFrames)
  BY DEF TypeOK, Send
<1>2. QED
  BY <1>1, AppendProperties, LenProperties, ExecAssumption

(* What is received is the first, and the others move up. *)
LEMMA Received ==
  ASSUME TypeOK, up # <<>>, up' = Tail(up)
  PROVE  /\ Head(up) \in UpFrames /\ Head(up) = up[1]
         /\ up' \in Seq(UpFrames) /\ Len(up') = Len(up) - 1 /\ Len(up') <= Window
         /\ \A i \in 1 .. Len(up') : up'[i] = up[i + 1]
<1>1. up \in Seq(UpFrames) /\ Len(up) <= Window /\ Len(up) \in Nat
  BY LenProperties DEF TypeOK
<1>2. Head(up) = up[1]
  OBVIOUS
<1>3. QED
  BY <1>1, <1>2, HeadTailProperties, ExecAssumption

(* A reply leaves frames for the client. *)
LEMMA Replied ==
  ASSUME TypeOK, NEW frames \in Seq(DownFrames), Reply(frames)
  PROVE  down' \in Seq(DownFrames)
BY ConcatProperties DEF TypeOK, Reply

(* A channel of sizes holds sizes, and has room again once one is taken. *)
LEMMA Channels ==
  ASSUME NEW c \in Seq(1 .. MaxSizes), Len(c) <= 1
  PROVE  /\ First(c) \in 0 .. MaxSizes
         /\ c # <<>> => First(c) # 0
         /\ Drained(c) \in Seq(1 .. MaxSizes) /\ Len(Drained(c)) <= 1
<1>1. CASE c = <<>>
  BY <1>1, ExecAssumption DEF First, Drained
<1>2. CASE c # <<>>
  BY <1>2, HeadTailProperties, LenProperties, ExecAssumption DEF First, Drained
<1>3. QED
  BY <1>1, <1>2

(* Sequences of one or two. *)
LEMMA OneFrame ==
  /\ \A f \in DownFrames : <<f>> \in Seq(DownFrames)
  /\ \A f, g \in DownFrames : <<f, g>> \in Seq(DownFrames)
OBVIOUS

LEMMA SizeAlone ==
  /\ <<>> \in Seq(1 .. MaxSizes) /\ Len(<<>>) <= 1
  /\ \A s \in 1 .. MaxSizes : <<s>> \in Seq(1 .. MaxSizes) /\ Len(<<s>>) <= 1
OBVIOUS

-----------------------------------------------------------------------------
(* Types, by who has the variables                                         *)

UserTyped ==
  /\ tty \in BOOLEAN /\ finished \in BOOLEAN /\ winch \in BOOLEAN
  /\ typed \in 0 .. MaxTyped
  /\ dims \in 1 .. MaxSizes

SenderTyped ==
  /\ pumped \in 0 .. MaxSizes
  /\ sizes \in Seq(1 .. MaxSizes) /\ Len(sizes) <= 1
  /\ sent \in 0 .. typed /\ said \in BOOLEAN

ReceiverTyped ==
  /\ client \in {"opening", "open", "done"}
  /\ answer \in Codes \cup {NoCode, Failed}
  /\ shown \in [Outputs -> Seq(1 .. MaxPrinted)]
  /\ down \in Seq(DownFrames)

UpTyped == up \in Seq(UpFrames) /\ Len(up) <= Window

LoopTyped ==
  /\ handler \in {"waiting", "calling", "running", "returned", "dead"}
  /\ loop \in {"none", "recv", "write", "resize", "ended"}
  /\ held \in Nat
  /\ loop = "write" => held \in 1 .. MaxTyped
  /\ loop = "resize" => held \in 1 .. MaxSizes
  /\ closed \in BOOLEAN

SizesTyped ==
  /\ ssizes \in Seq(1 .. MaxSizes) /\ Len(ssizes) <= 1
  /\ size \in 0 .. MaxSizes

InputTyped ==
  /\ copier \in {"none", "reading", "writing", "ended"}
  /\ chunk \in Nat /\ (copier = "writing" => chunk \in 1 .. MaxTyped)
  /\ fed \in Seq(1 .. MaxTyped) /\ Len(fed) <= InputRoom
  /\ eaten \in Seq(1 .. MaxTyped)

CommandTyped ==
  /\ command \in {"unborn", "running", "ended"}
  /\ exit \in Codes \cup {NoCode}
  /\ reads \in BOOLEAN /\ hungUp \in BOOLEAN /\ sawEnd \in BOOLEAN
  /\ printed \in [Outputs -> 0 .. MaxPrinted]
  /\ obuf \in [Outputs -> Seq(1 .. MaxPrinted)]

LEMMA Typed ==
  TypeOK <=> /\ UserTyped /\ SenderTyped /\ ReceiverTyped /\ UpTyped
             /\ LoopTyped /\ SizesTyped /\ InputTyped /\ CommandTyped
BY DEF TypeOK, UserTyped, SenderTyped, ReceiverTyped, UpTyped, LoopTyped, SizesTyped, InputTyped,
       CommandTyped

(* The same of the next state. *)
LEMMA TypedNext ==
  ASSUME UserTyped', SenderTyped', ReceiverTyped', UpTyped', LoopTyped', SizesTyped', InputTyped',
         CommandTyped'
  PROVE  TypeOK'
BY DEF TypeOK, UserTyped, SenderTyped, ReceiverTyped, UpTyped, LoopTyped, SizesTyped, InputTyped,
       CommandTyped

(* What a step leaves alone stays as it was. *)
LEMMA StaysTyped ==
  ASSUME TypeOK
  PROVE  /\ UNCHANGED <<tty, finished, winch, typed, dims>> => UserTyped'
         /\ UNCHANGED <<typed, pumped, sizes, sent, said>> => SenderTyped'
         /\ UNCHANGED <<client, answer, shown, down>> => ReceiverTyped'
         /\ UNCHANGED up => UpTyped'
         /\ UNCHANGED <<handler, loop, held, closed>> => LoopTyped'
         /\ UNCHANGED <<ssizes, size>> => SizesTyped'
         /\ UNCHANGED <<copier, chunk, fed, eaten>> => InputTyped'
         /\ UNCHANGED <<command, exit, reads, hungUp, sawEnd, printed, obuf>> => CommandTyped'
<1> USE Typed
<1>1. UNCHANGED <<tty, finished, winch, typed, dims>> => UserTyped'
  BY DEF UserTyped
<1>2. UNCHANGED <<typed, pumped, sizes, sent, said>> => SenderTyped'
  BY DEF SenderTyped
<1>3. UNCHANGED <<client, answer, shown, down>> => ReceiverTyped'
  BY DEF ReceiverTyped
<1>4. UNCHANGED up => UpTyped'
  BY DEF UpTyped
<1>5. UNCHANGED <<handler, loop, held, closed>> => LoopTyped'
  BY DEF LoopTyped
<1>6. UNCHANGED <<ssizes, size>> => SizesTyped'
  BY DEF SizesTyped
<1>7. UNCHANGED <<copier, chunk, fed, eaten>> => InputTyped'
  BY DEF InputTyped
<1>8. UNCHANGED <<command, exit, reads, hungUp, sawEnd, printed, obuf>> => CommandTyped'
  BY DEF CommandTyped
<1>9. QED
  BY <1>1, <1>2, <1>3, <1>4, <1>5, <1>6, <1>7, <1>8

-----------------------------------------------------------------------------
(* Types, one lemma to an action: what it leaves alone, and then what it   *)
(* does not.                                                               *)

LEMMA TypeTypes == ASSUME Sound, Type PROVE TypeOK'
<1> USE Typed, TypedNext, ExecAssumption DEF Sound, Type
<1>1. ReceiverTyped' /\ UpTyped' /\ LoopTyped' /\ SizesTyped' /\ InputTyped' /\ CommandTyped'
  BY StaysTyped DEF userVars, clientVars, serverVars, inputVars, commandVars
<1>2. UserTyped'
  BY DEF UserTyped, userVars, clientVars, serverVars, inputVars, commandVars
<1>3. SenderTyped'
  BY DEF SenderTyped, UserTyped, userVars, clientVars, serverVars, inputVars, commandVars
<1>4. QED
  BY <1>1, <1>2, <1>3

LEMMA EndInputTypes == ASSUME Sound, EndInput PROVE TypeOK'
<1> USE Typed, TypedNext, ExecAssumption DEF Sound, EndInput
<1>1. SenderTyped' /\ ReceiverTyped' /\ UpTyped' /\ LoopTyped' /\ SizesTyped' /\ InputTyped' /\
       CommandTyped'
  BY StaysTyped DEF userVars, clientVars, serverVars, inputVars, commandVars
<1>2. UserTyped'
  BY DEF UserTyped, userVars, clientVars, serverVars, inputVars, commandVars
<1>3. QED
  BY <1>1, <1>2

LEMMA ResizeTypes == ASSUME Sound, Resize PROVE TypeOK'
<1> USE Typed, TypedNext, ExecAssumption DEF Sound, Resize
<1>1. SenderTyped' /\ ReceiverTyped' /\ UpTyped' /\ LoopTyped' /\ SizesTyped' /\ InputTyped' /\
       CommandTyped'
  BY StaysTyped DEF userVars, clientVars, serverVars, inputVars, commandVars
<1>2. UserTyped'
  BY DEF UserTyped, userVars, clientVars, serverVars, inputVars, commandVars
<1>3. QED
  BY <1>1, <1>2

LEMMA ClientGoneTypes == ASSUME Sound, ClientGone PROVE TypeOK'
<1> USE Typed, TypedNext, ExecAssumption DEF Sound, ClientGone
<1>1. UserTyped' /\ SenderTyped' /\ UpTyped' /\ LoopTyped' /\ SizesTyped' /\ InputTyped' /\
       CommandTyped'
  BY StaysTyped DEF userVars, clientVars, serverVars, inputVars, commandVars
<1>2. ReceiverTyped'
  BY EmptySeq DEF ReceiverTyped, Return, userVars, clientVars, serverVars, inputVars,
      commandVars
<1>3. QED
  BY <1>1, <1>2

LEMMA LostTypes == ASSUME Sound, Lost PROVE TypeOK'
<1> USE Typed, TypedNext, ExecAssumption DEF Sound, Lost
<1>1. UserTyped' /\ SenderTyped' /\ UpTyped' /\ LoopTyped' /\ SizesTyped' /\ InputTyped' /\
       CommandTyped'
  BY StaysTyped DEF userVars, clientVars, serverVars, inputVars, commandVars
<1>2. ReceiverTyped'
  BY EmptySeq DEF ReceiverTyped, Return, userVars, clientVars, serverVars, inputVars,
      commandVars
<1>3. QED
  BY <1>1, <1>2

LEMMA DaemonDiesTypes == ASSUME Sound, DaemonDies PROVE TypeOK'
<1> USE Typed, TypedNext, ExecAssumption DEF Sound, DaemonDies
<1>1. UserTyped' /\ SenderTyped' /\ ReceiverTyped' /\ UpTyped' /\ SizesTyped' /\ InputTyped' /\
       CommandTyped'
  BY StaysTyped DEF userVars, clientVars, serverVars, inputVars, commandVars
<1>2. LoopTyped'
  BY DEF LoopTyped, userVars, clientVars, serverVars, inputVars, commandVars
<1>3. QED
  BY <1>1, <1>2

LEMMA CmdReadsTypes == ASSUME Sound, CmdReads PROVE TypeOK'
<1> USE Typed, TypedNext, ExecAssumption DEF Sound, CmdReads
<1>1. UserTyped' /\ SenderTyped' /\ ReceiverTyped' /\ UpTyped' /\ LoopTyped' /\ SizesTyped'
  BY StaysTyped DEF userVars, clientVars, serverVars, inputVars, commandVars
<1>2. InputTyped'
  <2>1. CASE fed # <<>> /\ eaten' = Append(eaten, Head(fed)) /\ fed' = Tail(fed)
    BY <2>1, HeadTailProperties, AppendProperties, LenProperties
    DEF InputTyped, userVars, clientVars, serverVars, inputVars
  <2>2. CASE UNCHANGED <<eaten, fed>>
    BY <2>2, StaysTyped DEF inputVars
  <2>3. QED
    BY <2>1, <2>2
<1>3. CommandTyped'
  BY DEF CommandTyped, userVars, clientVars, serverVars, inputVars, commandVars
<1>4. QED
  BY <1>1, <1>2, <1>3

LEMMA CmdStopsReadingTypes == ASSUME Sound, CmdStopsReading PROVE TypeOK'
<1> USE Typed, TypedNext, ExecAssumption DEF Sound, CmdStopsReading
<1>1. UserTyped' /\ SenderTyped' /\ ReceiverTyped' /\ UpTyped' /\ LoopTyped' /\ SizesTyped'
  BY StaysTyped DEF userVars, clientVars, serverVars, inputVars, commandVars
<1>2. InputTyped'
  BY DEF InputTyped, userVars, clientVars, serverVars, inputVars, commandVars
<1>3. CommandTyped'
  BY DEF CommandTyped, userVars, clientVars, serverVars, inputVars, commandVars
<1>4. QED
  BY <1>1, <1>2, <1>3

LEMMA CmdExitsTypes == ASSUME Sound, CmdExits PROVE TypeOK'
<1> USE Typed, TypedNext, ExecAssumption DEF Sound, CmdExits
<1>1. UserTyped' /\ SenderTyped' /\ ReceiverTyped' /\ UpTyped' /\ LoopTyped' /\ SizesTyped'
  BY StaysTyped DEF userVars, clientVars, serverVars, inputVars, commandVars
<1>2. InputTyped'
  BY DEF InputTyped, userVars, clientVars, serverVars, inputVars, commandVars
<1>3. CommandTyped'
  BY DEF CommandTyped, userVars, clientVars, serverVars, inputVars, commandVars
<1>4. QED
  BY <1>1, <1>2, <1>3

LEMMA CmdPrintsTypes == ASSUME Sound, NEW o \in Outputs, CmdPrints(o) PROVE TypeOK'
<1> USE Typed, TypedNext, ExecAssumption DEF Sound, CmdPrints
<1>1. UserTyped' /\ SenderTyped' /\ ReceiverTyped' /\ UpTyped' /\ LoopTyped' /\ SizesTyped' /\
       InputTyped'
  BY StaysTyped DEF userVars, clientVars, serverVars, inputVars, commandVars
<1>2. CommandTyped'
  BY AppendProperties DEF CommandTyped, Outputs, userVars, clientVars, serverVars, inputVars,
      commandVars
<1>3. QED
  BY <1>1, <1>2

LEMMA PumpTypes == ASSUME Sound, Pump PROVE TypeOK'
<1> USE Typed, TypedNext, ExecAssumption DEF Sound, Pump
<1>1. ReceiverTyped' /\ UpTyped' /\ LoopTyped' /\ SizesTyped' /\ InputTyped' /\ CommandTyped'
  BY StaysTyped DEF userVars, clientVars, serverVars, inputVars, commandVars
<1>2. UserTyped'
  BY DEF UserTyped, userVars, clientVars, serverVars, inputVars, commandVars
<1>3. SenderTyped'
  BY DEF SenderTyped, UserTyped, userVars, clientVars, serverVars, inputVars, commandVars
<1>4. QED
  BY <1>1, <1>2, <1>3

LEMMA PumpOutTypes == ASSUME Sound, PumpOut PROVE TypeOK'
<1> USE Typed, TypedNext, ExecAssumption DEF Sound, PumpOut
<1>1. UserTyped' /\ ReceiverTyped' /\ UpTyped' /\ LoopTyped' /\ SizesTyped' /\ InputTyped' /\
       CommandTyped'
  BY StaysTyped DEF userVars, clientVars, serverVars, inputVars, commandVars
<1>2. SenderTyped'
  BY DEF SenderTyped, userVars, clientVars, serverVars, inputVars, commandVars
<1>3. QED
  BY <1>1, <1>2

LEMMA OpenTypes == ASSUME Sound, Open PROVE TypeOK'
<1> USE Typed, TypedNext, ExecAssumption DEF Sound, Open
<1>1. UserTyped' /\ LoopTyped' /\ SizesTyped' /\ InputTyped' /\ CommandTyped'
  BY StaysTyped DEF userVars, clientVars, serverVars, inputVars, commandVars
<1>2. SenderTyped'
  BY Channels DEF SenderTyped, userVars, clientVars, serverVars, inputVars, commandVars
<1>3. ReceiverTyped'
  BY DEF ReceiverTyped, userVars, clientVars, serverVars, inputVars, commandVars
<1>4. UpTyped'
  BY Sent, Channels, UpFrameTypes DEF UpTyped, SenderTyped, userVars, clientVars, serverVars,
      inputVars, commandVars
<1>5. QED
  BY <1>1, <1>2, <1>3, <1>4

LEMMA RelayStdinTypes == ASSUME Sound, RelayStdin PROVE TypeOK'
<1> USE Typed, TypedNext, ExecAssumption DEF Sound, RelayStdin
<1>1. UserTyped' /\ ReceiverTyped' /\ LoopTyped' /\ SizesTyped' /\ InputTyped' /\ CommandTyped'
  BY StaysTyped DEF userVars, clientVars, serverVars, inputVars, commandVars
<1>2. SenderTyped'
  BY DEF SenderTyped, UserTyped, userVars, clientVars, serverVars, inputVars, commandVars
<1>3. UpTyped'
  BY Sent, UpFrameTypes DEF UpTyped, SenderTyped, UserTyped, userVars, clientVars, serverVars,
      inputVars, commandVars
<1>4. QED
  BY <1>1, <1>2, <1>3

LEMMA RelayEndTypes == ASSUME Sound, RelayEnd PROVE TypeOK'
<1> USE Typed, TypedNext, ExecAssumption DEF Sound, RelayEnd
<1>1. UserTyped' /\ ReceiverTyped' /\ LoopTyped' /\ SizesTyped' /\ InputTyped' /\ CommandTyped'
  BY StaysTyped DEF userVars, clientVars, serverVars, inputVars, commandVars
<1>2. SenderTyped'
  BY DEF SenderTyped, userVars, clientVars, serverVars, inputVars, commandVars
<1>3. UpTyped'
  BY Sent, UpFrameTypes DEF UpTyped, userVars, clientVars, serverVars, inputVars, commandVars
<1>4. QED
  BY <1>1, <1>2, <1>3

LEMMA RelayResizeTypes == ASSUME Sound, RelayResize PROVE TypeOK'
<1> USE Typed, TypedNext, ExecAssumption DEF Sound, RelayResize
<1>1. UserTyped' /\ ReceiverTyped' /\ LoopTyped' /\ SizesTyped' /\ InputTyped' /\ CommandTyped'
  BY StaysTyped DEF userVars, clientVars, serverVars, inputVars, commandVars
<1>2. SenderTyped'
  BY HeadTailProperties, LenProperties DEF SenderTyped, userVars, clientVars, serverVars,
      inputVars, commandVars
<1>3. UpTyped'
  BY Sent, UpFrameTypes, HeadTailProperties DEF UpTyped, SenderTyped, userVars, clientVars,
      serverVars, inputVars, commandVars
<1>4. QED
  BY <1>1, <1>2, <1>3

LEMMA ReceiveTypes == ASSUME Sound, Receive PROVE TypeOK'
<1> USE Typed, TypedNext, ExecAssumption DEF Sound, Receive
<1>1. UserTyped' /\ SenderTyped' /\ UpTyped' /\ LoopTyped' /\ SizesTyped' /\ InputTyped' /\
       CommandTyped'
  BY StaysTyped DEF userVars, clientVars, serverVars, inputVars, commandVars
<1>2. ReceiverTyped'
  <2> DEFINE frame == Head(down)
  <2>1. frame \in DownFrames /\ Tail(down) \in Seq(DownFrames) /\ <<>> \in Seq(DownFrames)
    BY HeadTailProperties, EmptySeq DEF ReceiverTyped
  <2>2. CASE frame.kind \in Outputs
    <3>1. frame.what \in 1 .. MaxPrinted /\ shown[frame.kind] \in Seq(1 .. MaxPrinted)
      BY <2>1, <2>2, DownFrameTypes DEF ReceiverTyped
    <3>2. Append(shown[frame.kind], frame.what) \in Seq(1 .. MaxPrinted)
      BY <3>1, AppendProperties
    <3>3. frame.kind \notin {"exit", "status"}
      BY <2>2 DEF Outputs
    <3>4. /\ shown' = [shown EXCEPT ![frame.kind] = Append(@, frame.what)]
          /\ down' = Tail(down) /\ UNCHANGED <<client, answer>>
      BY <2>2, <3>3
    <3>5. shown' \in [Outputs -> Seq(1 .. MaxPrinted)]
      BY <2>2, <3>2, <3>4 DEF ReceiverTyped
    <3>6. QED
      BY <2>1, <3>4, <3>5 DEF ReceiverTyped
  <2>3. CASE frame.kind \in {"exit", "status"}
    <3>1. frame.what \in Codes \cup {Failed} /\ frame.kind \notin Outputs
      BY <2>1, <2>3, DownFrameTypes DEF Outputs
    <3>2. QED
      BY <2>1, <2>3, <3>1 DEF ReceiverTyped, Return
  <2>4. QED
    BY <2>1, <2>2, <2>3, DownFrameTypes
<1>3. QED
  BY <1>1, <1>2

LEMMA AcceptTypes == ASSUME Sound, Accept PROVE TypeOK'
<1> USE Typed, TypedNext, ExecAssumption DEF Sound, Accept
<1>1. UserTyped' /\ SenderTyped' /\ ReceiverTyped' /\ InputTyped' /\ CommandTyped'
  BY StaysTyped DEF userVars, clientVars, serverVars, inputVars, commandVars
<1>2. UpTyped'
  BY Received DEF UpTyped, userVars, clientVars, serverVars, inputVars, commandVars
<1>3. LoopTyped'
  BY DEF LoopTyped, userVars, clientVars, serverVars, inputVars, commandVars
<1>4. SizesTyped'
  <2>1. up[1].what \in 0 .. MaxSizes /\ Head(up) = up[1]
    BY Received, UpFrameTypes DEF Sizing
  <2>2. size' = size
    BY DEF commandVars
  <2>3. CASE up[1].what = 0
    <3>1. ssizes' = <<>>
      BY <2>1, <2>3
    <3>2. QED
      BY <2>2, <3>1, SizeAlone DEF SizesTyped
  <2>4. CASE up[1].what # 0
    <3>1. ssizes' = <<up[1].what>> /\ up[1].what \in 1 .. MaxSizes
      BY <2>1, <2>4
    <3>2. QED
      BY <2>2, <3>1, SizeAlone DEF SizesTyped
  <2>5. QED
    BY <2>3, <2>4
<1>5. QED
  BY <1>1, <1>2, <1>3, <1>4

LEMMA RefuseTypes == ASSUME Sound, Refuse PROVE TypeOK'
<1> USE Typed, TypedNext, ExecAssumption DEF Sound, Refuse
<1>1. UserTyped' /\ SenderTyped' /\ UpTyped' /\ SizesTyped' /\ InputTyped' /\ CommandTyped'
  BY StaysTyped DEF userVars, clientVars, serverVars, inputVars, commandVars
<1>2. LoopTyped'
  BY DEF LoopTyped, userVars, clientVars, serverVars, inputVars, commandVars
<1>3. ReceiverTyped'
  <2>1. <<Frame("status", Failed)>> \in Seq(DownFrames)
    BY DownFrameTypes, OneFrame
  <2>2. QED
    BY <2>1, Replied DEF ReceiverTyped, clientVars
<1>4. QED
  BY <1>1, <1>2, <1>3

LEMMA BeginTypes == ASSUME Sound, Begin PROVE TypeOK'
<1> USE Typed, TypedNext, ExecAssumption DEF Sound, Begin
<1>1. UserTyped' /\ SenderTyped' /\ ReceiverTyped' /\ UpTyped'
  BY StaysTyped DEF userVars, clientVars, serverVars, inputVars, commandVars
<1>2. LoopTyped'
  BY DEF LoopTyped, userVars, clientVars, serverVars, inputVars, commandVars
<1>3. SizesTyped'
  BY Channels DEF SizesTyped, userVars, clientVars, serverVars, inputVars, commandVars
<1>4. InputTyped'
  BY DEF InputTyped, userVars, clientVars, serverVars, inputVars, commandVars
<1>5. CommandTyped'
  BY DEF CommandTyped, userVars, clientVars, serverVars, inputVars, commandVars
<1>6. QED
  BY <1>1, <1>2, <1>3, <1>4, <1>5

LEMMA FinishTypes == ASSUME Sound, Finish PROVE TypeOK'
<1> USE Typed, TypedNext, ExecAssumption DEF Sound, Finish
<1>1. UserTyped' /\ SenderTyped' /\ UpTyped' /\ SizesTyped' /\ InputTyped' /\ CommandTyped'
  BY StaysTyped DEF userVars, clientVars, serverVars, inputVars, commandVars
<1>2. LoopTyped'
  BY DEF LoopTyped, userVars, clientVars, serverVars, inputVars, commandVars
<1>3. ReceiverTyped'
  <2>1. CASE client = "done"
    BY <2>1 DEF ReceiverTyped, Reply, clientVars
  <2>2. CASE client # "done"
    <3>1. exit \in Codes
      BY <2>2 DEF Coded
    <3>2. <<Frame("exit", exit), Frame("status", Success)>> \in Seq(DownFrames)
      BY <3>1, DownFrameTypes, OneFrame
    <3>3. QED
      BY <3>2, Replied DEF ReceiverTyped, clientVars
  <2>3. QED
    BY <2>1, <2>2
<1>4. QED
  BY <1>1, <1>2, <1>3

LEMMA KillTypes == ASSUME Sound, Kill PROVE TypeOK'
<1> USE Typed, TypedNext, ExecAssumption DEF Sound, Kill
<1>1. UserTyped' /\ SenderTyped' /\ ReceiverTyped' /\ UpTyped' /\ LoopTyped' /\ SizesTyped' /\
       InputTyped'
  BY StaysTyped DEF userVars, clientVars, serverVars, inputVars, commandVars
<1>2. CommandTyped'
  BY DEF CommandTyped, userVars, clientVars, serverVars, inputVars, commandVars
<1>3. QED
  BY <1>1, <1>2

(* Once the handler has the first frame there is no other start on its     *)
(* way, so the loop knows what to do with each.                            *)
LEMMA NextFrame ==
  ASSUME Sound, LoopRecv
  PROVE  \/ loop' = "ended" /\ held' = 0 /\ closed' = TRUE
         \/ loop' = "write" /\ held' \in 1 .. MaxTyped /\ closed' \in BOOLEAN
         \/ loop' = "resize" /\ held' \in 1 .. MaxSizes /\ closed' \in BOOLEAN
         \/ loop' = "recv" /\ held' \in Nat /\ closed' = TRUE
<1> DEFINE frame == Head(up)
<1>1. up # <<>> /\ loop = "recv" /\ Alive /\ TypeOK /\ Sizing
  BY DEF LoopRecv, Sound
<1>2. frame \in UpFrames /\ frame = up[1] /\ 1 \in 1 .. Len(up)
  BY <1>1, Received, LenProperties, EmptySeq DEF LoopRecv, TypeOK
<1>3. frame.kind # "start"
  BY <1>1, <1>2 DEF Sizing, Alive
<1>4. \/ frame.kind = "resize" /\ frame.what \in 1 .. MaxSizes
      \/ frame.kind = "stdin" /\ frame.what \in 1 .. MaxTyped
      \/ frame.kind = "close"
  BY <1>2, <1>3, UpFrameTypes
<1>5. closed \in BOOLEAN /\ held \in Nat
  BY <1>1 DEF TypeOK
<1>6. CASE frame.kind = "resize"
  <2>1. loop' = "resize" /\ held' = frame.what /\ UNCHANGED closed
    BY <1>6 DEF LoopRecv
  <2>2. QED
    BY <1>4, <1>5, <1>6, <2>1
<1>7. CASE frame.kind = "stdin" /\ closed
  BY <1>7 DEF LoopRecv, Leave
<1>8. CASE frame.kind = "stdin" /\ ~closed
  <2>1. loop' = "write" /\ held' = frame.what /\ UNCHANGED closed
    BY <1>8 DEF LoopRecv
  <2>2. QED
    BY <1>4, <1>5, <1>8, <2>1
<1>9. CASE frame.kind = "close"
  <2>1. closed' = TRUE /\ UNCHANGED <<loop, held>>
    BY <1>9 DEF LoopRecv
  <2>2. QED
    BY <1>1, <1>5, <2>1
<1>10. QED
  BY <1>4, <1>5, <1>6, <1>7, <1>8, <1>9

LEMMA LoopAfterFrame == ASSUME Sound, LoopRecv PROVE LoopTyped'
<1>1. handler' \in {"waiting", "calling", "running", "returned", "dead"}
  BY DEF LoopRecv, Sound, TypeOK
<1>2. \/ loop' = "ended" /\ held' = 0 /\ closed' = TRUE
      \/ loop' = "write" /\ held' \in 1 .. MaxTyped /\ closed' \in BOOLEAN
      \/ loop' = "resize" /\ held' \in 1 .. MaxSizes /\ closed' \in BOOLEAN
      \/ loop' = "recv" /\ held' \in Nat /\ closed' = TRUE
  BY NextFrame
<1>3. held' \in Nat
  BY <1>2, ExecAssumption
<1>4. closed' \in BOOLEAN /\ loop' \in {"recv", "write", "resize", "ended"}
  BY <1>2
<1>5. (loop' = "write" => held' \in 1 .. MaxTyped) /\ (loop' = "resize" => held' \in 1 .. MaxSizes)
  BY <1>2
<1>6. QED
  BY <1>1, <1>3, <1>4, <1>5 DEF LoopTyped

LEMMA LoopRecvTypes == ASSUME Sound, LoopRecv PROVE TypeOK'
<1> USE Typed, TypedNext, ExecAssumption DEF Sound, LoopRecv
<1>1. UserTyped' /\ SenderTyped' /\ ReceiverTyped' /\ SizesTyped' /\ InputTyped' /\ CommandTyped'
  BY StaysTyped DEF userVars, clientVars, serverVars, inputVars, commandVars
<1>2. UpTyped'
  BY Received DEF UpTyped, userVars, clientVars, serverVars, inputVars, commandVars
<1>3. LoopTyped'
  BY LoopAfterFrame
<1>4. QED
  BY <1>1, <1>2, <1>3

LEMMA LoopResizeTypes == ASSUME Sound, LoopResize PROVE TypeOK'
<1> USE Typed, TypedNext, ExecAssumption DEF Sound, LoopResize
<1>1. UserTyped' /\ SenderTyped' /\ ReceiverTyped' /\ UpTyped' /\ InputTyped' /\ CommandTyped'
  BY StaysTyped DEF userVars, clientVars, serverVars, inputVars, commandVars
<1>2. LoopTyped'
  BY DEF LoopTyped, userVars, clientVars, serverVars, inputVars, commandVars
<1>3. SizesTyped'
  BY DEF SizesTyped, LoopTyped, userVars, clientVars, serverVars, inputVars, commandVars
<1>4. QED
  BY <1>1, <1>2, <1>3

LEMMA LoopEndsTypes == ASSUME Sound, LoopEnds PROVE TypeOK'
<1> USE Typed, TypedNext, ExecAssumption DEF Sound, LoopEnds
<1>1. UserTyped' /\ SenderTyped' /\ ReceiverTyped' /\ UpTyped' /\ SizesTyped' /\ InputTyped' /\
       CommandTyped'
  BY StaysTyped DEF userVars, clientVars, serverVars, inputVars, commandVars
<1>2. LoopTyped'
  BY DEF LoopTyped, Leave, userVars, clientVars, serverVars, inputVars, commandVars
<1>3. QED
  BY <1>1, <1>2

LEMMA CopierReadTypes == ASSUME Sound, CopierRead PROVE TypeOK'
<1> USE Typed, TypedNext, ExecAssumption DEF Sound, CopierRead
<1>1. UserTyped' /\ SenderTyped' /\ ReceiverTyped' /\ UpTyped' /\ SizesTyped' /\ CommandTyped'
  BY StaysTyped DEF userVars, clientVars, serverVars, inputVars, commandVars
<1>2. InputTyped'
  BY DEF InputTyped, LoopTyped, userVars, clientVars, serverVars, inputVars, commandVars
<1>3. LoopTyped'
  BY DEF LoopTyped, userVars, clientVars, serverVars, inputVars, commandVars
<1>4. QED
  BY <1>1, <1>2, <1>3

LEMMA CopierEndsTypes == ASSUME Sound, CopierEnds PROVE TypeOK'
<1> USE Typed, TypedNext, ExecAssumption DEF Sound, CopierEnds
<1>1. UserTyped' /\ SenderTyped' /\ ReceiverTyped' /\ UpTyped' /\ LoopTyped' /\ SizesTyped'
  BY StaysTyped DEF userVars, clientVars, serverVars, inputVars, commandVars
<1>2. InputTyped'
  BY DEF InputTyped, userVars, clientVars, serverVars, inputVars, commandVars
<1>3. CommandTyped'
  BY DEF CommandTyped, userVars, clientVars, serverVars, inputVars, commandVars
<1>4. QED
  BY <1>1, <1>2, <1>3

LEMMA CopierWriteTypes == ASSUME Sound, CopierWrite PROVE TypeOK'
<1> USE Typed, TypedNext, ExecAssumption DEF Sound, CopierWrite
<1>1. UserTyped' /\ SenderTyped' /\ ReceiverTyped' /\ UpTyped' /\ LoopTyped' /\ SizesTyped' /\
       CommandTyped'
  BY StaysTyped DEF userVars, clientVars, serverVars, inputVars, commandVars
<1>2. InputTyped'
  BY AppendProperties, LenProperties DEF InputTyped, userVars, clientVars, serverVars,
      inputVars, commandVars
<1>3. QED
  BY <1>1, <1>2

LEMMA CopierFailsTypes == ASSUME Sound, CopierFails PROVE TypeOK'
<1> USE Typed, TypedNext, ExecAssumption DEF Sound, CopierFails
<1>1. UserTyped' /\ SenderTyped' /\ ReceiverTyped' /\ UpTyped' /\ LoopTyped' /\ SizesTyped' /\
       CommandTyped'
  BY StaysTyped DEF userVars, clientVars, serverVars, inputVars, commandVars
<1>2. InputTyped'
  BY DEF InputTyped, userVars, clientVars, serverVars, inputVars, commandVars
<1>3. QED
  BY <1>1, <1>2

LEMMA SizedTypes == ASSUME Sound, Sized PROVE TypeOK'
<1> USE Typed, TypedNext, ExecAssumption DEF Sound, Sized
<1>1. UserTyped' /\ SenderTyped' /\ ReceiverTyped' /\ UpTyped' /\ LoopTyped' /\ InputTyped' /\
       CommandTyped'
  BY StaysTyped DEF userVars, clientVars, serverVars, inputVars, commandVars
<1>2. SizesTyped'
  BY HeadTailProperties, LenProperties DEF SizesTyped, userVars, clientVars, serverVars,
      inputVars, commandVars
<1>3. QED
  BY <1>1, <1>2

LEMMA OutCopyTypes == ASSUME Sound, NEW o \in Outputs, OutCopy(o) PROVE TypeOK'
<1> USE Typed, TypedNext, ExecAssumption DEF Sound, OutCopy
<1>1. UserTyped' /\ SenderTyped' /\ UpTyped' /\ LoopTyped' /\ SizesTyped' /\ InputTyped'
  BY StaysTyped DEF userVars, clientVars, serverVars, inputVars, commandVars
<1>2. ReceiverTyped'
  <2>1. obuf[o] \in Seq(1 .. MaxPrinted)
    BY DEF CommandTyped
  <2>2. Frame(o, Head(obuf[o])) \in DownFrames
    BY <2>1, HeadTailProperties, DownFrameTypes
  <2>3. QED
    BY <2>2, OneFrame, Replied DEF ReceiverTyped, clientVars
<1>3. CommandTyped'
  BY HeadTailProperties DEF CommandTyped, userVars, clientVars, serverVars, inputVars,
      commandVars
<1>4. QED
  BY <1>1, <1>2, <1>3

-----------------------------------------------------------------------------
(* The invariant holds at first, and every step keeps the types.          *)

LEMMA InitSound == Init => Sound
<1> SUFFICES ASSUME Init PROVE Sound
  OBVIOUS
<1>1. 1 \in 1 .. MaxSizes
  BY ExecAssumption
<1>2. sizes \in Seq(1 .. MaxSizes) /\ Len(sizes) <= 1 /\ (tty => sizes # <<>>)
  BY <1>1, SizeAlone DEF Init
<1>3. /\ <<>> \in Seq(UpFrames) /\ <<>> \in Seq(DownFrames) /\ Len(<<>>) = 0
      /\ <<>> \in Seq(1 .. MaxSizes) /\ <<>> \in Seq(1 .. MaxTyped) /\ <<>> \in Seq(1 .. MaxPrinted)
  OBVIOUS
<1>4. UserTyped
  <2>1. 0 \in 0 .. MaxTyped
    BY ExecAssumption
  <2>2. typed = 0 /\ dims = 1 /\ tty \in BOOLEAN /\ finished = FALSE /\ winch = FALSE
    BY DEF Init
  <2>3. QED
    BY <1>1, <2>1, <2>2 DEF UserTyped
<1>5. SenderTyped
  <2>1. pumped = 0 /\ sent = 0 /\ typed = 0 /\ said = FALSE
    BY DEF Init
  <2>2. pumped \in 0 .. MaxSizes /\ sent \in 0 .. typed
    BY <2>1, ExecAssumption
  <2>3. QED
    BY <1>2, <2>1, <2>2 DEF SenderTyped
<1>6. ReceiverTyped /\ UpTyped
  BY <1>3, ExecAssumption DEF Init, ReceiverTyped, UpTyped
<1>7. LoopTyped /\ SizesTyped
  <2>1. LoopTyped
    BY DEF Init, LoopTyped
  <2>2. ssizes = <<>> /\ size = 0 /\ 0 \in 0 .. MaxSizes
    BY ExecAssumption DEF Init
  <2>3. QED
    BY <2>1, <2>2, SizeAlone DEF SizesTyped
<1>8. InputTyped
  <2>1. fed = <<>> /\ eaten = <<>> /\ copier = "none" /\ chunk = 0
    BY DEF Init
  <2>2. 0 <= InputRoom
    BY ExecAssumption
  <2>3. QED
    BY <1>3, <2>1, <2>2 DEF InputTyped
<1>9. CommandTyped
  <2>1. 0 \in 0 .. MaxPrinted
    BY ExecAssumption
  <2>2. /\ printed \in [Outputs -> 0 .. MaxPrinted]
        /\ obuf \in [Outputs -> Seq(1 .. MaxPrinted)]
    BY <1>3, <2>1 DEF Init
  <2>3. QED
    BY <2>2 DEF Init, CommandTyped
<1>10. Sizing /\ Coded
  BY <1>2 DEF Init, Sizing, OpensSized, Coded
<1>11. QED
  BY <1>4, <1>5, <1>6, <1>7, <1>8, <1>9, <1>10, Typed DEF Sound

LEMMA StepTypes == ASSUME Sound, [Next]_vars PROVE TypeOK'
<1>1. CASE UNCHANGED vars
  BY <1>1, Typed, TypedNext, StaysTyped
  DEF Sound, vars, userVars, clientVars, serverVars, inputVars, commandVars
<1>2. CASE Next
  BY <1>2, TypeTypes, EndInputTypes, ResizeTypes, ClientGoneTypes, LostTypes, DaemonDiesTypes,
     CmdReadsTypes, CmdStopsReadingTypes, CmdExitsTypes, CmdPrintsTypes, PumpTypes, PumpOutTypes,
     OpenTypes, RelayStdinTypes, RelayEndTypes, RelayResizeTypes, ReceiveTypes, AcceptTypes,
     RefuseTypes, BeginTypes, FinishTypes, KillTypes, LoopRecvTypes, LoopResizeTypes,
     LoopEndsTypes, CopierReadTypes, CopierEndsTypes, CopierWriteTypes, CopierFailsTypes,
     SizedTypes, OutCopyTypes
  DEF Next, Environment, Sending, Handling, Looping, Copying
<1>3. QED
  BY <1>1, <1>2

-----------------------------------------------------------------------------
(* The size of a terminal                                                  *)

(* Most steps touch nothing that Sizing is about. *)
LEMMA StaysSized ==
  ASSUME Sizing, UNCHANGED <<tty, client, up, sizes, handler, loop, ssizes, command, size>>
  PROVE  Sizing'
BY DEF Sizing, OpensSized

(* A frame that is sent after the first is not another start. *)
LEMMA SendingSized ==
  ASSUME Sound, client = "open", NEW f \in UpFrames, f.kind # "start", Send(f),
         UNCHANGED <<tty, client, handler, loop, ssizes, command, size>>
  PROVE  Sizing'
<1>1. /\ Len(up') = Len(up) + 1 /\ up'[Len(up) + 1] = f
      /\ \A i \in 1 .. Len(up) : up'[i] = up[i]
      /\ up' \in Seq(UpFrames) /\ Len(up) \in Nat
  BY Sent, LenProperties DEF Sound, TypeOK
<1>2. \A i \in 1 .. Len(up') : up'[i].kind = "start" => i \in 1 .. Len(up) /\ up'[i] = up[i]
  BY <1>1
<1>3. up # <<>> => 1 \in 1 .. Len(up) /\ up' # <<>>
  BY <1>1, EmptySeq DEF Sound, TypeOK
<1>4. QED
  BY <1>1, <1>2, <1>3 DEF Sound, Sizing, OpensSized

LEMMA StepSized == ASSUME Sound, [Next]_vars PROVE Sizing'
<1> Sizing /\ TypeOK
  BY DEF Sound
<1> USE DEF userVars, clientVars, serverVars, inputVars, commandVars
<1>1. CASE \/ Type \/ EndInput \/ Resize \/ Pump \/ CmdReads \/ CmdStopsReading
           \/ CopierEnds \/ CopierWrite \/ CopierFails
           \/ \E o \in Outputs : CmdPrints(o) \/ OutCopy(o)
           \/ UNCHANGED vars
  BY <1>1, StaysSized
  DEF Type, EndInput, Resize, Pump, CmdReads, CmdStopsReading, CopierEnds, CopierWrite, CopierFails,
      CmdPrints, OutCopy, vars
<1>2. CASE ClientGone \/ Lost \/ Receive
  <2>1. client = "open" /\ client' \in {"open", "done"}
        /\ UNCHANGED <<tty, up, sizes, handler, loop, ssizes, command, size>>
    BY <1>2, DownFrameTypes, HeadTailProperties DEF ClientGone, Lost, Receive, Return, TypeOK
  <2>2. QED
    BY <2>1 DEF Sizing, OpensSized
<1>3. CASE DaemonDies
  BY <1>3 DEF DaemonDies, Sizing, OpensSized
<1>4. CASE CmdExits \/ Kill
  BY <1>4 DEF CmdExits, Kill, Runs, Sizing, OpensSized
<1>5. CASE PumpOut
  <2>1. sizes' # <<>>
    BY <1>5 DEF PumpOut
  <2>2. QED
    BY <1>5, <2>1 DEF PumpOut, Sizing, OpensSized
<1>6. CASE Open
  <2>1. up = <<>> /\ handler \in {"waiting", "dead"} /\ up' = <<Frame("start", First(sizes))>>
    BY <1>6 DEF Open, Send, Sizing
  <2>2. tty => First(sizes) # 0
    BY <1>6, Channels DEF Open, Sizing, TypeOK
  <2>3. /\ up' # <<>> /\ Len(up') = 1
        /\ up'[1].kind = "start" /\ up'[1].what = First(sizes)
    BY <2>1 DEF Frame
  <2>4. QED
    BY <1>6, <2>1, <2>2, <2>3 DEF Open, Sizing, OpensSized
<1>7. CASE RelayStdin
  <2>1. Frame("stdin", sent + 1) \in UpFrames /\ Frame("stdin", sent + 1).kind # "start"
    BY <1>7, UpFrameTypes, ExecAssumption DEF RelayStdin, TypeOK, Frame
  <2>2. QED
    BY <1>7, <2>1, SendingSized DEF RelayStdin
<1>8. CASE RelayEnd
  <2>1. Frame("close", 0) \in UpFrames /\ Frame("close", 0).kind # "start"
    BY UpFrameTypes DEF Frame
  <2>2. QED
    BY <1>8, <2>1, SendingSized DEF RelayEnd
<1>9. CASE RelayResize
  <2>1. Frame("resize", Head(sizes)) \in UpFrames /\ Frame("resize", Head(sizes)).kind # "start"
    BY <1>9, UpFrameTypes, HeadTailProperties DEF RelayResize, TypeOK, Frame
  <2>2. QED
    BY <1>9, <2>1, SendingSized DEF RelayResize
<1>10. CASE Accept
  <2>1. /\ Head(up) = up[1] /\ Len(up') = Len(up) - 1 /\ Len(up) \in Nat
        /\ \A i \in 1 .. Len(up') : up'[i] = up[i + 1] /\ i + 1 \in 1 .. Len(up)
    BY <1>10, Received, LenProperties DEF Accept, TypeOK
  <2>2. client # "opening" /\ (tty => ssizes' # <<>>)
    BY <1>10, <2>1 DEF Accept, Sizing
  <2>3. \A i \in 1 .. Len(up') : up'[i].kind # "start"
    BY <2>1 DEF Sizing
  <2>4. QED
    BY <1>10, <2>2, <2>3 DEF Accept, Sizing, OpensSized
<1>11. CASE Refuse \/ Finish
  BY <1>11 DEF Refuse, Finish, Sizing, OpensSized
<1>12. CASE Begin
  <2>1. tty => size' # 0
    BY <1>12, Channels DEF Begin, Sizing, TypeOK
  <2>2. QED
    BY <1>12, <2>1 DEF Begin, Sizing, OpensSized
<1>13. CASE LoopRecv
  <2>1. handler \notin {"waiting", "dead"} /\ client # "opening"
    BY <1>13 DEF LoopRecv, Alive, Sizing
  <2>2. /\ Len(up') = Len(up) - 1 /\ Len(up) \in Nat
        /\ \A i \in 1 .. Len(up') : up'[i] = up[i + 1] /\ i + 1 \in 1 .. Len(up)
    BY <1>13, Received, LenProperties DEF LoopRecv, TypeOK
  <2>3. \A i \in 1 .. Len(up') : up'[i].kind # "start"
    BY <2>1, <2>2 DEF Sizing
  <2>4. UNCHANGED <<tty, client, handler, ssizes, command, size, sizes>>
    BY <1>13 DEF LoopRecv
  <2>5. loop' # "none"
    BY <1>13, NextFrame
  <2>6. QED
    BY <2>1, <2>3, <2>4, <2>5 DEF Sizing, OpensSized
<1>14. CASE LoopResize
  <2>1. ssizes' # <<>>
    BY <1>14 DEF LoopResize
  <2>2. QED
    BY <1>14, <2>1 DEF LoopResize, Sizing, OpensSized
<1>15. CASE LoopEnds
  BY <1>15 DEF LoopEnds, Leave, Sizing, OpensSized
<1>16. CASE CopierRead
  BY <1>16 DEF CopierRead, Sizing, OpensSized
<1>17. CASE Sized
  <2>1. size' = size \/ size' \in 1 .. MaxSizes
    BY <1>17, HeadTailProperties DEF Sized, TypeOK
  <2>2. size' # 0
    BY <1>17, <2>1, ExecAssumption DEF Sized, Sizing, OpensSized
  <2>3. QED
    BY <1>17, <2>2 DEF Sized, Sizing, OpensSized
<1>18. QED
  BY <1>1, <1>2, <1>3, <1>4, <1>5, <1>6, <1>7, <1>8, <1>9, <1>10, <1>11, <1>12, <1>13, <1>14,
     <1>15, <1>16, <1>17
  DEF Next, Environment, Sending, Handling, Looping, Copying

LEMMA StepCoded == ASSUME Sound, [Next]_vars PROVE Coded'
<1> USE DEF userVars, clientVars, serverVars, inputVars, commandVars
<1>1. CASE CmdExits
  BY <1>1 DEF CmdExits, Coded
<1>2. CASE Kill
  BY <1>2 DEF Kill, Coded
<1>3. CASE Begin
  BY <1>3 DEF Begin, Coded
<1>4. CASE ClientGone \/ Lost \/ Receive
  <2>1. client = "open" /\ UNCHANGED <<command, exit>>
    BY <1>4, DownFrameTypes, HeadTailProperties
    DEF ClientGone, Lost, Receive, Return, Sound, TypeOK
  <2>2. QED
    BY <2>1 DEF Sound, Coded
<1>5. CASE Open
  BY <1>5 DEF Open, Sound, Coded
<1>6. CASE \/ Type \/ EndInput \/ Resize \/ DaemonDies \/ CmdReads \/ CmdStopsReading
           \/ Pump \/ PumpOut \/ RelayStdin \/ RelayEnd \/ RelayResize
           \/ Accept \/ Refuse \/ Finish \/ Looping \/ Copying \/ Sized
           \/ \E o \in Outputs : CmdPrints(o) \/ OutCopy(o)
           \/ UNCHANGED vars
  <2>1. UNCHANGED <<command, exit, client>>
    BY <1>6
    DEF Type, EndInput, Resize, DaemonDies, CmdReads, CmdStopsReading, Pump, PumpOut, RelayStdin,
        RelayEnd, RelayResize, Accept, Refuse, Finish, Looping, LoopRecv, LoopResize, LoopEnds,
        Copying, CopierRead, CopierEnds, CopierWrite, CopierFails, Sized, CmdPrints, OutCopy, vars
  <2>2. QED
    BY <2>1 DEF Sound, Coded
<1>7. QED
  BY <1>1, <1>2, <1>3, <1>4, <1>5, <1>6 DEF Next, Environment, Sending, Handling

-----------------------------------------------------------------------------
(* What is numbered                                                        *)

(* The pieces of a sequence are numbered from the one after from.          *)
Consecutive(s, from) == \A i \in 1 .. Len(s) : s[i] = from + i

(* The frames of a kind in a sequence are those numbered from the one      *)
(* after from up to to, each once and in order, whatever is between them.  *)
Numbered(s, kind, from, to) ==
  /\ \A i \in 1 .. Len(s) : s[i].kind = kind => from < s[i].what /\ s[i].what <= to
  /\ \A i, j \in 1 .. Len(s) :
       i < j /\ s[i].kind = kind /\ s[j].kind = kind => s[i].what < s[j].what
  /\ \A n \in from + 1 .. to : \E i \in 1 .. Len(s) : s[i].kind = kind /\ s[i].what = n

LEMMA ConsecutiveGrows ==
  ASSUME NEW S, NEW s \in Seq(S), NEW from \in Nat, Consecutive(s, from),
         NEW e \in S, e = from + Len(s) + 1
  PROVE  /\ Consecutive(Append(s, e), from) /\ Len(Append(s, e)) = Len(s) + 1
         /\ Append(s, e) \in Seq(S)
<1>1. /\ Len(Append(s, e)) = Len(s) + 1 /\ Append(s, e) \in Seq(S) /\ Len(s) \in Nat
      /\ \A i \in 1 .. Len(s) : Append(s, e)[i] = s[i]
      /\ Append(s, e)[Len(s) + 1] = e
  BY AppendProperties, LenProperties
<1>2. ASSUME NEW i \in 1 .. Len(s) + 1
      PROVE  Append(s, e)[i] = from + i
  <2>1. CASE i \in 1 .. Len(s)
    BY <1>1, <2>1 DEF Consecutive
  <2>2. CASE i = Len(s) + 1
    BY <1>1, <2>2
  <2> QED BY <1>1, <2>1, <2>2
<1> QED BY <1>1, <1>2 DEF Consecutive

LEMMA ConsecutiveShrinks ==
  ASSUME NEW S, NEW s \in Seq(S), s # <<>>, NEW from \in Nat, Consecutive(s, from)
  PROVE  /\ Head(s) = from + 1 /\ Consecutive(Tail(s), from + 1) /\ Len(Tail(s)) = Len(s) - 1
         /\ Tail(s) \in Seq(S) /\ Len(s) \in Nat \ {0}
<1>1. /\ Len(s) \in Nat \ {0} /\ Head(s) = s[1] /\ Tail(s) \in Seq(S)
      /\ Len(Tail(s)) = Len(s) - 1
      /\ \A i \in 1 .. Len(Tail(s)) : Tail(s)[i] = s[i + 1]
  BY HeadTailProperties, LenProperties, EmptySeq
<1>2. ASSUME NEW i \in 1 .. Len(Tail(s))
      PROVE  Tail(s)[i] = (from + 1) + i
  <2>1. i + 1 \in 1 .. Len(s) /\ Tail(s)[i] = s[i + 1]
    BY <1>1
  <2>2. s[i + 1] = from + (i + 1)
    BY <2>1 DEF Consecutive
  <2> QED BY <2>1, <2>2
<1> QED BY <1>1, <1>2 DEF Consecutive

(* A frame of another kind changes nothing, in front or at the end.        *)
LEMMA OtherKindGoesOn ==
  ASSUME NEW S, NEW s \in Seq(S), NEW f \in S, NEW kind, f.kind # kind,
         NEW from, NEW to, Numbered(s, kind, from, to)
  PROVE  Numbered(Append(s, f), kind, from, to)
<1>1. /\ Len(Append(s, f)) = Len(s) + 1 /\ Len(s) \in Nat
      /\ \A i \in 1 .. Len(s) : Append(s, f)[i] = s[i]
      /\ Append(s, f)[Len(s) + 1] = f
  BY AppendProperties, LenProperties
<1>2. PICK t : t = Append(s, f)
  OBVIOUS
<1>3. \A i \in 1 .. Len(t) : t[i].kind = kind => i \in 1 .. Len(s) /\ t[i] = s[i]
  BY <1>1, <1>2
<1>4. \A i \in 1 .. Len(s) : i \in 1 .. Len(t) /\ t[i] = s[i]
  BY <1>1, <1>2
<1>5. Numbered(t, kind, from, to)
  BY <1>3, <1>4 DEF Numbered
<1> QED BY <1>2, <1>5

LEMMA OtherKindComesOff ==
  ASSUME NEW S, NEW s \in Seq(S), s # <<>>, NEW kind, Head(s).kind # kind,
         NEW from, NEW to, Numbered(s, kind, from, to)
  PROVE  Numbered(Tail(s), kind, from, to)
<1>1. /\ Len(s) \in Nat \ {0} /\ Head(s) = s[1] /\ Len(Tail(s)) = Len(s) - 1
      /\ \A i \in 1 .. Len(Tail(s)) : Tail(s)[i] = s[i + 1]
  BY HeadTailProperties, LenProperties, EmptySeq
<1>2. PICK t : t = Tail(s)
  OBVIOUS
<1>3. \A i \in 1 .. Len(t) : i + 1 \in 1 .. Len(s) /\ t[i] = s[i + 1]
  BY <1>1, <1>2
<1>4. \A i \in 1 .. Len(t) : t[i].kind = kind => from < t[i].what /\ t[i].what <= to
  BY <1>3 DEF Numbered
<1>5. ASSUME NEW i \in 1 .. Len(t), NEW j \in 1 .. Len(t),
             i < j, t[i].kind = kind, t[j].kind = kind
      PROVE  t[i].what < t[j].what
  <2>1. i + 1 < j + 1
    BY <1>5
  <2> QED BY <1>3, <1>5, <2>1 DEF Numbered
<1>6. ASSUME NEW n \in from + 1 .. to
      PROVE  \E i \in 1 .. Len(t) : t[i].kind = kind /\ t[i].what = n
  <2>1. PICK i \in 1 .. Len(s) : s[i].kind = kind /\ s[i].what = n
    BY DEF Numbered
  <2>2. i # 1
    BY <1>1, <2>1
  <2>3. i - 1 \in 1 .. Len(t) /\ (i - 1) + 1 = i
    BY <1>1, <1>2, <2>2
  <2>4. t[i - 1] = s[i]
    BY <1>3, <2>3
  <2> QED BY <2>1, <2>3, <2>4
<1>7. Numbered(t, kind, from, to)
  BY <1>4, <1>5, <1>6 DEF Numbered
<1> QED BY <1>2, <1>7

(* The next of its kind is the one after the last.                         *)
LEMMA NextGoesOn ==
  ASSUME NEW S, NEW s \in Seq(S), NEW f \in S, NEW kind, NEW from \in Nat, NEW to \in Nat,
         from <= to, f.kind = kind, f.what = to + 1,
         \A i \in 1 .. Len(s) : s[i].kind = kind => s[i].what \in Int,
         Numbered(s, kind, from, to)
  PROVE  Numbered(Append(s, f), kind, from, to + 1)
<1>1. /\ Len(Append(s, f)) = Len(s) + 1 /\ Len(s) \in Nat
      /\ \A i \in 1 .. Len(s) : Append(s, f)[i] = s[i]
      /\ Append(s, f)[Len(s) + 1] = f
  BY AppendProperties, LenProperties
<1>2. PICK t : t = Append(s, f)
  OBVIOUS
<1>3. \A i \in 1 .. Len(t) : \/ i \in 1 .. Len(s) /\ t[i] = s[i]
                             \/ i = Len(s) + 1 /\ t[i].what = to + 1
  BY <1>1, <1>2
<1>4. ASSUME NEW i \in 1 .. Len(t), t[i].kind = kind
      PROVE  from < t[i].what /\ t[i].what <= to + 1
  <2>1. CASE i \in 1 .. Len(s) /\ t[i] = s[i]
    <3>1. from < t[i].what /\ t[i].what <= to /\ t[i].what \in Int
      BY <1>4, <2>1 DEF Numbered
    <3> QED BY <3>1
  <2>2. CASE i = Len(s) + 1 /\ t[i].what = to + 1
    BY <2>2
  <2> QED BY <1>3, <2>1, <2>2
<1>5. ASSUME NEW i \in 1 .. Len(t), NEW j \in 1 .. Len(t),
             i < j, t[i].kind = kind, t[j].kind = kind
      PROVE  t[i].what < t[j].what
  <2>1. i \in 1 .. Len(s) /\ t[i] = s[i]
    BY <1>1, <1>2, <1>3, <1>5
  <2>2. t[i].what <= to /\ t[i].what \in Int
    BY <1>5, <2>1 DEF Numbered
  <2>3. CASE j \in 1 .. Len(s) /\ t[j] = s[j]
    BY <1>5, <2>1, <2>3 DEF Numbered
  <2>4. CASE t[j].what = to + 1
    BY <2>2, <2>4
  <2> QED BY <1>3, <2>3, <2>4
<1>6. ASSUME NEW n \in from + 1 .. to + 1
      PROVE  \E i \in 1 .. Len(t) : t[i].kind = kind /\ t[i].what = n
  <2>1. CASE n = to + 1
    <3>1. Len(s) + 1 \in 1 .. Len(t) /\ t[Len(s) + 1] = f
      BY <1>1, <1>2
    <3> QED BY <2>1, <3>1
  <2>2. CASE n # to + 1
    <3>1. n \in from + 1 .. to
      BY <2>2
    <3>2. PICK i \in 1 .. Len(s) : s[i].kind = kind /\ s[i].what = n
      BY <3>1 DEF Numbered
    <3>3. i \in 1 .. Len(t) /\ t[i] = s[i]
      BY <1>1, <1>2
    <3> QED BY <3>2, <3>3
  <2> QED BY <2>1, <2>2
<1>7. Numbered(t, kind, from, to + 1)
  BY <1>4, <1>5, <1>6 DEF Numbered
<1> QED BY <1>2, <1>7

(* The first of its kind is the one after from.                            *)
LEMMA FirstComesOff ==
  ASSUME NEW S, NEW s \in Seq(S), s # <<>>, NEW kind, NEW from \in Nat, NEW to \in Nat,
         Head(s).kind = kind,
         \A i \in 1 .. Len(s) : s[i].kind = kind => s[i].what \in Int,
         Numbered(s, kind, from, to)
  PROVE  /\ Head(s).what = from + 1 /\ from + 1 <= to
         /\ Numbered(Tail(s), kind, from + 1, to)
<1>1. /\ Len(s) \in Nat \ {0} /\ Head(s) = s[1] /\ Len(Tail(s)) = Len(s) - 1
      /\ \A i \in 1 .. Len(Tail(s)) : Tail(s)[i] = s[i + 1]
  BY HeadTailProperties, LenProperties, EmptySeq
<1>2. 1 \in 1 .. Len(s) /\ s[1].kind = kind
  BY <1>1
<1>3. from < s[1].what /\ s[1].what <= to /\ s[1].what \in Int
  BY <1>2 DEF Numbered
<1>4. PICK k \in 1 .. Len(s) : s[k].kind = kind /\ s[k].what = from + 1
  <2>1. from + 1 \in from + 1 .. to
    BY <1>3
  <2> QED BY <2>1 DEF Numbered
<1>5. k = 1
  <2>1. k # 1 => 1 < k
    BY <1>1
  <2>2. 1 < k => s[1].what < s[k].what
    BY <1>2, <1>4 DEF Numbered
  <2>3. ~(s[1].what < s[k].what)
    BY <1>3, <1>4
  <2> QED BY <2>1, <2>2, <2>3
<1>6. s[1].what = from + 1
  BY <1>4, <1>5
<1>7. PICK t : t = Tail(s)
  OBVIOUS
<1>8. \A i \in 1 .. Len(t) : i + 1 \in 1 .. Len(s) /\ t[i] = s[i + 1] /\ 1 < i + 1
  BY <1>1, <1>7
<1>9. ASSUME NEW i \in 1 .. Len(t), t[i].kind = kind
      PROVE  from + 1 < t[i].what /\ t[i].what <= to
  <2>1. s[1].what < s[i + 1].what /\ s[i + 1].what <= to
    BY <1>2, <1>8, <1>9 DEF Numbered
  <2> QED BY <1>6, <1>8, <2>1
<1>10. ASSUME NEW i \in 1 .. Len(t), NEW j \in 1 .. Len(t),
              i < j, t[i].kind = kind, t[j].kind = kind
       PROVE  t[i].what < t[j].what
  <2>1. i + 1 < j + 1
    BY <1>10
  <2>2. /\ i + 1 \in 1 .. Len(s) /\ t[i] = s[i + 1]
        /\ j + 1 \in 1 .. Len(s) /\ t[j] = s[j + 1]
    BY <1>8
  <2>3. s[i + 1].kind = kind /\ s[j + 1].kind = kind
    BY <1>10, <2>2
  <2>4. s[i + 1].what < s[j + 1].what
    BY <2>1, <2>2, <2>3 DEF Numbered
  <2> QED BY <2>2, <2>4
<1>11. ASSUME NEW n \in (from + 1) + 1 .. to
       PROVE  \E i \in 1 .. Len(t) : t[i].kind = kind /\ t[i].what = n
  <2>1. n \in from + 1 .. to /\ n # from + 1
    OBVIOUS
  <2>2. PICK i \in 1 .. Len(s) : s[i].kind = kind /\ s[i].what = n
    BY <2>1 DEF Numbered
  <2>3. i # 1
    BY <1>6, <2>1, <2>2
  <2>4. i - 1 \in 1 .. Len(t) /\ (i - 1) + 1 = i
    BY <1>1, <1>7, <2>3
  <2>5. t[i - 1] = s[i]
    BY <1>8, <2>4
  <2> QED BY <2>2, <2>4, <2>5
<1>12. Numbered(t, kind, from + 1, to)
  BY <1>9, <1>10, <1>11 DEF Numbered
<1> QED BY <1>1, <1>3, <1>6, <1>7, <1>12

(* Where there is none of a kind, none is missing.                         *)
LEMMA NoneMissing ==
  ASSUME NEW s, NEW kind, NEW from \in Nat, NEW to \in Nat, from <= to,
         \A i \in 1 .. Len(s) : s[i].kind # kind,
         Numbered(s, kind, from, to)
  PROVE  from = to
<1>1. from < to => from + 1 \in from + 1 .. to
  OBVIOUS
<1> QED BY <1>1 DEF Numbered

LEMMA NoneYet ==
  ASSUME NEW kind, NEW from \in Nat
  PROVE  Numbered(<<>>, kind, from, from)
<1>1. Len(<<>>) = 0 /\ ~ \E n \in from + 1 .. from : TRUE
  OBVIOUS
<1> QED BY <1>1 DEF Numbered

-----------------------------------------------------------------------------
(* Input                                                                   *)

(* While the command reads, what it has read and has been fed, then what   *)
(* the copier holds, then what the loop holds, then what is on its way to  *)
(* the loop, are the pieces that were sent, each once and in order.        *)
Reading == reads /\ command # "ended"

Fed == Len(eaten) + Len(fed)

InHand == Fed + (IF copier = "writing" THEN 1 ELSE 0)

Handed == InHand + (IF loop = "write" THEN 1 ELSE 0)

Feeding ==
  /\ Consecutive(fed, Len(eaten))
  /\ copier = "writing" => chunk = Fed + 1
  /\ loop = "write" => held = InHand + 1
  /\ Handed <= sent
  /\ loop # "ended" => Numbered(up, "stdin", Handed, sent)

InOrder == Consecutive(eaten, 0) /\ Len(eaten) <= sent /\ (Reading => Feeding)

LEMMA Lengths ==
  ASSUME TypeOK
  PROVE  /\ Len(eaten) \in Nat /\ Len(fed) \in Nat /\ sent \in Nat /\ chunk \in Nat /\ held \in Nat
         /\ Fed \in Nat /\ InHand \in Nat /\ Handed \in Nat
         /\ eaten \in Seq(1 .. MaxTyped) /\ fed \in Seq(1 .. MaxTyped) /\ up \in Seq(UpFrames)
         /\ \A i \in 1 .. Len(up) : up[i].kind = "stdin" => up[i].what \in Int
<1>1. /\ eaten \in Seq(1 .. MaxTyped) /\ fed \in Seq(1 .. MaxTyped)
      /\ up \in Seq(UpFrames) /\ chunk \in Nat /\ held \in Nat
  BY DEF TypeOK
<1>2. typed \in 0 .. MaxTyped /\ sent \in 0 .. typed
  BY DEF TypeOK
<1>3. sent \in Nat
  BY <1>2
<1>4. Len(eaten) \in Nat /\ Len(fed) \in Nat
  BY <1>1, LenProperties
<1>5. Fed \in Nat /\ InHand \in Nat /\ Handed \in Nat
  BY <1>4 DEF Fed, InHand, Handed
<1>6. ASSUME NEW i \in 1 .. Len(up), up[i].kind = "stdin"
      PROVE  up[i].what \in Int
  <2>1. up[i] \in UpFrames
    BY <1>1, ElementOfSeq
  <2> QED BY <1>6, <2>1, UpFrameTypes, ExecAssumption
<1> QED BY <1>1, <1>3, <1>4, <1>5, <1>6

(* Most steps touch nothing of the input. *)
LEMMA StaysInOrder ==
  ASSUME InOrder, UNCHANGED <<eaten, fed, up, sent>>, Reading' => Reading,
         (copier' = copier /\ chunk' = chunk) \/ "writing" \notin {copier, copier'},
         (loop' = loop /\ held' = held) \/ "write" \notin {loop, loop'},
         loop = "ended" => loop' = "ended"
  PROVE  InOrder'
<1>1. copier' = "writing" <=> copier = "writing"
  OBVIOUS
<1>2. loop' = "write" <=> loop = "write"
  OBVIOUS
<1>3. Fed' = Fed
  BY DEF Fed
<1>4. InHand' = InHand
  BY <1>1, <1>3 DEF InHand
<1>5. Handed' = Handed
  BY <1>2, <1>4 DEF Handed
<1>6. Consecutive(eaten, 0)' /\ (Consecutive(fed, Len(eaten)) => Consecutive(fed, Len(eaten))')
  BY DEF InOrder, Consecutive
<1>7. Numbered(up, "stdin", Handed, sent) => Numbered(up, "stdin", Handed, sent)'
  BY <1>5 DEF Numbered
<1>8. Feeding => Feeding'
  BY <1>1, <1>2, <1>3, <1>4, <1>5, <1>6, <1>7 DEF Feeding
<1> QED BY <1>6, <1>8 DEF InOrder

(* Nothing is expected of what nobody reads. *)
LEMMA UnreadInOrder ==
  ASSUME InOrder, ~Reading', UNCHANGED <<eaten, sent>>
  PROVE  InOrder'
BY DEF InOrder, Consecutive

(* A frame without input is sent. *)
LEMMA SentInOrder ==
  ASSUME Sound, InOrder, NEW f \in UpFrames, f.kind # "stdin", Send(f),
         UNCHANGED <<eaten, fed, reads, command, copier, chunk, loop, held, sent>>
  PROVE  InOrder'
<1>1. up' = Append(up, f) /\ up \in Seq(UpFrames)
  BY DEF Send, Sound, TypeOK
<1>2. Numbered(up, "stdin", Handed, sent) => Numbered(up', "stdin", Handed, sent)
  BY <1>1, OtherKindGoesOn
<1>3. Fed' = Fed /\ InHand' = InHand /\ Handed' = Handed /\ (Reading' <=> Reading)
  BY DEF Fed, InHand, Handed, Reading
<1>4. Numbered(up, "stdin", Handed, sent) => Numbered(up, "stdin", Handed, sent)'
  BY <1>2, <1>3
<1>5. Consecutive(eaten, 0)' /\ (Consecutive(fed, Len(eaten)) => Consecutive(fed, Len(eaten))')
  BY DEF InOrder, Consecutive
<1>6. Feeding => Feeding'
  BY <1>3, <1>4, <1>5 DEF Feeding
<1> QED BY <1>3, <1>5, <1>6 DEF InOrder

(* The next piece is sent. *)
LEMMA RelayStdinInOrder == ASSUME Sound, InOrder, RelayStdin PROVE InOrder'
<1>1. /\ sent' = sent + 1 /\ up' = Append(up, Frame("stdin", sent + 1)) /\ sent < typed
      /\ UNCHANGED <<eaten, fed, reads, command, copier, chunk, loop, held>>
  BY DEF RelayStdin, Send, serverVars, inputVars, commandVars
<1>2. TypeOK /\ sent + 1 \in 1 .. MaxTyped
  BY <1>1, ExecAssumption DEF Sound, TypeOK
<1>3. PICK f \in UpFrames : f = Frame("stdin", sent + 1) /\ f.kind = "stdin" /\ f.what = sent + 1
  BY <1>2, UpFrameTypes DEF Frame
<1>4. Fed' = Fed /\ InHand' = InHand /\ Handed' = Handed /\ (Reading' <=> Reading)
  BY <1>1 DEF Fed, InHand, Handed, Reading
<1>5. Consecutive(eaten, 0)' /\ (Consecutive(fed, Len(eaten)) => Consecutive(fed, Len(eaten))')
  BY <1>1 DEF InOrder, Consecutive
<1>6. Len(eaten)' <= sent' /\ (Handed <= sent => Handed' <= sent')
  BY <1>1, <1>2, <1>4, Lengths DEF InOrder
<1>7. Handed <= sent /\ Numbered(up, "stdin", Handed, sent)
        => Numbered(up, "stdin", Handed, sent)'
  <2> SUFFICES ASSUME Handed <= sent, Numbered(up, "stdin", Handed, sent)
               PROVE  Numbered(up', "stdin", Handed', sent')
    OBVIOUS
  <2>1. Numbered(Append(up, f), "stdin", Handed, sent + 1)
    BY <1>2, <1>3, Lengths, NextGoesOn
  <2> QED BY <1>1, <1>3, <1>4, <2>1
<1>8. Feeding => Feeding'
  BY <1>1, <1>4, <1>5, <1>6, <1>7 DEF Feeding
<1> QED BY <1>4, <1>5, <1>6, <1>8 DEF InOrder

(* The first frame is not input. *)
LEMMA AcceptInOrder == ASSUME Sound, InOrder, Accept PROVE InOrder'
<1>1. /\ up # <<>> /\ up' = Tail(up) /\ loop = "none" /\ loop' = "recv"
      /\ UNCHANGED <<eaten, fed, reads, command, copier, chunk, held, sent>>
  BY DEF Accept, Sound, Sizing, clientVars, inputVars, commandVars
<1>2. Head(up) = up[1] /\ Head(up) \in UpFrames /\ up \in Seq(UpFrames)
  BY <1>1, Received DEF Sound, TypeOK
<1>3. Head(up).kind # "stdin"
  BY <1>2 DEF Accept, Sound, Sizing
<1>4. Numbered(up, "stdin", Handed, sent) => Numbered(up', "stdin", Handed, sent)
  BY <1>1, <1>2, <1>3, OtherKindComesOff
<1>5. Fed' = Fed /\ InHand' = InHand /\ Handed' = Handed /\ (Reading' <=> Reading)
  BY <1>1 DEF Fed, InHand, Handed, Reading
<1>6. Numbered(up, "stdin", Handed, sent) => Numbered(up, "stdin", Handed, sent)'
  BY <1>1, <1>4, <1>5
<1>7. Consecutive(eaten, 0)' /\ (Consecutive(fed, Len(eaten)) => Consecutive(fed, Len(eaten))')
  BY <1>1 DEF InOrder, Consecutive
<1>8. Feeding => Feeding'
  BY <1>1, <1>5, <1>6, <1>7 DEF Feeding
<1> QED BY <1>1, <1>5, <1>7, <1>8 DEF InOrder

(* The loop takes the next piece, or a frame that is none, or leaves. *)
LEMMA LoopRecvInOrder == ASSUME Sound, InOrder, LoopRecv PROVE InOrder'
<1>1. /\ up # <<>> /\ up' = Tail(up) /\ loop = "recv"
      /\ UNCHANGED <<eaten, fed, reads, command, copier, chunk, sent>>
  BY DEF LoopRecv, clientVars, inputVars, commandVars
<1>2. PICK f \in UpFrames : f = Head(up) /\ f = up[1] /\ f.kind # "start" /\ up \in Seq(UpFrames)
  <2>1. Head(up) = up[1] /\ Head(up) \in UpFrames /\ up \in Seq(UpFrames)
    BY <1>1, Received DEF Sound, TypeOK
  <2>2. 1 \in 1 .. Len(up)
    BY <1>1, <2>1, LenProperties, EmptySeq
  <2>3. Head(up).kind # "start"
    BY <2>1, <2>2 DEF LoopRecv, Alive, Sound, Sizing
  <2> QED BY <2>1, <2>3
<1>3. Fed' = Fed /\ InHand' = InHand /\ (Reading' <=> Reading) /\ Handed = InHand
  BY <1>1, Lengths DEF Fed, InHand, Handed, Reading, Sound
<1>4. Consecutive(eaten, 0)' /\ (Consecutive(fed, Len(eaten)) => Consecutive(fed, Len(eaten))')
  BY <1>1 DEF InOrder, Consecutive
<1>5. Len(eaten)' <= sent'
  BY <1>1 DEF InOrder
<1>6. CASE f.kind = "stdin" /\ ~closed
  <2>1. loop' = "write" /\ held' = f.what
    BY <1>2, <1>6 DEF LoopRecv
  <2>2. ASSUME Feeding PROVE Feeding'
    <3>1. Numbered(up, "stdin", Handed, sent)
      BY <1>1, <2>2 DEF Feeding
    <3>2. f.what = Handed + 1 /\ Handed + 1 <= sent /\ Numbered(Tail(up), "stdin", Handed + 1, sent)
      <4>1. Head(up).kind = "stdin"
        BY <1>2, <1>6
      <4>2. /\ Head(up).what = Handed + 1 /\ Handed + 1 <= sent
            /\ Numbered(Tail(up), "stdin", Handed + 1, sent)
        BY <1>1, <3>1, <4>1, Lengths, FirstComesOff DEF Sound
      <4> QED BY <1>2, <4>2
    <3>3. Handed' = Handed + 1
      BY <1>3, <2>1 DEF Handed
    <3>4. held' = InHand' + 1 /\ Handed' <= sent'
      BY <1>1, <1>3, <2>1, <3>2, <3>3
    <3>5. Numbered(up, "stdin", Handed, sent)'
      BY <1>1, <3>2, <3>3
    <3>6. copier' = "writing" => chunk' = Fed' + 1
      BY <1>1, <1>3, <2>2 DEF Feeding
    <3> QED BY <1>4, <2>2, <3>4, <3>5, <3>6 DEF Feeding
  <2> QED BY <1>3, <1>4, <1>5, <2>2 DEF InOrder
<1>7. CASE ~(f.kind = "stdin" /\ ~closed)
  <2>1. loop' # "write" /\ (loop' # "ended" => f.kind # "stdin")
    <3>1. CASE f.kind = "stdin"
      BY <1>1, <1>2, <1>7, <3>1 DEF LoopRecv, Leave
    <3>2. CASE f.kind = "resize"
      <4>1. loop' = "resize"
        BY <1>2, <3>2 DEF LoopRecv
      <4> QED BY <3>2, <4>1
    <3>3. CASE f.kind = "close"
      <4>1. loop' = loop
        BY <1>2, <3>3 DEF LoopRecv
      <4> QED BY <1>1, <3>3, <4>1
    <3> QED BY <1>2, <3>1, <3>2, <3>3, UpFrameTypes
  <2>2. Handed' = Handed
    BY <1>3, <2>1, Lengths DEF Handed, Sound
  <2>3. ASSUME Feeding PROVE Feeding'
    <3>1. Numbered(up, "stdin", Handed, sent)
      BY <1>1, <2>3 DEF Feeding
    <3>2. loop' # "ended" => Numbered(up, "stdin", Handed, sent)'
      <4> SUFFICES ASSUME loop' # "ended" PROVE Numbered(up', "stdin", Handed', sent')
        OBVIOUS
      <4>1. Head(up).kind # "stdin"
        BY <1>2, <2>1
      <4>2. Numbered(Tail(up), "stdin", Handed, sent)
        BY <1>1, <1>2, <3>1, <4>1, OtherKindComesOff
      <4> QED BY <1>1, <2>2, <4>2
    <3>3. copier' = "writing" => chunk' = Fed' + 1
      BY <1>1, <1>3, <2>3 DEF Feeding
    <3>4. Handed' <= sent'
      BY <1>1, <2>2, <2>3 DEF Feeding
    <3> QED BY <1>4, <2>1, <2>3, <3>2, <3>3, <3>4 DEF Feeding
  <2> QED BY <1>3, <1>4, <1>5, <2>3 DEF InOrder
<1> QED BY <1>6, <1>7

(* The copier takes the piece that the loop holds. *)
LEMMA CopierReadInOrder == ASSUME Sound, InOrder, CopierRead PROVE InOrder'
<1>1. /\ copier = "reading" /\ loop = "write"
      /\ chunk' = held /\ copier' = "writing" /\ loop' = "recv"
      /\ UNCHANGED <<eaten, fed, reads, command, sent, up>>
  BY DEF CopierRead, clientVars, commandVars
<1>2. /\ Fed' = Fed /\ (Reading' <=> Reading) /\ InHand = Fed
      /\ InHand' = Fed + 1 /\ Handed = Fed + 1 /\ Handed' = Fed + 1
  BY <1>1, Lengths DEF Fed, InHand, Handed, Reading, Sound
<1>3. Consecutive(eaten, 0)' /\ (Consecutive(fed, Len(eaten)) => Consecutive(fed, Len(eaten))')
  BY <1>1 DEF InOrder, Consecutive
<1>4. Numbered(up, "stdin", Handed, sent) => Numbered(up, "stdin", Handed, sent)'
  BY <1>1, <1>2 DEF Numbered
<1>5. ASSUME Feeding PROVE Feeding'
  <2>1. chunk' = Fed' + 1 /\ Handed' <= sent'
    BY <1>1, <1>2, <1>5 DEF Feeding
  <2> QED BY <1>1, <1>3, <1>4, <1>5, <2>1 DEF Feeding
<1> QED BY <1>1, <1>2, <1>3, <1>5 DEF InOrder

(* The copier feeds the command what it holds. *)
LEMMA CopierWriteInOrder == ASSUME Sound, InOrder, CopierWrite PROVE InOrder'
<1>1. /\ copier = "writing" /\ copier' = "reading" /\ fed' = Append(fed, chunk)
      /\ UNCHANGED <<eaten, reads, command, sent, up, loop, held>>
  BY DEF CopierWrite, clientVars, serverVars
<1>2. chunk \in 1 .. MaxTyped /\ fed \in Seq(1 .. MaxTyped)
  BY <1>1 DEF Sound, TypeOK
<1>3. Len(fed') = Len(fed) + 1
  BY <1>1, <1>2, AppendProperties
<1>4. /\ Fed' = Fed + 1 /\ (Reading' <=> Reading) /\ InHand = Fed + 1 /\ InHand' = Fed + 1
      /\ Handed' = Handed
  <2>1. Fed' = Fed + 1
    BY <1>1, <1>3, Lengths DEF Fed, Sound
  <2>2. InHand = Fed + 1 /\ InHand' = Fed + 1
    BY <1>1, <2>1, Lengths DEF InHand, Sound
  <2> QED BY <1>1, <2>1, <2>2 DEF Handed, Reading
<1>5. Consecutive(eaten, 0)'
  BY <1>1 DEF InOrder, Consecutive
<1>6. ASSUME Feeding PROVE Feeding'
  <2>1. chunk = Len(eaten) + Len(fed) + 1
    BY <1>1, <1>6 DEF Feeding, Fed
  <2>2. Consecutive(Append(fed, chunk), Len(eaten))
    BY <1>2, <1>6, <2>1, Lengths, ConsecutiveGrows DEF Feeding, Sound
  <2>3. Consecutive(fed, Len(eaten))'
    BY <1>1, <2>2
  <2>4. (loop' = "write" => held' = InHand' + 1) /\ Handed' <= sent'
    BY <1>1, <1>4, <1>6 DEF Feeding
  <2>5. loop' # "ended" => Numbered(up, "stdin", Handed, sent)'
    BY <1>1, <1>4, <1>6 DEF Feeding, Numbered
  <2> QED BY <1>1, <2>3, <2>4, <2>5 DEF Feeding
<1> QED BY <1>1, <1>4, <1>5, <1>6 DEF InOrder

(* The command reads the piece after the last. *)
LEMMA Reads ==
  ASSUME Sound, InOrder, CmdReads, fed # <<>>,
         eaten' = Append(eaten, Head(fed)), fed' = Tail(fed)
  PROVE  InOrder' /\ Head(fed) = Len(eaten) + 1 /\ Len(eaten) < sent
<1>1. /\ UNCHANGED <<reads, command, sent, up, copier, chunk, loop, held>>
      /\ Reading /\ Feeding
  BY DEF CmdReads, Runs, Reading, InOrder, clientVars, serverVars, inputVars
<1>2. /\ Head(fed) = Len(eaten) + 1 /\ Consecutive(Tail(fed), Len(eaten) + 1)
      /\ Len(Tail(fed)) = Len(fed) - 1 /\ Len(fed) \in Nat \ {0}
  BY <1>1, Lengths, ConsecutiveShrinks DEF Feeding, Sound
<1>3. Head(fed) \in 1 .. MaxTyped /\ eaten \in Seq(1 .. MaxTyped)
  BY HeadTailProperties DEF Sound, TypeOK
<1>4. /\ Consecutive(Append(eaten, Head(fed)), 0)
      /\ Len(Append(eaten, Head(fed))) = Len(eaten) + 1
  <2>1. Head(fed) = 0 + Len(eaten) + 1
    BY <1>2, Lengths DEF Sound
  <2>2. PICK e \in 1 .. MaxTyped : e = Head(fed) /\ e = 0 + Len(eaten) + 1
    BY <1>3, <2>1
  <2>3. 0 \in Nat /\ Consecutive(eaten, 0)
    BY DEF InOrder
  <2>4. Consecutive(Append(eaten, e), 0) /\ Len(Append(eaten, e)) = Len(eaten) + 1
    BY <1>3, <2>2, <2>3, ConsecutiveGrows
  <2> QED BY <2>2, <2>4
<1>5. Len(eaten') = Len(eaten) + 1 /\ Len(fed') = Len(fed) - 1
  BY <1>2, <1>4
<1>6. Fed' = Fed
  BY <1>2, <1>5, Lengths DEF Fed, Sound
<1>7. InHand' = InHand /\ Handed' = Handed /\ (Reading' <=> Reading)
  BY <1>1, <1>6 DEF InHand, Handed, Reading
<1>8. Len(eaten) + 1 <= sent
  <2>1. Fed <= InHand /\ InHand <= Handed /\ Handed <= sent
    BY <1>1, Lengths DEF Feeding, InHand, Handed, Sound
  <2> QED BY <1>2, <2>1, Lengths DEF Fed, Sound
<1>9. Consecutive(eaten, 0)' /\ Consecutive(fed, Len(eaten))'
  BY <1>2, <1>4, <1>5
<1>10. Numbered(up, "stdin", Handed, sent) => Numbered(up, "stdin", Handed, sent)'
  BY <1>1, <1>7 DEF Numbered
<1>11. Feeding'
  BY <1>1, <1>6, <1>7, <1>9, <1>10 DEF Feeding
<1>12. Len(eaten)' <= sent'
  BY <1>1, <1>5, <1>8
<1>13. Len(eaten) < sent
  BY <1>8, Lengths DEF Sound
<1> QED BY <1>2, <1>9, <1>11, <1>12, <1>13 DEF InOrder

(* Input is copied once there is a command for it. *)
Unfed == command = "unborn" => copier = "none"

LEMMA StepUnfed == ASSUME Unfed, [Next]_vars PROVE Unfed'
<1> USE DEF userVars, clientVars, serverVars, inputVars, commandVars
<1>1. CASE \/ Type \/ EndInput \/ Resize \/ ClientGone \/ DaemonDies \/ CmdReads \/ CmdStopsReading
           \/ Sending \/ Receive \/ Lost \/ Accept \/ Refuse \/ Finish \/ Looping \/ Sized
           \/ \E o \in Outputs : CmdPrints(o) \/ OutCopy(o)
           \/ UNCHANGED vars
  <2>1. UNCHANGED <<command, copier>>
    BY <1>1
    DEF Type, EndInput, Resize, ClientGone, DaemonDies, CmdReads, CmdStopsReading, Sending, Pump,
        PumpOut, Open, RelayStdin, RelayEnd, RelayResize, Receive, Lost, Accept, Refuse, Finish,
        Looping, LoopRecv, LoopResize, LoopEnds, Sized, CmdPrints, OutCopy, vars
  <2> QED BY <2>1 DEF Unfed
<1>2. CASE Begin \/ CmdExits \/ Kill
  BY <1>2 DEF Begin, CmdExits, Kill, Unfed
<1>3. CASE Copying
  BY <1>3 DEF Copying, CopierRead, CopierEnds, CopierWrite, CopierFails, Unfed
<1> QED BY <1>1, <1>2, <1>3 DEF Next, Environment, Handling

LEMMA StepInOrder == ASSUME Sound, Unfed, InOrder, [Next]_vars PROVE InOrder'
<1> TypeOK /\ Sizing
  BY DEF Sound
<1> USE DEF userVars, clientVars, serverVars, inputVars, commandVars
<1>1. CASE \/ Type \/ EndInput \/ Resize \/ ClientGone \/ DaemonDies \/ Pump \/ PumpOut
           \/ Receive \/ Lost \/ Refuse \/ Finish \/ Sized
           \/ \E o \in Outputs : CmdPrints(o) \/ OutCopy(o)
           \/ UNCHANGED vars
  <2>1. UNCHANGED <<eaten, fed, copier, chunk, loop, held, up, sent, reads, command>>
    BY <1>1 DEF Type, EndInput, Resize, ClientGone, DaemonDies, Pump, PumpOut, Receive, Lost,
                Refuse, Finish, Sized, CmdPrints, OutCopy, vars
  <2> QED BY <2>1, StaysInOrder DEF Reading
<1>2. CASE Open
  <2>1. Frame("start", First(sizes)) \in UpFrames /\ Frame("start", First(sizes)).kind # "stdin"
    BY UpFrameTypes, Channels DEF TypeOK, Frame
  <2> QED BY <1>2, <2>1, SentInOrder DEF Open
<1>3. CASE RelayStdin
  BY <1>3, RelayStdinInOrder
<1>4. CASE RelayEnd
  <2>1. Frame("close", 0) \in UpFrames /\ Frame("close", 0).kind # "stdin"
    BY UpFrameTypes DEF Frame
  <2> QED BY <1>4, <2>1, SentInOrder DEF RelayEnd
<1>5. CASE RelayResize
  <2>1. /\ Frame("resize", Head(sizes)) \in UpFrames
        /\ Frame("resize", Head(sizes)).kind # "stdin"
    BY <1>5, UpFrameTypes, HeadTailProperties DEF RelayResize, TypeOK, Frame
  <2> QED BY <1>5, <2>1, SentInOrder DEF RelayResize
<1>6. CASE Accept
  BY <1>6, AcceptInOrder
<1>7. CASE Begin
  <2>1. /\ UNCHANGED <<eaten, fed, up, sent, chunk, loop, held, reads>> /\ copier' = "reading"
        /\ command = "unborn"
    BY <1>7 DEF Begin, Sizing
  <2>2. Reading' => Reading
    BY <2>1 DEF Reading
  <2>3. copier # "writing"
    BY <2>1 DEF Unfed
  <2> QED BY <2>1, <2>2, <2>3, StaysInOrder
<1>8. CASE CmdExits \/ Kill
  <2>1. ~Reading' /\ UNCHANGED <<eaten, sent>>
    BY <1>8 DEF CmdExits, Kill, Reading
  <2> QED BY <2>1, UnreadInOrder
<1>9. CASE CmdStopsReading
  <2>1. ~Reading' /\ UNCHANGED <<eaten, sent>>
    BY <1>9 DEF CmdStopsReading, Reading
  <2> QED BY <2>1, UnreadInOrder
<1>10. CASE CopierFails
  <2>1. ~Reading' /\ UNCHANGED <<eaten, sent>>
    BY <1>10 DEF CopierFails, Reading
  <2> QED BY <2>1, UnreadInOrder
<1>11. CASE LoopRecv
  BY <1>11, LoopRecvInOrder
<1>12. CASE LoopResize
  BY <1>12, StaysInOrder DEF LoopResize, Reading
<1>13. CASE LoopEnds
  BY <1>13, StaysInOrder DEF LoopEnds, Leave, Reading
<1>14. CASE CopierRead
  BY <1>14, CopierReadInOrder
<1>15. CASE CopierEnds
  BY <1>15, StaysInOrder DEF CopierEnds, Reading
<1>16. CASE CopierWrite
  BY <1>16, CopierWriteInOrder
<1>17. CASE CmdReads
  <2>1. CASE fed # <<>> /\ eaten' = Append(eaten, Head(fed)) /\ fed' = Tail(fed)
    BY <1>17, <2>1, Reads
  <2>2. CASE UNCHANGED <<eaten, fed>>
    BY <1>17, <2>2, StaysInOrder DEF CmdReads, Reading
  <2> QED BY <1>17, <2>1, <2>2 DEF CmdReads
<1> QED
  BY <1>1, <1>2, <1>3, <1>4, <1>5, <1>6, <1>7, <1>8, <1>9, <1>10, <1>11, <1>12, <1>13, <1>14,
     <1>15, <1>16, <1>17
  DEF Next, Environment, Sending, Handling, Looping, Copying

-----------------------------------------------------------------------------
(* Output                                                                  *)

(* How much of an output has been copied from the command. *)
Copied(o) == printed[o] - Len(obuf[o])

(* What was copied and is not shown is on its way, each piece once and in  *)
(* order.                                                                  *)
Flowing(o) ==
  /\ Len(obuf[o]) <= printed[o]
  /\ Consecutive(obuf[o], Copied(o))
  /\ Len(shown[o]) <= Copied(o)
  /\ Numbered(down, o, Len(shown[o]), Copied(o))

(* An exit code is the command's own and follows all of its output, and a  *)
(* stream ends in good order only after one.                               *)
Ending(frames) ==
  /\ \A i \in 1 .. Len(frames) :
       frames[i].kind = "exit" =>
         /\ frames[i].what = exit /\ exit # NoCode /\ Empty
         /\ \A j \in 1 .. Len(frames) : i < j => frames[j].kind \notin Outputs
  /\ \A i \in 1 .. Len(frames) :
       frames[i].kind = "status" /\ frames[i].what # Failed =>
         \E j \in 1 .. Len(frames) : j < i /\ frames[j].kind = "exit"

(* No exit code is on its way, and so no good end either.                  *)
Unended(frames) ==
  \A i \in 1 .. Len(frames) :
    frames[i].kind # "exit" /\ (frames[i].kind = "status" => frames[i].what = Failed)

Flow ==
  /\ command # "ended" => exit = NoCode
  /\ client # "done" => answer = NoCode /\ Ending(down) /\ \A o \in Outputs : Flowing(o)

LEMMA EndingGrows ==
  ASSUME NEW S, NEW s \in Seq(S), NEW f \in S, Ending(s),
         f.kind \notin Outputs,
         f.kind = "exit" => f.what = exit /\ exit # NoCode /\ Empty,
         f.kind = "status" => f.what = Failed \/ \E i \in 1 .. Len(s) : s[i].kind = "exit"
  PROVE  Ending(Append(s, f))
<1>1. /\ Len(Append(s, f)) = Len(s) + 1 /\ Len(s) \in Nat
      /\ \A i \in 1 .. Len(s) : Append(s, f)[i] = s[i]
      /\ Append(s, f)[Len(s) + 1] = f
  BY AppendProperties, LenProperties
<1>2. PICK t : t = Append(s, f)
  OBVIOUS
<1>3. \A i \in 1 .. Len(t) : \/ i \in 1 .. Len(s) /\ t[i] = s[i]
                             \/ i = Len(s) + 1 /\ t[i] = f
  BY <1>1, <1>2
<1>4. \A i \in 1 .. Len(s) : i \in 1 .. Len(t) /\ t[i] = s[i] /\ i < Len(s) + 1
  BY <1>1, <1>2
<1>5. ASSUME NEW i \in 1 .. Len(t), t[i].kind = "exit"
      PROVE  /\ t[i].what = exit /\ exit # NoCode /\ Empty
             /\ \A j \in 1 .. Len(t) : i < j => t[j].kind \notin Outputs
  <2>1. CASE i \in 1 .. Len(s) /\ t[i] = s[i]
    <3>1. /\ s[i].what = exit /\ exit # NoCode /\ Empty
          /\ \A j \in 1 .. Len(s) : i < j => s[j].kind \notin Outputs
      BY <1>5, <2>1 DEF Ending
    <3>2. \A j \in 1 .. Len(t) : i < j => t[j].kind \notin Outputs
      BY <1>3, <3>1
    <3> QED BY <2>1, <3>1, <3>2
  <2>2. CASE i = Len(s) + 1 /\ t[i] = f
    <3>1. \A j \in 1 .. Len(t) : ~(i < j)
      BY <1>1, <1>2, <2>2
    <3>2. t[i].what = exit /\ exit # NoCode /\ Empty
      BY <1>5, <2>2
    <3> QED BY <3>1, <3>2
  <2> QED BY <1>3, <2>1, <2>2
<1>6. ASSUME NEW i \in 1 .. Len(t), t[i].kind = "status", t[i].what # Failed
      PROVE  \E j \in 1 .. Len(t) : j < i /\ t[j].kind = "exit"
  <2>1. CASE i \in 1 .. Len(s) /\ t[i] = s[i]
    <3>1. PICK j \in 1 .. Len(s) : j < i /\ s[j].kind = "exit"
      BY <1>6, <2>1 DEF Ending
    <3> QED BY <1>4, <3>1
  <2>2. CASE i = Len(s) + 1 /\ t[i] = f
    <3>1. PICK j \in 1 .. Len(s) : s[j].kind = "exit"
      BY <1>6, <2>2
    <3>2. j \in 1 .. Len(t) /\ t[j].kind = "exit" /\ j < i
      BY <1>4, <2>2, <3>1
    <3> QED BY <3>2
  <2> QED BY <1>3, <2>1, <2>2
<1>7. Ending(t)
  BY <1>5, <1>6 DEF Ending
<1> QED BY <1>2, <1>7

LEMMA EndingShrinks ==
  ASSUME NEW S, NEW s \in Seq(S), s # <<>>, Ending(s), Head(s).kind # "exit"
  PROVE  Ending(Tail(s))
<1>1. /\ Len(s) \in Nat \ {0} /\ Head(s) = s[1] /\ Len(Tail(s)) = Len(s) - 1
      /\ \A i \in 1 .. Len(Tail(s)) : Tail(s)[i] = s[i + 1]
  BY HeadTailProperties, LenProperties, EmptySeq
<1>2. PICK t : t = Tail(s)
  OBVIOUS
<1>3. \A i \in 1 .. Len(t) : i + 1 \in 1 .. Len(s) /\ t[i] = s[i + 1]
  BY <1>1, <1>2
<1>4. ASSUME NEW i \in 1 .. Len(t), t[i].kind = "exit"
      PROVE  /\ t[i].what = exit /\ exit # NoCode /\ Empty
             /\ \A j \in 1 .. Len(t) : i < j => t[j].kind \notin Outputs
  <2>1. i + 1 \in 1 .. Len(s) /\ s[i + 1] = t[i]
    BY <1>3
  <2>2. /\ s[i + 1].what = exit /\ exit # NoCode /\ Empty
        /\ \A j \in 1 .. Len(s) : i + 1 < j => s[j].kind \notin Outputs
    BY <1>4, <2>1 DEF Ending
  <2>3. ASSUME NEW j \in 1 .. Len(t), i < j PROVE t[j].kind \notin Outputs
    <3>1. i + 1 < j + 1 /\ j + 1 \in 1 .. Len(s) /\ t[j] = s[j + 1]
      BY <1>3, <2>3
    <3> QED BY <2>2, <3>1
  <2> QED BY <2>1, <2>2, <2>3
<1>5. ASSUME NEW i \in 1 .. Len(t), t[i].kind = "status", t[i].what # Failed
      PROVE  \E j \in 1 .. Len(t) : j < i /\ t[j].kind = "exit"
  <2>1. i + 1 \in 1 .. Len(s) /\ s[i + 1] = t[i]
    BY <1>3
  <2>2. PICK j \in 1 .. Len(s) : j < i + 1 /\ s[j].kind = "exit"
    BY <1>5, <2>1 DEF Ending
  <2>3. j # 1
    BY <1>1, <2>2
  <2>4. j - 1 \in 1 .. Len(t) /\ j - 1 < i /\ (j - 1) + 1 = j
    BY <1>1, <1>2, <2>2, <2>3
  <2>5. t[j - 1] = s[j]
    BY <1>3, <2>4
  <2> QED BY <2>2, <2>4, <2>5
<1>6. Ending(t)
  BY <1>4, <1>5 DEF Ending
<1> QED BY <1>2, <1>6

(* While there is output left or the command runs, no end is on its way.   *)
LEMMA NoEndYet ==
  ASSUME NEW s, Ending(s), ~Empty \/ exit = NoCode
  PROVE  Unended(s)
<1>1. \A i \in 1 .. Len(s) : s[i].kind # "exit"
  BY DEF Ending
<1>2. \A i \in 1 .. Len(s) : s[i].kind = "status" => s[i].what = Failed
  BY <1>1 DEF Ending
<1> QED BY <1>1, <1>2 DEF Unended

LEMMA UnendedEnds ==
  ASSUME NEW s, Unended(s)
  PROVE  Ending(s) /\ Ending(s)'
BY DEF Unended, Ending

LEMMA UnendedGrows ==
  ASSUME NEW S, NEW s \in Seq(S), NEW f \in S, Unended(s), f.kind \in Outputs
  PROVE  Unended(Append(s, f))
<1>1. /\ Len(Append(s, f)) = Len(s) + 1 /\ Len(s) \in Nat
      /\ \A i \in 1 .. Len(s) : Append(s, f)[i] = s[i]
      /\ Append(s, f)[Len(s) + 1] = f
  BY AppendProperties, LenProperties
<1>2. PICK t : t = Append(s, f)
  OBVIOUS
<1>3. \A i \in 1 .. Len(t) : \/ i \in 1 .. Len(s) /\ t[i] = s[i]
                             \/ t[i] = f
  BY <1>1, <1>2
<1>4. f.kind # "exit" /\ f.kind # "status"
  BY DEF Outputs
<1>5. Unended(t)
  BY <1>3, <1>4 DEF Unended
<1> QED BY <1>2, <1>5

LEMMA JoinOne ==
  ASSUME NEW S, NEW s \in Seq(S), NEW f \in S
  PROVE  s \o <<f>> = Append(s, f)
OBVIOUS

LEMMA JoinTwo ==
  ASSUME NEW S, NEW s \in Seq(S), NEW f \in S, NEW g \in S
  PROVE  s \o <<f, g>> = Append(Append(s, f), g)
OBVIOUS

LEMMA Counts ==
  ASSUME TypeOK, NEW o \in Outputs
  PROVE  /\ printed[o] \in Nat /\ Len(obuf[o]) \in Nat /\ Len(shown[o]) \in Nat
         /\ obuf[o] \in Seq(1 .. MaxPrinted) /\ shown[o] \in Seq(1 .. MaxPrinted)
         /\ Copied(o) \in Int /\ (Len(obuf[o]) <= printed[o] => Copied(o) \in Nat)
         /\ down \in Seq(DownFrames)
         /\ \A i \in 1 .. Len(down) : down[i].kind = o => down[i].what \in Int
<1>1. /\ printed[o] \in Nat /\ obuf[o] \in Seq(1 .. MaxPrinted)
      /\ shown[o] \in Seq(1 .. MaxPrinted) /\ down \in Seq(DownFrames)
  BY ExecAssumption DEF TypeOK
<1>2. Len(obuf[o]) \in Nat /\ Len(shown[o]) \in Nat
  BY <1>1, LenProperties
<1>3. Copied(o) \in Int /\ (Len(obuf[o]) <= printed[o] => Copied(o) \in Nat)
  BY <1>1, <1>2 DEF Copied
<1>4. ASSUME NEW i \in 1 .. Len(down), down[i].kind = o
      PROVE  down[i].what \in Int
  <2>1. down[i] \in DownFrames
    BY <1>1, ElementOfSeq
  <2> QED BY <1>4, <2>1, DownFrameTypes, ExecAssumption
<1> QED BY <1>1, <1>2, <1>3, <1>4

(* Most steps touch nothing of the output. *)
LEMMA StaysFlowing ==
  ASSUME Flow, UNCHANGED <<down, shown, obuf, printed, exit, answer>>,
         client' # "done" => client # "done",
         command' # "ended" => command # "ended"
  PROVE  Flow'
<1>1. \A o \in Outputs : Flowing(o) => Flowing(o)'
  BY DEF Flowing, Copied, Consecutive, Numbered
<1>2. Ending(down) => Ending(down)'
  BY DEF Ending, Empty
<1> QED BY <1>1, <1>2 DEF Flow

(* Nothing is expected of what nobody is shown. *)
LEMMA GoneFlowing ==
  ASSUME Flow, client' = "done", exit' = exit, command' # "ended" => command # "ended"
  PROVE  Flow'
BY DEF Flow

(* A reply without output, to a client that is there. *)
LEMMA RepliedFlowing ==
  ASSUME Flow, client # "done", Ending(down'),
         \A o \in Outputs : Numbered(down, o, Len(shown[o]), Copied(o))
                               => Numbered(down', o, Len(shown[o]), Copied(o)),
         UNCHANGED <<shown, obuf, printed, exit, answer, client, command>>
  PROVE  Flow'
<1>1. ASSUME NEW o \in Outputs PROVE Flowing(o)'
  <2>1. Flowing(o)
    BY DEF Flow
  <2>2. Numbered(down', o, Len(shown[o]), Copied(o))
    BY <2>1 DEF Flowing
  <2>3. Copied(o)' = Copied(o)
    BY DEF Copied
  <2>4. Consecutive(obuf[o], Copied(o))'
    BY <2>1, <2>3 DEF Flowing, Consecutive
  <2> QED BY <2>1, <2>2, <2>3, <2>4 DEF Flowing
<1>2. Ending(down)'
  BY DEF Ending, Empty
<1> QED BY <1>1, <1>2 DEF Flow

LEMMA OutCopyFlowing == ASSUME Sound, Flow, NEW o \in Outputs, OutCopy(o) PROVE Flow'
<1>1. /\ obuf[o] # <<>> /\ obuf' = [obuf EXCEPT ![o] = Tail(obuf[o])]
      /\ UNCHANGED <<shown, printed, exit, answer, client, command>>
  BY DEF OutCopy, clientVars
<1>2. CASE client = "done"
  BY <1>1, <1>2, GoneFlowing
<1>3. CASE client # "done"
  <2>1. PICK f \in DownFrames : f = Frame(o, Head(obuf[o])) /\ f.kind = o /\ f.what = Head(obuf[o])
    <3>1. Head(obuf[o]) \in 1 .. MaxPrinted
      BY <1>1, Counts, HeadTailProperties DEF Sound
    <3> QED BY <3>1, DownFrameTypes DEF Frame
  <2>2. down \in Seq(DownFrames)
    BY Counts DEF Sound
  <2>3. down' = Append(down, f)
    BY <1>3, <2>1, <2>2, JoinOne DEF OutCopy, Reply
  <2>4. Unended(down')
    <3>1. ~Empty /\ Ending(down)
      BY <1>1, <1>3 DEF Empty, Flow
    <3> QED BY <2>1, <2>2, <2>3, <3>1, NoEndYet, UnendedGrows
  <2>5. Ending(down)'
    BY <2>4 DEF Unended, Ending
  <2>6. obuf \in [Outputs -> Seq(1 .. MaxPrinted)]
    BY DEF Sound, TypeOK
  <2>7. ASSUME NEW q \in Outputs PROVE Flowing(q)'
    <3>1. Flowing(q)
      BY <1>3 DEF Flow
    <3>2. CASE q = o
      <4>1. Copied(o) \in Nat /\ Consecutive(obuf[o], Copied(o))
        BY <3>1, <3>2, Counts DEF Flowing, Sound
      <4>2. /\ Head(obuf[o]) = Copied(o) + 1
            /\ Consecutive(Tail(obuf[o]), Copied(o) + 1)
            /\ Len(Tail(obuf[o])) = Len(obuf[o]) - 1
            /\ Len(obuf[o]) \in Nat \ {0}
        BY <1>1, <4>1, Counts, ConsecutiveShrinks DEF Sound
      <4>3. obuf'[o] = Tail(obuf[o])
        BY <1>1, <2>6
      <4>4. Copied(o)' = Copied(o) + 1
        <5>1. PICK p \in Nat, n \in Nat : p = printed[o] /\ n = Len(obuf[o])
          BY Counts DEF Sound
        <5>2. printed'[o] = p /\ Len(obuf'[o]) = n - 1
          BY <1>1, <4>2, <4>3, <5>1
        <5>3. Copied(o) = p - n /\ Copied(o)' = p - (n - 1)
          BY <5>1, <5>2 DEF Copied
        <5> QED BY <5>1, <5>3
      <4>5. Numbered(down', o, Len(shown[o]), Copied(o) + 1)
        <5>1. /\ Len(shown[o]) \in Nat /\ Len(shown[o]) <= Copied(o)
              /\ Numbered(down, o, Len(shown[o]), Copied(o))
          BY <3>1, <3>2, Counts DEF Flowing, Sound
        <5>2. \A i \in 1 .. Len(down) : down[i].kind = o => down[i].what \in Int
          BY Counts DEF Sound
        <5>3. f.what = Copied(o) + 1
          BY <2>1, <4>2
        <5> QED BY <2>1, <2>2, <2>3, <4>1, <5>1, <5>2, <5>3, NextGoesOn
      <4>6. Numbered(down, o, Len(shown[o]), Copied(o))'
        BY <1>1, <4>4, <4>5
      <4>7. Consecutive(obuf[o], Copied(o))'
        BY <4>2, <4>3, <4>4 DEF Consecutive
      <4>8. Len(obuf'[o]) <= printed'[o] /\ Len(shown'[o]) <= Copied(o)'
        <5>1. Len(obuf'[o]) = Len(obuf[o]) - 1
          BY <4>2, <4>3
        <5>2. Len(obuf[o]) <= printed[o] /\ Len(shown[o]) <= Copied(o)
          BY <3>1, <3>2 DEF Flowing
        <5> QED BY <1>1, <4>1, <4>4, <5>1, <5>2, Counts DEF Sound
      <4> QED BY <3>2, <4>6, <4>7, <4>8 DEF Flowing
    <3>3. CASE q # o
      <4>1. obuf'[q] = obuf[q]
        BY <1>1, <2>6, <3>3
      <4>2. Copied(q)' = Copied(q)
        BY <1>1, <4>1 DEF Copied
      <4>3. Numbered(down', q, Len(shown[q]), Copied(q))
        BY <2>1, <2>2, <2>3, <3>1, <3>3, OtherKindGoesOn DEF Flowing
      <4>4. Consecutive(obuf[q], Copied(q))'
        BY <3>1, <4>1, <4>2 DEF Flowing, Consecutive
      <4>5. Numbered(down, q, Len(shown[q]), Copied(q))'
        BY <1>1, <4>2, <4>3
      <4> QED BY <1>1, <3>1, <4>1, <4>2, <4>4, <4>5 DEF Flowing
    <3> QED BY <3>2, <3>3
  <2> QED BY <1>1, <1>3, <2>5, <2>7 DEF Flow
<1> QED BY <1>2, <1>3

LEMMA RefuseFlowing == ASSUME Sound, Flow, Refuse PROVE Flow'
<1>1. UNCHANGED <<shown, obuf, printed, exit, answer, client, command>>
  BY DEF Refuse, clientVars, commandVars
<1>2. CASE client = "done"
  BY <1>1, <1>2, GoneFlowing
<1>3. CASE client # "done"
  <2>1. PICK f \in DownFrames : f = Frame("status", Failed) /\ f.kind = "status" /\ f.what = Failed
    BY DownFrameTypes DEF Frame
  <2>2. down \in Seq(DownFrames)
    BY DEF Sound, TypeOK
  <2>3. down' = Append(down, f)
    BY <1>3, <2>1, <2>2, JoinOne DEF Refuse, Reply
  <2>4. f.kind \notin Outputs /\ f.kind # "exit"
    BY <2>1 DEF Outputs
  <2>5. Ending(down')
    <3>1. Ending(down)
      BY <1>3 DEF Flow
    <3> QED BY <2>1, <2>2, <2>3, <2>4, <3>1, EndingGrows
  <2>6. ASSUME NEW o \in Outputs, Numbered(down, o, Len(shown[o]), Copied(o))
        PROVE  Numbered(down', o, Len(shown[o]), Copied(o))
    BY <2>2, <2>3, <2>4, <2>6, OtherKindGoesOn
  <2> QED BY <1>1, <1>3, <2>5, <2>6, RepliedFlowing
<1> QED BY <1>2, <1>3

(* The code and the end of the stream are sent after all of the output.    *)
LEMMA FinishFlowing == ASSUME Sound, Flow, Finish PROVE Flow'
<1>1. UNCHANGED <<shown, obuf, printed, exit, answer, client, command>> /\ Empty
  BY DEF Finish, clientVars, commandVars
<1>2. CASE client = "done"
  BY <1>1, <1>2, GoneFlowing
<1>3. CASE client # "done"
  <2>1. exit \in Codes /\ exit # NoCode
    BY <1>3, ExecAssumption DEF Finish, Sound, Coded
  <2>2. PICK f \in DownFrames, g \in DownFrames :
          /\ f = Frame("exit", exit) /\ f.kind = "exit" /\ f.what = exit
          /\ g = Frame("status", Success) /\ g.kind = "status"
    BY <2>1, DownFrameTypes DEF Frame
  <2>3. down \in Seq(DownFrames)
    BY DEF Sound, TypeOK
  <2>4. PICK s : s = Append(down, f)
    OBVIOUS
  <2>5. /\ s \in Seq(DownFrames) /\ Len(s) = Len(down) + 1 /\ s[Len(down) + 1] = f
        /\ Len(down) \in Nat
    BY <2>3, <2>4, AppendProperties, LenProperties
  <2>6. down' = Append(s, g)
    BY <1>3, <2>2, <2>3, <2>4, JoinTwo DEF Finish, Reply
  <2>7. f.kind \notin Outputs /\ g.kind \notin Outputs /\ f.kind # "status" /\ g.kind # "exit"
    BY <2>2 DEF Outputs
  <2>8. Ending(s)
    <3>1. Ending(down)
      BY <1>3 DEF Flow
    <3> QED BY <1>1, <2>1, <2>2, <2>3, <2>4, <2>7, <3>1, EndingGrows
  <2>9. Ending(down')
    <3>1. \E i \in 1 .. Len(s) : s[i].kind = "exit"
      <4>1. Len(down) + 1 \in 1 .. Len(s) /\ s[Len(down) + 1].kind = "exit"
        BY <2>2, <2>5
      <4> QED BY <4>1
    <3> QED BY <2>2, <2>5, <2>6, <2>7, <2>8, <3>1, EndingGrows
  <2>10. ASSUME NEW o \in Outputs, Numbered(down, o, Len(shown[o]), Copied(o))
         PROVE  Numbered(down', o, Len(shown[o]), Copied(o))
    <3>1. f.kind # o /\ g.kind # o
      BY <2>7
    <3>2. Numbered(s, o, Len(shown[o]), Copied(o))
      BY <2>3, <2>4, <2>10, <3>1, OtherKindGoesOn
    <3> QED BY <2>5, <2>6, <3>1, <3>2, OtherKindGoesOn
  <2> QED BY <1>1, <1>3, <2>9, <2>10, RepliedFlowing
<1> QED BY <1>2, <1>3

(* What the command writes is after what it wrote. *)
LEMMA CmdPrintsFlowing == ASSUME Sound, Flow, NEW o \in Outputs, CmdPrints(o) PROVE Flow'
<1>1. /\ printed' = [printed EXCEPT ![o] = printed[o] + 1] /\ printed[o] < MaxPrinted
      /\ obuf' = [obuf EXCEPT ![o] = Append(obuf[o], printed[o] + 1)]
      /\ command = "running" /\ UNCHANGED <<shown, exit, answer, client, command, down>>
  BY DEF CmdPrints, Runs, clientVars
<1>2. CASE client = "done"
  BY <1>1, <1>2, GoneFlowing
<1>3. CASE client # "done"
  <2>1. Ending(down)'
    <3>1. exit = NoCode /\ Ending(down)
      BY <1>1, <1>3 DEF Flow
    <3>2. Unended(down)
      BY <3>1, NoEndYet
    <3> QED BY <1>1, <3>2 DEF Unended, Ending
  <2>2. /\ obuf \in [Outputs -> Seq(1 .. MaxPrinted)]
        /\ printed \in [Outputs -> 0 .. MaxPrinted]
    BY DEF Sound, TypeOK
  <2>3. ASSUME NEW q \in Outputs PROVE Flowing(q)'
    <3>1. Flowing(q)
      BY <1>3 DEF Flow
    <3>2. CASE q = o
      <4>1. PICK p \in Nat, n \in Nat, c \in Nat, s \in Seq(1 .. MaxPrinted) :
              p = printed[o] /\ n = Len(obuf[o]) /\ c = Copied(o) /\ s = obuf[o]
        BY <3>1, <3>2, Counts DEF Flowing, Sound
      <4>2. c = p - n /\ n <= p /\ Consecutive(s, c) /\ n = Len(s) /\ Len(shown[o]) <= c
        BY <3>1, <3>2, <4>1 DEF Flowing, Copied
      <4>3. p + 1 \in 1 .. MaxPrinted /\ p + 1 = c + Len(s) + 1
        BY <1>1, <4>1, <4>2, ExecAssumption
      <4>4. Consecutive(Append(s, p + 1), c) /\ Len(Append(s, p + 1)) = n + 1
        <5>1. PICK e \in 1 .. MaxPrinted : e = p + 1 /\ e = c + Len(s) + 1
          BY <4>3
        <5>2. Consecutive(Append(s, e), c) /\ Len(Append(s, e)) = n + 1
          BY <4>2, <5>1, ConsecutiveGrows
        <5> QED BY <5>1, <5>2
      <4>5. obuf'[o] = Append(s, p + 1) /\ printed'[o] = p + 1
        BY <1>1, <2>2, <4>1
      <4>6. Len(obuf'[o]) = n + 1
        BY <4>4, <4>5
      <4>7. Copied(o)' = (p + 1) - (n + 1)
        BY <4>5, <4>6 DEF Copied
      <4>8. Copied(o)' = c
        BY <4>1, <4>2, <4>7
      <4>9. Numbered(down, o, Len(shown[o]), Copied(o))'
        BY <1>1, <3>1, <3>2, <4>1, <4>8 DEF Flowing
      <4>10. Consecutive(obuf[o], Copied(o))'
        BY <4>4, <4>5, <4>8
      <4>11. Len(obuf'[o]) <= printed'[o] /\ Len(shown'[o]) <= Copied(o)'
        BY <1>1, <4>1, <4>2, <4>5, <4>6, <4>8
      <4> QED BY <3>2, <4>9, <4>10, <4>11 DEF Flowing
    <3>3. CASE q # o
      <4>1. obuf'[q] = obuf[q] /\ printed'[q] = printed[q]
        BY <1>1, <2>2, <3>3
      <4>2. Copied(q)' = Copied(q)
        BY <4>1 DEF Copied
      <4>3. Consecutive(obuf[q], Copied(q))'
        BY <3>1, <4>1, <4>2 DEF Flowing, Consecutive
      <4>4. Numbered(down, q, Len(shown[q]), Copied(q))'
        BY <1>1, <3>1, <4>2 DEF Flowing
      <4> QED BY <1>1, <3>1, <4>1, <4>2, <4>3, <4>4 DEF Flowing
    <3> QED BY <3>2, <3>3
  <2> QED BY <1>1, <1>3, <2>1, <2>3 DEF Flow
<1> QED BY <1>2, <1>3

(* A command that ends has no end on its way yet. *)
LEMMA CmdExitsFlowing == ASSUME Flow, CmdExits PROVE Flow'
<1>1. /\ command = "running" /\ command' = "ended"
      /\ UNCHANGED <<shown, obuf, printed, answer, client, down>>
  BY DEF CmdExits, Runs, clientVars
<1>2. CASE client = "done"
  BY <1>1, <1>2 DEF Flow
<1>3. CASE client # "done"
  <2>1. exit = NoCode /\ Ending(down)
    BY <1>1, <1>3 DEF Flow
  <2>2. Unended(down)
    BY <2>1, NoEndYet
  <2>3. Ending(down)'
    BY <1>1, <2>2 DEF Unended, Ending
  <2>4. \A o \in Outputs : Flowing(o) => Flowing(o)'
    BY <1>1 DEF Flowing, Copied, Consecutive, Numbered
  <2> QED BY <1>1, <1>3, <2>3, <2>4 DEF Flow
<1> QED BY <1>2, <1>3

(* What the client shows is the piece after the last; what it is told is   *)
(* the command's own code, when all of its output is shown, or an error.   *)
LEMMA Receives ==
  ASSUME Sound, Flow, Receive
  PROVE  /\ Flow'
         /\ \A o \in Outputs :
              Head(down).kind = o => /\ Head(down).what = Len(shown[o]) + 1
                                     /\ Len(shown[o]) < printed[o]
         /\ Head(down).kind = "exit" =>
              /\ Head(down).what = exit /\ exit # NoCode
              /\ \A o \in Outputs : Len(shown[o]) = printed[o]
         /\ Head(down).kind = "status" => Head(down).what = Failed
<1>1. /\ client = "open" /\ down # <<>>
      /\ UNCHANGED <<obuf, printed, exit, command>>
  BY DEF Receive, commandVars
<1>2. down \in Seq(DownFrames)
  BY DEF Sound, TypeOK
<1>3. /\ Len(down) \in Nat \ {0} /\ 1 \in 1 .. Len(down) /\ Head(down) = down[1]
      /\ Head(down) \in DownFrames
  BY <1>1, <1>2, HeadTailProperties, LenProperties, EmptySeq
<1>4. PICK f \in DownFrames : f = Head(down)
  BY <1>3
<1>5. Ending(down) /\ answer = NoCode /\ \A o \in Outputs : Flowing(o)
  BY <1>1 DEF Flow
<1>6. CASE f.kind \in Outputs
  <2>1. PICK o \in Outputs : o = f.kind
    BY <1>6
  <2>2. /\ shown' = [shown EXCEPT ![o] = Append(shown[o], f.what)] /\ down' = Tail(down)
        /\ UNCHANGED <<client, answer>>
    <3>1. f.kind \notin {"exit", "status"}
      BY <1>6 DEF Outputs
    <3> QED BY <1>4, <1>6, <2>1, <3>1 DEF Receive
  <2>3. PICK p \in Nat, n \in Nat, c \in Nat, s \in Seq(1 .. MaxPrinted) :
          p = printed[o] /\ n = Len(obuf[o]) /\ c = Copied(o) /\ s = shown[o]
    BY <1>5, Counts DEF Flowing, Sound
  <2>4. c = p - n /\ Len(s) <= c /\ Numbered(down, o, Len(s), c) /\ Len(s) \in Nat
    BY <1>5, <2>3, LenProperties DEF Flowing, Copied
  <2>5. \A i \in 1 .. Len(down) : down[i].kind = o => down[i].what \in Int
    BY Counts DEF Sound
  <2>6. /\ f.what = Len(s) + 1 /\ Len(s) + 1 <= c
        /\ Numbered(Tail(down), o, Len(s) + 1, c)
    <3>1. Head(down).kind = o
      BY <1>4, <2>1
    <3>2. /\ Head(down).what = Len(s) + 1 /\ Len(s) + 1 <= c
          /\ Numbered(Tail(down), o, Len(s) + 1, c)
      BY <1>1, <1>2, <2>3, <2>4, <2>5, <3>1, FirstComesOff
    <3> QED BY <1>4, <3>2
  <2>7. Len(s) < p
    BY <2>3, <2>4, <2>6
  <2>8. shown \in [Outputs -> Seq(1 .. MaxPrinted)]
    BY DEF Sound, TypeOK
  <2>9. shown'[o] = Append(s, f.what) /\ Len(shown'[o]) = Len(s) + 1
    <3>1. f.what \in 1 .. MaxPrinted
      BY <1>4, <1>6, DownFrameTypes
    <3>2. shown'[o] = Append(s, f.what)
      BY <2>2, <2>3, <2>8
    <3> QED BY <2>3, <3>1, <3>2, AppendProperties
  <2>10. ASSUME NEW q \in Outputs PROVE Flowing(q)'
    <3>1. Flowing(q)
      BY <1>5
    <3>2. Copied(q)' = Copied(q) /\ Len(obuf'[q]) <= printed'[q]
      BY <1>1, <3>1 DEF Copied, Flowing
    <3>3. Consecutive(obuf[q], Copied(q))'
      BY <1>1, <3>1, <3>2 DEF Flowing, Consecutive
    <3>4. CASE q = o
      <4>1. Copied(o)' = c /\ Len(shown'[o]) <= c
        BY <2>3, <2>6, <2>9, <3>2, <3>4
      <4>2. Numbered(down', o, Len(shown'[o]), c)
        BY <2>2, <2>6, <2>9
      <4> QED BY <3>2, <3>3, <3>4, <4>1, <4>2 DEF Flowing
    <3>5. CASE q # o
      <4>1. shown'[q] = shown[q]
        BY <2>2, <2>8, <3>5
      <4>2. Numbered(Tail(down), q, Len(shown[q]), Copied(q))
        BY <1>1, <1>2, <1>4, <2>1, <3>1, <3>5, OtherKindComesOff DEF Flowing
      <4>3. Numbered(down, q, Len(shown[q]), Copied(q))'
        BY <2>2, <3>2, <4>1, <4>2
      <4>4. Len(shown'[q]) <= Copied(q)'
        BY <3>1, <3>2, <4>1 DEF Flowing
      <4> QED BY <3>2, <3>3, <4>3, <4>4 DEF Flowing
    <3> QED BY <3>4, <3>5
  <2>11. Ending(down)'
    <3>1. f.kind # "exit"
      BY <1>6 DEF Outputs
    <3>2. Ending(Tail(down))
      BY <1>1, <1>2, <1>4, <1>5, <3>1, EndingShrinks
    <3> QED BY <1>1, <2>2, <3>2 DEF Ending, Empty
  <2>12. Flow'
    BY <1>1, <1>5, <2>2, <2>10, <2>11 DEF Flow
  <2>13. ASSUME NEW q \in Outputs, Head(down).kind = q
         PROVE  Head(down).what = Len(shown[q]) + 1 /\ Len(shown[q]) < printed[q]
    <3>1. q = o
      BY <1>4, <2>1, <2>13
    <3> QED BY <1>4, <2>3, <2>6, <2>7, <3>1
  <2>14. Head(down).kind \notin {"exit", "status"}
    BY <1>4, <1>6 DEF Outputs
  <2> QED BY <2>12, <2>13, <2>14
<1>7. CASE f.kind \notin Outputs
  <2>1. f.kind \in {"exit", "status"}
    BY <1>7, DownFrameTypes
  <2>2. client' = "done"
    BY <1>4, <1>7, <2>1 DEF Receive, Return
  <2>3. Flow'
    BY <1>1, <2>2, GoneFlowing
  <2>4. f.kind # "exit" => f.what = Failed
    <3>1. \A j \in 1 .. Len(down) : ~(j < 1)
      BY <1>3
    <3>2. down[1].kind = "status" /\ down[1].what # Failed
            => \E j \in 1 .. Len(down) : j < 1 /\ down[j].kind = "exit"
      BY <1>3, <1>5 DEF Ending
    <3> QED BY <1>3, <1>4, <2>1, <3>1, <3>2
  <2>5. ASSUME f.kind = "exit"
        PROVE  /\ f.what = exit /\ exit # NoCode
               /\ \A o \in Outputs : Len(shown[o]) = printed[o]
    <3>1. /\ f.what = exit /\ exit # NoCode /\ Empty
          /\ \A j \in 1 .. Len(down) : 1 < j => down[j].kind \notin Outputs
      BY <1>3, <1>4, <1>5, <2>5 DEF Ending
    <3>2. \A j \in 1 .. Len(down) : down[j].kind \notin Outputs
      <4>1. \A j \in 1 .. Len(down) : j = 1 \/ 1 < j
        BY <1>3
      <4> QED BY <1>3, <1>4, <1>7, <3>1, <4>1
    <3>3. ASSUME NEW o \in Outputs PROVE Len(shown[o]) = printed[o]
      <4>1. PICK p \in Nat, c \in Nat, m \in Nat :
              p = printed[o] /\ c = Copied(o) /\ m = Len(shown[o])
        BY <1>5, Counts DEF Flowing, Sound
      <4>2. obuf[o] = <<>>
        BY <3>1 DEF Empty
      <4>3. c = p - 0
        BY <4>1, <4>2 DEF Copied
      <4>4. m <= c /\ Numbered(down, o, m, c)
        BY <1>5, <4>1 DEF Flowing
      <4>5. m = c
        BY <3>2, <4>1, <4>4, NoneMissing
      <4> QED BY <4>1, <4>3, <4>5
    <3> QED BY <3>1, <3>3
  <2>6. f.kind = "status" => f.kind # "exit"
    OBVIOUS
  <2> QED BY <1>4, <1>7, <2>3, <2>4, <2>5, <2>6
<1> QED BY <1>6, <1>7

LEMMA StepFlow == ASSUME Sound, Flow, [Next]_vars PROVE Flow'
<1> USE DEF userVars, clientVars, serverVars, inputVars, commandVars
<1>1. CASE \/ Type \/ EndInput \/ Resize \/ DaemonDies \/ CmdReads \/ CmdStopsReading
           \/ Pump \/ PumpOut \/ RelayStdin \/ RelayEnd \/ RelayResize
           \/ Accept \/ Looping \/ Copying \/ Sized \/ UNCHANGED vars
  <2>1. UNCHANGED <<down, shown, obuf, printed, exit, answer, client, command>>
    BY <1>1
    DEF Type, EndInput, Resize, DaemonDies, CmdReads, CmdStopsReading, Pump, PumpOut, RelayStdin,
        RelayEnd, RelayResize, Accept, Looping, LoopRecv, LoopResize, LoopEnds, Copying, CopierRead,
        CopierEnds, CopierWrite, CopierFails, Sized, vars
  <2> QED BY <2>1, StaysFlowing
<1>10. CASE Open
  BY <1>10, StaysFlowing DEF Open
<1>11. CASE Begin
  BY <1>11, StaysFlowing DEF Begin, Sound, Sizing
<1>2. CASE ClientGone \/ Lost
  BY <1>2, GoneFlowing DEF ClientGone, Lost, Return
<1>3. CASE Kill
  <2>1. client' = "done" /\ command' = "ended" /\ exit' = exit
    BY <1>3 DEF Kill
  <2> QED BY <2>1, GoneFlowing
<1>4. CASE CmdExits
  BY <1>4, CmdExitsFlowing
<1>5. CASE \E o \in Outputs : CmdPrints(o)
  BY <1>5, CmdPrintsFlowing
<1>6. CASE \E o \in Outputs : OutCopy(o)
  BY <1>6, OutCopyFlowing
<1>7. CASE Refuse
  BY <1>7, RefuseFlowing
<1>8. CASE Finish
  BY <1>8, FinishFlowing
<1>9. CASE Receive
  BY <1>9, Receives
<1> QED
  BY <1>1, <1>2, <1>3, <1>4, <1>5, <1>6, <1>7, <1>8, <1>9, <1>10, <1>11
  DEF Next, Environment, Sending, Handling

-----------------------------------------------------------------------------
(* The session keeps its promise, for as long as it lasts: what it rests   *)
(* on, and each step as one of Session's or none.                          *)
Orderly == Sound /\ Unfed /\ InOrder /\ Flow

LEMMA InitOrderly == Init => Orderly
<1> SUFFICES ASSUME Init PROVE Orderly
  OBVIOUS
<1>1. Sound /\ TypeOK
  BY InitSound DEF Sound
<1>2. Unfed
  BY DEF Init, Unfed
<1>3. InOrder
  <2>1. /\ eaten = <<>> /\ fed = <<>> /\ up = <<>> /\ sent = 0 /\ Len(eaten) = 0 /\ Len(fed) = 0
        /\ copier = "none" /\ loop = "none"
    BY DEF Init
  <2>2. Fed = 0 /\ InHand = 0 /\ Handed = 0
    BY <2>1 DEF Fed, InHand, Handed
  <2>3. Numbered(up, "stdin", Handed, sent)
    BY <2>1, <2>2, NoneYet
  <2>4. Consecutive(eaten, 0) /\ Consecutive(fed, Len(eaten))
    BY <2>1 DEF Consecutive
  <2> QED BY <2>1, <2>2, <2>3, <2>4 DEF InOrder, Feeding
<1>4. Flow
  <2>1. /\ exit = NoCode /\ answer = NoCode /\ down = <<>> /\ Len(down) = 0
        /\ \A o \in Outputs : /\ obuf[o] = <<>> /\ shown[o] = <<>> /\ printed[o] = 0
                               /\ Len(obuf[o]) = 0 /\ Len(shown[o]) = 0
    BY DEF Init
  <2>2. Ending(down)
    BY <2>1 DEF Ending
  <2>3. ASSUME NEW o \in Outputs PROVE Flowing(o)
    <3>1. Copied(o) = 0
      BY <2>1 DEF Copied
    <3>2. Consecutive(obuf[o], Copied(o))
      BY <2>1 DEF Consecutive
    <3>3. Numbered(down, o, Len(shown[o]), Copied(o))
      BY <2>1, <3>1, NoneYet
    <3> QED BY <2>1, <3>1, <3>2, <3>3 DEF Flowing
  <2> QED BY <2>1, <2>2, <2>3 DEF Flow
<1> QED BY <1>1, <1>2, <1>3, <1>4 DEF Orderly

LEMMA OrderlyAlways == Spec => []Orderly
<1>1. Orderly /\ [Next]_vars => Orderly'
  BY StepTypes, StepSized, StepCoded, StepUnfed, StepInOrder, StepFlow DEF Orderly, Sound
<1> QED BY <1>1, InitOrderly, PTL DEF Spec

LEMMA StepPromised == ASSUME Orderly, [Next]_vars PROVE [Promise!Next]_(Promise!sessionVars)
<1> Sound /\ InOrder /\ Flow /\ TypeOK
  BY DEF Orderly, Sound
<1> USE DEF userVars, clientVars, serverVars, inputVars, commandVars, Promise!sessionVars
<1>1. CASE \/ EndInput \/ Resize \/ DaemonDies \/ CmdStopsReading
           \/ Pump \/ PumpOut \/ Open \/ RelayStdin \/ RelayEnd \/ RelayResize
           \/ Accept \/ Refuse \/ Begin \/ Finish \/ Kill
           \/ Looping \/ Copying \/ Sized \/ UNCHANGED vars
  <2>1. UNCHANGED <<typed, eaten, printed, shown, exit, answer>>
    BY <1>1
    DEF EndInput, Resize, DaemonDies, CmdStopsReading, Pump, PumpOut, Open, RelayStdin, RelayEnd,
        RelayResize, Accept, Refuse, Begin, Finish, Kill, Looping, LoopRecv, LoopResize, LoopEnds,
        Copying, CopierRead, CopierEnds, CopierWrite, CopierFails, Sized, vars
  <2> QED BY <2>1
<1>2. CASE \E o \in Outputs : OutCopy(o)
  <2>1. UNCHANGED <<typed, eaten, printed, shown, exit, answer>>
    BY <1>2 DEF OutCopy
  <2> QED BY <2>1
<1>3. CASE Type
  <2>1. Promise!Type
    BY <1>3 DEF Type, Promise!Type
  <2> QED BY <2>1 DEF Promise!Next
<1>4. CASE CmdReads
  <2>1. /\ UNCHANGED <<typed, printed, shown, exit, answer>>
        /\ \/ fed # <<>> /\ eaten' = Append(eaten, Head(fed)) /\ fed' = Tail(fed)
           \/ UNCHANGED eaten
    BY <1>4 DEF CmdReads
  <2>2. CASE fed # <<>> /\ eaten' = Append(eaten, Head(fed)) /\ fed' = Tail(fed)
    <3>1. Head(fed) = Len(eaten) + 1 /\ Len(eaten) < sent
      BY <1>4, <2>2, Reads
    <3>2. Len(eaten) < typed
      <4>1. PICK e \in Nat, t \in Nat : e = Len(eaten) /\ t = typed
        BY Lengths, ExecAssumption DEF TypeOK
      <4> QED BY <3>1, <4>1 DEF TypeOK
    <3>3. exit = NoCode
      BY <1>4 DEF CmdReads, Runs, Flow
    <3>4. Promise!Eat
      BY <2>1, <2>2, <3>1, <3>2, <3>3 DEF Promise!Eat
    <3> QED BY <3>4 DEF Promise!Next
  <2>3. CASE UNCHANGED eaten
    BY <2>1, <2>3
  <2> QED BY <2>1, <2>2, <2>3
<1>5. CASE \E o \in Outputs : CmdPrints(o)
  <2>1. PICK o \in Outputs : CmdPrints(o)
    BY <1>5
  <2>2. Promise!Write(o)
    BY <2>1 DEF CmdPrints, Runs, Flow, Promise!Write
  <2> QED BY <2>2 DEF Promise!Next
<1>6. CASE CmdExits
  <2>1. Promise!Exit
    BY <1>6 DEF CmdExits, Runs, Flow, Promise!Exit
  <2> QED BY <2>1 DEF Promise!Next
<1>7. CASE ClientGone \/ Lost
  <2>1. /\ client = "open" /\ answer' = Failed
        /\ UNCHANGED <<typed, eaten, printed, shown, exit>>
    BY <1>7 DEF ClientGone, Lost, Return
  <2>2. Promise!Fail
    BY <2>1 DEF Flow, Promise!Fail, Promise!Waiting
  <2> QED BY <2>2 DEF Promise!Next
<1>8. CASE Receive
  <2>1. client = "open" /\ answer = NoCode /\ UNCHANGED <<typed, eaten, printed, exit>>
    BY <1>8 DEF Receive, Flow
  <2>2. PICK f \in DownFrames : f = Head(down)
    BY <1>8, HeadTailProperties DEF Receive, TypeOK
  <2>3. CASE f.kind \in Outputs
    <3>1. f.kind \notin {"exit", "status"}
      BY <2>3 DEF Outputs
    <3>2. PICK o \in Outputs : o = f.kind
      BY <2>3
    <3>3. shown' = [shown EXCEPT ![o] = Append(@, f.what)] /\ answer' = answer
      BY <1>8, <2>2, <2>3, <3>1, <3>2 DEF Receive
    <3>4. f.what = Len(shown[o]) + 1 /\ Len(shown[o]) < printed[o]
      BY <1>8, <2>2, <3>2, Receives
    <3>5. Promise!Show(o)
      BY <2>1, <3>3, <3>4 DEF Promise!Show, Promise!Waiting
    <3> QED BY <3>5 DEF Promise!Next
  <2>4. CASE f.kind \notin Outputs
    <3>1. f.kind \in {"exit", "status"}
      BY <2>4, DownFrameTypes
    <3>2. answer' = f.what /\ UNCHANGED shown
      BY <1>8, <2>2, <2>4, <3>1 DEF Receive, Return
    <3>3. CASE f.kind = "exit"
      <4>1. /\ f.what = exit /\ exit # NoCode
            /\ \A o \in Outputs : Len(shown[o]) = printed[o]
        BY <1>8, <2>2, <3>3, Receives
      <4>2. Promise!Tell
        BY <2>1, <3>2, <4>1 DEF Promise!Tell, Promise!Waiting
      <4> QED BY <4>2 DEF Promise!Next
    <3>4. CASE f.kind = "status"
      <4>1. f.what = Failed
        BY <1>8, <2>2, <3>4, Receives
      <4>2. Promise!Fail
        BY <2>1, <3>2, <4>1 DEF Promise!Fail, Promise!Waiting
      <4> QED BY <4>2 DEF Promise!Next
    <3> QED BY <3>1, <3>3, <3>4
  <2> QED BY <2>3, <2>4
<1> QED
  BY <1>1, <1>2, <1>3, <1>4, <1>5, <1>6, <1>7, <1>8
  DEF Next, Environment, Sending, Handling

-----------------------------------------------------------------------------
(* Theorems                                                                *)

LEMMA SoundAlways == Spec => []Sound
<1>1. Init => Sound
  BY InitSound
<1>2. Sound /\ [Next]_vars => Sound'
  BY StepTypes, StepSized, StepCoded DEF Sound
<1>3. QED
  BY <1>1, <1>2, PTL DEF Spec

(* Every variable of a session has its type, however much is typed,        *)
(* printed and resized, and however the session ends.                      *)
THEOREM TypeCorrect == Spec => []TypeOK
<1>1. Sound => TypeOK
  BY DEF Sound
<1>2. QED
  BY <1>1, SoundAlways, PTL

(* A terminal has its size before the command in it exists (executor.go:   *)
(* 115-117), for any number of sizes and frames on the way.                *)
THEOREM TerminalOpensSized == Spec => []OpensSized
<1>1. Sound => OpensSized
  BY DEF Sound, Sizing
<1>2. QED
  BY <1>1, SoundAlways, PTL

(* A session is Session's, however the frames, the copying and the failures *)
(* interleave: the command reads what was typed in order, its output is     *)
(* shown in order, and a code is told only when it is the command's own and *)
(* all of its output is shown (executor.go:133-136, exec.go:68-71).         *)
THEOREM SessionIsImplemented == Spec => Promise!Safe
<1>1. Init => Promise!Init
  BY DEF Init, Promise!Init
<1>2. Orderly /\ [Next]_vars => [Promise!Next]_(Promise!sessionVars)
  BY StepPromised
<1> QED BY <1>1, <1>2, OrderlyAlways, PTL DEF Spec, Promise!Safe
=============================================================================
