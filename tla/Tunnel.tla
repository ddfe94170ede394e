------------------------------- MODULE Tunnel -------------------------------
(***************************************************************************)
(* One connection on its way through everything that carries it: the relay *)
(* beside a sandbox (cmd/plbx-relay), the tunnel of the egress proxy       *)
(* (internal/proxy/proxy.go), `plbx ssh-proxy` (cmd/plbx/ssh.go) and the   *)
(* gateway's reading of a name in front of it (internal/sshd/route.go).    *)
(*                                                                         *)
(* Each of these joins two connections by two copiers, one either way.     *)
(* Whoever is at the near end opened the connection; the far end is what   *)
(* it is for.  Link l joins hop l to hop l + 1, link 0 the near end to the *)
(* first hop and the last one its hop to the far end.                      *)
(***************************************************************************)
EXTENDS Naturals, Sequences, FiniteSets

CONSTANTS
  Routes,   (* the ways to be carried: sequences of hops, see Hop           *)
  PortSets, (* what a forwarder is started for: sequences of Mapping        *)
  Faults,   (* what can go wrong, see Fault                                 *)
  MaxSent,  (* bound: pieces that each end sends                            *)
  Room      (* bound: pieces on a link, each way                            *)

Hop == {"relay", "proxy", "ssh"}

(* "refused": nobody answers where a hop dials, or what answers will not   *)
(* have the connection; "killed": the process that a hop runs in ends;     *)
(* "late": the gateway has waited long enough for a name.                  *)
Fault == {"refused", "killed", "late"}

Mapping == [host : Nat, sandbox : Nat]

(* What ValidatePorts lets by is free of host ports published twice. *)
ValidPorts(ports) ==
  \A i, j \in 1 .. Len(ports) : ports[i].host = ports[j].host => i = j

ASSUME TunnelAssumption ==
  /\ \A r \in Routes : r \in Seq(Hop) /\ r # <<>>
  (* ssh-proxy dials the gateway, and nothing is dialled from there. *)
  /\ \A r \in Routes : \A i \in 1 .. Len(r) : r[i] = "ssh" => i = Len(r)
  /\ \A p \in PortSets : p \in Seq(Mapping) /\ p # <<>> /\ ValidPorts(p)
  /\ Faults \subseteq Fault
  /\ MaxSent \in Nat \ {0} /\ Room \in Nat \ {0}

VARIABLES
  route,   (* the hops of this connection                                   *)
  ports,   (* what its relay is to listen for                               *)
  opened,  (* how many of them it listens for                               *)
  relay,   (* where the relay's run is                                      *)
  hop,     (* where each hop is                                             *)
  copying, (* whether each copier of each hop is at it                      *)
  pipe,    (* each link, either way                                         *)
  end,     (* either end                                                    *)
  routed   (* whether the gateway knows what the connection is for          *)

relayVars == <<ports, opened, relay>>
vars == <<route, relayVars, hop, copying, pipe, end, routed>>

Last == Len(route)
Links == 0 .. Last
Hops == 1 .. Last
Ways == {"out", "back"}
Ends == {"near", "far"}

Other(e) == IF e = "near" THEN "far" ELSE "near"
Reverse(w) == IF w = "out" THEN "back" ELSE "out"

(* Where an end's connection is, and which way it sends. *)
LinkOf(e) == IF e = "near" THEN 0 ELSE Last
WayOf(e) == IF e = "near" THEN "out" ELSE "back"

(* The links that hop h reads from and writes to, either way. *)
Source(h, w) == IF w = "out" THEN h - 1 ELSE h
Sink(h, w) == IF w = "out" THEN h ELSE h - 1

(* The name of a sandbox goes in front of everything else. *)
Name == 0

Pieces == Name .. MaxSent

Pipe == [held : Seq(Pieces), over : {"no", "shut", "broken"}, deaf : BOOLEAN]

End == [sent : 0 .. MaxSent, got : Seq(Pieces), shut : BOOLEAN, left : BOOLEAN,
        sawEnd : BOOLEAN]

TypeOK ==
  /\ route \in Routes /\ ports \in PortSets
  /\ opened \in 0 .. Len(ports)
  /\ relay \in {"starting", "serving", "failed", "stopping", "exited"}
  /\ hop \in [Hops -> {"idle", "dialling", "joined", "closed", "failed", "dead"}]
  /\ copying \in [Hops -> [Ways -> BOOLEAN]]
  /\ pipe \in [Links -> [Ways -> Pipe]]
  /\ end \in [Ends -> End]
  /\ routed \in BOOLEAN

Init ==
  /\ route \in Routes /\ ports \in PortSets
  /\ opened = 0 /\ relay = "starting"
  /\ hop = [h \in Hops |-> "idle"]
  /\ copying = [h \in Hops |-> [w \in Ways |-> FALSE]]
  /\ pipe = [l \in Links |-> [w \in Ways |-> [held |-> <<>>, over |-> "no", deaf |-> FALSE]]]
  /\ end = [e \in Ends |->
              [sent |-> 0, got |-> <<>>, shut |-> FALSE, left |-> FALSE, sawEnd |-> FALSE]]
  /\ routed = FALSE

-----------------------------------------------------------------------------
(* The relay's run: it listens for each port in turn, and gives up at the  *)
(* first that it cannot have.  The forwarder in front of a sandbox is told *)
(* to listen for the sandbox's side of each mapping (portsInvocation).     *)

Listen ==
  /\ relay = "starting" /\ \E h \in Hops : route[h] = "relay"
  /\ LET wanted == ports[opened + 1].sandbox IN
       IF \E i \in 1 .. opened : ports[i].sandbox = wanted
         THEN relay' = "failed" /\ opened' = 0
         ELSE /\ opened' = opened + 1
              /\ relay' = IF opened' = Len(ports) THEN "serving" ELSE "starting"
  /\ UNCHANGED <<route, ports, hop, copying, pipe, end, routed>>

(* A signal closes what it listens on. *)
Signal ==
  /\ relay = "serving"
  /\ relay' = "stopping" /\ opened' = 0
  /\ UNCHANGED <<route, ports, hop, copying, pipe, end, routed>>

-----------------------------------------------------------------------------
(* Connections.  A piece that is written to one whose reader has closed it *)
(* breaks it, as closing one that holds unread pieces does: what it holds  *)
(* is lost, either way.                                                    *)

Broken(link) == [w \in Ways |-> [link[w] EXCEPT !.held = <<>>, !.over = "broken"]]

Shut(link, w) == [link EXCEPT ![w].over = IF @ = "no" THEN "shut" ELSE @]

(* Whoever sends way w closes its side. *)
Close(link, w) ==
  LET r == Reverse(w) IN
    IF link[r].held # <<>>
      THEN [Broken(link) EXCEPT ![r].deaf = TRUE]
      ELSE [Shut(link, w) EXCEPT ![r].deaf = TRUE]

HasRoom(link, w) == Cardinality({i \in 1 .. Len(link[w].held) : link[w].held[i] # Name}) < Room

Push(link, w, piece) == [link EXCEPT ![w].held = Append(@, piece)]

Pull(link, w) == [link EXCEPT ![w].held = Tail(@)]

Drained(link, w) == link[w].held = <<>> /\ link[w].over = "shut"

-----------------------------------------------------------------------------
(* The hops                                                                *)

Up(h) == route[h] = "relay" => relay = "serving"

Connect ==
  /\ hop[1] = "idle" /\ Up(1)
  /\ hop' = [hop EXCEPT ![1] = "dialling"]
  /\ UNCHANGED <<route, relayVars, copying, pipe, end, routed>>

(* What a hop dials is there: it is joined, and copies both ways.  ssh     *)
(* names the sandbox first.                                                *)
Dial(h) ==
  /\ hop[h] = "dialling"
  /\ h < Last => Up(h + 1)
  /\ hop' = [k \in Hops |-> CASE k = h -> "joined"
                              [] k = h + 1 -> "dialling"
                              [] OTHER -> hop[k]]
  /\ copying' = [copying EXCEPT ![h] = [w \in Ways |-> TRUE]]
  /\ pipe' = IF route[h] = "ssh" THEN [pipe EXCEPT ![h] = Push(@, "out", Name)] ELSE pipe
  /\ UNCHANGED <<route, relayVars, end, routed>>

DialFails(h) ==
  /\ hop[h] = "dialling"
  /\ "refused" \in Faults \/ (h < Last /\ ~Up(h + 1))
  /\ hop' = [hop EXCEPT ![h] = "failed"]
  /\ pipe' = [pipe EXCEPT ![h - 1] = Close(@, "back")]
  /\ UNCHANGED <<route, relayVars, copying, end, routed>>

Copy(h, w) ==
  LET from == pipe[Source(h, w)] to == pipe[Sink(h, w)] IN
  /\ copying[h][w]
  /\ from[w].held # <<>>
  /\ to[w].over = "no" /\ ~to[w].deaf /\ HasRoom(to, w)
  /\ pipe' = [pipe EXCEPT ![Source(h, w)] = Pull(@, w),
                          ![Sink(h, w)] = Push(@, w, Head(from[w].held))]
  /\ UNCHANGED <<route, relayVars, hop, copying, end, routed>>

(* There is nothing more to read, and the far side is told.  ssh-proxy has *)
(* its own output at the near end, and leaves it open.                     *)
TellsEnd(h, w) == ~(route[h] = "ssh" /\ w = "back")

(* As CopyEnds, before what was sent ahead of the end has been copied. *)
CopyEndsEarly(h, w) ==
  /\ copying[h][w]
  /\ pipe[Source(h, w)][w].over # "no"
  /\ copying' = [copying EXCEPT ![h][w] = FALSE]
  /\ pipe' = IF TellsEnd(h, w) THEN [pipe EXCEPT ![Sink(h, w)] = Shut(@, w)] ELSE pipe
  /\ UNCHANGED <<route, relayVars, hop, end, routed>>

(* As CopyEnds, without the far side being told. *)
CopyEndsQuietly(h, w) ==
  /\ copying[h][w]
  /\ \/ Drained(pipe[Source(h, w)], w)
     \/ pipe[Source(h, w)][w].over = "broken"
  /\ copying' = [copying EXCEPT ![h][w] = FALSE]
  /\ UNCHANGED <<route, relayVars, hop, pipe, end, routed>>

(* As CopyEnds, with an error taken for something that will pass. *)
CopyEndsIfDrained(h, w) ==
  /\ copying[h][w]
  /\ Drained(pipe[Source(h, w)], w)
  /\ copying' = [copying EXCEPT ![h][w] = FALSE]
  /\ pipe' = IF TellsEnd(h, w) THEN [pipe EXCEPT ![Sink(h, w)] = Shut(@, w)] ELSE pipe
  /\ UNCHANGED <<route, relayVars, hop, end, routed>>

CopyEnds(h, w) ==
  /\ copying[h][w]
  /\ \/ Drained(pipe[Source(h, w)], w)
     \/ pipe[Source(h, w)][w].over = "broken"
  /\ copying' = [copying EXCEPT ![h][w] = FALSE]
  /\ pipe' = IF TellsEnd(h, w) THEN [pipe EXCEPT ![Sink(h, w)] = Shut(@, w)] ELSE pipe
  /\ UNCHANGED <<route, relayVars, hop, end, routed>>

(* What was read cannot be written. *)
CopyFails(h, w) ==
  LET to == pipe[Sink(h, w)] IN
  /\ copying[h][w]
  /\ pipe[Source(h, w)][w].held # <<>>
  /\ to[w].over = "broken" \/ to[w].deaf
  /\ copying' = [copying EXCEPT ![h][w] = FALSE]
  /\ pipe' = [pipe EXCEPT ![Source(h, w)] = Pull(@, w), ![Sink(h, w)] = Broken(@)]
  /\ UNCHANGED <<route, relayVars, hop, end, routed>>

(* Both copiers are done: the hop closes both its connections. *)
Release(h) ==
  pipe' = [pipe EXCEPT ![h - 1] = Close(@, "back"), ![h] = Close(@, "out")]

(* As HopEnds, when either side is done. *)
HopEndsAtOnce(h) ==
  /\ hop[h] = "joined" /\ \E w \in Ways : ~copying[h][w]
  /\ hop' = [hop EXCEPT ![h] = "closed"]
  /\ copying' = [copying EXCEPT ![h] = [w \in Ways |-> FALSE]]
  /\ Release(h)
  /\ UNCHANGED <<route, relayVars, end, routed>>

HopEnds(h) ==
  /\ hop[h] = "joined" /\ \A w \in Ways : ~copying[h][w]
  /\ hop' = [hop EXCEPT ![h] = "closed"]
  /\ Release(h)
  /\ UNCHANGED <<route, relayVars, copying, end, routed>>

(* The process that h runs in ends, and the system closes what it had. *)
Die(h) ==
  /\ hop' = [hop EXCEPT ![h] = "dead"]
  /\ copying' = [copying EXCEPT ![h] = [w \in Ways |-> FALSE]]
  /\ IF hop[h] = "joined" THEN Release(h) ELSE pipe' = [pipe EXCEPT ![h - 1] = Close(@, "back")]

Open(h) == hop[h] \in {"dialling", "joined"}

HopDies(h) ==
  /\ "killed" \in Faults /\ Open(h) /\ route[h] # "relay"
  /\ Die(h)
  /\ UNCHANGED <<route, relayVars, end, routed>>

(* Only what accepts is waited for: the connections end with the process,  *)
(* whether a signal or a kill ended it.                                    *)
RelayExits ==
  /\ relay = "stopping" \/ (relay = "serving" /\ "killed" \in Faults)
  /\ relay' = "exited" /\ opened' = 0
  /\ \/ \E h \in Hops : route[h] = "relay" /\ Open(h) /\ Die(h)
     \/ /\ ~\E h \in Hops : route[h] = "relay" /\ Open(h)
        /\ UNCHANGED <<hop, copying, pipe>>
  /\ UNCHANGED <<route, ports, end, routed>>

-----------------------------------------------------------------------------
(* The ends                                                                *)

(* A proxy is asked first, and answers once it has dialled; the gateway    *)
(* says nothing before it knows what the connection is for.                *)
MaySpeak(e) ==
  IF e = "near"
    THEN hop[1] # "idle" /\ \A h \in Hops : route[h] = "proxy" => hop[h] \notin {"idle", "dialling"}
    ELSE hop[Last] = "joined" /\ (route[Last] = "ssh" => routed)

Send(e) ==
  LET l == LinkOf(e) w == WayOf(e) IN
  /\ MaySpeak(e) /\ ~end[e].shut /\ ~end[e].left /\ end[e].sent < MaxSent
  /\ pipe[l][w].over = "no" /\ ~pipe[l][w].deaf /\ HasRoom(pipe[l], w)
  /\ end' = [end EXCEPT ![e].sent = @ + 1]
  /\ pipe' = [pipe EXCEPT ![l] = Push(@, w, end[e].sent + 1)]
  /\ UNCHANGED <<route, relayVars, hop, copying, routed>>

(* It has nothing more to send, and still reads. *)
ShutDown(e) ==
  /\ MaySpeak(e) /\ ~end[e].shut /\ ~end[e].left
  /\ end' = [end EXCEPT ![e].shut = TRUE]
  /\ pipe' = [pipe EXCEPT ![LinkOf(e)] = Shut(@, WayOf(e))]
  /\ UNCHANGED <<route, relayVars, hop, copying, routed>>

Connected(e) == IF e = "near" THEN hop[1] # "idle" ELSE hop[Last] \notin {"idle", "dialling", "failed"}

(* It closes its connection, whatever is on its way. *)
Leave(e) ==
  /\ Connected(e) /\ ~end[e].left /\ ~(end[e].shut /\ end[e].sawEnd)
  /\ end' = [end EXCEPT ![e].left = TRUE]
  /\ pipe' = [pipe EXCEPT ![LinkOf(e)] = Close(@, WayOf(e))]
  /\ UNCHANGED <<route, relayVars, hop, copying, routed>>

Routed(e) == e = "far" /\ route[Last] = "ssh" => routed

Take(e) ==
  LET l == LinkOf(e) w == WayOf(Other(e)) IN
  /\ Routed(e) /\ ~end[e].left /\ pipe[l][w].held # <<>>
  /\ end' = [end EXCEPT ![e].got = Append(@, Head(pipe[l][w].held))]
  /\ pipe' = [pipe EXCEPT ![l] = Pull(@, w)]
  /\ UNCHANGED <<route, relayVars, hop, copying, routed>>

SeeEnd(e) ==
  /\ Routed(e) /\ ~end[e].left /\ ~end[e].sawEnd
  /\ Drained(pipe[LinkOf(e)], WayOf(Other(e)))
  /\ end' = [end EXCEPT ![e].sawEnd = TRUE]
  /\ UNCHANGED <<route, relayVars, hop, copying, pipe, routed>>

(* The gateway reads the name, a byte at a time, and nothing after it. *)
Naming == route[Last] = "ssh" /\ ~routed /\ ~end["far"].left

(* As ReadRoute, with a reader that takes what there is. *)
ReadRouteAhead ==
  /\ Naming /\ pipe[Last]["out"].held # <<>>
  /\ routed' = TRUE
  /\ pipe' = [pipe EXCEPT ![Last]["out"].held = <<>>]
  /\ UNCHANGED <<route, relayVars, hop, copying, end>>

ReadRoute ==
  /\ Naming /\ pipe[Last]["out"].held # <<>>
  /\ routed' = TRUE
  /\ pipe' = [pipe EXCEPT ![Last] = Pull(@, "out")]
  /\ UNCHANGED <<route, relayVars, hop, copying, end>>

(* There will be no name, or it has taken too long. *)
NoRoute ==
  /\ Naming /\ Connected("far")
  /\ "late" \in Faults \/ (pipe[Last]["out"].held = <<>> /\ pipe[Last]["out"].over # "no")
  /\ end' = [end EXCEPT !["far"].left = TRUE]
  /\ pipe' = [pipe EXCEPT ![Last] = Close(@, "back")]
  /\ UNCHANGED <<route, relayVars, hop, copying, routed>>

-----------------------------------------------------------------------------
(* Specification                                                           *)

Relay == Listen \/ Signal \/ RelayExits

Copier(h, w) == Copy(h, w) \/ CopyEnds(h, w) \/ CopyFails(h, w)

Joining(h) == Dial(h) \/ DialFails(h)

Reader(e) == Take(e) \/ SeeEnd(e)

Gateway == ReadRoute \/ NoRoute

Next ==
  \/ Relay \/ Connect \/ Gateway
  \/ \E h \in Hops : Joining(h) \/ HopEnds(h) \/ HopDies(h) \/ \E w \in Ways : Copier(h, w)
  \/ \E e \in Ends : Send(e) \/ ShutDown(e) \/ Leave(e) \/ Reader(e)

Spec == Init /\ [][Next]_vars

(* Goroutines are scheduled, dialling comes to an answer, and the ends     *)
(* read; what they send and when they stop is theirs.                      *)
AllHops == 1 .. 2

FairSpec ==
  /\ Spec
  /\ WF_vars(Gateway)
  /\ \A h \in AllHops :
       /\ WF_vars(h \in Hops /\ (Joining(h) \/ HopEnds(h)))
       /\ \A w \in Ways : WF_vars(h \in Hops /\ Copier(h, w))
  /\ \A e \in Ends : WF_vars(Reader(e))

-----------------------------------------------------------------------------
(* Properties                                                              *)

(* Somebody left, or something on the way did not hold. *)
Cut ==
  \/ \E e \in Ends : end[e].left
  \/ \E h \in Hops : hop[h] \in {"failed", "dead"}

(* Whatever arrives is what was sent, in order, without the name that the  *)
(* gateway took off; and an end reads that there is no more only after     *)
(* everything that was sent ("copies in both directions", "Closing the     *)
(* whole connection instead would cut off the other direction              *)
(* mid-response", proxy.go:225, 243-244).                                  *)
EndMeansAll ==
  \A e \in Ends :
    /\ \A i \in 1 .. Len(end[e].got) : end[e].got[i] = i
    /\ end[e].sawEnd /\ ~Cut =>
         end[Other(e)].shut /\ Len(end[e].got) = end[Other(e)].sent

(* Unless somebody leaves, what is sent arrives, and so does that there is *)
(* no more: "so the far side sees the end of the stream instead of waiting *)
(* on it" (plbx-relay/main.go:161-162).  ssh-proxy says it with its exit,  *)
(* and exits once its input has ended too.                                 *)
EndArrives ==
  \A e \in Ends :
    /\ \A n \in 1 .. MaxSent : end[e].sent = n ~> Len(end[Other(e)].got) >= n \/ Cut
    /\ end[e].shut /\ (e = "far" /\ route[Last] = "ssh" => end["near"].shut)
         ~> end[Other(e)].sawEnd \/ Cut

(* When both ends are done, however they ended, no hop keeps a connection  *)
(* or a goroutine.                                                         *)
LetsGo ==
  (\A e \in Ends : end[e].shut \/ end[e].left) ~> (\A h \in Hops : ~Open(h))
=============================================================================
