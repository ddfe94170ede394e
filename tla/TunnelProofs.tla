---------------------------- MODULE TunnelProofs ----------------------------
(***************************************************************************)
(* What a connection carries arrives whole, through any number of hops:    *)
(* Tunnel's EndMeansAll, for every route and every bound.                  *)
(*                                                                         *)
(* The invariant says that a tally exists: for each link and each way, how *)
(* many pieces whoever reads it has taken off it.  What a link holds comes *)
(* right after those, and a hop has put on one side what it has taken off  *)
(* the other, so that each end has read what the other has sent, one by    *)
(* one.  The tally is no variable of the model: each step has one from     *)
(* the last step's.  While nobody has left and nothing has failed, what is *)
(* shut had all of it put on it, and no copier meets a link that would not *)
(* take what it has read.                                                  *)
(***************************************************************************)
EXTENDS Tunnel, Integers, SequenceTheorems, TLAPS

-----------------------------------------------------------------------------
(* Where things are                                                        *)

(* The route has hops, and every link that a hop or an end is at is one of *)
(* its.                                                                    *)
LEMMA Places ==
  ASSUME TypeOK
  PROVE  /\ route \in Seq(Hop) /\ Last \in Nat \ {0} /\ Last \in Hops
         /\ Links = 0 .. Last /\ Hops = 1 .. Last
         /\ \A h \in Hops : h - 1 \in Links /\ h \in Links /\ h \in Nat
         /\ \A l \in Links : l \in Nat
         /\ \A h \in Hops, w \in Ways : Source(h, w) \in Links /\ Sink(h, w) \in Links
         /\ \A e \in Ends : LinkOf(e) \in Links
         /\ \A h \in Hops : route[h] = "ssh" => h = Last
<1>1. /\ route \in Seq(Hop) /\ route # <<>>
      /\ \A i \in 1 .. Len(route) : route[i] = "ssh" => i = Len(route)
  BY TunnelAssumption DEF TypeOK
<1>2. Len(route) \in Nat \ {0}
  BY <1>1, EmptySeq, LenProperties
<1> QED BY <1>1, <1>2 DEF Last, Links, Hops, Source, Sink, LinkOf

(* The two ways, and the two ends. *)
LEMMA TwoWays ==
  /\ \A w \in Ways : Reverse(w) \in Ways /\ Reverse(w) # w /\ Reverse(Reverse(w)) = w
  /\ \A w, x \in Ways : x = w \/ x = Reverse(w)
  /\ \A e \in Ends : Other(e) \in Ends /\ Other(e) # e /\ Other(Other(e)) = e
  /\ \A e, f \in Ends : f = e \/ f = Other(e)
  /\ \A e \in Ends : WayOf(e) \in Ways /\ WayOf(Other(e)) = Reverse(WayOf(e))
  BY DEF Ways, Ends, Reverse, Other, WayOf

(* No two hops read from a link, or write to one, the same way; and what   *)
(* one of them reads the other may write.                                  *)
LEMMA Apart ==
  ASSUME TypeOK, NEW h \in Hops, NEW w \in Ways
  PROVE  /\ Source(h, w) # Sink(h, w)
         /\ \A k \in Hops : Source(k, w) = Source(h, w) => k = h
         /\ \A k \in Hops : Sink(k, w) = Sink(h, w) => k = h
         /\ \A e \in Ends : WayOf(e) = w => Sink(h, w) # LinkOf(e)
         /\ \A e \in Ends : WayOf(Other(e)) = w => Source(h, w) # LinkOf(e)
<1>1. Last \in Nat \ {0} /\ Hops = 1 .. Last
  BY Places
<1> QED BY <1>1 DEF Source, Sink, LinkOf, WayOf, Other, Ways, Ends

-----------------------------------------------------------------------------
(* What is done to a link                                                  *)

(* A broken link holds nothing either way. *)
LEMMA Breaking ==
  ASSUME NEW link \in [Ways -> Pipe]
  PROVE  /\ Broken(link) \in [Ways -> Pipe]
         /\ \A x \in Ways : /\ Broken(link)[x].held = <<>>
                            /\ Broken(link)[x].over = "broken"
                            /\ Broken(link)[x].deaf = link[x].deaf
<1>1. \A x \in Ways : Broken(link)[x] = [link[x] EXCEPT !.held = <<>>, !.over = "broken"]
  BY DEF Broken
<1>2. \A p \in Pipe : LET q == [p EXCEPT !.held = <<>>, !.over = "broken"]
                      IN q \in Pipe /\ q.held = <<>> /\ q.over = "broken" /\ q.deaf = p.deaf
  BY EmptySeq DEF Pipe
<1>3. Broken(link) = [x \in Ways |-> [link[x] EXCEPT !.held = <<>>, !.over = "broken"]]
  BY DEF Broken
<1>4. \A x \in Ways : link[x] \in Pipe
  OBVIOUS
<1>5. ASSUME NEW x \in Ways
      PROVE  /\ Broken(link)[x] \in Pipe
             /\ Broken(link)[x].held = <<>>
             /\ Broken(link)[x].over = "broken"
             /\ Broken(link)[x].deaf = link[x].deaf
  <2>1. PICK p \in Pipe : p = link[x]
    BY <1>4
  <2> QED BY <1>1, <1>2, <2>1
<1>6. Broken(link) \in [Ways -> Pipe]
  BY <1>1, <1>3, <1>5
<1> QED BY <1>5, <1>6

(* Shutting one way changes only whether more comes that way. *)
LEMMA Shutting ==
  ASSUME NEW link \in [Ways -> Pipe], NEW w \in Ways
  PROVE  /\ Shut(link, w) \in [Ways -> Pipe]
         /\ \A x \in Ways : /\ Shut(link, w)[x].held = link[x].held
                            /\ Shut(link, w)[x].deaf = link[x].deaf
                            /\ Shut(link, w)[x].over = IF x = w /\ link[x].over = "no" THEN "shut"
                                                       ELSE link[x].over
<1> DEFINE over == IF link[w].over = "no" THEN "shut" ELSE link[w].over
<1>1. Shut(link, w) = [link EXCEPT ![w] = [link[w] EXCEPT !.over = over]]
  BY DEF Shut
<1>2. over \in {"no", "shut", "broken"} /\ link[w] \in Pipe
  BY DEF Pipe
<1> HIDE DEF over
<1>3. LET q == [link[w] EXCEPT !.over = over]
      IN q \in Pipe /\ q.held = link[w].held /\ q.over = over /\ q.deaf = link[w].deaf
  BY <1>2 DEF Pipe
<1> QED BY <1>1, <1>3 DEF over

(* Closing shuts the way out when there is nothing unread, and breaks the  *)
(* link when there is.                                                     *)
LEMMA Closing ==
  ASSUME NEW link \in [Ways -> Pipe], NEW w \in Ways
  PROVE  /\ Close(link, w) \in [Ways -> Pipe]
         /\ Close(link, w)[w].deaf = link[w].deaf
         /\ Close(link, w)[Reverse(w)].deaf = TRUE
         /\ \A x \in Ways :
              IF link[Reverse(w)].held # <<>>
              THEN Close(link, w)[x].held = <<>> /\ Close(link, w)[x].over = "broken"
              ELSE /\ Close(link, w)[x].held = link[x].held
                   /\ Close(link, w)[x].over = IF x = w /\ link[x].over = "no" THEN "shut"
                                               ELSE link[x].over
<1> DEFINE r == Reverse(w)
           first == IF link[r].held # <<>> THEN Broken(link) ELSE Shut(link, w)
<1>1. r \in Ways /\ r # w /\ \A x \in Ways : x = w \/ x = r
  BY TwoWays
<1>2. Close(link, w) = [first EXCEPT ![r] = [first[r] EXCEPT !.deaf = TRUE]]
  BY DEF Close
<1>3. first \in [Ways -> Pipe] /\ first[w].deaf = link[w].deaf
  BY Breaking, Shutting
<1>4. \A x \in Ways :
        IF link[r].held # <<>> THEN first[x].held = <<>> /\ first[x].over = "broken"
        ELSE /\ first[x].held = link[x].held
             /\ first[x].over = IF x = w /\ link[x].over = "no" THEN "shut" ELSE link[x].over
  BY Breaking, Shutting
<1> HIDE DEF first, r
<1>5. LET q == [first[r] EXCEPT !.deaf = TRUE]
      IN q \in Pipe /\ q.held = first[r].held /\ q.over = first[r].over /\ q.deaf = TRUE
  BY <1>1, <1>3 DEF Pipe
<1>6. /\ Close(link, w) \in [Ways -> Pipe]
      /\ Close(link, w)[w].deaf = link[w].deaf /\ Close(link, w)[r].deaf = TRUE
      /\ \A x \in Ways : /\ Close(link, w)[x].held = first[x].held
                         /\ Close(link, w)[x].over = first[x].over
  BY <1>1, <1>2, <1>3, <1>5
<1>7. \A x \in Ways :
        IF link[r].held # <<>>
        THEN Close(link, w)[x].held = <<>> /\ Close(link, w)[x].over = "broken"
        ELSE /\ Close(link, w)[x].held = link[x].held
             /\ Close(link, w)[x].over = IF x = w /\ link[x].over = "no" THEN "shut"
                                         ELSE link[x].over
  BY <1>4, <1>6
<1> QED BY <1>6, <1>7 DEF r

(* Closing a connection that holds nothing to read loses nothing. *)
LEMMA ClosedEmpty ==
  ASSUME NEW link \in [Ways -> Pipe], NEW w \in Ways, link[Reverse(w)].held = <<>>
  PROVE  \A x \in Ways :
           /\ Close(link, w)[x].held = link[x].held
           /\ Close(link, w)[x].over = IF x = w /\ link[x].over = "no" THEN "shut"
                                       ELSE link[x].over
  BY Closing

(* A piece is put at the end of what the link holds that way. *)
LEMMA Pushing ==
  ASSUME NEW link \in [Ways -> Pipe], NEW w \in Ways, NEW piece \in Pieces
  PROVE  /\ Push(link, w, piece) \in [Ways -> Pipe]
         /\ \A x \in Ways : x # w => Push(link, w, piece)[x] = link[x]
         /\ Push(link, w, piece)[w].held = Append(link[w].held, piece)
         /\ Push(link, w, piece)[w].over = link[w].over
         /\ Push(link, w, piece)[w].deaf = link[w].deaf
<1> DEFINE held == Append(link[w].held, piece)
<1>1. held \in Seq(Pieces) /\ link[w] \in Pipe
  BY AppendProperties DEF Pipe
<1>2. Push(link, w, piece) = [link EXCEPT ![w] = [link[w] EXCEPT !.held = held]]
  BY DEF Push
<1> HIDE DEF held
<1>3. LET q == [link[w] EXCEPT !.held = held]
      IN q \in Pipe /\ q.held = held /\ q.over = link[w].over /\ q.deaf = link[w].deaf
  BY <1>1 DEF Pipe
<1> QED BY <1>2, <1>3 DEF held

(* The first of the pieces is taken off. *)
LEMMA Pulling ==
  ASSUME NEW link \in [Ways -> Pipe], NEW w \in Ways, link[w].held # <<>>
  PROVE  /\ Pull(link, w) \in [Ways -> Pipe]
         /\ \A x \in Ways : x # w => Pull(link, w)[x] = link[x]
         /\ Pull(link, w)[w].held = Tail(link[w].held)
         /\ Pull(link, w)[w].over = link[w].over
         /\ Pull(link, w)[w].deaf = link[w].deaf
         /\ Head(link[w].held) \in Pieces
<1> DEFINE held == Tail(link[w].held)
<1>1. held \in Seq(Pieces) /\ link[w] \in Pipe /\ Head(link[w].held) \in Pieces
  BY HeadTailProperties DEF Pipe
<1>2. Pull(link, w) = [link EXCEPT ![w] = [link[w] EXCEPT !.held = held]]
  BY DEF Pull
<1> HIDE DEF held
<1>3. LET q == [link[w] EXCEPT !.held = held]
      IN q \in Pipe /\ q.held = held /\ q.over = link[w].over /\ q.deaf = link[w].deaf
  BY <1>1 DEF Pipe
<1> QED BY <1>1, <1>2, <1>3 DEF held

-----------------------------------------------------------------------------
(* Every state is well typed                                               *)

(* Ports that are still to be listened for are left. *)
Typed ==
  /\ TypeOK
  /\ relay = "starting" => opened < Len(ports)

(* The connection begins with nothing on its links. *)
LEMMA InitTyped == Init => Typed
<1> SUFFICES ASSUME Init
             PROVE  Typed
  OBVIOUS
<1>1. <<>> \in Seq(Pieces)
  BY EmptySeq
<1>2. Len(ports) \in Nat \ {0}
  BY TunnelAssumption, EmptySeq, LenProperties DEF Init
<1>3. [held |-> <<>>, over |-> "no", deaf |-> FALSE] \in Pipe
  BY <1>1 DEF Pipe
<1>4. [sent |-> 0, got |-> <<>>, shut |-> FALSE, left |-> FALSE, sawEnd |-> FALSE] \in End
  BY <1>1, TunnelAssumption DEF End
<1>5. /\ opened \in 0 .. Len(ports)
      /\ relay = "starting" /\ opened < Len(ports)
  BY <1>2 DEF Init
<1>6. /\ route \in Routes /\ ports \in PortSets /\ routed \in BOOLEAN
      /\ hop \in [Hops -> {"idle", "dialling", "joined", "closed", "failed", "dead"}]
      /\ copying \in [Hops -> [Ways -> BOOLEAN]]
  BY DEF Init
<1>7. pipe \in [Links -> [Ways -> Pipe]] /\ end \in [Ends -> End]
  BY <1>3, <1>4 DEF Init
<1> QED BY <1>5, <1>6, <1>7 DEF Typed, TypeOK

(* The hops and the links are the route's. *)
LEMMA SameRoute ==
  ASSUME route' = route
  PROVE  Last' = Last /\ Links' = Links /\ Hops' = Hops
  BY DEF Last, Links, Hops

(* A step that keeps the route, what is listened for and whether there is  *)
(* a name is well typed if the hops, the links and the ends are.           *)
LEMMA StaysTyped ==
  ASSUME Typed, UNCHANGED <<route, relayVars>>, routed' \in BOOLEAN,
         hop' \in [Hops -> {"idle", "dialling", "joined", "closed", "failed", "dead"}],
         copying' \in [Hops -> [Ways -> BOOLEAN]],
         pipe' \in [Links -> [Ways -> Pipe]],
         end' \in [Ends -> End]
  PROVE  Typed'
  BY SameRoute DEF Typed, TypeOK, relayVars

(* Listening for the next port, or for none of them any more. *)
LEMMA RelayTyped ==
  ASSUME Typed, Listen \/ Signal
  PROVE  Typed'
<1>1. UNCHANGED <<route, ports, hop, copying, pipe, end, routed>>
  BY DEF Listen, Signal
<1>2. /\ opened' \in 0 .. Len(ports)
      /\ relay' \in {"starting", "serving", "failed", "stopping", "exited"}
      /\ relay' = "starting" => opened' < Len(ports)
  <2>1. Len(ports) \in Nat /\ opened \in 0 .. Len(ports)
    BY TunnelAssumption, LenProperties DEF Typed, TypeOK
  <2>2. CASE Listen
    <3>1. /\ relay = "starting" /\ opened < Len(ports)
          /\ \/ relay' = "failed" /\ opened' = 0
             \/ /\ opened' = opened + 1
                /\ relay' = IF opened' = Len(ports) THEN "serving" ELSE "starting"
      BY <2>2 DEF Listen, Typed
    <3> QED BY <2>1, <3>1
  <2>3. CASE Signal
    BY <2>1, <2>3 DEF Signal
  <2> QED BY <2>2, <2>3
<1> QED BY <1>1, <1>2, SameRoute DEF Typed, TypeOK

(* What the links and the ends are, one by one. *)
LEMMA HopTypes ==
  ASSUME Typed
  PROVE  /\ \A l \in Links : pipe[l] \in [Ways -> Pipe]
         /\ \A h \in Hops : pipe[h - 1] \in [Ways -> Pipe] /\ pipe[h] \in [Ways -> Pipe]
         /\ \A e \in Ends : end[e] \in End
         /\ "out" \in Ways /\ "back" \in Ways /\ "near" \in Ends /\ "far" \in Ends
<1>1. \A h \in Hops : h - 1 \in Links /\ h \in Links
  BY Places DEF Typed
<1> QED BY <1>1 DEF Typed, TypeOK, Ways, Ends

(* Dialling, whether it comes to anything or not. *)
LEMMA JoiningTyped ==
  ASSUME Typed, \/ Connect
                \/ \E h \in Hops : Joining(h)
  PROVE  Typed'
<1>1. CASE Connect
  <2>1. hop' \in [Hops -> {"idle", "dialling", "joined", "closed", "failed", "dead"}]
    BY <1>1 DEF Connect, Typed, TypeOK
  <2> QED BY <1>1, <2>1, StaysTyped DEF Connect, Typed, TypeOK
<1>2. ASSUME NEW h \in Hops, Dial(h)
      PROVE  Typed'
  <2>1. hop' \in [Hops -> {"idle", "dialling", "joined", "closed", "failed", "dead"}]
    BY <1>2 DEF Dial, Typed, TypeOK
  <2>2. copying' \in [Hops -> [Ways -> BOOLEAN]]
    BY <1>2 DEF Dial, Typed, TypeOK
  <2>3. pipe' \in [Links -> [Ways -> Pipe]]
    <3>1. Name \in Pieces
      BY TunnelAssumption DEF Name, Pieces
    <3>2. Push(pipe[h], "out", Name) \in [Ways -> Pipe]
      BY <3>1, HopTypes, Pushing
    <3> QED BY <1>2, <3>2 DEF Dial, Typed, TypeOK
  <2> QED BY <1>2, <2>1, <2>2, <2>3, StaysTyped DEF Dial, Typed, TypeOK
<1>3. ASSUME NEW h \in Hops, DialFails(h)
      PROVE  Typed'
  <2>1. hop' \in [Hops -> {"idle", "dialling", "joined", "closed", "failed", "dead"}]
    BY <1>3 DEF DialFails, Typed, TypeOK
  <2>2. pipe' \in [Links -> [Ways -> Pipe]]
    <3>1. Close(pipe[h - 1], "back") \in [Ways -> Pipe]
      BY HopTypes, Closing
    <3> QED BY <1>3, <3>1 DEF DialFails, Typed, TypeOK
  <2> QED BY <1>3, <2>1, <2>2, StaysTyped DEF DialFails, Typed, TypeOK
<1> QED BY <1>1, <1>2, <1>3 DEF Joining

(* One turn of a copier. *)
LEMMA CopierTyped ==
  ASSUME Typed, NEW h \in Hops, NEW w \in Ways, Copier(h, w)
  PROVE  Typed'
<1> DEFINE s == Source(h, w)
           t == Sink(h, w)
<1>1. s \in Links /\ t \in Links /\ pipe[s] \in [Ways -> Pipe] /\ pipe[t] \in [Ways -> Pipe]
  BY Places, HopTypes DEF Typed
<1> HIDE DEF s, t
<1>2. copying' \in [Hops -> [Ways -> BOOLEAN]]
  <2>1. copying \in [Hops -> [Ways -> BOOLEAN]]
    BY DEF Typed, TypeOK
  <2>2. copying' \in {copying, [copying EXCEPT ![h][w] = FALSE]}
    BY DEF Copier, Copy, CopyEnds, CopyFails
  <2>3. CASE copying' = copying
    BY <2>1, <2>3
  <2>4. CASE copying' = [copying EXCEPT ![h][w] = FALSE]
    <3>1. [copying[h] EXCEPT ![w] = FALSE] \in [Ways -> BOOLEAN]
      BY <2>1
    <3> QED BY <2>1, <2>4, <3>1
  <2> QED BY <2>2, <2>3, <2>4
<1>3. pipe' \in [Links -> [Ways -> Pipe]]
  <2>1. CASE Copy(h, w)
    <3>1. /\ pipe[s][w].held # <<>>
          /\ pipe' = [pipe EXCEPT ![s] = Pull(@, w), ![t] = Push(@, w, Head(pipe[s][w].held))]
      BY <2>1 DEF Copy, s, t
    <3>2. Pull(pipe[s], w) \in [Ways -> Pipe] /\ Head(pipe[s][w].held) \in Pieces
      BY <1>1, <3>1, Pulling
    <3>3. \A q \in [Ways -> Pipe] : Push(q, w, Head(pipe[s][w].held)) \in [Ways -> Pipe]
      BY <3>2, Pushing
    <3> QED BY <1>1, <3>1, <3>2, <3>3 DEF Typed, TypeOK
  <2>2. CASE CopyEnds(h, w)
    <3>1. Shut(pipe[t], w) \in [Ways -> Pipe]
      BY <1>1, Shutting
    <3> QED BY <2>2, <3>1 DEF CopyEnds, t, Typed, TypeOK
  <2>3. CASE CopyFails(h, w)
    <3>1. /\ pipe[s][w].held # <<>>
          /\ pipe' = [pipe EXCEPT ![s] = Pull(@, w), ![t] = Broken(@)]
      BY <2>3 DEF CopyFails, s, t
    <3>2. Pull(pipe[s], w) \in [Ways -> Pipe]
      BY <1>1, <3>1, Pulling
    <3>3. \A q \in [Ways -> Pipe] : Broken(q) \in [Ways -> Pipe]
      BY Breaking
    <3> QED BY <1>1, <3>1, <3>2, <3>3 DEF Typed, TypeOK
  <2> QED BY <2>1, <2>2, <2>3 DEF Copier
<1>4. UNCHANGED <<route, relayVars, hop, end, routed>>
  BY DEF Copier, Copy, CopyEnds, CopyFails
<1> QED BY <1>2, <1>3, <1>4, StaysTyped DEF Typed, TypeOK

(* A hop closes both its links, and no other. *)
LEMMA ReleaseTypes ==
  ASSUME Typed, NEW h \in Hops, Release(h)
  PROVE  /\ pipe' \in [Links -> [Ways -> Pipe]]
         /\ pipe'[h - 1] = Close(pipe[h - 1], "back")
         /\ pipe'[h] = Close(pipe[h], "out")
         /\ \A l \in Links : l # h /\ l # h - 1 => pipe'[l] = pipe[l]
<1>1. h - 1 \in Links /\ h \in Links /\ h \in Nat
  BY Places DEF Typed
<1>2. Close(pipe[h - 1], "back") \in [Ways -> Pipe] /\ Close(pipe[h], "out") \in [Ways -> Pipe]
  BY HopTypes, Closing
<1>3. h # h - 1
  BY <1>1
<1> QED BY <1>1, <1>2, <1>3 DEF Release, Typed, TypeOK

(* The process of a hop ends. *)
LEMMA DieTypes ==
  ASSUME Typed, NEW h \in Hops, Die(h)
  PROVE  /\ hop' \in [Hops -> {"idle", "dialling", "joined", "closed", "failed", "dead"}]
         /\ copying' \in [Hops -> [Ways -> BOOLEAN]]
         /\ pipe' \in [Links -> [Ways -> Pipe]]
<1>1. pipe' \in [Links -> [Ways -> Pipe]]
  <2>1. CASE Release(h)
    BY <2>1, ReleaseTypes
  <2>2. CASE pipe' = [pipe EXCEPT ![h - 1] = Close(@, "back")]
    <3>1. Close(pipe[h - 1], "back") \in [Ways -> Pipe]
      BY HopTypes, Closing
    <3> QED BY <2>2, <3>1 DEF Typed, TypeOK
  <2> QED BY <2>1, <2>2 DEF Die
<1> QED BY <1>1 DEF Die, Typed, TypeOK

(* A hop ends, by itself or with its process. *)
LEMMA HopEndsTyped ==
  ASSUME Typed, \/ RelayExits
                \/ \E h \in Hops : HopEnds(h) \/ HopDies(h)
  PROVE  Typed'
<1>1. ASSUME NEW h \in Hops, HopEnds(h)
      PROVE  Typed'
  <2>1. hop' \in [Hops -> {"idle", "dialling", "joined", "closed", "failed", "dead"}]
    BY <1>1 DEF HopEnds, Typed, TypeOK
  <2>2. pipe' \in [Links -> [Ways -> Pipe]]
    BY <1>1, ReleaseTypes DEF HopEnds
  <2> QED BY <1>1, <2>1, <2>2, StaysTyped DEF HopEnds, Typed, TypeOK
<1>2. ASSUME NEW h \in Hops, HopDies(h)
      PROVE  Typed'
  BY <1>2, DieTypes, StaysTyped DEF HopDies, Typed, TypeOK
<1>3. CASE RelayExits
  <2>1. /\ hop' \in [Hops -> {"idle", "dialling", "joined", "closed", "failed", "dead"}]
        /\ copying' \in [Hops -> [Ways -> BOOLEAN]]
        /\ pipe' \in [Links -> [Ways -> Pipe]]
    <3>1. ASSUME NEW h \in Hops, Die(h)
          PROVE  /\ hop' \in [Hops -> {"idle", "dialling", "joined", "closed", "failed", "dead"}]
                 /\ copying' \in [Hops -> [Ways -> BOOLEAN]]
                 /\ pipe' \in [Links -> [Ways -> Pipe]]
      BY <3>1, DieTypes
    <3>2. CASE UNCHANGED <<hop, copying, pipe>>
      BY <3>2 DEF Typed, TypeOK
    <3> QED BY <1>3, <3>1, <3>2 DEF RelayExits
  <2>2. Len(ports) \in Nat
    BY TunnelAssumption, LenProperties DEF Typed, TypeOK
  <2>3. /\ UNCHANGED <<route, ports, end, routed>>
        /\ relay' = "exited" /\ opened' = 0
    BY <1>3 DEF RelayExits
  <2> QED BY <2>1, <2>2, <2>3, SameRoute DEF Typed, TypeOK
<1> QED BY <1>1, <1>2, <1>3

(* What an end does. *)
LEMMA EndTyped ==
  ASSUME Typed, NEW e \in Ends, Send(e) \/ ShutDown(e) \/ Leave(e) \/ Reader(e)
  PROVE  Typed'
<1> DEFINE l == LinkOf(e)
           v == WayOf(Other(e))
<1>1. /\ l \in Links /\ pipe[l] \in [Ways -> Pipe] /\ end[e] \in End
      /\ WayOf(e) \in Ways /\ v \in Ways
  BY Places, HopTypes, TwoWays DEF Typed
<1>2. MaxSent \in Nat /\ end[e].sent \in 0 .. MaxSent /\ end[e].got \in Seq(Pieces)
  BY <1>1, TunnelAssumption DEF End
<1> HIDE DEF l, v
<1>3. CASE Send(e)
  <2>1. /\ end' = [end EXCEPT ![e].sent = @ + 1] /\ end[e].sent < MaxSent
        /\ pipe' = [pipe EXCEPT ![l] = Push(@, WayOf(e), end[e].sent + 1)]
    BY <1>3 DEF Send, l
  <2>2. end[e].sent + 1 \in 0 .. MaxSent /\ end[e].sent + 1 \in Pieces
    BY <1>2, <2>1 DEF Pieces, Name
  <2>3. [end[e] EXCEPT !.sent = @ + 1] \in End
    BY <1>1, <2>2 DEF End
  <2>4. Push(pipe[l], WayOf(e), end[e].sent + 1) \in [Ways -> Pipe]
    BY <1>1, <2>2, Pushing
  <2>5. end' \in [Ends -> End] /\ pipe' \in [Links -> [Ways -> Pipe]]
    BY <2>1, <2>3, <2>4 DEF Typed, TypeOK
  <2> QED BY <1>3, <2>5, StaysTyped DEF Send, Typed, TypeOK
<1>4. CASE ShutDown(e)
  <2>1. [end[e] EXCEPT !.shut = TRUE] \in End
    BY <1>1 DEF End
  <2>2. Shut(pipe[l], WayOf(e)) \in [Ways -> Pipe]
    BY <1>1, Shutting
  <2>3. end' \in [Ends -> End] /\ pipe' \in [Links -> [Ways -> Pipe]]
    BY <1>4, <2>1, <2>2 DEF ShutDown, l, Typed, TypeOK
  <2> QED BY <1>4, <2>3, StaysTyped DEF ShutDown, Typed, TypeOK
<1>5. CASE Leave(e)
  <2>1. [end[e] EXCEPT !.left = TRUE] \in End
    BY <1>1 DEF End
  <2>2. Close(pipe[l], WayOf(e)) \in [Ways -> Pipe]
    BY <1>1, Closing
  <2>3. end' \in [Ends -> End] /\ pipe' \in [Links -> [Ways -> Pipe]]
    BY <1>5, <2>1, <2>2 DEF Leave, l, Typed, TypeOK
  <2> QED BY <1>5, <2>3, StaysTyped DEF Leave, Typed, TypeOK
<1>6. CASE Take(e)
  <2>1. /\ pipe[l][v].held # <<>>
        /\ end' = [end EXCEPT ![e].got = Append(@, Head(pipe[l][v].held))]
        /\ pipe' = [pipe EXCEPT ![l] = Pull(@, v)]
    BY <1>6 DEF Take, l, v
  <2>2. Pull(pipe[l], v) \in [Ways -> Pipe] /\ Head(pipe[l][v].held) \in Pieces
    BY <1>1, <2>1, Pulling
  <2>3. Append(end[e].got, Head(pipe[l][v].held)) \in Seq(Pieces)
    BY <1>2, <2>2, AppendProperties
  <2>4. [end[e] EXCEPT !.got = Append(@, Head(pipe[l][v].held))] \in End
    BY <1>1, <2>3 DEF End
  <2>5. end' \in [Ends -> End] /\ pipe' \in [Links -> [Ways -> Pipe]]
    BY <2>1, <2>2, <2>4 DEF Typed, TypeOK
  <2> QED BY <1>6, <2>5, StaysTyped DEF Take, Typed, TypeOK
<1>7. CASE SeeEnd(e)
  <2>1. [end[e] EXCEPT !.sawEnd = TRUE] \in End
    BY <1>1 DEF End
  <2>2. end' \in [Ends -> End]
    BY <1>7, <2>1 DEF SeeEnd, Typed, TypeOK
  <2> QED BY <1>7, <2>2, StaysTyped DEF SeeEnd, Typed, TypeOK
<1> QED BY <1>3, <1>4, <1>5, <1>6, <1>7 DEF Reader

(* The gateway reads the name, or has none. *)
LEMMA GatewayTyped ==
  ASSUME Typed, Gateway
  PROVE  Typed'
<1>1. Last \in Links /\ pipe[Last] \in [Ways -> Pipe] /\ end["far"] \in End
      /\ "out" \in Ways /\ "back" \in Ways /\ "far" \in Ends
  BY Places, HopTypes DEF Typed
<1>2. CASE ReadRoute
  <2>1. Pull(pipe[Last], "out") \in [Ways -> Pipe]
    BY <1>1, <1>2, Pulling DEF ReadRoute
  <2>2. pipe' \in [Links -> [Ways -> Pipe]]
    BY <1>2, <2>1 DEF ReadRoute, Typed, TypeOK
  <2> QED BY <1>2, <2>2, StaysTyped DEF ReadRoute, Typed, TypeOK
<1>3. CASE NoRoute
  <2>1. [end["far"] EXCEPT !.left = TRUE] \in End
    BY <1>1 DEF End
  <2>2. Close(pipe[Last], "back") \in [Ways -> Pipe]
    BY <1>1, Closing
  <2>3. end' \in [Ends -> End] /\ pipe' \in [Links -> [Ways -> Pipe]]
    BY <1>1, <1>3, <2>1, <2>2 DEF NoRoute, Typed, TypeOK
  <2> QED BY <1>3, <2>3, StaysTyped DEF NoRoute, Typed, TypeOK
<1> QED BY <1>2, <1>3 DEF Gateway

(* Every step leaves the state well typed. *)
LEMMA NextTyped ==
  ASSUME Typed, [Next]_vars
  PROVE  Typed'
<1>1. CASE Relay
  BY <1>1, RelayTyped, HopEndsTyped DEF Relay
<1>2. CASE Connect \/ \E h \in Hops : Joining(h)
  BY <1>2, JoiningTyped
<1>3. CASE \E h \in Hops : HopEnds(h) \/ HopDies(h)
  BY <1>3, HopEndsTyped
<1>4. CASE \E h \in Hops, w \in Ways : Copier(h, w)
  BY <1>4, CopierTyped
<1>5. CASE \E e \in Ends : Send(e) \/ ShutDown(e) \/ Leave(e) \/ Reader(e)
  BY <1>5, EndTyped
<1>6. CASE Gateway
  BY <1>6, GatewayTyped
<1>7. CASE UNCHANGED vars
  BY <1>7, StaysTyped DEF vars, Typed, TypeOK
<1> QED BY <1>1, <1>2, <1>3, <1>4, <1>5, <1>6, <1>7 DEF Next

-----------------------------------------------------------------------------
(* The invariant                                                           *)

Waits(h) == hop[h] \in {"idle", "dialling"}

(* A hop that nothing was dialled from has nothing beyond it; one that is  *)
(* joined, and no other, copies; and there is no name before there is ssh. *)
Staged ==
  /\ \A h \in Hops : Waits(h) =>
       /\ \A k \in Hops : k > h => hop[k] = "idle"
       /\ \A w \in Ways : /\ pipe[h][w].held = <<>>
                          /\ pipe[h][w].over = "no"
                          /\ pipe[h][w].deaf = FALSE
  /\ \A h \in Hops, w \in Ways : copying[h][w] => hop[h] = "joined"
  /\ routed => ~Waits(Last)

(* n counts the pieces that whoever reads a link has taken off it: what    *)
(* the link holds comes after those, one by one.                           *)
Numbered(n) ==
  \A l \in Links, w \in Ways :
    \A i \in 1 .. Len(pipe[l][w].held) : pipe[l][w].held[i] = n[l][w] + i

(* What a hop has taken off the link on one side of it, it has put on the  *)
(* link on the other side, unless that one is broken.                      *)
HandedOn(n) ==
  \A h \in Hops, w \in Ways : pipe[Sink(h, w)][w].over # "broken" =>
    n[Source(h, w)][w] = n[Sink(h, w)][w] + Len(pipe[Sink(h, w)][w].held)

(* What an end has sent is on its link, or was taken off it. *)
Given(n) ==
  \A e \in Ends : pipe[LinkOf(e)][WayOf(e)].over # "broken" =>
    n[LinkOf(e)][WayOf(e)] + Len(pipe[LinkOf(e)][WayOf(e)].held) = end[e].sent

(* An end has what was taken off its link.  The name that ssh sends ahead  *)
(* is not counted among the pieces.                                        *)
Nameless == route[Last] = "ssh" /\ ~routed

Received(n) ==
  \A e \in Ends :
    /\ \A i \in 1 .. Len(end[e].got) : end[e].got[i] = i
    /\ ~(e = "far" /\ Nameless) => n[LinkOf(e)][WayOf(Other(e))] = Len(end[e].got)
    /\ e = "far" /\ Nameless =>
         /\ end["far"].got = <<>>
         /\ Waits(Last) => n[Last]["out"] = 0
         /\ pipe[Last]["out"].held # <<>> \/ hop[Last] = "joined" => n[Last]["out"] = 0 - 1

Counted(n) == Numbered(n) /\ HandedOn(n) /\ Given(n) /\ Received(n)

(* Who sends what goes this way. *)
Sender(w) == IF w = "out" THEN "near" ELSE "far"

(* While nobody has left and nothing has failed, nothing is lost: a copier *)
(* stops when there is nothing more to come, and a side is shut once all   *)
(* that was to go that way has been put on it.                             *)
Intact == \A l \in Links, w \in Ways : pipe[l][w].over # "broken"

Stopped ==
  \A h \in Hops, w \in Ways :
    IF copying[h][w] \/ Waits(h) THEN pipe[Sink(h, w)][w].over = "no"
    ELSE pipe[Source(h, w)][w].over = "shut" /\ pipe[Source(h, w)][w].held = <<>>

Heeded ==
  \A l \in Links, w \in Ways :
    pipe[l][w].deaf => pipe[l][w].over = "shut" /\ pipe[l][w].held = <<>>

AllSent(n) ==
  \A l \in Links, w \in Ways : pipe[l][w].over = "shut" =>
    /\ end[Sender(w)].shut
    /\ n[l][w] + Len(pipe[l][w].held) = end[Sender(w)].sent

EndSeen ==
  \A e \in Ends : end[e].sawEnd =>
    /\ Routed(e)
    /\ pipe[LinkOf(e)][WayOf(Other(e))].over = "shut"
    /\ pipe[LinkOf(e)][WayOf(Other(e))].held = <<>>

Whole(n) == Intact /\ Stopped /\ Heeded /\ AllSent(n) /\ EndSeen

Tallies == [Links -> [Ways -> Int]]

Tally(n) == Counted(n) /\ (~Cut => Whole(n))

Carried == Typed /\ Staged /\ \E n \in Tallies : Tally(n)

-----------------------------------------------------------------------------
(* The stages                                                              *)

(* At first no hop is reached. *)
LEMMA InitStaged == Init => Staged
<1> SUFFICES ASSUME Init
             PROVE  Staged
  OBVIOUS
<1>1. \A h \in Hops : h \in Links
  BY InitTyped, Places DEF Typed
<1>2. \A h \in Hops, w \in Ways : /\ hop[h] = "idle" /\ copying[h][w] = FALSE
                                 /\ pipe[h][w].held = <<>>
                                 /\ pipe[h][w].over = "no"
                                 /\ pipe[h][w].deaf = FALSE
  BY <1>1 DEF Init
<1> QED BY <1>2 DEF Init, Staged

(* A step that reaches no further hop, and touches no link beyond one that *)
(* waits.                                                                  *)
LEMMA StagedKept ==
  ASSUME Typed, Staged, route' = route,
         \A h \in Hops : \/ hop'[h] = hop[h]
                         \/ hop[h] # "idle" /\ hop'[h] \notin {"idle", "dialling"},
         \A h \in Hops : Waits(h) /\ hop'[h] = hop[h] => pipe'[h] = pipe[h],
         \A h \in Hops, w \in Ways : copying'[h][w] => copying[h][w] /\ hop'[h] = hop[h],
         routed' => routed \/ ~Waits(Last)
  PROVE  Staged'
<1>1. Hops' = Hops /\ Last' = Last /\ Last \in Hops
  BY SameRoute, Places DEF Typed
<1>2. \A h \in Hops : hop'[h] \in {"idle", "dialling"} => Waits(h) /\ hop'[h] = hop[h]
  BY DEF Waits
<1>3. \A h \in Hops : hop'[h] \in {"idle", "dialling"} =>
        /\ \A k \in Hops : k > h => hop'[k] = "idle"
        /\ \A w \in Ways : /\ pipe'[h][w].held = <<>>
                           /\ pipe'[h][w].over = "no"
                           /\ pipe'[h][w].deaf = FALSE
  BY <1>2 DEF Staged
<1>4. \A h \in Hops, w \in Ways : copying'[h][w] => hop'[h] = "joined"
  BY DEF Staged
<1>5. routed' => hop'[Last] \notin {"idle", "dialling"}
  BY <1>1, <1>2 DEF Staged
<1> QED BY <1>1, <1>3, <1>4, <1>5 DEF Staged, Waits

(* A hop is reached when the one before it has dialled. *)
LEMMA JoiningStaged ==
  ASSUME Typed, Staged, Connect \/ \E h \in Hops : Joining(h)
  PROVE  Staged'
<1>1. Hops = 1 .. Last /\ Last \in Nat \ {0} /\ \A h \in Hops : h - 1 \in Links /\ h \in Nat
  BY Places DEF Typed
<1>2. CASE Connect
  <2>1. /\ hop[1] = "idle" /\ hop' = [hop EXCEPT ![1] = "dialling"]
        /\ UNCHANGED <<route, copying, pipe, routed>> /\ Hops' = Hops /\ Last' = Last
    BY <1>2, SameRoute DEF Connect
  <2>2. \A h \in Hops : hop[h] = "idle" /\ ~routed
    BY <1>1, <2>1 DEF Staged, Waits
  <2>3. \A h \in Hops : hop'[h] = IF h = 1 THEN "dialling" ELSE "idle"
    BY <2>1, <2>2 DEF Typed, TypeOK
  <2>4. \A h \in Hops : Waits(h) /\ \A k \in Hops : k > h => hop'[k] = "idle"
    BY <1>1, <2>2, <2>3 DEF Waits
  <2> QED BY <2>1, <2>2, <2>3, <2>4 DEF Staged, Waits
<1>3. ASSUME NEW h \in Hops, Dial(h)
      PROVE  Staged'
  <2>1. /\ hop[h] = "dialling" /\ route' = route /\ routed' = routed
        /\ copying' = [copying EXCEPT ![h] = [w \in Ways |-> TRUE]]
        /\ pipe' = pipe \/ pipe' = [pipe EXCEPT ![h] = Push(@, "out", Name)]
        /\ Hops' = Hops /\ Last' = Last
    BY <1>3, SameRoute DEF Dial
  <2>6. \A k \in Hops : k # h => pipe'[k] = pipe[k]
    <3>1. \A k \in Hops : k \in Links
      BY Places DEF Typed
    <3> QED BY <2>1, <3>1 DEF Typed, TypeOK
  <2>7. /\ hop'[h] = "joined"
        /\ \A k \in Hops : /\ k = h + 1 => hop'[k] = "dialling"
                          /\ k # h /\ k # h + 1 => hop'[k] = hop[k]
    <3>1. hop' = [k \in Hops |-> CASE k = h -> "joined"
                                   [] k = h + 1 -> "dialling"
                                   [] OTHER -> hop[k]]
      BY <1>3 DEF Dial
    <3>2. h # h + 1
      BY <1>1
    <3> QED BY <3>1, <3>2
  <2>2. Waits(h) /\ \A k \in Hops : k > h => hop[k] = "idle"
    BY <2>1 DEF Staged, Waits
  <2>3. ~routed
    BY <1>1, <2>1, <2>2 DEF Staged, Waits
  <2>4. ASSUME NEW k \in Hops, hop'[k] \in {"idle", "dialling"}
        PROVE  /\ \A j \in Hops : j > k => hop'[j] = "idle"
               /\ \A w \in Ways : /\ pipe'[k][w].held = <<>>
                                  /\ pipe'[k][w].over = "no"
                                  /\ pipe'[k][w].deaf = FALSE
    <3>1. k # h /\ Waits(k)
      BY <1>1, <2>1, <2>2, <2>4, <2>7 DEF Waits
    <3>2. ~(k < h)
      BY <2>1, <3>1 DEF Staged
    <3>3. k > h
      BY <1>1, <3>1, <3>2
    <3>4. \A j \in Hops : j > k => j # h /\ j # h + 1 /\ j > h
      BY <1>1, <3>3
    <3>5. \A j \in Hops : j > k => hop'[j] = "idle"
      BY <2>2, <2>7, <3>4
    <3> QED BY <2>6, <3>1, <3>5 DEF Staged
  <2>5. \A k \in Hops, w \in Ways : copying'[k][w] => hop'[k] = "joined"
    <3>1. \A k \in Hops, w \in Ways : k # h => copying'[k][w] = copying[k][w]
      BY <2>1 DEF Typed, TypeOK
    <3>2. \A k \in Hops, w \in Ways : k # h /\ copying[k][w] => hop[k] = "joined" /\ k # h + 1
      BY <1>1, <2>2 DEF Staged
    <3> QED BY <2>7, <3>1, <3>2
  <2> QED BY <2>1, <2>3, <2>4, <2>5 DEF Staged, Waits
<1>4. ASSUME NEW h \in Hops, DialFails(h)
      PROVE  Staged'
  <2>1. /\ hop[h] = "dialling" /\ hop' = [hop EXCEPT ![h] = "failed"]
        /\ pipe' = [pipe EXCEPT ![h - 1] = Close(@, "back")]
        /\ UNCHANGED <<route, copying, routed>>
    BY <1>4 DEF DialFails
  <2>2. \A k \in Hops : IF k = h THEN hop'[k] = "failed" ELSE hop'[k] = hop[k]
    BY <2>1 DEF Typed, TypeOK
  <2>3. \A k \in Hops : Waits(k) /\ hop'[k] = hop[k] => pipe'[k] = pipe[k]
    <3> SUFFICES ASSUME NEW k \in Hops, Waits(k), hop'[k] = hop[k]
                 PROVE  pipe'[k] = pipe[k]
      OBVIOUS
    <3>1. k # h
      BY <2>1, <2>2
    <3>2. ~(k < h)
      BY <2>1 DEF Staged
    <3>3. k # h - 1 /\ k \in Links
      BY <1>1, <3>2, Places DEF Typed
    <3> QED BY <2>1, <3>3 DEF Typed, TypeOK
  <2>4. \A k \in Hops, w \in Ways : copying'[k][w] => copying[k][w] /\ hop'[k] = hop[k]
    BY <2>1, <2>2 DEF Staged
  <2> QED BY <2>1, <2>2, <2>3, <2>4, StagedKept
<1> QED BY <1>2, <1>3, <1>4 DEF Joining

(* A hop that was reached changes nothing beyond the next link. *)
LEMMA Reached ==
  ASSUME Typed, Staged, NEW h \in Hops, hop[h] # "idle",
         \A l \in Links : l # h - 1 /\ l # h => pipe'[l] = pipe[l],
         NEW k \in Hops, Waits(k), k # h
  PROVE  pipe'[k] = pipe[k]
<1>1. Hops = 1 .. Last /\ Last \in Nat \ {0} /\ k \in Links
  BY Places DEF Typed
<1>2. ~(k < h)
  BY DEF Staged
<1>3. k # h - 1 /\ k # h
  BY <1>1, <1>2
<1> QED BY <1>1, <1>3

(* A copier changes the links on both sides of its hop. *)
LEMMA CopierMoves ==
  ASSUME Typed, NEW h \in Hops, NEW w \in Ways, Copier(h, w)
  PROVE  /\ \A l \in Links : l # h - 1 /\ l # h => pipe'[l] = pipe[l]
         /\ copying[h][w]
         /\ \A k \in Hops, x \in Ways : copying'[k][x] => copying[k][x]
         /\ UNCHANGED <<route, hop, end, routed>>
<1>1. \A l \in Links : l # Source(h, w) /\ l # Sink(h, w) => pipe'[l] = pipe[l]
  BY DEF Copier, Copy, CopyEnds, CopyFails, Typed, TypeOK
<1>2. {Source(h, w), Sink(h, w)} \subseteq {h - 1, h}
  BY DEF Source, Sink
<1>3. copying' \in {copying, [copying EXCEPT ![h][w] = FALSE]}
  BY DEF Copier, Copy, CopyEnds, CopyFails
<1>4. \A k \in Hops, x \in Ways : copying'[k][x] => copying[k][x]
  BY <1>3 DEF Typed, TypeOK
<1> QED BY <1>1, <1>2, <1>4 DEF Copier, Copy, CopyEnds, CopyFails

(* So does the end of a hop, and its copiers end with it. *)
LEMMA DieMoves ==
  ASSUME Typed, NEW h \in Hops, Die(h) \/ HopEnds(h)
  PROVE  /\ \A l \in Links : l # h - 1 /\ l # h => pipe'[l] = pipe[l]
         /\ hop'[h] \in {"dead", "closed"}
         /\ \A k \in Hops : k # h => hop'[k] = hop[k]
         /\ \A k \in Hops, x \in Ways : copying'[k][x] => copying[k][x] /\ k # h
<1>1. \A l \in Links : l # h - 1 /\ l # h => pipe'[l] = pipe[l]
  <2>1. CASE Release(h)
    BY <2>1, ReleaseTypes
  <2>2. CASE pipe' = [pipe EXCEPT ![h - 1] = Close(@, "back")]
    BY <2>2 DEF Typed, TypeOK
  <2> QED BY <2>1, <2>2 DEF Die, HopEnds
<1>2. CASE Die(h)
  BY <1>1, <1>2 DEF Die, Typed, TypeOK
<1>3. CASE HopEnds(h)
  BY <1>1, <1>3 DEF HopEnds, Typed, TypeOK
<1> QED BY <1>2, <1>3

(* Copiers are at joined hops, which stay so. *)
LEMMA CopierStaged ==
  ASSUME Typed, Staged, NEW h \in Hops, NEW w \in Ways, Copier(h, w)
  PROVE  Staged'
<1>1. hop[h] = "joined" /\ hop' = hop /\ route' = route /\ routed' = routed
  BY CopierMoves DEF Staged
<1>2. \A k \in Hops : Waits(k) => pipe'[k] = pipe[k]
  BY <1>1, CopierMoves, Reached DEF Waits
<1>3. \A k \in Hops, x \in Ways : copying'[k][x] => copying[k][x]
  BY CopierMoves
<1> QED BY <1>1, <1>2, <1>3, StagedKept

(* A hop that ends had been reached. *)
LEMMA EndingStaged ==
  ASSUME Typed, Staged, NEW h \in Hops, Die(h) \/ HopEnds(h), hop[h] # "idle",
         route' = route, routed' = routed
  PROVE  Staged'
<1>1. /\ hop'[h] \in {"dead", "closed"}
      /\ \A k \in Hops : k # h => hop'[k] = hop[k]
      /\ \A k \in Hops, x \in Ways : copying'[k][x] => copying[k][x] /\ k # h
  BY DieMoves
<1>2. \A k \in Hops : Waits(k) /\ hop'[k] = hop[k] => pipe'[k] = pipe[k]
  <2>1. \A k \in Hops : Waits(k) /\ hop'[k] = hop[k] => k # h
    BY <1>1 DEF Waits
  <2> QED BY <2>1, DieMoves, Reached
<1> QED BY <1>1, <1>2, StagedKept

(* However it ends. *)
LEMMA HopEndsStaged ==
  ASSUME Typed, Staged, \/ RelayExits
                        \/ \E h \in Hops : HopEnds(h) \/ HopDies(h)
  PROVE  Staged'
<1>1. ASSUME NEW h \in Hops, HopEnds(h)
      PROVE  Staged'
  <2>1. hop[h] # "idle" /\ route' = route /\ routed' = routed
    BY <1>1 DEF HopEnds
  <2> QED BY <1>1, <2>1, EndingStaged
<1>2. ASSUME NEW h \in Hops, Open(h), Die(h), route' = route, routed' = routed
      PROVE  Staged'
  <2>1. hop[h] # "idle"
    BY <1>2 DEF Open
  <2> QED BY <1>2, <2>1, EndingStaged
<1>3. CASE UNCHANGED <<route, routed, hop, copying, pipe>>
  BY <1>3, StagedKept
<1>4. CASE RelayExits
  BY <1>2, <1>3, <1>4 DEF RelayExits
<1>5. ASSUME NEW h \in Hops, HopDies(h)
      PROVE  Staged'
  BY <1>2, <1>5 DEF HopDies
<1> QED BY <1>1, <1>4, <1>5

(* What an end does changes only the link that it is at, which was there.  *)
LEMMA EndMoves ==
  ASSUME Typed, Staged, NEW e \in Ends,
         Send(e) \/ ShutDown(e) \/ Leave(e) \/ Reader(e) \/ (e = "far" /\ Gateway)
  PROVE  /\ \A l \in Links : l # LinkOf(e) => pipe'[l] = pipe[l]
         /\ UNCHANGED <<route, relayVars, hop, copying>>
         /\ pipe' = pipe \/ e = "near" \/ ~Waits(Last)
<1>1. \A l \in Links : l # LinkOf(e) => pipe'[l] = pipe[l]
  BY DEF Send, ShutDown, Leave, Reader, Take, SeeEnd, Gateway, ReadRoute, NoRoute, LinkOf,
         Typed, TypeOK
<1>2. UNCHANGED <<route, relayVars, hop, copying>>
  BY DEF Send, ShutDown, Leave, Reader, Take, SeeEnd, Gateway, ReadRoute, NoRoute
<1>3. ASSUME e = "far", Waits(Last)
      PROVE  pipe' = pipe
  <2>1. Last \in Hops /\ "out" \in Ways
    BY Places, HopTypes DEF Typed
  <2>2. pipe[Last]["out"].held = <<>> /\ ~MaySpeak("far") /\ ~Connected("far")
    BY <1>3, <2>1 DEF Staged, MaySpeak, Connected, Waits
  <2>3. LinkOf("far") = Last /\ WayOf(Other("far")) = "out"
    BY DEF LinkOf, WayOf, Other
  <2>4. ~Send("far") /\ ~ShutDown("far") /\ ~Leave("far") /\ ~Take("far") /\ ~Gateway
    BY <2>2, <2>3 DEF Send, ShutDown, Leave, Take, Gateway, ReadRoute, NoRoute
  <2> QED BY <1>3, <2>4 DEF Reader, SeeEnd
<1> QED BY <1>1, <1>2, <1>3 DEF Ends

(* What an end does reaches no hop. *)
LEMMA EndStaged ==
  ASSUME Typed, Staged, NEW e \in Ends,
         Send(e) \/ ShutDown(e) \/ Leave(e) \/ Reader(e) \/ (e = "far" /\ Gateway)
  PROVE  Staged'
<1>1. /\ \A l \in Links : l # LinkOf(e) => pipe'[l] = pipe[l]
      /\ UNCHANGED <<route, hop, copying>>
      /\ pipe' = pipe \/ e = "near" \/ ~Waits(Last)
  BY EndMoves
<1>2. \A k \in Hops : Waits(k) => pipe'[k] = pipe[k]
  <2>1. \A k \in Hops : k \in Links /\ k # 0
    BY Places DEF Typed
  <2> QED BY <1>1, <2>1 DEF LinkOf
<1>3. routed' => routed \/ ~Waits(Last)
  <2>1. CASE ReadRoute
    <3>1. Last \in Hops /\ "out" \in Ways /\ pipe[Last]["out"].held # <<>>
      BY <2>1, Places, HopTypes DEF ReadRoute, Typed
    <3> QED BY <3>1 DEF Staged
  <2>2. CASE routed' = routed
    BY <2>2
  <2> QED BY <2>1, <2>2 DEF Send, ShutDown, Leave, Reader, Take, SeeEnd, Gateway, NoRoute
<1> QED BY <1>1, <1>2, <1>3, StagedKept

(* Every step keeps to the stages. *)
LEMMA NextStaged ==
  ASSUME Typed, Staged, [Next]_vars
  PROVE  Staged'
<1>1. CASE Listen \/ Signal \/ UNCHANGED vars
  <2>1. UNCHANGED <<route, hop, copying, pipe, routed>>
    BY <1>1 DEF Listen, Signal, vars
  <2> QED BY <2>1, StagedKept
<1>2. CASE Connect \/ \E h \in Hops : Joining(h)
  BY <1>2, JoiningStaged
<1>3. CASE RelayExits \/ \E h \in Hops : HopEnds(h) \/ HopDies(h)
  BY <1>3, HopEndsStaged
<1>4. CASE \E h \in Hops, w \in Ways : Copier(h, w)
  BY <1>4, CopierStaged
<1>5. CASE \E e \in Ends : Send(e) \/ ShutDown(e) \/ Leave(e) \/ Reader(e)
  BY <1>5, EndStaged
<1>6. CASE Gateway
  <2>1. "far" \in Ends
    BY DEF Ends
  <2> QED BY <1>6, <2>1, EndStaged
<1> QED BY <1>1, <1>2, <1>3, <1>4, <1>5, <1>6 DEF Next, Relay

-----------------------------------------------------------------------------
(* The pieces                                                              *)

(* What a link holds is kept, or all of it is lost: then it is broken.     *)
Lost(p, q) ==
  /\ q.held = p.held \/ (q.held = <<>> /\ q.over = "broken")
  /\ p.over = "broken" => q.over = "broken"

(* What a link holds is a sequence of pieces. *)
LEMMA HeldType ==
  ASSUME Typed, NEW l \in Links, NEW w \in Ways
  PROVE  /\ pipe[l][w].held \in Seq(Pieces)
         /\ Len(pipe[l][w].held) \in Nat
         /\ pipe[l][w].held # <<>> => Len(pipe[l][w].held) > 0
<1>1. pipe[l][w].held \in Seq(Pieces)
  BY DEF Typed, TypeOK, Pipe
<1> QED BY <1>1, EmptySeq, LenProperties

(* A run of numbers is one still when its first is taken or its next put.  *)
Runs(s, n) == \A i \in 1 .. Len(s) : s[i] = n + i

LEMMA RunsOn ==
  ASSUME NEW s \in Seq(Pieces), NEW n \in Int, Runs(s, n)
  PROVE  /\ s # <<>> => /\ Runs(Tail(s), n + 1)
                        /\ n + 1 + Len(Tail(s)) = n + Len(s)
                        /\ Head(s) = n + 1
         /\ Runs(Append(s, n + Len(s) + 1), n)
         /\ Len(Append(s, n + Len(s) + 1)) = Len(s) + 1
<1>1. Len(s) \in Nat
  BY LenProperties
<1>2. ASSUME s # <<>>
      PROVE  /\ Runs(Tail(s), n + 1)
             /\ n + 1 + Len(Tail(s)) = n + Len(s)
             /\ Head(s) = n + 1
  <2>1. /\ Len(s) \in Nat \ {0} /\ Head(s) = s[1]
        /\ Len(Tail(s)) = Len(s) - 1
        /\ \A i \in 1 .. Len(s) - 1 : Tail(s)[i] = s[i + 1]
    BY <1>2, HeadTailProperties, EmptySeq, LenProperties
  <2>2. \A i \in 1 .. Len(s) - 1 : i + 1 \in 1 .. Len(s) /\ n + (i + 1) = n + 1 + i
    BY <2>1
  <2> QED BY <2>1, <2>2 DEF Runs
<1>3. s \in Seq(Int) /\ n + Len(s) + 1 \in Int
  <2>1. \A i \in 1 .. Len(s) : s[i] \in Int
    BY <1>1 DEF Runs
  <2>2. s = [i \in 1 .. Len(s) |-> s[i]]
    BY LenProperties
  <2> QED BY <1>1, <2>1, <2>2, IsASeq
<1>4. /\ Len(Append(s, n + Len(s) + 1)) = Len(s) + 1
      /\ Append(s, n + Len(s) + 1)[Len(s) + 1] = n + Len(s) + 1
      /\ \A i \in 1 .. Len(s) : Append(s, n + Len(s) + 1)[i] = s[i]
  BY <1>3, AppendProperties
<1>5. \A i \in 1 .. Len(s) + 1 : i = Len(s) + 1 \/ i \in 1 .. Len(s)
  BY <1>1
<1>6. n + Len(s) + 1 = n + (Len(s) + 1)
  BY <1>1
<1>7. Runs(Append(s, n + Len(s) + 1), n)
  BY <1>4, <1>5, <1>6 DEF Runs
<1> QED BY <1>2, <1>4, <1>7

(* The tally after pieces are taken off these links, these ways. *)
LEMMA Tallied ==
  ASSUME NEW n \in Tallies, NEW took
  PROVE  \E m \in Tallies : \A l \in Links, w \in Ways :
           m[l][w] = IF <<l, w>> \in took THEN n[l][w] + 1 ELSE n[l][w]
<1> DEFINE m == [l \in Links |-> [w \in Ways |->
                  IF <<l, w>> \in took THEN n[l][w] + 1 ELSE n[l][w]]]
<1>1. m \in Tallies
  BY DEF Tallies
<1>2. \A l \in Links, w \in Ways :
        m[l][w] = IF <<l, w>> \in took THEN n[l][w] + 1 ELSE n[l][w]
  OBVIOUS
<1> QED BY <1>1, <1>2

(* A step takes a piece off some links, and puts the one that comes next   *)
(* on others; elsewhere nothing moves, or what a link held is lost.        *)
MovesOf(n, took, put) ==
  /\ took \cap put = {}
  /\ \A l \in Links, w \in Ways :
       /\ <<l, w>> \in took => /\ pipe[l][w].held # <<>>
                               /\ pipe'[l][w].held = Tail(pipe[l][w].held)
                               /\ pipe'[l][w].over = pipe[l][w].over
       /\ <<l, w>> \in put => /\ pipe[l][w].over = "no"
                              /\ pipe'[l][w].held = Append(pipe[l][w].held,
                                                           n[l][w] + Len(pipe[l][w].held) + 1)
       /\ <<l, w>> \notin took /\ <<l, w>> \notin put => Lost(pipe[l][w], pipe'[l][w])
  /\ \A h \in Hops, w \in Ways :
       /\ <<Source(h, w), w>> \in took => \/ <<Sink(h, w), w>> \in put
                                          \/ pipe'[Sink(h, w)][w].over = "broken"
       /\ <<Sink(h, w), w>> \in put => <<Source(h, w), w>> \in took

(* Where a link stands after such a step. *)
LEMMA Cells ==
  ASSUME Typed, Typed', route' = route, NEW n \in Tallies, NEW m \in Tallies,
         NEW took, NEW put, MovesOf(n, took, put),
         \A l \in Links, w \in Ways :
           m[l][w] = IF <<l, w>> \in took THEN n[l][w] + 1 ELSE n[l][w],
         Numbered(n),
         NEW l \in Links, NEW w \in Ways
  PROVE  /\ Runs(pipe'[l][w].held, m[l][w])
         /\ pipe'[l][w].over # "broken" =>
              /\ pipe[l][w].over # "broken"
              /\ m[l][w] + Len(pipe'[l][w].held) =
                   n[l][w] + Len(pipe[l][w].held) + (IF <<l, w>> \in put THEN 1 ELSE 0)
<1>1. PICK s, q, a : s = pipe[l][w].held /\ q = pipe'[l][w].held /\ a = n[l][w]
  OBVIOUS
<1>2. s \in Seq(Pieces) /\ Len(s) \in Nat /\ Runs(s, a) /\ a \in Int
  BY <1>1, HeldType DEF Numbered, Tallies, Runs
<1>3. CASE <<l, w>> \in took
  <2>1. /\ <<l, w>> \notin put /\ s # <<>> /\ m[l][w] = a + 1
        /\ q = Tail(s) /\ pipe'[l][w].over = pipe[l][w].over
    BY <1>1, <1>3 DEF MovesOf
  <2>2. Runs(q, a + 1) /\ a + 1 + Len(q) = a + Len(s)
    BY <1>2, <2>1, RunsOn
  <2>3. a + Len(s) + 0 = a + Len(s)
    BY <1>2
  <2> QED BY <1>1, <2>1, <2>2, <2>3
<1>4. CASE <<l, w>> \in put
  <2>1. /\ pipe[l][w].over = "no" /\ m[l][w] = a /\ q = Append(s, a + Len(s) + 1)
    BY <1>1, <1>4 DEF MovesOf
  <2>2. Runs(q, a) /\ Len(q) = Len(s) + 1
    BY <1>2, <2>1, RunsOn
  <2>3. a + Len(q) = a + Len(s) + 1
    BY <1>2, <2>2
  <2> QED BY <1>1, <1>4, <2>1, <2>2, <2>3
<1>5. CASE <<l, w>> \notin took /\ <<l, w>> \notin put
  <2>1. /\ q = s \/ (q = <<>> /\ pipe'[l][w].over = "broken")
        /\ pipe[l][w].over = "broken" => pipe'[l][w].over = "broken"
        /\ m[l][w] = a
    BY <1>1, <1>5 DEF MovesOf, Lost
  <2>2. Runs(q, a)
    BY <1>2, <2>1, EmptySeq DEF Runs
  <2>3. a + Len(s) + 0 = a + Len(s)
    BY <1>2
  <2> QED BY <1>1, <1>5, <2>1, <2>2, <2>3
<1> QED BY <1>3, <1>4, <1>5

(* Such a step leaves the pieces numbered, and handed on.                  *)
LEMMA Moved ==
  ASSUME Typed, Typed', route' = route, NEW n \in Tallies, NEW m \in Tallies,
         NEW took, NEW put, MovesOf(n, took, put),
         \A l \in Links, w \in Ways :
           m[l][w] = IF <<l, w>> \in took THEN n[l][w] + 1 ELSE n[l][w],
         Counted(n),
         \A e \in Ends : end'[e].sent = IF <<LinkOf(e), WayOf(e)>> \in put
                                        THEN end[e].sent + 1 ELSE end[e].sent
  PROVE  m \in Tallies' /\ Numbered(m)' /\ HandedOn(m)' /\ Given(m)'
<1>1. /\ Links' = Links /\ Hops' = Hops /\ Last' = Last
      /\ \A h \in Hops, w \in Ways : Source(h, w) \in Links /\ Sink(h, w) \in Links
      /\ \A e \in Ends : LinkOf(e) \in Links /\ WayOf(e) \in Ways
  BY SameRoute, Places, TwoWays DEF Typed
<1>2. ASSUME NEW l \in Links, NEW w \in Ways
      PROVE  /\ Runs(pipe'[l][w].held, m[l][w])
             /\ pipe'[l][w].over # "broken" =>
                  /\ pipe[l][w].over # "broken"
                  /\ m[l][w] + Len(pipe'[l][w].held) =
                       n[l][w] + Len(pipe[l][w].held) + (IF <<l, w>> \in put THEN 1 ELSE 0)
  BY Cells DEF Counted
<1>3. m \in Tallies' /\ Numbered(m)'
  BY <1>1, <1>2 DEF Tallies, Numbered, Runs
<1>4. HandedOn(m)'
  <2> SUFFICES ASSUME NEW h \in Hops, NEW w \in Ways, pipe'[Sink(h, w)][w].over # "broken"
               PROVE  m[Source(h, w)][w] = m[Sink(h, w)][w] + Len(pipe'[Sink(h, w)][w].held)
    BY <1>1 DEF HandedOn
  <2>1. n[Source(h, w)][w] = n[Sink(h, w)][w] + Len(pipe[Sink(h, w)][w].held)
    BY <1>1, <1>2 DEF Counted, HandedOn
  <2>2. <<Source(h, w), w>> \in took <=> <<Sink(h, w), w>> \in put
    BY DEF MovesOf
  <2>3. n[Source(h, w)][w] \in Int
    BY <1>1 DEF Tallies
  <2> QED BY <1>1, <1>2, <2>1, <2>2, <2>3
<1>5. Given(m)'
  <2>1. \A e \in Ends : LinkOf(e)' = LinkOf(e)
    BY <1>1 DEF LinkOf
  <2> SUFFICES ASSUME NEW e \in Ends, pipe'[LinkOf(e)][WayOf(e)].over # "broken"
               PROVE  m[LinkOf(e)][WayOf(e)] + Len(pipe'[LinkOf(e)][WayOf(e)].held) = end'[e].sent
    BY <2>1 DEF Given
  <2>2. PICK l \in Links, w \in Ways : l = LinkOf(e) /\ w = WayOf(e)
    BY <1>1
  <2>3. n[l][w] + Len(pipe[l][w].held) = end[e].sent
    BY <1>1, <1>2, <2>2 DEF Counted, Given
  <2>4. m[l][w] + Len(pipe'[l][w].held) =
          end[e].sent + (IF <<l, w>> \in put THEN 1 ELSE 0)
    BY <1>2, <2>2, <2>3
  <2>5. end'[e].sent = IF <<l, w>> \in put THEN end[e].sent + 1 ELSE end[e].sent
    BY <2>2
  <2>6. end[e].sent + 0 = end[e].sent
    BY TunnelAssumption DEF Typed, TypeOK, End
  <2> QED BY <2>2, <2>4, <2>5, <2>6
<1> QED BY <1>3, <1>4, <1>5

(* Nothing reaches an end. *)
LEMMA ReceivedKept ==
  ASSUME Typed, route' = route, routed' = routed,
         NEW n \in Tallies, NEW m \in Tallies, Received(n),
         \A e \in Ends : /\ end'[e].got = end[e].got
                         /\ m[LinkOf(e)][WayOf(Other(e))] = n[LinkOf(e)][WayOf(Other(e))],
         hop'[Last] \in {"idle", "dialling"} => Waits(Last),
         Nameless => \/ pipe'[Last]["out"].held = <<>> /\ hop'[Last] # "joined"
                     \/ pipe[Last]["out"].held # <<>> \/ hop[Last] = "joined"
  PROVE  Received(m)'
<1>1. Last' = Last /\ \A e \in Ends : LinkOf(e)' = LinkOf(e)
  BY SameRoute DEF LinkOf
<1>2. Nameless' = Nameless /\ LinkOf("far") = Last /\ WayOf(Other("far")) = "out" /\ "far" \in Ends
  BY <1>1 DEF Nameless, LinkOf, WayOf, Other, Ends
<1>3. m[Last]["out"] = n[Last]["out"]
  BY <1>2
<1>4. ASSUME NEW e \in Ends
      PROVE  /\ \A i \in 1 .. Len(end'[e].got) : end'[e].got[i] = i
             /\ ~(e = "far" /\ Nameless) => m[LinkOf(e)][WayOf(Other(e))] = Len(end'[e].got)
             /\ e = "far" /\ Nameless =>
                  /\ end'["far"].got = <<>>
                  /\ hop'[Last] \in {"idle", "dialling"} => m[Last]["out"] = 0
                  /\ pipe'[Last]["out"].held # <<>> \/ hop'[Last] = "joined" =>
                       m[Last]["out"] = 0 - 1
  <2>1. end'[e].got = end[e].got
    OBVIOUS
  <2>2. m[LinkOf(e)][WayOf(Other(e))] = n[LinkOf(e)][WayOf(Other(e))]
    OBVIOUS
  <2>3. /\ \A i \in 1 .. Len(end'[e].got) : end'[e].got[i] = i
        /\ ~(e = "far" /\ Nameless) => m[LinkOf(e)][WayOf(Other(e))] = Len(end'[e].got)
    BY <2>1, <2>2 DEF Received
  <2>4. ASSUME e = "far", Nameless
        PROVE  /\ end'["far"].got = <<>>
               /\ hop'[Last] \in {"idle", "dialling"} => m[Last]["out"] = 0
               /\ pipe'[Last]["out"].held # <<>> \/ hop'[Last] = "joined" =>
                    m[Last]["out"] = 0 - 1
    BY <1>3, <2>1, <2>4 DEF Received
  <2> QED BY <2>3, <2>4
<1> QED BY <1>1, <1>2, <1>4 DEF Received, Waits

(* Nothing is taken or put: at most what links held is lost.               *)
LEMMA LossCounted ==
  ASSUME Typed, Typed', route' = route, routed' = routed, NEW n \in Tallies, Counted(n),
         \A l \in Links, w \in Ways : Lost(pipe[l][w], pipe'[l][w]),
         \A e \in Ends : end'[e].got = end[e].got /\ end'[e].sent = end[e].sent,
         hop'[Last] \in {"idle", "dialling"} => Waits(Last),
         hop'[Last] = "joined" /\ Nameless => hop[Last] = "joined"
  PROVE  n \in Tallies' /\ Counted(n)'
<1>1. MovesOf(n, {}, {})
  BY DEF MovesOf
<1>2. \A l \in Links, w \in Ways : n[l][w] = IF <<l, w>> \in {} THEN n[l][w] + 1 ELSE n[l][w]
  OBVIOUS
<1>3. \A e \in Ends : end'[e].sent = IF <<LinkOf(e), WayOf(e)>> \in {}
                                     THEN end[e].sent + 1 ELSE end[e].sent
  OBVIOUS
<1>4. n \in Tallies' /\ Numbered(n)' /\ HandedOn(n)' /\ Given(n)'
  BY <1>1, <1>2, <1>3, Moved
<1>5. Last \in Links /\ "out" \in Ways
  BY Places, HopTypes DEF Typed
<1>6. Lost(pipe[Last]["out"], pipe'[Last]["out"])
  BY <1>5
<1>7. pipe'[Last]["out"].held # <<>> => pipe[Last]["out"].held # <<>>
  BY <1>6 DEF Lost
<1>8. Received(n)'
  BY <1>7, ReceivedKept DEF Counted
<1> QED BY <1>4, <1>8 DEF Counted

(* Nothing is lost where nothing changes, *)
LEMMA Same == \A p : Lost(p, p)
  BY DEF Lost

(* nor by shutting one way; *)
LEMMA ShutLost ==
  ASSUME NEW link \in [Ways -> Pipe], NEW w \in Ways
  PROVE  \A x \in Ways : Lost(link[x], Shut(link, w)[x])
<1>1. \A x \in Ways : /\ Shut(link, w)[x].held = link[x].held
                      /\ link[x].over = "broken" => Shut(link, w)[x].over = "broken"
  BY Shutting
<1> QED BY <1>1 DEF Lost

(* what closing loses, it loses both ways, with the link broken, *)
LEMMA CloseLost ==
  ASSUME NEW link \in [Ways -> Pipe], NEW w \in Ways
  PROVE  \A x \in Ways : Lost(link[x], Close(link, w)[x])
<1>1. \A x \in Ways :
        IF link[Reverse(w)].held # <<>>
        THEN Close(link, w)[x].held = <<>> /\ Close(link, w)[x].over = "broken"
        ELSE /\ Close(link, w)[x].held = link[x].held
             /\ link[x].over = "broken" => Close(link, w)[x].over = "broken"
  BY Closing
<1> QED BY <1>1 DEF Lost

(* and so does a hop that closes both. *)
LEMMA ReleaseLost ==
  ASSUME Typed, NEW h \in Hops, Release(h) \/ pipe' = [pipe EXCEPT ![h - 1] = Close(@, "back")]
  PROVE  \A l \in Links, w \in Ways : Lost(pipe[l][w], pipe'[l][w])
<1>1. /\ h - 1 \in Links /\ h \in Links
      /\ pipe[h - 1] \in [Ways -> Pipe] /\ pipe[h] \in [Ways -> Pipe]
      /\ "out" \in Ways /\ "back" \in Ways
  BY Places, HopTypes DEF Typed
<1>2. ASSUME NEW l \in Links, NEW w \in Ways
      PROVE  Lost(pipe[l][w], pipe'[l][w])
  <2>1. CASE pipe'[l] = pipe[l]
    BY <2>1, Same
  <2>2. CASE l = h - 1 /\ pipe'[l] = Close(pipe[l], "back")
    BY <1>1, <2>2, CloseLost
  <2>3. CASE l = h /\ pipe'[l] = Close(pipe[l], "out")
    BY <1>1, <2>3, CloseLost
  <2>4. CASE Release(h)
    BY <2>1, <2>2, <2>3, <2>4, ReleaseTypes
  <2>5. CASE pipe' = [pipe EXCEPT ![h - 1] = Close(@, "back")]
    BY <1>1, <2>1, <2>2, <2>5 DEF Typed, TypeOK
  <2> QED BY <2>4, <2>5
<1> QED BY <1>2

(* The hops come and go. *)
LEMMA HopsCounted ==
  ASSUME Typed, Staged, NEW n \in Tallies, Counted(n), Typed',
         \/ Listen \/ Signal \/ RelayExits \/ Connect \/ UNCHANGED vars
         \/ \E h \in Hops : DialFails(h) \/ HopEnds(h) \/ HopDies(h)
  PROVE  n \in Tallies' /\ Counted(n)'
<1>1. Last \in Hops
  BY Places DEF Typed
<1>2. ASSUME UNCHANGED <<route, pipe, end, routed>>,
             hop'[Last] \in {"idle", "dialling"} => Waits(Last),
             hop'[Last] = "joined" => hop[Last] = "joined"
      PROVE  n \in Tallies' /\ Counted(n)'
  BY <1>2, Same, LossCounted
<1>3. CASE Listen \/ Signal \/ UNCHANGED vars
  BY <1>2, <1>3 DEF Listen, Signal, vars, Waits
<1>4. CASE Connect
  <2>1. hop'[Last] = hop[Last] \/ (hop[Last] = "idle" /\ hop'[Last] = "dialling")
    BY <1>1, <1>4 DEF Connect, Typed, TypeOK
  <2> QED BY <1>2, <1>4, <2>1 DEF Connect, Waits
<1>5. ASSUME NEW h \in Hops, Release(h) \/ pipe' = [pipe EXCEPT ![h - 1] = Close(@, "back")],
             UNCHANGED <<route, end, routed>>,
             \A k \in Hops : hop'[k] = hop[k] \/ hop'[k] \in {"failed", "dead", "closed"}
      PROVE  n \in Tallies' /\ Counted(n)'
  <2>1. \A l \in Links, w \in Ways : Lost(pipe[l][w], pipe'[l][w])
    BY <1>5, ReleaseLost
  <2>2. hop'[Last] \in {"idle", "dialling"} => Waits(Last)
    BY <1>1, <1>5 DEF Waits
  <2>3. hop'[Last] = "joined" => hop[Last] = "joined"
    BY <1>1, <1>5
  <2> QED BY <1>5, <2>1, <2>2, <2>3, LossCounted
<1>6. ASSUME NEW h \in Hops, Die(h), UNCHANGED <<route, end, routed>>
      PROVE  n \in Tallies' /\ Counted(n)'
  <2>1. \A k \in Hops : hop'[k] = hop[k] \/ hop'[k] \in {"failed", "dead", "closed"}
    BY <1>6 DEF Die, Typed, TypeOK
  <2> QED BY <1>5, <1>6, <2>1 DEF Die
<1>7. CASE RelayExits
  <2>1. CASE UNCHANGED <<hop, copying, pipe>>
    BY <1>2, <1>7, <2>1 DEF RelayExits, Waits
  <2> QED BY <1>6, <1>7, <2>1 DEF RelayExits
<1>8. ASSUME NEW h \in Hops, DialFails(h) \/ HopEnds(h)
      PROVE  n \in Tallies' /\ Counted(n)'
  <2>1. \A k \in Hops : hop'[k] = hop[k] \/ hop'[k] \in {"failed", "dead", "closed"}
    BY <1>8 DEF DialFails, HopEnds, Typed, TypeOK
  <2> QED BY <1>5, <1>8, <2>1 DEF DialFails, HopEnds
<1>9. ASSUME NEW h \in Hops, HopDies(h)
      PROVE  n \in Tallies' /\ Counted(n)'
  BY <1>6, <1>9 DEF HopDies
<1> QED BY <1>3, <1>4, <1>7, <1>8, <1>9

(* What an end that is done with something keeps. *)
LEMMA EndsAfter ==
  ASSUME Typed, NEW e \in Ends
  PROVE  /\ end' = [end EXCEPT ![e].shut = TRUE] =>
              \A f \in Ends : /\ end'[f].sent = end[f].sent /\ end'[f].got = end[f].got
                              /\ end'[f].left = end[f].left /\ end'[f].sawEnd = end[f].sawEnd
                              /\ end'[f].shut <=> (f = e \/ end[f].shut)
         /\ end' = [end EXCEPT ![e].left = TRUE] =>
              \A f \in Ends : /\ end'[f].sent = end[f].sent /\ end'[f].got = end[f].got
                              /\ end'[f].shut = end[f].shut /\ end'[f].sawEnd = end[f].sawEnd
                              /\ end'[f].left <=> (f = e \/ end[f].left)
         /\ end' = [end EXCEPT ![e].sawEnd = TRUE] =>
              \A f \in Ends : /\ end'[f].sent = end[f].sent /\ end'[f].got = end[f].got
                              /\ end'[f].left = end[f].left /\ end'[f].shut = end[f].shut
                              /\ end'[f].sawEnd <=> (f = e \/ end[f].sawEnd)
<1>1. end \in [Ends -> End]
  BY DEF Typed, TypeOK
<1>2. CASE end' = [end EXCEPT ![e].shut = TRUE]
  BY <1>1, <1>2 DEF End
<1>3. CASE end' = [end EXCEPT ![e].left = TRUE]
  BY <1>1, <1>3 DEF End
<1>4. CASE end' = [end EXCEPT ![e].sawEnd = TRUE]
  BY <1>1, <1>4 DEF End
<1> QED BY <1>2, <1>3, <1>4

(* A copier has no more to read, an end no more to send, or leaves.        *)
LEMMA ShutCounted ==
  ASSUME Typed, NEW n \in Tallies, Counted(n), Typed',
         \/ \E h \in Hops, w \in Ways : CopyEnds(h, w)
         \/ \E e \in Ends : ShutDown(e) \/ Leave(e) \/ SeeEnd(e)
         \/ NoRoute
  PROVE  n \in Tallies' /\ Counted(n)'
<1>1. ASSUME NEW l \in Links, NEW w \in Ways,
             pipe' \in {pipe, [pipe EXCEPT ![l] = Shut(@, w)], [pipe EXCEPT ![l] = Close(@, w)]},
             UNCHANGED <<route, hop, routed>>,
             \A e \in Ends : end'[e].got = end[e].got /\ end'[e].sent = end[e].sent
      PROVE  n \in Tallies' /\ Counted(n)'
  <2>1. ASSUME NEW k \in Links, NEW x \in Ways
        PROVE  Lost(pipe[k][x], pipe'[k][x])
    <3>1. pipe[k] \in [Ways -> Pipe]
      BY HopTypes
    <3>2. pipe'[k] \in {pipe[k], Shut(pipe[k], w), Close(pipe[k], w)}
      BY <1>1 DEF Typed, TypeOK
    <3> QED BY <3>1, <3>2, Same, ShutLost, CloseLost
  <2> QED BY <1>1, <2>1, LossCounted DEF Waits
<1>2. ASSUME NEW h \in Hops, NEW w \in Ways, CopyEnds(h, w)
      PROVE  n \in Tallies' /\ Counted(n)'
  <2>1. Sink(h, w) \in Links
    BY Places DEF Typed
  <2> QED BY <1>1, <1>2, <2>1 DEF CopyEnds
<1>3. \A e \in Ends : /\ LinkOf(e) \in Links /\ WayOf(e) \in Ways
                      /\ end[e] \in End
  BY Places, TwoWays, HopTypes DEF Typed
<1>4. ASSUME NEW e \in Ends, ShutDown(e) \/ Leave(e) \/ SeeEnd(e)
      PROVE  n \in Tallies' /\ Counted(n)'
  <2>1. end' \in {[end EXCEPT ![e].shut = TRUE], [end EXCEPT ![e].left = TRUE],
                  [end EXCEPT ![e].sawEnd = TRUE]}
    BY <1>4 DEF ShutDown, Leave, SeeEnd
  <2>2. \A f \in Ends : end'[f].got = end[f].got /\ end'[f].sent = end[f].sent
    BY <2>1, EndsAfter
  <2> QED BY <1>1, <1>3, <1>4, <2>2 DEF ShutDown, Leave, SeeEnd
<1>5. CASE NoRoute
  <2>1. \A f \in Ends : end'[f].got = end[f].got /\ end'[f].sent = end[f].sent
    BY <1>5 DEF NoRoute, Typed, TypeOK, End
  <2>2. Last \in Links /\ "back" \in Ways
    BY Places, HopTypes DEF Typed
  <2> QED BY <1>1, <1>5, <2>1, <2>2 DEF NoRoute
<1> QED BY <1>2, <1>4, <1>5

(* One more is taken off this link, this way. *)
After(n, l, w, m) ==
  \A k \in Links, x \in Ways : m[k][x] = IF k = l /\ x = w THEN n[k][x] + 1 ELSE n[k][x]

(* There is a tally with one more. *)
LEMMA OneMore ==
  ASSUME NEW n \in Tallies, NEW l, NEW w
  PROVE  \E m \in Tallies : After(n, l, w, m)
<1>1. PICK m \in Tallies : \A k \in Links, x \in Ways :
        m[k][x] = IF <<k, x>> \in {<<l, w>>} THEN n[k][x] + 1 ELSE n[k][x]
  BY Tallied
<1>2. \A k, x : <<k, x>> \in {<<l, w>>} <=> k = l /\ x = w
  OBVIOUS
<1> QED BY <1>1, <1>2 DEF After

(* A copier takes the next piece, and puts it on the link beyond unless    *)
(* that one no longer holds.                                               *)
LEMMA CopyMoves ==
  ASSUME Typed, NEW h \in Hops, NEW w \in Ways, Copy(h, w) \/ CopyFails(h, w)
  PROVE  /\ pipe[Source(h, w)][w].held # <<>>
         /\ pipe'[Source(h, w)] = Pull(pipe[Source(h, w)], w)
         /\ Copy(h, w) => /\ pipe[Sink(h, w)][w].over = "no"
                          /\ pipe'[Sink(h, w)] = Push(pipe[Sink(h, w)], w,
                                                      Head(pipe[Source(h, w)][w].held))
         /\ CopyFails(h, w) => pipe'[Sink(h, w)] = Broken(pipe[Sink(h, w)])
         /\ \A k \in Links : k # Source(h, w) /\ k # Sink(h, w) => pipe'[k] = pipe[k]
         /\ UNCHANGED <<route, hop, end, routed>>
<1> DEFINE s == Source(h, w)
           t == Sink(h, w)
<1>1. s \in Links /\ t \in Links /\ s # t
  BY Places, Apart DEF Typed
<1> HIDE DEF s, t
<1>2. CASE Copy(h, w)
  <2>1. /\ pipe[s][w].held # <<>> /\ pipe[t][w].over = "no"
        /\ pipe' = [pipe EXCEPT ![s] = Pull(@, w), ![t] = Push(@, w, Head(pipe[s][w].held))]
        /\ UNCHANGED <<route, hop, end, routed>>
    BY <1>2 DEF Copy, s, t
  <2>2. /\ pipe'[s] = Pull(pipe[s], w)
        /\ pipe'[t] = Push(pipe[t], w, Head(pipe[s][w].held))
        /\ \A k \in Links : k # s /\ k # t => pipe'[k] = pipe[k]
    BY <1>1, <2>1 DEF Typed, TypeOK
  <2>3. ~CopyFails(h, w)
    <3>1. ~pipe[t][w].deaf /\ pipe[t][w].over # "broken"
      BY <1>2 DEF Copy, t
    <3> QED BY <3>1 DEF CopyFails, t
  <2> QED BY <2>1, <2>2, <2>3 DEF s, t
<1>3. CASE CopyFails(h, w)
  <2>1. /\ pipe[s][w].held # <<>>
        /\ pipe' = [pipe EXCEPT ![s] = Pull(@, w), ![t] = Broken(@)]
        /\ UNCHANGED <<route, hop, end, routed>>
    BY <1>3 DEF CopyFails, s, t
  <2>2. /\ pipe'[s] = Pull(pipe[s], w) /\ pipe'[t] = Broken(pipe[t])
        /\ \A k \in Links : k # s /\ k # t => pipe'[k] = pipe[k]
    BY <1>1, <2>1 DEF Typed, TypeOK
  <2>3. ~Copy(h, w)
    <3>1. pipe[t][w].deaf \/ pipe[t][w].over = "broken"
      BY <1>3 DEF CopyFails, t
    <3> QED BY <3>1 DEF Copy, t
  <2> QED BY <2>1, <2>2, <2>3 DEF s, t
<1> QED BY <1>2, <1>3

(* A copier keeps count: one more off one side, and on the other unless it *)
(* is broken.                                                              *)
LEMMA CopyCounted ==
  ASSUME Typed, Staged, NEW n \in Tallies, Counted(n), Typed',
         NEW h \in Hops, NEW w \in Ways, Copy(h, w) \/ CopyFails(h, w),
         NEW m \in Tallies, After(n, Source(h, w), w, m)
  PROVE  m \in Tallies' /\ Counted(m)'
<1>1. PICK s \in Links, t \in Links :
        /\ s = Source(h, w) /\ t = Sink(h, w) /\ s # t
        /\ pipe[s] \in [Ways -> Pipe] /\ pipe[t] \in [Ways -> Pipe]
  BY Places, Apart, HopTypes DEF Typed
<1>2. PICK took, put : took = {<<s, w>>} /\ put = IF Copy(h, w) THEN {<<t, w>>} ELSE {}
  OBVIOUS
<1>3. \A k, x : /\ <<k, x>> \in took <=> k = s /\ x = w
                /\ <<k, x>> \in put <=> Copy(h, w) /\ k = t /\ x = w
  BY <1>2
<1>4. /\ pipe[s][w].held # <<>> /\ pipe'[s] = Pull(pipe[s], w)
      /\ Copy(h, w) => /\ pipe[t][w].over = "no"
                       /\ pipe'[t] = Push(pipe[t], w, Head(pipe[s][w].held))
      /\ CopyFails(h, w) => pipe'[t] = Broken(pipe[t])
      /\ \A k \in Links : k # s /\ k # t => pipe'[k] = pipe[k]
      /\ UNCHANGED <<route, hop, end, routed>>
  BY <1>1, CopyMoves
<1>5. /\ \A x \in Ways : x # w => pipe'[s][x] = pipe[s][x]
      /\ pipe'[s][w].held = Tail(pipe[s][w].held) /\ pipe'[s][w].over = pipe[s][w].over
      /\ Head(pipe[s][w].held) \in Pieces
  BY <1>1, <1>4, Pulling
<1>6. Copy(h, w) => /\ \A x \in Ways : x # w => pipe'[t][x] = pipe[t][x]
                    /\ pipe'[t][w].held = Append(pipe[t][w].held, Head(pipe[s][w].held))
  BY <1>1, <1>4, <1>5, Pushing
<1>7. ~Copy(h, w) => \A x \in Ways : pipe'[t][x].held = <<>> /\ pipe'[t][x].over = "broken"
  BY <1>1, <1>4, Breaking
<1>8. Copy(h, w) => Head(pipe[s][w].held) = n[t][w] + Len(pipe[t][w].held) + 1
  <2>1. Runs(pipe[s][w].held, n[s][w]) /\ n[s][w] \in Int /\ pipe[s][w].held \in Seq(Pieces)
    BY HeldType DEF Counted, Numbered, Runs, Tallies
  <2>2. Head(pipe[s][w].held) = n[s][w] + 1
    BY <1>4, <2>1, RunsOn
  <2>3. Copy(h, w) => n[s][w] = n[t][w] + Len(pipe[t][w].held)
    BY <1>1, <1>4 DEF Counted, HandedOn
  <2> QED BY <2>2, <2>3
<1>9. MovesOf(n, took, put)
  <2>1. took \cap put = {}
    BY <1>1, <1>2
  <2>2. ASSUME NEW k \in Links, NEW x \in Ways
        PROVE  /\ <<k, x>> \in took => /\ pipe[k][x].held # <<>>
                                       /\ pipe'[k][x].held = Tail(pipe[k][x].held)
                                       /\ pipe'[k][x].over = pipe[k][x].over
               /\ <<k, x>> \in put => /\ pipe[k][x].over = "no"
                                      /\ pipe'[k][x].held =
                                           Append(pipe[k][x].held,
                                                  n[k][x] + Len(pipe[k][x].held) + 1)
               /\ <<k, x>> \notin took /\ <<k, x>> \notin put => Lost(pipe[k][x], pipe'[k][x])
    <3>1. <<k, x>> \in took => /\ pipe[k][x].held # <<>>
                               /\ pipe'[k][x].held = Tail(pipe[k][x].held)
                               /\ pipe'[k][x].over = pipe[k][x].over
      BY <1>3, <1>4, <1>5
    <3>2. <<k, x>> \in put => /\ pipe[k][x].over = "no"
                              /\ pipe'[k][x].held = Append(pipe[k][x].held,
                                                           n[k][x] + Len(pipe[k][x].held) + 1)
      <4>1. <<k, x>> \in put => Copy(h, w) /\ k = t /\ x = w
        BY <1>3
      <4> QED BY <1>4, <1>6, <1>8, <4>1
    <3>3. ASSUME <<k, x>> \notin took, <<k, x>> \notin put
          PROVE  Lost(pipe[k][x], pipe'[k][x])
      <4>1. pipe'[k][x] = pipe[k][x] \/ (pipe'[k][x].held = <<>> /\ pipe'[k][x].over = "broken")
        BY <1>3, <1>4, <1>5, <1>6, <1>7, <3>3
      <4> QED BY <4>1 DEF Lost
    <3> QED BY <3>1, <3>2, <3>3
  <2>3. ASSUME NEW k \in Hops, NEW x \in Ways
        PROVE  /\ <<Source(k, x), x>> \in took => \/ <<Sink(k, x), x>> \in put
                                                  \/ pipe'[Sink(k, x)][x].over = "broken"
               /\ <<Sink(k, x), x>> \in put => <<Source(k, x), x>> \in took
    <3>1. Source(k, x) = s /\ x = w => k = h
      BY <1>1, Apart DEF Typed
    <3>2. Sink(k, x) = t /\ x = w => k = h
      BY <1>1, Apart DEF Typed
    <3> QED BY <1>1, <1>3, <1>7, <3>1, <3>2
  <2> QED BY <2>1, <2>2, <2>3 DEF MovesOf
<1>10. \A k \in Links, x \in Ways :
         m[k][x] = IF <<k, x>> \in took THEN n[k][x] + 1 ELSE n[k][x]
  <2>1. \A k, x : <<k, x>> \in took <=> k = Source(h, w) /\ x = w
    BY <1>1, <1>3
  <2> QED BY <2>1 DEF After
<1>11. \A e \in Ends : end'[e].sent = IF <<LinkOf(e), WayOf(e)>> \in put
                                      THEN end[e].sent + 1 ELSE end[e].sent
  <2>1. \A e \in Ends : <<LinkOf(e), WayOf(e)>> \notin put
    BY <1>1, <1>3, Apart DEF Typed
  <2> QED BY <1>4, <2>1
<1>12. m \in Tallies' /\ Numbered(m)' /\ HandedOn(m)' /\ Given(m)'
  BY <1>4, <1>9, <1>10, <1>11, Moved
<1>13. Received(m)'
  <2>1. \A e \in Ends : m[LinkOf(e)][WayOf(Other(e))] = n[LinkOf(e)][WayOf(Other(e))]
    <3>1. \A e \in Ends : <<LinkOf(e), WayOf(Other(e))>> \notin took
      BY <1>1, <1>3, Apart DEF Typed
    <3>2. \A e \in Ends : LinkOf(e) \in Links /\ WayOf(Other(e)) \in Ways
      BY Places, TwoWays DEF Typed
    <3> QED BY <1>10, <3>1, <3>2
  <2>2. pipe'[Last]["out"].held # <<>> => pipe[Last]["out"].held # <<>> \/ hop[Last] = "joined"
    <3>1. Last \in Links /\ "out" \in Ways
      BY Places, HopTypes DEF Typed
    <3>2. CASE <<Last, "out">> \in put
      <4>1. h = Last
        BY <1>1, <1>3, <3>2 DEF Sink
      <4>2. copying[h][w]
        BY <1>4, CopierMoves DEF Copier
      <4> QED BY <4>1, <4>2 DEF Staged
    <3>3. CASE <<Last, "out">> \in took
      BY <1>3, <1>4, <3>3
    <3>4. CASE <<Last, "out">> \notin put /\ <<Last, "out">> \notin took
      <4>1. Lost(pipe[Last]["out"], pipe'[Last]["out"])
        BY <1>9, <3>1, <3>4 DEF MovesOf
      <4> QED BY <4>1 DEF Lost
    <3> QED BY <3>2, <3>3, <3>4
  <2> QED BY <1>4, <2>1, <2>2, ReceivedKept DEF Counted, Waits
<1> QED BY <1>12, <1>13 DEF Counted

(* What an end sends is the next piece of the link it is at.               *)
LEMMA SendCounted ==
  ASSUME Typed, Staged, NEW n \in Tallies, Counted(n), Typed', NEW e \in Ends, Send(e)
  PROVE  n \in Tallies' /\ Counted(n)'
<1>1. PICK l \in Links, w \in Ways :
        l = LinkOf(e) /\ w = WayOf(e) /\ pipe[l] \in [Ways -> Pipe] /\ end[e] \in End
  BY Places, TwoWays, HopTypes DEF Typed
<1>2. PICK put : put = {<<l, w>>}
  OBVIOUS
<1>3. \A k, x : <<k, x>> \in put <=> k = l /\ x = w
  BY <1>2
<1>4. /\ pipe[l][w].over = "no" /\ end[e].sent < MaxSent
      /\ end' = [end EXCEPT ![e].sent = @ + 1]
      /\ pipe' = [pipe EXCEPT ![l] = Push(@, w, end[e].sent + 1)]
      /\ UNCHANGED <<route, hop, routed>> /\ MaySpeak(e)
  BY <1>1 DEF Send
<1>5. end[e].sent + 1 \in Pieces /\ end[e].sent \in Nat
  BY <1>1, <1>4, TunnelAssumption DEF End, Pieces, Name
<1>6. /\ pipe'[l] = Push(pipe[l], w, end[e].sent + 1)
      /\ \A k \in Links : k # l => pipe'[k] = pipe[k]
  BY <1>4 DEF Typed, TypeOK
<1>7. /\ \A x \in Ways : x # w => pipe'[l][x] = pipe[l][x]
      /\ pipe'[l][w].held = Append(pipe[l][w].held, end[e].sent + 1)
  BY <1>1, <1>5, <1>6, Pushing
<1>8. n[l][w] + Len(pipe[l][w].held) = end[e].sent
  BY <1>1, <1>4 DEF Counted, Given
<1>9. MovesOf(n, {}, put)
  <2>1. ASSUME NEW k \in Links, NEW x \in Ways
        PROVE  /\ <<k, x>> \in put => /\ pipe[k][x].over = "no"
                                      /\ pipe'[k][x].held =
                                           Append(pipe[k][x].held,
                                                  n[k][x] + Len(pipe[k][x].held) + 1)
               /\ <<k, x>> \notin put => Lost(pipe[k][x], pipe'[k][x])
    <3>1. CASE k = l /\ x = w
      BY <1>3, <1>4, <1>7, <1>8, <3>1
    <3>2. CASE ~(k = l /\ x = w)
      BY <1>3, <1>6, <1>7, <3>2, Same
    <3> QED BY <3>1, <3>2
  <2>2. ASSUME NEW h \in Hops, NEW x \in Ways
        PROVE  <<Sink(h, x), x>> \notin put
    BY <1>1, <1>3, Apart DEF Typed
  <2> QED BY <2>1, <2>2 DEF MovesOf
<1>10. \A k \in Links, x \in Ways :
         n[k][x] = IF <<k, x>> \in {} THEN n[k][x] + 1 ELSE n[k][x]
  OBVIOUS
<1>11. \A f \in Ends : /\ end'[f].got = end[f].got
                       /\ end'[f].sent = IF f = e THEN end[f].sent + 1 ELSE end[f].sent
  BY <1>1, <1>4 DEF Typed, TypeOK, End
<1>12. \A f \in Ends : <<LinkOf(f), WayOf(f)>> \in put <=> f = e
  BY <1>1, <1>3 DEF WayOf, Ends
<1>13. n \in Tallies' /\ Numbered(n)' /\ HandedOn(n)' /\ Given(n)'
  BY <1>4, <1>9, <1>10, <1>11, <1>12, Moved
<1>14. Received(n)'
  <2>1. "out" \in Ways /\ Last # 0 /\ Last \in Links
    BY Places, HopTypes DEF Typed
  <2>2. ~(l = Last /\ w = "out")
    BY <1>1, <2>1 DEF LinkOf, WayOf, Ends
  <2>3. pipe'[Last]["out"] = pipe[Last]["out"]
    BY <1>6, <1>7, <2>1, <2>2
  <2> QED BY <1>4, <1>11, <2>3, ReceivedKept DEF Counted, Waits
<1> QED BY <1>13, <1>14 DEF Counted

(* An end takes the next piece off its link, or the gateway the name.      *)
LEMMA TakeCounted ==
  ASSUME Typed, Staged, NEW n \in Tallies, Counted(n), Typed', NEW e \in Ends,
         Take(e) \/ (e = "far" /\ ReadRoute),
         NEW m \in Tallies, After(n, LinkOf(e), WayOf(Other(e)), m)
  PROVE  m \in Tallies' /\ Counted(m)'
<1>1. PICK l \in Links, w \in Ways :
        /\ l = LinkOf(e) /\ w = WayOf(Other(e)) /\ pipe[l] \in [Ways -> Pipe]
        /\ end[e] \in End
  BY Places, TwoWays, HopTypes DEF Typed
<1>2. e = "far" => l = Last /\ w = "out"
  BY <1>1 DEF LinkOf, WayOf, Other
<1>3. /\ pipe[l][w].held # <<>> /\ pipe' = [pipe EXCEPT ![l] = Pull(@, w)]
      /\ UNCHANGED <<route, hop>>
  BY <1>1, <1>2 DEF Take, ReadRoute
<1>4. PICK took : took = {<<l, w>>}
  OBVIOUS
<1>5. \A k, x : <<k, x>> \in took <=> k = l /\ x = w
  BY <1>4
<1>6. /\ pipe'[l] = Pull(pipe[l], w)
      /\ \A k \in Links : k # l => pipe'[k] = pipe[k]
  BY <1>3 DEF Typed, TypeOK
<1>7. /\ \A x \in Ways : x # w => pipe'[l][x] = pipe[l][x]
      /\ pipe'[l][w].held = Tail(pipe[l][w].held) /\ pipe'[l][w].over = pipe[l][w].over
      /\ Head(pipe[l][w].held) \in Pieces
  BY <1>1, <1>3, <1>6, Pulling
<1>8. Head(pipe[l][w].held) = n[l][w] + 1 /\ n[l][w] \in Int
  <2>1. Runs(pipe[l][w].held, n[l][w]) /\ n[l][w] \in Int /\ pipe[l][w].held \in Seq(Pieces)
    BY HeldType DEF Counted, Numbered, Runs, Tallies
  <2> QED BY <1>3, <2>1, RunsOn
<1>9. MovesOf(n, took, {})
  <2>1. ASSUME NEW k \in Links, NEW x \in Ways
        PROVE  /\ <<k, x>> \in took => /\ pipe[k][x].held # <<>>
                                       /\ pipe'[k][x].held = Tail(pipe[k][x].held)
                                       /\ pipe'[k][x].over = pipe[k][x].over
               /\ <<k, x>> \notin took => Lost(pipe[k][x], pipe'[k][x])
    <3>1. CASE k = l /\ x = w
      BY <1>3, <1>5, <1>7, <3>1
    <3>2. CASE ~(k = l /\ x = w)
      BY <1>5, <1>6, <1>7, <3>2, Same
    <3> QED BY <3>1, <3>2
  <2>2. ASSUME NEW h \in Hops, NEW x \in Ways
        PROVE  <<Source(h, x), x>> \notin took
    BY <1>1, <1>5, Apart DEF Typed
  <2> QED BY <2>1, <2>2 DEF MovesOf
<1>10. /\ m[l][w] = n[l][w] + 1
       /\ \A k \in Links, x \in Ways :
            m[k][x] = IF <<k, x>> \in took THEN n[k][x] + 1 ELSE n[k][x]
  <2>1. \A k, x : <<k, x>> \in took <=> k = LinkOf(e) /\ x = WayOf(Other(e))
    BY <1>1, <1>5
  <2>2. \A k \in Links, x \in Ways :
          m[k][x] = IF <<k, x>> \in took THEN n[k][x] + 1 ELSE n[k][x]
    BY <2>1 DEF After
  <2> QED BY <1>5, <2>2
<1>11. \A f \in Ends : /\ f # e => end'[f] = end[f]
                       /\ end'[f].sent = end[f].sent
  <2>1. CASE Take(e)
    <3>1. end' = [end EXCEPT ![e].got = Append(@, Head(pipe[l][w].held))]
      BY <1>1, <2>1 DEF Take
    <3> QED BY <1>1, <3>1 DEF Typed, TypeOK, End
  <2>2. CASE ReadRoute
    BY <2>2 DEF ReadRoute
  <2> QED BY <2>1, <2>2
<1>12. m \in Tallies' /\ Numbered(m)' /\ HandedOn(m)' /\ Given(m)'
  BY <1>3, <1>9, <1>10, <1>11, Moved
<1>13. /\ Last' = Last /\ \A f \in Ends : LinkOf(f)' = LinkOf(f)
       /\ (route[Last] = "ssh")' = (route[Last] = "ssh")
       /\ Last \in Links /\ "out" \in Ways /\ Last # 0
       /\ LinkOf("far") = Last /\ WayOf(Other("far")) = "out" /\ "far" \in Ends
       /\ \A f \in Ends : LinkOf(f) \in Links /\ WayOf(Other(f)) \in Ways
  <2>1. Last' = Last /\ \A f \in Ends : LinkOf(f)' = LinkOf(f)
    BY <1>3, SameRoute DEF LinkOf
  <2> QED BY <1>3, <2>1, Places, TwoWays, HopTypes DEF Typed, LinkOf, WayOf, Other
<1>14. ASSUME NEW f \in Ends, f # e
       PROVE  m[LinkOf(f)][WayOf(Other(f))] = n[LinkOf(f)][WayOf(Other(f))]
  <2>1. WayOf(Other(f)) # w
    BY <1>1, <1>14 DEF WayOf, Other, Ends
  <2> QED BY <1>5, <1>10, <1>13, <2>1
<1>15. CASE Take(e)
  <2>1. /\ end' = [end EXCEPT ![e].got = Append(@, Head(pipe[l][w].held))]
        /\ routed' = routed /\ ~(e = "far" /\ Nameless)
    BY <1>1, <1>15 DEF Take, Routed, Nameless
  <2>2. Nameless' = Nameless
    BY <1>13, <2>1 DEF Nameless
  <2>3. /\ end[e].got \in Seq(Pieces) /\ \A i \in 1 .. Len(end[e].got) : end[e].got[i] = i
        /\ n[l][w] = Len(end[e].got)
    BY <1>1, <2>1 DEF Counted, Received, End
  <2>4. end'[e].got = Append(end[e].got, Len(end[e].got) + 1)
    BY <1>1, <1>8, <2>1, <2>3 DEF Typed, TypeOK, End
  <2>5. /\ Len(end'[e].got) = Len(end[e].got) + 1
        /\ \A i \in 1 .. Len(end'[e].got) : end'[e].got[i] = i
    <3>1. PICK s, a : s = end[e].got /\ a = 0 /\ a \in Int
      OBVIOUS
    <3>2. Runs(s, a) /\ s \in Seq(Pieces) /\ Len(s) \in Nat
      BY <2>3, <3>1, LenProperties DEF Runs
    <3>3. Runs(Append(s, a + Len(s) + 1), a) /\ Len(Append(s, a + Len(s) + 1)) = Len(s) + 1
      BY <3>1, <3>2, RunsOn
    <3>4. a + Len(s) + 1 = Len(s) + 1
      BY <3>1, <3>2
    <3>5. \A i \in 1 .. Len(s) + 1 : end'[e].got[i] = a + i /\ a + i = i
      BY <2>4, <3>1, <3>2, <3>3, <3>4 DEF Runs
    <3> QED BY <2>4, <3>1, <3>3, <3>4, <3>5
  <2>6. ASSUME NEW f \in Ends
        PROVE  /\ \A i \in 1 .. Len(end'[f].got) : end'[f].got[i] = i
               /\ ~(f = "far" /\ Nameless) => m[LinkOf(f)][WayOf(Other(f))] = Len(end'[f].got)
               /\ f = "far" /\ Nameless =>
                    /\ end'["far"].got = <<>>
                    /\ hop'[Last] \in {"idle", "dialling"} => m[Last]["out"] = 0
                    /\ pipe'[Last]["out"].held # <<>> \/ hop'[Last] = "joined" =>
                         m[Last]["out"] = 0 - 1
    <3>1. CASE f = e
      BY <1>1, <1>10, <2>1, <2>3, <2>5, <3>1
    <3>2. CASE f # e
      <4>1. end'[f] = end[f] /\ m[LinkOf(f)][WayOf(Other(f))] = n[LinkOf(f)][WayOf(Other(f))]
        BY <1>11, <1>14, <3>2
      <4>2. f = "far" => pipe'[Last]["out"] = pipe[Last]["out"]
        <5>1. f = "far" => w # "out"
          BY <1>1, <3>2 DEF WayOf, Other, Ends
        <5> QED BY <1>6, <1>7, <1>13, <5>1
      <4>3. /\ \A i \in 1 .. Len(end[f].got) : end[f].got[i] = i
            /\ ~(f = "far" /\ Nameless) => n[LinkOf(f)][WayOf(Other(f))] = Len(end[f].got)
        BY DEF Counted, Received
      <4>4. f = "far" /\ Nameless =>
              /\ end["far"].got = <<>>
              /\ hop[Last] \in {"idle", "dialling"} => n[Last]["out"] = 0
              /\ pipe[Last]["out"].held # <<>> \/ hop[Last] = "joined" => n[Last]["out"] = 0 - 1
        BY DEF Counted, Received, Waits
      <4> QED BY <1>3, <1>13, <4>1, <4>2, <4>3, <4>4
    <3> QED BY <3>1, <3>2
  <2>7. Received(m)'
    BY <1>13, <2>2, <2>6 DEF Received, Waits
  <2> QED BY <1>12, <2>7 DEF Counted
<1>16. CASE e = "far" /\ ReadRoute
  <2>1. end' = end /\ routed' = TRUE /\ Nameless
    BY <1>16 DEF ReadRoute, Naming, Nameless
  <2>2. ~Nameless'
    BY <2>1 DEF Nameless
  <2>3. n[Last]["out"] = 0 - 1 /\ end["far"].got = <<>>
    BY <1>2, <1>3, <1>13, <1>16, <2>1 DEF Counted, Received
  <2>4. m[LinkOf("far")][WayOf(Other("far"))] = 0
    BY <1>1, <1>2, <1>10, <1>13, <1>16, <2>3
  <2>5. ASSUME NEW f \in Ends
        PROVE  /\ \A i \in 1 .. Len(end'[f].got) : end'[f].got[i] = i
               /\ m[LinkOf(f)][WayOf(Other(f))] = Len(end'[f].got)
    <3>1. CASE f = "far"
      BY <2>1, <2>3, <2>4, <3>1, EmptySeq
    <3>2. CASE f # "far"
      BY <1>14, <1>16, <2>1, <3>2 DEF Counted, Received
    <3> QED BY <3>1, <3>2
  <2>6. Received(m)'
    BY <1>13, <2>2, <2>5 DEF Received
  <2> QED BY <1>12, <2>6 DEF Counted
<1> QED BY <1>15, <1>16

(* A hop that has what it dialled: ssh puts the name on the link ahead of  *)
(* everything, where nothing was.                                          *)
Named(n, m) ==
  \A k \in Links, x \in Ways : m[k][x] = IF k = Last /\ x = "out" THEN 0 - 1 ELSE n[k][x]

(* There is a tally that begins at the name. *)
LEMMA NamedTally ==
  ASSUME NEW n \in Tallies
  PROVE  \E m \in Tallies : Named(n, m)
<1> DEFINE m == [k \in Links |-> [x \in Ways |->
                  IF k = Last /\ x = "out" THEN 0 - 1 ELSE n[k][x]]]
<1>1. m \in Tallies
  BY DEF Tallies
<1>2. Named(n, m)
  BY DEF Named
<1> QED BY <1>1, <1>2

(* What dialling does. *)
LEMMA DialMoves ==
  ASSUME Typed, Staged, NEW h \in Hops, Dial(h)
  PROVE  /\ \A k \in Hops : IF k = h THEN hop[k] = "dialling" /\ hop'[k] = "joined"
                            ELSE hop'[k] = hop[k] \/ (hop[k] = "idle" /\ hop'[k] = "dialling")
         /\ \A k \in Hops, w \in Ways : copying'[k][w] <=> (k = h \/ copying[k][w])
         /\ UNCHANGED <<route, end, routed>>
         /\ route[h] # "ssh" => pipe' = pipe
         /\ route[h] = "ssh" => h = Last /\ pipe' = [pipe EXCEPT ![h] = Push(@, "out", Name)]
<1>1. Hops = 1 .. Last /\ Last \in Nat \ {0} /\ (route[h] = "ssh" => h = Last)
  BY Places DEF Typed
<1>2. /\ hop[h] = "dialling"
      /\ hop' = [k \in Hops |-> CASE k = h -> "joined"
                                  [] k = h + 1 -> "dialling"
                                  [] OTHER -> hop[k]]
      /\ copying' = [copying EXCEPT ![h] = [w \in Ways |-> TRUE]]
      /\ pipe' = IF route[h] = "ssh" THEN [pipe EXCEPT ![h] = Push(@, "out", Name)] ELSE pipe
      /\ UNCHANGED <<route, end, routed>>
  BY DEF Dial
<1>3. h # h + 1 /\ h + 1 > h
  BY <1>1
<1>4. \A k \in Hops : k > h => hop[k] = "idle"
  BY <1>2 DEF Staged, Waits
<1>5. \A k \in Hops : IF k = h THEN hop[k] = "dialling" /\ hop'[k] = "joined"
                      ELSE hop'[k] = hop[k] \/ (hop[k] = "idle" /\ hop'[k] = "dialling")
  BY <1>2, <1>3, <1>4
<1>6. \A k \in Hops, w \in Ways : copying'[k][w] <=> (k = h \/ copying[k][w])
  <2>1. \A k \in Hops, w \in Ways : k = h => copying'[k][w] = TRUE
    BY <1>2 DEF Typed, TypeOK
  <2>2. \A k \in Hops, w \in Ways : k # h => copying'[k][w] = copying[k][w]
    BY <1>2 DEF Typed, TypeOK
  <2>3. \A k \in Hops, w \in Ways : copying[k][w] \in BOOLEAN
    BY DEF Typed, TypeOK
  <2> QED BY <2>1, <2>2, <2>3
<1> QED BY <1>1, <1>2, <1>5, <1>6

(* ssh has what it dialled: the link held nothing, and holds the name.     *)
LEMMA NameMoves ==
  ASSUME Typed, Staged, NEW h \in Hops, Dial(h), route[h] = "ssh"
  PROVE  /\ h = Last /\ Last \in Links /\ "out" \in Ways
         /\ \A w \in Ways : pipe[Last][w].held = <<>> /\ pipe[Last][w].over = "no"
         /\ pipe'[Last]["out"].held = <<Name>> /\ pipe'[Last]["out"].over = "no"
         /\ pipe'[Last]["out"].deaf = pipe[Last]["out"].deaf
         /\ \A k \in Links, x \in Ways : k # Last \/ x # "out" => pipe'[k][x] = pipe[k][x]
         /\ Nameless /\ Nameless' /\ Waits(Last)
<1>1. h = Last /\ pipe' = [pipe EXCEPT ![h] = Push(@, "out", Name)] /\ hop[h] = "dialling"
      /\ route' = route /\ routed' = routed
  BY DialMoves
<1>2. Last \in Links /\ "out" \in Ways /\ pipe[Last] \in [Ways -> Pipe]
  BY Places, HopTypes DEF Typed
<1>3. \A w \in Ways : pipe[Last][w].held = <<>> /\ pipe[Last][w].over = "no"
  BY <1>1 DEF Staged, Waits
<1>4. Name \in Pieces
  BY TunnelAssumption DEF Name, Pieces
<1>5. /\ pipe'[Last] = Push(pipe[Last], "out", Name)
      /\ \A k \in Links : k # Last => pipe'[k] = pipe[k]
  BY <1>1, <1>2 DEF Typed, TypeOK
<1>6. /\ pipe'[Last]["out"].held = Append(pipe[Last]["out"].held, Name)
      /\ pipe'[Last]["out"].over = pipe[Last]["out"].over
      /\ pipe'[Last]["out"].deaf = pipe[Last]["out"].deaf
      /\ \A x \in Ways : x # "out" => pipe'[Last][x] = pipe[Last][x]
  BY <1>2, <1>4, <1>5, Pushing
<1>7. Append(<<>>, Name) = <<Name>>
  OBVIOUS
<1>8. Waits(Last) /\ Nameless
  BY <1>1 DEF Waits, Nameless, Staged
<1>9. Nameless'
  BY <1>1, <1>8, SameRoute DEF Nameless
<1> QED BY <1>1, <1>2, <1>3, <1>5, <1>6, <1>7, <1>8, <1>9

(* Dialling keeps count, and from the name on when it puts one. *)
LEMMA DialCounted ==
  ASSUME Typed, Staged, NEW n \in Tallies, Counted(n), Typed', NEW h \in Hops, Dial(h)
  PROVE  /\ route[h] # "ssh" => n \in Tallies' /\ Counted(n)'
         /\ \A m \in Tallies : route[h] = "ssh" /\ Named(n, m) => m \in Tallies' /\ Counted(m)'
<1>1. /\ Hops = 1 .. Last /\ Last \in Hops /\ Last \in Nat \ {0} /\ Last - 1 # Last
      /\ \A k \in Hops : k - 1 # Last
      /\ \A k \in Hops, w \in Ways : Source(k, w) \in Links /\ Sink(k, w) \in Links
      /\ Last' = Last /\ Links' = Links /\ Hops' = Hops
      /\ \A e \in Ends : LinkOf(e)' = LinkOf(e) /\ LinkOf(e) \in Links
  BY Places, DialMoves, SameRoute DEF Typed, LinkOf
<1>2. ASSUME route[h] # "ssh"
      PROVE  n \in Tallies' /\ Counted(n)'
  <2>1. /\ UNCHANGED <<route, pipe, end, routed>>
        /\ hop'[Last] \in {"idle", "dialling"} => Waits(Last)
        /\ hop'[Last] = "joined" /\ Nameless => hop[Last] = "joined"
    BY <1>1, <1>2, DialMoves DEF Waits, Nameless
  <2> QED BY <2>1, Same, LossCounted
<1>3. ASSUME NEW m \in Tallies, route[h] = "ssh", Named(n, m)
      PROVE  m \in Tallies' /\ Counted(m)'
  <2>1. /\ h = Last /\ Last \in Links /\ "out" \in Ways
        /\ \A w \in Ways : pipe[Last][w].held = <<>> /\ pipe[Last][w].over = "no"
        /\ pipe'[Last]["out"].held = <<Name>> /\ pipe'[Last]["out"].over = "no"
        /\ \A k \in Links, x \in Ways : k # Last \/ x # "out" => pipe'[k][x] = pipe[k][x]
        /\ Nameless /\ Nameless' /\ Waits(Last)
    BY <1>3, NameMoves
  <2>2. end' = end /\ route' = route
    BY DialMoves
  <2>3. n[Last]["out"] = 0 /\ end["far"].got = <<>>
    BY <2>1 DEF Counted, Received, Ends
  <2>4. m[Last]["out"] = 0 - 1
        /\ \A k \in Links, x \in Ways : k # Last \/ x # "out" => m[k][x] = n[k][x]
    BY <1>3, <2>1 DEF Named
  <2>5. m \in Tallies'
    BY <1>1 DEF Tallies
  <2>6. Numbered(m)'
    <3>1. ASSUME NEW k \in Links, NEW x \in Ways, NEW i \in 1 .. Len(pipe'[k][x].held)
          PROVE  pipe'[k][x].held[i] = m[k][x] + i
      <4>1. CASE k = Last /\ x = "out"
        BY <2>1, <2>4, <3>1, <4>1 DEF Name
      <4>2. CASE ~(k = Last /\ x = "out")
        BY <2>1, <2>4, <3>1, <4>2 DEF Counted, Numbered
      <4> QED BY <4>1, <4>2
    <3> QED BY <1>1, <3>1 DEF Numbered
  <2>7. HandedOn(m)'
    <3>1. ASSUME NEW k \in Hops, NEW x \in Ways, pipe'[Sink(k, x)][x].over # "broken"
          PROVE  m[Source(k, x)][x] = m[Sink(k, x)][x] + Len(pipe'[Sink(k, x)][x].held)
      <4>1. ~(Source(k, x) = Last /\ x = "out")
        BY <1>1 DEF Source
      <4>2. CASE Sink(k, x) = Last /\ x = "out"
        <5>1. n[Source(k, x)][x] = n[Last]["out"] + Len(pipe[Last]["out"].held)
          BY <1>1, <2>1, <4>2 DEF Counted, HandedOn
        <5>2. Len(pipe[Last]["out"].held) = 0 /\ Len(pipe'[Last]["out"].held) = 1
          BY <2>1
        <5>3. n[Source(k, x)][x] = 0
          BY <2>3, <5>1, <5>2
        <5> QED BY <1>1, <2>4, <4>1, <4>2, <5>2, <5>3
      <4>3. CASE ~(Sink(k, x) = Last /\ x = "out")
        <5>1. pipe'[Sink(k, x)][x] = pipe[Sink(k, x)][x]
          BY <1>1, <2>1, <4>3
        <5>2. n[Source(k, x)][x] = n[Sink(k, x)][x] + Len(pipe[Sink(k, x)][x].held)
          BY <3>1, <5>1 DEF Counted, HandedOn
        <5> QED BY <1>1, <2>4, <4>1, <4>3, <5>1, <5>2
      <4> QED BY <4>2, <4>3
    <3> QED BY <1>1, <3>1 DEF HandedOn
  <2>8. \A e \in Ends : /\ ~(LinkOf(e) = Last /\ WayOf(e) = "out")
                        /\ WayOf(e) \in Ways /\ WayOf(Other(e)) \in Ways
                        /\ e # "far" => ~(LinkOf(e) = Last /\ WayOf(Other(e)) = "out")
    BY <1>1, TwoWays DEF LinkOf, WayOf, Other, Ends
  <2>9. Given(m)'
    <3>1. ASSUME NEW e \in Ends, pipe'[LinkOf(e)][WayOf(e)].over # "broken"
          PROVE  m[LinkOf(e)][WayOf(e)] + Len(pipe'[LinkOf(e)][WayOf(e)].held) = end'[e].sent
      <4>1. /\ pipe'[LinkOf(e)][WayOf(e)] = pipe[LinkOf(e)][WayOf(e)]
            /\ m[LinkOf(e)][WayOf(e)] = n[LinkOf(e)][WayOf(e)]
        BY <1>1, <2>1, <2>4, <2>8
      <4> QED BY <2>2, <3>1, <4>1 DEF Counted, Given
    <3> QED BY <1>1, <3>1 DEF Given
  <2>10. Received(m)'
    <3>1. ASSUME NEW e \in Ends
          PROVE  /\ \A i \in 1 .. Len(end'[e].got) : end'[e].got[i] = i
                 /\ e # "far" => m[LinkOf(e)][WayOf(Other(e))] = Len(end'[e].got)
      <4>1. e # "far" => m[LinkOf(e)][WayOf(Other(e))] = n[LinkOf(e)][WayOf(Other(e))]
        BY <1>1, <2>4, <2>8
      <4> QED BY <2>2, <4>1 DEF Counted, Received
    <3>2. hop'[Last] \notin {"idle", "dialling"}
      BY <2>1, DialMoves
    <3> QED BY <1>1, <2>1, <2>2, <2>3, <2>4, <3>1, <3>2 DEF Received, Waits
  <2> QED BY <2>5, <2>6, <2>7, <2>9, <2>10 DEF Counted
<1> QED BY <1>2, <1>3

-----------------------------------------------------------------------------
(* While nobody has left and nothing has failed                            *)

(* Who has left is gone, and what has failed does not recover.             *)
LEMMA CutStays ==
  ASSUME Typed, Staged, [Next]_vars, Cut
  PROVE  Cut'
<1>1. Hops' = Hops
  BY SameRoute DEF Next, vars, Relay, Listen, Signal, RelayExits, Connect, Gateway, ReadRoute,
       NoRoute, Joining, Dial, DialFails, HopEnds, HopDies, Copier, Copy, CopyEnds, CopyFails,
       Send, ShutDown, Leave, Reader, Take, SeeEnd
<1>2. ASSUME NEW e \in Ends, end[e].left
      PROVE  end'[e].left
  <2>1. CASE end' = end
    BY <1>2, <2>1
  <2>2. ASSUME NEW f \in Ends, Send(f) \/ ShutDown(f) \/ Leave(f) \/ Reader(f)
        PROVE  end'[e].left
    BY <1>2, <2>2 DEF Send, ShutDown, Leave, Reader, Take, SeeEnd, Typed, TypeOK, End
  <2>3. CASE NoRoute
    BY <1>2, <2>3 DEF NoRoute, Typed, TypeOK, End
  <2> QED BY <2>1, <2>2, <2>3 DEF Next, vars, Relay, Listen, Signal, RelayExits, Connect,
            Gateway, ReadRoute, Joining, Dial, DialFails, HopEnds, HopDies, Copier, Copy,
            CopyEnds, CopyFails
<1>3. ASSUME NEW h \in Hops, hop[h] \in {"failed", "dead"}
      PROVE  hop'[h] \in {"failed", "dead"}
  <2>1. CASE hop' = hop
    BY <1>3, <2>1
  <2>2. CASE Connect
    BY <1>3, <2>2 DEF Connect, Typed, TypeOK
  <2>3. ASSUME NEW k \in Hops, Dial(k)
        PROVE  hop'[h] \in {"failed", "dead"}
    <3>1. IF h = k THEN hop[h] = "dialling"
          ELSE hop'[h] = hop[h] \/ hop[h] = "idle"
      BY <2>3, DialMoves
    <3> QED BY <1>3, <3>1
  <2>4. ASSUME NEW k \in Hops, DialFails(k)
        PROVE  hop'[h] \in {"failed", "dead"}
    BY <1>3, <2>4 DEF DialFails, Typed, TypeOK
  <2>5. ASSUME NEW k \in Hops, HopEnds(k)
        PROVE  hop'[h] \in {"failed", "dead"}
    BY <1>3, <2>5 DEF HopEnds, Typed, TypeOK
  <2>6. ASSUME NEW k \in Hops, Die(k)
        PROVE  hop'[h] \in {"failed", "dead"}
    BY <1>3, <2>6 DEF Die, Typed, TypeOK
  <2>7. CASE RelayExits
    BY <2>1, <2>6, <2>7 DEF RelayExits
  <2>8. \/ hop' = hop \/ Connect \/ RelayExits
        \/ \E k \in Hops : Dial(k) \/ DialFails(k) \/ HopEnds(k) \/ HopDies(k)
    BY DEF Next, vars, Relay, Listen, Signal, Gateway, ReadRoute, NoRoute, Joining, Copier, Copy,
       CopyEnds, CopyFails, Send, ShutDown, Leave, Reader, Take, SeeEnd
  <2> QED BY <2>1, <2>2, <2>3, <2>4, <2>5, <2>6, <2>7, <2>8 DEF HopDies
<1> QED BY <1>1, <1>2, <1>3 DEF Cut

(* A hop may still put something on the link that it writes to.            *)
Busy(h, w) == copying[h][w] \/ Waits(h)

(* Pieces move, and nothing is shut: what goes a way that is shut stays.   *)
LEMMA MovesWhole ==
  ASSUME Typed, route' = route, NEW n \in Tallies, NEW m \in Tallies, Whole(n),
         \A l \in Links, w \in Ways :
           /\ pipe'[l][w].over = pipe[l][w].over /\ pipe'[l][w].deaf = pipe[l][w].deaf
           /\ pipe[l][w].over = "shut" =>
                /\ m[l][w] + Len(pipe'[l][w].held) = n[l][w] + Len(pipe[l][w].held)
                /\ pipe[l][w].held = <<>> => pipe'[l][w].held = <<>>,
         \A h \in Hops, w \in Ways : Busy(h, w)' <=> Busy(h, w),
         \A e \in Ends : /\ end'[e].shut = end[e].shut
                         /\ end'[e].sent = end[e].sent \/ ~end[e].shut
                         /\ end'[e].sawEnd => end[e].sawEnd,
         routed => routed'
  PROVE  Whole(m)'
<1>1. /\ Links' = Links /\ Hops' = Hops /\ Last' = Last
      /\ \A h \in Hops, w \in Ways : Source(h, w) \in Links /\ Sink(h, w) \in Links
      /\ \A e \in Ends : LinkOf(e) \in Links /\ WayOf(Other(e)) \in Ways /\ LinkOf(e)' = LinkOf(e)
      /\ \A w \in Ways : Sender(w) \in Ends
      /\ \A e \in Ends : Routed(e) => Routed(e)'
  <2>1. /\ Links' = Links /\ Hops' = Hops /\ Last' = Last
    BY SameRoute
  <2>2. \A w \in Ways : Sender(w) \in Ends
    BY DEF Sender, Ends
  <2> QED BY <2>1, <2>2, Places, TwoWays DEF Typed, LinkOf, Routed
<1>2. Intact'
  BY <1>1 DEF Whole, Intact
<1>3. Stopped'
  <2>1. ASSUME NEW h \in Hops, NEW w \in Ways
        PROVE  IF Busy(h, w)' THEN pipe'[Sink(h, w)][w].over = "no"
               ELSE pipe'[Source(h, w)][w].over = "shut" /\ pipe'[Source(h, w)][w].held = <<>>
    <3>1. IF Busy(h, w) THEN pipe[Sink(h, w)][w].over = "no"
          ELSE pipe[Source(h, w)][w].over = "shut" /\ pipe[Source(h, w)][w].held = <<>>
      BY DEF Whole, Stopped, Busy
    <3> QED BY <1>1, <3>1
  <2> QED BY <1>1, <2>1 DEF Stopped, Busy
<1>4. Heeded'
  BY <1>1 DEF Whole, Heeded
<1>5. AllSent(m)'
  <2>1. ASSUME NEW l \in Links, NEW w \in Ways, pipe'[l][w].over = "shut"
        PROVE  /\ end'[Sender(w)].shut
               /\ m[l][w] + Len(pipe'[l][w].held) = end'[Sender(w)].sent
    <3>1. /\ pipe[l][w].over = "shut" /\ end[Sender(w)].shut
          /\ n[l][w] + Len(pipe[l][w].held) = end[Sender(w)].sent
      BY <2>1 DEF Whole, AllSent
    <3> QED BY <1>1, <3>1
  <2> QED BY <1>1, <2>1 DEF AllSent
<1>6. EndSeen'
  BY <1>1 DEF Whole, EndSeen
<1> QED BY <1>2, <1>3, <1>4, <1>5, <1>6 DEF Whole

(* Sides are shut that nothing more comes to, and nothing moves.           *)
LEMMA ShutsWhole ==
  ASSUME Typed, route' = route, NEW n \in Tallies, Whole(n),
         \A l \in Links, w \in Ways :
           /\ pipe'[l][w].held = pipe[l][w].held
           /\ \/ pipe'[l][w].over = pipe[l][w].over
              \/ /\ pipe[l][w].over = "no" /\ pipe'[l][w].over = "shut"
                 /\ end'[Sender(w)].shut
                 /\ n[l][w] + Len(pipe[l][w].held) = end[Sender(w)].sent
           /\ pipe'[l][w].deaf => \/ pipe[l][w].deaf
                                  \/ pipe[l][w].over = "shut" /\ pipe[l][w].held = <<>>,
         \A h \in Hops, w \in Ways :
           /\ Busy(h, w)' =>
                Busy(h, w) /\ pipe'[Sink(h, w)][w].over = pipe[Sink(h, w)][w].over
           /\ ~Busy(h, w)' =>
                \/ ~Busy(h, w)
                \/ pipe[Source(h, w)][w].over = "shut" /\ pipe[Source(h, w)][w].held = <<>>,
         \A e \in Ends : /\ end[e].shut => end'[e].shut
                         /\ end'[e].sent = end[e].sent
                         /\ end'[e].sawEnd => \/ end[e].sawEnd
                                              \/ /\ Routed(e)
                                                 /\ Drained(pipe[LinkOf(e)], WayOf(Other(e))),
         routed => routed'
  PROVE  Whole(n)'
<1>1. /\ Links' = Links /\ Hops' = Hops /\ Last' = Last
      /\ \A h \in Hops, w \in Ways : Source(h, w) \in Links /\ Sink(h, w) \in Links
      /\ \A e \in Ends : LinkOf(e) \in Links /\ WayOf(Other(e)) \in Ways /\ LinkOf(e)' = LinkOf(e)
      /\ \A w \in Ways : Sender(w) \in Ends
      /\ \A e \in Ends : Routed(e) => Routed(e)'
  <2>1. /\ Links' = Links /\ Hops' = Hops /\ Last' = Last
    BY SameRoute
  <2>2. \A w \in Ways : Sender(w) \in Ends
    BY DEF Sender, Ends
  <2> QED BY <2>1, <2>2, Places, TwoWays DEF Typed, LinkOf, Routed
<1>2. \A l \in Links, w \in Ways : pipe[l][w].over = "shut" => pipe'[l][w].over = "shut"
  OBVIOUS
<1>3. Intact'
  BY <1>1 DEF Whole, Intact
<1>4. Stopped'
  <2>1. ASSUME NEW h \in Hops, NEW w \in Ways
        PROVE  IF Busy(h, w)' THEN pipe'[Sink(h, w)][w].over = "no"
               ELSE pipe'[Source(h, w)][w].over = "shut" /\ pipe'[Source(h, w)][w].held = <<>>
    <3>1. IF Busy(h, w) THEN pipe[Sink(h, w)][w].over = "no"
          ELSE pipe[Source(h, w)][w].over = "shut" /\ pipe[Source(h, w)][w].held = <<>>
      BY DEF Whole, Stopped, Busy
    <3> QED BY <1>1, <1>2, <3>1
  <2> QED BY <1>1, <2>1 DEF Stopped, Busy
<1>5. Heeded'
  BY <1>1, <1>2 DEF Whole, Heeded
<1>6. AllSent(n)'
  <2>1. ASSUME NEW l \in Links, NEW w \in Ways, pipe'[l][w].over = "shut"
        PROVE  /\ end'[Sender(w)].shut
               /\ n[l][w] + Len(pipe'[l][w].held) = end'[Sender(w)].sent
    <3>1. CASE pipe[l][w].over = "shut"
      BY <1>1, <3>1 DEF Whole, AllSent
    <3>2. CASE pipe[l][w].over # "shut"
      BY <1>1, <2>1, <3>2
    <3> QED BY <3>1, <3>2
  <2> QED BY <1>1, <2>1 DEF AllSent
<1>7. EndSeen'
  BY <1>1, <1>2 DEF Whole, EndSeen, Drained
<1> QED BY <1>3, <1>4, <1>5, <1>6, <1>7 DEF Whole

(* What each step does to a state in which nothing is lost. *)

(* No link and no end changes, and the same copiers are at it. *)
LEMMA StillWhole ==
  ASSUME Typed, NEW n \in Tallies, Whole(n),
         UNCHANGED <<route, pipe, end, routed>>,
         \A h \in Hops, w \in Ways : Busy(h, w)' <=> Busy(h, w)
  PROVE  Whole(n)'
<1>1. \A l \in Links, w \in Ways :
        /\ pipe'[l][w].over = pipe[l][w].over /\ pipe'[l][w].deaf = pipe[l][w].deaf
        /\ n[l][w] + Len(pipe'[l][w].held) = n[l][w] + Len(pipe[l][w].held)
        /\ pipe[l][w].held = <<>> => pipe'[l][w].held = <<>>
  OBVIOUS
<1> QED BY <1>1, MovesWhole

(* A hop that is joined begins to copy, and may put the name. *)
LEMMA DialWhole ==
  ASSUME Typed, Staged, NEW n \in Tallies, Whole(n), NEW h \in Hops, Dial(h)
  PROVE  /\ route[h] # "ssh" => Whole(n)'
         /\ \A m \in Tallies : route[h] = "ssh" /\ Named(n, m) => Whole(m)'
<1>1. /\ UNCHANGED <<route, end, routed>>
      /\ route[h] # "ssh" => pipe' = pipe
  BY DialMoves
<1>2. \A k \in Hops, w \in Ways : Busy(k, w)' <=> Busy(k, w)
  <2>1. \A k \in Hops : IF k = h THEN hop[k] = "dialling" /\ hop'[k] = "joined"
                        ELSE hop'[k] = hop[k] \/ (hop[k] = "idle" /\ hop'[k] = "dialling")
    BY DialMoves
  <2>2. \A k \in Hops, w \in Ways : copying'[k][w] <=> (k = h \/ copying[k][w])
    BY DialMoves
  <2> QED BY <2>1, <2>2 DEF Busy, Waits
<1>3. route[h] # "ssh" => Whole(n)'
  BY <1>1, <1>2, StillWhole
<1>4. ASSUME NEW m \in Tallies, route[h] = "ssh", Named(n, m)
      PROVE  Whole(m)'
  <2>1. /\ \A w \in Ways : pipe[Last][w].over = "no"
        /\ pipe'[Last]["out"].over = "no"
        /\ pipe'[Last]["out"].deaf = pipe[Last]["out"].deaf
        /\ \A k \in Links, x \in Ways : k # Last \/ x # "out" => pipe'[k][x] = pipe[k][x]
        /\ "out" \in Ways
    BY <1>4, NameMoves
  <2>2. \A k \in Links, x \in Ways : k # Last \/ x # "out" => m[k][x] = n[k][x]
    BY <1>4 DEF Named
  <2>3. \A k \in Links, x \in Ways :
          /\ pipe'[k][x].over = pipe[k][x].over /\ pipe'[k][x].deaf = pipe[k][x].deaf
          /\ pipe[k][x].over = "shut" =>
               /\ m[k][x] + Len(pipe'[k][x].held) = n[k][x] + Len(pipe[k][x].held)
               /\ pipe[k][x].held = <<>> => pipe'[k][x].held = <<>>
    BY <2>1, <2>2
  <2> QED BY <1>1, <1>2, <2>3, MovesWhole
<1> QED BY <1>3, <1>4

(* A copier that is at it can put what it has read: the link beyond holds. *)
LEMMA CopyWhole ==
  ASSUME Typed, Staged, NEW n \in Tallies, Counted(n), Whole(n), NEW h \in Hops, NEW w \in Ways,
         Copy(h, w) \/ CopyFails(h, w),
         NEW m \in Tallies, After(n, Source(h, w), w, m)
  PROVE  Whole(m)'
<1>1. PICK s \in Links, t \in Links :
        /\ s = Source(h, w) /\ t = Sink(h, w) /\ s # t
        /\ pipe[s] \in [Ways -> Pipe] /\ pipe[t] \in [Ways -> Pipe]
  BY Places, Apart, HopTypes DEF Typed
<1>2. copying[h][w]
  BY CopierMoves DEF Copier
<1>3. pipe[t][w].over = "no" /\ ~pipe[t][w].deaf
  <2>1. pipe[t][w].over = "no"
    BY <1>1, <1>2 DEF Whole, Stopped
  <2> QED BY <1>1, <2>1 DEF Whole, Heeded
<1>4. Copy(h, w)
  BY <1>1, <1>3 DEF CopyFails
<1>5. /\ pipe[s][w].held # <<>> /\ pipe'[s] = Pull(pipe[s], w)
      /\ pipe'[t] = Push(pipe[t], w, Head(pipe[s][w].held))
      /\ \A k \in Links : k # s /\ k # t => pipe'[k] = pipe[k]
      /\ UNCHANGED <<route, hop, end, routed>>
  BY <1>1, <1>4, CopyMoves
<1>6. /\ \A x \in Ways : x # w => pipe'[s][x] = pipe[s][x]
      /\ pipe'[s][w].held = Tail(pipe[s][w].held)
      /\ pipe'[s][w].over = pipe[s][w].over /\ pipe'[s][w].deaf = pipe[s][w].deaf
      /\ Head(pipe[s][w].held) \in Pieces
  BY <1>1, <1>5, Pulling
<1>7. /\ \A x \in Ways : x # w => pipe'[t][x] = pipe[t][x]
      /\ pipe'[t][w].over = pipe[t][w].over /\ pipe'[t][w].deaf = pipe[t][w].deaf
  BY <1>1, <1>5, <1>6, Pushing
<1>8. m[s][w] + Len(pipe'[s][w].held) = n[s][w] + Len(pipe[s][w].held)
  <2>1. PICK q : q = pipe[s][w].held /\ q \in Seq(Pieces) /\ q # <<>> /\ Len(q) \in Nat
    BY <1>5, HeldType
  <2>2. Len(Tail(q)) = Len(q) - 1
    BY <2>1, HeadTailProperties
  <2>3. m[s][w] = n[s][w] + 1 /\ n[s][w] \in Int
    BY <1>1 DEF After, Tallies
  <2>4. Len(pipe'[s][w].held) = Len(q) - 1 /\ Len(pipe[s][w].held) = Len(q)
    BY <1>6, <2>1, <2>2
  <2>5. PICK a, b, c, d : a = m[s][w] /\ b = n[s][w] /\ c = Len(pipe'[s][w].held) /\ d = Len(q)
    OBVIOUS
  <2>6. a + c = b + d
    BY <2>1, <2>3, <2>4, <2>5
  <2> QED BY <2>4, <2>5, <2>6
<1>9. ASSUME NEW k \in Links, NEW x \in Ways
      PROVE  /\ pipe'[k][x].over = pipe[k][x].over /\ pipe'[k][x].deaf = pipe[k][x].deaf
             /\ pipe[k][x].over = "shut" =>
                  /\ m[k][x] + Len(pipe'[k][x].held) = n[k][x] + Len(pipe[k][x].held)
                  /\ pipe[k][x].held = <<>> => pipe'[k][x].held = <<>>
  <2>1. ~(k = s /\ x = w) => m[k][x] = n[k][x]
    BY <1>1 DEF After
  <2>2. CASE k = s /\ x = w
    BY <1>5, <1>6, <1>8, <2>2
  <2>3. CASE k = t /\ x = w
    BY <1>3, <1>7, <2>3
  <2>4. CASE ~(k = s /\ x = w) /\ ~(k = t /\ x = w)
    BY <1>5, <1>6, <1>7, <2>1, <2>4
  <2> QED BY <2>2, <2>3, <2>4
<1>10. \A k \in Hops, x \in Ways : Busy(k, x)' <=> Busy(k, x)
  <2>1. copying' = copying
    BY <1>4 DEF Copy
  <2> QED BY <1>5, <2>1 DEF Busy, Waits
<1> QED BY <1>5, <1>9, <1>10, MovesWhole

(* An end that sends has not shut its side, so that no link is shut that   *)
(* way.                                                                    *)
LEMMA SendWhole ==
  ASSUME Typed, Staged, NEW n \in Tallies, Whole(n), NEW e \in Ends, Send(e)
  PROVE  Whole(n)'
<1>1. PICK l \in Links, w \in Ways :
        l = LinkOf(e) /\ w = WayOf(e) /\ pipe[l] \in [Ways -> Pipe] /\ end[e] \in End
  BY Places, TwoWays, HopTypes DEF Typed
<1>2. /\ pipe[l][w].over = "no" /\ end[e].sent < MaxSent /\ ~end[e].shut
      /\ end' = [end EXCEPT ![e].sent = @ + 1]
      /\ pipe' = [pipe EXCEPT ![l] = Push(@, w, end[e].sent + 1)]
      /\ UNCHANGED <<route, hop, copying, routed>>
  BY <1>1 DEF Send
<1>3. end[e].sent + 1 \in Pieces
  BY <1>1, <1>2, TunnelAssumption DEF End, Pieces, Name
<1>4. /\ pipe'[l] = Push(pipe[l], w, end[e].sent + 1)
      /\ \A k \in Links : k # l => pipe'[k] = pipe[k]
  BY <1>2 DEF Typed, TypeOK
<1>5. /\ \A x \in Ways : x # w => pipe'[l][x] = pipe[l][x]
      /\ pipe'[l][w].over = pipe[l][w].over /\ pipe'[l][w].deaf = pipe[l][w].deaf
  BY <1>1, <1>3, <1>4, Pushing
<1>6. \A f \in Ends : /\ end'[f].shut = end[f].shut /\ end'[f].sawEnd = end[f].sawEnd
                      /\ end'[f].sent = end[f].sent \/ f = e
  BY <1>1, <1>2 DEF Typed, TypeOK, End
<1>7. \A k \in Links, x \in Ways :
        /\ pipe'[k][x].over = pipe[k][x].over /\ pipe'[k][x].deaf = pipe[k][x].deaf
        /\ pipe[k][x].over = "shut" => pipe'[k][x] = pipe[k][x]
  BY <1>2, <1>4, <1>5
<1>8. \A k \in Hops, x \in Ways : Busy(k, x)' <=> Busy(k, x)
  BY <1>2 DEF Busy, Waits
<1> QED BY <1>2, <1>6, <1>7, <1>8, MovesWhole

(* An end, or the gateway, takes a piece. *)
LEMMA TakeWhole ==
  ASSUME Typed, Staged, NEW n \in Tallies, Whole(n), NEW e \in Ends,
         Take(e) \/ (e = "far" /\ ReadRoute),
         NEW m \in Tallies, After(n, LinkOf(e), WayOf(Other(e)), m)
  PROVE  Whole(m)'
<1>1. PICK l \in Links, w \in Ways :
        /\ l = LinkOf(e) /\ w = WayOf(Other(e)) /\ pipe[l] \in [Ways -> Pipe]
        /\ end[e] \in End
  BY Places, TwoWays, HopTypes DEF Typed
<1>2. e = "far" => l = Last /\ w = "out"
  BY <1>1 DEF LinkOf, WayOf, Other
<1>3. /\ pipe[l][w].held # <<>> /\ pipe' = [pipe EXCEPT ![l] = Pull(@, w)]
      /\ UNCHANGED <<route, hop, copying>> /\ (routed => routed')
  BY <1>1, <1>2 DEF Take, ReadRoute
<1>4. /\ pipe'[l] = Pull(pipe[l], w)
      /\ \A k \in Links : k # l => pipe'[k] = pipe[k]
  BY <1>3 DEF Typed, TypeOK
<1>5. /\ \A x \in Ways : x # w => pipe'[l][x] = pipe[l][x]
      /\ pipe'[l][w].held = Tail(pipe[l][w].held)
      /\ pipe'[l][w].over = pipe[l][w].over /\ pipe'[l][w].deaf = pipe[l][w].deaf
  BY <1>1, <1>3, <1>4, Pulling
<1>6. m[l][w] + Len(pipe'[l][w].held) = n[l][w] + Len(pipe[l][w].held)
  <2>1. PICK q : q = pipe[l][w].held /\ q \in Seq(Pieces) /\ q # <<>> /\ Len(q) \in Nat
    BY <1>3, HeldType
  <2>2. Len(Tail(q)) = Len(q) - 1
    BY <2>1, HeadTailProperties
  <2>3. m[l][w] = n[l][w] + 1 /\ n[l][w] \in Int
    BY <1>1 DEF After, Tallies
  <2> QED BY <1>5, <2>1, <2>2, <2>3
<1>7. ASSUME NEW k \in Links, NEW x \in Ways
      PROVE  /\ pipe'[k][x].over = pipe[k][x].over /\ pipe'[k][x].deaf = pipe[k][x].deaf
             /\ pipe[k][x].over = "shut" =>
                  /\ m[k][x] + Len(pipe'[k][x].held) = n[k][x] + Len(pipe[k][x].held)
                  /\ pipe[k][x].held = <<>> => pipe'[k][x].held = <<>>
  <2>1. CASE k = l /\ x = w
    BY <1>3, <1>5, <1>6, <2>1
  <2>2. CASE ~(k = l /\ x = w)
    <3>1. m[k][x] = n[k][x]
      BY <1>1, <2>2 DEF After
    <3> QED BY <1>4, <1>5, <2>2, <3>1
  <2> QED BY <2>1, <2>2
<1>8. \A f \in Ends : /\ end'[f].shut = end[f].shut /\ end'[f].sawEnd = end[f].sawEnd
                      /\ end'[f].sent = end[f].sent
  <2>1. CASE Take(e)
    <3>1. end' = [end EXCEPT ![e].got = Append(@, Head(pipe[l][w].held))]
      BY <1>1, <2>1 DEF Take
    <3> QED BY <1>1, <3>1 DEF Typed, TypeOK, End
  <2>2. CASE ReadRoute
    BY <2>2 DEF ReadRoute
  <2> QED BY <2>1, <2>2
<1>9. \A k \in Hops, x \in Ways : Busy(k, x)' <=> Busy(k, x)
  BY <1>3 DEF Busy, Waits
<1> QED BY <1>3, <1>7, <1>8, <1>9, MovesWhole

(* A copier that ends has read that there is no more, and all there was. *)
LEMMA CopyEndsWhole ==
  ASSUME Typed, Staged, NEW n \in Tallies, Counted(n), Whole(n),
         NEW h \in Hops, NEW w \in Ways, CopyEnds(h, w)
  PROVE  Whole(n)'
<1>1. PICK s \in Links, t \in Links :
        /\ s = Source(h, w) /\ t = Sink(h, w) /\ s # t
        /\ pipe[s] \in [Ways -> Pipe] /\ pipe[t] \in [Ways -> Pipe]
  BY Places, Apart, HopTypes DEF Typed
<1>2. pipe[s][w].held = <<>> /\ pipe[s][w].over = "shut"
  BY <1>1 DEF CopyEnds, Drained, Whole, Intact
<1>3. /\ copying[h][w] /\ copying' = [copying EXCEPT ![h][w] = FALSE]
      /\ UNCHANGED <<route, hop, end, routed>>
      /\ pipe' = pipe \/ pipe' = [pipe EXCEPT ![t] = Shut(@, w)]
  BY <1>1 DEF CopyEnds
<1>4. hop[h] = "joined"
  BY <1>3 DEF Staged
<1>5. pipe[t][w].over = "no"
  BY <1>1, <1>3 DEF Whole, Stopped
<1>6. end[Sender(w)].shut /\ n[t][w] + Len(pipe[t][w].held) = end[Sender(w)].sent
  <2>1. end[Sender(w)].shut /\ n[s][w] + Len(pipe[s][w].held) = end[Sender(w)].sent
    BY <1>2 DEF Whole, AllSent
  <2>2. n[s][w] = n[t][w] + Len(pipe[t][w].held)
    BY <1>1, <1>5 DEF Counted, HandedOn
  <2>3. Len(pipe[s][w].held) = 0 /\ n[s][w] \in Int
    BY <1>2 DEF Tallies
  <2> QED BY <2>1, <2>2, <2>3
<1>7. ASSUME NEW k \in Links, NEW x \in Ways
      PROVE  /\ pipe'[k][x].held = pipe[k][x].held
             /\ \/ pipe'[k][x].over = pipe[k][x].over
                \/ k = t /\ x = w /\ pipe'[k][x].over = "shut"
             /\ pipe'[k][x].deaf = pipe[k][x].deaf
  <2>1. CASE pipe'[k] = pipe[k]
    BY <2>1
  <2>2. CASE k = t /\ pipe'[k] = Shut(pipe[t], w)
    BY <1>1, <1>5, <2>2, Shutting
  <2> QED BY <1>3, <2>1, <2>2 DEF Typed, TypeOK
<1>8. ASSUME NEW k \in Hops, NEW x \in Ways
      PROVE  /\ Busy(k, x)' <=> Busy(k, x) /\ ~(k = h /\ x = w)
             /\ Sink(k, x) = t /\ x = w => k = h
  <2>1. copying'[k][x] <=> copying[k][x] /\ ~(k = h /\ x = w)
    <3>1. CASE k = h /\ x = w
      BY <1>3, <3>1 DEF Typed, TypeOK
    <3>2. CASE ~(k = h /\ x = w)
      BY <1>3, <3>2 DEF Typed, TypeOK
    <3> QED BY <3>1, <3>2
  <2>2. Sink(k, x) = t /\ x = w => k = h
    BY <1>1, Apart DEF Typed
  <2> QED BY <1>3, <1>4, <2>1, <2>2 DEF Busy, Waits
<1>9. \A k \in Links, x \in Ways :
        /\ pipe'[k][x].held = pipe[k][x].held
        /\ \/ pipe'[k][x].over = pipe[k][x].over
           \/ /\ pipe[k][x].over = "no" /\ pipe'[k][x].over = "shut"
              /\ end'[Sender(x)].shut
              /\ n[k][x] + Len(pipe[k][x].held) = end[Sender(x)].sent
        /\ pipe'[k][x].deaf => \/ pipe[k][x].deaf
                               \/ pipe[k][x].over = "shut" /\ pipe[k][x].held = <<>>
  BY <1>3, <1>5, <1>6, <1>7
<1>10. \A k \in Hops, x \in Ways :
         /\ Busy(k, x)' =>
              Busy(k, x) /\ pipe'[Sink(k, x)][x].over = pipe[Sink(k, x)][x].over
         /\ ~Busy(k, x)' =>
              \/ ~Busy(k, x)
              \/ pipe[Source(k, x)][x].over = "shut" /\ pipe[Source(k, x)][x].held = <<>>
  <2>1. \A k \in Hops, x \in Ways : Sink(k, x) \in Links
    BY Places DEF Typed
  <2> QED BY <1>1, <1>2, <1>7, <1>8, <2>1
<1> QED BY <1>3, <1>9, <1>10, ShutsWhole

(* Both copiers are done: closing loses nothing, and where the copiers did *)
(* not tell the far side so, this does.                                    *)
LEMMA ReleasesWhole ==
  ASSUME Typed, Staged, NEW n \in Tallies, Counted(n), Whole(n), NEW h \in Hops, HopEnds(h)
  PROVE  Whole(n)'
<1>1. /\ h - 1 \in Links /\ h \in Links /\ h # h - 1 /\ "out" \in Ways /\ "back" \in Ways
      /\ pipe[h - 1] \in [Ways -> Pipe] /\ pipe[h] \in [Ways -> Pipe]
      /\ Source(h, "out") = h - 1 /\ Sink(h, "out") = h
      /\ Source(h, "back") = h /\ Sink(h, "back") = h - 1
      /\ Reverse("out") = "back" /\ Reverse("back") = "out"
      /\ \A x \in Ways : x = "out" \/ x = "back"
      /\ \A k \in Hops, x \in Ways : Source(k, x) \in Links /\ Sink(k, x) \in Links
  <2>1. h - 1 \in Links /\ h \in Links /\ h \in Nat
    BY Places DEF Typed
  <2> QED BY <2>1, Places, HopTypes DEF Source, Sink, Reverse, Ways, Typed
<1>2. /\ hop[h] = "joined" /\ \A w \in Ways : ~copying[h][w]
      /\ hop' = [hop EXCEPT ![h] = "closed"] /\ Release(h)
      /\ UNCHANGED <<route, copying, end, routed>>
  BY DEF HopEnds
<1>3. \A w \in Ways : pipe[Source(h, w)][w].over = "shut" /\ pipe[Source(h, w)][w].held = <<>>
  BY <1>2 DEF Whole, Stopped, Waits
<1>4. ASSUME NEW w \in Ways
      PROVE  end[Sender(w)].shut
             /\ n[Sink(h, w)][w] + Len(pipe[Sink(h, w)][w].held) = end[Sender(w)].sent
  <2>1. PICK s \in Links, t \in Links : s = Source(h, w) /\ t = Sink(h, w)
    BY <1>1
  <2>2. end[Sender(w)].shut /\ n[s][w] + Len(pipe[s][w].held) = end[Sender(w)].sent
    BY <1>3, <2>1 DEF Whole, AllSent
  <2>3. n[s][w] = n[t][w] + Len(pipe[t][w].held)
    BY <2>1 DEF Counted, HandedOn, Whole, Intact
  <2>4. Len(pipe[s][w].held) = 0 /\ n[s][w] \in Int
    BY <1>3, <2>1 DEF Tallies
  <2> QED BY <2>1, <2>2, <2>3, <2>4
<1>5. /\ pipe'[h - 1] = Close(pipe[h - 1], "back") /\ pipe'[h] = Close(pipe[h], "out")
      /\ \A l \in Links : l # h /\ l # h - 1 => pipe'[l] = pipe[l]
  BY <1>2, ReleaseTypes
<1>6. /\ \A x \in Ways : /\ pipe'[h - 1][x].held = pipe[h - 1][x].held
                         /\ pipe'[h - 1][x].over = IF x = "back" /\ pipe[h - 1][x].over = "no"
                                                   THEN "shut" ELSE pipe[h - 1][x].over
      /\ pipe'[h - 1]["back"].deaf = pipe[h - 1]["back"].deaf
  <2>1. PICK c, d : c \in [Ways -> Pipe] /\ c = pipe[h - 1] /\ d = pipe'[h - 1]
    BY <1>1
  <2>2. d = Close(c, "back") /\ c["out"].held = <<>>
    BY <1>1, <1>3, <1>5, <2>1
  <2>3. \A x \in Ways : d[x].held = c[x].held
          /\ d[x].over = IF x = "back" /\ c[x].over = "no" THEN "shut" ELSE c[x].over
    <3>1. c[Reverse("back")].held = <<>>
      BY <1>1, <2>2
    <3> QED BY <1>1, <2>1, <2>2, <3>1, ClosedEmpty
  <2>4. d["back"].deaf = c["back"].deaf
    <3> c \in [Ways -> Pipe]
      BY <2>1
    <3> QED BY <1>1, <2>2, Closing, Zenon
  <2> QED BY <2>1, <2>3, <2>4
<1>7. /\ \A x \in Ways : /\ pipe'[h][x].held = pipe[h][x].held
                         /\ pipe'[h][x].over = IF x = "out" /\ pipe[h][x].over = "no"
                                               THEN "shut" ELSE pipe[h][x].over
      /\ pipe'[h]["out"].deaf = pipe[h]["out"].deaf
  <2>1. PICK c, d : c \in [Ways -> Pipe] /\ c = pipe[h] /\ d = pipe'[h]
    BY <1>1
  <2>2. d = Close(c, "out") /\ c["back"].held = <<>>
    BY <1>1, <1>3, <1>5, <2>1
  <2>3. \A x \in Ways : d[x].held = c[x].held
          /\ d[x].over = IF x = "out" /\ c[x].over = "no" THEN "shut" ELSE c[x].over
    <3>1. c[Reverse("out")].held = <<>>
      BY <1>1, <2>2
    <3> QED BY <1>1, <2>1, <2>2, <3>1, ClosedEmpty
  <2>4. d["out"].deaf = c["out"].deaf
    <3> c \in [Ways -> Pipe]
      BY <2>1
    <3> QED BY <1>1, <2>2, Closing, Zenon
  <2> QED BY <2>1, <2>3, <2>4
<1>8. ASSUME NEW k \in Links, NEW x \in Ways
      PROVE  /\ pipe'[k][x].held = pipe[k][x].held
             /\ \/ pipe'[k][x].over = pipe[k][x].over
                \/ k = Sink(h, x) /\ pipe[k][x].over = "no" /\ pipe'[k][x].over = "shut"
             /\ pipe'[k][x].deaf => pipe[k][x].deaf \/ k = Source(h, x)
  <2>1. CASE k # h /\ k # h - 1
    BY <1>5, <2>1
  <2>2. CASE k = h - 1
    BY <1>1, <1>6, <2>2
  <2>3. CASE k = h
    BY <1>1, <1>7, <2>3
  <2> QED BY <2>1, <2>2, <2>3
<1>9. \A k \in Links, x \in Ways :
        /\ pipe'[k][x].held = pipe[k][x].held
        /\ \/ pipe'[k][x].over = pipe[k][x].over
           \/ /\ pipe[k][x].over = "no" /\ pipe'[k][x].over = "shut"
              /\ end'[Sender(x)].shut
              /\ n[k][x] + Len(pipe[k][x].held) = end[Sender(x)].sent
        /\ pipe'[k][x].deaf => \/ pipe[k][x].deaf
                               \/ pipe[k][x].over = "shut" /\ pipe[k][x].held = <<>>
  BY <1>2, <1>3, <1>4, <1>8
<1>10. ASSUME NEW k \in Hops, NEW x \in Ways
       PROVE  /\ Busy(k, x)' =>
                   Busy(k, x) /\ pipe'[Sink(k, x)][x].over = pipe[Sink(k, x)][x].over
              /\ ~Busy(k, x)' =>
                   \/ ~Busy(k, x)
                   \/ pipe[Source(k, x)][x].over = "shut" /\ pipe[Source(k, x)][x].held = <<>>
  <2>1. CASE k = h
    <3>1. hop'[h] = "closed"
      BY <1>2 DEF Typed, TypeOK
    <3>2. ~Busy(k, x)'
      BY <1>2, <2>1, <3>1 DEF Busy, Waits
    <3> QED BY <1>3, <2>1, <3>2
  <2>2. CASE k # h
    <3>1. hop'[k] = hop[k]
      BY <1>2, <2>2 DEF Typed, TypeOK
    <3>2. Busy(k, x)' <=> Busy(k, x)
      BY <1>2, <3>1 DEF Busy, Waits
    <3>3. Sink(k, x) # Sink(h, x)
      BY <2>2, Apart DEF Typed
    <3> QED BY <1>1, <1>8, <3>2, <3>3
  <2> QED BY <2>1, <2>2
<1> QED BY <1>2, <1>9, <1>10, ShutsWhole

(* An end has sent all it has, or reads that there is no more. *)
LEMMA ShutDownWhole ==
  ASSUME Typed, Staged, NEW n \in Tallies, Counted(n), Whole(n), NEW e \in Ends,
         ShutDown(e) \/ SeeEnd(e)
  PROVE  Whole(n)'
<1>1. PICK l \in Links, w \in Ways : l = LinkOf(e) /\ w = WayOf(e) /\ pipe[l] \in [Ways -> Pipe]
  BY Places, TwoWays, HopTypes DEF Typed
<1>2. UNCHANGED <<route, hop, copying, routed>>
  BY DEF ShutDown, SeeEnd
<1>3. \A k \in Hops, x \in Ways : Sink(k, x) \in Links /\ (x = w => Sink(k, x) # l)
  BY <1>1, Apart, Places DEF Typed
<1>6. \A k \in Hops, x \in Ways : Busy(k, x)' <=> Busy(k, x)
  BY <1>2 DEF Busy, Waits
<1>4. CASE ShutDown(e)
  <2>1. \A f \in Ends : /\ end'[f].shut <=> (f = e \/ end[f].shut)
                        /\ end'[f].sent = end[f].sent /\ end'[f].sawEnd = end[f].sawEnd
    BY <1>4, EndsAfter DEF ShutDown
  <2>2. Sender(w) = e
    BY <1>1 DEF Sender, WayOf, Ends
  <2>3. n[l][w] + Len(pipe[l][w].held) = end[e].sent
    BY <1>1 DEF Counted, Given, Whole, Intact
  <2>4. ASSUME NEW k \in Links, NEW x \in Ways
        PROVE  /\ pipe'[k][x].held = pipe[k][x].held
               /\ \/ pipe'[k][x].over = pipe[k][x].over
                  \/ k = l /\ x = w /\ pipe[k][x].over = "no" /\ pipe'[k][x].over = "shut"
               /\ pipe'[k][x].deaf = pipe[k][x].deaf
    <3>1. pipe' = [pipe EXCEPT ![l] = Shut(@, w)]
      BY <1>1, <1>4 DEF ShutDown
    <3>2. CASE k = l
      <4>1. pipe'[k] = Shut(pipe[l], w)
        BY <3>1, <3>2 DEF Typed, TypeOK
      <4> QED BY <1>1, <3>2, <4>1, Shutting
    <3>3. CASE k # l
      BY <3>1, <3>3 DEF Typed, TypeOK
    <3> QED BY <3>2, <3>3
  <2>5. \A k \in Links, x \in Ways :
          /\ pipe'[k][x].held = pipe[k][x].held
          /\ \/ pipe'[k][x].over = pipe[k][x].over
             \/ /\ pipe[k][x].over = "no" /\ pipe'[k][x].over = "shut"
                /\ end'[Sender(x)].shut
                /\ n[k][x] + Len(pipe[k][x].held) = end[Sender(x)].sent
          /\ pipe'[k][x].deaf => \/ pipe[k][x].deaf
                                 \/ pipe[k][x].over = "shut" /\ pipe[k][x].held = <<>>
    BY <2>1, <2>2, <2>3, <2>4
  <2>6. \A k \in Hops, x \in Ways :
          /\ Busy(k, x)' =>
               Busy(k, x) /\ pipe'[Sink(k, x)][x].over = pipe[Sink(k, x)][x].over
          /\ ~Busy(k, x)' =>
               \/ ~Busy(k, x)
               \/ pipe[Source(k, x)][x].over = "shut" /\ pipe[Source(k, x)][x].held = <<>>
    <3>1. ASSUME NEW k \in Hops, NEW x \in Ways
          PROVE  pipe'[Sink(k, x)][x].over = pipe[Sink(k, x)][x].over
      BY <1>3, <2>4
    <3> QED BY <1>6, <3>1, Zenon
  <2> QED BY <1>2, <2>1, <2>5, <2>6, ShutsWhole
<1>5. CASE SeeEnd(e)
  <2>1. pipe' = pipe /\ Routed(e) /\ Drained(pipe[LinkOf(e)], WayOf(Other(e)))
    BY <1>5 DEF SeeEnd
  <2>2. \A f \in Ends : /\ end'[f].shut = end[f].shut /\ end'[f].sent = end[f].sent
                        /\ end'[f].sawEnd <=> (f = e \/ end[f].sawEnd)
    BY <1>5, EndsAfter DEF SeeEnd
  <2>3. \A k \in Hops, x \in Ways :
          /\ Busy(k, x)' =>
               Busy(k, x) /\ pipe'[Sink(k, x)][x].over = pipe[Sink(k, x)][x].over
          /\ ~Busy(k, x)' =>
               \/ ~Busy(k, x)
               \/ pipe[Source(k, x)][x].over = "shut" /\ pipe[Source(k, x)][x].held = <<>>
    <3>1. ASSUME NEW k \in Hops, NEW x \in Ways
          PROVE  pipe'[Sink(k, x)][x].over = pipe[Sink(k, x)][x].over
      BY <1>3, <2>1
    <3> QED BY <1>6, <3>1, Zenon
  <2> QED BY <1>2, <2>1, <2>2, <2>3, ShutsWhole
<1> QED BY <1>4, <1>5

-----------------------------------------------------------------------------
(* The invariant holds                                                     *)

(* At first nothing was taken off any link. *)
LEMMA InitTally == Init => \E n \in Tallies : Tally(n)
<1> SUFFICES ASSUME Init
             PROVE  \E n \in Tallies : Tally(n)
  OBVIOUS
<1>1. PICK n \in Tallies : \A l \in Links, w \in Ways : n[l][w] = 0
  <2> DEFINE n == [l \in Links |-> [w \in Ways |-> 0]]
  <2>1. n \in Tallies
    BY DEF Tallies
  <2> QED BY <2>1
<1>2. /\ \A h \in Hops, w \in Ways : Source(h, w) \in Links /\ Sink(h, w) \in Links
      /\ \A e \in Ends : /\ LinkOf(e) \in Links /\ WayOf(e) \in Ways /\ WayOf(Other(e)) \in Ways
      /\ Last \in Links /\ Last \in Hops /\ "out" \in Ways /\ "far" \in Ends
  BY InitTyped, Places, TwoWays, HopTypes DEF Typed
<1>3. /\ \A l \in Links, w \in Ways : /\ pipe[l][w].held = <<>> /\ Len(pipe[l][w].held) = 0
                                      /\ pipe[l][w].over = "no" /\ pipe[l][w].deaf = FALSE
      /\ \A e \in Ends : /\ end[e].sent = 0 /\ end[e].got = <<>> /\ Len(end[e].got) = 0
                         /\ end[e].sawEnd = FALSE
      /\ \A h \in Hops : hop[h] = "idle"
  BY DEF Init
<1>4. Counted(n)
  <2>1. Numbered(n)
    BY <1>3 DEF Numbered
  <2>2. HandedOn(n)
    BY <1>1, <1>2, <1>3 DEF HandedOn
  <2>3. Given(n)
    <3>1. ASSUME NEW e \in Ends
          PROVE  n[LinkOf(e)][WayOf(e)] + Len(pipe[LinkOf(e)][WayOf(e)].held) = end[e].sent
      <4>1. /\ n[LinkOf(e)][WayOf(e)] = 0 /\ end[e].sent = 0
            /\ Len(pipe[LinkOf(e)][WayOf(e)].held) = 0
        BY <1>1, <1>2, <1>3
      <4> QED BY <4>1
    <3> QED BY <3>1 DEF Given
  <2>4. Received(n)
    BY <1>1, <1>2, <1>3 DEF Received, Waits
  <2> QED BY <2>1, <2>2, <2>3, <2>4 DEF Counted
<1>5. Whole(n)
  <2>1. Intact /\ Heeded /\ AllSent(n) /\ EndSeen
    BY <1>3 DEF Intact, Heeded, AllSent, EndSeen
  <2>2. Stopped
    BY <1>2, <1>3 DEF Stopped, Waits
  <2> QED BY <2>1, <2>2 DEF Whole
<1> QED BY <1>4, <1>5 DEF Tally

(* Every step has a tally from the last one's. *)
LEMMA NextTally ==
  ASSUME Typed, Staged, Typed', NEW n \in Tallies, Tally(n), [Next]_vars
  PROVE  \E m \in Tallies' : Tally(m)'
<1>1. Counted(n) /\ (~Cut' => Whole(n))
  BY CutStays DEF Tally
<1>2. ASSUME NEW m \in Tallies', Counted(m)', ~Cut' => Whole(m)'
      PROVE  \E x \in Tallies' : Tally(x)'
  BY <1>2 DEF Tally
<1>3. CASE Listen \/ Signal \/ Connect \/ UNCHANGED vars
  <2>1. n \in Tallies' /\ Counted(n)'
    BY <1>1, <1>3, HopsCounted
  <2>2. UNCHANGED <<route, pipe, end, routed, copying>>
    BY <1>3 DEF Listen, Signal, Connect, vars
  <2>3. \A h \in Hops, w \in Ways : Busy(h, w)' <=> Busy(h, w)
    <3>1. \A h \in Hops : hop'[h] = hop[h] \/ (hop[h] = "idle" /\ hop'[h] = "dialling")
      BY <1>3 DEF Listen, Signal, Connect, vars, Typed, TypeOK
    <3> QED BY <2>2, <3>1 DEF Busy, Waits
  <2>4. ~Cut' => Whole(n)'
    BY <1>1, <2>2, <2>3, StillWhole
  <2> QED BY <1>2, <2>1, <2>4
<1>4. ASSUME NEW h \in Hops, Die(h) \/ DialFails(h), Hops' = Hops
      PROVE  Cut'
  <2>1. hop'[h] \in {"failed", "dead"}
    BY <1>4 DEF Die, DialFails, Typed, TypeOK
  <2> QED BY <1>4, <2>1 DEF Cut
<1>5. CASE RelayExits
  <2>1. n \in Tallies' /\ Counted(n)' /\ Hops' = Hops
    BY <1>1, <1>5, HopsCounted, SameRoute DEF RelayExits
  <2>2. ~Cut' => UNCHANGED <<route, hop, copying, pipe, end, routed>>
    BY <1>4, <1>5, <2>1 DEF RelayExits
  <2>3. ~Cut' => \A h \in Hops, w \in Ways : Busy(h, w)' <=> Busy(h, w)
    BY <2>2 DEF Busy, Waits
  <2>4. ~Cut' => Whole(n)'
    BY <1>1, <2>2, <2>3, StillWhole
  <2> QED BY <1>2, <2>1, <2>4
<1>6. ASSUME NEW h \in Hops, DialFails(h) \/ HopDies(h)
      PROVE  \E x \in Tallies' : Tally(x)'
  <2>1. n \in Tallies' /\ Counted(n)'
    BY <1>1, <1>6, HopsCounted
  <2>2. Cut'
    BY <1>4, <1>6, SameRoute DEF DialFails, HopDies
  <2> QED BY <1>2, <2>1, <2>2
<1>7. ASSUME NEW h \in Hops, HopEnds(h)
      PROVE  \E x \in Tallies' : Tally(x)'
  <2>1. n \in Tallies' /\ Counted(n)'
    BY <1>1, <1>7, HopsCounted
  <2>2. ~Cut' => Whole(n)'
    BY <1>1, <1>7, ReleasesWhole
  <2> QED BY <1>2, <2>1, <2>2
<1>8. ASSUME NEW h \in Hops, Dial(h)
      PROVE  \E x \in Tallies' : Tally(x)'
  <2>1. CASE route[h] # "ssh"
    <3>1. n \in Tallies' /\ Counted(n)'
      BY <1>1, <1>8, <2>1, DialCounted
    <3>2. ~Cut' => Whole(n)'
      BY <1>1, <1>8, <2>1, DialWhole
    <3> QED BY <1>2, <3>1, <3>2
  <2>2. CASE route[h] = "ssh"
    <3>1. PICK m \in Tallies : Named(n, m)
      BY NamedTally
    <3>2. m \in Tallies' /\ Counted(m)'
      BY <1>1, <1>8, <2>2, <3>1, DialCounted
    <3>3. ~Cut' => Whole(m)'
      BY <1>1, <1>8, <2>2, <3>1, DialWhole
    <3> QED BY <1>2, <3>2, <3>3
  <2> QED BY <2>1, <2>2
<1>9. ASSUME NEW h \in Hops, NEW w \in Ways, Copier(h, w)
      PROVE  \E x \in Tallies' : Tally(x)'
  <2>1. CASE Copy(h, w) \/ CopyFails(h, w)
    <3>1. PICK m \in Tallies : After(n, Source(h, w), w, m)
      BY OneMore
    <3>2. m \in Tallies' /\ Counted(m)'
      BY <1>1, <2>1, <3>1, CopyCounted
    <3>3. ~Cut' => Whole(m)'
      BY <1>1, <2>1, <3>1, CopyWhole
    <3> QED BY <1>2, <3>2, <3>3
  <2>2. CASE CopyEnds(h, w)
    <3>1. n \in Tallies' /\ Counted(n)'
      BY <1>1, <2>2, ShutCounted
    <3>2. ~Cut' => Whole(n)'
      BY <1>1, <2>2, CopyEndsWhole
    <3> QED BY <1>2, <3>1, <3>2
  <2> QED BY <1>9, <2>1, <2>2 DEF Copier
<1>10. ASSUME NEW e \in Ends, Send(e) \/ ShutDown(e) \/ SeeEnd(e)
       PROVE  \E x \in Tallies' : Tally(x)'
  <2>1. n \in Tallies' /\ Counted(n)'
    BY <1>1, <1>10, SendCounted, ShutCounted
  <2>2. ~Cut' => Whole(n)'
    BY <1>1, <1>10, SendWhole, ShutDownWhole
  <2> QED BY <1>2, <2>1, <2>2
<1>11. ASSUME NEW e \in Ends, Leave(e) \/ (e = "far" /\ NoRoute)
       PROVE  \E x \in Tallies' : Tally(x)'
  <2>1. n \in Tallies' /\ Counted(n)'
    BY <1>1, <1>11, ShutCounted
  <2>2. Cut'
    <3>1. end'[e].left
      BY <1>11, EndsAfter DEF Leave, NoRoute
    <3> QED BY <3>1 DEF Cut
  <2> QED BY <1>2, <2>1, <2>2
<1>12. ASSUME NEW e \in Ends, Take(e) \/ (e = "far" /\ ReadRoute)
       PROVE  \E x \in Tallies' : Tally(x)'
  <2>1. PICK m \in Tallies : After(n, LinkOf(e), WayOf(Other(e)), m)
    BY OneMore
  <2>2. m \in Tallies' /\ Counted(m)'
    BY <1>1, <1>12, <2>1, TakeCounted
  <2>3. ~Cut' => Whole(m)'
    BY <1>1, <1>12, <2>1, TakeWhole
  <2> QED BY <1>2, <2>2, <2>3
<1>13. "far" \in Ends
  BY DEF Ends
<1>14. CASE Relay \/ Connect \/ UNCHANGED vars
  BY <1>3, <1>5, <1>14 DEF Relay
<1>15. CASE Gateway
  BY <1>11, <1>12, <1>13, <1>15 DEF Gateway
<1>16. CASE \E h \in Hops : Joining(h) \/ HopEnds(h) \/ HopDies(h) \/ \E w \in Ways : Copier(h, w)
  BY <1>6, <1>7, <1>8, <1>9, <1>16 DEF Joining
<1>17. CASE \E e \in Ends : Send(e) \/ ShutDown(e) \/ Leave(e) \/ Reader(e)
  BY <1>10, <1>11, <1>12, <1>17 DEF Reader
<1> QED BY <1>14, <1>15, <1>16, <1>17 DEF Next

(* The invariant. *)
LEMMA CarriedHolds == Spec => []Carried
<1>1. Init => Carried
  BY InitTyped, InitStaged, InitTally DEF Carried
<1>2. Carried /\ [Next]_vars => Carried'
  <2> SUFFICES ASSUME Carried, [Next]_vars
               PROVE  Carried'
    OBVIOUS
  <2>1. Typed /\ Staged
    BY DEF Carried
  <2>2. Typed' /\ Staged'
    BY <2>1, NextTyped, NextStaged
  <2>3. PICK n \in Tallies : Tally(n)
    BY DEF Carried
  <2>4. \E m \in Tallies' : Tally(m)'
    BY <2>1, <2>2, <2>3, NextTally
  <2> QED BY <2>2, <2>4 DEF Carried
<1> QED BY <1>1, <1>2, PTL DEF Spec

(* Every state is well typed. *)
THEOREM TypeCorrect == Spec => []TypeOK
<1>1. Carried => TypeOK
  BY DEF Carried, Typed
<1> QED BY <1>1, CarriedHolds, PTL

(* What arrives is what was sent, in order, and an end reads that there is *)
(* no more only after everything that was sent, through any number of      *)
(* hops: relay's, the proxy's and ssh-proxy's copiers (EndMeansAll).       *)
THEOREM EndsMeanAll == Spec => []EndMeansAll
<1>1. ASSUME Carried
      PROVE  EndMeansAll
  <2>1. PICK n \in Tallies : Counted(n) /\ (~Cut => Whole(n))
    BY <1>1 DEF Carried, Tally
  <2>2. ASSUME NEW e \in Ends
        PROVE  \A i \in 1 .. Len(end[e].got) : end[e].got[i] = i
    BY <2>1 DEF Counted, Received
  <2>3. ASSUME NEW e \in Ends, end[e].sawEnd, ~Cut
        PROVE  end[Other(e)].shut /\ Len(end[e].got) = end[Other(e)].sent
    <3>1. PICK l \in Links, w \in Ways : l = LinkOf(e) /\ w = WayOf(Other(e))
      BY <1>1, Places, TwoWays DEF Carried, Typed
    <3>2. Routed(e) /\ pipe[l][w].over = "shut" /\ pipe[l][w].held = <<>>
      BY <2>1, <2>3, <3>1 DEF Whole, EndSeen
    <3>3. Sender(w) = Other(e)
      BY <3>1 DEF Sender, WayOf, Other, Ends
    <3>4. /\ end[Other(e)].shut
          /\ n[l][w] + Len(pipe[l][w].held) = end[Other(e)].sent
      BY <2>1, <2>3, <3>2, <3>3 DEF Whole, AllSent
    <3>5. n[l][w] = Len(end[e].got)
      BY <2>1, <3>1, <3>2 DEF Counted, Received, Routed, Nameless
    <3>6. n[l][w] \in Int /\ Len(pipe[l][w].held) = 0
      BY <3>2 DEF Tallies
    <3> QED BY <3>4, <3>5, <3>6
  <2> QED BY <2>2, <2>3 DEF EndMeansAll
<1> QED BY <1>1, CarriedHolds, PTL
=============================================================================
