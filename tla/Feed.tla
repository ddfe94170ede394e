-------------------------------- MODULE Feed --------------------------------
(***************************************************************************)
(* The proxy's log of decisions (internal/proxy, log.go and collapse.go)   *)
(* and the dashboard's network panel that follows it (internal/tui).       *)
(*                                                                         *)
(* The panel polls: on every tick it asks for what came after the newest   *)
(* entry it holds, whether or not the last answer has come.  Answers are   *)
(* applied in the order they arrive in.  The cursor is an index into what  *)
(* the panel shows, which depends on a filter and on the sandbox that is   *)
(* selected in the other panel.                                            *)
(***************************************************************************)
EXTENDS Integers, Sequences, FiniteSets, SequencesExt

CONSTANTS
  Decisions,     (* what the proxy may decide: target, sandbox and verdict  *)
  Sandboxes,     (* the sandboxes                                           *)
  SandboxOf,     (* the sandbox whose request a decision was about          *)
  Reads,         (* reads of the log that may be in flight together         *)
  LogLimit,      (* how many entries the proxy's log keeps                  *)
  HeldLimit,     (* how many entries the panel keeps                        *)
  MaxSeq,        (* bound: the entries the daemon records                   *)
  NoSandbox      (* nothing is selected                                     *)

ASSUME FeedAssumption ==
  /\ SandboxOf \in [Decisions -> Sandboxes]
  /\ LogLimit \in Nat \ {0}
  /\ HeldLimit \in Nat \ {0}
  /\ MaxSeq \in Nat
  /\ NoSandbox \notin Sandboxes

VARIABLES
  log,         (* the entries the daemon holds                              *)
  seq,         (* the sequence number of the newest entry recorded          *)
  reads,       (* the reads in flight                                       *)
  connections, (* the entries the panel holds                               *)
  connSeq,     (* where the next read goes on from                          *)
  connCursor,  (* the position of the cursor, from 0                        *)
  connFilter,  (* only what the selected sandbox asked for is shown         *)
  selected,    (* the sandbox selected in the other panel                   *)
  shown        (* the sequence numbers that entries reached the panel       *)
               (* with; only properties read it                             *)

daemon == <<log, seq>>
panel  == <<connections, connSeq, connCursor, connFilter>>
vars   == <<daemon, reads, panel, selected, shown>>

Seqs == 1 .. MaxSeq

Entry == [seq : Seqs, what : Decisions]

Read == [pc : {"idle", "asked", "answered"}, since : 0 .. MaxSeq, batch : Seq(Entry)]

Idle == [pc |-> "idle", since |-> 0, batch |-> <<>>]

TypeOK ==
  /\ log \in Seq(Entry) /\ Len(log) <= LogLimit
  /\ seq \in 0 .. MaxSeq
  /\ reads \in [Reads -> Read]
  /\ connections \in Seq(Entry) /\ Len(connections) <= HeldLimit
  /\ connSeq \in 0 .. MaxSeq
  /\ connCursor \in 0 .. HeldLimit - 1
  /\ connFilter \in BOOLEAN
  /\ selected \in Sandboxes \cup {NoSandbox}
  /\ shown \subseteq Seqs

Init ==
  /\ log = <<>>
  /\ seq = 0
  /\ reads = [k \in Reads |-> Idle]
  /\ connections = <<>>
  /\ connSeq = 0
  /\ connCursor = 0
  /\ connFilter = FALSE
  /\ selected = NoSandbox
  /\ shown = {}

(* The elements of a sequence that are at these places, in its order. *)
Picked(s, at) ==
  [n \in 1 .. Cardinality(at) |-> s[CHOOSE i \in at : Cardinality({j \in at : j < i}) = n - 1]]

(* The newest n of a sequence. *)
Newest(s, n) == SubSeq(s, IF Len(s) > n THEN Len(s) - n + 1 ELSE 1, Len(s))

-----------------------------------------------------------------------------
(* The log                                                                 *)

Record(what) ==
  /\ seq < MaxSeq
  /\ seq' = seq + 1
  /\ log' = Newest(Append(log, [seq |-> seq + 1, what |-> what]), LogLimit)
  /\ UNCHANGED <<reads, panel, selected, shown>>

Since(n) == Picked(log, {i \in 1 .. Len(log) : log[i].seq > n})

-----------------------------------------------------------------------------
(* Folding, for `plbx policy log`                                          *)

(* A group counts the entries that agree on what was decided.  The         *)
(* sequence number stands for the time of an entry and for the reason it   *)
(* gives, which is the newest one's.                                       *)
Fold(groups, entry) ==
  IF \E i \in 1 .. Len(groups) : groups[i].what = entry.what
  THEN [i \in 1 .. Len(groups) |->
         IF groups[i].what = entry.what
         THEN [groups[i] EXCEPT !.hits = @ + 1, !.last = entry.seq]
         ELSE groups[i]]
  ELSE Append(groups, [what |-> entry.what, hits |-> 1, first |-> entry.seq, last |-> entry.seq])

(* As Collapse, listing groups by when each was first seen. *)
CollapseUnsorted(entries) == FoldLeft(Fold, <<>>, entries)

Collapse(entries) ==
  SortSeq(FoldLeft(Fold, <<>>, entries), LAMBDA one, other : one.last < other.last)

-----------------------------------------------------------------------------
(* The panel                                                               *)

(* What the panel shows. *)
VisibleIn(held, filtered, name) ==
  IF filtered /\ name # NoSandbox
  THEN Picked(held, {i \in 1 .. Len(held) : SandboxOf[held[i].what] = name})
  ELSE held

Visible == VisibleIn(connections, connFilter, selected)

Clamp(at, shownEntries) ==
  IF at >= Len(shownEntries) THEN (IF shownEntries = <<>> THEN 0 ELSE Len(shownEntries) - 1)
  ELSE IF at < 0 THEN 0 ELSE at

(* The sequence number under the cursor, 0 if there is none. *)
Selection == IF connCursor < Len(Visible) THEN Visible[connCursor + 1].seq ELSE 0

(* As Ask, until something has come. *)
AskOnce(k) ==
  /\ reads[k].pc = "idle"
  /\ connSeq = 0
  /\ reads' = [reads EXCEPT ![k] = [pc |-> "asked", since |-> connSeq, batch |-> <<>>]]
  /\ UNCHANGED <<daemon, panel, selected, shown>>

(* A tick asks for more, whatever is still in flight. *)
Ask(k) ==
  /\ reads[k].pc = "idle"
  /\ reads' = [reads EXCEPT ![k] = [pc |-> "asked", since |-> connSeq, batch |-> <<>>]]
  /\ UNCHANGED <<daemon, panel, selected, shown>>

(* As Answer, giving only the newest entry. *)
AnswerNewest(k) ==
  /\ reads[k].pc = "asked"
  /\ reads' = [reads EXCEPT ![k].pc = "answered", ![k].batch = Newest(Since(reads[k].since), 1)]
  /\ UNCHANGED <<daemon, panel, selected, shown>>

Answer(k) ==
  /\ reads[k].pc = "asked"
  /\ reads' = [reads EXCEPT ![k].pc = "answered", ![k].batch = Since(reads[k].since)]
  /\ UNCHANGED <<daemon, panel, selected, shown>>

(* A call that fails is no message at all. *)
AnswerFails(k) ==
  /\ reads[k].pc = "asked"
  /\ reads' = [reads EXCEPT ![k] = Idle]
  /\ UNCHANGED <<daemon, panel, selected, shown>>

(* As Restored, where the cursor stays on its line. *)
RestoredInPlace(number, entries) == Clamp(connCursor, entries)

(* The cursor goes back to the entry it was on, or follows the newest. *)
Restored(number, entries) ==
  LET places == {i \in 1 .. Len(entries) : entries[i].seq = number}
  IN  IF number # 0 /\ places # {} THEN (CHOOSE i \in places : \A j \in places : i <= j) - 1
      ELSE Clamp(Len(entries) - 1, entries)

AppendConnections(batch) ==
  /\ connections' = Newest(connections \o batch, HeldLimit)
  /\ connSeq' = batch[Len(batch)].seq
  /\ connCursor' = Restored(Selection, VisibleIn(connections', connFilter, selected))
  /\ UNCHANGED connFilter

Deliver(k) ==
  /\ reads[k].pc = "answered"
  /\ IF reads[k].batch = <<>> THEN UNCHANGED panel ELSE AppendConnections(reads[k].batch)
  /\ shown' = shown \cup {entry.seq : entry \in {e \in ToSet(reads[k].batch) : e \in ToSet(log)}}
  /\ reads' = [reads EXCEPT ![k] = Idle]
  /\ UNCHANGED <<daemon, selected>>

(* Up, down, home and end. *)
Move ==
  /\ \E at \in {connCursor - 1, connCursor + 1, Len(Visible) - 1} :
       connCursor' = Clamp(at, Visible)
  /\ UNCHANGED <<daemon, reads, connections, connSeq, connFilter, selected, shown>>

Home ==
  /\ connCursor' = 0
  /\ UNCHANGED <<daemon, reads, connections, connSeq, connFilter, selected, shown>>

Filter ==
  /\ connFilter' = ~connFilter
  /\ connCursor' = Clamp(connCursor, VisibleIn(connections, ~connFilter, selected))
  /\ UNCHANGED <<daemon, reads, connections, connSeq, selected, shown>>

(* The other panel's selection moves, by a key or by a listing.  The       *)
(* cursor of this panel stays where it is.                                 *)
Select(name) ==
  /\ selected' = name
  /\ UNCHANGED <<daemon, reads, panel, shown>>

-----------------------------------------------------------------------------
ReadStep(k) == Ask(k) \/ Answer(k) \/ Deliver(k)

Next ==
  \/ \E what \in Decisions : Record(what)
  \/ \E k \in Reads : ReadStep(k) \/ AnswerFails(k)
  \/ Move \/ Home \/ Filter
  \/ \E name \in Sandboxes \cup {NoSandbox} : Select(name)

Spec == Init /\ [][Next]_vars

(* The dashboard's ticks and the daemon's answers keep coming: not every   *)
(* read fails.  Decisions and keys need not happen.              *)
Fairness ==
  \A k \in Reads : WF_vars(Ask(k)) /\ SF_vars(Answer(k)) /\ WF_vars(Deliver(k))

FairSpec == Spec /\ Fairness

-----------------------------------------------------------------------------
(* An entry that the daemon still holds, and that the panel no longer asks *)
(* for, has reached the panel: the number that a read goes on from never   *)
(* passes over one, however the answers to reads that overlap are ordered  *)
(* (log.go, "can ask only for what is new"; model.go, appendConnections).  *)
NothingPassedOver ==
  \A i \in 1 .. Len(log) : log[i].seq <= connSeq => log[i].seq \in shown

(* Entries that arrive leave the cursor on the entry it was on, for as     *)
(* long as the panel shows that one, and the newest one selected otherwise *)
(* (model.go, restoreConnCursor).                                          *)
CursorStays ==
  [][connections' # connections =>
       IF Selection # 0 /\ \E i \in 1 .. Len(Visible') : Visible'[i].seq = Selection
       THEN Selection' = Selection
       ELSE Visible' # <<>> => Selection' = Last(Visible').seq]_vars

(* Whatever entries are folded, the result has one group for each thing    *)
(* decided, which counts the entries that agree on it and spans the time   *)
(* of all of them, and lists the groups by when each was last seen         *)
(* (collapse.go, Collapse).                                                *)
Histories ==
  {[i \in 1 .. n |-> [seq |-> i, what |-> f[i]]] : n \in 0 .. MaxSeq, f \in [Seqs -> Decisions]}

Folded(entries) ==
  LET groups == Collapse(entries)
      times(what) == {i \in DOMAIN entries : entries[i].what = what}
  IN  /\ {groups[i].what : i \in DOMAIN groups} = {entries[i].what : i \in DOMAIN entries}
      /\ \A i \in DOMAIN groups :
           /\ groups[i].hits = Cardinality(times(groups[i].what))
           /\ {groups[i].first, groups[i].last} \subseteq times(groups[i].what)
           /\ \A n \in times(groups[i].what) : groups[i].first <= n /\ n <= groups[i].last
           /\ \A j \in 1 .. i - 1 : groups[j].last < groups[i].last

FoldedRight == \A entries \in Histories : Folded(entries)

(* Every decision reaches the panel, unless the log has let go of it first *)
(* (model.go, readConnections, on every tick).                             *)
EveryDecisionShows ==
  \A n \in Seqs : (seq >= n) ~> (n \in shown \/ \A i \in 1 .. Len(log) : log[i].seq # n)
=============================================================================
