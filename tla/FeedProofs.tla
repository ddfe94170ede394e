----------------------------- MODULE FeedProofs -----------------------------
(***************************************************************************)
(* What holds of the log and of the network panel for any number of        *)
(* decisions, of reads in flight and of entries kept.                      *)
(*                                                                         *)
(*   TypeCorrect          every state is well typed                        *)
(*   NothingIsPassedOver  the panel asks on from a number that nothing the *)
(*                        log still holds is passed over by                *)
(*   CursorIsKept         entries that arrive leave the cursor where it was*)
(*                                                                         *)
(* NothingPassedOver is not inductive: what it says of the panel's number  *)
(* rests on what an answer in flight lists, which rests on what had been   *)
(* shown when its read was asked for.  Unbroken says all three.  Both the  *)
(* answers and what the panel shows are picked from a sequence at a set of *)
(* places; the first lemmas say what Picked returns, by counting: the rank *)
(* of a place is a bijection, so no induction over the sequence is needed. *)
(***************************************************************************)
EXTENDS Feed, FiniteSetTheorems, SequenceTheorems, TLAPS

-----------------------------------------------------------------------------
(* Places of a sequence, and what is picked from it                        *)

Before(at, i) == {j \in at : j < i}

(* However many places are taken, each number up to theirs is the rank of  *)
(* one of them, and of one only.                                           *)
LEMMA Ranks ==
  ASSUME NEW n \in Nat, NEW at \in SUBSET (1 .. n)
  PROVE  /\ Cardinality(at) \in 0 .. n
         /\ \A i \in at : Cardinality(Before(at, i)) \in 0 .. Cardinality(at) - 1
         /\ \A i, k \in at : Cardinality(Before(at, i)) = Cardinality(Before(at, k)) => i = k
         /\ \A m \in 1 .. Cardinality(at) : \E i \in at : Cardinality(Before(at, i)) = m - 1
<1>1. IsFiniteSet(1 .. n) /\ Cardinality(1 .. n) = n
  BY FS_Interval
<1>2. IsFiniteSet(at) /\ Cardinality(at) \in Nat /\ Cardinality(at) <= n
  BY <1>1, FS_Subset, FS_CardinalityType
<1>3. \A i \in at : /\ IsFiniteSet(Before(at, i))
                    /\ Cardinality(Before(at, i)) \in Nat
                    /\ Cardinality(Before(at, i)) < Cardinality(at)
  <2> SUFFICES ASSUME NEW i \in at
               PROVE  /\ IsFiniteSet(Before(at, i))
                      /\ Cardinality(Before(at, i)) \in Nat
                      /\ Cardinality(Before(at, i)) < Cardinality(at)
    OBVIOUS
  <2>1. Before(at, i) \in SUBSET at
    BY DEF Before
  <2>2. i \in at \ Before(at, i)
    BY DEF Before
  <2>3. at # Before(at, i)
    BY <2>2
  <2> QED BY <1>2, <2>1, <2>3, FS_Subset, FS_CardinalityType
<1>4. ASSUME NEW i \in at, NEW k \in at, i < k
      PROVE  Cardinality(Before(at, i)) < Cardinality(Before(at, k))
  <2>1. Before(at, i) \in SUBSET Before(at, k)
    <3>1. \A j \in at : j \in Int
      OBVIOUS
    <3>2. \A j \in at : j < i => j < k
      BY <1>4, <3>1
    <3> QED BY <3>2 DEF Before
  <2>2. i \in Before(at, k) /\ i \notin Before(at, i)
    BY <1>4 DEF Before
  <2>3. Before(at, i) # Before(at, k)
    BY <2>2
  <2> QED BY <1>3, <2>1, <2>3, FS_Subset
<1>5. ASSUME NEW i \in at, NEW k \in at,
             Cardinality(Before(at, i)) = Cardinality(Before(at, k))
      PROVE  i = k
  <2>1. i < k \/ k < i \/ i = k
    OBVIOUS
  <2> QED BY <1>3, <1>4, <1>5, <2>1
<1> DEFINE rank == [i \in at |-> Cardinality(Before(at, i)) + 1]
<1>6. rank \in Injection(at, 1 .. Cardinality(at))
  <2>1. rank \in [at -> 1 .. Cardinality(at)]
    BY <1>2, <1>3
  <2>2. \A i, k \in at : rank[i] = rank[k] => i = k
    BY <1>3, <1>5
  <2> QED BY <2>1, <2>2 DEF Injection, IsInjective
<1>7. Cardinality(1 .. Cardinality(at)) = Cardinality(at) /\ IsFiniteSet(1 .. Cardinality(at))
  BY <1>2, FS_Interval
<1>8. rank \in Surjection(at, 1 .. Cardinality(at))
  <2> HIDE DEF rank
  <2> QED BY <1>6, <1>7, FS_Injection
<1>9. \A m \in 1 .. Cardinality(at) : \E i \in at : rank[i] = m
  BY <1>8 DEF Surjection
<1> QED BY <1>2, <1>3, <1>5, <1>9

(* What is picked from a sequence is what it has at those places.          *)
LEMMA PickedHas ==
  ASSUME NEW T, NEW s \in Seq(T), NEW at \in SUBSET (1 .. Len(s))
  PROVE  /\ Picked(s, at) \in Seq(T)
         /\ Len(Picked(s, at)) = Cardinality(at)
         /\ Cardinality(at) \in 0 .. Len(s)
         /\ \A m \in 1 .. Len(Picked(s, at)) : \E i \in at : Picked(s, at)[m] = s[i]
         /\ \A i \in at : \E m \in 1 .. Len(Picked(s, at)) : Picked(s, at)[m] = s[i]
<1> DEFINE size == Cardinality(at)
           place(m) == CHOOSE i \in at : Cardinality({j \in at : j < i}) = m - 1
<1>1. /\ size \in 0 .. Len(s)
      /\ \A i \in at : Cardinality({j \in at : j < i}) \in 0 .. size - 1
      /\ \A i, k \in at : Cardinality({j \in at : j < i}) = Cardinality({j \in at : j < k})
                            => i = k
      /\ \A m \in 1 .. size : \E i \in at : Cardinality({j \in at : j < i}) = m - 1
  BY Ranks, LenProperties DEF Before
<1>2. Picked(s, at) = [m \in 1 .. size |-> s[place(m)]]
  BY DEF Picked
<1>3. \A m \in 1 .. size : place(m) \in at /\ Cardinality({j \in at : j < place(m)}) = m - 1
  <2> SUFFICES ASSUME NEW m \in 1 .. size
               PROVE  place(m) \in at /\ Cardinality({j \in at : j < place(m)}) = m - 1
    OBVIOUS
  <2>1. PICK i \in at : Cardinality({j \in at : j < i}) = m - 1
    BY <1>1
  <2> QED BY <2>1
<1> HIDE DEF place, size
<1>4. \A m \in 1 .. size : s[place(m)] \in T
  BY <1>3, ElementOfSeq
<1>5. Picked(s, at) \in Seq(T) /\ Len(Picked(s, at)) = size
  BY <1>1, <1>2, <1>4, IsASeq
<1>6. \A m \in 1 .. size : Picked(s, at)[m] = s[place(m)]
  BY <1>2
<1>7. ASSUME NEW i \in at
      PROVE  \E m \in 1 .. size : Picked(s, at)[m] = s[i]
  <2> DEFINE m == Cardinality({j \in at : j < i}) + 1
  <2>1. m \in 1 .. size
    BY <1>1
  <2>2. Cardinality({j \in at : j < place(m)}) = m - 1 /\ place(m) \in at
    BY <1>3, <2>1
  <2>3. Cardinality({j \in at : j < i}) \in Int
    BY <2>1, <1>1
  <2>4. Cardinality({j \in at : j < place(m)}) = Cardinality({j \in at : j < i})
    BY <2>2, <2>3
  <2>5. place(m) = i
    BY <1>1, <2>2, <2>4
  <2> QED BY <1>6, <2>1, <2>5
<1> QED BY <1>1, <1>3, <1>5, <1>6, <1>7 DEF size

(* A set of places that is not empty has a first one.                      *)
LEMMA FirstPlace ==
  ASSUME NEW n \in Nat, NEW at \in SUBSET (1 .. n), at # {}
  PROVE  \E i \in at : \A j \in at : i <= j
<1>1. 1 \in 1 .. Cardinality(at)
  <2>1. PICK k \in at : TRUE
    OBVIOUS
  <2>2. Cardinality(Before(at, k)) \in 0 .. Cardinality(at) - 1 /\ Cardinality(at) \in 0 .. n
    BY Ranks
  <2> QED BY <2>2
<1>2. PICK i \in at : Cardinality(Before(at, i)) = 1 - 1
  <2>1. \A m \in 1 .. Cardinality(at) : \E i \in at : Cardinality(Before(at, i)) = m - 1
    BY Ranks
  <2> QED BY <1>1, <2>1
<1>3. IsFiniteSet(Before(at, i))
  <2>1. IsFiniteSet(1 .. n)
    BY FS_Interval
  <2>2. Before(at, i) \in SUBSET (1 .. n)
    BY DEF Before
  <2> QED BY <2>1, <2>2, FS_Subset
<1>4. Before(at, i) = {}
  BY <1>2, <1>3, FS_EmptySet
<1> QED BY <1>4 DEF Before

(* The newest of a sequence are elements of it.                            *)
LEMMA NewestOf ==
  ASSUME NEW T, NEW s \in Seq(T), NEW n \in Nat \ {0}
  PROVE  /\ Newest(s, n) \in Seq(T)
         /\ Len(Newest(s, n)) \in 0 .. n
         /\ Len(Newest(s, n)) <= Len(s)
         /\ \A i \in 1 .. Len(Newest(s, n)) : \E j \in 1 .. Len(s) : Newest(s, n)[i] = s[j]
<1> DEFINE first == IF Len(s) > n THEN Len(s) - n + 1 ELSE 1
<1>1. Len(s) \in Nat
  BY LenProperties
<1>2. first \in 1 .. Len(s) + 1 /\ Len(s) - first + 1 <= n /\ Len(s) - first + 1 \in 0 .. Len(s)
  BY <1>1
<1>3. Newest(s, n) = SubSeq(s, first, Len(s))
  BY DEF Newest
<1> HIDE DEF first
<1>4. /\ SubSeq(s, first, Len(s)) \in Seq(T)
      /\ Len(SubSeq(s, first, Len(s))) = Len(s) - first + 1
      /\ \A i \in 1 .. Len(s) - first + 1 : SubSeq(s, first, Len(s))[i] = s[first + i - 1]
  BY <1>1, <1>2
<1>5. \A i \in 1 .. Len(s) - first + 1 : first + i - 1 \in 1 .. Len(s)
  BY <1>1, <1>2
<1> QED BY <1>1, <1>2, <1>3, <1>4, <1>5
-----------------------------------------------------------------------------
(* Types                                                                   *)

LEMMA EntryTypes == Seqs \subseteq Nat
  BY FeedAssumption DEF Seqs

(* An answer lists entries of the log, and all of them that are newer.     *)
LEMMA SinceLists ==
  ASSUME TypeOK, NEW n \in Nat
  PROVE  /\ Since(n) \in Seq(Entry)
         /\ \A m \in 1 .. Len(Since(n)) : \E i \in 1 .. Len(log) : Since(n)[m] = log[i]
         /\ \A i \in 1 .. Len(log) :
              log[i].seq > n => \E m \in 1 .. Len(Since(n)) : Since(n)[m] = log[i]
<1> DEFINE newer == {i \in 1 .. Len(log) : log[i].seq > n}
<1>1. newer \in SUBSET (1 .. Len(log)) /\ log \in Seq(Entry)
  BY DEF TypeOK
<1>2. Since(n) = Picked(log, newer)
  BY DEF Since
<1>3. \A i \in newer : i \in 1 .. Len(log)
  OBVIOUS
<1>4. \A i \in 1 .. Len(log) : log[i].seq > n => i \in newer
  OBVIOUS
<1> HIDE DEF newer
<1> QED BY <1>1, <1>2, <1>3, <1>4, PickedHas

(* The panel shows entries that it holds, and no more than it holds.       *)
LEMMA VisibleType ==
  ASSUME NEW held \in Seq(Entry), NEW filtered, NEW name
  PROVE  /\ VisibleIn(held, filtered, name) \in Seq(Entry)
         /\ Len(VisibleIn(held, filtered, name)) \in 0 .. Len(held)
<1> DEFINE his == {i \in 1 .. Len(held) : SandboxOf[held[i].what] = name}
<1>1. his \in SUBSET (1 .. Len(held))
  OBVIOUS
<1>2. Picked(held, his) \in Seq(Entry) /\ Len(Picked(held, his)) \in 0 .. Len(held)
  <2> HIDE DEF his
  <2> QED BY <1>1, PickedHas
<1>3. VisibleIn(held, filtered, name) \in {Picked(held, his), held}
  BY DEF VisibleIn
<1>4. Len(held) \in 0 .. Len(held)
  BY LenProperties
<1> QED BY <1>2, <1>3, <1>4

LEMMA ClampType ==
  ASSUME NEW at \in Int, NEW entries \in Seq(Entry), Len(entries) <= HeldLimit
  PROVE  Clamp(at, entries) \in 0 .. HeldLimit - 1
<1>1. Len(entries) \in Nat /\ (entries # <<>> => Len(entries) > 0) /\ HeldLimit \in Nat \ {0}
  BY FeedAssumption, EmptySeq, LenProperties
<1> QED BY <1>1 DEF Clamp

LEMMA RestoredType ==
  ASSUME NEW number, NEW entries \in Seq(Entry), Len(entries) <= HeldLimit
  PROVE  Restored(number, entries) \in 0 .. HeldLimit - 1
<1> DEFINE places == {i \in 1 .. Len(entries) : entries[i].seq = number}
           first == CHOOSE i \in places : \A j \in places : i <= j
<1>1. Len(entries) \in Nat
  BY LenProperties
<1>2. CASE number # 0 /\ places # {}
  <2>1. places \in SUBSET (1 .. Len(entries))
    OBVIOUS
  <2>2. first \in places
    <3>1. \E i \in places : \A j \in places : i <= j
      <4> HIDE DEF places
      <4> QED BY <1>1, <1>2, <2>1, FirstPlace
    <3> QED BY <3>1
  <2>3. Restored(number, entries) = first - 1
    BY <1>2 DEF Restored
  <2> HIDE DEF first
  <2>4. first \in 1 .. Len(entries)
    BY <2>1, <2>2
  <2> QED BY <1>1, <2>3, <2>4, FeedAssumption
<1>3. CASE ~(number # 0 /\ places # {})
  <2>1. Restored(number, entries) = Clamp(Len(entries) - 1, entries)
    BY <1>3 DEF Restored
  <2>2. Len(entries) - 1 \in Int
    BY <1>1
  <2> QED BY <2>1, <2>2, ClampType
<1> QED BY <1>2, <1>3
-----------------------------------------------------------------------------
(* Every state is well typed                                               *)

LEMMA InitTypes == Init => TypeOK
<1> SUFFICES ASSUME Init
             PROVE  TypeOK
  OBVIOUS
<1>1. <<>> \in Seq(Entry) /\ Len(<<>>) = 0
  BY EmptySeq
<1>2. Idle \in Read
  BY <1>1, FeedAssumption DEF Idle, Read
<1>3. 0 \in 0 .. MaxSeq /\ 0 \in 0 .. HeldLimit - 1 /\ 0 <= LogLimit /\ 0 <= HeldLimit
  BY FeedAssumption
<1> QED BY <1>1, <1>2, <1>3 DEF Init, TypeOK

LEMMA RecordTypes ==
  ASSUME TypeOK, NEW what \in Decisions, Record(what)
  PROVE  TypeOK'
<1> DEFINE entry == [seq |-> seq + 1, what |-> what]
<1>1. seq + 1 \in 0 .. MaxSeq /\ entry \in Entry
  BY FeedAssumption DEF TypeOK, Record, Entry, Seqs
<1>2. Append(log, entry) \in Seq(Entry)
  BY <1>1, AppendProperties DEF TypeOK
<1>3. log' \in Seq(Entry) /\ Len(log') <= LogLimit
  <2>1. log' = Newest(Append(log, entry), LogLimit) /\ LogLimit \in Nat \ {0}
    BY FeedAssumption DEF Record
  <2>2. \A s \in Seq(Entry) : /\ Newest(s, LogLimit) \in Seq(Entry)
                              /\ Len(Newest(s, LogLimit)) \in 0 .. LogLimit
    BY <2>1, NewestOf
  <2> HIDE DEF entry
  <2>3. log' \in Seq(Entry) /\ Len(log') \in 0 .. LogLimit
    BY <1>2, <2>1, <2>2, Zenon
  <2>4. LogLimit \in Nat
    BY <2>1
  <2> QED BY <2>3, <2>4
<1>4. seq' = seq + 1 /\ UNCHANGED <<reads, panel, selected, shown>>
  BY DEF Record
<1> QED BY <1>1, <1>3, <1>4 DEF TypeOK, panel

LEMMA AskTypes ==
  ASSUME TypeOK, NEW k \in Reads, Ask(k)
  PROVE  TypeOK'
<1>1. [pc |-> "asked", since |-> connSeq, batch |-> <<>>] \in Read
  BY EmptySeq DEF TypeOK, Read
<1>2. reads' \in [Reads -> Read]
  BY <1>1 DEF TypeOK, Ask
<1> QED BY <1>2 DEF TypeOK, Ask, daemon, panel

LEMMA Answered ==
  ASSUME NEW r \in Read, NEW x
  PROVE  [[r EXCEPT !.pc = "answered"] EXCEPT !.batch = x]
           = [pc |-> "answered", since |-> r.since, batch |-> x]
<1>1. r = [pc |-> r.pc, since |-> r.since, batch |-> r.batch]
  BY DEF Read
<1>2. \A p, n, b : [[pc |-> p, since |-> n, batch |-> b] EXCEPT !.pc = "answered"]
                     = [pc |-> "answered", since |-> n, batch |-> b]
  OBVIOUS
<1>3. \A n, b : [[pc |-> "answered", since |-> n, batch |-> b] EXCEPT !.batch = x]
                  = [pc |-> "answered", since |-> n, batch |-> x]
  OBVIOUS
<1>4. PICK p, n, b : p = r.pc /\ n = r.since /\ b = r.batch
  OBVIOUS
<1>5. [r EXCEPT !.pc = "answered"] = [pc |-> "answered", since |-> n, batch |-> b]
  <2>1. r = [pc |-> p, since |-> n, batch |-> b]
    BY <1>1, <1>4
  <2> QED BY <1>2, <2>1
<1> QED BY <1>3, <1>4, <1>5

LEMMA AnswerTypes ==
  ASSUME TypeOK, NEW k \in Reads, Answer(k)
  PROVE  /\ TypeOK'
         /\ reads' = [reads EXCEPT ![k] = [pc |-> "answered", since |-> reads[k].since,
                                          batch |-> Since(reads[k].since)]]
<1>1. reads[k] \in Read /\ reads[k].since \in 0 .. MaxSeq /\ reads[k].since \in Nat
  BY FeedAssumption DEF TypeOK, Read
<1>2. Since(reads[k].since) \in Seq(Entry)
  BY <1>1, SinceLists
<1> DEFINE answered == [pc |-> "answered", since |-> reads[k].since,
                        batch |-> Since(reads[k].since)]
<1>3. answered \in Read
  BY <1>1, <1>2 DEF Read
<1>4. reads' = [reads EXCEPT ![k] = answered]
  <2>1. reads' = [reads EXCEPT ![k] = [[reads[k] EXCEPT !.pc = "answered"]
                                         EXCEPT !.batch = Since(reads[k].since)]]
    BY DEF TypeOK, Answer
  <2>2. [[reads[k] EXCEPT !.pc = "answered"] EXCEPT !.batch = Since(reads[k].since)] = answered
    BY <1>1, Answered
  <2> QED BY <2>1, <2>2
<1>5. reads' \in [Reads -> Read]
  BY <1>3, <1>4 DEF TypeOK
<1> QED BY <1>4, <1>5 DEF TypeOK, Answer, daemon, panel

LEMMA AnswerFailsTypes ==
  ASSUME TypeOK, NEW k \in Reads, AnswerFails(k)
  PROVE  TypeOK'
<1>1. Idle \in Read
  BY EmptySeq, FeedAssumption DEF Idle, Read
<1>2. reads' \in [Reads -> Read]
  BY <1>1 DEF TypeOK, AnswerFails
<1> QED BY <1>2 DEF TypeOK, AnswerFails, daemon, panel

LEMMA AppendTypes ==
  ASSUME TypeOK, NEW batch \in Seq(Entry), batch # <<>>, AppendConnections(batch)
  PROVE  /\ connections' \in Seq(Entry)
         /\ Len(connections') <= HeldLimit
         /\ connSeq' \in 0 .. MaxSeq
         /\ connCursor' \in 0 .. HeldLimit - 1
         /\ connFilter' \in BOOLEAN
<1>1. connections \o batch \in Seq(Entry)
  BY ConcatProperties DEF TypeOK
<1>2. connections' \in Seq(Entry) /\ Len(connections') <= HeldLimit
  <2>1. HeldLimit \in Nat \ {0}
    BY FeedAssumption
  <2>2. \A s \in Seq(Entry) : /\ Newest(s, HeldLimit) \in Seq(Entry)
                              /\ Len(Newest(s, HeldLimit)) \in 0 .. HeldLimit
    BY <2>1, NewestOf
  <2>3. connections' = Newest(connections \o batch, HeldLimit)
    BY DEF AppendConnections
  <2>4. connections' \in Seq(Entry) /\ Len(connections') \in 0 .. HeldLimit
    BY <1>1, <2>2, <2>3, Zenon
  <2> QED BY <2>1, <2>4
<1>3. connSeq' \in 0 .. MaxSeq
  <2>1. Len(batch) \in 1 .. Len(batch)
    BY EmptySeq, LenProperties
  <2>2. batch[Len(batch)] \in Entry
    BY <2>1, ElementOfSeq
  <2> QED BY <2>2, FeedAssumption DEF AppendConnections, Entry, Seqs
<1>4. connCursor' \in 0 .. HeldLimit - 1
  <2> DEFINE entries == VisibleIn(connections', connFilter, selected)
  <2>1. entries \in Seq(Entry) /\ Len(entries) \in 0 .. Len(connections')
    BY <1>2, VisibleType
  <2>2. Len(entries) <= HeldLimit
    BY <1>2, <2>1, LenProperties, FeedAssumption
  <2>3. connCursor' = Restored(Selection, entries)
    BY DEF AppendConnections
  <2> HIDE DEF entries
  <2> QED BY <2>1, <2>2, <2>3, RestoredType
<1> QED BY <1>2, <1>3, <1>4 DEF AppendConnections, TypeOK

LEMMA DeliverTypes ==
  ASSUME TypeOK, NEW k \in Reads, Deliver(k)
  PROVE  TypeOK'
<1>1. reads[k].batch \in Seq(Entry) /\ Idle \in Read
  BY EmptySeq, FeedAssumption DEF TypeOK, Idle, Read
<1>2. /\ connections' \in Seq(Entry)
      /\ Len(connections') <= HeldLimit
      /\ connSeq' \in 0 .. MaxSeq
      /\ connCursor' \in 0 .. HeldLimit - 1
      /\ connFilter' \in BOOLEAN
  <2>1. CASE reads[k].batch = <<>>
    BY <2>1 DEF Deliver, panel, TypeOK
  <2>2. CASE reads[k].batch # <<>>
    BY <1>1, <2>2, AppendTypes DEF Deliver
  <2> QED BY <2>1, <2>2
<1>3. reads' \in [Reads -> Read]
  BY <1>1 DEF TypeOK, Deliver
<1>4. shown' \subseteq Seqs
  <2>1. \A e \in ToSet(log) : e.seq \in Seqs
    <3>1. \A i \in 1 .. Len(log) : log[i] \in Entry
      BY ElementOfSeq DEF TypeOK
    <3>2. DOMAIN log = 1 .. Len(log)
      BY LenProperties DEF TypeOK
    <3> QED BY <3>1, <3>2 DEF ToSet, Entry
  <2> QED BY <2>1 DEF TypeOK, Deliver
<1> QED BY <1>2, <1>3, <1>4 DEF TypeOK, Deliver, daemon

LEMMA KeyTypes ==
  ASSUME TypeOK,
         Move \/ Home \/ Filter \/ (\E name \in Sandboxes \cup {NoSandbox} : Select(name))
  PROVE  TypeOK'
<1>1. connections \in Seq(Entry) /\ Len(connections) <= HeldLimit /\ connCursor \in Int
  BY FeedAssumption DEF TypeOK
<1>2. \A filtered, name : /\ VisibleIn(connections, filtered, name) \in Seq(Entry)
                         /\ Len(VisibleIn(connections, filtered, name)) \in Int
                         /\ Len(VisibleIn(connections, filtered, name)) <= HeldLimit
  BY <1>1, VisibleType, LenProperties, FeedAssumption
<1>3. CASE Move
  <2>1. PICK at \in {connCursor - 1, connCursor + 1, Len(Visible) - 1} :
          connCursor' = Clamp(at, Visible)
    BY <1>3 DEF Move
  <2>2. at \in Int
    BY <1>1, <1>2 DEF Visible
  <2>3. connCursor' \in 0 .. HeldLimit - 1
    BY <1>2, <2>1, <2>2, ClampType DEF Visible
  <2> QED BY <1>3, <2>3 DEF TypeOK, Move, daemon
<1>4. CASE Home
  BY <1>4, FeedAssumption DEF TypeOK, Home, daemon
<1>5. CASE Filter
  <2>1. connCursor' \in 0 .. HeldLimit - 1
    BY <1>1, <1>2, <1>5, ClampType DEF Filter
  <2>2. connFilter' \in BOOLEAN
    BY <1>5 DEF Filter
  <2> QED BY <1>5, <2>1, <2>2 DEF TypeOK, Filter, daemon
<1>6. CASE \E name \in Sandboxes \cup {NoSandbox} : Select(name)
  BY <1>6 DEF TypeOK, Select, daemon, panel
<1> QED BY <1>3, <1>4, <1>5, <1>6

LEMMA NextTypes ==
  ASSUME TypeOK, [Next]_vars
  PROVE  TypeOK'
<1>1. CASE \E what \in Decisions : Record(what)
  BY <1>1, RecordTypes
<1>2. CASE \E k \in Reads : ReadStep(k) \/ AnswerFails(k)
  BY <1>2, AskTypes, AnswerTypes, DeliverTypes, AnswerFailsTypes DEF ReadStep
<1>3. CASE Move \/ Home \/ Filter \/ (\E name \in Sandboxes \cup {NoSandbox} : Select(name))
  BY <1>3, KeyTypes
<1>4. CASE UNCHANGED vars
  BY <1>4 DEF TypeOK, vars, daemon, panel
<1> QED BY <1>1, <1>2, <1>3, <1>4 DEF Next

(* Every state of the log, of the reads and of the panel is well typed,    *)
(* the cursor within what the panel may hold.                              *)
THEOREM TypeCorrect == Spec => []TypeOK
<1>1. TypeOK /\ [Next]_vars => TypeOK'
  BY NextTypes
<1> QED BY <1>1, InitTypes, PTL DEF Spec
-----------------------------------------------------------------------------
(* The invariant.  A read still in flight asks from a number the panel has *)
(* reached, and its answer leaves out no entry between that number and the *)
(* newest it lists: the panel may go on from there.                        *)

(* Nothing has a number that the log has not given out.                    *)
Dated ==
  /\ connSeq <= seq
  /\ \A i \in 1 .. Len(log) : log[i].seq <= seq
  /\ \A k \in Reads : /\ reads[k].since <= seq
                      /\ \A m \in 1 .. Len(reads[k].batch) : reads[k].batch[m].seq <= seq

AsksFromShown ==
  \A k \in Reads : reads[k].pc # "idle" =>
    \A i \in 1 .. Len(log) : log[i].seq <= reads[k].since => log[i].seq \in shown

AnswersWhole ==
  \A k \in Reads : reads[k].pc = "answered" =>
    \A i \in 1 .. Len(log), m \in 1 .. Len(reads[k].batch) :
      reads[k].since < log[i].seq /\ log[i].seq <= reads[k].batch[m].seq =>
        \E n \in 1 .. Len(reads[k].batch) : reads[k].batch[n] = log[i]

Unbroken == Dated /\ AsksFromShown /\ AnswersWhole /\ NothingPassedOver

LEMMA InitUnbroken == Init => Unbroken
<1> SUFFICES ASSUME Init
             PROVE  Unbroken
  OBVIOUS
<1>1. Len(<<>>) = 0 /\ 1 .. 0 = {}
  BY EmptySeq
<1>2. Dated
  BY <1>1 DEF Init, Dated, Idle
<1>3. AsksFromShown /\ AnswersWhole /\ NothingPassedOver
  BY <1>1 DEF Init, AsksFromShown, AnswersWhole, NothingPassedOver, Idle
<1> QED BY <1>2, <1>3 DEF Unbroken

(* What the log lists after a decision it listed before, or is that one.   *)
LEMMA Recorded ==
  ASSUME TypeOK, NEW what \in Decisions, Record(what)
  PROVE  /\ seq \in Nat /\ seq' = seq + 1
         /\ \A i \in 1 .. Len(log') : \/ log'[i].seq = seq + 1
                                      \/ \E j \in 1 .. Len(log) : log'[i] = log[j]
<1> DEFINE entry == [seq |-> seq + 1, what |-> what]
           longer == Append(log, entry)
<1>1. seq \in Nat /\ seq' = seq + 1 /\ LogLimit \in Nat \ {0}
  BY FeedAssumption DEF TypeOK, Record
<1>2. entry \in Entry
  BY FeedAssumption DEF TypeOK, Record, Entry, Seqs
<1>3. longer \in Seq(Entry) /\ Len(longer) = Len(log) + 1 /\ Len(log) \in Nat
      /\ longer[Len(log) + 1] = entry
      /\ \A j \in 1 .. Len(log) : longer[j] = log[j]
  BY <1>2, AppendProperties, LenProperties DEF TypeOK
<1>4. log' = Newest(longer, LogLimit)
  BY DEF Record
<1>5. entry.seq = seq + 1
  OBVIOUS
<1> HIDE DEF longer, entry
<1>6. \A i \in 1 .. Len(log') : \E j \in 1 .. Len(longer) : log'[i] = longer[j]
  <2>1. \A s \in Seq(Entry) : \A i \in 1 .. Len(Newest(s, LogLimit)) :
          \E j \in 1 .. Len(s) : Newest(s, LogLimit)[i] = s[j]
    BY <1>1, NewestOf
  <2> QED BY <1>3, <1>4, <2>1, Zenon
<1>7. ASSUME NEW i \in 1 .. Len(log')
      PROVE  log'[i].seq = seq + 1 \/ \E j \in 1 .. Len(log) : log'[i] = log[j]
  <2>1. PICK j \in 1 .. Len(longer) : log'[i] = longer[j]
    BY <1>6
  <2>2. j = Len(log) + 1 \/ j \in 1 .. Len(log)
    BY <1>3
  <2> QED BY <1>3, <1>5, <2>1, <2>2
<1> QED BY <1>1, <1>7

LEMMA RecordUnbroken ==
  ASSUME TypeOK, Unbroken, NEW what \in Decisions, Record(what)
  PROVE  Unbroken'
<1>1. /\ seq \in Nat /\ seq' = seq + 1
      /\ \A i \in 1 .. Len(log') : \/ log'[i].seq = seq + 1
                                   \/ \E j \in 1 .. Len(log) : log'[i] = log[j]
  BY Recorded
<1>2. connSeq' = connSeq /\ reads' = reads /\ shown' = shown
  BY DEF Record, panel
<1>3. /\ connSeq \in Nat /\ connSeq <= seq
      /\ \A i \in 1 .. Len(log) : log[i].seq \in Nat /\ log[i].seq <= seq
      /\ \A k \in Reads : /\ reads[k].since \in Nat /\ reads[k].since <= seq
                          /\ \A m \in 1 .. Len(reads[k].batch) :
                               reads[k].batch[m].seq \in Nat /\ reads[k].batch[m].seq <= seq
  <2>1. connSeq \in Nat
    BY FeedAssumption DEF TypeOK
  <2>2. \A s \in Seq(Entry) : \A i \in 1 .. Len(s) : s[i].seq \in Nat
    <3>1. \A e \in Entry : e.seq \in Nat
      BY EntryTypes DEF Entry
    <3>2. \A s \in Seq(Entry) : \A i \in 1 .. Len(s) : s[i] \in Entry
      BY ElementOfSeq
    <3> QED BY <3>1, <3>2
  <2>3. log \in Seq(Entry)
    BY DEF TypeOK
  <2>4. \A k \in Reads : reads[k].since \in Nat /\ reads[k].batch \in Seq(Entry)
    BY FeedAssumption DEF TypeOK, Read
  <2> QED BY <2>1, <2>2, <2>3, <2>4 DEF Unbroken, Dated
<1>4. Dated'
  <2>1. \A i \in 1 .. Len(log') : log'[i].seq <= seq'
    BY <1>1, <1>3
  <2>2. connSeq' <= seq'
    BY <1>1, <1>2, <1>3
  <2>3. \A k \in Reads : /\ reads'[k].since <= seq'
                         /\ \A m \in 1 .. Len(reads'[k].batch) : reads'[k].batch[m].seq <= seq'
    BY <1>1, <1>2, <1>3
  <2> QED BY <2>1, <2>2, <2>3 DEF Dated
<1>5. AsksFromShown'
  <2> SUFFICES ASSUME NEW k \in Reads, reads[k].pc # "idle",
                      NEW i \in 1 .. Len(log'), log'[i].seq <= reads[k].since
               PROVE  log'[i].seq \in shown
    BY <1>2 DEF AsksFromShown
  <2>1. log'[i].seq # seq + 1
    BY <1>1, <1>3
  <2>2. PICK j \in 1 .. Len(log) : log'[i] = log[j]
    BY <1>1, <2>1
  <2> QED BY <2>2 DEF Unbroken, AsksFromShown
<1>6. AnswersWhole'
  <2> SUFFICES ASSUME NEW k \in Reads, reads[k].pc = "answered",
                      NEW i \in 1 .. Len(log'), NEW m \in 1 .. Len(reads[k].batch),
                      reads[k].since < log'[i].seq, log'[i].seq <= reads[k].batch[m].seq
               PROVE  \E n \in 1 .. Len(reads[k].batch) : reads[k].batch[n] = log'[i]
    BY <1>2 DEF AnswersWhole
  <2>1. log'[i].seq # seq + 1
    BY <1>1, <1>3
  <2>2. PICK j \in 1 .. Len(log) : log'[i] = log[j]
    BY <1>1, <2>1
  <2> QED BY <2>2 DEF Unbroken, AnswersWhole
<1>7. NothingPassedOver'
  <2> SUFFICES ASSUME NEW i \in 1 .. Len(log'), log'[i].seq <= connSeq
               PROVE  log'[i].seq \in shown
    BY <1>2 DEF NothingPassedOver
  <2>1. log'[i].seq # seq + 1
    BY <1>1, <1>3
  <2>2. PICK j \in 1 .. Len(log) : log'[i] = log[j]
    BY <1>1, <2>1
  <2> QED BY <2>2 DEF Unbroken, NothingPassedOver
<1> QED BY <1>4, <1>5, <1>6, <1>7 DEF Unbroken

LEMMA AskUnbroken ==
  ASSUME TypeOK, Unbroken, NEW k \in Reads, Ask(k)
  PROVE  Unbroken'
<1>1. UNCHANGED <<log, seq, connSeq, shown>>
  BY DEF Ask, daemon, panel
<1>2. /\ reads'[k].pc = "asked" /\ reads'[k].since = connSeq /\ reads'[k].batch = <<>>
      /\ \A j \in Reads : j # k => reads'[j] = reads[j]
  BY DEF TypeOK, Ask
<1>3. Len(<<>>) = 0 /\ 1 .. 0 = {}
  BY EmptySeq
<1>4. Dated'
  <2>1. \A j \in Reads : /\ reads'[j].since <= seq
                         /\ \A m \in 1 .. Len(reads'[j].batch) : reads'[j].batch[m].seq <= seq
    BY <1>2, <1>3 DEF Unbroken, Dated
  <2> QED BY <1>1, <2>1 DEF Unbroken, Dated
<1>5. AsksFromShown'
  BY <1>1, <1>2 DEF Unbroken, AsksFromShown, NothingPassedOver
<1>6. AnswersWhole'
  BY <1>1, <1>2 DEF Unbroken, AnswersWhole
<1>7. NothingPassedOver'
  BY <1>1 DEF Unbroken, NothingPassedOver
<1> QED BY <1>4, <1>5, <1>6, <1>7 DEF Unbroken

LEMMA AnswerUnbroken ==
  ASSUME TypeOK, Unbroken, NEW k \in Reads, Answer(k)
  PROVE  Unbroken'
<1> DEFINE since == reads[k].since
<1>1. UNCHANGED <<log, seq, connSeq, shown>> /\ reads[k].pc = "asked"
  BY DEF Answer, daemon, panel
<1>2. /\ reads'[k].pc = "answered" /\ reads'[k].since = since /\ reads'[k].batch = Since(since)
      /\ \A j \in Reads : j # k => reads'[j] = reads[j]
  BY AnswerTypes DEF TypeOK
<1>3. /\ \A m \in 1 .. Len(Since(since)) : \E i \in 1 .. Len(log) : Since(since)[m] = log[i]
      /\ \A i \in 1 .. Len(log) :
           log[i].seq > since => \E m \in 1 .. Len(Since(since)) : Since(since)[m] = log[i]
  <2>1. since \in Nat
    BY FeedAssumption DEF TypeOK, Read
  <2> QED BY <2>1, SinceLists
<1>4. Dated'
  <2>1. \A m \in 1 .. Len(Since(since)) : Since(since)[m].seq <= seq
    BY <1>3 DEF Unbroken, Dated
  <2>2. \A j \in Reads : /\ reads'[j].since <= seq
                         /\ \A m \in 1 .. Len(reads'[j].batch) : reads'[j].batch[m].seq <= seq
    BY <1>2, <2>1 DEF Unbroken, Dated
  <2> QED BY <1>1, <2>2 DEF Unbroken, Dated
<1>5. AsksFromShown'
  BY <1>1, <1>2 DEF Unbroken, AsksFromShown
<1>6. AnswersWhole'
  <2>1. ASSUME NEW i \in 1 .. Len(log), since < log[i].seq
        PROVE  \E n \in 1 .. Len(Since(since)) : Since(since)[n] = log[i]
    <3>1. log[i].seq > since
      BY <2>1
    <3> QED BY <1>3, <3>1
  <2> SUFFICES ASSUME NEW j \in Reads, reads'[j].pc = "answered",
                      NEW i \in 1 .. Len(log), NEW m \in 1 .. Len(reads'[j].batch),
                      reads'[j].since < log[i].seq, log[i].seq <= reads'[j].batch[m].seq
               PROVE  \E n \in 1 .. Len(reads'[j].batch) : reads'[j].batch[n] = log[i]
    BY <1>1 DEF AnswersWhole
  <2>2. CASE j = k
    BY <1>2, <2>1, <2>2
  <2>3. CASE j # k
    BY <1>2, <2>3 DEF Unbroken, AnswersWhole
  <2> QED BY <2>2, <2>3
<1>7. NothingPassedOver'
  BY <1>1 DEF Unbroken, NothingPassedOver
<1> QED BY <1>4, <1>5, <1>6, <1>7 DEF Unbroken

(* A read that is over leaves nothing to keep of it.                       *)
LEMMA IdleUnbroken ==
  ASSUME TypeOK, Unbroken, NEW k \in Reads, reads' = [reads EXCEPT ![k] = Idle],
         UNCHANGED daemon, shown \subseteq shown', connSeq' <= seq
  PROVE  Dated' /\ AsksFromShown' /\ AnswersWhole'
<1>1. log' = log /\ seq' = seq
  BY DEF daemon
<1>2. /\ reads'[k].pc = "idle" /\ reads'[k].since = 0 /\ reads'[k].batch = <<>>
      /\ \A j \in Reads : j # k => reads'[j] = reads[j]
  BY DEF TypeOK, Idle
<1>3. Len(<<>>) = 0 /\ 1 .. 0 = {} /\ 0 <= seq
  BY EmptySeq DEF TypeOK
<1>4. Dated'
  <2>1. \A j \in Reads : /\ reads'[j].since <= seq
                         /\ \A m \in 1 .. Len(reads'[j].batch) : reads'[j].batch[m].seq <= seq
    BY <1>2, <1>3 DEF Unbroken, Dated
  <2> QED BY <1>1, <2>1 DEF Unbroken, Dated
<1>5. AsksFromShown'
  BY <1>1, <1>2 DEF Unbroken, AsksFromShown
<1>6. AnswersWhole'
  BY <1>1, <1>2 DEF Unbroken, AnswersWhole
<1> QED BY <1>4, <1>5, <1>6

LEMMA AnswerFailsUnbroken ==
  ASSUME TypeOK, Unbroken, NEW k \in Reads, AnswerFails(k)
  PROVE  Unbroken'
<1>1. /\ reads' = [reads EXCEPT ![k] = Idle] /\ UNCHANGED daemon
      /\ shown' = shown /\ connSeq' = connSeq /\ log' = log
  BY DEF AnswerFails, panel, daemon
<1>2. connSeq' <= seq
  BY <1>1 DEF Unbroken, Dated
<1>3. Dated' /\ AsksFromShown' /\ AnswersWhole'
  BY <1>1, <1>2, IdleUnbroken
<1>4. NothingPassedOver'
  BY <1>1 DEF Unbroken, NothingPassedOver
<1> QED BY <1>3, <1>4 DEF Unbroken

(* The panel goes on from the newest entry of an answer: what came before  *)
(* that one was in the answer, or had been shown when it was asked for.    *)
LEMMA DeliverUnbroken ==
  ASSUME TypeOK, Unbroken, NEW k \in Reads, Deliver(k)
  PROVE  Unbroken'
<1> DEFINE batch == reads[k].batch
<1>1. /\ reads[k].pc = "answered" /\ reads' = [reads EXCEPT ![k] = Idle] /\ UNCHANGED daemon
      /\ log' = log /\ seq' = seq
      /\ shown' = shown \cup {e.seq : e \in {x \in ToSet(batch) : x \in ToSet(log)}}
  BY DEF Deliver, daemon
<1>2. batch \in Seq(Entry) /\ Len(batch) \in Nat /\ (batch # <<>> => Len(batch) \in 1 .. Len(batch))
  <2>1. batch \in Seq(Entry)
    BY DEF TypeOK, Read
  <2> QED BY <2>1, EmptySeq, LenProperties
<1>3. connSeq' = connSeq \/ (Len(batch) \in 1 .. Len(batch) /\ connSeq' = batch[Len(batch)].seq)
  BY <1>2 DEF Deliver, panel, AppendConnections
<1>4. connSeq' <= seq
  BY <1>3 DEF Unbroken, Dated
<1>5. Dated' /\ AsksFromShown' /\ AnswersWhole'
  BY <1>1, <1>4, IdleUnbroken
<1>6. NothingPassedOver'
  <2> SUFFICES ASSUME NEW i \in 1 .. Len(log), log[i].seq <= connSeq'
               PROVE  log[i].seq \in shown'
    BY <1>1 DEF NothingPassedOver
  <2>1. CASE connSeq' = connSeq
    BY <1>1, <2>1 DEF Unbroken, NothingPassedOver
  <2>2. CASE /\ Len(batch) \in 1 .. Len(batch)
             /\ connSeq' = batch[Len(batch)].seq
             /\ log[i].seq <= reads[k].since
    BY <1>1, <2>2 DEF Unbroken, AsksFromShown
  <2>3. CASE /\ Len(batch) \in 1 .. Len(batch)
             /\ connSeq' = batch[Len(batch)].seq
             /\ reads[k].since < log[i].seq
    <3>1. PICK n \in 1 .. Len(batch) : batch[n] = log[i]
      BY <1>1, <2>3 DEF Unbroken, AnswersWhole
    <3>2. batch[n] \in ToSet(batch) /\ log[i] \in ToSet(log)
      <4>1. DOMAIN batch = 1 .. Len(batch) /\ DOMAIN log = 1 .. Len(log)
        BY <1>2, LenProperties DEF TypeOK
      <4> QED BY <4>1 DEF ToSet
    <3> QED BY <1>1, <3>1, <3>2
  <2>4. log[i].seq \in Nat /\ reads[k].since \in Nat
    <3>1. log[i] \in Entry
      BY ElementOfSeq DEF TypeOK
    <3>2. log[i].seq \in Nat
      BY <3>1, EntryTypes DEF Entry
    <3>3. reads[k].since \in Nat
      BY FeedAssumption DEF TypeOK, Read
    <3> QED BY <3>2, <3>3
  <2> QED BY <1>3, <2>1, <2>2, <2>3, <2>4
<1> QED BY <1>5, <1>6 DEF Unbroken

LEMMA NextUnbroken ==
  ASSUME TypeOK, Unbroken, [Next]_vars
  PROVE  Unbroken'
<1>1. CASE \E what \in Decisions : Record(what)
  BY <1>1, RecordUnbroken
<1>2. CASE \E k \in Reads : ReadStep(k) \/ AnswerFails(k)
  BY <1>2, AskUnbroken, AnswerUnbroken, DeliverUnbroken, AnswerFailsUnbroken DEF ReadStep
<1>3. CASE UNCHANGED <<daemon, reads, connSeq, shown>>
  BY <1>3 DEF Unbroken, Dated, AsksFromShown, AnswersWhole, NothingPassedOver, daemon
<1>4. ASSUME \/ Move \/ Home \/ Filter
             \/ \E name \in Sandboxes \cup {NoSandbox} : Select(name)
             \/ UNCHANGED vars
      PROVE  UNCHANGED <<daemon, reads, connSeq, shown>>
  BY <1>4 DEF Move, Home, Filter, Select, vars, panel
<1> QED BY <1>1, <1>2, <1>3, <1>4 DEF Next

(* No entry the daemon still holds is passed over: whatever reads overlap, *)
(* fail or come late, one that the panel no longer asks for has reached it *)
(* (log.go, Since; model.go, appendConnections).                           *)
THEOREM NothingIsPassedOver == Spec => []NothingPassedOver
<1>1. Init => TypeOK /\ Unbroken
  BY InitTypes, InitUnbroken
<1>2. TypeOK /\ Unbroken /\ [Next]_vars => (TypeOK /\ Unbroken)'
  BY NextTypes, NextUnbroken
<1>3. Unbroken => NothingPassedOver
  BY DEF Unbroken
<1> QED BY <1>1, <1>2, <1>3, PTL DEF Spec
-----------------------------------------------------------------------------
(* The cursor                                                              *)

(* The line that the cursor is restored to.                                *)
LEMMA RestoredLine ==
  ASSUME NEW number, NEW entries \in Seq(Entry)
  PROVE  LET line == Restored(number, entries)
         IN  IF number # 0 /\ \E i \in 1 .. Len(entries) : entries[i].seq = number
             THEN line < Len(entries) /\ entries[line + 1].seq = number
             ELSE entries # <<>> => line < Len(entries) /\ line + 1 = Len(entries)
<1> DEFINE places == {i \in 1 .. Len(entries) : entries[i].seq = number}
           first == CHOOSE i \in places : \A j \in places : i <= j
<1>1. Len(entries) \in Nat /\ (entries # <<>> => Len(entries) > 0)
  BY EmptySeq, LenProperties
<1>2. CASE number # 0 /\ places # {}
  <2>1. places \in SUBSET (1 .. Len(entries))
    OBVIOUS
  <2>2. first \in places
    <3>1. \E i \in places : \A j \in places : i <= j
      <4> HIDE DEF places
      <4> QED BY <1>1, <1>2, <2>1, FirstPlace
    <3> QED BY <3>1
  <2>3. Restored(number, entries) = first - 1
    BY <1>2 DEF Restored
  <2> HIDE DEF first
  <2>4. first \in 1 .. Len(entries) /\ entries[first].seq = number
    BY <2>2
  <2>5. (first - 1) + 1 = first /\ first - 1 < Len(entries)
    BY <1>1, <2>4
  <2> QED BY <1>2, <2>3, <2>4, <2>5
<1>3. CASE ~(number # 0 /\ places # {})
  <2>1. Restored(number, entries) = Clamp(Len(entries) - 1, entries)
    BY <1>3 DEF Restored
  <2>2. entries # <<>> => Clamp(Len(entries) - 1, entries) = Len(entries) - 1
    BY <1>1 DEF Clamp
  <2>3. ~(number # 0 /\ \E i \in 1 .. Len(entries) : entries[i].seq = number)
    BY <1>3
  <2> QED BY <1>1, <2>1, <2>2, <2>3
<1> QED BY <1>2, <1>3

(* Entries that arrive leave the cursor on the entry it was on while the   *)
(* panel shows that one, and select the newest one otherwise               *)
(* (model.go, restoreConnCursor).                                          *)
THEOREM CursorIsKept == Spec => CursorStays
<1> DEFINE entries == VisibleIn(connections', connFilter, selected)
           Kept == connections' # connections =>
             IF Selection # 0 /\ \E i \in 1 .. Len(Visible') : Visible'[i].seq = Selection
             THEN Selection' = Selection
             ELSE Visible' # <<>> => Selection' = Last(Visible').seq
<1>1. ASSUME TypeOK, [Next]_vars, connections' # connections
      PROVE  Kept
  <2>1. PICK k \in Reads : Deliver(k) /\ AppendConnections(reads[k].batch)
    BY <1>1 DEF Next, ReadStep, Record, Ask, Answer, AnswerFails, Deliver, Move, Home, Filter,
                Select, vars, panel
  <2>2. connections' \in Seq(Entry)
    BY <1>1, NextTypes DEF TypeOK
  <2>3. entries \in Seq(Entry)
    BY <2>2, VisibleType
  <2>4. Visible' = entries
    BY <2>1 DEF Visible, Deliver, AppendConnections
  <2>5. connCursor' = Restored(Selection, entries)
    BY <2>1 DEF AppendConnections
  <2>6. Selection' = IF connCursor' < Len(entries) THEN entries[connCursor' + 1].seq ELSE 0
    BY <2>4 DEF Selection
  <2> HIDE DEF entries
  <2>7. IF Selection # 0 /\ \E i \in 1 .. Len(entries) : entries[i].seq = Selection
        THEN connCursor' < Len(entries) /\ entries[connCursor' + 1].seq = Selection
        ELSE entries # <<>> => connCursor' < Len(entries) /\ connCursor' + 1 = Len(entries)
    BY <2>3, <2>5, RestoredLine
  <2>8. Last(entries) = entries[Len(entries)]
    BY DEF Last
  <2>9. CASE Selection # 0 /\ \E i \in 1 .. Len(entries) : entries[i].seq = Selection
    BY <2>4, <2>6, <2>7, <2>9
  <2>10. CASE ~(Selection # 0 /\ \E i \in 1 .. Len(entries) : entries[i].seq = Selection)
    BY <2>4, <2>6, <2>7, <2>8, <2>10
  <2> QED BY <2>9, <2>10
<1>2. TypeOK /\ [Next]_vars => [Kept]_vars
  BY <1>1
<1> QED BY <1>2, TypeCorrect, PTL DEF Spec, CursorStays
=============================================================================
