-------------------------- MODULE DashboardProofs --------------------------
(***************************************************************************)
(* What holds of the dashboard for any sandboxes, any number of commands   *)
(* in flight and whatever other clients do.                                *)
(*                                                                         *)
(*   TypeCorrect    every state is well typed                              *)
(*   KeysAreFreed   keys wait only for an action that is still to end      *)
(*   CursorIsTold   a listing leaves the cursor on its sandbox             *)
(*                                                                         *)
(* The cursor is a position, and a sandbox is found under it again because *)
(* no two rows of a listing have the same one: what comes before the       *)
(* earlier of two sandboxes is a proper part of what comes before the      *)
(* later one.                                                              *)
(***************************************************************************)
EXTENDS Dashboard, FiniteSetTheorems, SequenceTheorems, TLAPS

-----------------------------------------------------------------------------
(* Rows                                                                    *)

(* Sandboxes come one after the other.                                     *)
LEMMA OneOrder ==
  /\ IsFiniteSet(Names)
  /\ \A n \in Names : Before[n] \in SUBSET Names /\ n \notin Before[n]
  /\ \A m, n \in Names : m # n => m \in Before[n] \/ n \in Before[m]
  /\ \A k, m, n \in Names : k \in Before[m] /\ m \in Before[n] => k \in Before[n]
<1>1. Len(Order) \in Nat /\ \A i \in 1 .. Len(Order) : Order[i] \in Names
  BY DashboardAssumption, LenProperties, ElementOfSeq
<1>2. IsFiniteSet(Names)
  <2>1. IsFiniteSet(1 .. Len(Order))
    BY <1>1, FS_Interval
  <2>2. Order \in Surjection(1 .. Len(Order), Names)
    <3>1. Order \in [1 .. Len(Order) -> Names]
      BY DashboardAssumption, LenProperties
    <3> QED BY <3>1, DashboardAssumption DEF Surjection
  <2> QED BY <2>1, <2>2, FS_Surjection
<1>3. \A n \in Names : \E i \in 1 .. Len(Order) : Order[i] = n
  BY DashboardAssumption
<1>4. \A i, j \in 1 .. Len(Order) : Order[i] = Order[j] => i = j
  BY DashboardAssumption
<1>5. \A m, n \in Names :
        m \in Before[n] <=> \E i, j \in 1 .. Len(Order) : i < j /\ Order[i] = m /\ Order[j] = n
  BY DEF Before
<1>6. \A n \in Names : Before[n] \in SUBSET Names
  BY DEF Before
<1>7. \A n \in Names : n \notin Before[n]
  BY <1>1, <1>4, <1>5
<1>8. ASSUME NEW m \in Names, NEW n \in Names, m # n
      PROVE  m \in Before[n] \/ n \in Before[m]
  <2>1. PICK i \in 1 .. Len(Order), j \in 1 .. Len(Order) : Order[i] = m /\ Order[j] = n
    BY <1>3
  <2>2. i < j \/ j < i
    BY <1>1, <1>8, <2>1
  <2> QED BY <1>5, <2>1, <2>2
<1>9. ASSUME NEW k \in Names, NEW m \in Names, NEW n \in Names,
             k \in Before[m], m \in Before[n]
      PROVE  k \in Before[n]
  <2>1. PICK i \in 1 .. Len(Order), j \in 1 .. Len(Order) :
          i < j /\ Order[i] = k /\ Order[j] = m
    BY <1>5, <1>9
  <2>2. PICK a \in 1 .. Len(Order), b \in 1 .. Len(Order) :
          a < b /\ Order[a] = m /\ Order[b] = n
    BY <1>5, <1>9
  <2>3. j = a
    BY <1>4, <2>1, <2>2
  <2>4. i < b
    BY <1>1, <2>1, <2>2, <2>3
  <2> QED BY <1>5, <2>1, <2>2, <2>4
<1> QED BY <1>2, <1>6, <1>7, <1>8, <1>9

(* No two rows of a listing have the same position, and each has one below *)
(* the number of rows.                                                     *)
LEMMA OneRowEach ==
  ASSUME NEW listing
  PROVE  /\ Length(listing) \in Nat
         /\ \A n \in Listed(listing) : Row(listing, n) \in Nat /\ Row(listing, n) < Length(listing)
         /\ \A m, n \in Listed(listing) : Row(listing, m) = Row(listing, n) => m = n
<1> DEFINE ahead(n) == Listed(listing) \cap Before[n]
<1>1. Listed(listing) \in SUBSET Names
  BY DEF Listed
<1>2. IsFiniteSet(Listed(listing)) /\ Cardinality(Listed(listing)) \in Nat
  BY <1>1, OneOrder, FS_Subset, FS_CardinalityType
<1>3. \A n : /\ IsFiniteSet(ahead(n)) /\ Cardinality(ahead(n)) \in Nat
             /\ Row(listing, n) = Cardinality(ahead(n))
  <2>1. \A n : ahead(n) \in SUBSET Listed(listing)
    OBVIOUS
  <2> QED BY <1>2, <2>1, FS_Subset, FS_CardinalityType DEF Row
<1>4. ASSUME NEW n \in Listed(listing)
      PROVE  Row(listing, n) \in Nat /\ Row(listing, n) < Length(listing)
  <2>1. ahead(n) \in SUBSET Listed(listing) /\ n \notin ahead(n)
    BY <1>1, OneOrder
  <2>2. ahead(n) # Listed(listing)
    BY <2>1
  <2>3. /\ Cardinality(ahead(n)) <= Cardinality(Listed(listing))
        /\ Cardinality(ahead(n)) # Cardinality(Listed(listing))
    BY <1>2, <2>1, <2>2, FS_Subset, Zenon
  <2>4. PICK a, b \in Nat : a = Cardinality(ahead(n)) /\ b = Cardinality(Listed(listing))
    BY <1>2, <1>3
  <2>5. a < b
    BY <2>3, <2>4
  <2>6. Row(listing, n) = a /\ Length(listing) = b
    BY <1>3, <2>4, Zenon DEF Length
  <2> QED BY <2>5, <2>6
<1>5. ASSUME NEW m \in Listed(listing), NEW n \in Listed(listing), m \in Before[n]
      PROVE  Row(listing, m) < Row(listing, n)
  <2>1. ahead(m) \in SUBSET ahead(n)
    BY <1>1, <1>5, OneOrder
  <2>2. m \in ahead(n) /\ m \notin ahead(m)
    BY <1>1, <1>5, OneOrder
  <2>3. ahead(m) # ahead(n)
    BY <2>2
  <2>4. /\ Cardinality(ahead(m)) <= Cardinality(ahead(n))
        /\ Cardinality(ahead(m)) # Cardinality(ahead(n))
    BY <1>3, <2>1, <2>3, FS_Subset, Zenon
  <2>5. PICK a, b \in Nat : a = Cardinality(ahead(m)) /\ b = Cardinality(ahead(n))
    BY <1>3
  <2>6. a < b
    BY <2>4, <2>5
  <2>7. Row(listing, m) = a /\ Row(listing, n) = b
    BY <1>3, <2>5, Zenon
  <2> QED BY <2>6, <2>7
<1>6. ASSUME NEW m \in Listed(listing), NEW n \in Listed(listing),
             Row(listing, m) = Row(listing, n)
      PROVE  m = n
  <2>1. m = n \/ m \in Before[n] \/ n \in Before[m]
    BY <1>1, OneOrder
  <2>2. Row(listing, m) \in Nat /\ Row(listing, n) \in Nat
    BY <1>4
  <2>3. ~(m \in Before[n]) /\ ~(n \in Before[m])
    BY <1>5, <1>6, <2>2
  <2> QED BY <2>1, <2>3
<1> QED BY <1>2, <1>4, <1>6 DEF Length

(* The sandbox at the row that a sandbox has is that sandbox.              *)
LEMMA FoundAgain ==
  ASSUME NEW listing, NEW n \in Listed(listing)
  PROVE  SelectedIn(listing, Row(listing, n)) = n
<1>1. \A m \in Listed(listing) : Row(listing, m) = Row(listing, n) => m = n
  BY OneRowEach
<1> QED BY <1>1 DEF SelectedIn

(* What is selected is one of the sandboxes, if anything is.               *)
LEMMA SelectedIs ==
  ASSUME NEW listing, NEW at
  PROVE  SelectedIn(listing, at) \in Listed(listing) \cup {None}
BY DEF SelectedIn

LEMMA ListedAre ==
  ASSUME NEW listing
  PROVE  /\ Listed(listing) \in SUBSET Names
         /\ \A n \in Names : n \in Listed(listing) <=> listing[n] # "absent"
BY DEF Listed

-----------------------------------------------------------------------------
(* Commands                                                                *)

(* A command asks for what it was started for.                             *)
LEMMA Calling ==
  ASSUME NEW kind \in Kinds, NEW name \in Names \cup {None}
  PROVE  /\ NewCall(kind, name) \in Call
         /\ NewCall(kind, name).kind = kind
         /\ NewCall(kind, name).name = name
BY DEF NewCall, Call, Free, Kinds, Listings, Nowhere, Statuses

LEMMA Freed == Free \in Call /\ Free.kind = "none"
BY DEF Call, Free, Kinds, Listings, Nowhere, Statuses

(* One slot that was free has the command that starts.                     *)
LEMMA OneStarts ==
  ASSUME calls \in [Calls -> Call],
         NEW kind \in Kinds, NEW name \in Names \cup {None},
         Run(kind, name)
  PROVE  /\ calls' \in [Calls -> Call]
         /\ \E s \in Calls : /\ calls[s].kind = "none"
                             /\ calls'[s].kind = kind /\ calls'[s].name = name
                             /\ \A d \in Calls \ {s} : calls'[d] = calls[d]
<1>1. PICK s \in Calls : /\ calls[s].kind = "none"
                         /\ calls' = [calls EXCEPT ![s] = NewCall(kind, name)]
  BY DEF Run, IsFree
<1>2. NewCall(kind, name) \in Call
  BY Calling
<1>3. calls' \in [Calls -> Call]
  BY <1>1, <1>2
<1>4. calls'[s] = NewCall(kind, name) /\ \A d \in Calls \ {s} : calls'[d] = calls[d]
  BY <1>1
<1> QED BY <1>1, <1>3, <1>4, Calling

(* After a message, its slot and free ones have what follows or nothing,   *)
(* and every other slot has what it had.                                   *)
LEMMA SomeFollow ==
  ASSUME calls \in [Calls -> Call],
         NEW c \in Calls, NEW followers \in SUBSET Call,
         Follow(c, followers)
  PROVE  /\ calls' \in [Calls -> Call]
         /\ \A d \in Calls :
              \/ (d = c \/ calls[d].kind = "none") /\ calls'[d] \in followers \cup {Free}
              \/ d # c /\ calls'[d] = calls[d]
<1>1. PICK slots \in SUBSET {d \in Calls : d = c \/ IsFree(d)} :
        \E f \in [slots -> followers] :
          calls' = [d \in Calls |-> IF d \in slots THEN f[d] ELSE IF d = c THEN Free ELSE calls[d]]
  BY DEF Follow
<1>2. PICK f \in [slots -> followers] :
        calls' = [d \in Calls |-> IF d \in slots THEN f[d] ELSE IF d = c THEN Free ELSE calls[d]]
  BY <1>1
<1>3. \A d \in Calls :
        calls'[d] = IF d \in slots THEN f[d] ELSE IF d = c THEN Free ELSE calls[d]
  BY <1>2
<1>4. \A d \in slots : f[d] \in followers /\ f[d] \in Call /\ (d = c \/ calls[d].kind = "none")
  BY <1>1, <1>2 DEF IsFree
<1>5. calls' \in [Calls -> Call]
  BY <1>2, <1>4, Freed
<1> QED BY <1>3, <1>4, <1>5

(* What the service does leaves every sandbox in one of its states.        *)
LEMMA StillListings ==
  ASSUME status \in Listings, NEW call
  PROVE  Effect(call) \in Listings
<1>1. \A n : \A s \in Statuses : [status EXCEPT ![n] = s] \in Listings
  BY DEF Listings
<1>2. "running" \in Statuses /\ "stopped" \in Statuses /\ "absent" \in Statuses
  BY DEF Statuses
<1>3. CASE ~Allowed(call)
  BY <1>3 DEF Effect
<1>4. CASE Allowed(call)
  <2>1. CASE call.kind = "start"
    BY <1>1, <1>2, <1>4, <2>1 DEF Effect
  <2>2. CASE call.kind \in {"stop", "create"}
    BY <1>1, <1>2, <1>4, <2>2 DEF Effect
  <2>3. CASE call.kind = "remove"
    BY <1>1, <1>2, <1>4, <2>3 DEF Effect
  <2>4. CASE call.kind \notin {"start", "stop", "create", "remove"}
    BY <1>4, <2>4 DEF Effect
  <2> QED BY <2>1, <2>2, <2>3, <2>4
<1> QED BY <1>3, <1>4

-----------------------------------------------------------------------------
(* The invariant                                                           *)

(* What is done to a sandbox has one that it is done to.                   *)
Named ==
  \A c \in Calls :
    calls[c].kind \in {"sample", "start", "stop", "remove", "create"} => calls[c].name \in Names

(* The cursor is on a row, while there are any.                            *)
OnARow == cursor = Clamp(cursor, Length(rows))

Steady == TypeOK /\ Named /\ OnARow /\ KeysComeBack

(* The commands that keys wait for go on for as long as something is       *)
(* pending.                                                                *)
LEMMA KeysAsTheyWere ==
  ASSUME KeysComeBack, pending' = pending,
         \A c \in Calls : calls[c].kind \in {"start", "stop", "remove", "rule"} =>
                         calls'[c].kind = calls[c].kind /\ calls'[c].name = calls[c].name
  PROVE  KeysComeBack'
<1>1. CASE pending = None
  BY <1>1 DEF KeysComeBack
<1>2. CASE pending # None
  <2>1. PICK c \in Calls : \/ calls[c].kind = "rule" /\ pending = "rule"
                           \/ Waiting(c) /\ calls[c].name = pending
    BY <1>2 DEF KeysComeBack
  <2>2. calls'[c].kind = calls[c].kind /\ calls'[c].name = calls[c].name
    BY <2>1 DEF Waiting
  <2>3. \/ calls'[c].kind = "rule" /\ pending' = "rule"
        \/ Waiting(c)' /\ calls'[c].name = pending'
    BY <2>1, <2>2 DEF Waiting
  <2> QED BY <2>3 DEF KeysComeBack
<1> QED BY <1>1, <1>2

LEMMA SteadyAtFirst == Init => Steady
<1> SUFFICES ASSUME Init PROVE Steady
  OBVIOUS
<1>1. \A c \in Calls : calls[c] = Free
  BY DEF Init
<1>2. TypeOK
  BY Freed DEF Init, TypeOK, Listings, Statuses, Nowhere
<1>3. Named
  BY <1>1, Freed DEF Named
<1>4. OnARow
  <2>1. Listed(rows) = {}
    BY DEF Init, Listed, Nowhere
  <2>2. Length(rows) = 0
    BY <2>1, FS_EmptySet DEF Length
  <2> QED BY <2>2 DEF Init, OnARow, Clamp
<1>5. KeysComeBack
  BY DEF Init, KeysComeBack
<1> QED BY <1>2, <1>3, <1>4, <1>5 DEF Steady

(* A command that is no action of the dashboard's.                         *)
LEMMA SteadyWhenAsked ==
  ASSUME Steady, NEW kind \in {"list", "create"}, NEW name \in Names \cup {None},
         kind = "create" => name \in Names,
         Run(kind, name),
         UNCHANGED <<status, list, pending, focus>>
  PROVE  Steady'
<1> USE DEF list
<1>1. calls \in [Calls -> Call] /\ kind \in Kinds
  BY DEF Steady, TypeOK, Kinds
<1>2. /\ calls' \in [Calls -> Call]
      /\ \E s \in Calls : /\ calls[s].kind = "none"
                          /\ calls'[s].kind = kind /\ calls'[s].name = name
                          /\ \A d \in Calls \ {s} : calls'[d] = calls[d]
  BY <1>1, OneStarts
<1>3. PICK s \in Calls : /\ calls[s].kind = "none"
                         /\ calls'[s].kind = kind /\ calls'[s].name = name
                         /\ \A d \in Calls \ {s} : calls'[d] = calls[d]
  BY <1>2
<1>4. TypeOK'
  BY <1>2 DEF Steady, TypeOK
<1>5. Named'
  BY <1>3 DEF Steady, Named
<1>6. OnARow'
  BY DEF Steady, OnARow, Clamp, Length, Listed
<1>7. KeysComeBack'
  <2>1. \A d \in Calls : calls[d].kind \in {"start", "stop", "remove", "rule"} =>
                          calls'[d].kind = calls[d].kind /\ calls'[d].name = calls[d].name
    BY <1>3
  <2> QED BY <2>1, KeysAsTheyWere DEF Steady
<1> QED BY <1>4, <1>5, <1>6, <1>7 DEF Steady

LEMMA TickSteady == ASSUME Steady, Tick PROVE Steady'
BY SteadyWhenAsked DEF Tick

LEMMA CreateSandboxSteady ==
  ASSUME Steady, NEW n \in Names, CreateSandbox(n) PROVE Steady'
BY SteadyWhenAsked DEF CreateSandbox

(* A command in flight that goes on to its next phase, or is given up.     *)
LEMMA SteadyInFlight ==
  ASSUME Steady, NEW c \in Calls, status' \in Listings, calls' \in [Calls -> Call],
         \/ calls'[c].kind = calls[c].kind /\ calls'[c].name = calls[c].name
         \/ calls[c].kind \in {"list", "sample"} /\ calls'[c].kind = "none",
         \A d \in Calls \ {c} : calls'[d] = calls[d],
         UNCHANGED <<list, pending, focus>>
  PROVE  Steady'
<1> USE DEF list
<1>1. TypeOK'
  BY DEF Steady, TypeOK
<1>2. Named'
  BY DEF Steady, Named
<1>3. OnARow'
  BY DEF Steady, OnARow, Clamp, Length, Listed
<1>4. KeysComeBack'
  <2>1. \A d \in Calls : calls[d].kind \in {"start", "stop", "remove", "rule"} =>
                          calls'[d].kind = calls[d].kind /\ calls'[d].name = calls[d].name
    OBVIOUS
  <2> QED BY <2>1, KeysAsTheyWere DEF Steady
<1> QED BY <1>1, <1>2, <1>3, <1>4 DEF Steady

LEMMA PulledSteady == ASSUME Steady, NEW c \in Calls, Pulled(c) PROVE Steady'
<1>1. calls \in [Calls -> Call] /\ status' \in Listings
  BY DEF Pulled, Steady, TypeOK
<1>2. calls' = [calls EXCEPT ![c].phase = "sent"]
  BY DEF Pulled
<1>3. /\ calls' \in [Calls -> Call]
      /\ calls'[c].kind = calls[c].kind /\ calls'[c].name = calls[c].name
      /\ \A d \in Calls \ {c} : calls'[d] = calls[d]
  BY <1>1, <1>2 DEF Call
<1> QED BY <1>1, <1>3, SteadyInFlight DEF Pulled

LEMMA AnswerSteady == ASSUME Steady, NEW c \in Calls, Answer(c) PROVE Steady'
<1>1. calls \in [Calls -> Call] /\ status \in Listings
  BY DEF Steady, TypeOK
<1>2. status' \in Listings
  BY <1>1, StillListings DEF Answer
<1>3. Allowed(calls[c]) \in BOOLEAN
  BY DEF Allowed
<1>4. PICK seen \in Listings :
        calls' = [calls EXCEPT ![c].phase = "answered", ![c].ok = Allowed(calls[c]),
                               ![c].found = seen]
  <2>1. Nowhere \in Listings
    BY DEF Nowhere, Listings, Statuses
  <2> QED BY <1>1, <2>1 DEF Answer
<1>5. PICK done \in BOOLEAN :
        calls' = [calls EXCEPT ![c].phase = "answered", ![c].ok = done, ![c].found = seen]
  BY <1>3, <1>4
<1>6. /\ calls' \in [Calls -> Call]
      /\ calls'[c].kind = calls[c].kind /\ calls'[c].name = calls[c].name
      /\ \A d \in Calls \ {c} : calls'[d] = calls[d]
  BY <1>1, <1>5 DEF Call
<1> QED BY <1>2, <1>6, SteadyInFlight DEF Answer

LEMMA AnswerFailsSteady == ASSUME Steady, NEW c \in Calls, AnswerFails(c) PROVE Steady'
<1>1. calls \in [Calls -> Call] /\ status \in Listings
  BY DEF Steady, TypeOK
<1>2. status' \in Listings
  BY <1>1, StillListings DEF AnswerFails
<1>3. calls' = [calls EXCEPT ![c] = IF calls[c].kind \in {"list", "sample"} THEN Free
                                    ELSE [calls[c] EXCEPT !.phase = "answered"]]
  BY DEF AnswerFails
<1>4. UNCHANGED <<list, pending, focus>>
  BY DEF AnswerFails
<1>5. CASE calls[c].kind \in {"list", "sample"}
  <2>1. calls' = [calls EXCEPT ![c] = Free]
    BY <1>3, <1>5
  <2>2. calls' \in [Calls -> Call]
    BY <1>1, <2>1, Freed
  <2>3. calls'[c].kind = "none" /\ \A d \in Calls \ {c} : calls'[d] = calls[d]
    BY <1>1, <2>1, Freed
  <2> QED BY <1>2, <1>4, <1>5, <2>2, <2>3, SteadyInFlight
<1>6. CASE calls[c].kind \notin {"list", "sample"}
  <2>1. calls' = [calls EXCEPT ![c] = [calls[c] EXCEPT !.phase = "answered"]]
    BY <1>3, <1>6
  <2>2. /\ calls' \in [Calls -> Call]
        /\ calls'[c].kind = calls[c].kind /\ calls'[c].name = calls[c].name
        /\ \A d \in Calls \ {c} : calls'[d] = calls[d]
    BY <1>1, <2>1 DEF Call
  <2> QED BY <1>2, <1>4, <2>2, SteadyInFlight
<1> QED BY <1>5, <1>6

(* Whatever a listing has, the cursor it leaves is on a row of it.         *)
LEMMA RestoredOnARow ==
  ASSUME cursor \in Nat, NEW listing, NEW name
  PROVE  /\ Restored(listing, name) \in Nat
         /\ Restored(listing, name) = Clamp(Restored(listing, name), Length(listing))
         /\ name \in Listed(listing) => SelectedIn(listing, Restored(listing, name)) = name
<1>1. Length(listing) \in Nat
  BY OneRowEach
<1>2. CASE name \in Listed(listing)
  <2>1. Restored(listing, name) = Row(listing, name)
    BY <1>2 DEF Restored
  <2>2. Row(listing, name) \in Nat /\ Row(listing, name) < Length(listing)
    BY <1>2, OneRowEach
  <2>3. SelectedIn(listing, Row(listing, name)) = name
    BY <1>2, FoundAgain
  <2> QED BY <2>1, <2>2, <2>3 DEF Clamp
<1>3. CASE name \notin Listed(listing)
  <2>1. Restored(listing, name) = Clamp(cursor, Length(listing))
    BY <1>3 DEF Restored
  <2>2. PICK k \in Nat : k = Length(listing)
    BY <1>1
  <2>3. Clamp(cursor, k) \in Nat /\ Clamp(cursor, k) = Clamp(Clamp(cursor, k), k)
    BY <2>2 DEF Clamp
  <2> QED BY <1>3, <2>1, <2>2, <2>3
<1> QED BY <1>2, <1>3

LEMMA ApplyListingSteady == ASSUME Steady, NEW c \in Calls, ApplyListing(c) PROVE Steady'
<1>1. calls \in [Calls -> Call] /\ TypeOK
  BY DEF Steady, TypeOK
<1>2. PICK listing \in Listings : listing = calls[c].found
  BY <1>1 DEF Call
<1> DEFINE followers == {NewCall("sample", n) : n \in Unsampled(listing)}
<1>3. /\ calls[c].kind = "list"
      /\ rows' = listing
      /\ focus' \in {focus, None}
      /\ stats' = stats \cap Running(listing)
      /\ Follow(c, followers)
      /\ status' = status /\ pending' = pending
  BY <1>2 DEF ApplyListing
<1>4. \E name : cursor' = Restored(listing, name)
  BY <1>2 DEF ApplyListing
<1>5. cursor' \in Nat /\ cursor' = Clamp(cursor', Length(listing))
  BY <1>1, <1>4, RestoredOnARow DEF TypeOK
<1>6. \A f \in followers : f \in Call /\ f.kind = "sample" /\ f.name \in Names
  <2>1. Unsampled(listing) \in SUBSET Names /\ "sample" \in Kinds
    BY DEF Unsampled, Running, Kinds
  <2> QED BY <2>1, Calling
<1> HIDE DEF followers
<1>7. followers \in SUBSET Call
  BY <1>6
<1>8. /\ calls' \in [Calls -> Call]
      /\ \A d \in Calls :
           \/ (d = c \/ calls[d].kind = "none") /\ calls'[d] \in followers \cup {Free}
           \/ d # c /\ calls'[d] = calls[d]
  BY <1>1, <1>3, <1>7, SomeFollow
<1>9. TypeOK'
  BY <1>1, <1>3, <1>5, <1>8 DEF TypeOK
<1>10. Named'
  BY <1>6, <1>8, Freed DEF Steady, Named
<1>11. OnARow'
  BY <1>3, <1>5 DEF OnARow, Clamp, Length, Listed
<1>12. KeysComeBack'
  <2>1. \A d \in Calls : calls[d].kind \in {"start", "stop", "remove", "rule"} =>
                          calls'[d].kind = calls[d].kind /\ calls'[d].name = calls[d].name
    BY <1>3, <1>6, <1>8, Freed
  <2> QED BY <1>3, <2>1, KeysAsTheyWere DEF Steady
<1> QED BY <1>9, <1>10, <1>11, <1>12 DEF Steady

LEMMA SampledSteady == ASSUME Steady, NEW c \in Calls, Sampled(c) PROVE Steady'
<1>1. calls \in [Calls -> Call] /\ TypeOK
  BY DEF Steady, TypeOK
<1>2. /\ calls[c].kind = "sample"
      /\ stats' = IF calls[c].ok THEN stats \cup {calls[c].name} ELSE stats
      /\ calls' = [calls EXCEPT ![c] = Free]
      /\ UNCHANGED <<status, rows, cursor, pending, focus>>
  BY DEF Sampled
<1>3. calls[c].name \in Names
  BY <1>2 DEF Steady, Named
<1>4. calls' \in [Calls -> Call] /\ calls'[c] = Free /\ \A d \in Calls \ {c} : calls'[d] = calls[d]
  BY <1>1, <1>2, Freed
<1>5. TypeOK'
  BY <1>1, <1>2, <1>3, <1>4 DEF TypeOK
<1>6. Named'
  BY <1>4, Freed DEF Steady, Named
<1>7. OnARow'
  BY <1>2 DEF Steady, OnARow, Clamp, Length, Listed
<1>8. KeysComeBack'
  <2>1. \A d \in Calls : calls[d].kind \in {"start", "stop", "remove", "rule"} =>
                          calls'[d].kind = calls[d].kind /\ calls'[d].name = calls[d].name
    BY <1>2, <1>4, Freed
  <2> QED BY <1>2, <2>1, KeysAsTheyWere DEF Steady
<1> QED BY <1>5, <1>6, <1>7, <1>8 DEF Steady

LEMMA ActedSteady == ASSUME Steady, NEW c \in Calls, Acted(c) PROVE Steady'
<1> USE DEF list
<1>1. calls \in [Calls -> Call] /\ TypeOK
  BY DEF Steady, TypeOK
<1>2. /\ calls[c].kind \in {"start", "stop", "remove", "create"}
      /\ pending' = None
      /\ focus' = IF calls[c].kind = "create" /\ calls[c].ok THEN calls[c].name ELSE focus
      /\ Follow(c, {NewCall("list", None)})
      /\ UNCHANGED <<status, rows, cursor, stats>>
  BY DEF Acted
<1>3. calls[c].name \in Names
  BY <1>2 DEF Steady, Named
<1>4. PICK next \in Call : next = NewCall("list", None) /\ next.kind = "list"
  BY Calling DEF Kinds
<1>5. /\ calls' \in [Calls -> Call]
      /\ \A d \in Calls :
           \/ (d = c \/ calls[d].kind = "none") /\ calls'[d] \in {next} \cup {Free}
           \/ d # c /\ calls'[d] = calls[d]
  <2>1. Follow(c, {next})
    BY <1>2, <1>4
  <2> QED BY <1>1, <2>1, SomeFollow
<1>6. TypeOK'
  BY <1>1, <1>2, <1>3, <1>5 DEF TypeOK
<1>7. Named'
  BY <1>4, <1>5, Freed DEF Steady, Named
<1>8. OnARow'
  BY <1>2 DEF Steady, OnARow, Clamp, Length, Listed
<1>9. KeysComeBack'
  BY <1>2 DEF KeysComeBack
<1> QED BY <1>6, <1>7, <1>8, <1>9 DEF Steady

LEMMA RuleWrittenSteady == ASSUME Steady, NEW c \in Calls, RuleWritten(c) PROVE Steady'
<1> USE DEF list
<1>1. calls \in [Calls -> Call] /\ TypeOK
  BY DEF Steady, TypeOK
<1>2. /\ calls[c].kind = "rule"
      /\ pending' = None
      /\ calls' = [calls EXCEPT ![c] = Free]
      /\ UNCHANGED <<status, rows, cursor, stats, focus>>
  BY DEF RuleWritten
<1>3. calls' \in [Calls -> Call] /\ calls'[c] = Free /\ \A d \in Calls \ {c} : calls'[d] = calls[d]
  BY <1>1, <1>2, Freed
<1>4. TypeOK'
  BY <1>1, <1>2, <1>3 DEF TypeOK
<1>5. Named'
  BY <1>3, Freed DEF Steady, Named
<1>6. OnARow'
  BY <1>2 DEF Steady, OnARow, Clamp, Length, Listed
<1>7. KeysComeBack'
  BY <1>2 DEF KeysComeBack
<1> QED BY <1>4, <1>5, <1>6, <1>7 DEF Steady

LEMMA MoveSteady == ASSUME Steady, Move PROVE Steady'
<1>1. TypeOK /\ OnARow /\ Length(rows) \in Nat
  BY OneRowEach DEF Steady
<1>2. PICK k \in Nat : k = Length(rows)
  BY <1>1
<1>3. /\ cursor' \in {IF cursor = 0 THEN 0 ELSE cursor - 1, Clamp(cursor + 1, k), 0, Clamp(k, k)}
      /\ UNCHANGED <<status, calls, rows, stats, pending, focus>>
  BY <1>2 DEF Move
<1>4. cursor \in Nat /\ cursor = Clamp(cursor, k)
  BY <1>1, <1>2 DEF TypeOK, OnARow
<1>5. cursor' \in Nat /\ cursor' = Clamp(cursor', k)
  BY <1>3, <1>4 DEF Clamp
<1>6. TypeOK'
  BY <1>1, <1>3, <1>5 DEF TypeOK
<1>7. Named'
  BY <1>3 DEF Steady, Named
<1>8. OnARow'
  BY <1>2, <1>3, <1>5 DEF OnARow, Clamp, Length, Listed
<1>9. KeysComeBack'
  <2>1. \A d \in Calls : calls[d].kind \in {"start", "stop", "remove", "rule"} =>
                          calls'[d].kind = calls[d].kind /\ calls'[d].name = calls[d].name
    BY <1>3
  <2> QED BY <1>3, <2>1, KeysAsTheyWere DEF Steady
<1> QED BY <1>6, <1>7, <1>8, <1>9 DEF Steady

(* An action of the dashboard's, on the sandbox named or on none.          *)
LEMMA SteadyWhenActing ==
  ASSUME Steady, pending = None,
         NEW kind \in {"start", "stop", "remove", "rule"}, NEW name \in Names \cup {None},
         kind # "rule" => name \in Names,
         Run(kind, name),
         pending' = IF kind = "rule" THEN "rule" ELSE name,
         UNCHANGED <<status, list, focus>>
  PROVE  Steady'
<1> USE DEF list
<1>1. calls \in [Calls -> Call] /\ kind \in Kinds
  BY DEF Steady, TypeOK, Kinds
<1>2. /\ calls' \in [Calls -> Call]
      /\ \E s \in Calls : /\ calls[s].kind = "none"
                          /\ calls'[s].kind = kind /\ calls'[s].name = name
                          /\ \A d \in Calls \ {s} : calls'[d] = calls[d]
  BY <1>1, OneStarts
<1>3. PICK s \in Calls : /\ calls[s].kind = "none"
                         /\ calls'[s].kind = kind /\ calls'[s].name = name
                         /\ \A d \in Calls \ {s} : calls'[d] = calls[d]
  BY <1>2
<1>4. TypeOK'
  BY <1>2 DEF Steady, TypeOK
<1>5. Named'
  BY <1>3 DEF Steady, Named
<1>6. OnARow'
  BY DEF Steady, OnARow, Clamp, Length, Listed
<1>7. KeysComeBack'
  BY <1>3 DEF KeysComeBack, Waiting
<1> QED BY <1>4, <1>5, <1>6, <1>7 DEF Steady

LEMMA SelectedNamed == Selected \in Names \cup {None}
BY SelectedIs, ListedAre DEF Selected

LEMMA ActSteady ==
  ASSUME Steady, pending = None, NEW kind \in {"start", "stop", "remove"}, Act(kind)
  PROVE  Steady'
<1>1. Selected \in Names
  BY SelectedNamed DEF Act
<1>2. Run(kind, Selected) /\ pending' = Selected /\ UNCHANGED <<status, list, focus>>
  BY DEF Act
<1> QED BY <1>1, <1>2, SteadyWhenActing

LEMMA ToggleSelectedSteady == ASSUME Steady, ToggleSelected PROVE Steady'
<1>1. PICK kind \in {"start", "stop"} : Act(kind)
  BY DEF ToggleSelected
<1> QED BY <1>1, ActSteady DEF ToggleSelected, Pressable

LEMMA RemoveSelectedSteady == ASSUME Steady, RemoveSelected PROVE Steady'
BY ActSteady DEF RemoveSelected, Pressable

LEMMA RuleForSelectedSteady == ASSUME Steady, RuleForSelected PROVE Steady'
BY SteadyWhenActing DEF RuleForSelected, Pressable

LEMMA ElsewhereSteady ==
  ASSUME Steady, NEW kind \in Other, NEW n \in Names, Elsewhere(kind, n) PROVE Steady'
<1> USE DEF list
<1>1. status' \in Listings
  BY StillListings DEF Elsewhere, Steady, TypeOK
<1>2. UNCHANGED <<calls, rows, cursor, stats, pending, focus>>
  BY DEF Elsewhere
<1>3. TypeOK'
  BY <1>1, <1>2 DEF Steady, TypeOK
<1>4. Named'
  BY <1>2 DEF Steady, Named
<1>5. OnARow'
  BY <1>2 DEF Steady, OnARow, Clamp, Length, Listed
<1>6. KeysComeBack'
  <2>1. \A d \in Calls : calls[d].kind \in {"start", "stop", "remove", "rule"} =>
                          calls'[d].kind = calls[d].kind /\ calls'[d].name = calls[d].name
    BY <1>2
  <2> QED BY <1>2, <2>1, KeysAsTheyWere DEF Steady
<1> QED BY <1>3, <1>4, <1>5, <1>6 DEF Steady

LEMMA SteadyStill == Steady /\ [Next]_vars => Steady'
<1> SUFFICES ASSUME Steady, [Next]_vars PROVE Steady'
  OBVIOUS
<1>1. CASE Tick
  BY <1>1, TickSteady
<1>2. ASSUME NEW c \in Calls, Answer(c) PROVE Steady'
  BY <1>2, AnswerSteady
<1>3. ASSUME NEW c \in Calls, AnswerFails(c) PROVE Steady'
  BY <1>3, AnswerFailsSteady
<1>4. ASSUME NEW c \in Calls, Pulled(c) PROVE Steady'
  BY <1>4, PulledSteady
<1>5. ASSUME NEW c \in Calls, Apply(c) PROVE Steady'
  BY <1>5, ApplyListingSteady, SampledSteady, ActedSteady, RuleWrittenSteady DEF Apply
<1>6. CASE Press
  BY <1>6, MoveSteady, ToggleSelectedSteady, RemoveSelectedSteady, RuleForSelectedSteady,
     CreateSandboxSteady DEF Press
<1>7. ASSUME NEW kind \in Other, NEW n \in Names, Elsewhere(kind, n) PROVE Steady'
  BY <1>7, ElsewhereSteady
<1>8. CASE UNCHANGED vars
  BY <1>8 DEF vars, list, Steady, TypeOK, Named, OnARow, Clamp, Length, Listed, KeysComeBack, Waiting
<1> QED BY <1>1, <1>2, <1>3, <1>4, <1>5, <1>6, <1>7, <1>8 DEF Next

-----------------------------------------------------------------------------
(* What is promised                                                        *)

LEMMA AlwaysSteady == Spec => []Steady
BY SteadyAtFirst, SteadyStill, PTL DEF Spec

(* Every state is well typed: what is under the cursor, pending or awaited *)
(* is a sandbox, or nothing (model.go, Model).                             *)
THEOREM TypeCorrect == Spec => []TypeOK
BY AlwaysSteady, PTL DEF Steady

(* A key is refused only on account of an action that is still to end and  *)
(* will free keys, whatever failed and whatever ended before it (keys.go,  *)
(* handleKey; model.go, actionMsg and ruleMsg).                            *)
THEOREM KeysAreFreed == Spec => []KeysComeBack
BY AlwaysSteady, PTL DEF Steady

(* A listing that moves rows leaves the cursor on the sandbox it was on,   *)
(* or puts it on the one just created (model.go, applyListing).            *)
THEOREM CursorIsTold == Spec => CursorFollows
<1> DEFINE Follows ==
      /\ rows' # rows =>
           IF focus # None /\ rows'[focus] # "absent" THEN Selected' = focus
           ELSE Selected # None /\ rows'[Selected] # "absent" => Selected' = Selected
      /\ focus # None /\ focus' = None => Selected' = focus
<1>1. Steady /\ [Next]_vars => [Follows]_vars
  <2> SUFFICES ASSUME Steady, Next PROVE Follows
    OBVIOUS
  <2>1. focus \in Names \cup {None} /\ None \notin Names /\ calls \in [Calls -> Call]
    BY DashboardAssumption DEF Steady, TypeOK
  <2>2. ASSUME NEW c \in Calls, ApplyListing(c) PROVE Follows
    <3>1. PICK listing \in Listings : listing = calls[c].found
      BY <2>1 DEF Call
    <3>2. PICK name : name = IF focus # None /\ listing[focus] # "absent" THEN focus ELSE Selected
      OBVIOUS
    <3>3. /\ rows' = listing
          /\ cursor' = Restored(listing, name)
          /\ focus' = IF focus # None /\ listing[focus] # "absent" THEN None ELSE focus
      BY <2>2, <3>1, <3>2 DEF ApplyListing
    <3>4. name \in Listed(listing) => SelectedIn(listing, Restored(listing, name)) = name
      BY RestoredOnARow DEF Steady, TypeOK
    <3>5. Selected' = SelectedIn(listing, Restored(listing, name))
      BY <3>3 DEF Selected, SelectedIn, Listed, Row
    <3>6. CASE focus # None /\ listing[focus] # "absent"
      <4>1. name = focus /\ focus \in Listed(listing)
        BY <2>1, <3>2, <3>6, ListedAre
      <4>2. Selected' = focus
        BY <3>4, <3>5, <4>1
      <4> QED BY <3>3, <3>6, <4>2
    <3>7. CASE ~(focus # None /\ listing[focus] # "absent")
      <4>1. name = Selected /\ focus' = focus
        BY <3>2, <3>3, <3>7
      <4>2. ASSUME Selected # None, listing[Selected] # "absent" PROVE Selected' = Selected
        <5>1. Selected \in Listed(listing)
          BY <4>2, SelectedNamed, ListedAre
        <5> QED BY <3>4, <3>5, <4>1, <5>1
      <4> QED BY <3>3, <3>7, <4>1, <4>2
    <3> QED BY <3>6, <3>7
  <2>3. ASSUME NEW c \in Calls, Acted(c) PROVE Follows
    <3>1. calls[c].kind \in {"start", "stop", "remove", "create"}
      BY <2>3 DEF Acted
    <3>2. calls[c].name \in Names
      BY <3>1 DEF Steady, Named
    <3>3. rows' = rows /\ focus' \in {focus, calls[c].name}
      BY <2>3 DEF Acted, list
    <3> QED BY <2>1, <3>2, <3>3
  <2>4. CASE UNCHANGED <<rows, focus>>
    BY <2>4
  <2>5. \A c \in Calls : Answer(c) \/ AnswerFails(c) \/ Pulled(c) \/ Sampled(c) \/ RuleWritten(c)
                           => UNCHANGED <<rows, focus>>
    BY DEF Answer, AnswerFails, Pulled, Sampled, RuleWritten, list
  <2>6. Press \/ Tick => UNCHANGED <<rows, focus>>
    BY DEF Press, Move, ToggleSelected, RemoveSelected, RuleForSelected, CreateSandbox, Act, Tick,
           list
  <2>7. \A kind, n : Elsewhere(kind, n) => UNCHANGED <<rows, focus>>
    BY DEF Elsewhere, list
  <2> HIDE DEF Follows
  <2> QED BY <2>2, <2>3, <2>4, <2>5, <2>6, <2>7 DEF Next, Apply
<1>2. Spec => [][Follows]_vars
  BY AlwaysSteady, <1>1, PTL DEF Spec
<1> QED BY <1>2, PTL DEF CursorFollows
=============================================================================
