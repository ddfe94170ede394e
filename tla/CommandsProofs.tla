--------------------------- MODULE CommandsProofs ---------------------------
(***************************************************************************)
(* Proofs about Commands: that a listing is faithful, that a command of    *)
(* several names tells the truth about each, that nothing is removed but   *)
(* what was asked for, that `run` keeps to its own workspace; and, of      *)
(* Wire, that values and errors come over the socket as what they were.    *)
(*                                                                         *)
(* They rest on what a command in between two of its calls knows of what   *)
(* has been since it began (was): each record it is yet to read was there  *)
(* at some time, each that was there all along is yet to be read or has    *)
(* been (Reading); each name it was given is yet to be dealt with, was     *)
(* brought to where it should be, or has failed for a reason (Acting,      *)
(* Removal).  What others do meanwhile only adds to what has been.         *)
(***************************************************************************)
EXTENDS Commands, FiniteSetTheorems, SequenceTheorems, TLAPS

LOCAL INSTANCE SequencesExt


-----------------------------------------------------------------------------
(* What has been while a command ran (was)                                 *)

There(w) == {n \in Names : {<<n, "absent">>, <<n, "gone">>} \cap w = {}}

Ever(w) == {n \in Names : {<<n, "idle">>, <<n, "running">>} \cap w # {}}

Upset(w) == \E n \in Names : <<n, "gone">> \in w

-----------------------------------------------------------------------------
(* What is known of a command, and of what has been while it ran           *)

IsSeq(s) == \E S : s \in Seq(S)

(* It has its fields. *)
Shaped(c) ==
  c = [req |-> c.req, pc |-> c.pc, todo |-> c.todo, unread |-> c.unread, scan |-> c.scan,
       box |-> c.box, found |-> c.found, failed |-> c.failed, excused |-> c.excused,
       asked |-> c.asked, made |-> c.made, joined |-> c.joined, out |-> c.out]

(* It is somewhere its kind of command gets to, with a reference to deal   *)
(* with, or with none if it is about all sandboxes.                        *)
Stages(kind) ==
  {"begin", "done"} \cup
  CASE kind \in Acts -> {"look", "read", "do"}
    [] kind = "rm" -> {"look", "read", "check", "ask", "do"}
    [] kind \in {"ls", "inspect"} -> {"look", "read"}
    [] kind = "ports" -> {"look", "read", "publish"}
    [] kind = "create" -> {"policy", "choose", "pull", "create", "publish"}
    [] kind = "run" -> ({"policy"} \cup Calls) \ {"do", "copy"}
    [] kind = "exec" -> {"look", "read", "exec"}
    [] kind = "forward" -> {"exec"}
    [] kind = "cp" -> {"copy"}

Staged(c) ==
  /\ c.pc \in Stages(c.req.kind)
  /\ c.out \in {"none", "ok", "error"} /\ (c.out # "none" <=> c.pc = "done")
  /\ c.pc = "begin" => c = Idle(c.req)
  /\ c.req.kind = "run" => c.todo = c.req.refs
  /\ c.req.kind = "ls" => c.todo = <<>>
  /\ c.pc \in {"look", "read", "do"} /\ c.todo = <<>> =>
       c.req.kind \in {"ls", "rm"} /\ c.pc # "do"
  /\ c.pc = "read" /\ c.todo # <<>> => Head(c.todo).name = NoName
  /\ c.pc \in {"check", "ask"} => c.found # <<>>

(* A record as the directory has it. *)
HostOf(r) == r.spec.workspaces[1].host

Whole(r) == r = Record(r.spec.name, Box(HostOf(r), r.state.status, r.ports), r.state.status)

(* A sandbox that has been all along, or at all when none was removed, is  *)
(* still for the same directory.                                           *)
Home(n, w, b, path) == n \in There(w) \/ ~Upset(w) => b[n].path = path

(* Of the records: those yet to be read were there, those read were too,   *)
(* and all that were there all along are among them.                       *)
Reading(c, w, b) ==
  c.pc = "read" =>
    /\ IsSeq(c.scan)
    /\ c.unread \subseteq Ever(w)
    /\ \A i \in 1 .. Len(c.scan) :
         /\ Whole(c.scan[i]) /\ c.scan[i].spec.name \in Ever(w)
         /\ Home(c.scan[i].spec.name, w, b, HostOf(c.scan[i]))
    /\ \A n \in There(w) : n \in c.unread \/ \E i \in 1 .. Len(c.scan) : c.scan[i].spec.name = n

Listing(c, w) ==
  c.req.kind = "ls" =>
    /\ c.out = "ok" => There(w) \subseteq Targets(c) /\ Targets(c) \subseteq Ever(w)
    /\ c.out = "error" => c.excused \/ Upset(w)

Goal(c) ==
  CASE c.req.kind = "start" -> "running"
    [] c.req.kind = "stop" -> "idle"
    [] OTHER -> "gone"

(* Why a reference may be reported as failed. *)
Excuse(c, w, r) ==
  \/ c.excused \/ Upset(w)
  \/ r.name = NoName \/ r.name \notin There(w)
  \/ c.req.kind = "rm" /\ <<r.name, "running">> \in w

Acting(c, w) ==
  c.req.kind \in Acts /\ c.pc # "begin" =>
    /\ \A r \in ToSet(c.req.refs) :
         \/ r.name = NoName \/ r \in c.failed \/ <<r.name, Goal(c)>> \in w
         \/ c.pc # "done" /\ r \in ToSet(c.todo)
    /\ c.pc = "do" =>
         c.box.name \in Names /\ (Head(c.todo).name # NoName => Head(c.todo).name = c.box.name)

Removal(c, w) ==
  c.req.kind = "rm" =>
    /\ IsSeq(c.found) /\ \A i \in 1 .. Len(c.found) : c.found[i].name \in Names
    /\ c.pc \notin {"do", "done"} => c.failed = {} /\ c.asked = {}
    /\ c.pc = "do" => \A r \in ToSet(c.todo) : r.name \in c.asked
    /\ c.asked \subseteq Names
    /\ \A n \in c.asked :
         \/ ByName(n) \in c.failed \/ <<n, "gone">> \in w
         \/ c.pc = "do" /\ ByName(n) \in ToSet(c.todo)

(* Of those that failed. *)
Failures(c, w) ==
  c.req.kind \in Acts \cup {"rm"} =>
    /\ \A r \in c.failed : Excuse(c, w, r)
    /\ c.out = "ok" => c.failed = {}

(* `run` makes a sandbox if there was none for its workspace, and opens a  *)
(* session in one that is for it or has the name it was given.             *)
NoneOurs(c, w, b) ==
  c.req.name = NoName /\ ~Upset(w) => \A n \in There(w) : b[n].path # c.req.cwd

IsOurs(c, w, b, n) ==
  /\ n \in Ever(w)
  /\ ~Upset(w) => n = c.req.name \/ b[n].path \in {c.req.cwd, Workspace[c.req.cwd]}

Ours(c, w, b) ==
  c.req.kind = "run" =>
    /\ c.pc \in {"pull", "create"} => NoneOurs(c, w, b)
    /\ c.pc \in {"publish", "boot", "exec"} => IsOurs(c, w, b, c.box.name)

Fine(c, w, b) ==
  /\ Shaped(c) /\ c.req \in Requests /\ c.todo \in Seq(References) /\ Staged(c)
  /\ Reading(c, w, b) /\ Listing(c, w) /\ Acting(c, w) /\ Removal(c, w)
  /\ Failures(c, w) /\ Ours(c, w, b)

(* While a command runs, what is there has been seen, and so has that what *)
(* is not there any more has gone.                                         *)
Seen(n, w, b) ==
  /\ b[n] # Gone => <<n, b[n].status>> \in w
  /\ b[n] = Gone => n \notin There(w) /\ (n \in Ever(w) => <<n, "gone">> \in w)

Sound(b) ==
  /\ b = [n \in Names |-> b[n]]
  /\ \A n \in Names :
       /\ b[n] = Box(b[n].path, b[n].status, b[n].ports)
       /\ b[n] # Gone => b[n].status \in {"idle", "running"}

Truthful ==
  /\ Sound(boxes)
  /\ cmd = [p \in Processes |-> cmd[p]] /\ was = [p \in Processes |-> was[p]]
  /\ \A p \in Processes : Fine(cmd[p], was[p], boxes)
  /\ \A p \in Processes, n \in Names : cmd[p].pc \notin {"begin", "done"} => Seen(n, was[p], boxes)

-----------------------------------------------------------------------------
(* Sequences and places                                                    *)

Before(at, i) == {j \in at : j < i}

(* A set of places that is not empty has a first one: were there some      *)
(* before each, their numbers would be too few to tell the places apart.   *)
LEMMA FirstPlace ==
  ASSUME NEW n \in Nat, NEW at \in SUBSET (1 .. n), at # {}
  PROVE  \E i \in at : \A j \in at : i <= j
<1>1. IsFiniteSet(at) /\ Cardinality(at) \in Nat
  <2>1. IsFiniteSet(1 .. n)
    BY FS_Interval
  <2> QED BY <2>1, FS_Subset, FS_CardinalityType
<1>2. \A i \in at : /\ IsFiniteSet(Before(at, i))
                    /\ Cardinality(Before(at, i)) \in Nat
                    /\ Cardinality(Before(at, i)) < Cardinality(at)
  <2> SUFFICES ASSUME NEW i \in at
               PROVE  /\ IsFiniteSet(Before(at, i))
                      /\ Cardinality(Before(at, i)) \in Nat
                      /\ Cardinality(Before(at, i)) < Cardinality(at)
    OBVIOUS
  <2>1. Before(at, i) \in SUBSET at
    BY DEF Before
  <2>2. i \in at \ Before(at, i)
    BY DEF Before
  <2>3. at # Before(at, i)
    BY <2>2
  <2> QED BY <1>1, <2>1, <2>3, FS_Subset, FS_CardinalityType
<1>3. ASSUME NEW i \in at, NEW k \in at, i < k
      PROVE  Cardinality(Before(at, i)) < Cardinality(Before(at, k))
  <2>1. Before(at, i) \in SUBSET Before(at, k)
    <3>1. \A j \in at : j \in Int
      OBVIOUS
    <3>2. \A j \in at : j < i => j < k
      BY <1>3, <3>1
    <3> QED BY <3>2 DEF Before
  <2>2. i \in Before(at, k) /\ i \notin Before(at, i)
    BY <1>3 DEF Before
  <2>3. Before(at, i) # Before(at, k)
    BY <2>2
  <2> QED BY <1>2, <2>1, <2>3, FS_Subset
<1>4. \A i, k \in at : Cardinality(Before(at, i)) = Cardinality(Before(at, k)) => i = k
  <2> SUFFICES ASSUME NEW i \in at, NEW k \in at,
                      Cardinality(Before(at, i)) = Cardinality(Before(at, k))
               PROVE  i = k
    OBVIOUS
  <2>1. i < k \/ k < i \/ i = k
    OBVIOUS
  <2> QED BY <1>2, <1>3, <2>1
<1>5. \E i \in at : Cardinality(Before(at, i)) = 0
  <2> SUFFICES ASSUME \A i \in at : Cardinality(Before(at, i)) # 0 PROVE FALSE
    OBVIOUS
  <2> DEFINE f == [i \in at |-> Cardinality(Before(at, i))]
  <2>1. PICK size \in Nat : size = Cardinality(at)
    BY <1>1
  <2>2. f \in [at -> 1 .. size - 1]
    BY <1>2, <2>1
  <2>3. size # 0
    BY <1>1, <2>1, FS_EmptySet
  <2>4. IsFiniteSet(1 .. size - 1) /\ Cardinality(1 .. size - 1) = size - 1
    BY <2>3, FS_Interval
  <2>5. Cardinality(1 .. size - 1) < Cardinality(at)
    BY <2>1, <2>3, <2>4
  <2> HIDE DEF f
  <2>6. \E i, k \in at : i # k /\ f[i] = f[k]
    BY <1>1, <2>2, <2>4, <2>5, FS_PigeonHole
  <2> QED BY <1>4, <2>6 DEF f
<1>6. PICK i \in at : Cardinality(Before(at, i)) = 0
  BY <1>5
<1>7. Before(at, i) = {}
  BY <1>2, <1>6, FS_EmptySet
<1> QED BY <1>7 DEF Before

LEMMA EarliestIsOne ==
  ASSUME NEW S, S \subseteq Names, S # {}
  PROVE  Earliest(S) \in S
<1> DEFINE P == {i \in 1 .. Len(Order) : Order[i] \in S}
<1>1. P \in SUBSET (1 .. Len(Order)) /\ P # {} /\ Len(Order) \in Nat
  <2>1. Len(Order) \in Nat /\ DOMAIN Order = 1 .. Len(Order)
    BY CommandsAssumption, LenProperties
  <2> QED BY <2>1 DEF Names, ToSet
<1>2. PICK i \in P : \A j \in P : i <= j
  BY <1>1, FirstPlace
<1>3. Order[i] \in S /\ \A k \in 1 .. i - 1 : Order[k] \notin S
  <2>1. ASSUME NEW k \in 1 .. i - 1, Order[k] \in S PROVE FALSE
    <3>1. k \in P /\ ~(i <= k)
      BY <1>2, <2>1
    <3> QED BY <1>2, <3>1
  <2> QED BY <1>2, <2>1
<1> QED BY <1>2, <1>3 DEF Earliest

LEMMA RangeSplits ==
  ASSUME NEW S, NEW s \in Seq(S), s # <<>>
  PROVE  /\ \A r \in ToSet(s) : r = Head(s) \/ r \in ToSet(Tail(s))
         /\ ToSet(Tail(s)) \subseteq ToSet(s)
         /\ Head(s) \in S /\ Head(s) \in ToSet(s) /\ Tail(s) \in Seq(S)
<1>1. /\ Len(s) \in Nat \ {0} /\ Head(s) = s[1] /\ Len(Tail(s)) = Len(s) - 1
      /\ \A i \in 1 .. Len(Tail(s)) : Tail(s)[i] = s[i + 1]
      /\ Head(s) \in S /\ Tail(s) \in Seq(S)
  BY HeadTailProperties, LenProperties, EmptySeq
<1>2. ASSUME NEW r \in ToSet(s) PROVE r = Head(s) \/ r \in ToSet(Tail(s))
  <2>1. PICK i \in 1 .. Len(s) : r = s[i]
    BY DEF ToSet
  <2>2. CASE i = 1
    BY <1>1, <2>1, <2>2
  <2>3. CASE i # 1
    <3>1. i - 1 \in 1 .. Len(Tail(s)) /\ (i - 1) + 1 = i
      BY <1>1, <2>3
    <3>2. Tail(s)[i - 1] = r
      BY <1>1, <2>1, <3>1
    <3>3. \E j \in 1 .. Len(Tail(s)) : Tail(s)[j] = r
      BY <3>1, <3>2
    <3> QED BY <1>1, <3>3, LenProperties DEF ToSet
  <2> QED BY <2>2, <2>3
<1>3. ToSet(Tail(s)) \subseteq ToSet(s)
  <2>1. \A i \in 1 .. Len(Tail(s)) : i + 1 \in 1 .. Len(s) /\ Tail(s)[i] = s[i + 1]
    BY <1>1
  <2> QED BY <2>1 DEF ToSet
<1>4. Head(s) \in ToSet(s)
  BY <1>1 DEF ToSet
<1> QED BY <1>1, <1>2, <1>3, <1>4

LEMMA Appended ==
  ASSUME NEW s, IsSeq(s), NEW e
  PROVE  /\ IsSeq(Append(s, e)) /\ Len(s) \in Nat /\ Len(Append(s, e)) = Len(s) + 1
         /\ \A i \in 1 .. Len(s) : Append(s, e)[i] = s[i]
         /\ Append(s, e)[Len(s) + 1] = e
<1>1. PICK S : s \in Seq(S)
  BY DEF IsSeq
<1>2. s \in Seq(S \cup {e}) /\ e \in S \cup {e}
  <2>1. S \subseteq S \cup {e}
    OBVIOUS
  <2>2. Len(s) \in Nat /\ s \in [1 .. Len(s) -> S]
    BY <1>1, LenProperties
  <2> QED BY <1>1, <2>1, <2>2, SeqDef
<1>3. Append(s, e) \in Seq(S \cup {e})
  BY <1>2, AppendProperties
<1> QED BY <1>2, <1>3, AppendProperties, LenProperties DEF IsSeq

-----------------------------------------------------------------------------
(* Errors and sandboxes that cross the socket                              *)

LEMMA KindsAre ==
  Kinds = {"NotFound", "Exists", "Running", "NotImplemented", "NoPolicy", "PortsUnavailable",
           "CloneFailed", "RemoteNotAdded", "Canceled", "DeadlineExceeded"}
<1>1. Len(Sentinels) = 10
  BY DEF Sentinels
<1>2. \A i \in 1 .. 10 : i \in {1, 2, 3, 4, 5, 6, 7, 8, 9, 10}
  OBVIOUS
<1> QED BY <1>1, <1>2 DEF Kinds, Sentinels, Sentinel

(* Every sentinel has a code of its own.                                   *)
LEMMA CodesDiffer ==
  /\ Len(Sentinels) = 10
  /\ \A i, j \in 1 .. 10 : Sentinels[i].code = Sentinels[j].code => i = j
  /\ \A i \in 1 .. 10 : Sentinels[i].code \notin {"OK", "Unknown"} /\ Sentinels[i].err \in Kinds
<1>1. Len(Sentinels) = 10
  BY DEF Sentinels
<1>2. \A i \in 1 .. 10 : i \in {1, 2, 3, 4, 5, 6, 7, 8, 9, 10}
  OBVIOUS
<1>3. \A i, j \in 1 .. 10 : Sentinels[i].code = Sentinels[j].code => i = j
  BY <1>2 DEF Sentinels, Sentinel
<1>4. \A i \in 1 .. 10 : Sentinels[i].code \notin {"OK", "Unknown"}
  BY <1>2 DEF Sentinels, Sentinel
<1> QED BY <1>1, <1>3, <1>4 DEF Kinds

(* An error comes over as the first of what it is.                         *)
LEMMA FirstComesOver ==
  ASSUME NEW err \in SUBSET Kinds
  PROVE  IF err = {} THEN Over(err) = {} ELSE \E kind \in err : Over(err) = {kind}
<1>1. err # NoError
  BY WireAssumption
<1>2. CASE err = {}
  <2>1. WireError(err) = "Unknown"
    BY <1>1, <1>2 DEF WireError
  <2>2. LocalError("Unknown") = {}
    BY CodesDiffer DEF LocalError
  <2> QED BY <1>2, <2>1, <2>2 DEF Over
<1>3. CASE err # {}
  <2> DEFINE In(s) == s.err \in err
             at == {i \in 1 .. 10 : In(Sentinels[i])}
  <2>1. at # {} /\ at \in SUBSET (1 .. 10)
    BY <1>3, CodesDiffer DEF Kinds
  <2>2. PICK i \in at : \A j \in at : i <= j
    BY <2>1, FirstPlace
  <2>3. \A k \in 1 .. i - 1 : ~In(Sentinels[k])
    BY <2>2
  <2>4. PICK f : f = FirstOf(In)
    OBVIOUS
  <2>5. f \in 1 .. 10 /\ Sentinels[f].err \in err
    BY <2>2, <2>3, <2>4, CodesDiffer DEF FirstOf
  <2>6. PICK code : code = Sentinels[f].code
    OBVIOUS
  <2>7. WireError(err) = code
    BY <1>1, <1>3, <2>4, <2>6 DEF WireError
  <2> DEFINE Is(s) == s.code = code
  <2>8. \A k \in 1 .. 10 : Is(Sentinels[k]) <=> k = f
    BY <2>5, <2>6, CodesDiffer
  <2>9. FirstOf(Is) = f
    BY <2>5, <2>8, CodesDiffer DEF FirstOf
  <2>10. LocalError(code) = {Sentinels[f].err}
    BY <2>5, <2>6, <2>9, CodesDiffer DEF LocalError
  <2> QED BY <1>3, <2>5, <2>7, <2>10 DEF Over
<1> QED BY <1>2, <1>3

(* Ports that could not be published come over as that, and success as     *)
(* success.                                                                *)
LEMMA PortsComeOver ==
  CarryDone(NoError) = NoError /\ CarryDone({"PortsUnavailable"}) = {"PortsUnavailable"}
<1>1. Over(NoError) = NoError
  BY DEF Over, WireError, LocalError
<1>2. {"PortsUnavailable"} \in SUBSET Kinds
  BY KindsAre
<1>3. Over({"PortsUnavailable"}) = {"PortsUnavailable"}
  BY <1>2, FirstComesOver
<1> QED BY <1>1, <1>3 DEF CarryDone

(* A sandbox is told of by its name. *)
LEMMA ToldByName ==
  ASSUME NEW n, NEW box, NEW status
  PROVE  /\ CarrySandbox(Reply(Record(n, box, status), NoError)).err = NoError
         /\ Told(CarrySandbox(Reply(Record(n, box, status), NoError)).value).name = n
         /\ Record(n, box, status).spec.name = n
         /\ \E now : Observed(Record(n, box, status)) = Record(n, box, now)
<1>1. PICK r : r = Record(n, box, status)
  OBVIOUS
<1>2. /\ r = [spec |-> r.spec, state |-> r.state, ports |-> r.ports] /\ r.spec.name = n
  BY <1>1 DEF Record, ZeroSpec
<1>3. ApiSandbox(ProtoSandbox(r)).spec.name = n
  BY <1>2 DEF ApiSandbox, ProtoSandbox, Nil, ProtoSpec, ApiSpec
<1>4. \E now : Observed(r) = Record(n, box, now)
  <2>1. PICK now : now = IF Exists(r.spec.name) THEN boxes[r.spec.name].status ELSE "missing"
    OBVIOUS
  <2>2. Observed(r) = [r EXCEPT !.state.status = now]
    BY <2>1 DEF Observed
  <2>3. Observed(r) = [r EXCEPT !.state = [r.state EXCEPT !.status = now]]
    BY <1>2, <2>2
  <2>4. [r.state EXCEPT !.status = now] = [ZeroState EXCEPT !.status = now]
    BY <1>1 DEF Record, ZeroState
  <2>5. Observed(r) = Record(n, box, now)
    BY <1>1, <1>2, <2>3, <2>4 DEF Record
  <2> QED BY <2>5
<1>5. CarrySandbox(Reply(r, NoError)) = Reply(ApiSandbox(ProtoSandbox(r)), NoError)
  BY DEF CarrySandbox, Reply
<1> QED BY <1>1, <1>2, <1>3, <1>4, <1>5 DEF Told, Reply

-----------------------------------------------------------------------------
(* What others do meanwhile                                                *)

(* More has been, and what has been all along, or at all when nothing was  *)
(* removed, is still for the same directory.                               *)
Later(w, b, w2, b2) ==
  /\ w \subseteq w2
  /\ \A n \in Names :
       n \in There(w2) \/ (n \in Ever(w) /\ ~Upset(w2)) => b2[n].path = b[n].path

LEMMA Grown ==
  ASSUME NEW w, NEW w2, w \subseteq w2
  PROVE  There(w2) \subseteq There(w) /\ Ever(w) \subseteq Ever(w2) /\ (Upset(w) => Upset(w2))
BY DEF There, Ever, Upset

LEMMA StillHome ==
  ASSUME NEW n \in Names, NEW w, NEW b, NEW w2, NEW b2, NEW path,
         Later(w, b, w2, b2), n \in Ever(w), Home(n, w, b, path)
  PROVE  Home(n, w2, b2, path)
BY Grown DEF Home, Later

LEMMA EverNamed ==
  ASSUME NEW w PROVE Ever(w) \subseteq Names /\ There(w) \subseteq Names
BY DEF Ever, There

(* What is known of a command stays so.                                    *)
LEMMA GoesOn ==
  ASSUME NEW c, NEW w, NEW b, NEW w2, NEW b2, Fine(c, w, b), Later(w, b, w2, b2)
  PROVE  Fine(c, w2, b2)
<1>1. /\ There(w2) \subseteq There(w) /\ Ever(w) \subseteq Ever(w2) /\ (Upset(w) => Upset(w2))
      /\ w \subseteq w2 /\ Ever(w) \subseteq Names /\ There(w2) \subseteq Names
  BY Grown, EverNamed DEF Later
<1>2. Reading(c, w2, b2)
  <2> SUFFICES ASSUME c.pc = "read" PROVE Reading(c, w2, b2)
    BY DEF Reading
  <2>1. Reading(c, w, b)
    BY DEF Fine
  <2>2. ASSUME NEW i \in 1 .. Len(c.scan)
        PROVE  /\ Whole(c.scan[i]) /\ c.scan[i].spec.name \in Ever(w2)
               /\ Home(c.scan[i].spec.name, w2, b2, HostOf(c.scan[i]))
    BY <1>1, <2>1, StillHome DEF Reading
  <2> QED BY <1>1, <2>1, <2>2 DEF Reading
<1>3. Listing(c, w2)
  BY <1>1 DEF Fine, Listing
<1>4. Acting(c, w2)
  BY <1>1 DEF Fine, Acting
<1>5. Removal(c, w2)
  BY <1>1 DEF Fine, Removal
<1>6. Failures(c, w2)
  BY <1>1 DEF Fine, Failures, Excuse
<1>7. Ours(c, w2, b2)
  <2> SUFFICES ASSUME c.req.kind = "run" PROVE Ours(c, w2, b2)
    BY DEF Ours
  <2>1. Ours(c, w, b)
    BY DEF Fine
  <2>2. NoneOurs(c, w, b) => NoneOurs(c, w2, b2)
    BY <1>1 DEF NoneOurs, Later
  <2>3. IsOurs(c, w, b, c.box.name) => IsOurs(c, w2, b2, c.box.name)
    BY <1>1 DEF IsOurs, Later
  <2> QED BY <2>1, <2>2, <2>3 DEF Ours
<1> QED BY <1>2, <1>3, <1>4, <1>5, <1>6, <1>7 DEF Fine

-----------------------------------------------------------------------------
(* How a command goes on                                                   *)

-----------------------------------------------------------------------------
(* How a command goes on                                                   *)

LEMMA StageIs ==
  \A kind \in Kind : /\ "done" \in Stages(kind)
                     /\ kind = "run" => kind \notin Acts \cup {"rm", "ls"}
                     /\ kind \in Acts \cup {"rm", "ls"} => kind # "run"
BY DEF Stages, Kind, Acts

(* It ends. *)
LEMMA EndedFine ==
  ASSUME NEW c, NEW w, NEW b, NEW out \in {"ok", "error"}, Fine(c, w, b),
         c.req.kind = "ls" =>
           /\ out = "ok" => There(w) \subseteq Targets(c) /\ Targets(c) \subseteq Ever(w)
           /\ out = "error" => c.excused \/ Upset(w),
         c.req.kind \in Acts =>
           \A r \in ToSet(c.req.refs) :
             r.name = NoName \/ r \in c.failed \/ <<r.name, Goal(c)>> \in w,
         c.req.kind = "rm" =>
           \A n \in c.asked : ByName(n) \in c.failed \/ <<n, "gone">> \in w,
         c.req.kind = "rm" => c.pc = "do" \/ (c.failed = {} /\ c.asked = {}),
         c.req.kind \in Acts \cup {"rm"} /\ out = "ok" => c.failed = {}
  PROVE  Fine(Ended(c, out), w, b)
<1> DEFINE d == Ended(c, out)
<1>1. PICK e : e = d
  OBVIOUS
<1>2. e = [c EXCEPT !.pc = "done", !.out = out]
  BY <1>1 DEF Ended
<1>3. Shaped(c)
  BY DEF Fine
<1>4. /\ Shaped(e) /\ e.req = c.req /\ e.pc = "done" /\ e.todo = c.todo /\ e.found = c.found
      /\ e.failed = c.failed /\ e.excused = c.excused /\ e.asked = c.asked /\ e.out = out
  BY <1>2, <1>3 DEF Shaped
<1>5. e.req \in Requests /\ e.todo \in Seq(References) /\ c.req.kind \in Kind
  BY <1>4 DEF Fine, Requests
<1>6. Staged(e)
  BY <1>4, <1>5, StageIs DEF Fine, Staged
<1>7. Reading(e, w, b) /\ Ours(e, w, b)
  BY <1>4 DEF Reading, Ours
<1>8. Listing(e, w)
  BY <1>4 DEF Listing, Targets
<1>9. Acting(e, w)
  BY <1>4 DEF Acting, Goal
<1>10. Removal(e, w)
  BY <1>4 DEF Fine, Removal
<1>11. Failures(e, w)
  BY <1>4 DEF Fine, Failures, Excuse
<1> QED BY <1>1, <1>4, <1>5, <1>6, <1>7, <1>8, <1>9, <1>10, <1>11 DEF Fine

(* It goes on to another call. *)
LEMMA GoesFine ==
  ASSUME NEW c, NEW w, NEW b, NEW pc, Fine(c, w, b),
         c.pc \notin {"begin", "done"}, pc \in Stages(c.req.kind) \ {"begin", "done", "read"},
         pc \in {"look", "do"} => c.todo # <<>>,
         pc \in {"check", "ask"} => c.found # <<>>,
         c.req.kind \in Acts /\ pc = "do" =>
           c.box.name \in Names /\ (Head(c.todo).name # NoName => Head(c.todo).name = c.box.name),
         c.req.kind = "rm" => pc # "do" /\ c.pc # "do",
         c.req.kind = "run" /\ pc \in {"pull", "create"} => NoneOurs(c, w, b),
         c.req.kind = "run" /\ pc \in {"publish", "boot", "exec"} => IsOurs(c, w, b, c.box.name)
  PROVE  Fine(Goes(c, pc), w, b)
<1>1. PICK e : e = Goes(c, pc)
  OBVIOUS
<1>2. e = [c EXCEPT !.pc = pc]
  BY <1>1 DEF Goes
<1>3. Shaped(c)
  BY DEF Fine
<1>4. /\ Shaped(e) /\ e.req = c.req /\ e.pc = pc /\ e.todo = c.todo /\ e.found = c.found
      /\ e.failed = c.failed /\ e.excused = c.excused /\ e.asked = c.asked /\ e.out = c.out
      /\ e.box = c.box
  BY <1>2, <1>3 DEF Shaped
<1>5. e.req \in Requests /\ e.todo \in Seq(References) /\ c.req.kind \in Kind
  BY <1>4 DEF Fine, Requests
<1>6. Staged(e)
  BY <1>4, <1>5, StageIs DEF Fine, Staged
<1>7. Reading(e, w, b)
  BY <1>4 DEF Reading
<1>8. Ours(e, w, b)
  BY <1>4 DEF Ours, NoneOurs, IsOurs
<1>9. Listing(e, w)
  BY <1>4, <1>6 DEF Listing, Staged
<1>10. Acting(e, w)
  BY <1>4 DEF Fine, Acting, Goal
<1>11. Removal(e, w)
  BY <1>4 DEF Fine, Removal
<1>12. Failures(e, w)
  BY <1>4 DEF Fine, Failures, Excuse
<1> QED BY <1>1, <1>4, <1>5, <1>6, <1>7, <1>8, <1>9, <1>10, <1>11, <1>12 DEF Fine

(* It has a sandbox. *)
LEMMA BoxFine ==
  ASSUME NEW c, NEW w, NEW b, NEW box, Fine(c, w, b),
         c.pc \notin {"begin", "do", "publish", "boot", "exec"}
  PROVE  Fine([c EXCEPT !.box = box], w, b)
<1>1. PICK e : e = [c EXCEPT !.box = box]
  OBVIOUS
<1>2. /\ Shaped(e) /\ e.req = c.req /\ e.pc = c.pc /\ e.todo = c.todo /\ e.found = c.found
      /\ e.failed = c.failed /\ e.excused = c.excused /\ e.asked = c.asked /\ e.out = c.out
      /\ e.unread = c.unread /\ e.scan = c.scan
  <2>1. Shaped(c) /\ c.req \in Requests /\ c.todo \in Seq(References)
    BY DEF Fine
  <2> QED BY <1>1, <2>1 DEF Shaped
<1>3. Staged(e)
  BY <1>2 DEF Fine, Staged
<1>4. Reading(e, w, b)
  BY <1>2 DEF Fine, Reading
<1>5. Ours(e, w, b)
  BY <1>2 DEF Fine, Ours, NoneOurs, IsOurs
<1>6. Listing(e, w)
  BY <1>2 DEF Fine, Listing, Targets
<1>7. Acting(e, w)
  BY <1>2 DEF Fine, Acting, Goal
<1>8. Removal(e, w)
  BY <1>2 DEF Fine, Removal
<1>9. Failures(e, w)
  BY <1>2 DEF Fine, Failures, Excuse
<1> QED BY <1>1, <1>2, <1>3, <1>4, <1>5, <1>6, <1>7, <1>8, <1>9 DEF Fine

(* The service failed a call of it without a reason. *)
LEMMA ExcusedFine ==
  ASSUME NEW c, NEW w, NEW b, NEW excused, Fine(c, w, b), c.pc # "begin", c.excused => excused
  PROVE  Fine([c EXCEPT !.excused = excused], w, b)
<1>1. PICK e : e = [c EXCEPT !.excused = excused]
  OBVIOUS
<1>2. /\ Shaped(e) /\ e.req = c.req /\ e.pc = c.pc /\ e.todo = c.todo /\ e.found = c.found
      /\ e.failed = c.failed /\ e.excused = excused /\ e.asked = c.asked /\ e.out = c.out
      /\ e.unread = c.unread /\ e.scan = c.scan /\ e.box = c.box
  <2>1. Shaped(c) /\ c.req \in Requests /\ c.todo \in Seq(References)
    BY DEF Fine
  <2> QED BY <1>1, <2>1 DEF Shaped
<1>3. Staged(e)
  BY <1>2 DEF Fine, Staged
<1>4. Reading(e, w, b)
  BY <1>2 DEF Fine, Reading
<1>5. Ours(e, w, b)
  BY <1>2 DEF Fine, Ours, NoneOurs, IsOurs
<1>6. Listing(e, w)
  BY <1>2 DEF Fine, Listing, Targets
<1>7. Acting(e, w)
  BY <1>2 DEF Fine, Acting, Goal
<1>8. Removal(e, w)
  BY <1>2 DEF Fine, Removal
<1>9. Failures(e, w)
  BY <1>2 DEF Fine, Failures, Excuse
<1> QED BY <1>1, <1>2, <1>3, <1>4, <1>5, <1>6, <1>7, <1>8, <1>9 DEF Fine

(* One of its references failed, for a reason. *)
LEMMA FailedFine ==
  ASSUME NEW c, NEW w, NEW b, NEW r, Fine(c, w, b), c.pc \notin {"begin", "done"},
         Excuse(c, w, r), c.req.kind = "rm" => c.pc = "do"
  PROVE  Fine([c EXCEPT !.failed = @ \cup {r}], w, b)
<1>1. PICK e : e = [c EXCEPT !.failed = c.failed \cup {r}]
  OBVIOUS
<1>2. /\ Shaped(e) /\ e.req = c.req /\ e.pc = c.pc /\ e.todo = c.todo /\ e.found = c.found
      /\ e.failed = c.failed \cup {r} /\ e.excused = c.excused /\ e.asked = c.asked
      /\ e.out = c.out /\ e.unread = c.unread /\ e.scan = c.scan /\ e.box = c.box
  <2>1. Shaped(c) /\ c.req \in Requests /\ c.todo \in Seq(References)
    BY DEF Fine
  <2> QED BY <1>1, <2>1 DEF Shaped
<1>3. Staged(e) /\ c.out = "none"
  BY <1>2 DEF Fine, Staged
<1>4. Reading(e, w, b)
  BY <1>2 DEF Fine, Reading
<1>5. Ours(e, w, b)
  BY <1>2 DEF Fine, Ours, NoneOurs, IsOurs
<1>6. Listing(e, w)
  BY <1>2 DEF Fine, Listing, Targets
<1>7. Acting(e, w)
  BY <1>2 DEF Fine, Acting, Goal
<1>8. Removal(e, w)
  BY <1>2 DEF Fine, Removal
<1>9. Failures(e, w)
  BY <1>2, <1>3 DEF Fine, Failures, Excuse
<1>10. Fine(e, w, b)
  BY <1>2, <1>3, <1>4, <1>5, <1>6, <1>7, <1>8, <1>9 DEF Fine
<1>11. e = [c EXCEPT !.failed = @ \cup {r}]
  BY <1>1
<1> QED BY <1>10, <1>11

(* It has found what it was looking for, and goes by other fields.         *)
LEMMA FoundFine ==
  ASSUME NEW c, NEW w, NEW b, NEW found, Fine(c, w, b), c.pc = "read",
         IsSeq(found), \A i \in 1 .. Len(found) : found[i].name \in Names
  PROVE  Fine([c EXCEPT !.found = found], w, b)
<1>1. PICK e : e = [c EXCEPT !.found = found]
  OBVIOUS
<1>2. /\ Shaped(e) /\ e.req = c.req /\ e.pc = c.pc /\ e.todo = c.todo /\ e.found = found
      /\ e.failed = c.failed /\ e.excused = c.excused /\ e.asked = c.asked /\ e.out = c.out
      /\ e.unread = c.unread /\ e.scan = c.scan /\ e.box = c.box
  <2>1. Shaped(c)
    BY DEF Fine
  <2> QED BY <1>1, <2>1 DEF Shaped
<1>3. Staged(e) /\ c.out = "none"
  BY <1>2 DEF Fine, Staged
<1>4. Reading(e, w, b)
  BY <1>2 DEF Fine, Reading
<1>5. Ours(e, w, b)
  BY <1>2 DEF Ours
<1>6. Listing(e, w)
  BY <1>2, <1>3 DEF Listing
<1>7. Acting(e, w)
  BY <1>2 DEF Fine, Acting, Goal
<1>8. Removal(e, w)
  BY <1>2 DEF Fine, Removal
<1>9. Failures(e, w)
  BY <1>2 DEF Fine, Failures, Excuse
<1> QED BY <1>1, <1>2, <1>3, <1>4, <1>5, <1>6, <1>7, <1>8, <1>9 DEF Fine

(* What it made and where it has a session is of no consequence.           *)
LEMMA MadeFine ==
  ASSUME NEW c, NEW w, NEW b, NEW made, NEW joined, Fine(c, w, b), c.pc # "begin"
  PROVE  Fine([c EXCEPT !.made = made], w, b) /\ Fine([c EXCEPT !.joined = joined], w, b)
<1>0. Shaped(c)
  BY DEF Fine
<1>1. ASSUME NEW e, Shaped(e) /\ e.req = c.req /\ e.pc = c.pc /\ e.todo = c.todo /\ e.found = c.found
      /\ e.failed = c.failed /\ e.excused = c.excused /\ e.asked = c.asked /\ e.out = c.out
      /\ e.unread = c.unread /\ e.scan = c.scan /\ e.box = c.box
      PROVE  Fine(e, w, b)
  <2>3. Staged(e)
    BY <1>1 DEF Fine, Staged
  <2>4. Reading(e, w, b)
    BY <1>1 DEF Fine, Reading
  <2>5. Ours(e, w, b)
    BY <1>1 DEF Fine, Ours, NoneOurs, IsOurs
  <2>6. Listing(e, w)
    BY <1>1 DEF Fine, Listing, Targets
  <2>7. Acting(e, w)
    BY <1>1 DEF Fine, Acting, Goal
  <2>8. Removal(e, w)
    BY <1>1 DEF Fine, Removal
  <2>9. Failures(e, w)
    BY <1>1 DEF Fine, Failures, Excuse
  <2> QED BY <1>1, <2>3, <2>4, <2>5, <2>6, <2>7, <2>8, <2>9 DEF Fine
<1>2. PICK e : e = [c EXCEPT !.made = made]
  OBVIOUS
<1>3. PICK f : f = [c EXCEPT !.joined = joined]
  OBVIOUS
<1>4. Fine(e, w, b)
  <2>1. /\ Shaped(e) /\ e.req = c.req /\ e.pc = c.pc /\ e.todo = c.todo /\ e.found = c.found
        /\ e.failed = c.failed /\ e.excused = c.excused /\ e.asked = c.asked /\ e.out = c.out
        /\ e.unread = c.unread /\ e.scan = c.scan /\ e.box = c.box
    BY <1>0, <1>2 DEF Shaped
  <2> QED BY <1>1, <2>1
<1>5. Fine(f, w, b)
  <2>1. /\ Shaped(f) /\ f.req = c.req /\ f.pc = c.pc /\ f.todo = c.todo /\ f.found = c.found
        /\ f.failed = c.failed /\ f.excused = c.excused /\ f.asked = c.asked /\ f.out = c.out
        /\ f.unread = c.unread /\ f.scan = c.scan /\ f.box = c.box
    BY <1>0, <1>3 DEF Shaped
  <2> QED BY <1>1, <2>1
<1> QED BY <1>2, <1>3, <1>4, <1>5

(* Where commands of each kind get to. *)
LEMMA WhichStages ==
  \A kind \in Kind :
    /\ "do" \in Stages(kind) => kind \in Acts \cup {"rm"}
    /\ \A pc \in {"look", "read"} : pc \in Stages(kind) <=> kind \notin {"create", "forward", "cp"}
    /\ \A pc \in {"check", "ask"} : pc \in Stages(kind) <=> kind = "rm"
    /\ \A pc \in {"policy", "choose", "pull", "create"} : pc \in Stages(kind) <=> kind \in {"run", "create"}
    /\ "publish" \in Stages(kind) <=> kind \in {"ports", "create", "run"}
    /\ "boot" \in Stages(kind) <=> kind = "run"
    /\ "exec" \in Stages(kind) <=> kind \in {"exec", "forward", "run"}
    /\ "copy" \in Stages(kind) => kind = "cp"
    /\ kind \in Acts => Stages(kind) = {"begin", "done", "look", "read", "do"}
    /\ kind = "rm" => Stages(kind) = {"begin", "done", "look", "read", "check", "ask", "do"}
    /\ kind = "ls" => Stages(kind) = {"begin", "done", "look", "read"}
<1> SUFFICES ASSUME NEW kind \in Kind
             PROVE  /\ "do" \in Stages(kind) => kind \in Acts \cup {"rm"}
                    /\ \A pc \in {"look", "read"} : pc \in Stages(kind) <=> kind \notin {"create", "forward", "cp"}
                    /\ \A pc \in {"check", "ask"} : pc \in Stages(kind) <=> kind = "rm"
                    /\ \A pc \in {"policy", "choose", "pull", "create"} : pc \in Stages(kind) <=> kind \in {"run", "create"}
                    /\ "publish" \in Stages(kind) <=> kind \in {"ports", "create", "run"}
                    /\ "boot" \in Stages(kind) <=> kind = "run"
                    /\ "exec" \in Stages(kind) <=> kind \in {"exec", "forward", "run"}
                    /\ "copy" \in Stages(kind) => kind = "cp"
                    /\ kind \in Acts => Stages(kind) = {"begin", "done", "look", "read", "do"}
                    /\ kind = "rm" => Stages(kind) = {"begin", "done", "look", "read", "check", "ask", "do"}
                    /\ kind = "ls" => Stages(kind) = {"begin", "done", "look", "read"}
  OBVIOUS
<1>1. CASE kind \in Acts
  BY <1>1 DEF Stages, Acts
<1>2. CASE kind \in {"rm", "ls", "inspect", "ports"}
  BY <1>2 DEF Stages, Acts
<1>3. CASE kind \in {"create", "run", "exec"}
  BY <1>3 DEF Stages, Acts, Calls
<1>4. CASE kind \in {"forward", "cp"}
  BY <1>4 DEF Stages, Acts
<1> QED BY <1>1, <1>2, <1>3, <1>4 DEF Kind, Acts

(* One reference of several has been dealt with: the next, or the end.     *)
LEMMA OnToNextFine ==
  ASSUME NEW c, NEW w, NEW b, Fine(c, w, b), c.req.kind \in Acts \cup {"rm"},
         c.pc \in {"look", "read", "do"}, c.req.kind = "rm" => c.pc = "do", c.todo # <<>>,
         Head(c.todo).name = NoName \/ Head(c.todo) \in c.failed
           \/ <<Head(c.todo).name, Goal(c)>> \in w
  PROVE  Fine(OnToNext(c), w, b)
<1>1. /\ \A r \in ToSet(c.todo) : r = Head(c.todo) \/ r \in ToSet(Tail(c.todo))
      /\ ToSet(Tail(c.todo)) \subseteq ToSet(c.todo) /\ Tail(c.todo) \in Seq(References)
      /\ Head(c.todo) \in References
  BY RangeSplits DEF Fine
<1>2. /\ Shaped(c) /\ c.req \in Requests /\ Staged(c) /\ Acting(c, w) /\ Removal(c, w)
      /\ Failures(c, w) /\ c.req.kind \in Kind
  BY DEF Fine, Requests
<1>3. \A n \in c.asked : \/ ByName(n) \in c.failed \/ <<n, "gone">> \in w
                         \/ c.req.kind = "rm" => ByName(n) \in ToSet(Tail(c.todo))
  <2> SUFFICES ASSUME c.req.kind = "rm", NEW n \in c.asked, ByName(n) \in ToSet(c.todo),
                      ByName(n) \notin ToSet(Tail(c.todo))
               PROVE  ByName(n) \in c.failed \/ <<n, "gone">> \in w
    BY <1>2 DEF Removal
  <2>1. ByName(n) = Head(c.todo) /\ n \in Names
    BY <1>1, <1>2 DEF Removal
  <2>2. Head(c.todo).name = n /\ n # NoName
    BY <2>1, CommandsAssumption DEF ByName
  <2>3. Goal(c) = "gone"
    BY DEF Goal
  <2> QED BY <2>1, <2>2, <2>3
<1>4. c.req.kind \in Acts =>
        \A r \in ToSet(c.req.refs) :
          r.name = NoName \/ r \in c.failed \/ <<r.name, Goal(c)>> \in w \/ r \in ToSet(Tail(c.todo))
  BY <1>1, <1>2 DEF Acting
<1>5. CASE Tail(c.todo) # <<>>
  <2> DEFINE pc == IF c.req.kind = "rm" THEN "do" ELSE "look"
  <2>1. PICK e : e = OnToNext(c)
    OBVIOUS
  <2>2. e = [c EXCEPT !.todo = Tail(c.todo), !.pc = pc]
    BY <1>5, <2>1 DEF OnToNext
  <2>3. /\ Shaped(e) /\ e.req = c.req /\ e.pc = pc /\ e.todo = Tail(c.todo) /\ e.found = c.found
        /\ e.failed = c.failed /\ e.excused = c.excused /\ e.asked = c.asked /\ e.out = c.out
        /\ e.box = c.box
    BY <1>2, <2>2 DEF Shaped
  <2>4. Staged(e)
    BY <1>2, <1>5, <2>3, WhichStages DEF Staged, Acts
  <2>5. Reading(e, w, b) /\ Ours(e, w, b)
    BY <2>3 DEF Reading, Ours, Acts
  <2>6. Listing(e, w)
    BY <2>3 DEF Listing, Acts
  <2>7. Acting(e, w)
    BY <1>4, <2>3 DEF Acting, Goal, Acts
  <2>8. Removal(e, w)
    BY <1>1, <1>2, <1>3, <2>3 DEF Removal
  <2>9. Failures(e, w)
    BY <1>2, <2>3 DEF Failures, Excuse
  <2> QED BY <1>1, <1>2, <2>1, <2>3, <2>4, <2>5, <2>6, <2>7, <2>8, <2>9 DEF Fine
<1>6. CASE Tail(c.todo) = <<>>
  <2>1. ToSet(Tail(c.todo)) = {}
    BY <1>6 DEF ToSet
  <2>2. PICK out \in {"ok", "error"} : out = IF c.failed = {} THEN "ok" ELSE "error"
    OBVIOUS
  <2>3. Fine(Ended(c, out), w, b)
    BY <1>3, <1>4, <2>1, <2>2, EndedFine DEF Acts
  <2> QED BY <1>6, <2>2, <2>3 DEF OnToNext
<1> QED BY <1>5, <1>6

LEMMA MissedFine ==
  ASSUME NEW c, NEW w, NEW b, Fine(c, w, b), c.req.kind \in Acts \cup {"rm"},
         c.pc \in {"look", "read", "do"}, c.req.kind = "rm" => c.pc = "do", c.todo # <<>>,
         Excuse(c, w, Head(c.todo))
  PROVE  Fine(Missed(c), w, b)
<1>1. PICK d : d = [c EXCEPT !.failed = @ \cup {Head(c.todo)}]
  OBVIOUS
<1>2. Fine(d, w, b)
  BY <1>1, FailedFine
<1>3. d.req = c.req /\ d.pc = c.pc /\ d.todo = c.todo /\ d.failed = c.failed \cup {Head(c.todo)}
  <2>1. Shaped(c)
    BY DEF Fine
  <2> QED BY <1>1, <2>1 DEF Shaped
<1>4. Fine(OnToNext(d), w, b)
  BY <1>2, <1>3, OnToNextFine
<1> QED BY <1>1, <1>4 DEF Missed

(* A call fails. *)
LEMMA FailingFine ==
  ASSUME NEW c, NEW w, NEW b, NEW err, Fine(c, w, b), c.pc \in Calls,
         c.req.kind \in Acts \/ c.pc = "do" => Excuse(c, w, Head(c.todo)),
         c.req.kind = "ls" => c.excused \/ Upset(w),
         c.req.kind = "run" /\ c.pc \in {"look", "read"} /\ "NotFound" \in err => NoneOurs(c, w, b)
  PROVE  Fine(Failing(c, err), w, b)
<1>1. c.req.kind \in Kind /\ Staged(c) /\ Removal(c, w)
  BY DEF Fine, Requests
<1>2. CASE c.req.kind \in Acts \/ c.pc = "do"
  <2>1. /\ c.req.kind \in Acts \cup {"rm"} /\ c.pc \in {"look", "read", "do"}
        /\ c.req.kind = "rm" => c.pc = "do"
    BY <1>1, <1>2, WhichStages DEF Staged, Calls, Acts
  <2>2. c.todo # <<>>
    BY <1>1, <1>2, <2>1 DEF Staged, Acts
  <2>3. Fine(Missed(c), w, b)
    BY <1>2, <2>1, <2>2, MissedFine
  <2> QED BY <1>2, <2>3 DEF Failing
<1>3. CASE /\ ~(c.req.kind \in Acts \/ c.pc = "do")
           /\ c.req.kind = "run" /\ c.pc \in {"look", "read"} /\ "NotFound" \in err
  <2>1. Fine(Goes(c, "pull"), w, b)
    <3>1. "pull" \in Stages(c.req.kind) \ {"begin", "done", "read"}
      BY <1>1, <1>3, WhichStages
    <3> QED BY <1>3, <3>1, GoesFine
  <2> QED BY <1>3, <2>1 DEF Failing
<1>4. CASE /\ ~(c.req.kind \in Acts \/ c.pc = "do")
           /\ ~(c.req.kind = "run" /\ c.pc \in {"look", "read"} /\ "NotFound" \in err)
  <2>1. Fine(Ended(c, "error"), w, b)
    <3>1. c.req.kind = "rm" => c.failed = {} /\ c.asked = {}
      BY <1>1, <1>4 DEF Removal, Calls
    <3> QED BY <1>4, <3>1, EndedFine DEF Acts
  <2> QED BY <1>4, <2>1 DEF Failing
<1> QED BY <1>2, <1>3, <1>4

(* It has its sandbox. *)
LEMMA ResolvedFine ==
  ASSUME NEW c, NEW w, NEW b, NEW sb, Fine(c, w, b), c.pc \in {"look", "read"}, c.todo # <<>>,
         sb.name \in Names, Head(c.todo).name # NoName => Head(c.todo).name = sb.name,
         c.req.kind = "run" => IsOurs(c, w, b, sb.name)
  PROVE  Fine(Resolved(c, sb), w, b)
<1>1. PICK d : d = [c EXCEPT !.box = sb]
  OBVIOUS
<1>2. Fine(d, w, b)
  BY <1>1, BoxFine
<1>3. /\ d.req = c.req /\ d.pc = c.pc /\ d.todo = c.todo /\ d.found = c.found /\ d.out = c.out
      /\ d.failed = c.failed /\ d.excused = c.excused /\ d.asked = c.asked /\ d.box = sb
  <2>1. Shaped(c)
    BY DEF Fine
  <2> QED BY <1>1, <2>1 DEF Shaped
<1>4. /\ Shaped(d) /\ c.req \in Requests /\ Staged(c) /\ Removal(c, w) /\ Failures(c, w)
      /\ c.req.kind \in Kind
  BY <1>2, <1>3 DEF Fine, Requests
<1>5. c.req.kind \in Acts \cup {"rm", "inspect", "ports", "run", "exec"}
  BY <1>4, WhichStages DEF Staged, Kind, Acts
<1>6. CASE c.req.kind \in Acts
  <2>1. Resolved(c, sb) = Goes(d, "do")
    BY <1>1, <1>6 DEF Resolved, Acts
  <2>2. "do" \in Stages(c.req.kind)
    BY <1>4, <1>6, WhichStages
  <2>3. Fine(Goes(d, "do"), w, b)
    BY <1>2, <1>3, <1>6, <2>2, GoesFine DEF Acts
  <2> QED BY <2>1, <2>3
<1>7. CASE c.req.kind \in {"inspect", "ports", "exec"}
  <2>1. \A out \in {"ok", "error"} : Fine(Ended(d, out), w, b)
    BY <1>2, <1>3, <1>7, EndedFine DEF Acts
  <2>2. c.req.kind = "ports" => Fine(Goes(d, "publish"), w, b)
    <3>1. c.req.kind = "ports" => "publish" \in Stages(c.req.kind)
      BY <1>4, WhichStages
    <3> QED BY <1>2, <1>3, <3>1, GoesFine DEF Acts
  <2>3. c.req.kind = "exec" => Fine(Goes(d, "exec"), w, b)
    <3>1. c.req.kind = "exec" => "exec" \in Stages(c.req.kind)
      BY <1>4, WhichStages
    <3> QED BY <1>2, <1>3, <3>1, GoesFine DEF Acts
  <2>4. /\ c.req.kind = "inspect" => Resolved(c, sb) = Ended(d, "ok")
        /\ c.req.kind = "ports" => Resolved(c, sb) \in {Ended(d, "ok"), Goes(d, "publish")}
        /\ c.req.kind = "exec" => Resolved(c, sb) \in {Ended(d, "error"), Goes(d, "exec")}
    BY <1>1 DEF Resolved, Acts
  <2> QED BY <1>7, <2>1, <2>2, <2>3, <2>4
<1>8. CASE c.req.kind = "run"
  <2>1. Resolved(c, sb) \in {Goes(d, "exec"), Goes(d, "boot")}
    BY <1>1, <1>8 DEF Resolved, Acts
  <2>2. \A pc \in {"exec", "boot"} : pc \in Stages(c.req.kind)
    BY <1>4, <1>8, WhichStages
  <2>3. IsOurs(d, w, b, d.box.name)
    BY <1>3, <1>8 DEF IsOurs
  <2>4. ASSUME NEW pc \in {"exec", "boot"} PROVE Fine(Goes(d, pc), w, b)
    BY <1>2, <1>3, <1>8, <2>2, <2>3, GoesFine DEF Acts
  <2> QED BY <2>1, <2>4
<1>9. CASE c.req.kind = "rm"
  <2> DEFINE pc == IF Tail(c.todo) = <<>> THEN "check" ELSE "look"
  <2>1. PICK e : e = Resolved(c, sb)
    OBVIOUS
  <2>2. e = [d EXCEPT !.found = Append(c.found, sb), !.todo = Tail(c.todo), !.pc = pc]
    BY <1>1, <1>3, <1>9, <2>1 DEF Resolved, Acts
  <2>3. /\ Shaped(e) /\ e.req = c.req /\ e.pc = pc /\ e.todo = Tail(c.todo)
        /\ e.found = Append(c.found, sb) /\ e.failed = c.failed /\ e.excused = c.excused
        /\ e.asked = c.asked /\ e.out = c.out
    BY <1>3, <1>4, <2>2 DEF Shaped
  <2>4. IsSeq(c.found) /\ \A i \in 1 .. Len(c.found) : c.found[i].name \in Names
    BY <1>4, <1>9 DEF Removal
  <2>5. /\ IsSeq(e.found) /\ Len(c.found) \in Nat /\ Len(e.found) = Len(c.found) + 1
        /\ \A i \in 1 .. Len(c.found) : e.found[i] = c.found[i]
        /\ e.found[Len(c.found) + 1] = sb
    BY <2>3, <2>4, Appended
  <2>6. \A i \in 1 .. Len(e.found) : e.found[i].name \in Names
    <3> SUFFICES ASSUME NEW i \in 1 .. Len(e.found) PROVE e.found[i].name \in Names
      OBVIOUS
    <3>1. i \in 1 .. Len(c.found) \/ i = Len(c.found) + 1
      BY <2>5
    <3> QED BY <2>4, <2>5, <3>1
  <2>7. e.found # <<>> /\ Tail(c.todo) \in Seq(References)
    <3>1. Len(e.found) # 0
      BY <2>5
    <3>2. Tail(c.todo) \in Seq(References)
      BY RangeSplits DEF Fine
    <3> QED BY <3>1, <3>2
  <2>8. Staged(e)
    BY <1>4, <1>9, <2>3, <2>7, WhichStages DEF Staged, Acts
  <2>9. Reading(e, w, b) /\ Ours(e, w, b) /\ Listing(e, w) /\ Acting(e, w)
    BY <1>9, <2>3 DEF Reading, Ours, Listing, Acting, Acts
  <2>10. Removal(e, w)
    BY <1>4, <1>9, <2>3, <2>5, <2>6 DEF Removal
  <2>11. Failures(e, w)
    BY <1>4, <2>3 DEF Failures, Excuse
  <2> QED BY <1>4, <2>1, <2>3, <2>7, <2>8, <2>9, <2>10, <2>11 DEF Fine
<1> QED BY <1>5, <1>6, <1>7, <1>8, <1>9

(* It removes what it has found. *)
LEMMA RemovingFine ==
  ASSUME NEW c, NEW w, NEW b, Fine(c, w, b), c.pc \in {"check", "ask"}
  PROVE  Fine(Removing(c), w, b)
<1>1. /\ Shaped(c) /\ c.req \in Requests /\ Staged(c) /\ Removal(c, w) /\ Failures(c, w)
      /\ c.req.kind \in Kind
  BY DEF Fine, Requests
<1>2. c.req.kind = "rm" /\ c.found # <<>>
  BY <1>1, WhichStages DEF Staged
<1>3. IsSeq(c.found) /\ \A i \in 1 .. Len(c.found) : c.found[i].name \in Names
  BY <1>1, <1>2 DEF Removal
<1>4. Len(c.found) \in Nat \ {0}
  <2>1. PICK S : c.found \in Seq(S)
    BY <1>3 DEF IsSeq
  <2> QED BY <1>2, <2>1, EmptySeq, LenProperties
<1> DEFINE todo == [i \in 1 .. Len(c.found) |-> ByName(c.found[i].name)]
<1>5. todo \in Seq(References) /\ Len(todo) = Len(c.found)
  <2>1. \A i \in 1 .. Len(c.found) : ByName(c.found[i].name) \in References
    BY <1>3 DEF References
  <2>2. Len(c.found) \in Nat
    BY <1>4
  <2> QED BY <2>1, <2>2, IsASeq
<1>6. \A n \in Targets(c) : n \in Names /\ ByName(n) \in ToSet(todo)
  <2> SUFFICES ASSUME NEW n \in Targets(c) PROVE n \in Names /\ ByName(n) \in ToSet(todo)
    OBVIOUS
  <2>1. PICK i \in 1 .. Len(c.found) : n = c.found[i].name
    BY DEF Targets
  <2>2. todo[i] = ByName(n) /\ i \in DOMAIN todo
    BY <2>1
  <2> QED BY <1>3, <2>1, <2>2 DEF ToSet
<1>7. ASSUME NEW r \in ToSet(todo) PROVE r.name \in Targets(c)
  <2>1. PICK i \in 1 .. Len(c.found) : r = ByName(c.found[i].name)
    BY DEF ToSet
  <2>2. r.name = c.found[i].name
    BY <2>1 DEF ByName
  <2> QED BY <2>2 DEF Targets
<1>8. todo # <<>>
  BY <1>4, <1>5
<1> HIDE DEF todo
<1>9. PICK e : e = Removing(c)
  OBVIOUS
<1>10. e = [c EXCEPT !.asked = Targets(c), !.todo = todo, !.pc = "do"]
  BY <1>9 DEF Removing, todo
<1>11. /\ Shaped(e) /\ e.req = c.req /\ e.pc = "do" /\ e.todo = todo /\ e.found = c.found
       /\ e.failed = c.failed /\ e.excused = c.excused /\ e.asked = Targets(c) /\ e.out = c.out
  BY <1>1, <1>10 DEF Shaped
<1>12. Staged(e)
  BY <1>1, <1>2, <1>8, <1>11, WhichStages DEF Staged
<1>13. Reading(e, w, b) /\ Ours(e, w, b) /\ Listing(e, w) /\ Acting(e, w)
  BY <1>2, <1>11 DEF Reading, Ours, Listing, Acting, Acts
<1>14. Removal(e, w)
  BY <1>3, <1>6, <1>7, <1>11 DEF Removal
<1>15. Failures(e, w)
  BY <1>1, <1>11 DEF Failures, Excuse
<1> QED BY <1>1, <1>5, <1>9, <1>11, <1>12, <1>13, <1>14, <1>15 DEF Fine

-----------------------------------------------------------------------------
(* Sandboxes change                                                        *)

(* What holds of all commands once one of them has changed a sandbox, or   *)
(* nothing, and before it goes on itself.                                  *)
Meanwhile ==
  /\ Sound(boxes') /\ was' = [p \in Processes |-> was'[p]]
  /\ \A p \in Processes : Fine(cmd[p], was'[p], boxes')
  /\ \A p \in Processes, n \in Names :
       cmd[p].pc \notin {"begin", "done"} => Seen(n, was'[p], boxes')

LEMMA NothingChanges ==
  ASSUME Truthful, Same
  PROVE  Meanwhile /\ boxes' = boxes /\ was' = was
BY DEF Truthful, Same, Meanwhile

(* What one of them has yet to begin, or has ended, does not depend on it. *)
LEMMA RestFine ==
  ASSUME NEW c, NEW w, NEW b, NEW b2, Fine(c, w, b), c.pc \in {"begin", "done"}
  PROVE  Fine(c, w, b2)
<1>1. Reading(c, w, b2) /\ Ours(c, w, b2)
  BY DEF Reading, Ours
<1> QED BY <1>1 DEF Fine

LEMMA OneChanges ==
  ASSUME Truthful, NEW n \in Names, NEW box, Become(n, box),
         box = Box(box.path, box.status, box.ports),
         box = Gone \/ box.status \in {"idle", "running"},
         box # Gone /\ boxes[n] # Gone => box.path = boxes[n].path
  PROVE  /\ Meanwhile /\ boxes'[n] = box
         /\ \A p \in Processes :
              cmd[p].pc \notin {"begin", "done"} => <<n, box.status>> \in was'[p]
<1>1. /\ boxes = [m \in Names |-> boxes[m]] /\ boxes' = [boxes EXCEPT ![n] = box]
  BY DEF Truthful, Sound, Become
<1>2. /\ boxes' = [m \in Names |-> boxes'[m]] /\ boxes'[n] = box
      /\ \A m \in Names : m # n => boxes'[m] = boxes[m]
  BY <1>1
<1>3. /\ was' = [p \in Processes |-> was'[p]]
      /\ \A p \in Processes :
           was'[p] = IF cmd[p].pc \in {"begin", "done"} THEN was[p]
                     ELSE was[p] \cup {<<n, box.status>>}
  BY DEF Become
<1>4. Gone.status = "gone"
  BY DEF Gone, Box
<1>5. Sound(boxes')
  <2>1. ASSUME NEW m \in Names
        PROVE  /\ boxes'[m] = Box(boxes'[m].path, boxes'[m].status, boxes'[m].ports)
               /\ boxes'[m] # Gone => boxes'[m].status \in {"idle", "running"}
    BY <1>2 DEF Truthful, Sound
  <2> QED BY <1>2, <2>1 DEF Sound
<1>6. ASSUME NEW p \in Processes, cmd[p].pc \notin {"begin", "done"}
      PROVE  /\ <<n, box.status>> \in was'[p] /\ Fine(cmd[p], was'[p], boxes')
             /\ \A m \in Names : Seen(m, was'[p], boxes')
  <2>1. PICK w : w = was[p]
    OBVIOUS
  <2>2. PICK w2 : w2 = was'[p]
    OBVIOUS
  <2>3. w2 = w \cup {<<n, box.status>>}
    BY <1>3, <1>6, <2>1, <2>2
  <2>4. \A m \in Names : Seen(m, w, boxes)
    BY <1>6, <2>1 DEF Truthful
  <2>5. There(w2) \subseteq There(w) /\ Ever(w) \subseteq Ever(w2) /\ (Upset(w) => Upset(w2))
    BY <2>3, Grown
  <2>6. ASSUME NEW m \in Names PROVE Seen(m, w2, boxes')
    <3>1. CASE m = n
      <4>1. CASE box = Gone
        <5>1. <<n, "gone">> \in w2
          BY <1>4, <2>3, <4>1
        <5> QED BY <1>2, <3>1, <4>1, <5>1 DEF Seen, There
      <4>2. CASE box # Gone
        BY <1>2, <2>3, <3>1, <4>2 DEF Seen
      <4> QED BY <4>1, <4>2
    <3>2. CASE m # n
      <4>1. m \in Ever(w2) => m \in Ever(w)
        BY <2>3, <3>2 DEF Ever
      <4> QED BY <1>2, <2>3, <2>4, <2>5, <3>2, <4>1 DEF Seen
    <3> QED BY <3>1, <3>2
  <2>7. Later(w, boxes, w2, boxes')
    <3>1. ASSUME NEW m \in Names, m \in There(w2) \/ (m \in Ever(w) /\ ~Upset(w2))
          PROVE  boxes'[m].path = boxes[m].path
      <4>1. boxes[m] # Gone
        BY <2>4, <2>5, <3>1 DEF Seen, Upset
      <4>2. boxes'[m] # Gone
        BY <2>5, <2>6, <3>1 DEF Seen, Upset
      <4> QED BY <1>2, <4>1, <4>2
    <3> QED BY <2>3, <3>1 DEF Later
  <2>8. Fine(cmd[p], w2, boxes')
    <3>1. Fine(cmd[p], w, boxes)
      BY <2>1 DEF Truthful
    <3> QED BY <2>7, <3>1, GoesOn
  <2> QED BY <2>2, <2>3, <2>6, <2>8
<1>7. ASSUME NEW p \in Processes, cmd[p].pc \in {"begin", "done"}
      PROVE  Fine(cmd[p], was'[p], boxes')
  <2>1. was'[p] = was[p] /\ Fine(cmd[p], was[p], boxes)
    BY <1>3, <1>7 DEF Truthful
  <2> QED BY <1>7, <2>1, RestFine
<1> QED BY <1>2, <1>3, <1>5, <1>6, <1>7 DEF Meanwhile

(* A step of one command, which is fine after it. *)
LEMMA Stepped ==
  ASSUME Truthful, Meanwhile, NEW p \in Processes, NEW c, Set(p, c),
         Fine(c, was'[p], boxes'), cmd[p].pc \notin {"begin", "done"}
  PROVE  Truthful'
<1>1. /\ cmd = [q \in Processes |-> cmd[q]] /\ cmd' = [cmd EXCEPT ![p] = c]
  BY DEF Truthful, Set
<1>2. /\ cmd' = [q \in Processes |-> cmd'[q]] /\ cmd'[p] = c
      /\ \A q \in Processes : q # p => cmd'[q] = cmd[q]
  BY <1>1
<1>3. ASSUME NEW q \in Processes
      PROVE  /\ Fine(cmd'[q], was'[q], boxes')
             /\ \A n \in Names :
                  cmd'[q].pc \notin {"begin", "done"} => Seen(n, was'[q], boxes')
  BY <1>2 DEF Meanwhile
<1> QED BY <1>2, <1>3 DEF Truthful, Meanwhile

-----------------------------------------------------------------------------
(* Every step                                                              *)

(* "There is no such sandbox" comes over as an error, and an error without *)
(* a kind as one that does not say so.                                     *)
LEMMA NothingComesOver ==
  "NotFound" \notin Over({}) /\ Over({"NotFound"}) # NoError
<1>1. {} \in SUBSET Kinds /\ {"NotFound"} \in SUBSET Kinds
  BY KindsAre
<1>2. Over({}) = {} /\ Over({"NotFound"}) = {"NotFound"}
  BY <1>1, FirstComesOver
<1> QED BY <1>1, <1>2, WireAssumption

LEMMA BeginStep ==
  ASSUME Truthful, NEW p \in Processes, Begin(p)
  PROVE  Truthful'
<1>1. PICK c : c = cmd[p]
  OBVIOUS
<1>2. PICK r : r = c.req
  OBVIOUS
<1>3. Fine(c, was[p], boxes)
  BY <1>1 DEF Truthful
<1>4. c = Idle(r) /\ r \in Requests /\ r.kind \in Kind /\ r.refs \in Seq(References)
  BY <1>1, <1>2, <1>3 DEF Begin, At, Fine, Staged, Requests
<1>5. PICK w : w = {<<n, IF Exists(n) THEN boxes[n].status ELSE "absent">> : n \in Names}
  OBVIOUS
<1>6. /\ was' = [was EXCEPT ![p] = w] /\ boxes' = boxes
      /\ was = [q \in Processes |-> was[q]]
  BY <1>5 DEF Begin, Truthful
<1>7. PICK d : d = Goes(c, First(r))
  OBVIOUS
<1>8. cmd' = [cmd EXCEPT ![p] = d] /\ cmd = [q \in Processes |-> cmd[q]]
  BY <1>1, <1>2, <1>7 DEF Begin, Set, Truthful
<1>9. /\ Shaped(d) /\ d.req = r /\ d.pc = First(r) /\ d.todo = r.refs /\ d.found = <<>>
      /\ d.failed = {} /\ d.asked = {} /\ d.out = "none"
  BY <1>4, <1>7 DEF Goes, Idle, Shaped
<1>10. /\ First(r) \in Stages(r.kind) \ {"begin", "done"}
       /\ First(r) \in {"policy", "exec", "copy", "look"}
       /\ First(r) = "look" => r.kind # "create"
       /\ r.kind = "run" => First(r) = "policy"
  BY <1>4 DEF First, Stages, Kind, Acts, Calls
<1>11. Staged(d)
  BY <1>4, <1>9, <1>10 DEF Staged, Requests
<1>12. Reading(d, w, boxes) /\ Ours(d, w, boxes) /\ Listing(d, w)
  BY <1>9, <1>10 DEF Reading, Ours, Listing
<1>13. Acting(d, w)
  BY <1>9, <1>10 DEF Acting
<1>14. Removal(d, w)
  <2>1. IsSeq(<<>>) /\ Len(<<>>) = 0
    <3>1. <<>> \in Seq({})
      OBVIOUS
    <3> QED BY <3>1 DEF IsSeq
  <2> QED BY <1>9, <1>10, <2>1 DEF Removal
<1>15. Failures(d, w)
  BY <1>9 DEF Failures
<1>16. Fine(d, w, boxes)
  BY <1>4, <1>9, <1>11, <1>12, <1>13, <1>14, <1>15 DEF Fine
<1>17. ASSUME NEW n \in Names PROVE Seen(n, w, boxes)
  <2>1. CASE boxes[n] # Gone
    BY <1>5, <2>1 DEF Seen, Exists
  <2>2. CASE boxes[n] = Gone
    <3>1. <<n, "absent">> \in w
      BY <1>5, <2>2 DEF Exists
    <3>2. n \notin Ever(w)
      <4>1. \A m \in Names : <<m, IF Exists(m) THEN boxes[m].status ELSE "absent">>
                               \notin {<<n, "idle">>, <<n, "running">>}
        BY <2>2 DEF Exists
      <4>2. {<<n, "idle">>, <<n, "running">>} \cap w = {}
        BY <1>5, <4>1
      <4> QED BY <4>2 DEF Ever
    <3> QED BY <2>2, <3>1, <3>2 DEF Seen, There
  <2> QED BY <2>1, <2>2
<1>18. /\ was' = [q \in Processes |-> was'[q]] /\ was'[p] = w
       /\ cmd' = [q \in Processes |-> cmd'[q]] /\ cmd'[p] = d
       /\ \A q \in Processes : q # p => was'[q] = was[q] /\ cmd'[q] = cmd[q]
  BY <1>6, <1>8
<1>19. ASSUME NEW q \in Processes
       PROVE  /\ Fine(cmd'[q], was'[q], boxes)
              /\ \A n \in Names :
                   cmd'[q].pc \notin {"begin", "done"} => Seen(n, was'[q], boxes)
  BY <1>16, <1>17, <1>18 DEF Truthful
<1> QED BY <1>6, <1>18, <1>19 DEF Truthful

(* Elsewhere than when it looks a sandbox up, or does as it was told to    *)
(* several, a command just fails.                                          *)
LEMMA JustFails ==
  ASSUME NEW c, NEW w, NEW b, NEW err, Fine(c, w, b), c.pc \in Calls \ {"look", "read", "do"}
  PROVE  Fine(Failing(c, err), w, b)
<1>1. c.req.kind \in Kind /\ c.pc \in Stages(c.req.kind)
  BY DEF Fine, Requests, Staged
<1>2. c.req.kind \notin Acts \cup {"ls"}
  BY <1>1, WhichStages DEF Calls
<1> QED BY <1>2, FailingFine

LEMMA RefuseStep ==
  ASSUME Truthful, NEW p \in Processes, Refuse(p)
  PROVE  Truthful'
<1>1. PICK c : c = cmd[p]
  OBVIOUS
<1>2. Meanwhile /\ c.pc \in Calls
  BY <1>1, NothingChanges DEF Refuse
<1>3. Fine(c, was'[p], boxes')
  BY <1>1, <1>2 DEF Meanwhile
<1>4. PICK d : d = [c EXCEPT !.excused = TRUE]
  OBVIOUS
<1>5. Fine(d, was'[p], boxes')
  BY <1>2, <1>3, <1>4, ExcusedFine DEF Calls
<1>6. d.pc = c.pc /\ d.excused = TRUE
  <2>1. Shaped(c)
    BY <1>3 DEF Fine
  <2> QED BY <1>4, <2>1 DEF Shaped
<1>7. Fine(Failing(d, Over({})), was'[p], boxes')
  <2>1. \A r : Excuse(d, was'[p], r)
    BY <1>6 DEF Excuse
  <2> QED BY <1>2, <1>5, <1>6, <2>1, NothingComesOver, FailingFine
<1>8. Set(p, Failing(d, Over({})))
  BY <1>1, <1>4 DEF Refuse
<1> QED BY <1>1, <1>2, <1>7, <1>8, Stepped DEF Calls

(* What a command that runs knows before it goes on. *)
LEMMA Knows ==
  ASSUME Truthful, NEW p \in Processes, cmd[p].pc \notin {"begin", "done"}
  PROVE  /\ Fine(cmd[p], was[p], boxes) /\ Staged(cmd[p]) /\ cmd[p].req \in Requests
         /\ cmd[p].req.kind \in Kind /\ cmd[p].pc \in Stages(cmd[p].req.kind)
         /\ cmd[p].todo \in Seq(References)
         /\ Reading(cmd[p], was[p], boxes) /\ Acting(cmd[p], was[p])
         /\ Removal(cmd[p], was[p]) /\ Ours(cmd[p], was[p], boxes)
         /\ \A n \in Names : Seen(n, was[p], boxes)
BY DEF Truthful, Fine, Staged, Requests

(* What is there now has been there, and what is not has not been there    *)
(* all along.                                                              *)
LEMMA NowIsSeen ==
  ASSUME NEW w, NEW n \in Names, Seen(n, w, boxes), Truthful
  PROVE  /\ boxes[n] # Gone => n \in Ever(w)
         /\ boxes[n] = Gone => n \notin There(w) /\ (n \in Ever(w) => Upset(w))
<1>1. boxes[n] # Gone => boxes[n].status \in {"idle", "running"}
  BY DEF Truthful, Sound
<1> QED BY <1>1 DEF Seen, Ever, Upset

(* What a `run` looks for is what it has for a name, or its workspace.     *)
LEMMA RunLooksFor ==
  ASSUME NEW c, Staged(c), c.req \in Requests, c.req.kind = "run"
  PROVE  /\ c.todo # <<>>
         /\ Head(c.todo).name = c.req.name
         /\ c.req.name = NoName => Head(c.todo).path = c.req.cwd
<1>1. c.todo = <<IF c.req.name = NoName THEN ByPath(c.req.cwd) ELSE ByName(c.req.name)>>
  BY DEF Staged, Requests
<1> QED BY <1>1 DEF ByPath, ByName

LEMMA LookStep ==
  ASSUME Truthful, NEW p \in Processes, Look(p)
  PROVE  Truthful'
<1>1. PICK c : c = cmd[p]
  OBVIOUS
<1>2. PICK w : w = was[p]
  OBVIOUS
<1>3. c.pc = "look" /\ ~Scans(c) /\ Meanwhile /\ boxes' = boxes /\ was' = was
  BY <1>1, NothingChanges DEF Look, At
<1>4. /\ Fine(c, w, boxes) /\ Staged(c) /\ c.req \in Requests /\ c.req.kind \in Kind
      /\ \A n \in Names : Seen(n, w, boxes)
  BY <1>1, <1>2, <1>3, Knows
<1>5. PICK n : n = Head(c.todo).name
  OBVIOUS
<1>6. n # NoName /\ c.todo # <<>> /\ c.req.kind # "ls"
  BY <1>3, <1>4, <1>5 DEF Scans, Staged
<1>7. c.req.kind = "run" => n = c.req.name
  BY <1>4, <1>5, RunLooksFor
<1>8. CASE Exists(n)
  <2>1. PICK r : r = Record(n, boxes[n], boxes[n].status)
    OBVIOUS
  <2>2. CarrySandbox(Reply(r, NoError)).err = NoError
        /\ Told(CarrySandbox(Reply(r, NoError)).value).name = n
    BY <2>1, ToldByName
  <2>3. PICK sb : sb = Told(CarrySandbox(Reply(r, NoError)).value)
    OBVIOUS
  <2>4. Set(p, Resolved(c, sb))
    BY <1>1, <1>5, <1>8, <2>1, <2>2, <2>3 DEF Look, Inspected
  <2>5. n \in Names /\ n \in Ever(w)
    BY <1>4, <1>8, NowIsSeen DEF Exists
  <2>6. Fine(Resolved(c, sb), w, boxes)
    <3>1. c.req.kind = "run" => IsOurs(c, w, boxes, n)
      BY <1>7, <2>5 DEF IsOurs
    <3> QED BY <1>3, <1>4, <1>5, <1>6, <2>2, <2>3, <2>5, <3>1, ResolvedFine
  <2> QED BY <1>1, <1>2, <1>3, <2>4, <2>6, Stepped
<1>9. CASE ~Exists(n)
  <2>1. PICK err : err = Over({"NotFound"})
    OBVIOUS
  <2>2. CarrySandbox(Reply(Nothing, {"NotFound"})).err = err /\ err # NoError
    <3>1. {"NotFound"} # NoError
      BY KindsAre, WireAssumption
    <3> QED BY <2>1, <3>1, NothingComesOver DEF CarrySandbox, Reply
  <2>3. Set(p, Failing(c, err))
    BY <1>1, <1>5, <1>9, <2>2 DEF Look, Inspected
  <2>4. n \notin There(w)
    BY <1>4, <1>9, NowIsSeen, EverNamed DEF Exists
  <2>5. Fine(Failing(c, err), w, boxes)
    <3>1. Excuse(c, w, Head(c.todo))
      BY <1>5, <2>4 DEF Excuse
    <3>2. c.req.kind = "run" => NoneOurs(c, w, boxes)
      BY <1>6, <1>7 DEF NoneOurs
    <3> QED BY <1>3, <1>4, <1>6, <3>1, <3>2, FailingFine DEF Calls
  <2> QED BY <1>1, <1>2, <1>3, <2>3, <2>5, Stepped
<1> QED BY <1>8, <1>9

LEMMA ReadDirStep ==
  ASSUME Truthful, NEW p \in Processes, ReadDir(p)
  PROVE  Truthful'
<1>1. PICK c : c = cmd[p]
  OBVIOUS
<1>2. PICK w : w = was[p]
  OBVIOUS
<1>3. c.pc = "look" /\ Scans(c) /\ Meanwhile /\ boxes' = boxes /\ was' = was
  BY <1>1, NothingChanges DEF ReadDir, At
<1>4. /\ Fine(c, w, boxes) /\ Staged(c) /\ c.req \in Requests /\ c.req.kind \in Kind
      /\ \A n \in Names : Seen(n, w, boxes)
  BY <1>1, <1>2, <1>3, Knows
<1>5. PICK d : d = [c EXCEPT !.pc = "read", !.unread = {n \in Names : Exists(n)}, !.scan = <<>>]
  OBVIOUS
<1>6. /\ Shaped(d) /\ d.req = c.req /\ d.pc = "read" /\ d.todo = c.todo /\ d.found = c.found
      /\ d.failed = c.failed /\ d.excused = c.excused /\ d.asked = c.asked /\ d.out = c.out
      /\ d.unread = {n \in Names : Exists(n)} /\ d.scan = <<>>
  <2>1. Shaped(c)
    BY <1>4 DEF Fine
  <2> QED BY <1>5, <2>1 DEF Shaped
<1>7. Staged(d)
  BY <1>3, <1>4, <1>6, WhichStages DEF Staged, Scans
<1>8. Reading(d, w, boxes)
  <2>1. /\ d.unread \subseteq Ever(w)
        /\ There(w) \subseteq d.unread
    BY <1>4, <1>6, NowIsSeen, EverNamed DEF Exists
  <2>2. IsSeq(<<>>) /\ Len(<<>>) = 0
    <3>1. <<>> \in Seq({})
      OBVIOUS
    <3> QED BY <3>1 DEF IsSeq
  <2> QED BY <1>6, <2>1, <2>2 DEF Reading
<1>9. Ours(d, w, boxes) /\ Listing(d, w)
  BY <1>3, <1>4, <1>6 DEF Ours, Listing, Staged
<1>10. Acting(d, w)
  BY <1>3, <1>4, <1>6 DEF Fine, Acting, Goal
<1>11. Removal(d, w)
  BY <1>3, <1>4, <1>6 DEF Fine, Removal
<1>12. Failures(d, w)
  BY <1>4, <1>6 DEF Fine, Failures, Excuse
<1>13. Fine(d, w, boxes)
  BY <1>4, <1>6, <1>7, <1>8, <1>9, <1>10, <1>11, <1>12 DEF Fine
<1>14. Set(p, d)
  BY <1>1, <1>5 DEF ReadDir
<1> QED BY <1>1, <1>2, <1>3, <1>13, <1>14, Stepped

LEMMA ReadNextStep ==
  ASSUME Truthful, NEW p \in Processes, ReadNext(p)
  PROVE  Truthful'
<1>1. PICK c : c = cmd[p]
  OBVIOUS
<1>2. PICK w : w = was[p]
  OBVIOUS
<1>3. PICK n : n = Earliest(c.unread)
  OBVIOUS
<1>4. c.pc = "read" /\ Exists(n) /\ Meanwhile /\ boxes' = boxes /\ was' = was
  BY <1>1, <1>3, NothingChanges DEF ReadNext, At
<1>5. /\ Fine(c, w, boxes) /\ Staged(c) /\ Reading(c, w, boxes)
      /\ \A m \in Names : Seen(m, w, boxes)
  BY <1>1, <1>2, <1>4, Knows
<1>6. PICK r : r = Record(n, boxes[n], boxes[n].status)
  OBVIOUS
<1>7. Whole(r) /\ r.spec.name = n /\ HostOf(r) = boxes[n].path
  <2>1. /\ r.spec.name = n /\ HostOf(r) = boxes[n].path /\ r.ports = boxes[n].ports
        /\ r.state.status = boxes[n].status
    BY <1>6 DEF Record, HostOf, ZeroSpec, ZeroState
  <2>2. Record(n, Box(boxes[n].path, boxes[n].status, boxes[n].ports), boxes[n].status) = r
    BY <1>6 DEF Record, Box
  <2> QED BY <2>1, <2>2 DEF Whole
<1>8. PICK d : d = [c EXCEPT !.unread = c.unread \ {n}, !.scan = Append(c.scan, r)]
  OBVIOUS
<1>9. /\ Shaped(d) /\ d.req = c.req /\ d.pc = "read" /\ d.todo = c.todo /\ d.found = c.found
      /\ d.failed = c.failed /\ d.excused = c.excused /\ d.asked = c.asked /\ d.out = c.out
      /\ d.unread = c.unread \ {n} /\ d.scan = Append(c.scan, r)
  <2>1. Shaped(c)
    BY <1>5 DEF Fine
  <2> QED BY <1>4, <1>8, <2>1 DEF Shaped
<1>10. Staged(d)
  BY <1>4, <1>5, <1>9 DEF Staged
<1>11. Reading(d, w, boxes)
  <2>1. /\ IsSeq(d.scan) /\ Len(c.scan) \in Nat /\ Len(d.scan) = Len(c.scan) + 1
        /\ \A i \in 1 .. Len(c.scan) : d.scan[i] = c.scan[i]
        /\ d.scan[Len(c.scan) + 1] = r
    BY <1>4, <1>5, <1>9, Appended DEF Reading
  <2>2. n \in Ever(w) /\ Home(n, w, boxes, HostOf(r))
    BY <1>4, <1>5, <1>7, NowIsSeen DEF Exists, Home
  <2>3. ASSUME NEW i \in 1 .. Len(d.scan)
        PROVE  /\ Whole(d.scan[i]) /\ d.scan[i].spec.name \in Ever(w)
               /\ Home(d.scan[i].spec.name, w, boxes, HostOf(d.scan[i]))
    <3>1. i \in 1 .. Len(c.scan) \/ i = Len(c.scan) + 1
      BY <2>1
    <3> QED BY <1>4, <1>5, <1>7, <2>1, <2>2, <3>1 DEF Reading
  <2>4. ASSUME NEW m \in There(w)
        PROVE  m \in d.unread \/ \E i \in 1 .. Len(d.scan) : d.scan[i].spec.name = m
    <3>1. CASE m = n
      <4>1. Len(c.scan) + 1 \in 1 .. Len(d.scan)
        BY <2>1
      <4> QED BY <1>7, <2>1, <3>1, <4>1
    <3>2. CASE m # n
      <4>1. m \in c.unread \/ \E i \in 1 .. Len(c.scan) : c.scan[i].spec.name = m
        BY <1>4, <1>5 DEF Reading
      <4>2. \A i \in 1 .. Len(c.scan) : i \in 1 .. Len(d.scan)
        BY <2>1
      <4> QED BY <1>9, <2>1, <3>2, <4>1, <4>2
    <3> QED BY <3>1, <3>2
  <2> QED BY <1>4, <1>5, <1>9, <2>1, <2>3, <2>4 DEF Reading
<1>12. Ours(d, w, boxes) /\ Listing(d, w)
  BY <1>4, <1>5, <1>9 DEF Ours, Listing, Staged
<1>13. Acting(d, w)
  BY <1>4, <1>5, <1>9 DEF Fine, Acting, Goal
<1>14. Removal(d, w)
  BY <1>4, <1>5, <1>9 DEF Fine, Removal
<1>15. Failures(d, w)
  BY <1>5, <1>9 DEF Fine, Failures, Excuse
<1>16. Fine(d, w, boxes)
  BY <1>5, <1>9, <1>10, <1>11, <1>12, <1>13, <1>14, <1>15 DEF Fine
<1>17. Set(p, d)
  BY <1>1, <1>3, <1>6, <1>8 DEF ReadNext
<1> QED BY <1>1, <1>2, <1>4, <1>16, <1>17, Stepped

LEMMA VanishedStep ==
  ASSUME Truthful, NEW p \in Processes, Vanished(p)
  PROVE  Truthful'
<1>1. PICK c : c = cmd[p]
  OBVIOUS
<1>2. PICK w : w = was[p]
  OBVIOUS
<1>3. PICK n : n = Earliest(c.unread)
  OBVIOUS
<1>4. /\ c.pc = "read" /\ c.unread # {} /\ ~Exists(n) /\ Meanwhile
      /\ boxes' = boxes /\ was' = was
  BY <1>1, <1>3, NothingChanges DEF Vanished, At
<1>5. /\ Fine(c, w, boxes) /\ Reading(c, w, boxes)
      /\ \A m \in Names : Seen(m, w, boxes)
  BY <1>1, <1>2, <1>4, Knows
<1>6. c.unread \subseteq Names /\ c.unread \subseteq Ever(w)
  BY <1>4, <1>5, EverNamed DEF Reading
<1>7. n \in c.unread
  BY <1>3, <1>4, <1>6, EarliestIsOne
<1>8. Upset(w)
  BY <1>4, <1>5, <1>6, <1>7, NowIsSeen DEF Exists
<1>9. PICK err : err = Over(IF c.todo = <<>> THEN {} ELSE {"NotFound"})
  OBVIOUS
<1>10. Fine(Failing(c, err), w, boxes)
  <2>1. Excuse(c, w, Head(c.todo)) /\ NoneOurs(c, w, boxes)
    BY <1>8 DEF Excuse, NoneOurs
  <2> QED BY <1>4, <1>5, <1>8, <2>1, FailingFine DEF Calls
<1>11. Set(p, Failing(c, err))
  BY <1>1, <1>9 DEF Vanished
<1> QED BY <1>1, <1>2, <1>4, <1>10, <1>11, Stepped

LEMMA MatchStep ==
  ASSUME Truthful, NEW p \in Processes, Match(p)
  PROVE  Truthful'
<1>1. PICK c : c = cmd[p]
  OBVIOUS
<1>2. PICK w : w = was[p]
  OBVIOUS
<1>3. /\ c.pc = "read" /\ c.unread = {} /\ c.todo # <<>> /\ Meanwhile
      /\ boxes' = boxes /\ was' = was
  BY <1>1, NothingChanges DEF Match, At
<1>4. /\ Fine(c, w, boxes) /\ Staged(c) /\ c.req \in Requests /\ Reading(c, w, boxes)
  BY <1>1, <1>2, <1>3, Knows
<1>5. Head(c.todo).name = NoName /\ c.req.kind # "ls"
  BY <1>3, <1>4 DEF Staged
<1>6. c.req.kind = "run" => c.req.name = NoName /\ Head(c.todo).path = c.req.cwd
  BY <1>4, <1>5, RunLooksFor
<1> DEFINE matches == {i \in 1 .. Len(c.scan) : HostOf(c.scan[i]) = Head(c.todo).path}
<1>7. CASE matches = {}
  <2>1. PICK err : err = Over({"NotFound"})
    OBVIOUS
  <2>2. CarrySandbox(Reply(Nothing, {"NotFound"})).err = err /\ err # NoError
    <3>1. {"NotFound"} # NoError
      BY KindsAre, WireAssumption
    <3> QED BY <2>1, <3>1, NothingComesOver DEF CarrySandbox, Reply
  <2>3. Set(p, Failing(c, err))
    BY <1>1, <1>7, <2>2 DEF Match, Inspected, HostOf
  <2>4. c.req.kind = "run" => NoneOurs(c, w, boxes)
    <3> SUFFICES ASSUME c.req.kind = "run", ~Upset(w), NEW n \in There(w)
                 PROVE  boxes[n].path # c.req.cwd
      BY DEF NoneOurs
    <3>1. PICK i \in 1 .. Len(c.scan) : c.scan[i].spec.name = n
      BY <1>3, <1>4 DEF Reading
    <3>2. boxes[n].path = HostOf(c.scan[i])
      BY <1>3, <1>4, <3>1 DEF Reading, Home
    <3> QED BY <1>6, <1>7, <3>2
  <2>5. Excuse(c, w, Head(c.todo))
    BY <1>5 DEF Excuse
  <2>6. Fine(Failing(c, err), w, boxes)
    BY <1>3, <1>4, <1>5, <2>4, <2>5, FailingFine DEF Calls
  <2> QED BY <1>1, <1>2, <1>3, <2>3, <2>6, Stepped
<1>8. CASE matches # {}
  <2>1. PICK first : first = CHOOSE i \in matches : \A k \in matches : i <= k
    OBVIOUS
  <2>2. first \in matches
    <3>1. Len(c.scan) \in Nat
      <4>1. PICK S : c.scan \in Seq(S)
        BY <1>3, <1>4 DEF Reading, IsSeq
      <4> QED BY <4>1, LenProperties
    <3>2. \E i \in matches : \A k \in matches : i <= k
      BY <1>8, <3>1, FirstPlace
    <3> HIDE DEF matches
    <3> QED BY <2>1, <3>2
  <2>3. PICK r : r = c.scan[first]
    OBVIOUS
  <2>4. /\ Whole(r) /\ r.spec.name \in Ever(w) /\ Home(r.spec.name, w, boxes, HostOf(r))
        /\ HostOf(r) = Head(c.todo).path
    BY <1>3, <1>4, <2>2, <2>3 DEF Reading
  <2>5. PICK n, box, status : r = Record(n, box, status) /\ n = r.spec.name
    BY <2>4 DEF Whole
  <2>6. PICK now : Observed(r) = Record(n, box, now)
    BY <2>5, ToldByName
  <2>7. /\ CarrySandbox(Reply(Observed(r), NoError)).err = NoError
        /\ Told(CarrySandbox(Reply(Observed(r), NoError)).value).name = n
    BY <2>6, ToldByName
  <2>8. PICK sb : sb = Told(CarrySandbox(Reply(Observed(r), NoError)).value)
    OBVIOUS
  <2>9. Set(p, Resolved(c, sb))
    BY <1>1, <1>8, <2>1, <2>3, <2>7, <2>8 DEF Match, Inspected, HostOf
  <2>10. Fine(Resolved(c, sb), w, boxes)
    <3>1. n \in Names /\ n \in Ever(w)
      BY <2>4, <2>5, EverNamed
    <3>2. c.req.kind = "run" => IsOurs(c, w, boxes, n)
      BY <1>6, <2>4, <2>5 DEF IsOurs, Home
    <3> QED BY <1>3, <1>4, <1>5, <2>7, <2>8, <3>1, <3>2, ResolvedFine
  <2> QED BY <1>1, <1>2, <1>3, <2>9, <2>10, Stepped
<1> QED BY <1>7, <1>8

LEMMA ListStep ==
  ASSUME Truthful, NEW p \in Processes, List(p)
  PROVE  Truthful'
<1>1. PICK c : c = cmd[p]
  OBVIOUS
<1>2. PICK w : w = was[p]
  OBVIOUS
<1>3. /\ c.pc = "read" /\ c.unread = {} /\ c.todo = <<>> /\ Meanwhile
      /\ boxes' = boxes /\ was' = was
  BY <1>1, NothingChanges DEF List, At
<1>4. /\ Fine(c, w, boxes) /\ Staged(c) /\ c.req.kind \in Kind /\ Reading(c, w, boxes)
      /\ Removal(c, w)
  BY <1>1, <1>2, <1>3, Knows
<1>5. c.req.kind \in {"ls", "rm"}
  BY <1>3, <1>4 DEF Staged
<1>6. Len(c.scan) \in Nat
  <2>1. PICK S : c.scan \in Seq(S)
    BY <1>3, <1>4 DEF Reading, IsSeq
  <2> QED BY <2>1, LenProperties
<1>7. PICK all :
        all = EachOf(Told, CarrySandboxes(Reply(EachOf(Observed, c.scan), NoError)).value)
  OBVIOUS
<1>8. all = [i \in 1 .. Len(c.scan) |->
               Told(CarrySandbox(Reply(Observed(c.scan[i]), NoError)).value)]
  <2> DEFINE Carried(sb) == ApiSandbox(ProtoSandbox(sb))
             seen == [i \in 1 .. Len(c.scan) |-> Observed(c.scan[i])]
             over == [i \in 1 .. Len(seen) |-> Carried(seen[i])]
  <2>1. EachOf(Observed, c.scan) = seen
    BY DEF EachOf
  <2>2. CarrySandboxes(Reply(seen, NoError)).value = over
    BY DEF CarrySandboxes, Reply, EachOf
  <2>3. Len(seen) = Len(c.scan)
    BY <1>6
  <2>4. Len(over) = Len(c.scan)
    BY <1>6, <2>3
  <2>5. \A i \in 1 .. Len(c.scan) : over[i] = Carried(Observed(c.scan[i]))
    BY <2>3
  <2>6. \A sb : CarrySandbox(Reply(sb, NoError)).value = Carried(sb)
    BY DEF CarrySandbox, Reply
  <2> HIDE DEF seen, over, Carried
  <2>7. all = [i \in 1 .. Len(over) |-> Told(over[i])]
    BY <1>7, <2>1, <2>2 DEF EachOf
  <2> QED BY <2>4, <2>5, <2>6, <2>7
<1>9. ASSUME NEW i \in 1 .. Len(c.scan) PROVE all[i].name = c.scan[i].spec.name
  <2>1. PICK r : r = c.scan[i]
    OBVIOUS
  <2>2. PICK n, box, status : r = Record(n, box, status) /\ n = r.spec.name
    BY <1>3, <1>4, <2>1 DEF Reading, Whole
  <2>3. PICK now : Observed(r) = Record(n, box, now)
    BY <2>2, ToldByName
  <2>4. Told(CarrySandbox(Reply(Observed(r), NoError)).value).name = n
    BY <2>3, ToldByName
  <2> QED BY <1>8, <2>1, <2>2, <2>4
<1>10. IsSeq(all) /\ Len(all) = Len(c.scan)
  <2>1. PICK S : S = {all[i] : i \in 1 .. Len(c.scan)}
    OBVIOUS
  <2>2. all \in [1 .. Len(c.scan) -> S]
    BY <1>8, <2>1
  <2>3. all \in Seq(S)
    BY <1>6, <2>2, SeqDef
  <2>4. Len(all) = Len(c.scan)
    BY <1>6, <1>8
  <2> QED BY <2>3, <2>4 DEF IsSeq
<1>11. \A i \in 1 .. Len(all) : all[i].name \in Names
  <2>1. \A i \in 1 .. Len(c.scan) : c.scan[i].spec.name \in Names
    BY <1>3, <1>4, EverNamed DEF Reading
  <2> QED BY <1>9, <1>10, <2>1
<1>12. PICK d : d = [c EXCEPT !.found = all]
  OBVIOUS
<1>13. Fine(d, w, boxes)
  BY <1>3, <1>4, <1>10, <1>11, <1>12, FoundFine
<1>14. /\ d.req = c.req /\ d.pc = c.pc /\ d.found = all /\ d.asked = c.asked
       /\ d.failed = c.failed
  <2>1. Shaped(c)
    BY <1>4 DEF Fine
  <2> QED BY <1>12, <2>1 DEF Shaped
<1>15. Targets(d) = {c.scan[i].spec.name : i \in 1 .. Len(c.scan)}
  BY <1>9, <1>10, <1>14 DEF Targets
<1>16. There(w) \subseteq Targets(d) /\ Targets(d) \subseteq Ever(w)
  BY <1>3, <1>4, <1>15 DEF Reading
<1>17. c.req.kind = "rm" => c.failed = {} /\ c.asked = {}
  BY <1>3, <1>4 DEF Removal
<1>18. Fine(Ended(d, "ok"), w, boxes)
  BY <1>5, <1>13, <1>14, <1>16, <1>17, EndedFine DEF Acts
<1>19. c.req.kind = "rm" /\ all # <<>> => Fine(Goes(d, "check"), w, boxes)
  <2>1. c.req.kind = "rm" => "check" \in Stages(c.req.kind)
    BY <1>4, WhichStages
  <2> QED BY <1>3, <1>13, <1>14, <2>1, GoesFine DEF Acts
<1>20. PICK e : e = IF c.req.kind = "ls" \/ all = <<>> THEN Ended(d, "ok") ELSE Goes(d, "check")
  OBVIOUS
<1>21. Set(p, e)
  BY <1>1, <1>7, <1>12, <1>20 DEF List
<1>22. Fine(e, w, boxes)
  BY <1>5, <1>18, <1>19, <1>20
<1> QED BY <1>1, <1>2, <1>3, <1>21, <1>22, Stepped

(* A sandbox that is there goes on being the one it is.                    *)
LEMMA ChangedBox ==
  ASSUME Truthful, NEW n \in Names, boxes[n] # Gone, NEW status \in {"idle", "running"}
  PROVE  /\ [boxes[n] EXCEPT !.status = status] = Box(boxes[n].path, status, boxes[n].ports)
         /\ \A ports :
              [boxes[n] EXCEPT !.ports = ports] = Box(boxes[n].path, boxes[n].status, ports)
         /\ boxes[n].status \in {"idle", "running"}
BY DEF Truthful, Sound, Box

LEMMA StatusChanges ==
  ASSUME Truthful, NEW n \in Names, boxes[n] # Gone, NEW status \in {"idle", "running"},
         Become(n, [boxes[n] EXCEPT !.status = status])
  PROVE  /\ Meanwhile /\ boxes'[n].path = boxes[n].path
         /\ \A p \in Processes :
              cmd[p].pc \notin {"begin", "done"} => <<n, status>> \in was'[p]
<1>1. PICK box : box = [boxes[n] EXCEPT !.status = status]
  OBVIOUS
<1>2. box = Box(boxes[n].path, status, boxes[n].ports)
  BY <1>1, ChangedBox
<1>3. box.path = boxes[n].path /\ box.status = status /\ box.ports = boxes[n].ports
  BY <1>2 DEF Box
<1>4. /\ Become(n, box) /\ box = Box(box.path, box.status, box.ports)
      /\ box.status \in {"idle", "running"}
  BY <1>1, <1>2, <1>3
<1>5. /\ Meanwhile /\ boxes'[n] = box
      /\ \A p \in Processes :
           cmd[p].pc \notin {"begin", "done"} => <<n, box.status>> \in was'[p]
  BY <1>3, <1>4, OneChanges
<1> QED BY <1>3, <1>5

(* A start: of `start`, or of `run` for its session.                       *)
LEMMA StartStep ==
  ASSUME Truthful, NEW p \in Processes, NEW n \in Names, NEW then, StartCall(p, n, then),
         \/ /\ cmd[p].pc = "do" /\ cmd[p].req.kind = "start" /\ n = cmd[p].box.name
            /\ then = OnToNext(cmd[p])
         \/ cmd[p].pc = "boot" /\ n = cmd[p].box.name /\ then = Goes(cmd[p], "exec")
  PROVE  Truthful'
<1>1. PICK c : c = cmd[p]
  OBVIOUS
<1>2. PICK w : w = was[p]
  OBVIOUS
<1>3. /\ Fine(c, w, boxes) /\ Staged(c) /\ c.req.kind \in Kind /\ Acting(c, w)
      /\ c.pc \in Stages(c.req.kind) /\ \A m \in Names : Seen(m, w, boxes)
  BY <1>1, <1>2, Knows
<1>4. /\ c.pc \in {"do", "boot"}
      /\ c.pc = "do" => c.req.kind = "start" /\ c.todo # <<>>
      /\ c.pc = "boot" => c.req.kind = "run"
      /\ c.pc = "do" => (Head(c.todo).name # NoName => Head(c.todo).name = n)
  BY <1>1, <1>3, WhichStages DEF Acting, Acts, Staged
<1>5. CASE ~Exists(n)
  <2>1. PICK err : err = CarryDone({"NotFound"})
    OBVIOUS
  <2>2. Set(p, Failing(c, err)) /\ Meanwhile /\ boxes' = boxes /\ was' = was
    BY <1>1, <1>5, <2>1, NothingChanges DEF StartCall
  <2>3. n \notin There(w)
    BY <1>3, <1>5, NowIsSeen DEF Exists
  <2>4. c.pc = "do" => Excuse(c, w, Head(c.todo))
    BY <1>4, <2>3 DEF Excuse
  <2>5. Fine(Failing(c, err), w, boxes)
    BY <1>3, <1>4, <2>4, FailingFine DEF Calls, Acts
  <2> QED BY <1>1, <1>2, <1>4, <2>2, <2>5, Stepped
<1>6. CASE Exists(n)
  <2>1. Become(n, [boxes[n] EXCEPT !.status = "running"])
    BY <1>6 DEF StartCall
  <2>2. Meanwhile /\ boxes'[n].path = boxes[n].path /\ <<n, "running">> \in was'[p]
    BY <1>1, <1>4, <1>6, <2>1, StatusChanges DEF Exists
  <2>3. Fine(c, was'[p], boxes')
    BY <1>1, <2>2 DEF Meanwhile
  <2>4. PICK err \in StartErrors(n) :
          Set(p, IF CarryDone(err) = NoError \/ "PortsUnavailable" \in CarryDone(err) THEN then
                 ELSE Failing([c EXCEPT !.excused = @ \/ err = {"CloneFailed"}], CarryDone(err)))
    BY <1>1, <1>6 DEF StartCall
  <2>5. CASE CarryDone(err) = NoError \/ "PortsUnavailable" \in CarryDone(err)
    <3>1. CASE c.pc = "do"
      <4>1. Goal(c) = "running"
        BY <1>4, <3>1 DEF Goal
      <4>2. Fine(OnToNext(c), was'[p], boxes')
        BY <1>4, <2>2, <2>3, <3>1, <4>1, OnToNextFine DEF Acts
      <4>3. Set(p, OnToNext(c))
        BY <1>1, <2>4, <2>5, <3>1
      <4> QED BY <1>1, <2>2, <3>1, <4>2, <4>3, Stepped
    <3>2. CASE c.pc = "boot"
      <4>1. IsOurs(c, was'[p], boxes', c.box.name)
        BY <1>4, <2>3, <3>2 DEF Fine, Ours
      <4>2. "exec" \in Stages(c.req.kind)
        BY <1>3, <1>4, <3>2, WhichStages
      <4>3. Fine(Goes(c, "exec"), was'[p], boxes')
        BY <1>4, <2>3, <3>2, <4>1, <4>2, GoesFine DEF Acts
      <4>4. Set(p, Goes(c, "exec"))
        BY <1>1, <2>4, <2>5, <3>2
      <4> QED BY <1>1, <2>2, <3>2, <4>3, <4>4, Stepped
    <3> QED BY <1>4, <3>1, <3>2
  <2>6. CASE ~(CarryDone(err) = NoError \/ "PortsUnavailable" \in CarryDone(err))
    <3>1. err = {"CloneFailed"}
      <4>1. err \in {NoError, {"CloneFailed"}, {"PortsUnavailable"}}
        BY DEF StartErrors
      <4>2. err # NoError /\ err # {"PortsUnavailable"}
        BY <2>6, PortsComeOver
      <4> QED BY <4>1, <4>2
    <3>2. PICK d : d = [c EXCEPT !.excused = c.excused \/ err = {"CloneFailed"}]
      OBVIOUS
    <3>3. /\ d.excused /\ d.pc = c.pc /\ d.req = c.req
      <4>1. Shaped(c)
        BY <1>3 DEF Fine
      <4>2. (c.excused \/ err = {"CloneFailed"}) = TRUE
        BY <3>1
      <4>3. d = [c EXCEPT !.excused = TRUE]
        BY <3>2, <4>2
      <4> QED BY <4>1, <4>3 DEF Shaped
    <3>4. Fine(d, was'[p], boxes')
      <4>1. c.excused => (c.excused \/ err = {"CloneFailed"})
        OBVIOUS
      <4> QED BY <1>4, <2>3, <3>2, <4>1, ExcusedFine
    <3>5. Fine(Failing(d, CarryDone(err)), was'[p], boxes')
      <4>1. \A r : Excuse(d, was'[p], r)
        BY <3>3 DEF Excuse
      <4> QED BY <1>4, <3>3, <3>4, <4>1, FailingFine DEF Calls
    <3>6. Set(p, Failing(d, CarryDone(err)))
      BY <2>4, <2>6, <3>2
    <3> QED BY <1>1, <1>4, <2>2, <3>5, <3>6, Stepped
  <2> QED BY <2>5, <2>6
<1> QED BY <1>5, <1>6

LEMMA StartOneStep ==
  ASSUME Truthful, NEW p \in Processes, StartOne(p)
  PROVE  Truthful'
<1>1. cmd[p].pc = "do" /\ cmd[p].req.kind = "start"
  BY DEF StartOne, At
<1>2. cmd[p].box.name \in Names
  BY <1>1, Knows DEF Acting, Acts
<1>3. StartCall(p, cmd[p].box.name, OnToNext(cmd[p]))
  BY DEF StartOne
<1> QED BY <1>1, <1>2, <1>3, StartStep

LEMMA BootStep ==
  ASSUME Truthful, NEW p \in Processes, Boot(p)
  PROVE  Truthful'
<1>1. cmd[p].pc = "boot"
  BY DEF Boot, At
<1>2. cmd[p].req.kind = "run"
  BY <1>1, Knows, WhichStages
<1>3. cmd[p].box.name \in Names
  BY <1>1, <1>2, Knows, EverNamed DEF Ours, IsOurs
<1>4. StartCall(p, cmd[p].box.name, Goes(cmd[p], "exec"))
  BY DEF Boot
<1> QED BY <1>1, <1>3, <1>4, StartStep

LEMMA StopOneStep ==
  ASSUME Truthful, NEW p \in Processes, StopOne(p)
  PROVE  Truthful'
<1>1. PICK c : c = cmd[p]
  OBVIOUS
<1>2. PICK n : n = c.box.name
  OBVIOUS
<1>3. c.pc = "do" /\ c.req.kind = "stop"
  BY <1>1 DEF StopOne, At
<1>4. /\ Fine(c, was[p], boxes) /\ Staged(c) /\ Acting(c, was[p])
      /\ \A m \in Names : Seen(m, was[p], boxes)
  BY <1>1, <1>3, Knows
<1>5. n \in Names /\ c.todo # <<>> /\ (Head(c.todo).name # NoName => Head(c.todo).name = n)
  BY <1>2, <1>3, <1>4 DEF Acting, Acts, Staged
<1>6. CASE Exists(n)
  <2>1. Become(n, [boxes[n] EXCEPT !.status = "idle"]) /\ Set(p, OnToNext(c))
    BY <1>1, <1>2, <1>6 DEF StopOne
  <2>2. Meanwhile /\ <<n, "idle">> \in was'[p]
    BY <1>1, <1>3, <1>6, <2>1, StatusChanges DEF Exists
  <2>3. Fine(c, was'[p], boxes') /\ Goal(c) = "idle"
    BY <1>1, <1>3, <2>2 DEF Meanwhile, Goal
  <2>4. Fine(OnToNext(c), was'[p], boxes')
    BY <1>3, <1>5, <2>2, <2>3, OnToNextFine DEF Acts
  <2> QED BY <1>1, <1>3, <2>1, <2>2, <2>4, Stepped
<1>7. CASE ~Exists(n)
  <2>1. Meanwhile /\ boxes' = boxes /\ was' = was /\ Set(p, Failing(c, CarryDone({"NotFound"})))
    BY <1>1, <1>2, <1>7, NothingChanges DEF StopOne
  <2>2. Excuse(c, was[p], Head(c.todo))
    BY <1>4, <1>5, <1>7, NowIsSeen DEF Exists, Excuse
  <2>3. Fine(Failing(c, CarryDone({"NotFound"})), was[p], boxes)
    BY <1>3, <1>4, <2>2, FailingFine DEF Calls
  <2> QED BY <1>1, <1>3, <2>1, <2>3, Stepped
<1> QED BY <1>6, <1>7

LEMMA CheckStep ==
  ASSUME Truthful, NEW p \in Processes, Check(p)
  PROVE  Truthful'
<1>1. PICK c : c = cmd[p]
  OBVIOUS
<1>2. c.pc = "check" /\ Meanwhile /\ boxes' = boxes /\ was' = was
  BY <1>1, NothingChanges DEF Check, At
<1>3. /\ Fine(c, was[p], boxes) /\ Staged(c) /\ c.req.kind \in Kind
      /\ c.pc \in Stages(c.req.kind) /\ Removal(c, was[p])
  BY <1>1, <1>2, Knows
<1>4. c.req.kind = "rm" /\ c.failed = {} /\ c.asked = {} /\ c.found # <<>>
  BY <1>2, <1>3, WhichStages DEF Removal, Staged
<1>5. Fine(Removing(c), was[p], boxes)
  BY <1>2, <1>3, RemovingFine
<1>6. Fine(Ended(c, "error"), was[p], boxes)
  BY <1>3, <1>4, EndedFine DEF Acts
<1>7. Fine(Goes(c, "ask"), was[p], boxes)
  <2>1. "ask" \in Stages(c.req.kind)
    BY <1>3, <1>4, WhichStages
  <2> QED BY <1>2, <1>3, <1>4, <2>1, GoesFine DEF Acts
<1>8. PICK e : e \in {Removing(c), Ended(c, "error"), Goes(c, "ask")} /\ Set(p, e)
  BY <1>1 DEF Check
<1> QED BY <1>1, <1>2, <1>5, <1>6, <1>7, <1>8, Stepped

LEMMA AskStep ==
  ASSUME Truthful, NEW p \in Processes, Ask(p)
  PROVE  Truthful'
<1>1. PICK c : c = cmd[p]
  OBVIOUS
<1>2. c.pc = "ask" /\ Meanwhile /\ boxes' = boxes /\ was' = was
  BY <1>1, NothingChanges DEF Ask, At
<1>3. /\ Fine(c, was[p], boxes) /\ Staged(c) /\ c.req.kind \in Kind
      /\ c.pc \in Stages(c.req.kind) /\ Removal(c, was[p])
  BY <1>1, <1>2, Knows
<1>4. c.req.kind = "rm" /\ c.failed = {} /\ c.asked = {}
  BY <1>2, <1>3, WhichStages DEF Removal
<1>5. Fine(Removing(c), was[p], boxes)
  BY <1>2, <1>3, RemovingFine
<1>6. \A out \in {"ok", "error"} : Fine(Ended(c, out), was[p], boxes)
  BY <1>3, <1>4, EndedFine DEF Acts
<1>7. PICK e : e \in {Removing(c), Ended(c, "ok"), Ended(c, "error")} /\ Set(p, e)
  BY <1>1 DEF Ask
<1> QED BY <1>1, <1>2, <1>5, <1>6, <1>7, Stepped

LEMMA RemoveOneStep ==
  ASSUME Truthful, NEW p \in Processes, RemoveOne(p)
  PROVE  Truthful'
<1>1. PICK c : c = cmd[p]
  OBVIOUS
<1>2. PICK n : n = Head(c.todo).name
  OBVIOUS
<1>3. c.pc = "do" /\ c.req.kind = "rm"
  BY <1>1 DEF RemoveOne, At
<1>4. /\ Fine(c, was[p], boxes) /\ Staged(c) /\ Removal(c, was[p]) /\ c.todo \in Seq(References)
      /\ \A m \in Names : Seen(m, was[p], boxes)
  BY <1>1, <1>3, Knows
<1>5. c.todo # <<>>
  BY <1>3, <1>4 DEF Staged
<1>6. n \in c.asked /\ n \in Names
  <2>1. Head(c.todo) \in ToSet(c.todo)
    BY <1>4, <1>5, RangeSplits
  <2> QED BY <1>2, <1>3, <1>4, <2>1 DEF Removal
<1>7. CASE Exists(n) /\ (c.req.force \/ boxes[n].status # "running")
  <2>1. Become(n, Gone) /\ Set(p, OnToNext(c))
    BY <1>1, <1>2, <1>7 DEF RemoveOne
  <2>2. Gone = Box(Gone.path, Gone.status, Gone.ports) /\ Gone.status = "gone"
    BY DEF Gone, Box
  <2>3. Meanwhile /\ <<n, "gone">> \in was'[p]
    <3>1. Meanwhile /\ <<n, Gone.status>> \in was'[p]
      BY <1>1, <1>3, <1>6, <2>1, <2>2, OneChanges
    <3> QED BY <2>2, <3>1
  <2>4. Fine(c, was'[p], boxes') /\ Goal(c) = "gone"
    BY <1>1, <1>3, <2>3 DEF Meanwhile, Goal
  <2>5. Fine(OnToNext(c), was'[p], boxes')
    BY <1>2, <1>3, <1>5, <2>3, <2>4, OnToNextFine
  <2> QED BY <1>1, <1>3, <2>1, <2>3, <2>5, Stepped
<1>8. CASE ~(Exists(n) /\ (c.req.force \/ boxes[n].status # "running"))
  <2>1. PICK err : err = CarryDone({IF Exists(n) THEN "Running" ELSE "NotFound"})
    OBVIOUS
  <2>2. Meanwhile /\ boxes' = boxes /\ was' = was /\ Set(p, Failing(c, err))
    BY <1>1, <1>2, <1>8, <2>1, NothingChanges DEF RemoveOne
  <2>3. Excuse(c, was[p], Head(c.todo))
    <3>1. CASE Exists(n)
      <4>1. <<n, "running">> \in was[p]
        BY <1>4, <1>8, <3>1 DEF Exists, Seen
      <4> QED BY <1>2, <1>3, <4>1 DEF Excuse
    <3>2. CASE ~Exists(n)
      BY <1>2, <1>4, <1>6, <3>2, NowIsSeen DEF Exists, Excuse
    <3> QED BY <3>1, <3>2
  <2>4. Fine(Failing(c, err), was[p], boxes)
    BY <1>3, <1>4, <2>3, FailingFine DEF Calls
  <2> QED BY <1>1, <1>3, <2>2, <2>4, Stepped
<1> QED BY <1>7, <1>8

(* Elsewhere than in `ls`, `rm`, `start` and `stop`, a command just ends.  *)
LEMMA JustEnds ==
  ASSUME NEW c, NEW w, NEW b, NEW out \in {"ok", "error"}, Fine(c, w, b),
         c.req.kind \notin Acts \cup {"ls", "rm"}
  PROVE  Fine(Ended(c, out), w, b)
BY EndedFine

(* Where a command goes to once there is a policy.                         *)
LEMMA GoesAfterPolicy ==
  ASSUME NEW c, NEW w, NEW b, Fine(c, w, b), c.pc \in {"policy", "choose"}
  PROVE  /\ c.req.kind \in {"run", "create"}
         /\ \A pc \in {"choose", AfterPolicy(c)} : Fine(Goes(c, pc), w, b)
<1>1. Staged(c) /\ c.req \in Requests /\ c.req.kind \in Kind /\ c.pc \in Stages(c.req.kind)
  BY DEF Fine, Staged, Requests
<1>2. c.req.kind \in {"run", "create"}
  BY <1>1, WhichStages
<1>3. \A pc \in {"choose", AfterPolicy(c)} :
        /\ pc \in Stages(c.req.kind) /\ pc \in {"choose", "look", "pull"}
        /\ pc = "pull" => c.req.kind # "run"
        /\ pc = "look" => c.req.kind = "run"
  <2>1. \A kind \in {"run", "create"} :
          /\ "choose" \in Stages(kind)
          /\ kind = "run" => "look" \in Stages(kind)
          /\ kind = "create" => "pull" \in Stages(kind)
    BY WhichStages DEF Kind
  <2> QED BY <1>2, <2>1 DEF AfterPolicy
<1>4. c.req.kind = "run" => c.todo # <<>>
  BY <1>1, RunLooksFor
<1>5. ASSUME NEW pc \in {"choose", AfterPolicy(c)} PROVE Fine(Goes(c, pc), w, b)
  BY <1>1, <1>2, <1>3, <1>4, GoesFine DEF Acts
<1> QED BY <1>2, <1>5

LEMMA EnsurePolicyStep ==
  ASSUME Truthful, NEW p \in Processes, EnsurePolicy(p)
  PROVE  Truthful'
<1>1. PICK c : c = cmd[p]
  OBVIOUS
<1>2. c.pc = "policy" /\ Meanwhile /\ boxes' = boxes /\ was' = was
  BY <1>1, NothingChanges DEF EnsurePolicy, At
<1>3. Fine(c, was[p], boxes)
  BY <1>1, <1>2, Knows
<1>4. PICK pc \in {"choose", AfterPolicy(c)} : Set(p, Goes(c, pc))
  BY <1>1 DEF EnsurePolicy
<1>5. Fine(Goes(c, pc), was[p], boxes)
  BY <1>2, <1>3, GoesAfterPolicy
<1> QED BY <1>1, <1>2, <1>4, <1>5, Stepped

LEMMA ChoosePolicyStep ==
  ASSUME Truthful, NEW p \in Processes, ChoosePolicy(p)
  PROVE  Truthful'
<1>1. PICK c : c = cmd[p]
  OBVIOUS
<1>2. c.pc = "choose" /\ Meanwhile /\ boxes' = boxes /\ was' = was
  BY <1>1, NothingChanges DEF ChoosePolicy, At
<1>3. Fine(c, was[p], boxes)
  BY <1>1, <1>2, Knows
<1>4. Fine(Goes(c, AfterPolicy(c)), was[p], boxes)
  BY <1>2, <1>3, GoesAfterPolicy
<1>5. Fine(Ended(c, "error"), was[p], boxes)
  BY <1>2, <1>3, GoesAfterPolicy, JustEnds DEF Acts
<1>6. Set(p, Goes(c, AfterPolicy(c))) \/ Set(p, Ended(c, "error"))
  BY <1>1 DEF ChoosePolicy
<1> QED BY <1>1, <1>2, <1>4, <1>5, <1>6, Stepped

LEMMA PullStep ==
  ASSUME Truthful, NEW p \in Processes, Pull(p)
  PROVE  Truthful'
<1>1. PICK c : c = cmd[p]
  OBVIOUS
<1>2. c.pc = "pull" /\ Meanwhile /\ boxes' = boxes /\ was' = was
  BY <1>1, NothingChanges DEF Pull, At
<1>3. /\ Fine(c, was[p], boxes) /\ c.req.kind \in Kind /\ Ours(c, was[p], boxes)
      /\ c.pc \in Stages(c.req.kind)
  BY <1>1, <1>2, Knows
<1>4. c.req.kind \in {"run", "create"} /\ "create" \in Stages(c.req.kind)
  BY <1>2, <1>3, WhichStages
<1>5. c.req.kind = "run" => NoneOurs(c, was[p], boxes)
  BY <1>2, <1>3 DEF Ours
<1>6. Fine(Goes(c, "create"), was[p], boxes)
  BY <1>2, <1>3, <1>4, <1>5, GoesFine DEF Acts
<1>7. Set(p, Goes(c, "create"))
  BY <1>1 DEF Pull
<1> QED BY <1>1, <1>2, <1>6, <1>7, Stepped

(* What was made is told of by its name, with its remote or without.       *)
LEMMA MadeByName ==
  ASSUME NEW n, NEW box, NEW status, NEW err \in {NoError, {"RemoteNotAdded"}}
  PROVE  Told(CarryCreated(Reply(Record(n, box, status), err)).value).name = n
<1>1. PICK r : r = Record(n, box, status)
  OBVIOUS
<1>2. /\ Told(CarrySandbox(Reply(r, NoError)).value).name = n
      /\ CarrySandbox(Reply(r, NoError)).value = ApiSandbox(ProtoSandbox(r))
  BY <1>1, ToldByName DEF CarrySandbox, Reply
<1>3. CASE err = NoError
  <2>1. CarryCreated(Reply(r, err)) = CarrySandbox(Reply(r, NoError))
    BY <1>3 DEF CarryCreated, Reply
  <2> QED BY <1>1, <1>2, <2>1
<1>4. CASE err = {"RemoteNotAdded"}
  <2>1. err # NoError
    BY <1>4, KindsAre, WireAssumption
  <2>2. CarryCreated(Reply(r, err)).value = ApiSandbox(ProtoSandbox(r))
    BY <1>4, <2>1 DEF CarryCreated, Reply
  <2> QED BY <1>1, <1>2, <2>2
<1> QED BY <1>3, <1>4

LEMMA CreateStep ==
  ASSUME Truthful, NEW p \in Processes, Create(p)
  PROVE  Truthful'
<1>1. PICK c : c = cmd[p]
  OBVIOUS
<1>2. PICK n : n = IF c.req.name = NoName THEN DirName[Workspace[c.req.cwd]] ELSE c.req.name
  OBVIOUS
<1>3. PICK box : box = Box(Workspace[c.req.cwd], "idle", <<>>)
  OBVIOUS
<1>4. c.pc = "create"
  BY <1>1 DEF Create, At
<1>5. /\ Fine(c, was[p], boxes) /\ c.req \in Requests /\ c.req.kind \in Kind
      /\ c.pc \in Stages(c.req.kind)
  BY <1>1, <1>4, Knows
<1>6. c.req.kind \in {"run", "create"}
  BY <1>4, <1>5, WhichStages
<1>7. n \in Names
  BY <1>2, <1>5, CommandsAssumption DEF Requests
<1>8. CASE Exists(n)
  <2>1. PICK err : err = CarryDone({"Exists"})
    OBVIOUS
  <2>2. Meanwhile /\ boxes' = boxes /\ was' = was /\ Set(p, Failing(c, err))
    BY <1>1, <1>2, <1>8, <2>1, NothingChanges DEF Create
  <2>3. Fine(Failing(c, err), was[p], boxes)
    BY <1>4, <1>5, JustFails DEF Calls
  <2> QED BY <1>1, <1>4, <2>2, <2>3, Stepped
<1>9. CASE ~Exists(n)
  <2>1. Become(n, box)
    BY <1>1, <1>2, <1>3, <1>9 DEF Create
  <2>2. /\ box.path = Workspace[c.req.cwd] /\ box.status = "idle" /\ box = Box(box.path, box.status, box.ports)
        /\ boxes[n] = Gone
    BY <1>3, <1>7, <1>9 DEF Box, Exists
  <2>3. Meanwhile /\ boxes'[n] = box /\ <<n, "idle">> \in was'[p]
    <3>1. Meanwhile /\ boxes'[n] = box /\ <<n, box.status>> \in was'[p]
      BY <1>1, <1>4, <1>7, <2>1, <2>2, OneChanges
    <3> QED BY <2>2, <3>1
  <2>4. PICK err \in {NoError, {"RemoteNotAdded"}} :
          LET made == CarryCreated(Reply(Record(n, box, "idle"), err))
              d == [c EXCEPT !.box = Told(made.value), !.made = n]
          IN Set(p, IF c.req.add # <<>> THEN Goes(d, "publish")
                    ELSE IF c.req.kind = "run" THEN Goes(d, "boot")
                    ELSE Ended(d, "ok"))
    BY <1>1, <1>2, <1>3, <1>9 DEF Create
  <2>5. PICK sb : sb = Told(CarryCreated(Reply(Record(n, box, "idle"), err)).value)
    OBVIOUS
  <2>6. sb.name = n
    BY <2>5, MadeByName
  <2>7. PICK x : x = [c EXCEPT !.box = sb]
    OBVIOUS
  <2>8. PICK d : d = [x EXCEPT !.made = n]
    OBVIOUS
  <2>9. Shaped(c)
    BY <1>5 DEF Fine
  <2>10. d = [c EXCEPT !.box = sb, !.made = n]
    BY <2>7, <2>8, <2>9 DEF Shaped
  <2>11. d.req = c.req /\ d.pc = c.pc /\ d.box = sb
    BY <2>9, <2>10 DEF Shaped
  <2>12. Fine(d, was'[p], boxes')
    <3>1. Fine(c, was'[p], boxes')
      BY <1>1, <2>3 DEF Meanwhile
    <3>2. Fine(x, was'[p], boxes') /\ x.pc = c.pc
      <4>1. x.pc = c.pc
        BY <2>7, <2>9 DEF Shaped
      <4>2. Fine(x, was'[p], boxes')
        BY <1>4, <2>7, <3>1, BoxFine
      <4> QED BY <4>1, <4>2
    <3> QED BY <1>4, <2>8, <3>2, MadeFine
  <2>13. PICK pc : pc = IF c.req.add # <<>> THEN "publish" ELSE "boot"
    OBVIOUS
  <2>14. CASE c.req.add # <<>> \/ c.req.kind = "run"
    <3>1. pc \in {"publish", "boot"} /\ pc \in Stages(c.req.kind)
      <4>1. "publish" \in Stages(c.req.kind) /\ (c.req.kind = "run" => "boot" \in Stages(c.req.kind))
        BY <1>5, <1>6, WhichStages
      <4> QED BY <2>13, <2>14, <4>1
    <3>2. IsOurs(d, was'[p], boxes', d.box.name)
      BY <1>7, <2>2, <2>3, <2>6, <2>11 DEF IsOurs, Ever
    <3>3. Fine(Goes(d, pc), was'[p], boxes')
      BY <1>4, <1>6, <2>11, <2>12, <3>1, <3>2, GoesFine DEF Acts
    <3>4. Set(p, Goes(d, pc))
      BY <2>4, <2>5, <2>10, <2>13, <2>14
    <3> QED BY <1>1, <1>4, <2>3, <3>3, <3>4, Stepped
  <2>15. CASE ~(c.req.add # <<>> \/ c.req.kind = "run")
    <3>1. Fine(Ended(d, "ok"), was'[p], boxes')
      BY <1>6, <2>11, <2>12, JustEnds DEF Acts
    <3>2. Set(p, Ended(d, "ok"))
      BY <2>4, <2>5, <2>10, <2>15
    <3> QED BY <1>1, <1>4, <2>3, <3>1, <3>2, Stepped
  <2> QED BY <2>14, <2>15
<1> QED BY <1>8, <1>9

LEMMA PublishStep ==
  ASSUME Truthful, NEW p \in Processes, Publish(p)
  PROVE  Truthful'
<1>1. PICK c : c = cmd[p]
  OBVIOUS
<1>2. PICK n : n = c.box.name
  OBVIOUS
<1>3. c.pc = "publish"
  BY <1>1 DEF Publish, At
<1>4. Fine(c, was[p], boxes) /\ c.req.kind \in Kind /\ c.pc \in Stages(c.req.kind)
  BY <1>1, <1>3, Knows
<1>5. c.req.kind \in {"ports", "create", "run"} /\ (c.req.kind = "run" => "boot" \in Stages(c.req.kind))
  BY <1>3, <1>4, WhichStages
<1>6. CASE ~Exists(n)
  <2>1. PICK err : err = CarryDone({"NotFound"})
    OBVIOUS
  <2>2. Meanwhile /\ boxes' = boxes /\ was' = was /\ Set(p, Failing(c, err))
    BY <1>1, <1>2, <1>6, <2>1, NothingChanges DEF Publish
  <2>3. Fine(Failing(c, err), was[p], boxes)
    BY <1>3, <1>4, JustFails DEF Calls
  <2> QED BY <1>1, <1>3, <2>2, <2>3, Stepped
<1>7. CASE Exists(n)
  <2>1. PICK box : box = [boxes[n] EXCEPT !.ports = Wanted(c)]
    OBVIOUS
  <2>2. Become(n, box) /\ n \in Names /\ boxes[n] # Gone
    BY <1>1, <1>2, <1>7, <2>1 DEF Publish, Exists
  <2>3. box = Box(boxes[n].path, boxes[n].status, Wanted(c)) /\ boxes[n].status \in {"idle", "running"}
    <3>1. \A status \in {"idle", "running"} :
            [boxes[n] EXCEPT !.ports = Wanted(c)] = Box(boxes[n].path, boxes[n].status, Wanted(c))
            /\ boxes[n].status \in {"idle", "running"}
      BY <2>2, ChangedBox
    <3> QED BY <2>1, <3>1
  <2>4. /\ box.path = boxes[n].path /\ box.status \in {"idle", "running"}
        /\ box = Box(box.path, box.status, box.ports)
    BY <2>3 DEF Box
  <2>5. Meanwhile
    BY <2>2, <2>4, OneChanges
  <2>6. Fine(c, was'[p], boxes')
    BY <1>1, <2>5 DEF Meanwhile
  <2>7. PICK e : /\ Set(p, e)
                 /\ \/ e = Goes(c, "boot") /\ c.req.kind = "run"
                    \/ e = Ended(c, "ok") /\ c.req.kind # "run"
                    \/ e = Failing(c, CarryDone({"PortsUnavailable"}))
    BY <1>1, <1>2, <1>7 DEF Publish
  <2>8. CASE e = Goes(c, "boot") /\ c.req.kind = "run"
    <3>1. IsOurs(c, was'[p], boxes', c.box.name)
      BY <1>3, <2>6, <2>8 DEF Fine, Ours
    <3>2. Fine(e, was'[p], boxes')
      BY <1>3, <1>5, <2>6, <2>8, <3>1, GoesFine DEF Acts
    <3> QED BY <1>1, <1>3, <2>5, <2>7, <3>2, Stepped
  <2>9. CASE e = Ended(c, "ok") /\ c.req.kind # "run"
    <3>1. Fine(e, was'[p], boxes')
      BY <1>5, <2>6, <2>9, JustEnds DEF Acts
    <3> QED BY <1>1, <1>3, <2>5, <2>7, <3>1, Stepped
  <2>10. CASE e = Failing(c, CarryDone({"PortsUnavailable"}))
    <3>1. Fine(e, was'[p], boxes')
      BY <1>3, <2>6, <2>10, JustFails DEF Calls
    <3> QED BY <1>1, <1>3, <2>5, <2>7, <3>1, Stepped
  <2> QED BY <2>7, <2>8, <2>9, <2>10
<1> QED BY <1>6, <1>7

LEMMA ExecStep ==
  ASSUME Truthful, NEW p \in Processes, Exec(p)
  PROVE  Truthful'
<1>1. PICK c : c = cmd[p]
  OBVIOUS
<1>2. c.pc = "exec" /\ Meanwhile /\ boxes' = boxes /\ was' = was
  BY <1>1, NothingChanges DEF Exec, At
<1>3. Fine(c, was[p], boxes) /\ c.req.kind \in Kind /\ c.pc \in Stages(c.req.kind)
  BY <1>1, <1>2, Knows
<1>4. PICK joined : joined = Told(Record(SessionOf(c), boxes[SessionOf(c)], "running"))
  OBVIOUS
<1>5. PICK d : d = [c EXCEPT !.joined = joined]
  OBVIOUS
<1>6. Fine(Ended(d, "ok"), was[p], boxes)
  <2>1. Fine(d, was[p], boxes)
    BY <1>2, <1>3, <1>5, MadeFine
  <2>2. d.req = c.req
    <3>1. Shaped(c)
      BY <1>3 DEF Fine
    <3> QED BY <1>5, <3>1 DEF Shaped
  <2>3. c.req.kind \in {"exec", "forward", "run"}
    BY <1>2, <1>3, WhichStages
  <2> QED BY <2>1, <2>2, <2>3, JustEnds DEF Acts
<1>7. \A err : Fine(Failing(c, err), was[p], boxes)
  BY <1>2, <1>3, JustFails DEF Calls
<1>8. PICK e : /\ e \in {Failing(c, CarryDone({"NotFound"})), Failing(c, CarryDone({})), Ended(d, "ok")}
               /\ Set(p, e)
  BY <1>1, <1>4, <1>5 DEF Exec
<1>9. Fine(e, was[p], boxes)
  BY <1>6, <1>7, <1>8
<1> QED BY <1>1, <1>2, <1>8, <1>9, Stepped

LEMMA CopyStep ==
  ASSUME Truthful, NEW p \in Processes, Copy(p)
  PROVE  Truthful'
<1>1. PICK c : c = cmd[p]
  OBVIOUS
<1>2. c.pc = "copy" /\ Meanwhile /\ boxes' = boxes /\ was' = was
  BY <1>1, NothingChanges DEF Copy, At
<1>3. Fine(c, was[p], boxes) /\ c.req.kind \in Kind /\ c.pc \in Stages(c.req.kind)
  BY <1>1, <1>2, Knows
<1>4. c.req.kind = "cp"
  BY <1>2, <1>3, WhichStages
<1>5. Fine(Ended(c, "ok"), was[p], boxes) /\ \A err : Fine(Failing(c, err), was[p], boxes)
  BY <1>2, <1>3, <1>4, JustEnds, JustFails DEF Acts, Calls
<1>6. PICK e : e \in {Ended(c, "ok"), Failing(c, CarryDone({"NotFound"}))} /\ Set(p, e)
  BY <1>1 DEF Copy
<1>7. Fine(e, was[p], boxes)
  BY <1>5, <1>6
<1> QED BY <1>1, <1>2, <1>6, <1>7, Stepped

-----------------------------------------------------------------------------
(* The invariant                                                           *)

LEMMA TruthfulFirst ==
  Init => Truthful
<1> SUFFICES ASSUME Init PROVE Truthful
  OBVIOUS
<1>1. boxes \in [Names -> {Gone} \cup
                   [path : Paths, status : {"idle", "running"}, ports : Seq(Mappings)]]
  BY CommandsAssumption DEF Init
<1>2. Sound(boxes)
  <2>1. ASSUME NEW n \in Names
        PROVE  /\ boxes[n] = Box(boxes[n].path, boxes[n].status, boxes[n].ports)
               /\ boxes[n] # Gone => boxes[n].status \in {"idle", "running"}
    BY <1>1 DEF Box, Gone
  <2> QED BY <1>1, <2>1 DEF Sound
<1>3. PICK r \in Runs : cmd = [p \in Processes |-> Idle(r[p])]
  BY DEF Init
<1>4. was = [p \in Processes |-> {}]
  BY DEF Init
<1>5. ASSUME NEW p \in Processes
      PROVE  cmd[p].pc = "begin" /\ Fine(cmd[p], was[p], boxes)
  <2>1. PICK q : q = r[p]
    OBVIOUS
  <2>2. q \in Requests
    BY <1>3, <2>1, CommandsAssumption
  <2>3. PICK c : c = cmd[p]
    OBVIOUS
  <2>4. c = Idle(q)
    BY <1>3, <2>1, <2>3
  <2>5. /\ Shaped(c) /\ c.req = q /\ c.pc = "begin" /\ c.todo = q.refs /\ c.found = <<>>
        /\ c.failed = {} /\ c.asked = {} /\ c.out = "none"
    BY <2>4 DEF Idle, Shaped
  <2>6. q.kind \in Kind /\ q.refs \in Seq(References)
    BY <2>2 DEF Requests
  <2>7. Staged(c)
    BY <2>2, <2>4, <2>5, <2>6 DEF Staged, Stages, Requests
  <2>8. /\ Reading(c, was[p], boxes) /\ Ours(c, was[p], boxes) /\ Listing(c, was[p])
        /\ Acting(c, was[p]) /\ Failures(c, was[p])
    BY <2>5 DEF Reading, Ours, Listing, Acting, Failures
  <2>9. Removal(c, was[p])
    <3>1. IsSeq(<<>>) /\ Len(<<>>) = 0
      <4>1. <<>> \in Seq({})
        OBVIOUS
      <4> QED BY <4>1 DEF IsSeq
    <3> QED BY <2>5, <3>1 DEF Removal
  <2> QED BY <2>2, <2>3, <2>5, <2>6, <2>7, <2>8, <2>9 DEF Fine
<1> QED BY <1>2, <1>3, <1>4, <1>5 DEF Truthful

LEMMA TruthfulGoesOn ==
  Truthful /\ [Next]_vars => Truthful'
<1> SUFFICES ASSUME Truthful, [Next]_vars PROVE Truthful'
  OBVIOUS
<1>1. CASE UNCHANGED vars
  <2>1. boxes' = boxes /\ cmd' = cmd /\ was' = was
    BY <1>1 DEF vars
  <2>2. Sound(boxes')
    BY <2>1 DEF Truthful
  <2>3. /\ cmd' = [p \in Processes |-> cmd'[p]] /\ was' = [p \in Processes |-> was'[p]]
        /\ \A p \in Processes : Fine(cmd'[p], was'[p], boxes')
        /\ \A p \in Processes, n \in Names :
             cmd'[p].pc \notin {"begin", "done"} => Seen(n, was'[p], boxes')
    BY <2>1 DEF Truthful
  <2> QED BY <2>2, <2>3 DEF Truthful
<1>2. CASE Next
  <2>1. PICK p \in Processes :
          Begin(p) \/ Refuse(p) \/ Lookup(p) \/ Lifecycle(p) \/ Making(p) \/ Exec(p) \/ Copy(p)
    BY <1>2 DEF Next
  <2>2. CASE Begin(p) \/ Refuse(p) \/ Exec(p) \/ Copy(p)
    BY <2>2, BeginStep, RefuseStep, ExecStep, CopyStep
  <2>3. CASE Lookup(p)
    BY <2>3, LookStep, ReadDirStep, ReadNextStep, VanishedStep, MatchStep, ListStep DEF Lookup
  <2>4. CASE Lifecycle(p)
    BY <2>4, StartOneStep, StopOneStep, CheckStep, AskStep, RemoveOneStep DEF Lifecycle
  <2>5. CASE Making(p)
    BY <2>5, EnsurePolicyStep, ChoosePolicyStep, PullStep, CreateStep, PublishStep, BootStep DEF Making
  <2> QED BY <2>1, <2>2, <2>3, <2>4, <2>5
<1> QED BY <1>1, <1>2

LEMMA AlwaysTruthful ==
  Spec => []Truthful
BY TruthfulFirst, TruthfulGoesOn, PTL DEF Spec


-----------------------------------------------------------------------------
(* What follows from it                                                    *)

LEMMA HasBeen ==
  \A p : /\ Throughout(p) = There(was[p]) /\ Sometime(p) = Ever(was[p])
         /\ Disturbed(p) <=> Upset(was[p])
BY DEF Throughout, There, Sometime, Ever, Disturbed, Upset

(* What `plbx ls` prints has everything that was there all the while it    *)
(* ran and nothing that never was, and it fails only for a reason (ls.go;  *)
(* store.go, List).                                                        *)
THEOREM ListingIsFaithful == Spec => []ListingFaithful
<1>1. Truthful => ListingFaithful
  <2> SUFFICES ASSUME Truthful, NEW p \in Processes
               PROVE  /\ Succeeded(p, "ls") =>
                           Throughout(p) \subseteq Targets(cmd[p])
                             /\ Targets(cmd[p]) \subseteq Sometime(p)
                      /\ cmd[p].req.kind = "ls" /\ cmd[p].out = "error" =>
                           cmd[p].excused \/ Disturbed(p)
    BY DEF ListingFaithful
  <2>1. Listing(cmd[p], was[p])
    BY DEF Truthful, Fine
  <2> QED BY <2>1, HasBeen DEF Listing, Succeeded
<1> QED BY <1>1, AlwaysTruthful, PTL

(* `start`, `stop` and `rm` of several names end well only if none failed, *)
(* have done what they do not report as failed, and report as failed only  *)
(* what could not be done (lifecycle.go, eachSandbox and newRmCmd).        *)
THEOREM ReportsAreTrue == Spec => []ReportsTruly
<1>1. Truthful => ReportsTruly
  <2> SUFFICES ASSUME Truthful, NEW p \in Processes,
                      cmd[p].pc = "done", cmd[p].req.kind \in Acts \cup {"rm"}
               PROVE  LET c == cmd[p]
                          named == IF c.req.kind = "rm" THEN {ByName(n) : n \in c.asked}
                                   ELSE {r \in ToSet(c.req.refs) : r.name # NoName}
                      IN /\ c.out = "ok" => c.failed = {}
                         /\ \A r \in named \ c.failed : Reached(p, r.name)
                         /\ \A r \in c.failed :
                              \/ c.excused \/ Disturbed(p)
                              \/ r.name = NoName \/ r.name \notin Throughout(p)
                              \/ c.req.kind = "rm" /\ <<r.name, "running">> \in was[p]
    BY DEF ReportsTruly
  <2>1. PICK c : c = cmd[p]
    OBVIOUS
  <2>2. Acting(c, was[p]) /\ Removal(c, was[p]) /\ Failures(c, was[p])
    BY <2>1 DEF Truthful, Fine
  <2>3. /\ c.out = "ok" => c.failed = {}
        /\ \A r \in c.failed : Excuse(c, was[p], r)
    BY <2>1, <2>2 DEF Failures
  <2>4. \A n : <<n, Goal(c)>> \in was[p] => Reached(p, n)
    BY <2>1 DEF Goal, Reached
  <2>5. CASE c.req.kind = "rm"
    <3>1. Goal(c) = "gone"
      BY <2>5 DEF Goal
    <3>2. \A n \in c.asked : ByName(n) \in c.failed \/ <<n, "gone">> \in was[p]
      BY <2>1, <2>2, <2>5 DEF Removal
    <3>3. \A n : ByName(n).name = n
      BY DEF ByName
    <3>4. \A r \in {ByName(n) : n \in c.asked} \ c.failed : Reached(p, r.name)
      BY <2>4, <3>1, <3>2, <3>3
    <3> QED BY <2>1, <2>3, <2>5, <3>4, HasBeen DEF Excuse
  <2>6. CASE c.req.kind \in Acts
    <3>1. c.req.kind # "rm"
      BY <2>6 DEF Acts
    <3>2. \A r \in {r \in ToSet(c.req.refs) : r.name # NoName} \ c.failed : Reached(p, r.name)
      BY <2>1, <2>2, <2>4, <2>6 DEF Acting
    <3> QED BY <2>1, <2>3, <3>1, <3>2, HasBeen DEF Excuse
  <2> QED BY <2>1, <2>5, <2>6
<1> QED BY <1>1, AlwaysTruthful, PTL

(* Only becoming Gone is a removal.                                        *)
LEMMA StaysThere ==
  ASSUME Truthful, NEW m \in Names, NEW box, box.status \in {"idle", "running"}, Become(m, box),
         NEW n \in Names, boxes'[n] = Gone
  PROVE  boxes[n] = Gone
<1>1. boxes = [k \in Names |-> boxes[k]] /\ boxes' = [boxes EXCEPT ![m] = box]
  BY DEF Truthful, Sound, Become
<1>2. box # Gone
  BY DEF Gone, Box
<1> QED BY <1>1, <1>2

LEMMA StatusStays ==
  ASSUME Truthful, NEW m \in Names, boxes[m] # Gone
  PROVE  /\ \A status \in {"idle", "running"} :
              [boxes[m] EXCEPT !.status = status].status \in {"idle", "running"}
         /\ \A ports : [boxes[m] EXCEPT !.ports = ports].status \in {"idle", "running"}
<1>1. boxes[m].status \in {"idle", "running"}
  BY DEF Truthful, Sound
<1>2. \A status \in {"idle", "running"} :
        [boxes[m] EXCEPT !.status = status] = Box(boxes[m].path, status, boxes[m].ports)
  BY ChangedBox
<1>3. \A ports : [boxes[m] EXCEPT !.ports = ports] = Box(boxes[m].path, boxes[m].status, ports)
  BY ChangedBox
<1> QED BY <1>1, <1>2, <1>3 DEF Box

LEMMA StartKeeps ==
  ASSUME Truthful, NEW p, NEW m, NEW then, StartCall(p, m, then), NEW n \in Names,
         boxes'[n] = Gone
  PROVE  boxes[n] = Gone
<1>1. CASE Exists(m)
  <2>1. m \in Names /\ boxes[m] # Gone /\ Become(m, [boxes[m] EXCEPT !.status = "running"])
    BY <1>1 DEF StartCall, Exists
  <2>2. PICK box : box = [boxes[m] EXCEPT !.status = "running"]
    OBVIOUS
  <2>3. box.status \in {"idle", "running"} /\ m \in Names
    BY <2>1, <2>2, StatusStays
  <2>4. Become(m, box)
    BY <2>1, <2>2
  <2> QED BY <2>3, <2>4, StaysThere
<1>2. CASE ~Exists(m)
  BY <1>2 DEF StartCall, Same
<1> QED BY <1>1, <1>2

(* A sandbox goes only when an `rm` removes it.                            *)
LEMMA GoesByRemoval ==
  ASSUME Truthful, NEW p \in Processes, NEW n \in Names, boxes[n] # Gone, boxes'[n] = Gone,
         \/ Begin(p) \/ Refuse(p) \/ Lookup(p) \/ Lifecycle(p) \/ Making(p) \/ Exec(p) \/ Copy(p)
  PROVE  RemoveOne(p)
<1>1. boxes' # boxes
  OBVIOUS
<1>2. ~(Begin(p) \/ Refuse(p) \/ Exec(p) \/ Copy(p))
  BY <1>1 DEF Begin, Refuse, Exec, Copy, Same
<1>3. ~Lookup(p)
  BY <1>1 DEF Lookup, Look, ReadDir, ReadNext, Vanished, Match, List, Same
<1>4. ~(Check(p) \/ Ask(p) \/ EnsurePolicy(p) \/ ChoosePolicy(p) \/ Pull(p))
  BY <1>1 DEF Check, Ask, EnsurePolicy, ChoosePolicy, Pull, Same
<1>5. ~(StartOne(p) \/ Boot(p))
  BY StartKeeps DEF StartOne, Boot
<1>6. ~StopOne(p)
  <2> SUFFICES ASSUME StopOne(p) PROVE FALSE
    OBVIOUS
  <2>1. PICK m : m = cmd[p].box.name
    OBVIOUS
  <2>2. Exists(m) /\ Become(m, [boxes[m] EXCEPT !.status = "idle"])
    BY <1>1, <2>1 DEF StopOne, Same
  <2>3. PICK box : box = [boxes[m] EXCEPT !.status = "idle"]
    OBVIOUS
  <2>4. box.status \in {"idle", "running"} /\ m \in Names
    BY <2>2, <2>3, StatusStays DEF Exists
  <2>5. Become(m, box)
    BY <2>2, <2>3
  <2> QED BY <2>4, <2>5, StaysThere
<1>7. ~Publish(p)
  <2> SUFFICES ASSUME Publish(p) PROVE FALSE
    OBVIOUS
  <2>1. PICK m : m = cmd[p].box.name
    OBVIOUS
  <2>2. Exists(m) /\ Become(m, [boxes[m] EXCEPT !.ports = Wanted(cmd[p])])
    BY <1>1, <2>1 DEF Publish, Same
  <2>3. PICK box : box = [boxes[m] EXCEPT !.ports = Wanted(cmd[p])]
    OBVIOUS
  <2>4. box.status \in {"idle", "running"} /\ m \in Names
    BY <2>2, <2>3, StatusStays DEF Exists
  <2>5. Become(m, box)
    BY <2>2, <2>3
  <2> QED BY <2>4, <2>5, StaysThere
<1>8. ~Create(p)
  <2> SUFFICES ASSUME Create(p) PROVE FALSE
    OBVIOUS
  <2>1. PICK c : c = cmd[p]
    OBVIOUS
  <2>2. PICK m : m = IF c.req.name = NoName THEN DirName[Workspace[c.req.cwd]] ELSE c.req.name
    OBVIOUS
  <2>3. Become(m, Box(Workspace[c.req.cwd], "idle", <<>>))
    BY <1>1, <2>1, <2>2 DEF Create, Same
  <2>4. m \in Names
    <3>1. c.pc = "create"
      BY <2>1 DEF Create, At
    <3>2. c.req \in Requests
      BY <2>1, <3>1, Knows
    <3> QED BY <2>2, <3>2, CommandsAssumption DEF Requests
  <2>5. Box(Workspace[c.req.cwd], "idle", <<>>).status = "idle"
    BY DEF Box
  <2> QED BY <2>3, <2>4, <2>5, StaysThere
<1> QED BY <1>2, <1>3, <1>4, <1>5, <1>6, <1>7, <1>8 DEF Lifecycle, Making

(* No sandbox goes but by an `rm` that had asked for it, or was told not   *)
(* to, and none that runs without --force (lifecycle.go, newRmCmd;         *)
(* service.go, Remove).                                                    *)
THEOREM NothingElseRemoved == Spec => RemovedAsAsked
<1> DEFINE Asked ==
      \A n \in Names :
        boxes[n] # Gone /\ boxes'[n] = Gone =>
          \E p \in Processes :
            /\ cmd[p].pc = "do" /\ n \in cmd[p].asked
            /\ cmd[p].req.force \/ boxes[n].status # "running"
<1>1. Truthful /\ [Next]_vars => [Asked]_vars
  <2> SUFFICES ASSUME Truthful, Next, NEW n \in Names, boxes[n] # Gone, boxes'[n] = Gone
               PROVE  \E p \in Processes :
                        /\ cmd[p].pc = "do" /\ n \in cmd[p].asked
                        /\ cmd[p].req.force \/ boxes[n].status # "running"
    OBVIOUS
  <2>1. PICK p \in Processes :
          Begin(p) \/ Refuse(p) \/ Lookup(p) \/ Lifecycle(p) \/ Making(p) \/ Exec(p) \/ Copy(p)
    BY DEF Next
  <2>2. RemoveOne(p)
    BY <2>1, GoesByRemoval
  <2>3. PICK c : c = cmd[p]
    OBVIOUS
  <2>4. PICK m : m = Head(c.todo).name
    OBVIOUS
  <2>5. c.pc = "do" /\ c.req.kind = "rm" /\ boxes' # boxes
    BY <2>2, <2>3 DEF RemoveOne, At
  <2>6. Exists(m) /\ (c.req.force \/ boxes[m].status # "running") /\ Become(m, Gone)
    BY <2>2, <2>3, <2>4, <2>5 DEF RemoveOne, Same
  <2>7. m = n
    <3>1. boxes = [k \in Names |-> boxes[k]] /\ boxes' = [boxes EXCEPT ![m] = Gone]
      BY <2>6 DEF Truthful, Sound, Become
    <3> QED BY <3>1
  <2>8. n \in c.asked
    <3>1. Staged(c) /\ Removal(c, was[p]) /\ c.todo \in Seq(References)
      BY <2>3, <2>5, Knows
    <3>2. c.todo # <<>>
      BY <2>5, <3>1 DEF Staged
    <3>3. Head(c.todo) \in ToSet(c.todo)
      BY <3>1, <3>2, RangeSplits
    <3> QED BY <2>4, <2>5, <2>7, <3>1, <3>3 DEF Removal
  <2> QED BY <2>3, <2>5, <2>6, <2>7, <2>8
<1> QED BY <1>1, AlwaysTruthful, PTL DEF Spec, RemovedAsAsked


(* A `run` that a call fails goes on to make a sandbox, or ends in error.  *)
LEMMA RunFails ==
  ASSUME NEW c, Shaped(c), c.req.kind = "run", c.pc # "do", c.out # "ok", NEW err
  PROVE  Failing(c, err).made = c.made /\ Failing(c, err).out # "ok"
<1>1. c.req.kind \notin Acts
  BY DEF Acts
<1>2. PICK e : e = Failing(c, err)
  OBVIOUS
<1>3. e = [c EXCEPT !.pc = "pull"] \/ e = [c EXCEPT !.pc = "done", !.out = "error"]
  BY <1>1, <1>2 DEF Failing, Goes, Ended
<1>4. e.made = c.made /\ e.out \in {c.out, "error"}
  BY <1>3 DEF Shaped
<1> QED BY <1>2, <1>4

LEMMA RunFinds ==
  ASSUME NEW c, Shaped(c), c.req.kind = "run", c.out # "ok", NEW sb
  PROVE  Resolved(c, sb).made = c.made /\ Resolved(c, sb).out # "ok"
<1>1. c.req.kind \notin Acts \cup {"rm", "inspect", "ports"}
  BY DEF Acts
<1>2. PICK pc : pc = IF sb.status = "running" THEN "exec" ELSE "boot"
  OBVIOUS
<1>3. PICK e : e = Resolved(c, sb)
  OBVIOUS
<1>4. e = [[c EXCEPT !.box = sb] EXCEPT !.pc = pc]
  BY <1>1, <1>2, <1>3 DEF Resolved, Goes
<1>5. e.made = c.made /\ e.out = c.out
  BY <1>4 DEF Shaped
<1> QED BY <1>3, <1>5

LEMMA RunGoes ==
  ASSUME NEW c, Shaped(c), NEW pc
  PROVE  Goes(c, pc).made = c.made /\ Goes(c, pc).out = c.out
<1>1. PICK e : e = Goes(c, pc)
  OBVIOUS
<1>2. e = [c EXCEPT !.pc = pc]
  BY <1>1 DEF Goes
<1>3. e.made = c.made /\ e.out = c.out
  BY <1>2 DEF Shaped
<1> QED BY <1>1, <1>3

(* What a step makes of a `run`: it comes to no end that is good, makes a  *)
(* sandbox, or opens a session.                                            *)
JoinsIt(p) ==
  /\ cmd[p].pc = "exec" /\ Exists(cmd[p].box.name)
  /\ cmd'[p].joined = Told(Record(cmd[p].box.name, boxes[cmd[p].box.name], "running"))

Quietly(p) == cmd'[p].made = cmd[p].made /\ cmd'[p].out # "ok"

LEMMA RunLooks ==
  ASSUME Truthful, NEW p \in Processes, cmd[p].req.kind = "run", Lookup(p)
  PROVE  Quietly(p)
<1>1. PICK c : c = cmd[p]
  OBVIOUS
<1>2. c.pc \in {"look", "read"}
  BY <1>1 DEF Lookup, Look, ReadDir, ReadNext, Vanished, Match, List, At
<1>3. Shaped(c) /\ Staged(c) /\ c.req \in Requests
  BY <1>1, <1>2, Knows DEF Fine
<1>4. c.req.kind = "run" /\ c.out # "ok" /\ c.pc # "do"
  BY <1>1, <1>2, <1>3 DEF Staged
<1>5. c.todo # <<>>
  BY <1>3, <1>4, RunLooksFor
<1>6. \A e : Set(p, e) => cmd'[p] = e
  BY DEF Truthful, Set
<1>7. \A err : Set(p, Failing(c, err)) => Quietly(p)
  BY <1>1, <1>3, <1>4, <1>6, RunFails DEF Quietly
<1>8. \A r : Inspected(p, r) => Quietly(p)
  <2> SUFFICES ASSUME NEW r, Inspected(p, r) PROVE Quietly(p)
    OBVIOUS
  <2>1. PICK sb : sb = Told(CarrySandbox(r).value)
    OBVIOUS
  <2>2. PICK err : err = CarrySandbox(r).err
    OBVIOUS
  <2>3. Set(p, Resolved(c, sb)) \/ Set(p, Failing(c, err))
    BY <1>1, <2>1, <2>2 DEF Inspected
  <2>4. Set(p, Resolved(c, sb)) => Quietly(p)
    BY <1>1, <1>3, <1>4, <1>6, RunFinds DEF Quietly
  <2> QED BY <1>7, <2>3, <2>4
<1>9. CASE Look(p) \/ Match(p)
  BY <1>8, <1>9 DEF Look, Match
<1>10. CASE Vanished(p)
  BY <1>1, <1>7, <1>10 DEF Vanished
<1>11. CASE ReadDir(p)
  <2>1. PICK S : S = {n \in Names : Exists(n)}
    OBVIOUS
  <2>2. PICK e : e = [c EXCEPT !.pc = "read", !.unread = S, !.scan = <<>>]
    OBVIOUS
  <2>3. cmd'[p] = e
    BY <1>1, <1>6, <1>11, <2>1, <2>2 DEF ReadDir
  <2>4. e.made = c.made /\ e.out = c.out
    BY <1>3, <2>2 DEF Shaped
  <2> QED BY <1>1, <1>4, <2>3, <2>4 DEF Quietly
<1>12. CASE ReadNext(p)
  <2>1. PICK n : n = Earliest(c.unread)
    OBVIOUS
  <2>2. PICK S, scan : S = c.unread \ {n} /\ scan = Append(c.scan, Record(n, boxes[n], boxes[n].status))
    OBVIOUS
  <2>3. PICK e : e = [c EXCEPT !.unread = S, !.scan = scan]
    OBVIOUS
  <2>4. cmd'[p] = e
    BY <1>1, <1>6, <1>12, <2>1, <2>2, <2>3 DEF ReadNext
  <2>5. e.made = c.made /\ e.out = c.out
    BY <1>3, <2>3 DEF Shaped
  <2> QED BY <1>1, <1>4, <2>4, <2>5 DEF Quietly
<1>13. ~List(p)
  BY <1>1, <1>5 DEF List
<1> QED BY <1>9, <1>10, <1>11, <1>12, <1>13 DEF Lookup

LEMMA RunMakes ==
  ASSUME Truthful, NEW p \in Processes, cmd[p].req.kind = "run", Making(p)
  PROVE  \/ Quietly(p)
         \/ cmd[p].pc = "create" /\ cmd'[p].out # "ok"
<1>1. PICK c : c = cmd[p]
  OBVIOUS
<1>2. c.pc \in {"policy", "choose", "pull", "create", "publish", "boot"}
  BY <1>1 DEF Making, EnsurePolicy, ChoosePolicy, Pull, Create, Publish, Boot, At
<1>3. Shaped(c) /\ Staged(c)
  BY <1>1, <1>2, Knows DEF Fine
<1>4. c.req.kind = "run" /\ c.out # "ok" /\ c.pc # "do"
  BY <1>1, <1>2, <1>3 DEF Staged
<1>5. \A e : Set(p, e) => cmd'[p] = e
  BY DEF Truthful, Set
<1>6. \A err : Set(p, Failing(c, err)) => Quietly(p)
  BY <1>1, <1>3, <1>4, <1>5, RunFails DEF Quietly
<1>7. \A pc : Set(p, Goes(c, pc)) => Quietly(p)
  BY <1>1, <1>3, <1>4, <1>5, RunGoes DEF Quietly
<1>8. CASE EnsurePolicy(p) \/ ChoosePolicy(p) \/ Pull(p)
  <2>1. PICK pc : pc = AfterPolicy(c)
    OBVIOUS
  <2>2. \/ Set(p, Goes(c, pc)) \/ Set(p, Goes(c, "choose")) \/ Set(p, Goes(c, "create"))
        \/ Set(p, Ended(c, "error"))
    BY <1>1, <1>8, <2>1 DEF EnsurePolicy, ChoosePolicy, Pull
  <2>3. Set(p, Ended(c, "error")) => Quietly(p)
    <3>1. PICK e : e = Ended(c, "error")
      OBVIOUS
    <3>2. e = [c EXCEPT !.pc = "done", !.out = "error"]
      BY <3>1 DEF Ended
    <3>3. e.made = c.made /\ e.out = "error"
      BY <1>3, <3>2 DEF Shaped
    <3> QED BY <1>1, <1>5, <3>1, <3>3 DEF Quietly
  <2> QED BY <1>7, <2>2, <2>3
<1>9. CASE Publish(p)
  <2>1. PICK gone, half : gone = CarryDone({"NotFound"}) /\ half = CarryDone({"PortsUnavailable"})
    OBVIOUS
  <2>2. Set(p, Failing(c, gone)) \/ Set(p, Goes(c, "boot")) \/ Set(p, Failing(c, half))
    BY <1>1, <1>4, <1>9, <2>1 DEF Publish
  <2> QED BY <1>6, <1>7, <2>2
<1>10. CASE Boot(p)
  <2>1. PICK n, then : n = c.box.name /\ then = Goes(c, "exec")
    OBVIOUS
  <2>2. StartCall(p, n, then)
    BY <1>1, <1>10, <2>1 DEF Boot
  <2>3. CASE ~Exists(n)
    <3>1. PICK err : err = CarryDone({"NotFound"})
      OBVIOUS
    <3>2. Set(p, Failing(c, err))
      BY <1>1, <2>2, <2>3, <3>1 DEF StartCall
    <3> QED BY <1>6, <3>2
  <2>4. CASE Exists(n)
    <3>1. PICK err :
            Set(p, IF CarryDone(err) = NoError \/ "PortsUnavailable" \in CarryDone(err) THEN then
                   ELSE Failing([c EXCEPT !.excused = @ \/ err = {"CloneFailed"}], CarryDone(err)))
      BY <1>1, <2>2, <2>4 DEF StartCall
    <3>2. PICK excused : excused = (c.excused \/ err = {"CloneFailed"})
      OBVIOUS
    <3>3. PICK d : d = [c EXCEPT !.excused = excused]
      OBVIOUS
    <3>4. /\ Shaped(d) /\ d.req = c.req /\ d.pc = c.pc /\ d.out = c.out /\ d.made = c.made
      BY <1>3, <3>3 DEF Shaped
    <3>5. PICK told : told = CarryDone(err)
      OBVIOUS
    <3>6. Set(p, then) \/ Set(p, Failing(d, told))
      BY <3>1, <3>2, <3>3, <3>5
    <3>7. Set(p, Failing(d, told)) => Quietly(p)
      BY <1>1, <1>4, <1>5, <3>4, RunFails DEF Quietly
    <3>8. Set(p, then) => Quietly(p)
      BY <1>7, <2>1
    <3> QED BY <3>6, <3>7, <3>8
  <2> QED BY <2>3, <2>4
<1>11. CASE Create(p)
  <2>1. PICK n : n = IF c.req.name = NoName THEN DirName[Workspace[c.req.cwd]] ELSE c.req.name
    OBVIOUS
  <2>2. PICK box : box = Box(Workspace[c.req.cwd], "idle", <<>>)
    OBVIOUS
  <2>3. c.pc = "create"
    BY <1>1, <1>11 DEF Create, At
  <2>4. CASE Exists(n)
    <3>1. PICK err : err = CarryDone({"Exists"})
      OBVIOUS
    <3>2. Set(p, Failing(c, err))
      BY <1>1, <1>11, <2>1, <2>4, <3>1 DEF Create
    <3> QED BY <1>6, <3>2
  <2>5. CASE ~Exists(n)
    <3>1. PICK err :
            LET made == CarryCreated(Reply(Record(n, box, "idle"), err))
                d == [c EXCEPT !.box = Told(made.value), !.made = n]
            IN Set(p, IF c.req.add # <<>> THEN Goes(d, "publish")
                      ELSE IF c.req.kind = "run" THEN Goes(d, "boot")
                      ELSE Ended(d, "ok"))
      BY <1>1, <1>11, <2>1, <2>2, <2>5 DEF Create
    <3>2. PICK sb : sb = Told(CarryCreated(Reply(Record(n, box, "idle"), err)).value)
      OBVIOUS
    <3>3. PICK d : d = [c EXCEPT !.box = sb, !.made = n]
      OBVIOUS
    <3>4. Set(p, Goes(d, "publish")) \/ Set(p, Goes(d, "boot"))
      BY <1>4, <3>1, <3>2, <3>3
    <3>5. Shaped(d) /\ d.out = c.out
      BY <1>3, <3>3 DEF Shaped
    <3>6. cmd'[p].out # "ok"
      BY <1>4, <1>5, <3>4, <3>5, RunGoes
    <3> QED BY <1>1, <2>3, <3>6
  <2> QED BY <2>4, <2>5
<1> QED BY <1>8, <1>9, <1>10, <1>11 DEF Making

LEMMA RunJoins ==
  ASSUME Truthful, NEW p \in Processes, cmd[p].req.kind = "run", Exec(p)
  PROVE  cmd'[p].made = cmd[p].made /\ (cmd'[p].out = "ok" => JoinsIt(p))
<1>1. PICK c : c = cmd[p]
  OBVIOUS
<1>2. c.pc = "exec"
  BY <1>1 DEF Exec, At
<1>3. Shaped(c) /\ Staged(c)
  BY <1>1, <1>2, Knows DEF Fine
<1>4. c.req.kind = "run" /\ c.out # "ok" /\ c.pc # "do"
  BY <1>1, <1>2, <1>3 DEF Staged
<1>5. \A e : Set(p, e) => cmd'[p] = e
  BY DEF Truthful, Set
<1>6. \A err : Set(p, Failing(c, err)) => Quietly(p)
  BY <1>1, <1>3, <1>4, <1>5, RunFails DEF Quietly
<1>7. PICK n : n = c.box.name
  OBVIOUS
<1>8. SessionOf(c) = n
  BY <1>4, <1>7 DEF SessionOf
<1>9. PICK joined : joined = Told(Record(n, boxes[n], "running"))
  OBVIOUS
<1>10. PICK e : e = Ended([c EXCEPT !.joined = joined], "ok")
  OBVIOUS
<1>11. e.joined = joined /\ e.made = c.made
  <2>1. PICK d : d = [c EXCEPT !.joined = joined]
    OBVIOUS
  <2>2. Shaped(d) /\ d.joined = joined /\ d.made = c.made
    BY <1>3, <2>1 DEF Shaped
  <2>3. e = [d EXCEPT !.pc = "done", !.out = "ok"]
    BY <1>10, <2>1 DEF Ended
  <2> QED BY <2>2, <2>3 DEF Shaped
<1>12. CASE Exists(n) /\ boxes[n].status = "running"
  <2>1. Set(p, e)
    BY <1>1, <1>8, <1>9, <1>10, <1>12 DEF Exec
  <2> QED BY <1>1, <1>2, <1>5, <1>7, <1>9, <1>11, <1>12, <2>1 DEF JoinsIt
<1>13. CASE ~(Exists(n) /\ boxes[n].status = "running")
  <2>1. Set(p, Failing(c, CarryDone({"NotFound"}))) \/ Set(p, Failing(c, CarryDone({})))
    BY <1>1, <1>8, <1>13 DEF Exec
  <2> QED BY <1>1, <1>6, <2>1 DEF Quietly
<1> QED BY <1>12, <1>13

LEMMA RunSteps ==
  ASSUME Truthful, NEW p \in Processes, cmd[p].req.kind = "run",
         Begin(p) \/ Refuse(p) \/ Lookup(p) \/ Lifecycle(p) \/ Making(p) \/ Exec(p) \/ Copy(p)
  PROVE  \/ Quietly(p)
         \/ cmd[p].pc = "create" /\ cmd'[p].out # "ok"
         \/ cmd'[p].made = cmd[p].made /\ (cmd'[p].out = "ok" => JoinsIt(p))
<1>1. PICK c : c = cmd[p]
  OBVIOUS
<1>2. Shaped(c) /\ Staged(c) /\ c.req \in Requests /\ c.req.kind = "run"
  BY <1>1 DEF Truthful, Fine
<1>3. c.pc \in Stages("run") /\ (c.pc # "done" => c.out # "ok")
  BY <1>2 DEF Staged
<1>4. "run" \in Kind /\ "run" \notin Acts \cup {"rm"}
  BY DEF Kind, Acts
<1>5. c.pc \notin {"do", "check", "ask", "copy"}
  BY <1>3, <1>4, WhichStages
<1>6. \A e : Set(p, e) => cmd'[p] = e
  BY DEF Truthful, Set
<1>7. CASE Begin(p)
  <2>1. c.pc = "begin" /\ Set(p, Goes(c, First(c.req)))
    BY <1>1, <1>7 DEF Begin, At
  <2> QED BY <1>1, <1>2, <1>3, <1>6, <2>1, RunGoes DEF Quietly
<1>8. CASE Refuse(p)
  <2>1. PICK d : d = [c EXCEPT !.excused = TRUE]
    OBVIOUS
  <2>2. Shaped(d) /\ d.req = c.req /\ d.pc = c.pc /\ d.out = c.out /\ d.made = c.made
    BY <1>2, <2>1 DEF Shaped
  <2>3. Set(p, Failing(d, Over({}))) /\ c.pc # "done"
    BY <1>1, <1>8, <2>1 DEF Refuse, Calls
  <2> QED BY <1>1, <1>2, <1>3, <1>5, <1>6, <2>2, <2>3, RunFails DEF Quietly
<1>9. ~Lifecycle(p) /\ ~Copy(p)
  BY <1>1, <1>5 DEF Lifecycle, StartOne, StopOne, Check, Ask, RemoveOne, Copy, At
<1>10. CASE Lookup(p)
  BY <1>1, <1>2, <1>10, RunLooks
<1>11. CASE Making(p)
  BY <1>1, <1>2, <1>11, RunMakes
<1>12. CASE Exec(p)
  BY <1>1, <1>2, <1>12, RunJoins
<1> QED BY <1>7, <1>8, <1>9, <1>10, <1>11, <1>12

(* Every step is one of one command.                                       *)
LEMMA StepSets ==
  ASSUME NEW q \in Processes,
         Begin(q) \/ Refuse(q) \/ Lookup(q) \/ Lifecycle(q) \/ Making(q) \/ Exec(q) \/ Copy(q)
  PROVE  \E e : Set(q, e)
<1>1. CASE Begin(q) \/ Refuse(q) \/ Exec(q) \/ Copy(q)
  BY <1>1 DEF Begin, Refuse, Exec, Copy
<1>2. CASE Lookup(q)
  BY <1>2 DEF Lookup, Look, ReadDir, ReadNext, Vanished, Match, List, Inspected
<1>3. ASSUME NEW n, NEW then, StartCall(q, n, then) PROVE \E e : Set(q, e)
  BY <1>3 DEF StartCall
<1>4. CASE StartOne(q) \/ Boot(q)
  BY <1>3, <1>4 DEF StartOne, Boot
<1>5. CASE StopOne(q) \/ Check(q) \/ Ask(q) \/ RemoveOne(q)
  BY <1>5 DEF StopOne, Check, Ask, RemoveOne
<1>6. CASE EnsurePolicy(q) \/ ChoosePolicy(q) \/ Pull(q) \/ Create(q) \/ Publish(q)
  BY <1>6 DEF EnsurePolicy, ChoosePolicy, Pull, Create, Publish
<1> QED BY <1>1, <1>2, <1>4, <1>5, <1>6 DEF Lifecycle, Making

LEMMA ToldWhole ==
  ASSUME NEW n, NEW box, NEW status
  PROVE  Told(Record(n, box, status)).name = n /\ Told(Record(n, box, status)).path = box.path
<1>1. PICK r : r = Record(n, box, status)
  OBVIOUS
<1>2. /\ r.spec.name = n /\ r.spec.workspaces # <<>>
      /\ r.spec.workspaces[1].host = box.path
  BY <1>1 DEF Record, ZeroSpec
<1> QED BY <1>1, <1>2 DEF Told

(* Unless something was removed meanwhile, `run` makes a sandbox only if   *)
(* there was none for its workspace all along, and has its session in one  *)
(* of its workspace or of the name it was given (run.go, newRunCmd;        *)
(* root.go, resolve), wherever a directory has no colon to be cut at.      *)
THEOREM SessionsAreOurs ==
  ASSUME \A d \in Paths : Workspace[d] = d
  PROVE  Spec => SessionIsOurs
<1> DEFINE Rightly ==
      \A p \in Processes :
        LET c == cmd[p] IN
          c.req.kind = "run" /\ ~Disturbed(p) =>
            /\ c.req.name = NoName /\ cmd'[p].made # c.made =>
                 \A n \in Throughout(p) : boxes[n].path # c.req.cwd
            /\ c.out = "none" /\ cmd'[p].out = "ok" =>
                 cmd'[p].joined.path = c.req.cwd \/ cmd'[p].joined.name = c.req.name
<1>1. Truthful /\ [Next]_vars => [Rightly]_vars
  <2> SUFFICES ASSUME Truthful, Next, NEW p \in Processes,
                      cmd[p].req.kind = "run", ~Disturbed(p)
               PROVE  /\ cmd[p].req.name = NoName /\ cmd'[p].made # cmd[p].made =>
                           \A n \in Throughout(p) : boxes[n].path # cmd[p].req.cwd
                      /\ cmd[p].out = "none" /\ cmd'[p].out = "ok" =>
                           \/ cmd'[p].joined.path = cmd[p].req.cwd
                           \/ cmd'[p].joined.name = cmd[p].req.name
    OBVIOUS
  <2>1. PICK q \in Processes :
          Begin(q) \/ Refuse(q) \/ Lookup(q) \/ Lifecycle(q) \/ Making(q) \/ Exec(q) \/ Copy(q)
    BY DEF Next
  <2>2. PICK c : c = cmd[p]
    OBVIOUS
  <2>3. CASE q # p
    <3>1. PICK e : Set(q, e)
      BY <2>1, StepSets
    <3>2. cmd'[p] = cmd[p]
      BY <2>3, <3>1 DEF Truthful, Set
    <3> QED BY <3>2
  <2>4. CASE q = p
    <3>1. \/ Quietly(p)
          \/ c.pc = "create" /\ cmd'[p].out # "ok"
          \/ cmd'[p].made = c.made /\ (cmd'[p].out = "ok" => JoinsIt(p))
      BY <2>1, <2>2, <2>4, RunSteps
    <3>2. Ours(c, was[p], boxes) /\ ~Upset(was[p]) /\ Throughout(p) = There(was[p])
      BY <2>2, HasBeen DEF Truthful, Fine
    <3>3. cmd[p].req.name = NoName /\ cmd'[p].made # cmd[p].made =>
            \A n \in Throughout(p) : boxes[n].path # cmd[p].req.cwd
      <4>1. cmd'[p].made # c.made => c.pc = "create"
        BY <2>2, <3>1 DEF Quietly
      <4>2. c.pc = "create" => NoneOurs(c, was[p], boxes)
        BY <2>2, <3>2 DEF Ours
      <4> QED BY <2>2, <3>2, <4>1, <4>2 DEF NoneOurs
    <3>4. cmd'[p].out = "ok" =>
            \/ cmd'[p].joined.path = cmd[p].req.cwd
            \/ cmd'[p].joined.name = cmd[p].req.name
      <4> SUFFICES ASSUME cmd'[p].out = "ok"
                   PROVE  \/ cmd'[p].joined.path = cmd[p].req.cwd
                          \/ cmd'[p].joined.name = cmd[p].req.name
        OBVIOUS
      <4>1. JoinsIt(p)
        BY <3>1 DEF Quietly
      <4>2. PICK n : n = c.box.name
        OBVIOUS
      <4>3. IsOurs(c, was[p], boxes, n)
        BY <2>2, <3>2, <4>1, <4>2 DEF Ours, JoinsIt
      <4>4. cmd'[p].joined.name = n /\ cmd'[p].joined.path = boxes[n].path
        BY <2>2, <4>1, <4>2, ToldWhole DEF JoinsIt
      <4>5. c.req.cwd \in Paths
        BY <2>2 DEF Truthful, Fine, Requests
      <4> QED BY <2>2, <3>2, <4>3, <4>4, <4>5 DEF IsOurs
    <3> QED BY <3>3, <3>4
  <2> QED BY <2>3, <2>4
<1> QED BY <1>1, AlwaysTruthful, PTL DEF Spec, SessionIsOurs


-----------------------------------------------------------------------------
(* Values and errors                                                       *)

LEMMA SandboxesAreKept ==
  ASSUME NEW sb, IsSandbox(sb)
  PROVE  ApiSandbox(ProtoSandbox(sb)) = sb
<1>1. \A t : t # Nil => ApiTime(ProtoTime(t)) = t
  BY DEF ApiTime, ProtoTime
<1>2. ApiState(ProtoState(sb.state)) = sb.state
  BY <1>1 DEF IsSandbox, ApiState, ProtoState, Nil
<1>3. ApiSpec(ProtoSpec(sb.spec)) = sb.spec
  BY <1>1 DEF IsSandbox, ApiSpec, ProtoSpec, Nil, EachOf, ProtoWorkspace
<1>4. EachOf(ProtoPort, EachOf(ProtoPort, sb.ports)) = sb.ports
  BY DEF IsSandbox, EachOf, ProtoPort
<1> QED BY <1>2, <1>3, <1>4 DEF IsSandbox, ApiSandbox, ProtoSandbox, Nil

LEMMA ErrorsAreKept ==
  ASSUME NEW sb, ApiSandbox(ProtoSandbox(sb)) = sb
  PROVE  ErrorsSurvive(sb)
<1> SUFFICES ASSUME NEW err \in SUBSET Kinds
             PROVE  LET created == CarryCreated(Reply(sb, err))
                        remote == "RemoteNotAdded" \in err
                    IN /\ CarrySandbox(Reply(sb, err)) = Reply(ZeroSandbox, CarryDone(err))
                       /\ CarryDone(err) \subseteq err /\ (err # {} => CarryDone(err) # {})
                       /\ \A kind \in Kinds : err = {kind} => CarryDone(err) = err
                       /\ created.value = IF remote THEN sb ELSE ZeroSandbox
                       /\ remote => created.err = {"RemoteNotAdded"}
  BY DEF ErrorsSurvive
<1>1. err # NoError
  BY WireAssumption
<1>2. IF err = {} THEN CarryDone(err) = {} ELSE \E kind \in err : CarryDone(err) = {kind}
  BY FirstComesOver DEF CarryDone
<1>3. CarrySandbox(Reply(sb, err)) = Reply(ZeroSandbox, CarryDone(err))
  BY <1>1 DEF CarrySandbox, Reply, CarryDone
<1>4. CarryCreated(Reply(sb, err)) =
        IF "RemoteNotAdded" \in err THEN Reply(sb, {"RemoteNotAdded"})
        ELSE Reply(ZeroSandbox, CarryDone(err))
  BY <1>1, <1>3 DEF CarryCreated, Reply
<1> QED BY <1>2, <1>3, <1>4 DEF Reply

(* Any sandbox comes out of the socket as it went in, and any error as one *)
(* of the things that it was, a sandbox without its remote beside it       *)
(* (errors.go, wireError and localError; convert.go; client.go, Create).   *)
THEOREM ValuesAreKept == Spec => []ValuesSurvive
<1>1. \A sb : IsSandbox(sb) => ApiSandbox(ProtoSandbox(sb)) = sb
  BY SandboxesAreKept
<1>2. \A sb : IsSandbox(sb) => Survives(sb)
  BY <1>1 DEF Survives, CarrySandbox, Reply
<1>3. AnswersSurvive
  BY <1>1, <1>2, ErrorsAreKept, WireAssumption DEF AnswersSurvive
<1>4. ValuesSurvive
  BY <1>2, <1>3 DEF ValuesSurvive
<1> QED BY <1>4, PTL
=============================================================================
