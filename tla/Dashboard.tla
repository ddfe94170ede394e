----------------------------- MODULE Dashboard -----------------------------
(***************************************************************************)
(* The dashboard's list of sandboxes, its keys and what it runs behind     *)
(* them (internal/tui: model.go, keys.go, create.go).                      *)
(*                                                                         *)
(* One loop applies one message at a time.  Everything that asks the       *)
(* service for something is a command: it runs beside the loop, and what   *)
(* it found comes back as a message, in whatever order commands end.       *)
(* Meanwhile other clients change the same sandboxes.                      *)
(***************************************************************************)
EXTENDS Naturals, Sequences, FiniteSets

CONSTANTS
  Names,     (* the names of sandboxes                                      *)
  Order,     (* all of them, in the order listings have                     *)
  Calls,     (* bound: the commands in flight at once                       *)
  Others,    (* what other clients do, see Other                            *)
  Keys,      (* the keys users press, see Key                               *)
  None       (* no name                                                     *)

Other == {"create", "start", "stop", "remove"}

Key == {"move", "toggle", "remove", "create", "rule"}

ASSUME DashboardAssumption ==
  /\ Order \in Seq(Names)
  /\ {Order[i] : i \in 1 .. Len(Order)} = Names
  /\ \A i, j \in 1 .. Len(Order) : Order[i] = Order[j] => i = j
  /\ Others \subseteq Other
  /\ Keys \subseteq Key
  /\ None \notin Names \cup {"rule"}

VARIABLES
  status,    (* what the service would say of each sandbox                  *)
  calls,     (* the commands in flight, each in a slot of its own           *)
  rows,      (* the listing applied last                                    *)
  cursor,    (* the position of the cursor, from 0                          *)
  stats,     (* the sandboxes that a sample is shown for                    *)
  pending,   (* what the action that blocks keys is about                   *)
  focus      (* the sandbox a listing should select once it has it          *)

list == <<rows, cursor, stats>>
vars == <<status, calls, list, pending, focus>>

-----------------------------------------------------------------------------
(* What is listed and is not running is stopped here: the list tells those *)
(* apart only in what it prints.                                           *)
Statuses == {"absent", "stopped", "running"}

Listings == [Names -> Statuses]

Kinds == {"none", "list", "sample", "start", "stop", "remove", "create", "rule"}

(* found: the listing that a "list" read; ok: whether the service did it.  *)
Call == [kind  : Kinds,
         name  : Names \cup {None},
         phase : {"none", "pulling", "sent", "answered"},
         ok    : BOOLEAN,
         found : Listings]

Nowhere == [n \in Names |-> "absent"]

Free == [kind |-> "none", name |-> None, phase |-> "none", ok |-> FALSE, found |-> Nowhere]

TypeOK ==
  /\ status \in Listings
  /\ calls \in [Calls -> Call]
  /\ rows \in Listings
  /\ cursor \in Nat
  /\ stats \subseteq Names
  /\ pending \in Names \cup {None, "rule"}
  /\ focus \in Names \cup {None}

Init ==
  /\ status \in [Names -> {"absent", "running"}]
  /\ calls = [c \in Calls |-> Free]
  /\ rows = Nowhere
  /\ cursor = 0
  /\ stats = {}
  /\ pending = None
  /\ focus = None

Running(listing) == {n \in Names : listing[n] = "running"}

(* A listing has a row for each sandbox there is, in order. *)
Listed(listing) == {n \in Names : listing[n] # "absent"}

Length(listing) == Cardinality(Listed(listing))

(* What comes before each sandbox, when it is there. *)
Before ==
  [n \in Names |->
     {m \in Names : \E i, j \in 1 .. Len(Order) : i < j /\ Order[i] = m /\ Order[j] = n}]

(* The position of a sandbox in a listing, from 0. *)
Row(listing, n) == Cardinality(Listed(listing) \cap Before[n])

SelectedIn(listing, at) ==
  IF \E n \in Listed(listing) : Row(listing, n) = at
  THEN CHOOSE n \in Listed(listing) : Row(listing, n) = at
  ELSE None

Selected == SelectedIn(rows, cursor)

Clamp(at, length) == IF at < length THEN at ELSE IF length = 0 THEN 0 ELSE length - 1

-----------------------------------------------------------------------------
(* Commands                                                                *)

IsFree(c) == calls[c].kind = "none"

NewCall(kind, name) ==
  [Free EXCEPT !.kind = kind, !.name = name,
               !.phase = IF kind = "create" THEN "pulling" ELSE "sent"]

(* A command starts in a free slot. *)
Run(kind, name) ==
  \E c \in Calls : IsFree(c) /\ calls' = [calls EXCEPT ![c] = NewCall(kind, name)]

(* A tick lists again, whatever is still in flight. *)
Tick ==
  /\ Run("list", None)
  /\ UNCHANGED <<status, list, pending, focus>>

(* The service comes to a command. *)
Allowed(call) ==
  CASE call.kind = "start"  -> status[call.name] # "absent"
    [] call.kind = "stop"   -> status[call.name] # "absent"
    [] call.kind = "remove" -> status[call.name] = "stopped"
    [] call.kind = "create" -> status[call.name] = "absent"
    [] call.kind = "sample" -> status[call.name] = "running"
    [] OTHER                -> TRUE

Effect(call) ==
  IF ~Allowed(call) THEN status
  ELSE CASE call.kind = "start"             -> [status EXCEPT ![call.name] = "running"]
         [] call.kind \in {"stop", "create"} -> [status EXCEPT ![call.name] = "stopped"]
         [] call.kind = "remove"            -> [status EXCEPT ![call.name] = "absent"]
         [] OTHER                           -> status

Answer(c) ==
  /\ calls[c].phase = "sent"
  /\ status' = Effect(calls[c])
  /\ calls' = [calls EXCEPT ![c].phase = "answered", ![c].ok = Allowed(calls[c]),
                            ![c].found = IF calls[c].kind = "list" THEN status ELSE Nowhere]
  /\ UNCHANGED <<list, pending, focus>>

(* A call that fails, before the service did it or after: an action        *)
(* reports it, a listing and a sample leave everything as it was.          *)
AnswerFails(c) ==
  /\ calls[c].phase = "sent"
  /\ status' \in {status, Effect(calls[c])}
  /\ calls' = [calls EXCEPT ![c] = IF @.kind \in {"list", "sample"} THEN Free
                                   ELSE [@ EXCEPT !.phase = "answered"]]
  /\ UNCHANGED <<list, pending, focus>>

(* The image has been fetched, or could not be: Create comes next. *)
Pulled(c) ==
  /\ calls[c].phase = "pulling"
  /\ calls' = [calls EXCEPT ![c].phase = "sent"]
  /\ UNCHANGED <<status, list, pending, focus>>

-----------------------------------------------------------------------------
(* Messages                                                                *)

(* The sandboxes an applied listing starts a feed for. *)
Unsampled(listing) == Running(listing) \ stats

(* The commands that follow a message: the slot of the one that ended is   *)
(* free for them, and each takes one.                                      *)
Follow(c, followers) ==
  \E slots \in SUBSET {d \in Calls : d = c \/ IsFree(d)} :
    \E f \in [slots -> followers] :
      /\ \A one, other \in slots : f[one] = f[other] => one = other
      /\ {f[d] : d \in slots} = followers
      /\ calls' = [d \in Calls |-> IF d \in slots THEN f[d] ELSE IF d = c THEN Free ELSE calls[d]]

(* The cursor stays on the sandbox it was on, or goes to the one that the  *)
(* focus waits for.                                                        *)
Restored(listing, name) ==
  IF name \in Listed(listing) THEN Row(listing, name) ELSE Clamp(cursor, Length(listing))

(* As ApplyListing, where the first listing after a create uses up the     *)
(* focus whether it has the sandbox or not.                                *)
ApplyListingSpending(c) ==
  LET listing == calls[c].found
      found   == focus # None /\ listing[focus] # "absent"
  IN  /\ calls[c].kind = "list" /\ calls[c].phase = "answered"
      /\ rows' = listing
      /\ cursor' = Restored(listing, IF found THEN focus ELSE Selected)
      /\ focus' = None
      /\ stats' = stats \cap Running(listing)
      /\ Follow(c, {NewCall("sample", n) : n \in Unsampled(listing)})
      /\ UNCHANGED <<status, pending>>

ApplyListing(c) ==
  LET listing == calls[c].found
      found   == focus # None /\ listing[focus] # "absent"
  IN  /\ calls[c].kind = "list" /\ calls[c].phase = "answered"
      /\ rows' = listing
      /\ cursor' = Restored(listing, IF found THEN focus ELSE Selected)
      /\ focus' = IF found THEN None ELSE focus
      /\ stats' = stats \cap Running(listing)
      /\ Follow(c, {NewCall("sample", n) : n \in Unsampled(listing)})
      /\ UNCHANGED <<status, pending>>

Sampled(c) ==
  /\ calls[c].kind = "sample" /\ calls[c].phase = "answered"
  /\ stats' = IF calls[c].ok THEN stats \cup {calls[c].name} ELSE stats
  /\ calls' = [calls EXCEPT ![c] = Free]
  /\ UNCHANGED <<status, rows, cursor, pending, focus>>

(* As Acted, with keys free only after an action that succeeded. *)
ActedWell(c) ==
  /\ calls[c].kind \in {"start", "stop", "remove", "create"} /\ calls[c].phase = "answered"
  /\ pending' = IF calls[c].ok THEN None ELSE pending
  /\ focus' = IF calls[c].kind = "create" /\ calls[c].ok THEN calls[c].name ELSE focus
  /\ Follow(c, {NewCall("list", None)})
  /\ UNCHANGED <<status, list>>

(* An action ended, whichever it was: keys are free again, and the list is *)
(* read anew.                                                              *)
Acted(c) ==
  /\ calls[c].kind \in {"start", "stop", "remove", "create"} /\ calls[c].phase = "answered"
  /\ pending' = None
  /\ focus' = IF calls[c].kind = "create" /\ calls[c].ok THEN calls[c].name ELSE focus
  /\ Follow(c, {NewCall("list", None)})
  /\ UNCHANGED <<status, list>>

RuleWritten(c) ==
  /\ calls[c].kind = "rule" /\ calls[c].phase = "answered"
  /\ pending' = None
  /\ calls' = [calls EXCEPT ![c] = Free]
  /\ UNCHANGED <<status, list, focus>>

-----------------------------------------------------------------------------
(* Keys                                                                    *)

(* While an action is pending, keys do nothing to the list. *)
Pressable(key) == key \in Keys /\ pending = None

(* Up, down, home and end. *)
Move ==
  /\ Pressable("move")
  /\ cursor' \in {IF cursor = 0 THEN 0 ELSE cursor - 1, Clamp(cursor + 1, Length(rows)), 0,
                  Clamp(Length(rows), Length(rows))}
  /\ UNCHANGED <<status, calls, rows, stats, pending, focus>>

Act(kind) ==
  /\ Selected # None
  /\ pending' = Selected
  /\ Run(kind, Selected)
  /\ UNCHANGED <<status, list, focus>>

(* s stops what is shown as running and starts anything else. *)
ToggleSelected ==
  /\ Pressable("toggle")
  /\ Act(IF Selected # None /\ rows[Selected] = "running" THEN "stop" ELSE "start")

RemoveSelected == Pressable("remove") /\ Act("remove")

(* a and d, in the other panel. *)
RuleForSelected ==
  /\ Pressable("rule")
  /\ pending' = "rule"
  /\ Run("rule", None)
  /\ UNCHANGED <<status, list, focus>>

(* c, and a name.  Nothing becomes pending.  The form takes every key      *)
(* while it is open, so that it is as if it opened when it is submitted.   *)
CreateSandbox(n) ==
  /\ Pressable("create")
  /\ Run("create", n)
  /\ UNCHANGED <<status, list, pending, focus>>

(* Another client does something to a sandbox. *)
Elsewhere(kind, n) ==
  /\ kind \in Others
  /\ Allowed([kind |-> kind, name |-> n])
  /\ status' = Effect([kind |-> kind, name |-> n])
  /\ UNCHANGED <<calls, list, pending, focus>>

-----------------------------------------------------------------------------
Apply(c) == ApplyListing(c) \/ Sampled(c) \/ Acted(c) \/ RuleWritten(c)

Press ==
  \/ Move \/ ToggleSelected \/ RemoveSelected \/ RuleForSelected
  \/ \E n \in Names : CreateSandbox(n)

Next ==
  \/ Tick
  \/ \E c \in Calls : Answer(c) \/ AnswerFails(c) \/ Pulled(c) \/ Apply(c)
  \/ Press
  \/ \E kind \in Other, n \in Names : Elsewhere(kind, n)

Spec == Init /\ [][Next]_vars

-----------------------------------------------------------------------------
(* A listing leaves the cursor on the sandbox it was on, however the rows  *)
(* moved, unless it is the first to have the sandbox that the user just    *)
(* created: then the cursor goes there, and only then is that forgotten    *)
(* (model.go, applyListing; focus_test.go).                                *)
CursorFollows ==
  [][/\ rows' # rows =>
          IF focus # None /\ rows'[focus] # "absent" THEN Selected' = focus
          ELSE Selected # None /\ rows'[Selected] # "absent" => Selected' = Selected
     /\ focus # None /\ focus' = None => Selected' = focus]_vars

Waiting(c) == calls[c].kind \in {"start", "stop", "remove"}

(* Keys wait for an action that is still to end: whatever fails, and        *)
(* however creates and actions end, a key that is refused is refused on    *)
(* account of a command in flight against what is pending (keys.go,        *)
(* handleKey; model.go, actionMsg and ruleMsg).                            *)
KeysComeBack ==
  pending # None =>
    \E c \in Calls : \/ calls[c].kind = "rule" /\ pending = "rule"
                     \/ Waiting(c) /\ calls[c].name = pending

(* Two actions that keys began are never in flight against the same        *)
(* sandbox: "a second keypress cannot race the first against the same one" *)
(* (keys.go, handleKey).                                                   *)
NoRacingKeys ==
  \A c, d \in Calls : Waiting(c) /\ Waiting(d) /\ calls[c].name = calls[d].name => c = d
=============================================================================
