------------------------------- MODULE Session -------------------------------
(***************************************************************************)
(* What a session in a sandbox promises the user in front of it: the       *)
(* command is given what was typed, in order; what the command writes is   *)
(* shown, each of its outputs in order; and the user is told the command's *)
(* own exit code, once all of its output is there, or that the session     *)
(* failed, which may happen at any moment.                                 *)
(***************************************************************************)
EXTENDS Naturals, Sequences

CONSTANTS Outputs, Codes, NoCode, Failed

VARIABLES
  typed,    (* how many pieces of input there have been                     *)
  eaten,    (* the pieces that the command has read                         *)
  printed,  (* how many pieces the command has written to each output       *)
  shown,    (* the pieces of each output that the user has seen             *)
  exit,     (* the command's exit code, once it has ended                   *)
  answer    (* what the user was told: a code, Failed, or NoCode: nothing   *)

sessionVars == <<typed, eaten, printed, shown, exit, answer>>

Waiting == answer = NoCode

Init ==
  /\ typed = 0 /\ eaten = <<>>
  /\ printed = [o \in Outputs |-> 0]
  /\ shown = [o \in Outputs |-> <<>>]
  /\ exit = NoCode
  /\ answer = NoCode

Type ==
  /\ typed' = typed + 1
  /\ UNCHANGED <<eaten, printed, shown, exit, answer>>

Eat ==
  /\ exit = NoCode
  /\ Len(eaten) < typed
  /\ eaten' = Append(eaten, Len(eaten) + 1)
  /\ UNCHANGED <<typed, printed, shown, exit, answer>>

Write(o) ==
  /\ exit = NoCode
  /\ printed' = [printed EXCEPT ![o] = @ + 1]
  /\ UNCHANGED <<typed, eaten, shown, exit, answer>>

Show(o) ==
  /\ Waiting
  /\ Len(shown[o]) < printed[o]
  /\ shown' = [shown EXCEPT ![o] = Append(@, Len(@) + 1)]
  /\ UNCHANGED <<typed, eaten, printed, exit, answer>>

Exit ==
  /\ exit = NoCode
  /\ exit' \in Codes
  /\ UNCHANGED <<typed, eaten, printed, shown, answer>>

Tell ==
  /\ Waiting
  /\ exit # NoCode
  /\ \A o \in Outputs : Len(shown[o]) = printed[o]
  /\ answer' = exit
  /\ UNCHANGED <<typed, eaten, printed, shown, exit>>

Fail ==
  /\ Waiting
  /\ answer' = Failed
  /\ UNCHANGED <<typed, eaten, printed, shown, exit>>

Next ==
  \/ Type \/ Eat \/ Exit \/ Tell \/ Fail
  \/ \E o \in Outputs : Write(o) \/ Show(o)

Safe == Init /\ [][Next]_sessionVars

(* Whatever was written is shown, and whoever waits is told. *)
Spec ==
  /\ Safe
  /\ WF_sessionVars(Tell)
  /\ \A o \in Outputs : WF_sessionVars(Show(o))
=============================================================================
