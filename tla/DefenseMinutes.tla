--------------------------- MODULE DefenseMinutes ---------------------------
(***************************************************************************)
(* The minutes of one Capstone hearing: the documenter fills and submits    *)
(* them, the adviser and then an administrator as chairman sign, and an     *)
(* administrator may amend the hearing under them.  (defense/minutes)       *)
(*                                                                          *)
(* The four handlers of the minutes read the hearing and the row without a  *)
(* lock, check, and save the whole row: a request here is what a handler    *)
(* read, and its save comes any number of steps later.  The amendment is    *)
(* one step under the locks of the hearing and the row.                     *)
(***************************************************************************)
EXTENDS Naturals

CONSTANTS Worker,       \* concurrent requests
          NoMinutes, NoRequest,
          MaxRoster     \* bound: versions of the panel and the timetable

VARIABLES
    hearing,    \* DefenseSchedule.status
    roster,     \* the version of the hearing's people and timetable
    filled,     \* every current panelist's comments are filled
    minutes,    \* the DefenseMinutes row
    retained,   \* DefenseMinutesRevision
    requests    \* what each handler under way has read

vars == <<hearing, roster, filled, minutes, retained, requests>>

Role == {"documenter", "adviser", "chairman"}

\* A signature is kept as the version of the roster its signer saw, 0: none.
Draft == [status |-> "draft", signed |-> [r \in Role |-> 0], pdf |-> FALSE]
Row == [status : {"draft", "submitted", "adviser_signed", "completed"},
        signed : [Role -> 0 .. MaxRoster], pdf : BOOLEAN]

\* The status a step asks for, the one it sets, and whose signature it adds.
Step == [submit   |-> [from |-> "draft", to |-> "submitted", by |-> "documenter"],
         adviser  |-> [from |-> "submitted", to |-> "adviser_signed", by |-> "adviser"],
         chairman |-> [from |-> "adviser_signed", to |-> "completed", by |-> "chairman"]]

TypeOK ==
    /\ hearing \in {"scheduled", "cancelled", "done", "archived"}
    /\ roster \in 1 .. MaxRoster
    /\ filled \in BOOLEAN
    /\ minutes \in Row \cup {NoMinutes}
    /\ retained \subseteq Row
    /\ requests \in [Worker -> [kind : DOMAIN Step \cup {"edit"}, row : Row, roster : 1 .. MaxRoster]
                               \cup {NoRequest}]

Init ==
    /\ hearing = "scheduled" /\ roster = 1 /\ filled = FALSE
    /\ minutes = NoMinutes /\ retained = {}
    /\ requests = [w \in Worker |-> NoRequest]

\* Opening the minutes of a hearing creates the draft.
Open ==
    /\ minutes = NoMinutes
    /\ hearing # "cancelled"
    /\ minutes' = Draft
    /\ UNCHANGED <<hearing, roster, filled, retained, requests>>

Begin(w, kind) ==
    /\ requests[w] = NoRequest
    /\ requests' = [requests EXCEPT ![w] = [kind |-> kind, row |-> minutes, roster |-> roster]]
    /\ UNCHANGED <<hearing, roster, filled, minutes, retained>>

BeginEdit(w) ==
    /\ hearing # "cancelled"
    /\ minutes # NoMinutes /\ minutes.status = "draft"
    /\ Begin(w, "edit")

BeginSigning(w, kind) ==
    /\ hearing # "cancelled"
    /\ minutes # NoMinutes /\ minutes.status = Step[kind].from
    /\ kind = "submit" => filled
    /\ Begin(w, kind)

\* The comments are rows of their own: nothing but their text is written.
SaveEdit(w) ==
    /\ requests[w] # NoRequest /\ requests[w].kind = "edit"
    /\ filled' \in BOOLEAN
    /\ requests' = [requests EXCEPT ![w] = NoRequest]
    /\ UNCHANGED <<hearing, roster, minutes, retained>>

\* save() writes every column of the row as it was read.
SaveSigning(w) ==
    /\ requests[w] # NoRequest /\ requests[w].kind # "edit"
    /\ LET s == Step[requests[w].kind]
       IN  minutes' = [requests[w].row EXCEPT !.status = s.to,
                                              !.signed[s.by] = requests[w].roster,
                                              !.pdf = @ \/ s.by = "chairman"]
    /\ requests' = [requests EXCEPT ![w] = NoRequest]
    /\ UNCHANGED <<hearing, roster, filled, retained>>

\* An operation that changes the people or the timetable.  A panelist it adds
\* has no comments yet.
Amend ==
    /\ hearing \in {"scheduled", "cancelled"}
    /\ roster < MaxRoster
    /\ roster' = roster + 1
    /\ filled' \in {FALSE, filled}
    /\ IF minutes = NoMinutes \/ minutes = Draft
       THEN UNCHANGED <<minutes, retained>>
       ELSE /\ retained' = retained \cup {minutes}
            /\ minutes' = Draft
    /\ UNCHANGED <<hearing, requests>>

\* transition_schedule_status
Transition ==
    /\ \E p \in {<<"scheduled", "cancelled">>, <<"cancelled", "scheduled">>,
               <<"scheduled", "done">>, <<"done", "archived">>} :
          hearing = p[1] /\ hearing' = p[2]
    /\ UNCHANGED <<roster, filled, minutes, retained, requests>>

Next ==
    \/ Open \/ Amend \/ Transition
    \/ \E w \in Worker : \/ BeginEdit(w) \/ SaveEdit(w) \/ SaveSigning(w)
                         \/ \E kind \in DOMAIN Step : BeginSigning(w, kind)

Spec == Init /\ [][Next]_vars

-----------------------------------------------------------------------------

\* An amendment keeps the signed version and restarts its signatures
\* (scheduler/operations.py:433): no signature of a retained version is in the
\* row again.  A handler that checked before the amendment saves the row it
\* read after it, and with it the old signatures.
AmendmentRestartsSignatures ==
    \A old \in retained, r \in Role :
        old.signed[r] # 0 => minutes.signed[r] # old.signed[r]

=============================================================================
