--------------------------------- MODULE Api ---------------------------------
(***************************************************************************)
(* Sessions, the agenda and the storage quota in one server: whichever     *)
(* handler a request is for, it takes the same place among the requests    *)
(* under way, passes the same extractor and may be cut at any step.        *)
(***************************************************************************)
EXTENDS Agenda, Quota

vars == <<sessionVars, agendaVars, quotaVars>>

Init == SessionInit /\ AgendaInit /\ QuotaInit

Cut(r) == Cancel(r) /\ ForgetDraft(r) /\ ForgetBody(r)

Next ==
    \/ SessionNext /\ UNCHANGED <<agendaVars, quotaVars>>
    \/ AgendaNext /\ UNCHANGED quotaVars
    \/ QuotaNext /\ UNCHANGED agendaVars
    \/ \E r \in Request : Cut(r)

(* Time passes, and the server goes on with a login it has begun, or cuts  *)
(* it.  Nobody has to send anything.                                       *)
Fairness ==
    /\ WF_vars(Clock /\ UNCHANGED <<agendaVars, quotaVars>>)
    /\ \A r \in Request : WF_vars(Login(r) /\ UNCHANGED <<agendaVars, quotaVars>>)

Spec == Init /\ [][Next]_vars /\ Fairness

-----------------------------------------------------------------------------
(* Every module's state keeps its type, and what a request has made or     *)
(* declared is there only while it is under way.                           *)
TypeOK ==
    /\ SessionTypeOK /\ AgendaTypeOK /\ QuotaTypeOK
    /\ \A r \in Request : /\ making[r] # NULL <=> req[r].pc = "add_participant"
                          /\ declared[r] # 0 => req[r].pc = "insert_file"
==============================================================================
