------------------------------- MODULE Agenda -------------------------------
(***************************************************************************)
(* The agenda: the tables agenda_events and agenda_event_participants, and *)
(* create_event_handler, whose two INSERTs are in no transaction.  Both of *)
(* its handlers begin with the extractor of Claims of Session.             *)
(*                                                                         *)
(* get_events_date_to_date selects by the participants of an event and a   *)
(* range of days; days, titles and categories are abstracted.              *)
(***************************************************************************)
EXTENDS Session

CONSTANT Event   \* slots for event ids

ASSUME AgendaNull == NULL \notin Event

VARIABLES
    owner,         \* owner[v]: owner_id of the row v of agenda_events, NULL when there is none
    participants,  \* the pairs (event_id, participant_id) of agenda_event_participants
    making         \* making[r]: the event that request r has inserted

agendaVars == <<owner, participants, making>>

AgendaInit ==
    /\ owner = [v \in Event |-> NULL]
    /\ participants = {}
    /\ making = [r \in Request |-> NULL]

ForgetDraft(r) ==
    /\ making' = [making EXCEPT ![r] = NULL]
    /\ UNCHANGED <<owner, participants>>

BeginCreateEvent(r, t) ==
    /\ BeginCall(r, t, "create_event")
    /\ UNCHANGED agendaVars

InsertEvent(r, v) ==
    /\ req[r].pc = "create_event"
    /\ owner[v] = NULL
    /\ owner' = [owner EXCEPT ![v] = req[r].email]
    /\ making' = [making EXCEPT ![r] = v]
    /\ GoTo(r, "add_participant")
    /\ UNCHANGED <<limiter, token, revoked, loggedOut, participants>>

(* When this INSERT fails the client gets an error and the event stays, as *)
(* in Cancel.                                                              *)
AddParticipant(r) ==
    /\ req[r].pc = "add_participant"
    /\ participants' = participants \cup {<<making[r], req[r].email>>}
    /\ making' = [making EXCEPT ![r] = NULL]
    /\ Return(r)
    /\ UNCHANGED <<limiter, token, revoked, loggedOut, owner>>

AgendaNext ==
    \E r \in Request : \/ \E t \in Token : BeginCreateEvent(r, t)
                       \/ \E v \in Event : InsertEvent(r, v)
                       \/ AddParticipant(r)

-----------------------------------------------------------------------------
(* The tables keep their types, and a participant is of an event. *)
AgendaTypeOK ==
    /\ owner \in [Event -> Email \cup {NULL}]
    /\ participants \subseteq {v \in Event : owner[v] # NULL} \X Email
    /\ making \in [Request -> Event \cup {NULL}]
==============================================================================
