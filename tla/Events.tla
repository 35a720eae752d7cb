------------------------------- MODULE Events -------------------------------
(***************************************************************************)
(* One event and its participants (api/routes/events.py).  Registration,    *)
(* edition and deletion lock the row of the event first; leaving it locks   *)
(* nothing, and an attendance session refers to it through a foreign key.   *)
(***************************************************************************)
EXTENDS Naturals, FiniteSets

CONSTANTS
    Guests,         \* accounts that may register: active members and alumni
    Capacities      \* positive capacities an event may be given

ASSUME CapacitiesAssumption == Capacities \subseteq Nat \ {0}

VARIABLES
    event,          \* the row of the event
    participants,   \* rows of event_participants
    registering,    \* registrations that counted the participants and hold the row
    referenced      \* an attendance session refers to the event

eventVars == <<event, participants, registering, referenced>>
-----------------------------------------------------------------------------
Unlimited == 0
NoEvent == [exists |-> FALSE, capacity |-> Unlimited, requires |-> FALSE, started |-> FALSE]

EventLocked == registering # {}

\* create_event and update_event take any positive capacity, or none, and do not
\* compare it with the participants already there.
EventValues ==
    [exists : {TRUE}, capacity : Capacities \cup {Unlimited},
     requires : BOOLEAN, started : BOOLEAN]

HasRoom == event.capacity = Unlimited \/ Cardinality(participants) < event.capacity
-----------------------------------------------------------------------------
EventsInit ==
    /\ event = NoEvent
    /\ participants = {} /\ registering = {} /\ referenced = FALSE

CreateEvent(e) ==
    /\ ~event.exists
    /\ event' = e
    /\ UNCHANGED <<participants, registering, referenced>>

\* Edited under its lock; its start may be moved either way.
UpdateEvent(e) ==
    /\ event.exists /\ ~EventLocked /\ e # event
    /\ event' = e
    /\ UNCHANGED <<participants, registering, referenced>>

EventStarts ==
    /\ event.exists /\ ~event.started
    /\ event' = [event EXCEPT !.started = TRUE]
    /\ UNCHANGED <<participants, registering, referenced>>

\* The participants go with the event; a session that refers to it keeps it.
DeleteEvent ==
    /\ event.exists /\ ~EventLocked /\ ~referenced
    /\ event' = NoEvent /\ participants' = {}
    /\ UNCHANGED <<registering, referenced>>

\* Inserting the session takes a share of the row of the event, which a
\* registration (FOR UPDATE) makes it wait for.
ReferToEvent ==
    /\ event.exists /\ ~EventLocked /\ ~referenced
    /\ referenced' = TRUE
    /\ UNCHANGED <<event, participants, registering>>

\* Mutant: the row is read without its lock.
RegisterGuardUnlocked(u) ==
    /\ event.exists /\ event.requires /\ ~event.started
    /\ u \notin participants \cup registering /\ HasRoom

\* Everything is checked with the row of the event locked.
RegisterGuard(u) ==
    /\ ~EventLocked
    /\ event.exists /\ event.requires /\ ~event.started
    /\ u \notin participants /\ HasRoom

RegisterBegin(u) ==
    /\ RegisterGuard(u)
    /\ registering' = registering \cup {u}
    /\ UNCHANGED <<event, participants, referenced>>

RegisterCommit(u) ==
    /\ u \in registering
    /\ registering' = registering \ {u}
    /\ participants' = participants \cup {u}
    /\ UNCHANGED <<event, referenced>>

Unregister(u) ==
    /\ event.exists /\ ~event.started /\ u \in participants
    /\ participants' = participants \ {u}
    /\ UNCHANGED <<event, registering, referenced>>

EventsNext ==
    \/ \E e \in EventValues : CreateEvent(e) \/ UpdateEvent(e)
    \/ EventStarts \/ DeleteEvent \/ ReferToEvent
    \/ \E u \in Guests : RegisterBegin(u) \/ RegisterCommit(u) \/ Unregister(u)

-----------------------------------------------------------------------------
EventsTypeOK ==
    /\ event \in EventValues \cup {NoEvent}
    /\ participants \subseteq Guests /\ registering \subseteq Guests
    /\ referenced \in BOOLEAN

\* Nobody is left registered for an event that is gone, and an attendance session
\* keeps its event.
EventsInv ==
    /\ EventsTypeOK
    /\ event.exists \/ participants \cup registering = {}
    /\ referenced => event.exists

\* A registration never takes an event over its capacity: events over it were
\* reduced by their manager.
RegistrationWithinCapacity ==
    [][\A u \in Guests :
          u \in participants' \ participants /\ event.capacity # Unlimited
             => Cardinality(participants') <= event.capacity]_eventVars
=============================================================================
