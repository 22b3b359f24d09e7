----------------------------- MODULE SlotServer -----------------------------
(***************************************************************************)
(* The first C elector, zone-manager/active-passive-elector: a loop that   *)
(* accepts clients into an array of slots, reads from all of them, works   *)
(* off their messages, and sleeps.  The array goes by one count, clients,  *)
(* that is at once the number of clients and the slot of the next.         *)
(*                                                                         *)
(* Nothing is ever closed: a slot is let go by writing 0 over its socket,  *)
(* so a descriptor, once accepted, is gone for good, and a client is not   *)
(* told.  Nor is the end of a connection noticed, where read returns 0.    *)
(*                                                                         *)
(* Messages are whole here: how they are cut from the bytes is what        *)
(* Framing has of the same loop in the elector that came after.            *)
(***************************************************************************)
EXTENDS Integers, Sequences, FiniteSets

CONSTANTS Clients,
          Demos,        \* those that are zone-manager/client, the others say what they like
          MaxClients,   \* MAX_CLIENTS
          Limits,       \* the descriptors the kernel may have for clients
          Bursts,       \* Bursts[c] is what another may send at once
          MaxSent,      \* bound: how often they do
          Free          \* in place of a client in a slot: socket 0

\* The type that is handled, one that is not, and a message longer than a buffer.
Messages == {"lease", "role", "long"}

ASSUME ClientsAssumption == Demos \subseteq Clients /\ Free \notin Clients
ASSUME LimitAssumption ==
    MaxClients \in Nat \ {0} /\ Limits \subseteq Nat /\ MaxSent \in Nat
ASSUME BurstsAssumption == Bursts \in [Clients -> SUBSET (Seq(Messages) \ {<<>>})]

VARIABLES peer,      \* the other end: "off", "queued" (connected and not yet
                     \* accepted), "open", "ended" or "reset"
          wire,      \* messages the kernel holds of a client
          sent,      \* how often it has sent
          limit,     \* the descriptors there are
          accepted,  \* those given out
          listening, \* init_tcp_server has succeeded
          slot,      \* client_connections, whose is the socket
          buffer,    \* client_connections, recv_buffer
          clients,   \* the count
          phase, at, \* where the server is in its loop
          should_exit,
          removed    \* a message of no known type has made the server drop a client

kernel == <<peer, wire, sent>>
slots == <<slot, buffer, clients>>
vars == <<kernel, limit, accepted, listening, slots, phase, at, should_exit, removed>>

Slots == 0..MaxClients - 1

Live == {i \in Slots : slot[i] # Free}
Stopped == phase \in {"exited", "wrecked"}

-----------------------------------------------------------------------------
\* The clients.

Connect(c) ==
    /\ peer[c] = "off"
    /\ peer' = [peer EXCEPT ![c] = "queued"]
    /\ UNCHANGED <<wire, sent, limit, accepted, listening, slots, phase, at, should_exit, removed>>

\* The buffer of the demo has room for it; the server has no use for its type.
serialize_Set_Role_Message == "role"

\* The demo sends a role, and nothing else.
Send(c) == \E m \in IF c \in Demos THEN {<<serialize_Set_Role_Message>>} ELSE Bursts[c] :
    /\ peer[c] \in {"queued", "open"}
    /\ sent[c] < IF c \in Demos THEN 1 ELSE MaxSent
    /\ wire' = [wire EXCEPT ![c] = @ \o m]
    /\ sent' = [sent EXCEPT ![c] = @ + 1]
    /\ UNCHANGED <<peer, limit, accepted, listening, slots, phase, at, should_exit, removed>>

\* It exits, the demo having sent its message; or its connection is reset.
End(c) == \E how \in {"ended", "reset"} :
    /\ peer[c] = "open"
    /\ c \in Demos => sent[c] = 1
    /\ peer' = [peer EXCEPT ![c] = how]
    /\ UNCHANGED <<wire, sent, limit, accepted, listening, slots, phase, at, should_exit, removed>>

\* SIGINT.
Interrupt ==
    /\ ~should_exit /\ ~Stopped
    /\ should_exit' = TRUE
    /\ UNCHANGED <<kernel, limit, accepted, listening, slots, phase, at, removed>>

-----------------------------------------------------------------------------
\* The loop.

Waiting == {c \in Clients : peer[c] = "queued"}

CanAccept == listening /\ Waiting # {} /\ accepted < limit

\* A slot is taken, with nothing in its buffer.
init_tcp_connection(i, c) ==
    /\ slot' = [slot EXCEPT ![i] = c]
    /\ buffer' = [buffer EXCEPT ![i] = <<>>]

\* A descriptor is given out for a client.
Admit(c) ==
    /\ phase = "accept" /\ CanAccept /\ c \in Waiting
    /\ peer' = [peer EXCEPT ![c] = "open"]
    /\ accepted' = accepted + 1
    /\ UNCHANGED <<wire, sent, limit, listening, should_exit, removed>>

\* accept_clients, one round of its loop.  Behind the last slot lies the count
\* itself: after a write there nothing more can be said.
Accept == \E c \in Clients :
    /\ Admit(c)
    /\ IF clients \in Slots
       THEN /\ init_tcp_connection(clients, c)
            /\ clients' = clients + 1
            /\ UNCHANGED phase
       ELSE phase' = "wrecked" /\ UNCHANGED slots
    /\ UNCHANGED at

\* fcntl fails: the descriptor is in no slot, and its client is connected to
\* nobody.
AcceptLost == \E c \in Clients :
    /\ Admit(c)
    /\ phase' = "read" /\ at' = 0
    /\ UNCHANGED slots

\* It returns: there is nobody, or accept has failed, for want of a descriptor
\* or only this time.
AcceptEnds ==
    /\ phase = "accept"
    /\ phase' = "read" /\ at' = 0
    /\ UNCHANGED <<kernel, limit, accepted, listening, slots, should_exit, removed>>

\* Mutant: only as many slots as there are clients.
VisitsCount(i) == i < clients

\* Both loops: clients_read stays 0, so any client at all keeps them going to
\* the end of the array.
Visits(i) == 0 < clients /\ i \in Slots

\* A buffer is full for good if a message does not fit.
Full(i) == buffer[i] # <<>>

\* Up to where a read gets, which is not beyond a long message.
Upto(messages) ==
    LET ends == {j \in DOMAIN messages : messages[j] = "long"} \cup {Len(messages)}
    IN  CHOOSE j \in ends : \A l \in ends : j <= l

\* Mutant: the error takes the client off the count, too.
AfterErrorCounted == clients - 1

\* The count after a read has failed.
AfterError == clients

\* Mutant: the connection is closed.
ReturnedOnError == accepted - 1

\* The descriptors given out after a read has failed.
Returned == accepted

\* buffer_data_from_clients, one slot.
Read ==
    /\ phase = "read" /\ Visits(at)
    /\ at' = at + 1
    /\ LET c == slot[at] IN
       IF c = Free \/ Full(at) THEN UNCHANGED <<wire, slots, accepted>>
       ELSE IF wire[c] = <<>> /\ peer[c] = "reset"
       THEN slot' = [slot EXCEPT ![at] = Free] /\ clients' = AfterError
            /\ accepted' = Returned
            /\ UNCHANGED <<wire, buffer>>
       ELSE /\ buffer' = [buffer EXCEPT ![at] = SubSeq(wire[c], 1, Upto(wire[c]))]
            /\ wire' = [wire EXCEPT ![c] = SubSeq(@, Upto(@) + 1, Len(@))]
            /\ UNCHANGED <<slot, clients, accepted>>
    /\ UNCHANGED <<peer, sent, limit, listening, phase, should_exit, removed>>

ReadEnds ==
    /\ phase = "read" /\ ~Visits(at)
    /\ phase' = "process" /\ at' = 0
    /\ UNCHANGED <<kernel, limit, accepted, listening, slots, should_exit, removed>>

\* The first message that stops the work: it is not whole, or of no known type.
Stops(messages) == {j \in DOMAIN messages : messages[j] # "lease"}
FirstStop(messages) ==
    CHOOSE j \in Stops(messages) : \A l \in Stops(messages) : j <= l

\* Mutant: counted down outside the branch, for every message.
RemovalEach(i) == clients - FirstStop(buffer[i])

\* The count after a client is removed.
Removal(i) == clients - 1

\* The messages of one slot, and the rest moved to the front.
Process ==
    /\ phase = "process" /\ Visits(at)
    /\ at' = at + 1
    /\ LET messages == buffer[at] IN
       IF slot[at] = Free THEN UNCHANGED <<slots, removed>>
       ELSE IF Stops(messages) = {}
       THEN buffer' = [buffer EXCEPT ![at] = <<>>] /\ UNCHANGED <<slot, clients, removed>>
       ELSE /\ buffer' = [buffer EXCEPT ![at] =
                             SubSeq(@, FirstStop(messages), Len(messages))]
            /\ IF messages[FirstStop(messages)] = "role"
               THEN /\ slot' = [slot EXCEPT ![at] = Free]
                    /\ clients' = Removal(at)
                    /\ removed' = TRUE
               ELSE UNCHANGED <<slot, clients, removed>>
    /\ UNCHANGED <<kernel, limit, accepted, listening, phase, should_exit>>

\* Mutant: not before its clients are gone.
LeavesIdle == should_exit /\ clients = 0

Leaves == should_exit

\* Exit, the kernel closing what is open, or sleep and go round.
ProcessEnds ==
    /\ phase = "process" /\ ~Visits(at)
    /\ phase' = IF Leaves THEN "exited" ELSE "accept"
    /\ at' = 0
    /\ UNCHANGED <<kernel, limit, accepted, listening, slots, should_exit, removed>>

-----------------------------------------------------------------------------
\* A failure to listen is reported, and the loop entered all the same.
Init ==
    /\ peer = [c \in Clients |-> "off"]
    /\ wire = [c \in Clients |-> <<>>] /\ sent = [c \in Clients |-> 0]
    /\ limit \in Limits /\ accepted = 0 /\ listening \in BOOLEAN
    /\ slot = [i \in Slots |-> Free] /\ buffer = [i \in Slots |-> <<>>]
    /\ clients = 0
    /\ phase = "accept" /\ at = 0
    /\ should_exit = FALSE /\ removed = FALSE

Server == Accept \/ AcceptLost \/ AcceptEnds \/ Read \/ ReadEnds \/ Process \/ ProcessEnds

Next ==
    \/ \E c \in Clients : ~Stopped /\ (Connect(c) \/ Send(c) \/ End(c))
    \/ Interrupt
    \/ Server

Spec == Init /\ [][Next]_vars

\* The loop goes round: none of its calls blocks, and the sleep ends.
FairSpec == Spec /\ WF_vars(Server)

-----------------------------------------------------------------------------
\* Type invariant of the server.
TypeOK ==
    /\ peer \in [Clients -> {"off", "queued", "open", "ended", "reset"}]
    /\ wire \in [Clients -> Seq(Messages)]
    /\ sent \in [Clients -> Nat]
    /\ limit \in Limits /\ accepted \in Nat /\ listening \in BOOLEAN
    /\ slot \in [Slots -> Clients \cup {Free}]
    /\ buffer \in [Slots -> Seq(Messages)]
    /\ clients \in Nat
    /\ phase \in {"accept", "read", "process", "exited", "wrecked"}
    /\ at \in 0..MaxClients
    /\ should_exit \in BOOLEAN /\ removed \in BOOLEAN

\* The loops end as soon as the count is 0: it never falls below the number of
\* clients there are, though a client that was read with an error is counted on
\* and a slot in use may be written over.
CountCoversLive == Cardinality(Live) <= clients

\* A client that is accepted takes nobody's slot, unless one was removed: a read
\* error leaves the count alone, and so the next slot free.
NobodyOverwritten ==
    [][phase # "wrecked" => \A i \in Slots :
          slot[i] # Free /\ slot'[i] # slot[i] => slot'[i] = Free \/ removed]_vars

\* There is no test against MAX_CLIENTS when a client is accepted.  What keeps
\* the server within its array is that the kernel has no more descriptors than
\* that, since none is given back.
InBounds == limit <= MaxClients => phase # "wrecked"

\* What a client in a slot sends is read in the end, and a connection that is
\* reset is let go: unless a long message blocks it.
Blocked(i) == buffer[i] # <<>> /\ Head(buffer[i]) = "long"
Due(c) == \E i \in Slots :
    slot[i] = c /\ ~Blocked(i) /\ (wire[c] # <<>> \/ peer[c] = "reset")
NobodyOverlooked == \A c \in Clients : Due(c) ~> ~Due(c) \/ Stopped

\* Told to exit, the server does, whatever its clients send.
Exits == should_exit ~> Stopped
=============================================================================
