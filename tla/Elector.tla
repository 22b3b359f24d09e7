------------------------------- MODULE Elector -------------------------------
(***************************************************************************)
(* The process of the active-passive-elector: the event loop of            *)
(* active-passive-elector/source/main.c around the attempts of             *)
(* RoleElection, the list of clients it walks, what it reads from their    *)
(* connections and what it writes back.                                    *)
(*                                                                         *)
(* A pass of the loop accepts whoever is waiting and then visits every     *)
(* client on the list: reads what has arrived, works the messages off,     *)
(* looks at the time, and attempts to update the role; each of the first   *)
(* two may fail, and the third may find the client silent, and then it is  *)
(* dropped.  Between any two of these steps clients, other electors and    *)
(* the API server go on.                                                   *)
(***************************************************************************)
EXTENDS RoleElection, Sequences, FiniteSets, SequencesExt

CONSTANTS ClientTimeout,  \* CLIENT_TIMEOUT_SECONDS
          Heartbeat,      \* a message of type HEARTBEAT_MSG_ID, either way
          Bogus,          \* a message of an unhandled type, or Set_Lease_Info
                          \* with a field that is too long
          Says,           \* Says[c] is the set of messages c may send
          InboxBound,     \* messages that may wait for a visit (bound)
          SendBuffer      \* messages a connection takes before a write fails

Message == Info \cup {NoInfo, Heartbeat, Bogus}

ASSUME LoopAssumption ==
    /\ ClientTimeout \in Nat /\ InboxBound \in Nat /\ SendBuffer \in Nat
    /\ Says \in [Client -> SUBSET Message]
    /\ \A c \in Client : Says[c] \subseteq Presents[c] \cup {Heartbeat, Bogus}
    /\ {Heartbeat, Bogus} \cap (Info \cup {NoInfo}) = {} /\ Heartbeat # Bogus
    /\ Heartbeat \notin Role

VARIABLES pc,       \* where the loop of an elector is
          clients,  \* Program_Database.clients, newest first
          todo,     \* client_node and the nodes after it
          age,      \* seconds since Client.last_heartbeat_time, counted up to
                    \* ClientTimeout + 1
          conn,     \* the connection, as the kernel of the elector has it
          hung,     \* clients whose end of the connection is closed
          inbox,    \* messages that have arrived and were not read
          held,     \* Connection.buffer: messages read and not worked off
          outbox,   \* messages written and not yet read by the client
          view,     \* the role the client was last told
          missed,   \* the last role could not be written (history variable)
          knocked   \* the client the walk has come to had a heartbeat waiting
                    \* when it came (history variable)

loop == <<pc, clients, todo, knocked>>
wire == <<age, conn, hung, inbox, held, outbox, view, missed>>
allVars == <<vars, loop, wire>>

\* Where the loop is while it works for the client the walk has come to.
Walking == {"visit", "process", "check", "update"}

Room(c) == SendBuffer - Len(outbox[c])

-----------------------------------------------------------------------------
\* The servicers, as far as the elector sees them: what they read and write is
\* what the test client does.

Connect(c) ==
    /\ conn[c] = "none"
    /\ conn' = [conn EXCEPT ![c] = "pending"]
    /\ UNCHANGED <<vars, loop, age, hung, inbox, held, outbox, view, missed>>

\* The servicer is there.
Connected(c) == conn[c] \in {"pending", "open"} /\ c \notin hung

Send(c, m) ==
    /\ Connected(c) /\ Len(inbox[c]) < InboxBound
    /\ inbox' = [inbox EXCEPT ![c] = Append(@, m)]
    /\ UNCHANGED <<vars, loop, age, conn, hung, held, outbox, view, missed>>

\* Mutant: every message read is taken for a role.
ReceiveAny(c) ==
    /\ Connected(c) /\ outbox[c] # <<>>
    /\ outbox' = [outbox EXCEPT ![c] = Tail(@)]
    /\ view' = [view EXCEPT ![c] = Head(outbox[c])]
    /\ UNCHANGED <<vars, loop, age, conn, hung, inbox, held, missed>>

Receive(c) ==
    /\ Connected(c) /\ outbox[c] # <<>>
    /\ outbox' = [outbox EXCEPT ![c] = Tail(@)]
    /\ view' = IF Head(outbox[c]) = Heartbeat THEN view
               ELSE [view EXCEPT ![c] = Head(outbox[c])]
    /\ UNCHANGED <<vars, loop, age, conn, hung, inbox, held, missed>>

\* The servicer closes the connection or dies with the kernel closing it, be it
\* accepted yet or not.  (A host that dies without a word just sends nothing
\* any more.)
HangUp(c) ==
    /\ Connected(c)
    /\ hung' = hung \cup {c}
    /\ UNCHANGED <<vars, loop, age, conn, inbox, held, outbox, view, missed>>

-----------------------------------------------------------------------------
\* The loop.

\* Insert a new client at the start of the list.
Accept(e) == \E c \in Client :
    /\ pc[e] = "accept" /\ Host[c] = e /\ conn[c] = "pending"
    /\ Join(c)
    /\ conn' = [conn EXCEPT ![c] = "open"]
    /\ age' = [age EXCEPT ![c] = 0]
    /\ clients' = [clients EXCEPT ![e] = <<c>> \o @]
    /\ UNCHANGED <<pc, todo, knocked, hung, inbox, held, outbox, view, missed>>

Knocks(c) == Heartbeat \in ToSet(inbox[c])

\* The walk turns to the first of the nodes in s, if there is one.
TurnTo(e, s) ==
    /\ todo' = [todo EXCEPT ![e] = s]
    /\ pc' = [pc EXCEPT ![e] = IF s = <<>> THEN "sleep" ELSE "visit"]
    /\ knocked' = [knocked EXCEPT ![e] = s # <<>> /\ Knocks(Head(s))]

\* Nobody is waiting: enumerate over all clients.
BeginPass(e) ==
    /\ pc[e] = "accept" /\ \A c \in Client : Host[c] = e => conn[c] # "pending"
    /\ TurnTo(e, clients[e])
    /\ UNCHANGED <<vars, clients, wire>>

\* client_node = client_node->next.
Advance(e) == TurnTo(e, Tail(todo[e]))

GoOn(e, at) == pc' = [pc EXCEPT ![e] = at] /\ UNCHANGED <<todo, knocked>>

\* Mutant: the first of the list is set, the node before is not.
UnlinkFirst(s, k) == IF k = 1 THEN Tail(s) ELSE s

\* The neighbours of a node, and the first of the list, are set past it.
Unlink(s, k) == RemoveAt(s, k)

\* disconnect_client.
Disconnect(e) == LET c == Head(todo[e]) IN
    /\ Leave(c) /\ Advance(e)
    /\ \E k \in DOMAIN clients[e] :
          clients[e][k] = c /\ clients' = [clients EXCEPT ![e] = Unlink(@, k)]
    /\ conn' = [conn EXCEPT ![c] = "none"]
    /\ hung' = hung \ {c}
    /\ inbox' = [inbox EXCEPT ![c] = <<>>]
    /\ held' = [held EXCEPT ![c] = <<>>]
    /\ outbox' = [outbox EXCEPT ![c] = <<>>]
    /\ view' = [view EXCEPT ![c] = "unknown"]
    /\ missed' = [missed EXCEPT ![c] = FALSE]
    /\ age' = [age EXCEPT ![c] = 0]

\* buffer_data_from_connection: of a connection closed by the other side, what
\* had arrived before can still be read.
Read(e) == LET c == Head(todo[e]) IN
    /\ pc[e] = "visit" /\ (c \in hung => inbox[c] # <<>>)
    /\ held' = [held EXCEPT ![c] = inbox[c]]
    /\ inbox' = [inbox EXCEPT ![c] = <<>>]
    /\ GoOn(e, "process")
    /\ UNCHANGED <<vars, clients, age, conn, hung, outbox, view, missed>>

\* It returns -1: there is nothing more to read, or the connection was reset.
ReadFails(e) == pc[e] = "visit" /\ Head(todo[e]) \in hung /\ Disconnect(e)

Beats(c) == Cardinality({k \in DOMAIN held[c] : held[c][k] = Heartbeat})
News(c) == {k \in DOMAIN held[c] : held[c][k] \in Presents[c]}

\* A message is nonsense, or a heartbeat too many to be returned.
Unworkable(c) == Bogus \in ToSet(held[c]) \/ Beats(c) > Room(c)

\* process_messages_for_client: heartbeats are returned, of several lease
\* informations the last one stays.
Process(e) == LET c == Head(todo[e]) IN
    /\ pc[e] = "process" /\ ~Unworkable(c)
    /\ \/ News(c) = {} /\ UNCHANGED vars
       \/ \E k \in News(c) : /\ \A j \in News(c) : j <= k
                             /\ SetInfo(c, held[c][k])
    /\ held' = [held EXCEPT ![c] = <<>>]
    /\ outbox' = [outbox EXCEPT ![c] = @ \o [k \in 1..Beats(c) |-> Heartbeat]]
    /\ age' = [age EXCEPT ![c] = IF Beats(c) = 0 THEN @ ELSE 0]
    /\ GoOn(e, "check")
    /\ UNCHANGED <<clients, conn, hung, inbox, view, missed>>

\* It returns -1, if need be because nobody takes the heartbeat returned.
ProcessFails(e) == LET c == Head(todo[e]) IN
    /\ pc[e] = "process" /\ (Unworkable(c) \/ (c \in hung /\ Beats(c) > 0))
    /\ Disconnect(e)

\* Mutant: only those that have said what they want are timed out.
TimedOutKnown(c) == age[c] > ClientTimeout /\ info[c] # NoInfo

\* time(0x00) - client->last_heartbeat_time > CLIENT_TIMEOUT_SECONDS.
TimedOut(c) == age[c] > ClientTimeout

\* Mutant: the time may be looked at before what has arrived is read.
TimeOutUnread(e) ==
    pc[e] \in {"visit", "check"} /\ TimedOut(Head(todo[e])) /\ Disconnect(e)

TimeOut(e) == pc[e] = "check" /\ TimedOut(Head(todo[e])) /\ Disconnect(e)

\* Mutant: a client that is active needs no attempt.
ReadyUntilActive(c) == info[c] # NoInfo /\ role[c] # "active"

\* identity, lease_name and lease_namespace have been provided.
Ready(c) == info[c] # NoInfo

\* Attempt to update the role, if appropriate.
InTime(e) == LET c == Head(todo[e]) IN
    /\ pc[e] = "check" /\ ~TimedOut(c)
    /\ IF Ready(c) THEN GoOn(e, "update") ELSE Advance(e)
    /\ UNCHANGED <<vars, clients, wire>>

\* Mutant: only what the last step of an attempt changed counts as a change.
NotifyOfStep(c) ==
    IF role'[c] = role[c] THEN UNCHANGED <<outbox, missed>>
    ELSE /\ outbox' = IF Room(c) > 0
                      THEN [outbox EXCEPT ![c] = Append(@, role'[c])]
                      ELSE outbox
         /\ missed' = [missed EXCEPT ![c] = Room(c) = 0]

\* Role changed, update client; what write returns is not looked at.
Notify(c) ==
    IF role'[c] = attempt[c].before THEN UNCHANGED <<outbox, missed>>
    ELSE /\ outbox' = IF Room(c) > 0
                      THEN [outbox EXCEPT ![c] = Append(@, role'[c])]
                      ELSE outbox
         /\ missed' = [missed EXCEPT ![c] = Room(c) = 0]

\* get_lease fails: nothing changes.
GetLeaseFails(e) ==
    /\ pc[e] = "update" /\ attempt[Head(todo[e])].stage = "idle"
    /\ Advance(e)
    /\ UNCHANGED <<vars, clients, wire>>

\* attempt_to_update_role goes on with its requests, or comes to its end.
Update(e) == LET c == Head(todo[e]) IN
    /\ pc[e] = "update" /\ Step(c)
    /\ IF attempt'[c].stage # "idle"
       THEN UNCHANGED <<pc, todo, knocked, outbox, missed>>
       ELSE Notify(c) /\ Advance(e)
    /\ UNCHANGED <<clients, age, conn, hung, inbox, held, view>>

\* The process ends, by a signal or a failure, and its pod starts it anew; all
\* its connections are gone.
Reboot(e) == LET S == {c \in Client : Host[c] = e} IN
    /\ Restart(e)
    /\ pc' = [pc EXCEPT ![e] = "accept"]
    /\ clients' = [clients EXCEPT ![e] = <<>>]
    /\ todo' = [todo EXCEPT ![e] = <<>>]
    /\ knocked' = [knocked EXCEPT ![e] = FALSE]
    /\ conn' = [c \in Client |-> IF c \in S THEN "none" ELSE conn[c]]
    /\ hung' = hung \ S
    /\ inbox' = [c \in Client |-> IF c \in S THEN <<>> ELSE inbox[c]]
    /\ held' = [c \in Client |-> IF c \in S THEN <<>> ELSE held[c]]
    /\ outbox' = [c \in Client |-> IF c \in S THEN <<>> ELSE outbox[c]]
    /\ view' = [c \in Client |-> IF c \in S THEN "unknown" ELSE view[c]]
    /\ missed' = [c \in Client |-> IF c \in S THEN FALSE ELSE missed[c]]
    /\ age' = [c \in Client |-> IF c \in S THEN 0 ELSE age[c]]

\* The time is looked at within the second the messages were worked off in.
Prompt == \A e \in Elector : pc[e] # "check"

\* A second passes; an elector that slept through it starts its next pass.
Second ==
    /\ Prompt /\ Tick
    /\ age' = [c \in Client |-> IF c \in online /\ age[c] <= ClientTimeout
                                THEN age[c] + 1 ELSE age[c]]
    /\ pc' = [e \in Elector |-> IF pc[e] = "sleep" THEN "accept" ELSE pc[e]]
    /\ UNCHANGED <<clients, todo, knocked, conn, hung, inbox, held, outbox, view, missed>>

LoopInit ==
    /\ Init
    /\ pc = [e \in Elector |-> "accept"]
    /\ clients = [e \in Elector |-> <<>>]
    /\ todo = [e \in Elector |-> <<>>]
    /\ age = [c \in Client |-> 0]
    /\ conn = [c \in Client |-> "none"]
    /\ hung = {}
    /\ inbox = [c \in Client |-> <<>>]
    /\ held = [c \in Client |-> <<>>]
    /\ outbox = [c \in Client |-> <<>>]
    /\ view = [c \in Client |-> "unknown"]
    /\ missed = [c \in Client |-> FALSE]
    /\ knocked = [e \in Elector |-> FALSE]

LoopStep(e) ==
    \/ Accept(e) \/ BeginPass(e)
    \/ Read(e) \/ ReadFails(e) \/ Process(e) \/ ProcessFails(e)
    \/ TimeOut(e) \/ InTime(e) \/ GetLeaseFails(e) \/ Update(e)

LoopNext ==
    \/ \E c \in Client : \/ Connect(c) \/ Receive(c) \/ HangUp(c)
                         \/ \E m \in Says[c] : Send(c, m)
    \/ \E e \in Elector : LoopStep(e) \/ Reboot(e)
    \/ \E l \in Lease : StoreLate(l) /\ UNCHANGED <<loop, wire>>
    \/ Second

LoopSpec == LoopInit /\ [][LoopNext]_allVars

\* The clock runs and the thread of an elector is scheduled; every request ends,
\* one way or the other.  Nothing is assumed of the servicers.
LoopFairSpec ==
    /\ LoopSpec
    /\ WF_allVars(Second)
    /\ \A e \in Elector : WF_allVars(LoopStep(e))

-----------------------------------------------------------------------------
\* Type invariant of the event loop.
LoopTypeOK ==
    /\ TypeOK
    /\ pc \in [Elector -> Walking \cup {"accept", "sleep"}]
    /\ clients \in [Elector -> Seq(Client)]
    /\ todo \in [Elector -> Seq(Client)]
    /\ knocked \in [Elector -> BOOLEAN]
    /\ age \in [Client -> 0..ClientTimeout + 1]
    /\ conn \in [Client -> {"none", "pending", "open"}]
    /\ hung \subseteq Client
    /\ inbox \in [Client -> Seq(Message)]
    /\ held \in [Client -> Seq(Message)]
    /\ outbox \in [Client -> Seq(Role \cup {Heartbeat})]
    /\ view \in [Client -> Role]
    /\ missed \in [Client -> BOOLEAN]

\* The walk over the list is safe although it drops clients on the way: a
\* client is on the list of its elector once, exactly while it is online; what
\* is left of the walk is the end of the list, so client_node was not freed;
\* and only the client the walk has come to is being attempted for.
WalkIsSafe ==
    \A e \in Elector :
        /\ IsInjective(clients[e])
        /\ ToSet(clients[e]) = {c \in online : Host[c] = e}
        /\ IsSuffix(todo[e], clients[e])
        /\ pc[e] \in Walking <=> todo[e] # <<>>
        /\ \A c \in Client : Host[c] = e /\ attempt[c].stage # "idle"
              => pc[e] = "update" /\ c = Head(todo[e])

\* r is the role a client will know once it has read what was written to it: that
\* of the last message that gives one, or the one it knows.
WillKnow(c, r) ==
    \/ /\ view[c] = r
       /\ \A k \in DOMAIN outbox[c] : outbox[c][k] = Heartbeat
    \/ \E k \in DOMAIN outbox[c] :
          /\ outbox[c][k] = r
          /\ \A j \in DOMAIN outbox[c] : j > k => outbox[c][j] = Heartbeat

\* Between attempts, what a client was told last is the role it has, however
\* often it changed and however late the client reads - unless the send buffer
\* had no room for the last Set_Role_Message.
ToldUnlessMissed ==
    \A c \in online :
        attempt[c].stage = "idle" /\ ~missed[c] => WillKnow(c, role[c])

\* A client with a heartbeat waiting when the walk comes to it is not dropped on
\* this visit for the time, however long the elector spent on requests for the
\* clients before it: only when its connection fails, or what it sent cannot be
\* worked off, or with the process.
NoFalseTimeout ==
    [][\A e \in Elector :
          knocked[e] /\ Head(todo[e]) \in online /\ Head(todo[e]) \notin online'
          => ReadFails(e) \/ ProcessFails(e) \/ Reboot(e)]_allVars

\* A client that falls silent for good is dropped, so that its place in the
\* list does not keep renewing the lease for a dead servicer.
SilentClientDropped ==
    \A c \in Client : []<>(c \notin online) \/ []<>(inbox[c] # <<>>)

\* "The lease will continually be attempted to be obtained" (README.md:9): a
\* client that stays and has said what it wants is attempted for again and
\* again, whatever the others do.
KeepsTrying ==
    \A c \in Client :
        \/ []<>(info[c] = NoInfo)
        \/ []<>(pc[Host[c]] = "update" /\ Head(todo[Host[c]]) = c)
=============================================================================
