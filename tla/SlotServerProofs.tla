--------------------------- MODULE SlotServerProofs ---------------------------
(***************************************************************************)
(* The slots of the first C elector, for any number of clients, slots,     *)
(* descriptors and messages: the count covers the clients there are, a     *)
(* slot is not taken from a client unless one was removed before, and      *)
(* nothing is written behind the array while there are no more descriptors *)
(* than slots.                                                             *)
(***************************************************************************)
EXTENDS SlotServer, FiniteSetTheorems, SequenceTheorems, WellFoundedInduction, TLAPS

\* A set of numbers has a least one.
LEMMA Least ==
    ASSUME NEW S \in SUBSET Nat, S # {}
    PROVE  \E m \in S : \A l \in S : m <= l
<1>1. PICK m \in S : \A l \in S : ~(<<l, m>> \in OpToRel(<, Nat))
  BY NatLessThanWellFounded, WFMin
<1>2. \A l \in S : ~(l < m)
  BY <1>1 DEF OpToRel
<1> QED BY <1>2

\* How far a read gets is a place in the messages, or their end.
LEMMA UptoType ==
    ASSUME NEW messages \in Seq(Messages)
    PROVE  Upto(messages) \in 0..Len(messages)
<1> DEFINE ends == {j \in DOMAIN messages : messages[j] = "long"} \cup {Len(messages)}
<1>1. ends \subseteq 0..Len(messages) /\ ends # {}
  BY LenProperties
<1>2. ends \in SUBSET Nat
  BY <1>1, LenProperties
<1>3. Upto(messages) = CHOOSE j \in ends : \A l \in ends : j <= l
  BY DEF Upto
<1> HIDE DEF ends
<1>4. \E m \in ends : \A l \in ends : m <= l
  BY <1>1, <1>2, Least
<1> QED BY <1>1, <1>3, <1>4

\* The first message that stops the work is one of them.
LEMMA FirstStopType ==
    ASSUME NEW messages \in Seq(Messages), Stops(messages) # {}
    PROVE  FirstStop(messages) \in 1..Len(messages)
<1>1. Stops(messages) \subseteq 1..Len(messages)
  BY LenProperties DEF Stops
<1>2. \E m \in Stops(messages) : \A l \in Stops(messages) : m <= l
  BY <1>1, Least
<1> QED BY <1>1, <1>2 DEF FirstStop

\* A part of the messages is a sequence of messages.
LEMMA PartType ==
    ASSUME NEW messages \in Seq(Messages), NEW m \in 1..Len(messages) + 1,
           NEW n \in 0..Len(messages)
    PROVE  SubSeq(messages, m, n) \in Seq(Messages)
<1>1. Len(messages) \in Nat /\ \A i \in 1..Len(messages) : messages[i] \in Messages
  BY LenProperties, ElementOfSeq
<1> QED BY <1>1, SubSeqProperties

-----------------------------------------------------------------------------
(***************************************************************************)
(* The invariant.  That the count stays a natural number, of a server that *)
(* counts down, rests on its covering the slots in use.                    *)
(***************************************************************************)

\* Every client that is counted was given a descriptor.
Accounted == clients <= accepted /\ accepted <= limit

\* As long as no client was removed, the slots from the count on are free: only
\* then is the count the slot of the next.
FreeBehind == ~removed => \A i \in Slots : i >= clients => slot[i] = Free

SlotInv == TypeOK /\ CountCoversLive /\ Accounted /\ FreeBehind /\ InBounds

LEMMA LiveFinite == IsFiniteSet(Slots) /\ IsFiniteSet(Live) /\ Cardinality(Live) \in Nat
<1>1. IsFiniteSet(Slots)
  BY LimitAssumption, FS_Interval DEF Slots
<1>2. Live \in SUBSET Slots
  BY DEF Live
<1> QED BY <1>1, <1>2, FS_Subset, FS_CardinalityType

\* A slot let go is one client less, if it was in use.
LEMMA LetGo ==
    ASSUME TypeOK, NEW i \in Slots, slot[i] # Free,
           slot' = [slot EXCEPT ![i] = Free]
    PROVE  Cardinality(Live)' = Cardinality(Live) - 1 /\ Cardinality(Live) > 0
<1>1. Live' = Live \ {i} /\ i \in Live
  BY DEF Live, TypeOK
<1>2. Cardinality(Live \ {i}) = Cardinality(Live) - 1
  BY <1>1, LiveFinite, FS_RemoveElement
<1>3. Cardinality(Live) > 0
  BY <1>1, LiveFinite, FS_EmptySet
<1> QED BY <1>1, <1>2, <1>3

\* A slot taken is one client more, at the most.
LEMMA Taken ==
    ASSUME TypeOK, NEW i \in Slots, NEW c \in Clients,
           slot' = [slot EXCEPT ![i] = c]
    PROVE  Cardinality(Live)' \in Nat /\ Cardinality(Live)' <= Cardinality(Live) + 1
<1>1. Live' = Live \cup {i}
  BY ClientsAssumption DEF Live, TypeOK
<1> DEFINE n == Cardinality(Live)
<1>2. IsFiniteSet(Live) /\ n \in Nat
  BY LiveFinite
<1>3. Cardinality(Live \cup {i}) = IF i \in Live THEN n ELSE n + 1
  BY <1>2, FS_AddElement
<1>4. Cardinality(Live \cup {i}) \in {n, n + 1}
  BY <1>3
<1> QED BY <1>1, <1>2, <1>4

LEMMA SlotStep == SlotInv /\ [Next]_vars => SlotInv'
<1> SUFFICES ASSUME SlotInv, [Next]_vars PROVE SlotInv'
  OBVIOUS
<1>t. TypeOK /\ CountCoversLive /\ Accounted /\ FreeBehind /\ InBounds
  BY DEF SlotInv
<1>o. ASSUME TypeOK', UNCHANGED <<slot, clients, accepted, limit, removed>>,
             phase' = "wrecked" => phase = "wrecked"
      PROVE  SlotInv'
  <2>1. Live' = Live
    BY <1>o DEF Live
  <2>2. CountCoversLive'
    BY <1>o, <1>t, <2>1 DEF CountCoversLive
  <2> QED BY <1>o, <1>t, <2>2 DEF SlotInv, Accounted, FreeBehind, InBounds
<1>1. ASSUME NEW c \in Clients, Connect(c) PROVE SlotInv'
  <2>1. TypeOK'
    BY <1>1, <1>t DEF Connect, TypeOK, slots
  <2> QED BY <1>1, <1>o, <2>1 DEF Connect, slots
<1>2. ASSUME NEW c \in Clients, Send(c) PROVE SlotInv'
  <2>1. PICK m \in Seq(Messages) :
           wire' = [wire EXCEPT ![c] = @ \o m] /\ sent' = [sent EXCEPT ![c] = @ + 1]
    <3>1. <<"role">> \in Seq(Messages)
      BY DEF Messages
    <3> QED BY <1>2, <3>1, BurstsAssumption DEF Send, serialize_Set_Role_Message
  <2>2. wire' \in [Clients -> Seq(Messages)] /\ sent' \in [Clients -> Nat]
    BY <1>t, <2>1, ConcatProperties DEF TypeOK
  <2>3. TypeOK'
    BY <1>2, <1>t, <2>2 DEF Send, TypeOK, slots
  <2> QED BY <1>2, <1>o, <2>3 DEF Send, slots
<1>3. ASSUME NEW c \in Clients, End(c) PROVE SlotInv'
  <2>1. TypeOK'
    BY <1>3, <1>t DEF End, TypeOK, slots
  <2> QED BY <1>3, <1>o, <2>1 DEF End, slots
<1>4. ASSUME Interrupt PROVE SlotInv'
  <2>1. TypeOK'
    BY <1>4, <1>t DEF Interrupt, TypeOK, slots, kernel
  <2> QED BY <1>4, <1>o, <2>1 DEF Interrupt, slots
<1>5. ASSUME Accept PROVE SlotInv'
  <2>1. PICK c \in Clients :
           /\ peer' = [peer EXCEPT ![c] = "open"]
           /\ accepted' = accepted + 1
           /\ \/ /\ clients \in Slots
                 /\ slot' = [slot EXCEPT ![clients] = c]
                 /\ buffer' = [buffer EXCEPT ![clients] = <<>>]
                 /\ clients' = clients + 1
                 /\ phase' = phase
              \/ clients \notin Slots /\ phase' = "wrecked" /\ UNCHANGED slots
    BY <1>5 DEF Accept, Admit, init_tcp_connection
  <2>2. /\ UNCHANGED <<wire, sent, limit, listening, at, should_exit, removed>>
        /\ accepted < limit /\ phase = "accept"
    BY <1>5 DEF Accept, Admit, CanAccept
  <2>n. clients \in Nat /\ accepted \in Nat /\ limit \in Nat /\ MaxClients \in Nat
    BY <1>t, LimitAssumption DEF TypeOK
  <2>3. TypeOK'
    <3>1. accepted' \in Nat /\ clients' \in Nat
      BY <2>1, <2>n DEF slots
    <3>2. /\ slot' \in [Slots -> Clients \cup {Free}]
          /\ buffer' \in [Slots -> Seq(Messages)]
      <4>1. slot \in [Slots -> Clients \cup {Free}] /\ buffer \in [Slots -> Seq(Messages)]
        BY <1>t DEF TypeOK
      <4>2. CASE UNCHANGED slots
        BY <4>1, <4>2 DEF slots
      <4>3. CASE slot' = [slot EXCEPT ![clients] = c]
                 /\ buffer' = [buffer EXCEPT ![clients] = <<>>]
        <5>1. slot' \in [Slots -> Clients \cup {Free}]
          BY <4>1, <4>3
        <5>2. buffer' \in [Slots -> Seq(Messages)]
          BY <4>1, <4>3, EmptySeq
        <5> QED BY <5>1, <5>2
      <4> QED BY <2>1, <4>2, <4>3
    <3>3. /\ phase' \in {"accept", "read", "process", "exited", "wrecked"}
          /\ peer' \in [Clients -> {"off", "queued", "open", "ended", "reset"}]
      BY <1>t, <2>1, <2>2 DEF TypeOK
    <3>4. /\ wire' \in [Clients -> Seq(Messages)] /\ sent' \in [Clients -> Nat]
          /\ limit' \in Limits /\ listening' \in BOOLEAN /\ at' \in 0..MaxClients
          /\ should_exit' \in BOOLEAN /\ removed' \in BOOLEAN
      BY <1>t, <2>2 DEF TypeOK
    <3> QED BY <3>1, <3>2, <3>3, <3>4 DEF TypeOK
  <2>4. CASE clients \in Slots
    <3>1. /\ slot' = [slot EXCEPT ![clients] = c] /\ clients' = clients + 1
          /\ phase' = phase
      BY <2>1, <2>4 DEF slots
    <3>2. CountCoversLive'
      <4>1. Cardinality(Live)' \in Nat /\ Cardinality(Live)' <= Cardinality(Live) + 1
        BY <1>t, <2>4, <3>1, Taken
      <4> QED BY <1>t, <2>n, <3>1, <4>1, LiveFinite DEF CountCoversLive
    <3>3. FreeBehind'
      BY <1>t, <2>2, <2>n, <3>1 DEF FreeBehind, TypeOK, Slots
    <3> QED BY <1>t, <2>1, <2>2, <2>3, <2>n, <3>1, <3>2, <3>3 DEF SlotInv, Accounted, InBounds
  <2>5. CASE clients \notin Slots
    <3>1. UNCHANGED slots /\ phase' = "wrecked"
      BY <2>1, <2>5
    <3>2. clients >= MaxClients
      BY <2>5, <2>n DEF Slots
    <3>3. ~(limit <= MaxClients)
      BY <1>t, <2>2, <2>n, <3>2 DEF Accounted
    <3>4. Live' = Live
      BY <3>1 DEF Live, slots
    <3> QED
      BY <1>t, <2>1, <2>2, <2>3, <2>n, <3>1, <3>3, <3>4
      DEF SlotInv, CountCoversLive, Accounted, FreeBehind, InBounds, slots
  <2> QED BY <2>4, <2>5
<1>6. ASSUME AcceptEnds PROVE SlotInv'
  <2>1. TypeOK'
    BY <1>6, <1>t, LimitAssumption DEF AcceptEnds, TypeOK, slots, kernel
  <2> QED BY <1>6, <1>o, <2>1 DEF AcceptEnds, slots
<1>l. ASSUME AcceptLost PROVE SlotInv'
  <2>1. PICK c \in Clients : peer' = [peer EXCEPT ![c] = "open"]
    BY <1>l DEF AcceptLost, Admit
  <2>2. /\ UNCHANGED <<wire, sent, limit, listening, should_exit, removed, slots>>
        /\ accepted < limit /\ accepted' = accepted + 1
        /\ phase' = "read" /\ at' = 0
    BY <1>l DEF AcceptLost, Admit, CanAccept
  <2>3. accepted \in Nat /\ limit \in Nat /\ clients \in Nat /\ 0 \in 0..MaxClients
    BY <1>t, LimitAssumption DEF TypeOK
  <2>4. TypeOK'
    BY <1>t, <2>1, <2>2, <2>3 DEF TypeOK, slots
  <2>5. Live' = Live
    BY <2>2 DEF Live, slots
  <2> QED
    BY <1>t, <2>2, <2>3, <2>4, <2>5
    DEF SlotInv, CountCoversLive, Accounted, FreeBehind, InBounds, slots
<1>7. ASSUME Read PROVE SlotInv'
  <2> DEFINE c == slot[at]
  <2>1. /\ phase = "read" /\ Visits(at) /\ at' = at + 1
        /\ UNCHANGED <<peer, sent, limit, listening, phase, should_exit, removed>>
    BY <1>7 DEF Read
  <2>2. at \in Slots /\ at' \in 0..MaxClients
    BY <2>1, LimitAssumption DEF Visits, Slots
  <2>3. CASE UNCHANGED <<wire, slots, accepted>>
    <3>1. TypeOK'
      BY <1>t, <2>1, <2>2, <2>3 DEF TypeOK, slots
    <3> QED BY <1>o, <2>1, <2>3, <3>1 DEF slots
  <2>4. CASE /\ c # Free /\ slot' = [slot EXCEPT ![at] = Free] /\ clients' = clients
             /\ accepted' = accepted /\ UNCHANGED <<wire, buffer>>
    <3>1. TypeOK'
      BY <1>t, <2>1, <2>2, <2>4 DEF TypeOK
    <3>2. CountCoversLive'
      <4>1. Cardinality(Live)' = Cardinality(Live) - 1
        BY <1>t, <2>2, <2>4, LetGo
      <4> QED BY <1>t, <2>4, <4>1, LiveFinite DEF CountCoversLive, TypeOK
    <3> QED
      BY <1>t, <2>1, <2>2, <2>4, <3>1, <3>2
      DEF SlotInv, Accounted, FreeBehind, InBounds, TypeOK
  <2>5. CASE /\ c # Free
             /\ buffer' = [buffer EXCEPT ![at] = SubSeq(wire[c], 1, Upto(wire[c]))]
             /\ wire' = [wire EXCEPT ![c] = SubSeq(@, Upto(@) + 1, Len(@))]
             /\ UNCHANGED <<slot, clients, accepted>>
    <3>1. wire[c] \in Seq(Messages) /\ Len(wire[c]) \in Nat
      BY <1>t, <2>2, <2>5, LenProperties DEF TypeOK
    <3>2. Upto(wire[c]) \in 0..Len(wire[c])
      BY <3>1, UptoType
    <3>3. /\ SubSeq(wire[c], 1, Upto(wire[c])) \in Seq(Messages)
          /\ SubSeq(wire[c], Upto(wire[c]) + 1, Len(wire[c])) \in Seq(Messages)
      BY <3>1, <3>2, PartType
    <3>4. wire' \in [Clients -> Seq(Messages)] /\ buffer' \in [Slots -> Seq(Messages)]
      BY <1>t, <2>5, <3>3 DEF TypeOK
    <3>5. TypeOK'
      BY <1>t, <2>1, <2>2, <2>5, <3>4 DEF TypeOK
    <3> QED BY <1>o, <2>1, <2>5, <3>5
  <2> QED BY <1>7, <2>3, <2>4, <2>5 DEF Read, AfterError, Returned
<1>8. ASSUME ReadEnds PROVE SlotInv'
  <2>1. TypeOK'
    BY <1>8, <1>t, LimitAssumption DEF ReadEnds, TypeOK, slots, kernel
  <2> QED BY <1>8, <1>o, <2>1 DEF ReadEnds, slots
<1>9. ASSUME Process PROVE SlotInv'
  <2> DEFINE messages == buffer[at]
  <2>1. /\ phase = "process" /\ Visits(at) /\ at' = at + 1
        /\ UNCHANGED <<peer, wire, sent, limit, accepted, listening, phase, should_exit>>
    BY <1>9 DEF Process, kernel
  <2>2. at \in Slots /\ at' \in 0..MaxClients /\ messages \in Seq(Messages)
    BY <1>t, <2>1, LimitAssumption DEF Visits, Slots, TypeOK
  <2>3. CASE UNCHANGED <<slots, removed>>
    <3>1. TypeOK'
      BY <1>t, <2>1, <2>2, <2>3 DEF TypeOK, slots
    <3> QED BY <1>o, <2>1, <2>3, <3>1 DEF slots
  <2>4. CASE buffer' = [buffer EXCEPT ![at] = <<>>] /\ UNCHANGED <<slot, clients, removed>>
    <3>1. TypeOK'
      BY <1>t, <2>1, <2>2, <2>4, EmptySeq DEF TypeOK
    <3> QED BY <1>o, <2>1, <2>4, <3>1
  <2>5. CASE /\ slot[at] # Free /\ Stops(messages) # {}
             /\ buffer' = [buffer EXCEPT ![at] =
                              SubSeq(@, FirstStop(messages), Len(messages))]
             /\ \/ /\ slot' = [slot EXCEPT ![at] = Free]
                   /\ clients' = clients - 1
                   /\ removed' = TRUE
                \/ UNCHANGED <<slot, clients, removed>>
    <3>1. SubSeq(messages, FirstStop(messages), Len(messages)) \in Seq(Messages)
      <4>1. Len(messages) \in Nat /\ FirstStop(messages) \in 1..Len(messages)
        BY <2>2, <2>5, FirstStopType, LenProperties
      <4> QED BY <2>2, <4>1, PartType
    <3>2. buffer' \in [Slots -> Seq(Messages)]
      BY <1>t, <2>5, <3>1 DEF TypeOK
    <3>3. CASE UNCHANGED <<slot, clients, removed>>
      <4>1. TypeOK'
        BY <1>t, <2>1, <2>2, <3>2, <3>3 DEF TypeOK
      <4> QED BY <1>o, <2>1, <3>3, <4>1
    <3>4. CASE /\ slot' = [slot EXCEPT ![at] = Free]
               /\ clients' = clients - 1 /\ removed' = TRUE
      <4>1. /\ Cardinality(Live)' = Cardinality(Live) - 1 /\ Cardinality(Live) > 0
            /\ Cardinality(Live) \in Nat /\ Cardinality(Live) <= clients
            /\ clients \in Nat /\ accepted \in Nat /\ limit \in Nat
        BY <1>t, <2>2, <2>5, <3>4, LetGo, LiveFinite, LimitAssumption
        DEF CountCoversLive, TypeOK
      <4>2. TypeOK'
        BY <1>t, <2>1, <2>2, <3>2, <3>4, <4>1 DEF TypeOK
      <4>3. CountCoversLive' /\ Accounted' /\ FreeBehind'
        BY <1>t, <2>1, <3>4, <4>1 DEF CountCoversLive, Accounted, FreeBehind
      <4> QED BY <1>t, <2>1, <4>2, <4>3 DEF SlotInv, InBounds
    <3> QED BY <2>5, <3>3, <3>4
  <2> QED BY <1>9, <2>3, <2>4, <2>5 DEF Process, Removal
<1>10. ASSUME ProcessEnds PROVE SlotInv'
  <2>1. TypeOK'
    BY <1>10, <1>t, LimitAssumption DEF ProcessEnds, TypeOK, slots, kernel
  <2> QED BY <1>10, <1>o, <2>1 DEF ProcessEnds, slots
<1>11. CASE UNCHANGED vars
  <2>1. TypeOK'
    BY <1>11, <1>t DEF vars, TypeOK, slots, kernel
  <2> QED BY <1>11, <1>o, <2>1 DEF vars, slots
<1> QED
  BY <1>1, <1>2, <1>3, <1>4, <1>5, <1>6, <1>l, <1>7, <1>8, <1>9, <1>10, <1>11 DEF Next, Server

LEMMA SlotInit == Init => SlotInv
<1> SUFFICES ASSUME Init PROVE SlotInv
  OBVIOUS
<1>1. TypeOK
  <2>1. wire \in [Clients -> Seq(Messages)] /\ buffer \in [Slots -> Seq(Messages)]
    <3>1. <<>> \in Seq(Messages)
      BY EmptySeq
    <3> QED BY <3>1 DEF Init
  <2>2. /\ peer \in [Clients -> {"off", "queued", "open", "ended", "reset"}]
        /\ sent \in [Clients -> Nat] /\ slot \in [Slots -> Clients \cup {Free}]
    BY DEF Init
  <2>3. at \in 0..MaxClients /\ accepted \in Nat /\ clients \in Nat
    BY LimitAssumption DEF Init
  <2> QED BY <2>1, <2>2, <2>3 DEF Init, TypeOK
<1>2. CountCoversLive
  <2>1. Live = {}
    BY DEF Init, Live
  <2> QED BY <2>1, FS_EmptySet DEF Init, CountCoversLive
<1> QED BY <1>1, <1>2, LimitAssumption DEF SlotInv, Init, Accounted, FreeBehind, InBounds

LEMMA SlotInvariant == Spec => []SlotInv
BY SlotInit, SlotStep, PTL DEF Spec

\* Type correctness of the server.
THEOREM TypeCorrect == Spec => []TypeOK
<1>1. SlotInv => TypeOK
  BY DEF SlotInv
<1> QED BY <1>1, SlotInvariant, PTL

\* The count, by which the loops go, never falls below the clients there are.
THEOREM NobodyUncounted == Spec => []CountCoversLive
<1>1. SlotInv => CountCoversLive
  BY DEF SlotInv
<1> QED BY <1>1, SlotInvariant, PTL

\* With no more descriptors than slots, nothing is written behind the array.
THEOREM StaysInBounds == Spec => []InBounds
<1>1. SlotInv => InBounds
  BY DEF SlotInv
<1> QED BY <1>1, SlotInvariant, PTL

\* A client is accepted into a free slot, unless a client was removed before.
THEOREM SlotsAreKept == Spec => NobodyOverwritten
<1> DEFINE Kept == phase # "wrecked" => \A i \in Slots :
                slot[i] # Free /\ slot'[i] # slot[i] => slot'[i] = Free \/ removed
<1>1. SlotInv /\ [Next]_vars => [Kept]_vars
  <2> SUFFICES ASSUME SlotInv, [Next]_vars, NEW i \in Slots,
                      slot[i] # Free, slot'[i] # slot[i], ~removed
               PROVE  slot'[i] = Free
    OBVIOUS
  <2>t. TypeOK /\ FreeBehind
    BY DEF SlotInv
  <2>1. ASSUME Accept PROVE slot'[i] = slot[i]
    <3>1. CASE clients \in Slots
      <4>1. slot[clients] = Free /\ \E c : slot' = [slot EXCEPT ![clients] = c]
        BY <2>1, <2>t, <3>1 DEF Accept, Admit, init_tcp_connection, FreeBehind, TypeOK
      <4> QED BY <2>t, <4>1 DEF TypeOK
    <3>2. CASE clients \notin Slots
      BY <2>1, <3>2 DEF Accept, slots
    <3> QED BY <3>1, <3>2
  <2>2. ASSUME Read PROVE slot'[i] = Free
    BY <2>2, <2>t DEF Read, TypeOK, slots
  <2>3. ASSUME Process PROVE slot'[i] = Free
    BY <2>3, <2>t DEF Process, TypeOK, slots
  <2>4. slot' = slot \/ Accept \/ Read \/ Process
    BY DEF Next, Server, Connect, Send, End, Interrupt, AcceptLost, AcceptEnds, ReadEnds,
       ProcessEnds, vars, slots
  <2> QED BY <2>1, <2>2, <2>3, <2>4
<1> QED BY <1>1, SlotInvariant, PTL DEF Spec, NobodyOverwritten
=============================================================================
