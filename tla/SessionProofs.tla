---------------------------- MODULE SessionProofs ----------------------------
(***************************************************************************)
(* In a session nobody that is alive is given up, a servicer shows the     *)
(* role it has, and what is said is what is heard, for any gaps between    *)
(* the passes of the two loops, any timeout and any strings.               *)
(***************************************************************************)
EXTENDS Session, CodecProofs

Since == [elector : 0..Timeout + 1, client : 0..Timeout + 1,
          visit : 0..ElectorGap, pass : 0..ClientGap]

\* The types of the clocks and of the ends of the connection.
ClocksOK ==
    /\ who \in Cases
    /\ client \in {"off", "up", "gone", "dead"}
    /\ conn \in {"none", "waiting", "served", "dropped", "dead"}
    /\ role \in Role
    /\ since \in Since

\* How long each side may not have heard of the other, told by when the next
\* pass and the next visit are due.  Without a heartbeat waiting for the
\* elector, none was sent since it read the last one; with one, the elector
\* has not come round since it was sent.
Fresh == conn = "none" => ~beat /\ ~back

Testing == who.kind = "test" /\ client = "up"

ElectorHears == Testing /\ conn = "served" =>
    since.elector <= IF beat THEN ClientGap + since.visit ELSE since.pass

\* A servicer hears nothing back only if the elector has not come round since
\* its first heartbeat after the last it heard.
ClientHears == Testing /\ Open /\ ~back =>
    since.client <= IF beat THEN ClientGap + since.visit ELSE since.pass

HearInv == ClocksOK /\ Fresh /\ ElectorHears /\ ClientHears

LEMMA LaterType ==
    ASSUME NEW n \in 0..Timeout + 1
    PROVE  Later(n) \in 0..Timeout + 1 /\ Later(n) <= n + 1
BY GapAssumption DEF Later

\* Clocks that are set are still clocks.
LEMMA ClocksSet ==
    ASSUME NEW s \in Since, NEW e \in 0..Timeout + 1, NEW c \in 0..Timeout + 1,
           NEW v \in 0..ElectorGap, NEW p \in 0..ClientGap
    PROVE  /\ [s EXCEPT !.pass = p, !.client = c] \in Since
           /\ [s EXCEPT !.visit = v, !.elector = e] \in Since
           /\ [s EXCEPT !.client = c, !.pass = p, !.visit = v] \in Since
<1>1. [s EXCEPT !.pass = p, !.client = c] \in Since
  BY DEF Since
<1>2. [s EXCEPT !.visit = v, !.elector = e] \in Since
  BY DEF Since
<1>3. [s EXCEPT !.client = c, !.pass = p, !.visit = v] \in Since
  BY DEF Since
<1> QED BY <1>1, <1>2, <1>3

\* What the servicers have in common when they start.
LEMMA Starts ==
    ASSUME Start
    PROVE  /\ client = "off" /\ conn = "none"
           /\ client' \in {"gone", "up"} /\ conn' = "waiting"
           /\ posted' = posted \/ posted' = Sent
           /\ since' = [since EXCEPT !.client = 0, !.pass = 0, !.visit = 0]
           /\ UNCHANGED <<who, beat, back, news, heard, role, shown>>
BY DEF Start, TestStart, StubStart, ScriptStart, Connects, Introduces

LEMMA ClocksStep == ClocksOK /\ [Next]_vars => ClocksOK'
<1> SUFFICES ASSUME ClocksOK, [Next]_vars PROVE ClocksOK'
  OBVIOUS
<1>z. /\ 0 \in 0..Timeout + 1 /\ 0 \in 0..ElectorGap /\ 0 \in 0..ClientGap
      /\ since \in Since
      /\ since.elector \in 0..Timeout + 1 /\ since.client \in 0..Timeout + 1
  BY GapAssumption DEF ClocksOK, Since
<1> USE GapAssumption DEF ClocksOK
<1>1. CASE Start
  <2>1. since' \in Since
    <3>1. since' = [since EXCEPT !.client = 0, !.pass = 0, !.visit = 0]
      BY <1>1, Starts, Zenon
    <3> QED BY <1>z, <3>1, ClocksSet
  <2>2. /\ client' \in {"gone", "up"} /\ conn' = "waiting"
        /\ UNCHANGED <<who, role>>
    BY <1>1, Starts
  <2> QED BY <2>1, <2>2
<1>2. CASE TestPass
  <2>1. since' \in Since
    <3> DEFINE c == IF back THEN 0 ELSE since.client
    <3>1. c \in 0..Timeout + 1
      BY <1>z
    <3>2. since' = since \/ since' = [since EXCEPT !.pass = 0, !.client = c]
      BY <1>2 DEF TestPass
    <3> HIDE DEF c
    <3>3. [since EXCEPT !.pass = 0, !.client = c] \in Since
      BY <1>z, <3>1, ClocksSet
    <3> QED BY <1>z, <3>2, <3>3
  <2>2. client' \in {"gone", "up"} /\ UNCHANGED <<who, conn, role>>
    BY <1>2 DEF TestPass
  <2> QED BY <2>1, <2>2
<1>3. CASE StubPass \/ ScriptPass
  BY <1>3 DEF StubPass, ScriptPass, ReadAll, mail, Since
<1>4. CASE ClientEnds
  BY <1>4 DEF ClientEnds, mail
<1>5. CASE Again
  BY <1>5 DEF Again, Role, Since
<1>6. CASE Accept
  BY <1>6 DEF Accept, mail, Since
<1>7. CASE Drop
  BY <1>7 DEF Drop, Role
<1>8. CASE Serve
  <2>1. since' \in Since
    <3> DEFINE e == IF beat THEN 0 ELSE since.elector
    <3>1. e \in 0..Timeout + 1
      BY <1>z
    <3>2. since' = [since EXCEPT !.visit = 0, !.elector = e]
      BY <1>8 DEF Serve
    <3> HIDE DEF e
    <3> QED BY <1>z, <3>1, <3>2, ClocksSet
  <2>2. role' = role \/ role' \in Role
    BY <1>8 DEF Serve, Attempt, Role
  <2>3. UNCHANGED <<who, client, conn>>
    BY <1>8 DEF Serve
  <2> QED BY <2>1, <2>2, <2>3 DEF Role
<1>9. CASE ElectorEnds
  BY <1>9 DEF ElectorEnds, mail, Role
<1>11. CASE Tick
  BY <1>11, LaterType DEF Tick, mail, Since
<1>12. CASE UNCHANGED vars
  BY <1>12 DEF vars, mail
<1> QED
  BY <1>1, <1>2, <1>3, <1>4, <1>5, <1>6, <1>7, <1>8, <1>9, <1>11, <1>12
  DEF Next, Pass, Visit

LEMMA HearStep == HearInv /\ [Next]_vars => HearInv'
<1> SUFFICES ASSUME HearInv, [Next]_vars PROVE HearInv'
  OBVIOUS
<1>t. ClocksOK /\ ClocksOK' /\ Fresh /\ ElectorHears /\ ClientHears
  BY ClocksStep DEF HearInv
<1> SUFFICES Fresh' /\ ElectorHears' /\ ClientHears'
  BY <1>t DEF HearInv
<1> USE <1>t, GapAssumption
<1> USE DEF ClocksOK, Since, Fresh, ElectorHears, ClientHears, Testing, Open
<1>1. CASE Start
  <2>1. /\ conn = "none" /\ conn' = "waiting"
        /\ UNCHANGED <<who, beat, back>>
    BY <1>1, Starts, Zenon
  <2>2. since' = [since EXCEPT !.client = 0, !.pass = 0, !.visit = 0]
    BY <1>1, Starts, Zenon
  <2>3. since'.client = 0
    BY <2>2
  <2> QED BY <2>1, <2>3
<1>2. CASE TestPass
  <2>1. CASE conn = "dropped" /\ client' = "gone" /\ UNCHANGED <<beat, back, news, shown, since>>
    BY <1>2, <2>1 DEF TestPass
  <2>2. CASE /\ beat' = (beat \/ Open) /\ back' = FALSE
             /\ since' = [since EXCEPT !.pass = 0, !.client = IF back THEN 0 ELSE @]
    <3>1. /\ since'.elector = since.elector /\ since'.visit = since.visit
          /\ since'.pass = 0 /\ since'.client = IF back THEN 0 ELSE since.client
      BY <2>2
    <3>2. UNCHANGED <<who, conn>> /\ client = "up"
      BY <1>2 DEF TestPass
    <3>3. (Open => beat') /\ ~back'
      BY <2>2
    <3>4. Fresh' /\ (beat => beat')
      BY <2>2, <3>2
    <3>5. ElectorHears'
      BY <3>1, <3>2, <3>3
    <3>6. ClientHears'
      BY <3>1, <3>2, <3>3
    <3> QED BY <3>4, <3>5, <3>6
  <2> QED BY <1>2, <2>1, <2>2 DEF TestPass, ReadAll
<1>3. CASE StubPass \/ ScriptPass
  BY <1>3 DEF StubPass, ScriptPass, ReadAll, mail
<1>4. CASE ClientEnds
  BY <1>4 DEF ClientEnds, mail
<1>5. CASE Again
  BY <1>5 DEF Again
<1>6. CASE Accept
  BY <1>6 DEF Accept, mail
<1>7. CASE Drop
  BY <1>7 DEF Drop
<1>8. CASE Serve
  <2>1. /\ since' = [since EXCEPT !.visit = 0, !.elector = IF beat THEN 0 ELSE @]
        /\ back' = (back \/ beat) /\ beat' = FALSE /\ conn = "served"
        /\ UNCHANGED <<who, client, conn>>
    BY <1>8 DEF Serve
  <2>2. /\ since'.client = since.client /\ since'.visit = 0 /\ since'.pass = since.pass
        /\ since'.elector = IF beat THEN 0 ELSE since.elector
    BY <2>1
  <2>3. (beat => back') /\ (back => back') /\ ~beat'
    BY <2>1
  <2> QED BY <2>1, <2>2, <2>3
<1>9. CASE ElectorEnds
  BY <1>9 DEF ElectorEnds, mail
<1>11. CASE Tick
  BY <1>11, LaterType DEF Tick, mail
<1>12. CASE UNCHANGED vars
  BY <1>12 DEF vars, mail
<1> QED
  BY <1>1, <1>2, <1>3, <1>4, <1>5, <1>6, <1>7, <1>8, <1>9, <1>11, <1>12
  DEF Next, Pass, Visit

LEMMA HearInit == Init => HearInv
BY GapAssumption
DEF Init, HearInv, ClocksOK, Since, Fresh, ElectorHears, ClientHears, Testing, Open, Role

LEMMA HearInvariant == Spec => []HearInv
BY HearInit, HearStep, PTL DEF Spec

\* Of two live sides neither gives the other up, provided a pass of the one
\* and a visit of the other fit into the timeout.
THEOREM NobodyIsGivenUp == Spec => NobodyGivenUp
<1> DEFINE Faithful == Patient /\ who.kind = "test" /\ client = "up" =>
                          /\ Open /\ TestPass => client' = "up"
                          /\ Drop => TooLong(Told)
<1>1. HearInv => Faithful
  <2> SUFFICES ASSUME HearInv, Patient, who.kind = "test", client = "up"
               PROVE  /\ Open /\ TestPass => client' = "up"
                      /\ Drop => TooLong(Told)
    OBVIOUS
  <2> USE GapAssumption
      DEF HearInv, ClocksOK, Since, Testing, ElectorHears, ClientHears, Patient
  <2>1. ASSUME Open, TestPass PROVE client' = "up"
    BY <2>1 DEF Open, TestPass, OutOfPatience, Overdue
  <2>2. ASSUME Drop PROVE TooLong(Told)
    BY <2>2 DEF Drop, Silent, Overdue
  <2> QED BY <2>1, <2>2
<1>2. HearInv /\ [Next]_vars => [Faithful]_vars
  BY <1>1
<1> HIDE DEF Faithful
<1>3. Spec => [][Faithful]_vars
  BY <1>2, HearInvariant, PTL DEF Spec
<1> QED BY <1>3 DEF NobodyGivenUp, Faithful

-----------------------------------------------------------------------------
(***************************************************************************)
(* The role of a servicer.                                                 *)
(***************************************************************************)

\* A role that was sent is the role that is read, though C and TypeScript
\* number the roles differently.
LEMMA RoleRead ==
    ASSUME NEW r \in {"passive", "active"}, RoleMessage(r) # NoMessage
    PROVE  ShownBy(RoleMessage(r)) = r
<1>1. Role \ {"unknown"} = {"passive", "active"}
  BY DEF Role
<1>2. RoleNumber("passive") = (IF InC THEN 1 ELSE 0)
  BY DEF RoleNumber
<1>3. RoleNumber("active") = (IF InC THEN 2 ELSE 1)
  BY DEF RoleNumber
<1>4. RoleMessage(r).body = <<Number(RoleNumber(r))>>
  BY DEF RoleMessage, serialize_Set_Role_Message, SerializeSetRoleMSG, Message
<1>5. RoleMessage(r).body[1].n = RoleNumber(r)
  BY <1>4 DEF Number
<1>6. ShownBy(RoleMessage(r)) =
         CHOOSE q \in {"passive", "active"} : RoleNumber(q) = RoleNumber(r)
  BY <1>1, <1>5 DEF ShownBy, deserialize_Set_Role_Message, DeserializeSetRoleMSG, NumberAt
<1>7. \A q \in {"passive", "active"} : RoleNumber(q) = RoleNumber(r) => q = r
  BY <1>2, <1>3
<1> QED BY <1>6, <1>7

LEMMA NothingWhole == ~Whole(NoMessage)
BY DEF Whole

LEMMA WhoStays == [Next]_vars => who' = who
BY Starts
DEF Next, TestPass, StubPass, ScriptPass, ClientEnds, Again, Accept, Drop, Serve,
    ElectorEnds, Tick, Pass, Visit, vars

\* A role always fits into the buffer.
LEMMA RoleFits == ASSUME NEW r \in Role PROVE RoleMessage(r) # NoMessage
<1>1. RoleMessage(r) = Message(HeaderSize + 1, <<Number(RoleNumber(r))>>)
  BY SizeAssumption DEF RoleMessage, serialize_Set_Role_Message, SerializeSetRoleMSG
<1>2. RoleMessage(r).length = HeaderSize + 1
  BY <1>1 DEF Message
<1>3. HeaderSize + 1 # NoMessage.length
  BY SizeAssumption DEF NoMessage
<1> QED BY <1>2, <1>3, Zenon

\* While it is served, a servicer of the C elector shows the role it has, or
\* the message that tells it is under way.
Shows ==
    InC /\ conn \in {"none", "waiting", "served"} =>
        IF news = NoMessage THEN shown = role
        ELSE role \in {"passive", "active"} /\ news = RoleMessage(role)

ShowInv == ClocksOK /\ Shows

LEMMA ShowStep == ShowInv /\ [Next]_vars => ShowInv'
<1> SUFFICES ASSUME ShowInv, [Next]_vars PROVE ShowInv'
  OBVIOUS
<1>w. who' = who
  BY WhoStays, Zenon
<1> SUFFICES ASSUME InC PROVE Shows'
  <2>1. ~InC => Shows'
    BY <1>w DEF Shows, InC
  <2> QED BY <2>1, ClocksStep DEF ShowInv
<1>k. ASSUME UNCHANGED <<conn, news, role, shown>> PROVE Shows'
  BY <1>k, <1>w DEF ShowInv, Shows, InC, RoleMessage, RoleNumber
<1>r. ASSUME ReadAll, UNCHANGED <<conn, role>> PROVE Shows'
  BY <1>r, RoleRead DEF ShowInv, Shows, ReadAll
<1>1. CASE Start
  <2>1. conn = "none" /\ conn' = "waiting" /\ UNCHANGED <<who, news, role, shown>>
    BY <1>1, Starts
  <2> QED BY <2>1 DEF ShowInv, Shows, InC, RoleMessage, RoleNumber
<1>2. CASE TestPass
  BY <1>2, <1>k, <1>r DEF TestPass
<1>3. CASE StubPass \/ ScriptPass
  BY <1>3, <1>k, <1>r DEF StubPass, ScriptPass, mail
<1>4. CASE ClientEnds
  BY <1>4, <1>k DEF ClientEnds, mail
<1>5. CASE Again
  BY <1>5 DEF Again, Shows
<1>6. CASE Accept
  <2>1. conn = "waiting" /\ conn' = "served" /\ UNCHANGED <<who, news, role, shown>>
    BY <1>6 DEF Accept, mail
  <2> QED BY <2>1 DEF ShowInv, Shows, InC, RoleMessage, RoleNumber
<1>7. CASE Drop
  BY <1>7 DEF Drop, Shows
<1>8. CASE Serve
  <2>1. UNCHANGED <<conn, shown>> /\ (Attempt \/ UNCHANGED <<role, news>>)
    BY <1>8 DEF Serve
  <2>2. CASE UNCHANGED <<role, news>>
    BY <1>k, <2>1, <2>2
  <2>3. CASE Attempt /\ ~UNCHANGED <<role, news>>
    <3>1. PICK r \in {"passive", "active"} : news' = RoleMessage(r) /\ role' = r
      BY <2>3 DEF Attempt, Notice
    <3>2. news' # NoMessage
      BY <3>1, RoleFits DEF Role
    <3>3. RoleMessage(role)' = RoleMessage(role')
      BY <1>w DEF RoleMessage, RoleNumber, InC
    <3> QED BY <3>1, <3>2, <3>3 DEF Shows
  <2> QED BY <2>1, <2>2, <2>3
<1>9. CASE ElectorEnds
  BY <1>9 DEF ElectorEnds, Shows
<1>11. CASE Tick
  BY <1>11, <1>k DEF Tick, mail
<1>12. CASE UNCHANGED vars
  BY <1>12, <1>k DEF vars, mail
<1> QED
  BY <1>1, <1>2, <1>3, <1>4, <1>5, <1>6, <1>7, <1>8, <1>9, <1>11, <1>12
  DEF Next, Pass, Visit

\* A servicer of the C elector takes itself for what it is taken for, once it
\* has read what was sent: whatever either side does in between, and whoever is
\* started again.
THEOREM RoleIsShown == Spec => []ShowsItsRole
<1>1. Init => ShowInv
  BY HearInit DEF HearInv, Init, ShowInv, Shows
<1>2. ShowInv => ShowsItsRole
  BY DEF ShowInv, Shows, ShowsItsRole
<1> QED BY <1>1, <1>2, ShowStep, PTL DEF Spec

-----------------------------------------------------------------------------
(***************************************************************************)
(* What is said and heard.                                                 *)
(***************************************************************************)

Said == [k \in Fields |-> Heard(who.says[k])]

\* It is read whole, or in TypeScript as the end of the buffer left it.
Taken(fields) == Len(fields) = 3 /\ (InC \/ Roomy(who.says) => fields = Said)

\* What is under way is what either side once wrote.
MailOK ==
    /\ posted \in {NoMessage, Sent}
    /\ heard = Unheard \/ Taken(heard)
    /\ news \in {NoMessage, RoleMessage("passive"), RoleMessage("active")}
    /\ shown \in Role
    /\ beat \in BOOLEAN /\ back \in BOOLEAN

WordInv == ClocksOK /\ MailOK

LEMMA Says ==
    ASSUME who \in Cases
    PROVE  IsString(who.says[1]) /\ IsString(who.says[2]) /\ IsString(who.says[3])
<1>1. \A k \in Fields : IsString(who.says[k])
  BY CasesAssumption, Zenon
<1>2. 1 \in Fields /\ 2 \in Fields /\ 3 \in Fields
  BY DEF Fields
<1> QED BY <1>1, <1>2, Zenon

\* The elector hears what the servicer says.
LEMMA Heeded ==
    ASSUME who \in Cases, Whole(Sent)
    PROVE  Taken(Decoded(Sent))
<1>0. Len(Said) = 3
  BY DEF Said, Fields
<1>1. Said = <<Heard(who.says[1]), Heard(who.says[2]), Heard(who.says[3])>>
  BY DEF Said, Fields
<1>2. Sent # NoMessage /\ HeaderSize + Len(Sent.body) >= Sent.length
  BY Zenon DEF Whole
<1>3. CASE InC
  <2>1. Sent = serialize_Set_Lease_Info_Message(who.says)
    BY <1>3, Zenon DEF Sent, InC
  <2>2. deserialize_Set_Lease_Info_Message(Sent.body)
           = <<who.says[1].text, who.says[2].text, who.says[3].text>>
    BY <1>2, <2>1, Says, ReadAsWritten, Zenon
  <2>3. Decoded(Sent) = Said
    BY <1>1, <1>3, <2>2, Zenon DEF Decoded, Heard
  <2> QED BY <1>0, <2>3, Zenon DEF Taken
<1>4. CASE ~InC
  <2>1. Sent = SerializeSetLeaseInformationMSG(who.says)
    BY <1>4, Zenon DEF Sent, InC
  <2>2. ASSUME Roomy(who.says)
        PROVE  DeserializeSetLeaseInformationMSG(Sent.body)
                  = <<toString(SubSeq(who.says[1].text, 1, who.says[1].units)),
                      toString(SubSeq(who.says[2].text, 1, who.says[2].units)),
                      toString(SubSeq(who.says[3].text, 1, who.says[3].units))>>
    BY <1>2, <2>1, <2>2, Says, ReadByUnits, Zenon
  <2>3. Roomy(who.says) => Decoded(Sent) = Said
    BY <1>1, <1>4, <2>2, Zenon DEF Decoded, Heard
  <2>4. Len(Decoded(Sent)) = 3
    <3>1. PICK p, q, r : DeserializeSetLeaseInformationMSG(Sent.body) = <<p, q, r>>
      BY ThreeRead, Zenon
    <3>2. Decoded(Sent) = <<p, q, r>>
      BY <1>4, <3>1, Zenon DEF Decoded
    <3> QED BY <3>2
  <2> QED BY <1>4, <2>3, <2>4, Zenon DEF Taken
<1> QED BY <1>3, <1>4

LEMMA WordStep == WordInv /\ [Next]_vars => WordInv'
<1> SUFFICES ASSUME WordInv, [Next]_vars PROVE MailOK'
  BY ClocksStep DEF WordInv
<1>w. who' = who
  BY WhoStays, Zenon
<1>t. /\ who \in Cases /\ MailOK
      /\ Sent' = Sent /\ Said' = Said /\ InC' = InC /\ who' = who
      /\ RoleMessage("passive")' = RoleMessage("passive")
      /\ RoleMessage("active")' = RoleMessage("active")
  BY <1>w DEF WordInv, ClocksOK, Sent, Said, Heard, InC, RoleMessage, RoleNumber
<1>m. /\ posted \in {NoMessage, Sent} /\ (heard = Unheard \/ Taken(heard))
      /\ news \in {NoMessage, RoleMessage("passive"), RoleMessage("active")}
      /\ shown \in Role /\ beat \in BOOLEAN /\ back \in BOOLEAN
  BY <1>t, Zenon DEF MailOK
\* It is enough to look at what changes.
<1>s. ASSUME \/ posted' = posted \/ posted' = NoMessage \/ posted' = Sent,
             \/ heard' = heard \/ heard' = Unheard \/ Taken(heard'),
             \/ news' = news \/ news' = NoMessage
             \/ news' = RoleMessage("passive") \/ news' = RoleMessage("active"),
             shown' = shown \/ shown' \in Role,
             beat' \in BOOLEAN, back' \in BOOLEAN
      PROVE  MailOK'
  <2>1. posted' \in {NoMessage, Sent'}
    BY <1>m, <1>s, <1>t, Zenon
  <2>2. heard' = Unheard \/ Taken(heard)'
    BY <1>m, <1>s, <1>t, Zenon DEF Taken
  <2>3. news' \in {NoMessage, RoleMessage("passive")', RoleMessage("active")'}
    BY <1>m, <1>s, <1>t, Zenon
  <2> QED BY <1>m, <1>s, <2>1, <2>2, <2>3, Zenon DEF MailOK, NoMessage, Unheard, Role
<1>r. ASSUME ReadAll
      PROVE  (shown' = shown \/ shown' \in Role) /\ news' = NoMessage /\ back' \in BOOLEAN
  <2>1. shown' = (IF news = NoMessage THEN shown ELSE ShownBy(news))
        /\ news' = NoMessage /\ back' = FALSE
    BY <1>r, Zenon DEF ReadAll
  <2>2. news # NoMessage => ShownBy(news) \in Role
    <3>1. RoleMessage("passive") # NoMessage => ShownBy(RoleMessage("passive")) = "passive"
      BY RoleRead
    <3>2. RoleMessage("active") # NoMessage => ShownBy(RoleMessage("active")) = "active"
      BY RoleRead
    <3>3. "passive" \in Role /\ "active" \in Role
      BY DEF Role
    <3>4. CASE news = RoleMessage("passive")
      BY <3>1, <3>3, <3>4
    <3>5. CASE news = RoleMessage("active")
      BY <3>2, <3>3, <3>5
    <3> QED BY <1>m, <3>4, <3>5, Zenon
  <2> QED BY <2>1, <2>2, Zenon
<1>1. CASE Start
  <2>1. /\ posted' = posted \/ posted' = Sent
        /\ UNCHANGED <<beat, back, news, heard, shown>>
    BY <1>1, Starts, Zenon
  <2> QED BY <1>m, <1>s, <2>1, Zenon
<1>2. CASE TestPass
  <2>1. UNCHANGED <<posted, heard>>
    BY <1>2, Zenon DEF TestPass
  <2>2. CASE UNCHANGED <<beat, back, news, shown>>
    BY <1>m, <1>s, <2>1, <2>2, Zenon
  <2>3. CASE ReadAll /\ beat' = (beat \/ Open)
    BY <1>m, <1>s, <1>r, <2>1, <2>3, Zenon
  <2> QED BY <1>2, <2>2, <2>3, Zenon DEF TestPass
<1>3. CASE StubPass
  BY <1>3, <1>m, <1>s, Zenon DEF StubPass, mail
<1>4. CASE ScriptPass
  <2>1. UNCHANGED <<posted, beat, heard>>
    BY <1>4, Zenon DEF ScriptPass
  <2>2. UNCHANGED <<back, news, shown>> \/ ReadAll
    BY <1>4, Zenon DEF ScriptPass
  <2> QED BY <1>m, <1>s, <1>r, <2>1, <2>2, Zenon
<1>5. CASE ClientEnds
  BY <1>5, <1>m, <1>s, Zenon DEF ClientEnds, mail
<1>6. CASE Again
  BY <1>6, <1>m, <1>s, Zenon DEF Again, Role
<1>7. CASE Accept
  BY <1>7, <1>m, <1>s, Zenon DEF Accept, mail
<1>8. CASE Drop
  BY <1>8, <1>m, <1>s, Zenon DEF Drop
<1>9. CASE Serve
  <2>1. heard' = heard \/ Taken(heard')
    <3>1. heard' = Told /\ (Whole(posted) => posted = Sent)
      BY <1>9, <1>m, NothingWhole, Zenon DEF Serve
    <3> QED BY <1>t, <3>1, Heeded, Zenon DEF Told
  <2>2. /\ posted' = posted \/ posted' = NoMessage
        /\ beat' = FALSE /\ back' = (back \/ beat) /\ shown' = shown
        /\ Attempt \/ UNCHANGED <<role, news>>
    BY <1>9, Zenon DEF Serve
  <2>3. CASE Attempt
    <3>1. \/ news' = news
          \/ news' = RoleMessage("passive") \/ news' = RoleMessage("active")
      BY <2>3, Zenon DEF Attempt, Notice
    <3> QED BY <1>m, <1>s, <2>1, <2>2, <3>1, Zenon
  <2>4. CASE UNCHANGED <<role, news>>
    BY <1>m, <1>s, <2>1, <2>2, <2>4, Zenon
  <2> QED BY <2>2, <2>3, <2>4
<1>10. CASE ElectorEnds
  BY <1>10, <1>m, <1>s, Zenon DEF ElectorEnds, mail
<1>12. CASE Tick
  BY <1>12, <1>m, <1>s, Zenon DEF Tick, mail
<1>13. CASE UNCHANGED vars
  BY <1>13, <1>m, <1>s, Zenon DEF vars, mail
<1> QED
  BY <1>1, <1>2, <1>3, <1>4, <1>5, <1>6, <1>7, <1>8, <1>9, <1>10, <1>12, <1>13
  DEF Next, Pass, Visit

LEMMA WordInit == Init => WordInv
<1> SUFFICES ASSUME Init PROVE WordInv
  OBVIOUS
<1>1. ClocksOK
  BY HearInit DEF HearInv
<1> QED BY <1>1, Zenon DEF Init, WordInv, MailOK, Role

LEMMA WordInvariant == Spec => []WordInv
BY WordInit, WordStep, PTL DEF Spec

\* What the elector holds of a servicer is what the servicer was given to say:
\* in C byte by byte, and in TypeScript, of each string, what its first bytes
\* read as, as many as it has UTF-16 units, if all bytes fit into the buffer:
\* for strings and buffers of any length.
THEOREM HearsWhatIsSaid == Spec => []HeardAsSaid
<1>1. WordInv => HeardAsSaid
  BY Zenon DEF WordInv, MailOK, HeardAsSaid, Said, Taken
<1> QED BY <1>1, WordInvariant, PTL

\* The variables have their types.
THEOREM SessionTypes == Spec => []TypeOK
<1>1. ASSUME WordInv PROVE TypeOK
  <2>1. Len(Unheard) = 0
    BY DEF Unheard
  <2>2. Len(heard) \in {0, 3}
    BY <1>1, <2>1, Zenon DEF WordInv, MailOK, Taken
  <2>3. {beat, back} \subseteq BOOLEAN /\ shown \in Role
    BY <1>1, Zenon DEF WordInv, MailOK
  <2> QED BY <1>1, <2>2, <2>3, Zenon DEF WordInv, ClocksOK, Since, TypeOK
<1> QED BY <1>1, WordInvariant, PTL
=============================================================================
