------------------------------- MODULE Session -------------------------------
(***************************************************************************)
(* A servicer and the elector beside it, over time: what the servicer      *)
(* says of itself and how the elector hears it, the roles it is told, and  *)
(* the heartbeats by which each watches the other.                         *)
(*                                                                         *)
(* Each side runs a loop of its own.  What matters of a loop is how far    *)
(* apart its passes may be: ClientGap for the servicer; ElectorGap for     *)
(* two visits of the elector to this servicer, which the requests it makes *)
(* for all its clients, and the second it sleeps, add up to.  The          *)
(* interleavings within a visit are Elector's.                             *)
(*                                                                         *)
(* The servicers in the code are the test client; the stub of              *)
(* distribute-zone-simulation, which connects, says nothing and never      *)
(* sends a heartbeat; and the client of the TypeScript elector, where      *)
(* nobody sends heartbeats.                                                *)
(*                                                                         *)
(* Which role a servicer gets is left open: the lease it hangs on is       *)
(* RoleElection's and ElectorTS's.                                         *)
(***************************************************************************)
EXTENDS Codec

CONSTANTS Cases,          \* the kinds of servicer, with what they say
          MaxField,       \* MAX_IDENTITY_STRING_LEN and the two others
          Timeout,        \* CLIENT_TIMEOUT_SECONDS, the same on both sides
          ClientGap, ElectorGap

ASSUME GapAssumption == {MaxField, Timeout, ClientGap, ElectorGap} \subseteq Nat

\* Identity, name of the lease, and its namespace.
Fields == 1..3

ASSUME CasesAssumption == \A case \in Cases :
    /\ case.kind \in {"test", "stub", "ts"}
    /\ Len(case.says) = 3 /\ \A k \in Fields : IsString(case.says[k])

VARIABLES who,      \* the case at hand
          client,   \* "off", "up", "gone" (ended, its sockets closed), or "dead"
                    \* (stopped, without anybody being told)
          conn,     \* the connection at the elector: "none", "waiting" to be
                    \* accepted, "served", "dropped", or "dead" with the elector
          posted,   \* the Set_Lease_Info message the elector has not read
          beat,     \* a heartbeat the elector has not read
          back,     \* a heartbeat the servicer has not read
          news,     \* the last Set_Role message the servicer has not read
          heard,    \* Client.identity, lease_name and lease_namespace, if any
          role,     \* Client.role
          shown,    \* the role the servicer was last told
          since     \* seconds since either side's last_heartbeat_time, and
                    \* since its last pass: [elector, client, visit, pass]

mail == <<posted, beat, back, news>>
vars == <<who, client, conn, mail, heard, role, shown, since>>

Role == {"unknown", "passive", "active"}
Unheard == <<>>

InC == who.kind # "ts"
Open == conn \in {"waiting", "served"}

Sent == IF who.kind = "ts" THEN SerializeSetLeaseInformationMSG(who.says)
        ELSE serialize_Set_Lease_Info_Message(who.says)

\* What the elector takes a whole message to say.
Decoded(message) ==
    IF InC THEN deserialize_Set_Lease_Info_Message(message.body)
    ELSE DeserializeSetLeaseInformationMSG(message.body)

\* Role.h and role.ts number the roles differently.
RoleNumber(r) ==
    CASE r = "unknown" -> 0
      [] r = "passive" -> IF InC THEN 1 ELSE 0
      [] r = "active"  -> IF InC THEN 2 ELSE 1

RoleMessage(r) == IF InC THEN serialize_Set_Role_Message(RoleNumber(r))
                  ELSE SerializeSetRoleMSG(RoleNumber(r))

ShownBy(message) ==
    LET n == IF InC THEN deserialize_Set_Role_Message(message.body)
             ELSE DeserializeSetRoleMSG(message.body)
    IN  CHOOSE r \in Role \ {"unknown"} : RoleNumber(r) = n

-----------------------------------------------------------------------------
\* The servicer.

Connects ==
    /\ client = "off" /\ conn = "none"
    /\ conn' = "waiting"
    /\ since' = [since EXCEPT !.client = 0, !.pass = 0, !.visit = 0]
    /\ UNCHANGED <<who, beat, back, news, heard, role, shown>>

\* Say who it is; if that cannot be written, exit.
Introduces ==
    /\ client' = IF Sent = NoMessage THEN "gone" ELSE "up"
    /\ posted' = Sent

TestStart == who.kind = "test" /\ Connects /\ Introduces

ScriptStart == who.kind = "ts" /\ Connects /\ Introduces

StubStart == who.kind = "stub" /\ Connects /\ client' = "up" /\ UNCHANGED posted

Overdue(age) == age > Timeout

\* Mutant: the time is compared before the heartbeat is taken.
OutOfPatienceUnread == Overdue(since.client)

\* No heartbeat within the timeout, those just read included.
OutOfPatience == ~back /\ Overdue(since.client)

\* What has arrived is read.
ReadAll ==
    /\ back' = FALSE
    /\ shown' = IF news = NoMessage THEN shown ELSE ShownBy(news)
    /\ news' = NoMessage

\* The loop of the test client: send a heartbeat, read, look at the time.  On a
\* connection the elector has closed a write fails, though not always the first.
TestPass ==
    /\ client = "up" /\ who.kind = "test"
    /\ \/ conn = "dropped" /\ client' = "gone" /\ UNCHANGED <<beat, back, news, shown, since>>
       \/ /\ beat' = (beat \/ Open)
          /\ ReadAll
          /\ client' = IF OutOfPatience THEN "gone" ELSE "up"
          /\ since' = [since EXCEPT !.pass = 0, !.client = IF back THEN 0 ELSE @]
    /\ UNCHANGED <<who, conn, posted, heard, role>>

\* The loop of the stub: read, and keep what was read.
StubPass ==
    /\ client = "up" /\ who.kind = "stub"
    /\ since' = [since EXCEPT !.pass = 0]
    /\ UNCHANGED <<who, client, conn, mail, heard, role, shown>>

\* The client of the TypeScript elector reads its role and ends when the
\* connection is closed.
ScriptPass ==
    /\ client = "up" /\ who.kind = "ts"
    /\ IF conn = "dropped" THEN client' = "gone" /\ UNCHANGED <<back, news, shown>>
       ELSE ReadAll /\ UNCHANGED client
    /\ since' = [since EXCEPT !.pass = 0]
    /\ UNCHANGED <<who, conn, posted, beat, heard, role>>

\* It is told to exit, or stops for good without a word.
ClientEnds == \E end \in {"gone", "dead"} :
    /\ client = "up"
    /\ client' = end
    /\ UNCHANGED <<who, conn, mail, heard, role, shown, since>>

\* It is started again, by the name it has been given; the client of the
\* TypeScript elector draws a new one.
Again ==
    /\ client \in {"gone", "dead"} /\ conn \in {"dropped", "dead"}
    /\ client' = "off" /\ conn' = "none"
    /\ posted' = NoMessage /\ beat' = FALSE /\ back' = FALSE /\ news' = NoMessage
    /\ heard' = Unheard /\ role' = "unknown" /\ shown' = "unknown"
    /\ since' = [elector |-> 0, client |-> 0, visit |-> 0, pass |-> 0]
    /\ UNCHANGED who

-----------------------------------------------------------------------------
\* The elector.

Accept ==
    /\ conn = "waiting"
    /\ conn' = "served"
    /\ since' = [since EXCEPT !.elector = 0]
    /\ UNCHANGED <<who, client, mail, heard, role, shown>>

\* The message has arrived as far as its header says.
Whole(message) ==
    message # NoMessage /\ HeaderSize + Len(message.body) >= message.length

\* What is known of the servicer once its messages are worked off.
Told == IF Whole(posted) THEN Decoded(posted) ELSE heard

\* A field is longer than the elector keeps.
TooLong(fields) == \E k \in DOMAIN fields : Len(fields[k]) > MaxField

\* Mutant: only of a servicer that has said who it is.
SilentKnown == ~beat /\ Overdue(since.elector) /\ heard # Unheard

Silent == ~beat /\ Overdue(since.elector)

\* disconnect_client, or the close event.
Drop ==
    /\ conn = "served"
    /\ \/ client = "gone"
       \/ InC /\ (TooLong(Told) \/ Silent)
    /\ conn' = "dropped"
    /\ heard' = Unheard /\ role' = "unknown" /\ posted' = NoMessage /\ beat' = FALSE
    /\ UNCHANGED <<who, client, back, news, shown, since>>

\* Mutant: only who becomes active is told.
NoticeIfActive(r) == IF r = "active" THEN RoleMessage(r) ELSE news

\* The servicer is sent its role.
Notice(r) == RoleMessage(r)

\* attempt_to_update_role, or calls of a step: a new role is told.  In
\* TypeScript what was told may be undone when a call fails later, or another
\* call have its say, and nobody is told.
Attempt ==
    \/ UNCHANGED <<role, news>>
    \/ \E r \in {"passive", "active"} :
          /\ news' = Notice(r)
          /\ IF InC THEN r # role /\ role' = r ELSE role' \in Role
    \/ ~InC /\ role' \in Role /\ UNCHANGED news

\* Of a servicer that has said all it is asked for.
Ready(fields) == fields # Unheard /\ (InC => \A k \in Fields : fields[k] # <<>>)

\* Messages are worked off and a role is attempted.  That the other side has
\* closed the connection may go unnoticed for a while.
Serve ==
    /\ conn = "served" /\ (InC => ~TooLong(Told) /\ ~Silent)
    /\ heard' = Told
    /\ posted' = IF Whole(posted) THEN NoMessage ELSE posted
    /\ back' = (back \/ beat)
    /\ beat' = FALSE
    /\ IF Ready(Told) THEN Attempt ELSE UNCHANGED <<role, news>>
    /\ since' = [since EXCEPT !.visit = 0, !.elector = IF beat THEN 0 ELSE @]
    /\ UNCHANGED <<who, client, conn, shown>>

\* The process ends, and the kernel closes its connections; or its host does.
ElectorEnds == \E end \in {"dropped", "dead"} :
    /\ Open
    /\ conn' = end
    /\ heard' = Unheard /\ role' = "unknown"
    /\ UNCHANGED <<who, client, mail, shown, since>>

-----------------------------------------------------------------------------
Later(n) == IF n > Timeout THEN n ELSE n + 1

\* A second passes; nobody is late.
Tick ==
    /\ client = "up" => since.pass < ClientGap
    /\ Open => since.visit < ElectorGap
    /\ since' = [elector |-> IF conn = "served" /\ InC THEN Later(since.elector) ELSE 0,
                 client  |-> IF client = "up" /\ who.kind = "test"
                             THEN Later(since.client) ELSE 0,
                 visit   |-> IF Open THEN since.visit + 1 ELSE 0,
                 pass    |-> IF client = "up" THEN since.pass + 1 ELSE 0]
    /\ UNCHANGED <<who, client, conn, mail, heard, role, shown>>

Init ==
    /\ who \in Cases
    /\ client = "off" /\ conn = "none"
    /\ posted = NoMessage /\ beat = FALSE /\ back = FALSE /\ news = NoMessage
    /\ heard = Unheard /\ role = "unknown" /\ shown = "unknown"
    /\ since = [elector |-> 0, client |-> 0, visit |-> 0, pass |-> 0]

Start == TestStart \/ StubStart \/ ScriptStart
Pass == TestPass \/ StubPass \/ ScriptPass
Visit == Accept \/ Drop \/ Serve

Next == Start \/ Again \/ Pass \/ ClientEnds \/ Visit \/ ElectorEnds \/ Tick

Spec == Init /\ [][Next]_vars

\* Both loops go round, and the clock runs.
FairSpec == Spec /\ WF_vars(Tick) /\ WF_vars(Pass) /\ WF_vars(Visit)

-----------------------------------------------------------------------------
\* Type invariant of a session.
TypeOK ==
    /\ who \in Cases
    /\ client \in {"off", "up", "gone", "dead"}
    /\ conn \in {"none", "waiting", "served", "dropped", "dead"}
    /\ {beat, back} \subseteq BOOLEAN
    /\ Len(heard) \in {0, 3}
    /\ role \in Role /\ shown \in Role
    /\ since \in [elector : 0..Timeout + 1, client : 0..Timeout + 1,
                  visit : 0..ElectorGap, pass : 0..ClientGap]

\* What the elector holds of the servicer is what the servicer was given to say:
\* in C byte by byte; in TypeScript, of each string, what its first bytes read
\* as, as many as it has UTF-16 units.  So a string that is not ASCII loses its
\* own end, and a character cut there reads as U+FFFD, but it never damages
\* another string.  (That takes a buffer all bytes of the strings fit into.)
Heard(s) == IF InC THEN s.text ELSE toString(SubSeq(s.text, 1, s.units))
HeardAsSaid ==
    heard # Unheard /\ (InC \/ Roomy(who.says))
        => heard = [k \in Fields |-> Heard(who.says[k])]

\* A servicer of the C elector takes itself for what the elector takes it for,
\* once it has read what was sent: through all changes of its role, the two
\* loops going round as they please, and as Role.h numbers the roles.
ShowsItsRole ==
    InC /\ client = "up" /\ conn = "served" /\ news = NoMessage => shown = role

\* No two live sides give each other up: a test client leaves no elector that
\* serves it, and an elector drops a test client only for a name it cannot keep.
\* Both look only at heartbeats they have read, and each answers only when it
\* comes round; so this takes a pass and a visit within the timeout.
Patient == ClientGap + ElectorGap <= Timeout
NobodyGivenUp ==
    [][Patient /\ who.kind = "test" /\ client = "up" =>
          /\ Open /\ TestPass => client' = "up"
          /\ Drop => TooLong(Told)]_vars

\* Who is left alone finds out: the C elector lets go of a servicer that has
\* ended, hangs, or never sends a heartbeat, and the test client of an elector
\* that does.
Alone == IF Open THEN InC /\ (who.kind = "stub" \/ client \in {"gone", "dead"})
         ELSE conn # "none" /\ who.kind = "test" /\ client = "up"
LetsGo == Alone ~> ~Open /\ (who.kind = "test" => client # "up")
=============================================================================
