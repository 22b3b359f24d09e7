# World simulator: verification of the active-passive election

The world simulator is a set of services on Kubernetes. What is implemented of
it so far is the machinery that makes one replica of a service *active* and the
others *passive*: the **active-passive-elector**. It exists in three versions
(C, TypeScript, and a first C version), with clients to try them. This
directory holds TLA+ modules of that machinery, TLC configurations that check
them on small instances, and proofs the TLA+ proof system (TLAPS) checks for
every instance. Paths below are relative to the root of the repository.

## The system

| Part | State | Operations | Speaks to |
|---|---|---|---|
| `active-passive-elector` (C) | list of clients; per client: connection, role, identity, lease name and namespace, time of last heartbeat | one thread, a pass per second: accept, and for every client read, process messages, time out, `attempt_to_update_role` | servicers over TCP 5001, Kubernetes API |
| `active-passive-elector-test-client` (C) | connection, time of last heartbeat | send lease information and a heartbeat per second, read roles, time out | the C elector |
| `active-passive-elector-ts` | array of connections; per connection: buffer, role, lease information | `step` once a second: read, process messages, start an asynchronous call per connection (`transitionToActiveIfAppropriate` or `renewActiveLease`, tell the client, label the pod) | clients over TCP 7070, Kubernetes API (lease, pod) |
| `active-passive-elector-ts/src/client.ts` | connection, buffer | send lease information once, read roles, end with the connection | the TypeScript elector |
| `zone-manager/active-passive-elector` (C, legacy) | array of slots, number of clients | accept, read, process messages, drop; assigns no roles | its clients over TCP 5000 |
| `zone-manager/client` (C) | connection | send one `Set_Role`, exit | the legacy elector |
| messages | - | `Set_Lease_Info`, `Set_Role`, `Heartbeat`: a header with length and type, then the fields | all of the above |
| `distribute-zone-simulation` (C) | connection to the elector | a stub: connects and reads, says nothing | the C elector |
| `zone-manager/src` | - | left-overs of examples | - |
| Kubernetes API server, `c-net`, `c-k8s`, `c-ds` | lease objects with version; sockets | external: modelled from how the code uses them | - |

How the parts interact: a servicer in a pod connects to the elector beside it
and names an identity and a lease. The elector reads the lease object; if it is
free or has expired it writes the identity and a new renew time back, and the
API server refuses the write if the lease has changed since. Electors never
talk to each other: the leases are all they share. The elector tells its
servicer the role (`Set_Role`), and both watch each other by heartbeats.

What is hard here:

* **Interleaving.** Between reading a lease and writing it, and between a write
  and its reply, other electors write, clients leave, and time passes. In the
  TypeScript elector, calls for one connection overlap with each other and with
  new messages.
* **Failure.** Requests are lost before or after they took effect; electors and
  servicers die without giving a lease back; connections fail or fall silent;
  a role cannot be written to a full socket.
* **Time.** A role is good for as long as the lease runs. The elector learns of
  the end of a tenure only when it looks.
* **Limits.** A count serves as number of clients and as index of the next; a
  descriptor is never given back; a buffer may be too small for a message.
* **Streams.** TCP delivers bytes; messages are cut out of them by hand.

What makes the parts correct, and where it is stated:

* lease: nobody takes a lease before its tenure has run out (`LeaseTenure`,
  `TenureRespected`); what an elector knows of a tenure is true
  (`GrantHonoured`); one identity is active within a tenure
  (`SoleActiveWithinTenure`); a lease that is wanted gets an active
  (`Failover`); who lost it stands down (`StaleActiveStandsDown`);
* event loop: the walk over the list survives drops (`WalkIsSafe`), clients know
  their role (`ToldUnlessMissed`), nobody is timed out unheard
  (`NoFalseTimeout`), the dead are dropped (`SilentClientDropped`), the living
  are served (`KeepsTrying`);
* streams: messages are handed on whole, once, in order and all of them
  (`OnlyWholeMessages`, `InStep`, `AllHandedOn`);
* TypeScript elector: client, elector and pod label agree (`SyncedWhenCalm`); a
  lease that was left is taken over (`TakesOver`), beside any pod, says the readme
  (`TakesOverAnywhere`); no call goes on from a failure (`OnlySuccessGoesOn`);
* a servicer and its elector: what is said is heard (`HeardAsSaid`), a role is shown
  as it is (`ShowsItsRole`), live sides keep each other (`NobodyGivenUp`), and dead
  ones are let go (`LetsGo`);
* legacy elector: count and slots (`CountCoversLive`, `NobodyOverwritten`,
  `InBounds`), every client is served (`NobodyOverlooked`), it ends when told
  (`Exits`).

`PROJECT.json` lists the components, what each run checks, which lines every
definition models, and the hazards with the properties that watch them.

## Modules

```
LeaseTenure          what electors owe a lease                   (abstract)
   ^ implemented by  (TenureRespected; proved / checked)
   |            \
RoleElection     ElectorTS --> Expect    attempts of the C / TypeScript elector
   ^ extends
Elector              event loop, clients, connections of the C elector
Framing              messages out of a byte stream, C and TypeScript
Codec                messages to bytes and back, C and TypeScript
   ^ extends
Session              one servicer and its elector over time
SlotServer           the legacy elector and its clients
RoleElectionProofs, ElectorProofs, ElectorTSProofs,
SlotServerProofs, CodecProofs, SessionProofs,
FramingProofs                                       theorems
MC*                  constants for TLC
```

**LeaseTenure.** A lease has a holder and `left`, the seconds until its renew
time, counted down to 0 (`seconds_until_lease_expiry(lease) <= 0`, or no renew
time). `TakeOver` needs a free or expired lease, `Renew` never shortens one by more
than `Slack`: nothing for the C electors, the minute a claim may be too long for
those of TypeScript.

**RoleElection** models `attempt_to_update_role`
(`active-passive-elector/source/main.c:41-115`) as run by any number of elector
processes. `attempt[c]` is the running call for client `c`: `GetLease` reads
the lease (main.c:44), `TryGrab`, `KeepLease` and `StandBy` are its three
branches (50, 77, 103), `ReplaceApplied` and `ReplaceFailed` what becomes of
`CoordinationV1API_replaceNamespacedLease`, with the reply lost or not, and
`Conclude` what follows the reply (65, 71, 92). `fresh` says that the copy still
has the version of the lease: the optimistic locking of the API server. An
elector has one thread, so at most one of its clients has a call
(`Busy`). `Join`, `SetInfo`, `Leave` and `Restart` are what the loop around does
to roles and lease information. `grant` is a history variable: the tenure the
elector has learnt of, from a reading or a successful write. No action reads it.
A write that is given up, or whose process ended, may still be stored (`StoreLate`)
until the lease has another version: `late[l]` holds such a copy. Of all copies of
one version the API server stores one at most, so keeping one, any one, loses
nothing. All electors and the API server share one clock.

**Elector** extends RoleElection by the loop of `main` (main.c:126-202),
`process_messages_for_client` and the connections: the client list, the walk over it
(`todo`), what has arrived (`inbox`), was read (`held`, the buffer of the connection)
and was written (`outbox`), the age of the last heartbeat. `Connect`, `Send`,
`Receive` and `HangUp` are the servicers, as the test client does it; a connection
can be closed before it is accepted, and what had arrived is still read (`hung`).
`Accept` and `BeginPass` start a pass. A visit goes through four steps, between which
clients, other electors and the API server go on: `Read` or `ReadFails`
(main.c:167-172); `Process` or `ProcessFails` (174-179), the latter for a message of
an unknown type or with a field too long, or a heartbeat that cannot be returned;
`TimeOut` or `InTime` (181-186); and the attempt (188-191), of which `Update` is a step,
with the notification of lines 107-114 at its end, and `GetLeaseFails` what lines
45-48 do. Whatever fails leads to `Disconnect` (`disconnect_client`). A client is timed
out for its age alone: that a heartbeat which waits is read and worked off before
somebody looks at the time is the order of the steps, and `NoFalseTimeout` says that
it suffices. `knocked` is a history variable for it. `Prompt` assumes that no second
passes between the two looks at the clock of one visit
(process_messages_for_client.c:52 and main.c:182); with `ClientTimeout` 10 ten could.
`Reboot` is the end of the process at any point, `should_exit` and signals included.

**Framing** models the loop of `process_messages_for_client.c:16-77`, which the
test client (main.c:43-73) and the legacy elector (main.c:49-88) share word for
word, and that of `active-passive-elector-ts/src/index.ts:31-65`. A stream is a
sequence of message lengths in words of four bytes, read in pieces that may end
anywhere. `Enters` and `Fits` are the two conditions in which the loops differ.
`wrecked` stands for what follows undefined behaviour: a header of which a part
was never received, a negative number of bytes to move.

**ElectorTS** models `step` of `index.ts`, `transitionToActiveIfAppropriate.ts`
and `renewActiveLease.ts`. JavaScript runs to the next `await` undisturbed; that
is the grain of the actions. `Step` is the synchronous part of a step for all
connections: messages are processed and a call is started for each. A call
`calls[c][s]` then goes through reading the lease, writing it, `Finish` (assign
`conn.role`, tell the client, and go back to the role before if writing to the socket
throws), reading the pod, `Relabel`, writing the pod and `Labelled`, or `PodFails`. A
request and what is made of its reply are two steps each, for the lease and for the pod
(`ReadPod` and `Relabel`, `WritePod` and `Labelled`), and writes nobody waits for any
more may be stored late (`StoreLate`, `WriteLatePod`), as in RoleElection. Several
calls may be outstanding for a connection, `Overlap` bounds how many. A claim
may be `Rollover` seconds (60 in the code) too long: `setSeconds` puts the seconds
of one look at the clock into the minute of another
(`transitionToActiveIfAppropriate.ts:56-58`). A lease may then run for
`LeaseDuration + Rollover`, and the next renewal may take the extra back: the
electors implement LeaseTenure with that duration and `Slack <- Rollover`. The pod a process
reads is that of its host name, the pod it replaces has a fixed name
(index.ts:115-119): `NamesItsPod` holds of at most one process, `NamedPod`, and
everywhere else the request fails and the role is `Reverted`. The code writes
acquireTime with every holder, so a lease with a holder and no acquireTime
(transitionToActiveIfAppropriate.ts:32), which only another program leaves, is not
among the leases here.

**Expect** is `expect.ts`, as far as the elector uses it: a chain of conditions on
the status of a reply, of which one that fails decides.

**Codec** models the `serialize` and `deserialize` functions of
`active-passive-elector/source/messages` and `active-passive-elector-ts/src/message.ts`.
The first elector has the C functions word for word, and some definitions are mapped
to its copy. A byte is a cell that says to which character it belongs and which of its
bytes it is, an integer takes one cell, and a string is its UTF-8 bytes with the length
JavaScript counts for it. `toString` decodes bytes to characters again, as
`message.ts:118` does: what is left of a character that was cut becomes U+FFFD. `Roomy`
says of three strings that the buffer has room for all their bytes.

**Session** models one servicer and the elector beside it against the clock:
the test client (`main.c:75-168`), the stub of `distribute-zone-simulation`, or
`client.ts`. What they say goes through Codec. Both loops are reduced to
their passes (`TestPass`, `StubPass`, `ScriptPass`; `Accept`, `Drop`, `Serve`),
and each is at most `ClientGap` or `ElectorGap` seconds apart: a visit of the C
elector to a client comes as late as all requests it makes for the others
take. Either side may end (its sockets are closed) or stop without anybody being
told (`"dead"`: a host that is gone, or a process that hangs), and a servicer is
started `Again`. Which role an attempt comes to is left open (`Attempt`: any change, or
none, and for TypeScript also one that is taken back without a word): the lease, its
requests and their failures are RoleElection's and ElectorTS's, the order of things within
a visit is Elector's.

**SlotServer** models `zone-manager/active-passive-elector/source` with its demo
client: `Accept`, `Read` and `Process` are the rounds of the three loops of a pass,
one connection or slot at a time. `AcceptLost` is a client whose `fcntl` fails, and
`AcceptEnds` comes when nobody waits or `accept` fails, now or for good. `clients` is the count, and also the index of the slot the next
client takes. A slot is let go by zeroing its socket, so descriptors are never given
back (`accepted` only grows). `"wrecked"` is what follows a write behind the
array, where the count lies. Messages are whole; how they are cut is Framing's.

## Runs

| Run | Instance | Question and answer |
|---|---|---|
| `RoleElection_safety` | 2 electors with a client each that says anything, again and again, 2 identities, 1 lease, duration 3, renewal within the last second; symmetric; 212,878 states | Do interleavings, lost replies, late writes, restarts and time ever let a lease be taken early, an elector's knowledge be wrong, two identities be active within a tenure? No. |
| `RoleElection_live` | as above with duration 1, one of the clients of one name, fair; 66,744 states | Does a wanted lease get an active again and again, does a stale active stand down? Yes. |
| `RoleElection_sole` | as above with duration 2 | Is there never more than one active? **Violated**, see below. |
| `Elector` | 1 elector, 2 servicers that send heartbeats, one of which competes for a lease another identity may hold, 1 message in and 1 out, duration 1, timeout 0, fair; 632,886 states | Is the list, the walk, the role told and the timeout right, are silent clients dropped, the others attempted for forever? Yes. |
| `Framing_both` | all streams of up to 3 messages of 2 or 3 words, every way to cut them (TypeScript), the cuts the C loop is right for | Is every message handed on whole, once, in order? Yes. |
| `Framing_wild` | the C loop with every cut | Is a message handed on only when it is there? **Violated**. |
| `ElectorTS_calm` | 1 process beside the named pod, 1 connection with 2 identities, no overlap, duration 2, any lease to begin with, fair; 37,360 states | Do client, elector and pod agree whatever happens to the requests for the lease, and does the client that remains get the lease again and again? Yes. |
| `ElectorTS_elsewhere` | as above with duration 1, beside another pod, fair | Does it get the lease there, too? **Violated**. |
| `ElectorTS_overlap` | 1 process beside another pod than the named one, 1 connection with 2 identities, 2 overlapping calls, pods and sockets may fail, duration 1, replies with statuses at the limits of success and with none, claims a second too long; 587,961 states | Do overlapping calls respect the lease, and does none go on from a failure? Yes. |
| `ElectorTS_sync` | 1 process, 2 overlapping calls | Do client and elector agree then? **Violated**. |
| `Session` | each kind of servicer; C names empty, fitting, too long to keep and too long to send; TypeScript strings of characters of one to four bytes, whole and cut, that fit the buffer or do not; timeout 4, gaps of 2, fair; 18,602 states | Is what is said heard, is the role shown, and is nobody alive given up and nobody dead kept? Yes. |
| `SlotServer` | 2 slots, 3 clients of which one is the demo, 2 or 3 descriptors, fair; 495,225 states | Do count and slots, with errors and removals, ever leave a client unserved, overwrite one, or leave the array? Not unless a removal, or more descriptors than slots, allow it. |

Why the bounds are enough. Electors meet in a lease only, two by two: two of
them and two identities give every race, the proofs cover more. One lease is enough,
too: no action reads or writes two, a client that changes its mind goes through lease
information that is none or another name, and nothing but its own next attempt looks at
what it said before. Durations only matter as before the window, in the window, and
over; 3 with a window of 1 has all of them, and since `Tick` may come before any step
every request can take longer than any. In `Elector`, one message in and one out is
enough for a heartbeat to meet lease information that was read before it and for a
buffer without room; of messages that cannot be worked off (`Bogus` in the module) the
run has the heartbeat that cannot be returned, which the loop treats alike. Two clients
in a list let either end be dropped while the walk is before, at and after it; with
`ClientTimeout` 0 any delay is a timeout, that of a client which sits behind the requests
for another included. A third message in a stream is the first whose position depends on
an earlier mistake. Two overlapping calls are what a request that takes between one and
two seconds gives. In `ElectorTS_calm` one process is enough, as a lease another left is
one that may be there at first, and every request may find the lease changed: the names
of the client take it from each other. In Session `ClientGap + ElectorGap` is the whole
timeout, the largest `NobodyGivenUp` allows: first a pass is late, then the visit that
answers it. In SlotServer a third client is the first that can take a slot that is not
free, or find none.

Bounds that are not the code's: `InboxBound`, `SendBuffer`, the three messages of a
stream, `MaxOverlap`, `MaxSent` and `Bursts` of SlotServer, and the ages in Elector and
Session, which are not counted beyond the timeout and one second.

Fairness. `RoleElection`: the clock runs; the loop comes round to every client
that stays (`SF` on `GetLease`, as others of the same elector disable it in
between) and a call goes on to its end (`WF`); an API server that is asked for
ever stores and confirms a write now and then (`SF` on `ReplaceAnswered`). This
is needed: if every reply is lost, nobody becomes active. `Failover` assumes
moreover that clients settle. `Elector`: the clock runs and the thread of
the elector is scheduled (`WF` on its step as a whole, so each request ends, in
failure or not). Nothing is assumed of servicers. `Session`: the clock runs, and as nobody may be
later than the gaps, the passes of a live servicer and the visits of a live
elector follow; `WF` on each loop. A hung side is not scheduled at all.
`SlotServer`: none of the calls of the loop blocks, so `WF` on the server as a
whole. It may exit or be wrecked, hence no deadlock check there. `ElectorTS_calm`
and `_elsewhere`: the clock runs, the process with the named pod (`FairSpec`), or every
process (`AllFairSpec`), makes its steps and its calls go on to an end (`WF`); the API
server, asked again and again, answers a reading and stores a fresh copy now and then
(`SF`), and that before the tenure it carries has run out: a server that always took
longer would store leases that have expired already. `Framing`: the loop comes round and
what was sent arrives; it ends when all is handed on, hence no deadlock check there.

## Findings

* **Two actives** (`RoleElection_sole`). A role stays ACTIVE while its renewal is
  outstanding, has failed (main.c:92 prints a warning), or the lease cannot be
  read (main.c:45). The tenure runs out, another elector makes another identity
  active, and until the first elector reads the lease again both servicers act as
  active. The documents promise one. What does hold, and is proved, is that one
  identity is active *within the tenure its elector knows of*.
* **Partial messages** (`Framing_wild`). `process_messages_for_client.c:20`
  compares with all that is buffered instead of what is left of it: a message of
  which a part has arrived is processed if another is in front of it, and the
  rest to be moved is then negative. The TypeScript loop compares rightly.
* **Overlapping calls** (`ElectorTS_sync`) leave the elector with a role the
  client was not told, as each reverts `conn.role` to what it was at its own start.

* **Elsewhere** (`ElectorTS_elsewhere`). The TypeScript elector reads the pod of its
  own host and writes its label to a pod whose name is in the code (`index.ts:103`,
  `115-119`). Beside any other pod the request is refused and the role taken back
  (`index.ts:122`) after the client was told it. Every pass finds the client's name on
  the lease, tells it again that it is active, and renews nothing: a lease that has run
  out stays so although the client is alone. The readme has the elector serve each of N
  replicas (`active-passive-elector-ts/readme.md:2`, `5`, `10`).

What the passing runs say under a condition is worth knowing, too:

* The TypeScript elector keeps one label for its pod. With two clients on one elector
  each writes its own role there, so `SyncedWhenCalm` is said, and true, of a client
  that has its elector for itself (`Sole`).
* An elector that hangs leaves its servicer acting as active up to ten
  seconds, whatever becomes of the lease; the client of the TypeScript elector
  never finds out, and a TypeScript elector renews for a client that hangs.
* A string that is not ASCII loses its own end on the way to the TypeScript elector,
  and nothing else (`HeardAsSaid`): it is read up to as many bytes as it has UTF-16 units,
  and a character that this cuts is read as U+FFFD (`toString`, which does not throw). A
  string that the buffer of 1024 has no room for loses more, or is read differently.
  A C name of more than 255 bytes is dropped, one that fills the buffer is never sent.
* The message loop of C is right about the streams of `Tame`: whole messages, or one part
  with its header at the front of the buffer. The others are the finding of `Framing_wild`.
* The visits of the C elector to a client are as far apart as all requests between them
  take. If they are further apart than `SECONDS_BEFORE_EXPIRY_BEFORE_RENEWING`, two
  seconds, a lease runs out between two of them without any failure: the two actives of
  `RoleElection_sole` need no lost request.
* In the legacy elector, removing a client lets the next one take the slot of
  another (the `TODO` of main.c:76); before any removal nobody is overwritten, and the
  array is left only if the process may have more descriptors than `MAX_CLIENTS`. The
  demo client always provokes a removal.

## Proofs

The theorems hold for all sets of processes, clients, identities and leases, all
durations, gaps and buffer sizes, and streams of any length. They use only the
assumptions named in the modules: clients have an elector, durations are natural
numbers, null values are not values. No invariant of the runs is inductive as it
stands; each module defines one that is.

**RoleElectionProofs**

* `TypeCorrect`: `Spec => []TypeOK`.
* `GrantsAreHonoured`: `Spec => []GrantHonoured`. A grant comes from a copy that was
  read or written earlier, and what makes it true is that the lease cannot have
  changed hands meanwhile. The inductive invariant `IInv` adds, for every client,
  what its running attempt knows: a fresh copy that was read is the lease as it is
  (`ReadInv`); a copy to be written, if still fresh, takes over a lease only if free
  or expired, and never shortens one (`WriteInv`); the tenure of a copy read or a
  write confirmed for this identity is backed by the lease for as long as it has time
  left (`ReadInv`, `WriteInv`, `GrantInv`); and only writes have replies (`ReplyInv`).
  The case that matters is a write by another elector: `fresh` excludes it
  while the copy is current, and `WriteInv` with an unexpired copy excludes that
  it goes to another identity. A write nobody waits for any more is held to the same
  until the version it was made for is gone (`LateInv`).
* `OneActiveWithinTenure`: two clients that reign over a lease have grants with
  time left for it, so both identities are the holder.
* `TenureIsRespected`: `Spec => LT!Spec`, the refinement of LeaseTenure. `Tick`
  maps to `Tick`, `ReplaceApplied` to `TakeOver` or `Renew` by `WriteInv`, all
  else to a stutter.

**ElectorProofs**

* `LoopImplementsElection`: `LoopSpec => Spec`. Every step of the event loop is
  a step of RoleElection or none. It needs that the walk, wherever it is, stands at a
  client (`LoopInv`). The actions of the loop are conjoined with those of
  RoleElection, whose guards ask that the elector has no other attempt; `WalkSafe`
  proves that these guards never hold the loop up: the only attempt there is is that
  of the client visited.
* `LoopHonoursTenure`: so all that is proved of RoleElection holds of the event loop.
* `WalkSafe`: `LoopSpec => []WalkIsSafe`. The inductive `WalkInv` says for each
  elector that its list is without repetition and is the clients that are online; that
  what is left of the walk is an end of that list, and is empty exactly outside a
  visit; and that whoever has an attempt is the head of what is left. The lemmas on lists
  (`UnlinkedEnds`, `Prepended`, ...) say what unlinking the node visited and putting a
  client in front do to such an end.
* `NobodyTimedOutUnheard`: `LoopSpec => NoFalseTimeout`, an action property. `TimeOut`
  looks at the age only. `HeedInv` follows the heartbeat that waited when the walk came
  to its client (`Heeded`): before `Read` it is in the inbox, after it in the buffer of the
  connection, and after `Process` the age is 0, which it still is at the check (`Prompt`).
  Without the order of the three steps there is no such invariant.
* `LoopTypeCorrect`: `WalkInv` and the types of the wire, `WireOK`.
* `RoleIsTold`: `LoopSpec => []ToldUnlessMissed`. The role is told at the end of
  an attempt that changed it half-way, so `ToldInv` speaks of `LastTold`, the role before
  the attempt, while one runs. A client that is offline has nothing in its buffers, or the
  next connection would begin with what the last one left. And what was written never
  exceeds the send buffer (`Fits`), without which a full buffer could not be told.

**ElectorTSProofs**

* `TypeCorrect`, `SuccessOnly` (`[]OnlySuccessGoesOn`) and `TenureIsRespected`
  (`Spec => TenureRespected`) for any overlap. `CallInv` states what a call knows
  (`Earnest`): a copy that is not out of date is the lease; one to be written, if the
  API server will take it, takes over a lease that is free or has run out or takes back no
  more than `Rollover`; and a call is past a request only with a status 2xx
  (`NoneIsMadeUpFor`: in the chain of expectations of Expect no later one makes up for
  one that failed).
* `SyncedIfCalm` (`[]SyncedWhenCalm`). `OrderInv` compares client, elector and label at
  every stage of the one call of a connection: up to the write they agree on the role
  before it; from then on the client knows the new one, which the label still lacks. A
  socket that throws takes the elector back to the role the client still has.

**SlotServerProofs**

* `TypeCorrect`, `NobodyUncounted` (`[]CountCoversLive`), `StaysInBounds`
  (`[]InBounds`) and `SlotsAreKept` (`NobodyOverwritten`). `SlotInv` adds that every
  client counted was given a descriptor (`Accounted`), which bounds the count by the
  descriptors there are, and that, as long as nobody was removed, the slots from the
  count on are free (`FreeBehind`).

**CodecProofs**

* `ReadAsWritten`: the three strings of a C message come out of `deserialize` as they
  went into `serialize`, for strings and buffers of any length. It rests on where the
  strings and their zeros lie (`Laid`) and on `strlen` stopping at the next zero
  (`EndFound`), which a string does not hold itself.
* `ReadByUnits`: of a TypeScript message that arrives whole and fits the buffer, each
  string comes out as what `toString` makes of its first bytes, as many as it has UTF-16
  units. A string is written over the tail of the one before, and leaves what is before
  its own length alone (`Written`, `Kept`).

**SessionProofs**

* `SessionTypes` (`[]TypeOK`) and `HearsWhatIsSaid` (`[]HeardAsSaid`). `WordInv` says
  that what is under way is what either side once wrote, and that the elector holds nothing
  yet or the three strings read from such a message (`MailOK`); what they are read as is
  CodecProofs'.
* `NobodyIsGivenUp`: `Spec => NobodyGivenUp`. `HearInv` bounds how long each side has
  not heard the other by when the next pass and the next visit are due: with a heartbeat
  on its way to the elector, by `ClientGap + since.visit`, without one, by `since.pass`.
* `RoleIsShown`: `Spec => []ShowsItsRole`. `ShowInv`: a servicer of the C elector shows
  the role it has, or the message that tells it is under way.

**FramingProofs**

* `TypeCorrect`, `WholeMessagesOnly` (`[]OnlyWholeMessages`) and `LoopIsInStep`
  (`[]InStep`). `LoopInv` balances what was handed on, what is buffered and what is still
  to come against the stream. `SoundInv` adds what the C loop leans on: behind what was
  handed on there are whole messages (`WholeLeft`) or, at the front of the buffer, a
  part of one with its header (`PartAtFront`); a second part behind a whole message is
  what `Framing_wild` shows it cannot bear. `Offset` is a recursive function: that it is
  the sums of the lengths (`OffsetSums`) is proved from a least counterexample,
  for which the library's theorem on well-founded relations needs no operator as parameter.

What proving changed in the models: `LeaseTenure` got its `Slack`, as a claim that is
several seconds too long can be taken back by as many; `SyncedWhenCalm` its `Sole`. Both
had passed on the instance and were false of another.

Checked by TLC only:

* liveness (`Failover`, `StaleActiveStandsDown`, `SilentClientDropped`, `KeepsTrying`,
  `AllHandedOn`, `TakesOver`, `LetsGo`, `NobodyOverlooked`, `Exits`), which rests on fairness
  and `ENABLED`, out of reach of the prover.

## Not modelled

* The pointers of the client list: a sequence stands for them.
* The capacity of receive buffers (but for SlotServer), non-blocking details of sockets and the
  Kubernetes client: libraries outside the repository.
* Clocks that differ. Electors and API server share one.
* Leases that other programs write, with a holder and no acquireTime, say.
* Memory: replies and leases that are freed twice or not at all.
* `zone-manager/src`: a server that sends the time and a function that is not called.
* The two functions that configure the Kubernetes client of the TypeScript elector,
  and the conditions of `expect.ts` it does not use.
* The services that are only described under `documentation/`.
* The `CMakeCCompilerId.c` under `zone-manager`: generated, 674 lines each.

## Plan

Done: LeaseTenure, RoleElection, Elector with the refinement, Framing, ElectorTS, Expect,
Codec, Session, SlotServer; theorems for every safety property the runs check. What is
to follow:

1. Clocks that differ by a bound (RoleElection, LeaseTenure with that bound as
   slack), with the proofs carried over.
2. The doubly linked list of main.c:131-165 with its pointers, implementing the sequence
   of Elector.
