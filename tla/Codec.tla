-------------------------------- MODULE Codec --------------------------------
(***************************************************************************)
(* How messages are written to bytes and read back: the serialize and      *)
(* deserialize functions of the C elector (active-passive-elector/source/  *)
(* messages) and of the TypeScript elector (active-passive-elector-ts/src/ *)
(* message.ts).  The first C elector has those of C word for word (under   *)
(* zone-manager/active-passive-elector/source/messages).                   *)
(*                                                                         *)
(* A Set_Lease_Info message holds three strings.  C ends each with a zero  *)
(* byte.  TypeScript writes its length before it: but that is the length   *)
(* of the string in UTF-16 units, while the bytes written are UTF-8, and   *)
(* the next string is written behind the length, over the tail of this     *)
(* one; what is read is decoded from UTF-8 again, a character that lost    *)
(* its end to U+FFFD.  A byte is told by the character it belongs to and   *)
(* its place in it; an integer takes one cell here instead of four.        *)
(***************************************************************************)
EXTENDS Integers, Sequences

CONSTANTS HeaderSize,   \* sizeof(Message_Header), in cells
          Capacity      \* of the buffer a message is written to

ASSUME SizeAssumption == HeaderSize \in Nat /\ Capacity \in Nat /\ HeaderSize < Capacity

Zero == [kind |-> "zero", n |-> 0]
Number(n) == [kind |-> "int", n |-> n]

\* The i-th of the m bytes of character k.
Byte(k, i, m) == [kind |-> "byte", char |-> k, part |-> i, of |-> m]
Bytes == [kind : {"byte"}, char : Nat, part : 1..4, of : 1..4]

\* How many bytes of its character follow.
Rest(cell) == IF cell.kind = "byte" THEN cell.of - cell.part ELSE 0

\* A string is the bytes it is written as, of whole characters, and the length
\* JavaScript gives it.  The two differ if it is not ASCII; C goes by the bytes.
IsString(s) ==
    /\ s.text \in Seq(Bytes)
    /\ \A k \in 1..Len(s.text) : k + Rest(s.text[k]) <= Len(s.text)
    /\ s.units \in 0..Len(s.text)

\* What -2 in C and an exception in TypeScript come to: nothing is sent.
NoMessage == [length |-> 0, body |-> <<>>]

\* The number in a cell.
NumberAt(body, i) == body[i].n

\* A message as it is sent: the length its header announces, and what follows
\* the header.
Message(length, body) == [length |-> length, body |-> body]

-----------------------------------------------------------------------------
\* C

\* memcpy of strlen + 1 bytes.
Terminated(s) == Append(s.text, Zero)

serialize_Set_Lease_Info_Message(fields) ==
    LET body == Terminated(fields[1]) \o Terminated(fields[2]) \o Terminated(fields[3])
    IN  IF HeaderSize + Len(body) > Capacity THEN NoMessage
        ELSE Message(HeaderSize + Len(body), body)

\* strlen: the field that starts behind i reaches up to the next zero.
FieldEnd(body, i) ==
    CHOOSE j \in i + 1..Len(body) :
        body[j] = Zero /\ \A k \in i + 1..j - 1 : body[k] # Zero

deserialize_Set_Lease_Info_Message(body) ==
    LET first  == FieldEnd(body, 0)
        second == FieldEnd(body, first)
        third  == FieldEnd(body, second)
    IN  <<SubSeq(body, 1, first - 1), SubSeq(body, first + 1, second - 1),
          SubSeq(body, second + 1, third - 1)>>

serialize_Set_Role_Message(role) ==
    IF HeaderSize + 1 > Capacity THEN NoMessage
    ELSE Message(HeaderSize + 1, <<Number(role)>>)

deserialize_Set_Role_Message(body) == NumberAt(body, 1)

-----------------------------------------------------------------------------
\* TypeScript

Least(a, b) == IF a <= b THEN a ELSE b

\* buffer.write: what does not fit is left out, and so is all of a character
\* of which a part does not.
Put(buffer, offset, cells) ==
    [i \in DOMAIN buffer |->
        IF i - offset \in DOMAIN cells /\ i + Rest(cells[i - offset]) <= Len(buffer)
        THEN cells[i - offset] ELSE buffer[i]]

\* Writing the length throws beyond the end of the buffer.
SerializeStringInto(state, s) ==
    [buffer |-> Put(state.buffer, state.offset, <<Number(s.units)>> \o s.text),
     offset |-> state.offset + 1 + s.units,
     throws |-> state.throws \/ state.offset >= Len(state.buffer)]

\* buffer.subarray ends with the buffer, whatever length the header announces.
SerializeSetLeaseInformationMSG(fields) ==
    LET empty == [i \in 1..Capacity - HeaderSize |-> Zero]
        start == [buffer |-> empty, offset |-> 0, throws |-> FALSE]
        named == SerializeStringInto(start, fields[1])
        end   == SerializeStringInto(SerializeStringInto(named, fields[2]), fields[3])
    IN  IF end.throws THEN NoMessage
        ELSE Message(HeaderSize + end.offset,
                     SubSeq(end.buffer, 1, Least(end.offset, Len(empty))))

\* buffer.toString: characters again.  One that is cut becomes U+FFFD.
Char(k) == [kind |-> "char", n |-> k]
Replacement == [kind |-> "U+FFFD", n |-> 0]
Nothing == [kind |-> "nothing", n |-> 0]

\* The next byte, but for its place the same.
Follows(a, b) == a.kind = "byte" /\ b = [a EXCEPT !.part = @ + 1]

\* All of the character that starts at i is there.
IsWhole(bytes, i) == LET m == bytes[i].of IN
    i + m - 1 <= Len(bytes) /\ \A j \in i..i + m - 2 : Follows(bytes[j], bytes[j + 1])

\* What the byte at i is read as: the rest of a character is read with its start.
Reading(bytes, i) ==
    IF bytes[i].kind # "byte" THEN bytes[i]
    ELSE IF bytes[i].part = 1
    THEN IF IsWhole(bytes, i) THEN Char(bytes[i].char) ELSE Replacement
    ELSE IF i > 1 /\ Follows(bytes[i - 1], bytes[i]) THEN Nothing ELSE Replacement

toString(bytes) ==
    SelectSeq([i \in 1..Len(bytes) |-> Reading(bytes, i)], LAMBDA c : c # Nothing)

\* Mutant: the length is taken to include itself.
DeserializeStringShort(state, body) ==
    LET n == NumberAt(body, state.offset + 1) IN
    [values |-> Append(state.values, toString(
                    SubSeq(body, state.offset + 2, Least(state.offset + n, Len(body))))),
     offset |-> state.offset + 1 + n]

DeserializeStringFrom(state, body) ==
    LET n == NumberAt(body, state.offset + 1) IN
    [values |-> Append(state.values, toString(
                    SubSeq(body, state.offset + 2, Least(state.offset + 1 + n, Len(body))))),
     offset |-> state.offset + 1 + n]

\* Mutant: the namespace is forgotten.
DeserializeTwoStrings(body) ==
    LET start == [values |-> <<>>, offset |-> 0]
    IN  DeserializeStringFrom(DeserializeStringFrom(start, body), body).values

DeserializeSetLeaseInformationMSG(body) ==
    LET start == [values |-> <<>>, offset |-> 0]
        named == DeserializeStringFrom(start, body)
    IN  DeserializeStringFrom(DeserializeStringFrom(named, body), body).values

\* The buffer has room for all bytes of the three strings.
Roomy(fields) == LET room == Capacity - HeaderSize IN
    /\ 1 + Len(fields[1].text) <= room
    /\ 2 + fields[1].units + Len(fields[2].text) <= room
    /\ 3 + fields[1].units + fields[2].units + Len(fields[3].text) <= room

SerializeSetRoleMSG(role) == Message(HeaderSize + 1, <<Number(role)>>)

DeserializeSetRoleMSG(body) == NumberAt(body, 1)
=============================================================================
