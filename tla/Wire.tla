-------------------------------- MODULE Wire --------------------------------
(***************************************************************************)
(* One direction of a control connection, as bytes: threads that send      *)
(* frames, a socket that takes and gives as many bytes as it likes at a    *)
(* time, and the loop that reads frames at the other end.                  *)
(*                                                                         *)
(* The nine bytes in front of a payload are two tokens here, one with the  *)
(* type and the stream, one with the length.  The connection may break at  *)
(* any byte.                                                               *)
(***************************************************************************)
EXTENDS Integers, Sequences

CONSTANTS
    Threads,   \* the threads that send
    Room       \* bound: bytes the sockets hold

ASSUME RoomAssumption == Room \in Nat \ {0}

VARIABLES
    todo,      \* what a thread has still to write of its frame
    frame,     \* the frame it is sending
    result,    \* whether its last send went well
    usable,    \* AgentSession::alive_
    link,      \* whether the connection still carries bytes
    pipe,      \* bytes under way
    got,       \* what the reader has of a frame
    listening, \* whether it still reads
    sent,      \* the frames that were written to the end, in this order
    received   \* the frames that were read

sending == <<todo, frame, result>>
reading == <<got, listening, received>>
wire == <<todo, frame, result, usable, link, pipe, got, listening, sent, received>>

HeaderSize == 2

\* The bytes of a frame.
Encode(f) ==
    <<[type |-> f.type, id |-> f.id], [length |-> Len(f.payload)]>>
    \o [i \in DOMAIN f.payload |-> [byte |-> f.payload[i]]]

IsHeader(bytes) == "type" \in DOMAIN bytes[1] /\ "length" \in DOMAIN bytes[2]

\* Bug: the length is taken for that of the whole frame.
WantedOfAll(bytes) ==
    IF Len(bytes) >= HeaderSize /\ IsHeader(bytes) THEN bytes[2].length ELSE HeaderSize

\* How many bytes recv_exact waits for: those of the header, then of the whole.
Wanted(bytes) ==
    HeaderSize + IF Len(bytes) >= HeaderSize /\ IsHeader(bytes) THEN bytes[2].length ELSE 0

Garbage == [type |-> "garbage", id |-> 0, payload |-> <<>>]

\* The frame in bytes; bytes that were not written as one frame make something
\* else of it.
Decode(bytes) ==
    IF IsHeader(bytes) /\ \A i \in HeaderSize + 1..Len(bytes) : "byte" \in DOMAIN bytes[i]
    THEN [type |-> bytes[1].type, id |-> bytes[1].id,
          payload |-> [i \in 1..Len(bytes) - HeaderSize |-> bytes[i + HeaderSize].byte]]
    ELSE Garbage

WireInit ==
    /\ todo = [t \in Threads |-> <<>>]
    /\ frame = [t \in Threads |-> Garbage]
    /\ result = [t \in Threads |-> "none"]
    /\ usable = TRUE /\ link = TRUE /\ pipe = <<>>
    /\ got = <<>> /\ listening = TRUE
    /\ sent = <<>> /\ received = <<>>

\* Bug: send without send_mu_.
BeginUnlocked(t, f) ==
    /\ todo[t] = <<>>
    /\ frame' = [frame EXCEPT ![t] = f]
    /\ todo' = [todo EXCEPT ![t] = IF usable THEN Encode(f) ELSE <<>>]
    /\ result' = [result EXCEPT ![t] = IF usable THEN "none" ELSE "failed"]
    /\ UNCHANGED <<usable, link, pipe, reading, sent>>

\* AgentSession::send takes send_mu_ for the whole frame.
Begin(t, f) ==
    /\ \A u \in Threads : todo[u] = <<>>
    /\ frame' = [frame EXCEPT ![t] = f]
    /\ todo' = [todo EXCEPT ![t] = IF usable THEN Encode(f) ELSE <<>>]
    /\ result' = [result EXCEPT ![t] = IF usable THEN "none" ELSE "failed"]
    /\ UNCHANGED <<usable, link, pipe, reading, sent>>

\* Bug: one more send after the last byte, which takes nothing and fails.
WriteOneMore(t) ==
    /\ link
    /\ \E n \in 1..Len(todo[t]) :
         /\ Len(pipe) + n <= Room
         /\ pipe' = pipe \o SubSeq(todo[t], 1, n)
         /\ todo' = [todo EXCEPT ![t] = SubSeq(@, n + 1, Len(@))]
         /\ IF n = Len(todo[t])
            THEN /\ sent' = Append(sent, frame[t])
                 /\ result' = [result EXCEPT ![t] = "failed"] /\ usable' = FALSE
            ELSE UNCHANGED <<sent, result, usable>>
    /\ UNCHANGED <<frame, link, reading>>

\* send_all: the socket takes some of what is left.
Write(t) ==
    /\ link
    /\ \E n \in 1..Len(todo[t]) :
         /\ Len(pipe) + n <= Room
         /\ pipe' = pipe \o SubSeq(todo[t], 1, n)
         /\ todo' = [todo EXCEPT ![t] = SubSeq(@, n + 1, Len(@))]
         /\ IF n = Len(todo[t])
            THEN sent' = Append(sent, frame[t]) /\ result' = [result EXCEPT ![t] = "ok"]
            ELSE UNCHANGED <<sent, result>>
    /\ UNCHANGED <<frame, usable, link, reading>>

WriteFails(t) ==
    /\ ~link /\ todo[t] # <<>>
    /\ todo' = [todo EXCEPT ![t] = <<>>]
    /\ result' = [result EXCEPT ![t] = "failed"]
    /\ usable' = FALSE
    /\ UNCHANGED <<frame, link, pipe, reading, sent>>

\* recv_exact: some of what is missing; when nothing is, recv_frame returns.
Read ==
    /\ listening
    /\ \E n \in 1..Len(pipe) :
         LET now == got \o SubSeq(pipe, 1, n) IN
         /\ n <= Wanted(got) - Len(got)
         /\ pipe' = SubSeq(pipe, n + 1, Len(pipe))
         /\ IF Len(now) >= HeaderSize /\ Len(now) = Wanted(now)
            THEN got' = <<>> /\ received' = Append(received, Decode(now))
            ELSE got' = now /\ UNCHANGED received
    /\ UNCHANGED <<sending, usable, link, listening, sent>>

\* The end of the connection, wherever in a frame it comes.
ReadFails ==
    /\ listening /\ ~link /\ pipe = <<>>
    /\ listening' = FALSE
    /\ UNCHANGED <<sending, usable, link, pipe, got, sent, received>>

\* The connection breaks; what is under way arrives in part.
Break ==
    /\ link /\ link' = FALSE
    /\ \E n \in 0..Len(pipe) : pipe' = SubSeq(pipe, 1, n)
    /\ UNCHANGED <<sending, usable, reading, sent>>

WireNext == (\E t \in Threads : Write(t) \/ WriteFails(t)) \/ Read \/ ReadFails \/ Break

-----------------------------------------------------------------------------

Channel == INSTANCE Messages

\* Frames arrive whole, once and in the order in which they were written: the
\* lock covers the two writes of a frame, and reads go on until all is there.
FramesInOrder == Channel!Spec

\* A send that failed is over for good: its frame never arrives, not even from
\* the part of it that was written.
FailedNeverArrives ==
    \A t \in Threads : result[t] = "failed" =>
        \A i \in DOMAIN received : received[i] # frame[t]
=============================================================================
