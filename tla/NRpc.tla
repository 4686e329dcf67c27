-------------------------------- MODULE NRpc --------------------------------
(***************************************************************************)
(* The RPC example (rpc/): nrpc_read and nrpc_write, which frame a nbuf    *)
(* message on a TCP stream by overwriting its first word with its length,  *)
(* the echo server and its command line clients, each one round trip per   *)
(* connection.  A callback of libuv runs to completion: one action.        *)
(*                                                                         *)
(* libuv and TCP are external: bytes arrive in chunks of any size up to    *)
(* the buffer alloc_cb offers; a read that fills that buffer is tried      *)
(* again at once and reports 0 bytes if nothing has arrived; a negative    *)
(* count reports that the peer is gone; a write is accepted piece by       *)
(* piece, and its callback runs some time after the last piece.            *)
(*                                                                         *)
(* A message is its first word (LenSz bytes, little endian) and the bytes  *)
(* that tell it from the other messages: the name it carries.              *)
(***************************************************************************)
EXTENDS Integers, Sequences

CONSTANTS
    Clients,          \* the runs of nrpc_cli
    Name,             \* Name[c]: the name client c asks the server to greet
    BadInput,         \* clients whose standard input is no valid request
    MayQuit,          \* clients that may be killed
    LenSz,            \* NBUF_WORD_SZ
    ByteMod,          \* number of values of a byte
    BufferLen,        \* kBufferSize
    Hello             \* the byte that stands for the greeting

ASSUME RpcAssumption ==
    /\ LenSz \in 1 .. 4 /\ ByteMod \in Nat /\ ByteMod > 1
    /\ BufferLen \in Nat \ {0}
    /\ Hello \in 1 .. ByteMod - 1
    /\ BadInput \subseteq Clients /\ MayQuit \subseteq Clients
    /\ \A c \in Clients : Name[c] \in Seq(1 .. ByteMod - 1)

VARIABLES
    srv,              \* the server process: "up", "dead", or "undefined"
    cli,              \* the client processes
    conn,             \* conn[c]: the server accepted client c
    streamData,       \* stream->data of each end (see below)
    reading,          \* whether uv_read_start is in force
    full,             \* whether the last read filled the buffer
    reqData,          \* data of the end's uv_write_t (see below)
    net,              \* bytes on the way to each end
    printed           \* the message client c printed

vars == <<srv, cli, conn, streamData, reading, full, reqData, net, printed>>

(* A context keeps the data it displaces, so stream->data and req->data    *)
(* are chains: <<>> is the caller's own data, <<b>> \o d a context with    *)
(* buffer b over the data d.                                               *)

Ends == Clients \X {"client", "server"}
Peer(e) == <<e[1], IF e[2] = "client" THEN "server" ELSE "client">>

Byte == 0 .. ByteMod - 1

\* n without its 0, 1, 2 and 3 low bytes
Shifts(n) == <<n, n \div ByteMod, (n \div ByteMod) \div ByteMod,
               ((n \div ByteMod) \div ByteMod) \div ByteMod>>

\* nbuf_write_int_safe and nbuf_read_int_safe of the first word, which is read
\* as a signed number: its sign bit is taken to be clear.
Encode(n) == [i \in 1 .. LenSz |-> Shifts(n)[i] % ByteMod]
Decode(s) ==
    LET byte(i) == IF i <= LenSz THEN s[i] ELSE 0
    IN  byte(1) + ByteMod * (byte(2) + ByteMod * (byte(3) + ByteMod * byte(4)))
SetFirstWord(msg, n) == Encode(n) \o SubSeq(msg, LenSz + 1, Len(msg))

\* A message as nbuf_create and nbuf_serialize leave it: one element.
Message(body) == Encode(1) \o body

\* What the server answers: "hello!" or "hello, <name>!"
Greeting(name) == <<Hello>> \o name

Alive(e) == IF e[2] = "server" THEN srv = "up" ELSE cli[e[1]] = "up"
Gone(e) == IF e[2] = "server" THEN srv \notin {"up"}
           ELSE cli[e[1]] \notin {"connecting", "up"}

Init ==
    /\ srv = "up"
    /\ cli = [c \in Clients |-> "connecting"]
    /\ conn = [c \in Clients |-> FALSE]
    /\ streamData = [e \in Ends |-> <<>>]
    /\ reading = [e \in Ends |-> FALSE]
    /\ full = [e \in Ends |-> FALSE]
    /\ reqData = [e \in Ends |-> <<>>]
    /\ net = [e \in Ends |-> <<>>]
    /\ printed = [c \in Clients |-> <<>>]

\* The first word can hold the length of every message, and as a number that
\* is not negative.
Fits(n) == 2 * Shifts(n)[LenSz] < ByteMod
ASSUME LengthAssumption == \A c \in Clients : \A n \in 0 .. LenSz + 1 + Len(Name[c]) : Fits(n)

-----------------------------------------------------------------------------
(* nrpc.c *)

\* Mutant of NrpcRead: stream->data is not set.
NrpcReadNoCtx(e) ==
    /\ streamData' = streamData
    /\ reading' = [reading EXCEPT ![e] = TRUE]

\* nrpc_read with an empty buffer: the context takes the place of the
\* caller's data, which it keeps.
NrpcRead(e) ==
    /\ streamData' = [streamData EXCEPT ![e] = <<<<>>>> \o @]
    /\ reading' = [reading EXCEPT ![e] = TRUE]

\* nrpc_write: the length goes where the number of elements was.
NrpcWrite(e, msg) ==
    reqData' = [reqData EXCEPT ![e] =
                  <<SetFirstWord(msg, Len(msg))>> \o @]

\* The message length that on_read takes from what it has so far
MsgLen(buf) == IF Len(buf) >= LenSz THEN Decode(buf) ELSE 0

\* Mutant of Gather: the bytes are copied to the start of the buffer.
GatherAtBase(buf, bytes) ==
    [i \in 1 .. Len(buf) + Len(bytes) |->
        IF i <= Len(bytes) THEN bytes[i] ELSE IF i <= Len(buf) THEN buf[i] ELSE 0]

\* on_read appends what arrived (room for it is always found here).
Gather(buf, bytes) == buf \o bytes

\* Mutant of MoreToRead: a byte beyond the message is waited for.
MoreToReadBeyond(buf, nread) == nread > 0 /\ (MsgLen(buf) = 0 \/ Len(buf) <= MsgLen(buf))

\* on_read returns: more to read
MoreToRead(buf, nread) == nread > 0 /\ (MsgLen(buf) = 0 \/ Len(buf) < MsgLen(buf))

\* Mutant of Received: the length stays in the message.
ReceivedFramed(buf) == buf

\* What on_read hands to the callback: the first word is set to 1 again.
Received(buf) == SetFirstWord(buf, 1)

Complete(buf) == MsgLen(buf) # 0 /\ Len(buf) = MsgLen(buf)

-----------------------------------------------------------------------------
(* echoserver.c and nrpc_cli.c *)

\* EchoReq_name(get_EchoReq(&buf)): a first word that is not the one element
\* the buffer has room for makes the request a null object, without a name.
RequestName(msg) == IF Decode(msg) = 1 THEN SubSeq(msg, LenSz + 1, Len(msg)) ELSE <<>>

\* on_read of the server: the answer is built in the buffer of the request.
ServerOnRead(e, ok, msg) ==
    /\ \/ /\ ok
          /\ NrpcWrite(e, Message(Greeting(RequestName(msg))))
          /\ srv' = srv
       \/ /\ ~ok
          /\ srv' = "dead"
          /\ reqData' = reqData
    /\ UNCHANGED <<cli, printed>>

\* on_read of the client: prints the message; uv_run then has nothing left
\* to do and the process ends.
ClientOnRead(e, ok, msg) ==
    /\ cli' = [cli EXCEPT ![e[1]] = IF ok THEN "done" ELSE "dead"]
    /\ printed' = [printed EXCEPT ![e[1]] = IF ok THEN msg ELSE @]
    /\ UNCHANGED <<srv, reqData>>

ReadDone(e, ok, msg) ==
    IF e[2] = "server" THEN ServerOnRead(e, ok, msg) ELSE ClientOnRead(e, ok, msg)

\* nrpc.c's on_read with bytes, nread = Len(bytes) >= 0
OnRead(e, bytes) ==
    LET buf == Gather(Head(streamData[e]), bytes) IN
    \/ /\ MoreToRead(buf, Len(bytes))
       /\ streamData' = [streamData EXCEPT ![e] = <<buf>> \o Tail(@)]
       /\ full' = [full EXCEPT ![e] = Len(bytes) = BufferLen]
       /\ UNCHANGED <<srv, cli, reading, reqData, printed>>
    \/ /\ ~MoreToRead(buf, Len(bytes))
       /\ reading' = [reading EXCEPT ![e] = ~Complete(buf)]
       /\ full' = [full EXCEPT ![e] = FALSE]
       /\ streamData' = [streamData EXCEPT ![e] = Tail(@)]
       /\ ReadDone(e, Complete(buf), Received(buf))

\* Some bytes have arrived: at most a buffer full of them is read.
Deliver(e) ==
    /\ Alive(e) /\ reading[e]
    /\ \E n \in 1 .. Len(net[e]) :
          /\ n <= BufferLen
          /\ net' = [net EXCEPT ![e] = SubSeq(@, n + 1, Len(@))]
          /\ OnRead(e, SubSeq(net[e], 1, n))
    /\ UNCHANGED conn

\* The read that follows a full one finds nothing.
ZeroRead(e) ==
    /\ Alive(e) /\ reading[e] /\ full[e]
    /\ OnRead(e, <<>>)
    /\ UNCHANGED <<conn, net>>

\* The peer is gone and all it sent is read: on_read jumps to the end
\* without having set ctx and buf.  Nothing is known of the process then.
EndOfFile(e) ==
    /\ Alive(e) /\ reading[e]
    /\ Gone(Peer(e)) /\ net[e] = <<>>
    /\ IF e[2] = "server"
       THEN srv' = "undefined" /\ cli' = cli
       ELSE cli' = [cli EXCEPT ![e[1]] = "undefined"] /\ srv' = srv
    /\ reading' = [reading EXCEPT ![e] = FALSE]
    /\ UNCHANGED <<conn, streamData, full, reqData, net, printed>>

\* The system takes the next bytes of a write.
Write(e) ==
    /\ Alive(e) /\ reqData[e] # <<>> /\ ~Gone(Peer(e))
    /\ \E n \in 1 .. Len(Head(reqData[e])) :
          /\ net' = [net EXCEPT ![Peer(e)] = @ \o SubSeq(Head(reqData[e]), 1, n)]
          /\ reqData' = [reqData EXCEPT ![e] = <<SubSeq(Head(@), n + 1, Len(Head(@)))>> \o Tail(@)]
    /\ UNCHANGED <<srv, cli, conn, streamData, reading, full, printed>>

\* on_write_end with status 0: the server drops the buffer, the client
\* clears it and reads the answer into it.
WriteEnd(e) ==
    /\ Alive(e) /\ reqData[e] # <<>> /\ Head(reqData[e]) = <<>>
    /\ reqData' = [reqData EXCEPT ![e] = Tail(@)]
    /\ IF e[2] = "client" THEN NrpcRead(e) ELSE UNCHANGED <<streamData, reading>>
    /\ UNCHANGED <<srv, cli, conn, full, net, printed>>

\* on_write_end with an error: both programs die.
WriteFails(e) ==
    /\ Alive(e) /\ reqData[e] # <<>> /\ Head(reqData[e]) # <<>>
    /\ Gone(Peer(e))
    /\ IF e[2] = "server"
       THEN srv' = "dead" /\ cli' = cli
       ELSE cli' = [cli EXCEPT ![e[1]] = "dead"] /\ srv' = srv
    /\ UNCHANGED <<conn, streamData, reading, full, reqData, net, printed>>

\* on_connect of the client: it dies when there is no server or its input
\* is no request, and sends the request otherwise.
ClientOnConnect(c) ==
    /\ cli[c] = "connecting"
    /\ \/ /\ srv = "up" /\ c \notin BadInput
          /\ cli' = [cli EXCEPT ![c] = "up"]
          /\ NrpcWrite(<<c, "client">>, Message(Name[c]))
       \/ /\ srv # "up" \/ c \in BadInput
          /\ cli' = [cli EXCEPT ![c] = "dead"]
          /\ reqData' = reqData
    /\ UNCHANGED <<srv, conn, streamData, reading, full, net, printed>>

\* on_connect of the server, which may come after the client's bytes (or
\* its end).
ServerOnConnect(c) ==
    /\ srv = "up" /\ ~conn[c] /\ cli[c] # "connecting"
    /\ conn' = [conn EXCEPT ![c] = TRUE]
    /\ NrpcRead(<<c, "server">>)
    /\ UNCHANGED <<srv, cli, full, reqData, net, printed>>

\* A client is killed.
ClientKilled(c) ==
    /\ c \in MayQuit /\ cli[c] = "up"
    /\ cli' = [cli EXCEPT ![c] = "dead"]
    /\ UNCHANGED <<srv, conn, streamData, reading, full, reqData, net, printed>>

Next ==
    \/ \E c \in Clients : ClientOnConnect(c) \/ ServerOnConnect(c) \/ ClientKilled(c)
    \/ \E e \in Ends :
          \/ Deliver(e) \/ ZeroRead(e) \/ EndOfFile(e)
          \/ Write(e) \/ WriteEnd(e) \/ WriteFails(e)

Spec == Init /\ [][Next]_vars

\* The event loop of a running process handles what is pending.
Fairness ==
    /\ \A c \in Clients : WF_vars(ClientOnConnect(c)) /\ WF_vars(ServerOnConnect(c))
    /\ \A e \in Ends : WF_vars(Deliver(e)) /\ WF_vars(Write(e)) /\ WF_vars(WriteEnd(e))

FairSpec == Spec /\ Fairness

-----------------------------------------------------------------------------
(* Properties *)

\* Every variable has its type: in particular what on_read and on_write_end
\* put back in stream->data and req->data is the caller's data, and an end
\* that reads has the context that alloc_cb and on_read take it to have.
TypeOK ==
    /\ srv \in {"up", "dead", "undefined"}
    /\ cli \in [Clients -> {"connecting", "up", "done", "dead", "undefined"}]
    /\ conn \in [Clients -> BOOLEAN]
    /\ reading \in [Ends -> BOOLEAN]
    /\ full \in [Ends -> BOOLEAN]
    /\ net \in [Ends -> Seq(Byte)]
    /\ printed \in [Clients -> Seq(Byte)]
    /\ \A e \in Ends :
          /\ streamData[e] \in Seq(Seq(Byte)) /\ Len(streamData[e]) <= 1
          /\ reqData[e] \in Seq(Seq(Byte)) /\ Len(reqData[e]) <= 1
          /\ Alive(e) => (reading[e] <=> streamData[e] # <<>>)

\* What a client prints is the answer to its own request, a nbuf message of
\* one element, however the bytes of the connections were cut up and
\* interleaved: nrpc.c frames by length and puts the first word back.
RightAnswer ==
    \A c \in Clients :
        printed[c] # <<>> => printed[c] = Message(Greeting(Name[c]))

\* No byte is lost, repeated or reordered between an end that is sending and
\* one that is receiving: what the reader's context holds, what is on the way
\* and what is still to be written make up the framed message.
Framed(msg) == SetFirstWord(msg, Len(msg))
Buffer(data) == IF data = <<>> THEN <<>> ELSE Head(data)
InTransit(e) == Buffer(streamData[e]) \o net[e] \o Buffer(reqData[Peer(e)])
NothingLost ==
    \A c \in Clients :
        /\ Alive(<<c, "client">>) /\ Alive(<<c, "server">>)
              /\ (reading[<<c, "server">>] \/ ~conn[c])
              => InTransit(<<c, "server">>) = Framed(Message(Name[c]))
        /\ Alive(<<c, "client">>) /\ Alive(<<c, "server">>) /\ conn[c]
              /\ ~reading[<<c, "server">>]
              => InTransit(<<c, "client">>) = Framed(Message(Greeting(Name[c])))

\* nrpc.c never uses a context it has not set: "read failed" is what both
\* programs' on_read mean to report when nread is negative.
NoUndefinedBehaviour ==
    srv # "undefined" /\ \A c \in Clients : cli[c] # "undefined"

\* The server processes every request and its client prints the answer
\* (rpc/README.md), as long as both programs keep running: neither ever waits
\* for bytes that the other will not send, however short the reads are and
\* whatever happens to the other connections.
EveryRequestAnswered ==
    \A c \in Clients :
        [](srv = "up" /\ cli[c] \notin {"dead", "undefined"}) => <>(printed[c] # <<>>)
=============================================================================
