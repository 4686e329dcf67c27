---------------------------- MODULE NRpc_proofs ----------------------------
(***************************************************************************)
(* Proofs about the RPC library and the echo programs, for any number of   *)
(* clients, names of any length and chunks of any size.                    *)
(*                                                                         *)
(* A connection goes through four phases: Quiet until the client has sent  *)
(* its request, Requesting while the request is on its way, Answering      *)
(* while the answer is, and Answered.  In each phase the bytes that the    *)
(* contexts, the network and the write request hold are known; a step of   *)
(* one connection leaves every other one in its phase, unless it ends the  *)
(* server, about whose memory nothing is claimed then.                     *)
(***************************************************************************)
EXTENDS NRpc, SequenceTheorems, TLAPS

S(c) == <<c, "server">>
C(c) == <<c, "client">>

\* The request and the answer of client c, as they are sent
Request(c) == Framed(Message(Name[c]))
Answer(c) == Framed(Message(Greeting(Name[c])))

\* The server has a context on the connection exactly when it accepted it.
Waits(c) == srv = "up" => (conn[c] <=> streamData[S(c)] # <<>>)

\* The client has sent nothing (and never will if it is dead).
Quiet(c) ==
    /\ cli[c] \in {"connecting", "dead"}
    /\ cli[c] = "connecting" => ~reading[C(c)]
    /\ reqData[C(c)] = <<>> /\ streamData[C(c)] = <<>>
    /\ net[S(c)] = <<>> /\ Buffer(streamData[S(c)]) = <<>>
    /\ reqData[S(c)] = <<>> /\ net[C(c)] = <<>>
    /\ printed[c] = <<>>
    /\ Waits(c)

\* The request is not complete at the server.
Requesting(c) ==
    /\ cli[c] # "connecting"
    /\ reqData[S(c)] = <<>> /\ net[C(c)] = <<>> /\ Buffer(streamData[C(c)]) = <<>>
    /\ printed[c] = <<>>
    /\ Waits(c)
    /\ srv = "up" =>
          /\ InTransit(S(c)) = Request(c)
          /\ Len(Buffer(streamData[S(c)])) < Len(Request(c))

\* The server took the request and the answer is not complete at the client.
Answering(c) ==
    /\ cli[c] # "connecting" /\ conn[c]
    /\ streamData[S(c)] = <<>> /\ net[S(c)] = <<>> /\ Buffer(reqData[C(c)]) = <<>>
    /\ printed[c] = <<>>
    /\ cli[c] = "up" =>
          /\ InTransit(C(c)) = Answer(c)
          /\ Len(Buffer(streamData[C(c)])) < Len(Answer(c))

\* The client printed the answer and ended.
Answered(c) ==
    /\ cli[c] = "done" /\ conn[c] /\ streamData[S(c)] = <<>>
    /\ printed[c] = Message(Greeting(Name[c]))

Phase(c) == Quiet(c) \/ Requesting(c) \/ Answering(c) \/ Answered(c)

\* Chains of at most one context; only a client that has done with its write
\* reads, and a running end reads exactly when it has a context.
Contexts(c) ==
    /\ Len(streamData[S(c)]) <= 1 /\ Len(streamData[C(c)]) <= 1
    /\ Len(reqData[S(c)]) <= 1 /\ Len(reqData[C(c)]) <= 1
    /\ srv = "up" => (reading[S(c)] <=> streamData[S(c)] # <<>>)
    /\ cli[c] = "up" => (reading[C(c)] <=> streamData[C(c)] # <<>>)
    /\ reqData[C(c)] # <<>> => streamData[C(c)] = <<>>

Typed ==
    /\ srv \in {"up", "dead", "undefined"}
    /\ cli \in [Clients -> {"connecting", "up", "done", "dead", "undefined"}]
    /\ conn \in [Clients -> BOOLEAN]
    /\ reading \in [Ends -> BOOLEAN]
    /\ full \in [Ends -> BOOLEAN]
    /\ net \in [Ends -> Seq(Byte)]
    /\ printed \in [Clients -> Seq(Byte)]
    /\ streamData \in [Ends -> Seq(Seq(Byte))]
    /\ reqData \in [Ends -> Seq(Seq(Byte))]

RpcInv == Typed /\ \A c \in Clients : Contexts(c) /\ Phase(c)

-----------------------------------------------------------------------------
(* The first word *)

\* Division of a number by the number of values of a byte.
LEMMA DivMod ==
    ASSUME NEW n \in Nat
    PROVE  /\ n \div ByteMod \in Nat /\ n % ByteMod \in Byte
           /\ n = ByteMod * (n \div ByteMod) + (n % ByteMod)
  <1> DEFINE B == ByteMod
  <1>1. B \in Nat /\ B > 1 /\ Byte = 0 .. B - 1
    BY RpcAssumption DEF Byte
  <1> HIDE DEF B
  <1>2. n % B \in 0 .. B - 1
    BY <1>1
  <1>3. n \div B \in Int
    BY <1>1
  <1>4. n = B * (n \div B) + (n % B)
    BY <1>1
  <1>5. n \div B >= 0
    BY <1>1
  <1> QED
    BY <1>1, <1>2, <1>3, <1>4, <1>5 DEF B

\* Each shift divides the one before by the number of values of a byte.
LEMMA ShiftsType ==
    ASSUME NEW n \in Nat
    PROVE  /\ Shifts(n)[1] = n
           /\ \A i \in 1 .. 4 : Shifts(n)[i] \in Nat
           /\ \A i \in 1 .. 3 : Shifts(n)[i + 1] = Shifts(n)[i] \div ByteMod
  <1> DEFINE n2 == n \div ByteMod
             n3 == n2 \div ByteMod
             n4 == n3 \div ByteMod
  <1>1. n2 \in Nat
    BY DivMod
  <1>2. n3 \in Nat
    BY <1>1, DivMod
  <1>3. n4 \in Nat
    BY <1>2, DivMod
  <1>4. Shifts(n) = <<n, n2, n3, n4>>
    BY DEF Shifts
  <1> HIDE DEF n2, n3, n4
  <1>5. Shifts(n)[1] = n /\ Shifts(n)[2] = n2 /\ Shifts(n)[3] = n3 /\ Shifts(n)[4] = n4
    BY <1>4
  <1>6. n2 = n \div ByteMod /\ n3 = n2 \div ByteMod /\ n4 = n3 \div ByteMod
    BY DEF n2, n3, n4
  <1>7. \A i \in 1 .. 4 : i = 1 \/ i = 2 \/ i = 3 \/ i = 4
    OBVIOUS
  <1>8. \A i \in 1 .. 3 : (i = 1 /\ i + 1 = 2) \/ (i = 2 /\ i + 1 = 3) \/ (i = 3 /\ i + 1 = 4)
    OBVIOUS
  <1>9. \A i \in 1 .. 3 : Shifts(n)[i + 1] = Shifts(n)[i] \div ByteMod
    BY <1>5, <1>6, <1>8, Zenon
  <1> QED
    BY <1>1, <1>2, <1>3, <1>5, <1>7, <1>9, Zenon

\* A first word has LenSz bytes.
LEMMA EncodeType ==
    ASSUME NEW n \in Nat
    PROVE  /\ Encode(n) \in Seq(Byte) /\ Len(Encode(n)) = LenSz
           /\ \A i \in 1 .. LenSz : Encode(n)[i] = Shifts(n)[i] % ByteMod
  <1>1. LenSz \in Nat /\ \A i \in 1 .. LenSz : i \in 1 .. 4
    BY RpcAssumption
  <1>2. \A i \in 1 .. LenSz : Shifts(n)[i] % ByteMod \in Byte
    BY <1>1, ShiftsType, DivMod
  <1> QED
    BY <1>1, <1>2 DEF Encode

\* Reading the first word gives the number that was written, whatever follows.
LEMMA DecodeEncoded ==
    ASSUME NEW n \in Nat, Fits(n), NEW s,
           \A i \in 1 .. LenSz : s[i] = Encode(n)[i]
    PROVE  Decode(s) = n
  <1> DEFINE B == ByteMod
             nn(i) == Shifts(n)[i]
             byte(i) == IF i <= LenSz THEN s[i] ELSE 0
  <1>1. B \in Nat /\ B > 1 /\ LenSz \in 1 .. 4
    BY RpcAssumption
  <1>2. Decode(s) = byte(1) + B * (byte(2) + B * (byte(3) + B * byte(4)))
    BY DEF Decode
  <1>3. \A i \in 1 .. LenSz : byte(i) = nn(i) % B
    BY <1>1, EncodeType
  <1>4. \A i \in 1 .. 4 : i > LenSz => byte(i) = 0
    BY <1>1
  <1>5. nn(1) = n /\ nn(1) \in Nat /\ nn(2) \in Nat /\ nn(3) \in Nat /\ nn(4) \in Nat
    BY ShiftsType
  <1>6. /\ nn(1) = B * nn(2) + (nn(1) % B)
        /\ nn(2) = B * nn(3) + (nn(2) % B)
        /\ nn(3) = B * nn(4) + (nn(3) % B)
        /\ nn(1) % B \in Int /\ nn(2) % B \in Int /\ nn(3) % B \in Int
    <2>1. nn(2) = nn(1) \div B /\ nn(3) = nn(2) \div B /\ nn(4) = nn(3) \div B
      BY ShiftsType
    <2> HIDE DEF nn
    <2> QED
      BY <2>1, <1>5, DivMod DEF Byte
  <1>7. nn(LenSz) % B = nn(LenSz)
    <2>1. nn(LenSz) \in Nat /\ 2 * nn(LenSz) < ByteMod
      BY <1>1, <1>5, ShiftsType DEF Fits
    <2> HIDE DEF nn
    <2> QED
      BY <2>1, <1>1
  <1> HIDE DEF nn, byte, B
  <1>8. CASE LenSz = 1
    <2>1. byte(1) = nn(1) /\ byte(2) = 0 /\ byte(3) = 0 /\ byte(4) = 0
      BY <1>8, <1>3, <1>4, <1>7
    <2> QED
      BY <2>1, <1>1, <1>2, <1>5
  <1>9. CASE LenSz = 2
    <2>1. byte(1) = nn(1) % B /\ byte(2) = nn(2) /\ byte(3) = 0 /\ byte(4) = 0
      BY <1>9, <1>3, <1>4, <1>7
    <2> QED
      BY <2>1, <1>1, <1>2, <1>5, <1>6
  <1>10. CASE LenSz = 3
    <2>1. /\ byte(1) = nn(1) % B /\ byte(2) = nn(2) % B
          /\ byte(3) = nn(3) /\ byte(4) = 0
      BY <1>10, <1>3, <1>4, <1>7
    <2>2. byte(2) + B * (byte(3) + B * byte(4)) = nn(2)
      BY <2>1, <1>1, <1>5, <1>6
    <2> QED
      BY <2>1, <2>2, <1>1, <1>2, <1>5, <1>6
  <1>11. CASE LenSz = 4
    <2>1. /\ byte(1) = nn(1) % B /\ byte(2) = nn(2) % B
          /\ byte(3) = nn(3) % B /\ byte(4) = nn(4)
      BY <1>11, <1>3, <1>4, <1>7
    <2>2. byte(3) + B * byte(4) = nn(3)
      BY <2>1, <1>1, <1>5, <1>6
    <2>3. byte(2) + B * (byte(3) + B * byte(4)) = nn(2)
      BY <2>1, <2>2, <1>1, <1>5, <1>6
    <2> QED
      BY <2>1, <2>3, <1>1, <1>2, <1>5, <1>6
  <1> QED
    BY <1>1, <1>8, <1>9, <1>10, <1>11

-----------------------------------------------------------------------------
(* Framing *)

\* The bytes of a connection: those read, those on the way, those to be written
Flow(a, b, r) == a \o b \o r
Taken(s, n) == SubSeq(s, 1, n)
Left(s, n) == SubSeq(s, n + 1, Len(s))

\* The first n bytes and the others.
LEMMA Cut ==
    ASSUME NEW s \in Seq(Byte), NEW n \in 1 .. Len(s)
    PROVE  /\ Taken(s, n) \in Seq(Byte) /\ Len(Taken(s, n)) = n
           /\ Left(s, n) \in Seq(Byte) /\ Len(Left(s, n)) = Len(s) - n
           /\ Gather(Taken(s, n), Left(s, n)) = s
  BY DEF Taken, Left, Gather

\* A message without its framing: one element and a body.
LEMMA MessageFacts ==
    ASSUME NEW body \in Seq(Byte)
    PROVE  /\ Message(body) \in Seq(Byte) /\ Len(Message(body)) = LenSz + Len(body)
           /\ \A i \in 1 .. LenSz : Message(body)[i] = Encode(1)[i]
           /\ SubSeq(Message(body), LenSz + 1, Len(Message(body))) = body
  <1>1. 1 \in Nat
    OBVIOUS
  <1>2. Encode(1) \in Seq(Byte) /\ Len(Encode(1)) = LenSz
    BY <1>1, EncodeType
  <1>3. PICK e \in Seq(Byte) : e = Encode(1) /\ Len(e) = LenSz
    BY <1>2
  <1>4. Message(body) = e \o body
    BY <1>3 DEF Message
  <1>5. /\ e \o body \in Seq(Byte) /\ Len(e \o body) = Len(e) + Len(body)
        /\ \A i \in 1 .. Len(e) : (e \o body)[i] = e[i]
        /\ SubSeq(e \o body, Len(e) + 1, Len(e \o body)) = body
    OBVIOUS
  <1> QED
    BY <1>3, <1>4, <1>5, Zenon

\* The framed message: its length and its body.
LEMMA FramedFacts ==
    ASSUME NEW body \in Seq(Byte)
    PROVE  /\ Framed(Message(body)) \in Seq(Byte)
           /\ Len(Framed(Message(body))) = LenSz + Len(body)
           /\ \A i \in 1 .. LenSz : Framed(Message(body))[i] = Encode(LenSz + Len(body))[i]
           /\ Received(Framed(Message(body))) = Message(body)
  <1> DEFINE n == LenSz + Len(body)
  <1>1. n \in Nat /\ 1 \in Nat
    BY RpcAssumption
  <1>2. Framed(Message(body)) = Encode(n) \o body
    BY MessageFacts DEF Framed, SetFirstWord
  <1>3. Encode(n) \in Seq(Byte) /\ Len(Encode(n)) = LenSz
    BY <1>1, EncodeType
  <1>4. /\ Framed(Message(body)) \in Seq(Byte)
        /\ Len(Framed(Message(body))) = n
        /\ \A i \in 1 .. LenSz : Framed(Message(body))[i] = Encode(n)[i]
        /\ SubSeq(Framed(Message(body)), LenSz + 1, Len(Framed(Message(body)))) = body
    <2>1. PICK e \in Seq(Byte) : e = Encode(n) /\ Len(e) = LenSz
      BY <1>3
    <2>2. PICK f : f = Framed(Message(body))
      OBVIOUS
    <2>3. f = e \o body
      BY <2>1, <2>2, <1>2
    <2>4. /\ f \in Seq(Byte) /\ Len(f) = LenSz + Len(body)
          /\ \A i \in 1 .. LenSz : f[i] = e[i]
          /\ SubSeq(f, LenSz + 1, Len(f)) = body
      <3>1. /\ e \o body \in Seq(Byte) /\ Len(e \o body) = Len(e) + Len(body)
            /\ \A i \in 1 .. Len(e) : (e \o body)[i] = e[i]
            /\ SubSeq(e \o body, Len(e) + 1, Len(e \o body)) = body
        OBVIOUS
      <3> QED
        BY <2>1, <2>3, <3>1, Zenon
    <2> QED
      BY <2>1, <2>2, <2>4
  <1> QED
    BY <1>4 DEF Received, SetFirstWord, Message

\* How far on_read is with what it has of a framed message.
LEMMA PartOfFramed ==
    ASSUME NEW body \in Seq(Byte), Fits(LenSz + Len(body)),
           NEW buf \in Seq(Byte), NEW rest \in Seq(Byte),
           Gather(buf, rest) = Framed(Message(body))
    PROVE  /\ Len(buf) <= Len(Framed(Message(body)))
           /\ \A k \in Nat : MoreToRead(buf, k) <=> k > 0 /\ Len(buf) < Len(Framed(Message(body)))
           /\ Complete(buf) <=> Len(buf) = Len(Framed(Message(body)))
           /\ Complete(buf) => buf = Framed(Message(body)) /\ rest = <<>>
  <1> DEFINE n == LenSz + Len(body)
  <1>1. n \in Nat /\ n >= LenSz /\ n > 0 /\ LenSz \in Nat /\ LenSz > 0
    BY RpcAssumption
  <1>2. Len(Framed(Message(body))) = n
    BY FramedFacts
  <1>3. /\ Len(buf) + Len(rest) = n
        /\ \A i \in 1 .. Len(buf) : buf[i] = Framed(Message(body))[i]
        /\ Len(rest) = 0 => buf = Framed(Message(body))
    <2>1. PICK f : f = Framed(Message(body)) /\ f = buf \o rest
      BY DEF Gather
    <2>2. /\ Len(f) = Len(buf) + Len(rest)
          /\ \A i \in 1 .. Len(buf) : f[i] = buf[i]
          /\ Len(rest) = 0 => f = buf
      <3>1. /\ Len(buf \o rest) = Len(buf) + Len(rest)
            /\ \A i \in 1 .. Len(buf) : (buf \o rest)[i] = buf[i]
        OBVIOUS
      <3>2. (Len(rest) = 0 => rest = <<>>) /\ buf \o <<>> = buf
        BY EmptySeq, ConcatEmptySeq
      <3> QED
        BY <2>1, <3>1, <3>2, Zenon
    <2> QED
      BY <1>2, <2>1, <2>2, Zenon
  <1>4. Len(buf) \in Nat /\ Len(rest) \in Nat
    OBVIOUS
  <1>5. ASSUME Len(buf) >= LenSz PROVE Decode(buf) = n
    <2>1. \A i \in 1 .. LenSz : i \in 1 .. Len(buf)
      BY <1>1, <1>4, <1>5
    <2>2. \A i \in 1 .. LenSz : Framed(Message(body))[i] = Encode(n)[i]
      BY FramedFacts, Zenon
    <2>3. \A i \in 1 .. LenSz : buf[i] = Encode(n)[i]
      BY <2>1, <2>2, <1>3, Zenon
    <2> QED
      BY <2>3, <1>1, DecodeEncoded
  <1>6. MsgLen(buf) = IF Len(buf) >= LenSz THEN n ELSE 0
    BY <1>5 DEF MsgLen
  <1> HIDE DEF n
  <1>7. \A k \in Nat : MoreToRead(buf, k) <=> k > 0 /\ Len(buf) < n
    BY <1>1, <1>3, <1>4, <1>6 DEF MoreToRead
  <1>8. Complete(buf) <=> Len(buf) = n
    BY <1>1, <1>3, <1>4, <1>6 DEF Complete
  <1>9. Complete(buf) => Len(rest) = 0
    BY <1>1, <1>3, <1>4, <1>8
  <1>10. Len(rest) = 0 => rest = <<>>
    BY EmptySeq
  <1> QED
    BY <1>1, <1>2, <1>3, <1>4, <1>7, <1>8, <1>9, <1>10

-----------------------------------------------------------------------------
(* Ends and contexts *)

\* The two ends of a connection.
LEMMA EndsOf ==
    ASSUME NEW c \in Clients
    PROVE  /\ S(c) \in Ends /\ C(c) \in Ends
           /\ Peer(S(c)) = C(c) /\ Peer(C(c)) = S(c)
           /\ S(c)[1] = c /\ S(c)[2] = "server" /\ C(c)[1] = c /\ C(c)[2] = "client"
           /\ \A d : S(c) # C(d)
           /\ \A d : d # c => S(d) # S(c) /\ C(d) # C(c)
  BY DEF S, C, Ends, Peer

\* Every end is one of a connection.
LEMMA EndsAre ==
    ASSUME NEW e \in Ends
    PROVE  \E c \in Clients : e = S(c) \/ e = C(c)
  BY DEF S, C, Ends

\* Which processes are alive and gone, by the ends of a connection.
LEMMA AliveEnds ==
    ASSUME NEW c \in Clients
    PROVE  /\ Alive(S(c)) <=> srv = "up"
           /\ Alive(C(c)) <=> cli[c] = "up"
           /\ Gone(S(c)) <=> srv # "up"
           /\ Gone(C(c)) <=> cli[c] \notin {"connecting", "up"}
  BY EndsOf DEF Alive, Gone

\* A chain of one context: its buffer, and the chains it becomes.
LEMMA OneContext ==
    ASSUME NEW d \in Seq(Seq(Byte)), Len(d) <= 1
    PROVE  /\ d = <<>> <=> Len(d) = 0
           /\ d = <<>> => Buffer(d) = <<>>
           /\ d # <<>> => /\ Head(d) \in Seq(Byte) /\ Buffer(d) = Head(d)
                          /\ Tail(d) = <<>>
           /\ Buffer(d) \in Seq(Byte)
  <1>1. CASE d = <<>>
    BY <1>1 DEF Buffer
  <1>2. CASE d # <<>>
    <2>1. Len(d) = 1 /\ Head(d) \in Seq(Byte)
      BY <1>2
    <2>2. Tail(d) \in Seq(Seq(Byte)) /\ Len(Tail(d)) = 0
      BY <1>2, <2>1, HeadTailProperties
    <2>3. Tail(d) = <<>>
      BY <2>2, EmptySeq
    <2> QED
      BY <2>1, <2>3, <1>2 DEF Buffer
  <1> QED
    BY <1>1, <1>2

\* A context over the caller's own data.
LEMMA NewContext ==
    ASSUME NEW x \in Seq(Byte)
    PROVE  /\ <<x>> \o <<>> = <<x>>
           /\ <<x>> \in Seq(Seq(Byte)) /\ Len(<<x>>) = 1 /\ <<x>> # <<>>
           /\ Buffer(<<x>>) = x /\ Head(<<x>>) = x
  <1>1. <<x>> \in Seq(Seq(Byte)) /\ Len(<<x>>) = 1 /\ <<x>> # <<>> /\ Head(<<x>>) = x
    OBVIOUS
  <1>2. <<x>> \o <<>> = <<x>>
    BY <1>1, ConcatEmptySeq
  <1> QED
    BY <1>1, <1>2 DEF Buffer

\* The empty buffer and the empty chain.
LEMMA NoBytes ==
    /\ <<>> \in Seq(Byte) /\ <<>> \in Seq(Seq(Byte)) /\ Len(<<>>) = 0 /\ Buffer(<<>>) = <<>>
  BY DEF Buffer

\* The messages of client c and their framing.
LEMMA Bodies ==
    ASSUME NEW c \in Clients
    PROVE  /\ Name[c] \in Seq(Byte) /\ Greeting(Name[c]) \in Seq(Byte)
           /\ Fits(1) /\ Fits(LenSz + Len(Name[c])) /\ Fits(LenSz + Len(Greeting(Name[c])))
           /\ Request(c) \in Seq(Byte) /\ Len(Request(c)) \in Nat /\ Len(Request(c)) > 0
           /\ Answer(c) \in Seq(Byte) /\ Len(Answer(c)) \in Nat /\ Len(Answer(c)) > 0
  <1>1. 1 .. ByteMod - 1 \subseteq Byte
    BY RpcAssumption DEF Byte
  <1>2. Name[c] \in Seq(1 .. ByteMod - 1) /\ Hello \in Byte /\ LenSz \in Nat /\ LenSz > 0
    BY RpcAssumption, <1>1
  <1>3. Name[c] \in Seq(Byte)
    BY <1>1, <1>2, SeqMonotonic
  <1>4. Greeting(Name[c]) \in Seq(Byte) /\ Len(Greeting(Name[c])) = 1 + Len(Name[c])
    <2>1. <<Hello>> \in Seq(Byte) /\ Len(<<Hello>>) = 1
      BY <1>2
    <2> QED
      BY <2>1, <1>3, ConcatProperties DEF Greeting
  <1>5. PICK k \in Nat : k = Len(Name[c])
    BY <1>3
  <1>6. /\ 1 \in 0 .. LenSz + 1 + k /\ LenSz + k \in 0 .. LenSz + 1 + k
        /\ LenSz + (1 + k) \in 0 .. LenSz + 1 + k
    <2>1. LenSz \in Nat /\ LenSz > 0
      BY <1>2
    <2> QED
      BY <2>1
  <1>7. Fits(1) /\ Fits(LenSz + k) /\ Fits(LenSz + (1 + k))
    BY <1>5, <1>6, LengthAssumption
  <1>8. /\ Len(Request(c)) = LenSz + k /\ Len(Answer(c)) = LenSz + (1 + k)
        /\ Request(c) \in Seq(Byte) /\ Answer(c) \in Seq(Byte)
    BY <1>3, <1>4, <1>5, FramedFacts DEF Request, Answer
  <1> QED
    BY <1>2, <1>3, <1>4, <1>5, <1>7, <1>8

-----------------------------------------------------------------------------
(* Steps that leave a connection alone *)

\* What the step leaves to connection c
SameBytes(c) ==
    /\ streamData'[S(c)] = streamData[S(c)] /\ streamData'[C(c)] = streamData[C(c)]
    /\ reqData'[S(c)] = reqData[S(c)] /\ reqData'[C(c)] = reqData[C(c)]
    /\ net'[S(c)] = net[S(c)] /\ net'[C(c)] = net[C(c)]
    /\ reading'[S(c)] = reading[S(c)] /\ reading'[C(c)] = reading[C(c)]
    /\ conn'[c] = conn[c] /\ printed'[c] = printed[c]

ServerStaysDown == srv' = "up" => srv = "up"

\* A connection that a step does not touch stays in its phase.
LEMMA OthersKeepPhase ==
    ASSUME NEW c \in Clients, Contexts(c), Phase(c),
           SameBytes(c), cli'[c] = cli[c], ServerStaysDown
    PROVE  Contexts(c)' /\ Phase(c)'
  <1>1. Contexts(c)'
    BY DEF Contexts, SameBytes, ServerStaysDown
  <1>2. Phase(c)'
    <2>1. CASE Quiet(c)
      BY <2>1 DEF Phase, Quiet, Waits, SameBytes, ServerStaysDown
    <2>2. CASE Requesting(c)
      BY <2>2, EndsOf DEF Phase, Requesting, Waits, InTransit, SameBytes, ServerStaysDown
    <2>3. CASE Answering(c)
      BY <2>3, EndsOf DEF Phase, Answering, InTransit, SameBytes, ServerStaysDown
    <2>4. CASE Answered(c)
      BY <2>4 DEF Phase, Answered, SameBytes, ServerStaysDown
    <2> QED
      BY <2>1, <2>2, <2>3, <2>4 DEF Phase
  <1> QED
    BY <1>1, <1>2

\* So does one whose client ends.
LEMMA ClientEndsKeepsPhase ==
    ASSUME NEW c \in Clients, Contexts(c), Phase(c), SameBytes(c), ServerStaysDown,
           cli[c] = "up", cli'[c] \notin {"connecting", "up"}
    PROVE  Contexts(c)' /\ Phase(c)'
  <1>1. Contexts(c)'
    BY DEF Contexts, SameBytes, ServerStaysDown
  <1>2. Phase(c)'
    <2>1. CASE Requesting(c)
      BY <2>1, EndsOf, ZenonT(60) DEF Phase, Requesting, Waits, InTransit, SameBytes, ServerStaysDown
    <2>2. CASE Answering(c)
      BY <2>2, EndsOf DEF Phase, Answering, InTransit, SameBytes, ServerStaysDown
    <2> QED
      BY <2>1, <2>2 DEF Phase, Quiet, Answered
  <1> QED
    BY <1>1, <1>2

\* The steps of connection d
StepOf(d) ==
    \/ ClientOnConnect(d) \/ ServerOnConnect(d) \/ ClientKilled(d)
    \/ \E e \in {S(d), C(d)} :
          \/ Deliver(e) \/ ZeroRead(e) \/ EndOfFile(e)
          \/ Write(e) \/ WriteEnd(e) \/ WriteFails(e)

\* Every step is one of a connection.
LEMMA StepOfSome ==
    ASSUME Next
    PROVE  \E d \in Clients : StepOf(d)
  BY EndsAre DEF Next, StepOf

\* on_read of one connection and the others.
LEMMA OnReadOthers ==
    ASSUME Typed, NEW d \in Clients, NEW e \in {S(d), C(d)}, NEW bytes, OnRead(e, bytes),
           NEW c \in Clients, c # d
    PROVE  /\ streamData'[S(c)] = streamData[S(c)] /\ streamData'[C(c)] = streamData[C(c)]
           /\ reqData'[S(c)] = reqData[S(c)] /\ reqData'[C(c)] = reqData[C(c)]
           /\ reading'[S(c)] = reading[S(c)] /\ reading'[C(c)] = reading[C(c)]
           /\ printed'[c] = printed[c] /\ cli'[c] = cli[c] /\ ServerStaysDown
  <1>1. /\ e # S(c) /\ e # C(c) /\ S(c) \in Ends /\ C(c) \in Ends /\ e[1] = d
        /\ e \in Ends
    BY EndsOf
  <1>2. \A x : /\ [streamData EXCEPT ![e] = x][S(c)] = streamData[S(c)]
               /\ [streamData EXCEPT ![e] = x][C(c)] = streamData[C(c)]
               /\ [reqData EXCEPT ![e] = x][S(c)] = reqData[S(c)]
               /\ [reqData EXCEPT ![e] = x][C(c)] = reqData[C(c)]
               /\ [reading EXCEPT ![e] = x][S(c)] = reading[S(c)]
               /\ [reading EXCEPT ![e] = x][C(c)] = reading[C(c)]
               /\ [cli EXCEPT ![e[1]] = x][c] = cli[c]
               /\ [printed EXCEPT ![e[1]] = x][c] = printed[c]
    BY <1>1 DEF Typed
  <1>3. CASE streamData' = [streamData EXCEPT ![e] = <<Gather(Head(streamData[e]), bytes)>> \o Tail(@)]
             /\ UNCHANGED <<srv, cli, reading, reqData, printed>>
    BY <1>2, <1>3 DEF ServerStaysDown
  <1>4. ASSUME NEW ok, NEW msg,
               streamData' = [streamData EXCEPT ![e] = Tail(@)], ReadDone(e, ok, msg)
        PROVE  /\ streamData'[S(c)] = streamData[S(c)] /\ streamData'[C(c)] = streamData[C(c)]
               /\ reqData'[S(c)] = reqData[S(c)] /\ reqData'[C(c)] = reqData[C(c)]
               /\ printed'[c] = printed[c] /\ cli'[c] = cli[c] /\ ServerStaysDown
    <2>1. streamData'[S(c)] = streamData[S(c)] /\ streamData'[C(c)] = streamData[C(c)]
      BY <1>2, <1>4
    <2>2. \E x : reqData' = reqData \/ reqData' = [reqData EXCEPT ![e] = x]
      BY <1>4, Zenon DEF ReadDone, ServerOnRead, ClientOnRead, NrpcWrite
    <2>3. \E x : cli' = cli \/ cli' = [cli EXCEPT ![e[1]] = x]
      BY <1>4, Zenon DEF ReadDone, ServerOnRead, ClientOnRead
    <2>4. \E x : printed' = printed \/ printed' = [printed EXCEPT ![e[1]] = x]
      BY <1>4, Zenon DEF ReadDone, ServerOnRead, ClientOnRead
    <2>5. srv' = srv \/ srv' = "dead"
      BY <1>4, Zenon DEF ReadDone, ServerOnRead, ClientOnRead
    <2>6. reqData'[S(c)] = reqData[S(c)] /\ reqData'[C(c)] = reqData[C(c)]
      BY <1>1, <2>2 DEF Typed
    <2>7. cli'[c] = cli[c]
      BY <1>1, <2>3 DEF Typed
    <2>8. printed'[c] = printed[c]
      BY <1>1, <2>4 DEF Typed
    <2>9. ServerStaysDown
      BY <2>5 DEF ServerStaysDown
    <2> QED
      BY <2>1, <2>6, <2>7, <2>8, <2>9, Zenon
  <1>5. \E x : reading' = reading \/ reading' = [reading EXCEPT ![e] = x]
    BY Zenon DEF OnRead
  <1>6. reading'[S(c)] = reading[S(c)] /\ reading'[C(c)] = reading[C(c)]
    BY <1>2, <1>5
  <1> QED
    BY <1>3, <1>4, <1>6, Zenon DEF OnRead

\* A step of one connection changes nothing of another.
LEMMA StepOthers ==
    ASSUME Typed, NEW d \in Clients, StepOf(d), NEW c \in Clients, c # d
    PROVE  SameBytes(c) /\ cli'[c] = cli[c] /\ ServerStaysDown
  <1>1. /\ \A e \in {S(d), C(d)} :
             /\ e # S(c) /\ e # C(c) /\ e \in Ends /\ e[1] = d
             /\ Peer(e) # S(c) /\ Peer(e) # C(c)
        /\ S(c) \in Ends /\ C(c) \in Ends
    BY EndsOf
  <1>2. \A e, x : e # S(c) /\ e # C(c) =>
               /\ [streamData EXCEPT ![e] = x][S(c)] = streamData[S(c)]
               /\ [streamData EXCEPT ![e] = x][C(c)] = streamData[C(c)]
               /\ [reqData EXCEPT ![e] = x][S(c)] = reqData[S(c)]
               /\ [reqData EXCEPT ![e] = x][C(c)] = reqData[C(c)]
               /\ [net EXCEPT ![e] = x][S(c)] = net[S(c)]
               /\ [net EXCEPT ![e] = x][C(c)] = net[C(c)]
               /\ [reading EXCEPT ![e] = x][S(c)] = reading[S(c)]
               /\ [reading EXCEPT ![e] = x][C(c)] = reading[C(c)]
    BY <1>1 DEF Typed
  <1>3. \A x : [cli EXCEPT ![d] = x][c] = cli[c] /\ [conn EXCEPT ![d] = x][c] = conn[c]
    BY DEF Typed
  <1>4. CASE ClientOnConnect(d)
    <2>1. \E x : reqData' = reqData \/ reqData' = [reqData EXCEPT ![C(d)] = x]
      BY <1>4, Zenon DEF ClientOnConnect, NrpcWrite, C
    <2>2. (\E x : cli' = [cli EXCEPT ![d] = x])
          /\ UNCHANGED <<srv, conn, streamData, reading, net, printed>>
      BY <1>4, Zenon DEF ClientOnConnect
    <2>3. reqData'[S(c)] = reqData[S(c)] /\ reqData'[C(c)] = reqData[C(c)]
      BY <2>1, <1>1 DEF Typed
    <2>4. cli'[c] = cli[c]
      BY <2>2, <1>3
    <2> QED
      BY <2>2, <2>3, <2>4 DEF SameBytes, ServerStaysDown
  <1>5. CASE ServerOnConnect(d)
    <2>1. (\E x : streamData' = [streamData EXCEPT ![S(d)] = x])
          /\ (\E x : reading' = [reading EXCEPT ![S(d)] = x])
      BY <1>5, Zenon DEF ServerOnConnect, NrpcRead, S
    <2>2. (\E x : conn' = [conn EXCEPT ![d] = x])
          /\ UNCHANGED <<srv, cli, reqData, net, printed>>
      BY <1>5, Zenon DEF ServerOnConnect
    <2> QED
      BY <2>1, <2>2, <1>1, <1>2, <1>3 DEF SameBytes, ServerStaysDown
  <1>6. CASE ClientKilled(d)
    BY <1>6, <1>3 DEF ClientKilled, SameBytes, ServerStaysDown
  <1>7. ASSUME NEW e \in {S(d), C(d)}, Deliver(e) PROVE SameBytes(c) /\ cli'[c] = cli[c] /\ ServerStaysDown
    <2>1. PICK n \in 1 .. Len(net[e]) :
             /\ net' = [net EXCEPT ![e] = SubSeq(@, n + 1, Len(@))]
             /\ OnRead(e, SubSeq(net[e], 1, n))
      BY <1>7 DEF Deliver
    <2>2. conn' = conn
      BY <1>7 DEF Deliver
    <2>3. net'[S(c)] = net[S(c)] /\ net'[C(c)] = net[C(c)]
      BY <2>1, <1>1, <1>2
    <2> QED
      BY <2>1, <2>2, <2>3, OnReadOthers DEF SameBytes
  <1>8. ASSUME NEW e \in {S(d), C(d)}, ZeroRead(e) PROVE SameBytes(c) /\ cli'[c] = cli[c] /\ ServerStaysDown
    BY <1>8, OnReadOthers DEF ZeroRead, SameBytes
  <1>9. ASSUME NEW e \in {S(d), C(d)}, EndOfFile(e) \/ WriteFails(e)
        PROVE  SameBytes(c) /\ cli'[c] = cli[c] /\ ServerStaysDown
    <2>1. \E x : cli' = cli \/ cli' = [cli EXCEPT ![e[1]] = x]
      BY <1>9, Zenon DEF EndOfFile, WriteFails
    <2>2. \E x : reading' = reading \/ reading' = [reading EXCEPT ![e] = x]
      BY <1>9, Zenon DEF EndOfFile, WriteFails
    <2>3. /\ srv' = srv \/ srv' = "dead" \/ srv' = "undefined"
          /\ UNCHANGED <<conn, streamData, reqData, net, printed>>
      BY <1>9, Zenon DEF EndOfFile, WriteFails
    <2>4. reading'[S(c)] = reading[S(c)] /\ reading'[C(c)] = reading[C(c)]
      BY <2>2, <1>1 DEF Typed
    <2>5. cli'[c] = cli[c]
      <3>1. e[1] = d
        BY <1>1, Zenon
      <3> QED
        BY <2>1, <3>1, <1>3, Zenon
    <2>6. ServerStaysDown
      BY <2>3 DEF ServerStaysDown
    <2> QED
      BY <2>3, <2>4, <2>5, <2>6, Zenon DEF SameBytes
  <1>10. ASSUME NEW e \in {S(d), C(d)}, Write(e) PROVE SameBytes(c) /\ cli'[c] = cli[c] /\ ServerStaysDown
    <2>1. (\E x : net' = [net EXCEPT ![Peer(e)] = x]) /\ (\E x : reqData' = [reqData EXCEPT ![e] = x])
      BY <1>10, Zenon DEF Write
    <2>2. UNCHANGED <<srv, cli, conn, streamData, reading, printed>>
      BY <1>10 DEF Write
    <2> QED
      BY <2>1, <2>2, <1>1, <1>2 DEF SameBytes, ServerStaysDown
  <1>11. ASSUME NEW e \in {S(d), C(d)}, WriteEnd(e) PROVE SameBytes(c) /\ cli'[c] = cli[c] /\ ServerStaysDown
    <2>1. (\E x : reqData' = [reqData EXCEPT ![e] = x])
          /\ (\E x : streamData' = streamData \/ streamData' = [streamData EXCEPT ![e] = x])
          /\ (\E x : reading' = reading \/ reading' = [reading EXCEPT ![e] = x])
      BY <1>11, Zenon DEF WriteEnd, NrpcRead
    <2>2. UNCHANGED <<srv, cli, conn, net, printed>>
      BY <1>11 DEF WriteEnd
    <2>3. reqData'[S(c)] = reqData[S(c)] /\ reqData'[C(c)] = reqData[C(c)]
      BY <2>1, <1>1, <1>2
    <2>4. reading'[S(c)] = reading[S(c)] /\ reading'[C(c)] = reading[C(c)]
      BY <2>1, <1>1 DEF Typed
    <2>5. streamData'[S(c)] = streamData[S(c)] /\ streamData'[C(c)] = streamData[C(c)]
      BY <2>1, <1>1 DEF Typed
    <2> QED
      BY <2>2, <2>3, <2>4, <2>5 DEF SameBytes, ServerStaysDown
  <1> QED
    BY <1>4, <1>5, <1>6, <1>7, <1>8, <1>9, <1>10, <1>11 DEF StepOf

-----------------------------------------------------------------------------
(* Steps of a connection *)

\* What on_read gathers has the bytes of both.
LEMMA Gathered ==
    ASSUME NEW a \in Seq(Byte), NEW p \in Seq(Byte)
    PROVE  Gather(a, p) \in Seq(Byte) /\ Len(Gather(a, p)) = Len(a) + Len(p)
  BY ConcatProperties DEF Gather

\* Bytes gathered one after the other
LEMMA GatherAssociative ==
    ASSUME NEW a \in Seq(Byte), NEW b \in Seq(Byte), NEW p \in Seq(Byte)
    PROVE  Gather(Gather(a, b), p) = Gather(a, Gather(b, p))
  BY ConcatAssociative DEF Gather

\* Bytes that pass from one part of the connection to the next.
LEMMA Passed ==
    ASSUME NEW a \in Seq(Byte), NEW p \in Seq(Byte), NEW q \in Seq(Byte), NEW r \in Seq(Byte)
    PROVE  /\ Flow(Gather(a, p), q, r) = Flow(a, Gather(p, q), r)
           /\ Gather(Gather(a, p), Gather(q, r)) = Flow(a, Gather(p, q), r)
  <1>1. \A x, y, z : Flow(x, y, z) = Gather(Gather(x, y), z)
    BY DEF Flow, Gather
  <1>2. PICK ap \in Seq(Byte) : ap = Gather(a, p)
    BY Gathered
  <1>3. Gather(ap, q) = Gather(a, Gather(p, q))
    BY <1>2, GatherAssociative
  <1>4. Gather(Gather(ap, q), r) = Gather(ap, Gather(q, r))
    BY GatherAssociative
  <1> QED
    BY <1>1, <1>2, <1>3, <1>4

\* What the values of a connection are.
LEMMA Values ==
    ASSUME Typed, NEW c \in Clients, Contexts(c)
    PROVE  /\ streamData[S(c)] \in Seq(Seq(Byte)) /\ streamData[C(c)] \in Seq(Seq(Byte))
           /\ reqData[S(c)] \in Seq(Seq(Byte)) /\ reqData[C(c)] \in Seq(Seq(Byte))
           /\ net[S(c)] \in Seq(Byte) /\ net[C(c)] \in Seq(Byte)
           /\ Buffer(streamData[S(c)]) \in Seq(Byte) /\ Buffer(streamData[C(c)]) \in Seq(Byte)
           /\ Buffer(reqData[S(c)]) \in Seq(Byte) /\ Buffer(reqData[C(c)]) \in Seq(Byte)
  <1>1. /\ streamData[S(c)] \in Seq(Seq(Byte)) /\ streamData[C(c)] \in Seq(Seq(Byte))
        /\ reqData[S(c)] \in Seq(Seq(Byte)) /\ reqData[C(c)] \in Seq(Seq(Byte))
        /\ net[S(c)] \in Seq(Byte) /\ net[C(c)] \in Seq(Byte)
    BY EndsOf DEF Typed
  <1> QED
    BY <1>1, OneContext DEF Contexts

\* A server that reads has a context, over the connection's own data, and
\* has not got the whole request.
LEMMA ServerReads ==
    ASSUME Typed, NEW c \in Clients, Contexts(c), Phase(c), srv = "up", reading[S(c)]
    PROVE  /\ streamData[S(c)] # <<>> /\ conn[c]
           /\ Buffer(streamData[S(c)]) = Head(streamData[S(c)])
           /\ Tail(streamData[S(c)]) = <<>>
           /\ Quiet(c) \/ Requesting(c)
  <1>1. streamData[S(c)] # <<>>
    BY DEF Contexts
  <1>2. Quiet(c) \/ Requesting(c)
    BY <1>1 DEF Phase, Answering, Answered
  <1>3. conn[c]
    BY <1>1, <1>2 DEF Quiet, Requesting, Waits
  <1> QED
    BY <1>1, <1>2, <1>3, Values, OneContext DEF Contexts

\* A client that reads has a context and has not got the whole answer.
LEMMA ClientReads ==
    ASSUME Typed, NEW c \in Clients, Contexts(c), Phase(c), cli[c] = "up", reading[C(c)]
    PROVE  /\ streamData[C(c)] # <<>> /\ reqData[C(c)] = <<>>
           /\ Buffer(streamData[C(c)]) = Head(streamData[C(c)])
           /\ Tail(streamData[C(c)]) = <<>>
           /\ Requesting(c) \/ Answering(c)
  <1>1. streamData[C(c)] # <<>> /\ reqData[C(c)] = <<>>
    BY DEF Contexts
  <1>2. Requesting(c) \/ Answering(c)
    BY <1>1 DEF Phase, Quiet, Answered
  <1> QED
    BY <1>1, <1>2, Values, OneContext DEF Contexts

\* What is known when n bytes of s were read, a having arrived before, r being
\* still at the writer, and m the message on its way.
AfterRead(a, s, r, n, m) ==
    /\ Taken(s, n) \in Seq(Byte) /\ Len(Taken(s, n)) = n /\ Left(s, n) \in Seq(Byte)
    /\ Gather(a, Taken(s, n)) \in Seq(Byte)
    /\ Flow(Gather(a, Taken(s, n)), Left(s, n), r) = m
    /\ MoreToRead(Gather(a, Taken(s, n)), n) => Len(Gather(a, Taken(s, n))) < Len(m)
    /\ ~MoreToRead(Gather(a, Taken(s, n)), n) =>
          /\ Complete(Gather(a, Taken(s, n))) /\ Gather(a, Taken(s, n)) = m
          /\ Left(s, n) = <<>> /\ r = <<>>

\* A read takes the next bytes of a framed message.
LEMMA ReadsFramed ==
    ASSUME NEW body \in Seq(Byte), Fits(LenSz + Len(body)),
           NEW a \in Seq(Byte), NEW s \in Seq(Byte), NEW r \in Seq(Byte), NEW n \in 1 .. Len(s),
           Flow(a, s, r) = Framed(Message(body))
    PROVE  AfterRead(a, s, r, n, Framed(Message(body)))
  <1>1. PICK p \in Seq(Byte), q \in Seq(Byte) :
           p = Taken(s, n) /\ q = Left(s, n) /\ Len(p) = n /\ Gather(p, q) = s
    BY Cut
  <1>2. n \in Nat /\ n > 0
    OBVIOUS
  <1>3. PICK b \in Seq(Byte), rest \in Seq(Byte) :
           b = Gather(a, p) /\ rest = Gather(q, r) /\ Len(rest) = Len(q) + Len(r)
    BY Gathered
  <1>4. b = Gather(a, Taken(s, n))
    BY <1>1, <1>3
  <1>5. Gather(b, rest) = Framed(Message(body)) /\ Flow(b, q, r) = Framed(Message(body))
    BY <1>1, <1>3, Passed
  <1>6. PICK F : F = Framed(Message(body))
    OBVIOUS
  <1>7. /\ Len(b) <= Len(F)
        /\ \A k \in Nat : MoreToRead(b, k) <=> k > 0 /\ Len(b) < Len(F)
        /\ Complete(b) <=> Len(b) = Len(F)
        /\ Complete(b) => b = F /\ rest = <<>>
    BY <1>5, <1>6, PartOfFramed
  <1>8. F \in Seq(Byte)
    BY <1>6, FramedFacts
  <1>9. /\ MoreToRead(b, n) => Len(b) < Len(F)
        /\ ~MoreToRead(b, n) => Complete(b) /\ b = F /\ rest = <<>>
    BY <1>2, <1>7, <1>8
  <1>10. rest = <<>> => q = <<>> /\ r = <<>>
    <2>1. Len(rest) = Len(q) + Len(r) /\ Len(q) \in Nat /\ Len(r) \in Nat
      BY <1>3
    <2>2. rest = <<>> => Len(q) = 0 /\ Len(r) = 0
      BY <2>1
    <2> QED
      BY <2>2, EmptySeq
  <1> QED
    BY <1>1, <1>4, <1>5, <1>6, <1>9, <1>10, Zenon DEF AfterRead

\* What the server makes of the request it got.
LEMMA AnswerToRequest ==
    ASSUME NEW c \in Clients
    PROVE  LET msg == Message(Greeting(RequestName(Received(Request(c)))))
           IN  SetFirstWord(msg, Len(msg)) = Answer(c)
  <1>1. Name[c] \in Seq(Byte) /\ Fits(1)
    BY Bodies
  <1>2. Received(Request(c)) = Message(Name[c])
    BY <1>1, FramedFacts DEF Request
  <1>3. /\ \A i \in 1 .. LenSz : Message(Name[c])[i] = Encode(1)[i]
        /\ SubSeq(Message(Name[c]), LenSz + 1, Len(Message(Name[c]))) = Name[c]
    BY <1>1, MessageFacts
  <1>4. 1 \in Nat
    OBVIOUS
  <1>5. Decode(Message(Name[c])) = 1
    BY <1>1, <1>3, <1>4, DecodeEncoded
  <1>6. RequestName(Message(Name[c])) = Name[c]
    BY <1>3, <1>5 DEF RequestName
  <1> QED
    BY <1>2, <1>6 DEF Answer, Framed

\* Bytes of the request arrive: on_read keeps them, or has all of them and the
\* answer replaces the request.
LEMMA ServerDeliver ==
    ASSUME Typed, NEW d \in Clients, Contexts(d), Phase(d), Deliver(S(d))
    PROVE  Typed' /\ Contexts(d)' /\ Phase(d)'
  <1>1. srv = "up" /\ reading[S(d)] /\ conn' = conn
    BY AliveEnds DEF Deliver
  <1>2. PICK n \in 1 .. Len(net[S(d)]) :
           /\ net' = [net EXCEPT ![S(d)] = Left(@, n)]
           /\ OnRead(S(d), Taken(net[S(d)], n))
    BY DEF Deliver, Taken, Left
  <1>3. /\ streamData[S(d)] # <<>> /\ conn[d]
        /\ Buffer(streamData[S(d)]) = Head(streamData[S(d)]) /\ Tail(streamData[S(d)]) = <<>>
        /\ Quiet(d) \/ Requesting(d)
    BY <1>1, ServerReads
  <1>4. /\ net[S(d)] \in Seq(Byte) /\ Buffer(streamData[S(d)]) \in Seq(Byte)
        /\ Buffer(reqData[C(d)]) \in Seq(Byte)
    BY Values
  <1>5. Requesting(d)
    <2>1. net[S(d)] # <<>>
      BY <1>2
    <2> QED
      BY <1>3, <2>1 DEF Quiet
  <1>6. /\ Buffer(streamData[C(d)]) = <<>> /\ reqData[S(d)] = <<>> /\ net[C(d)] = <<>>
        /\ printed[d] = <<>> /\ cli[d] # "connecting"
    BY <1>5 DEF Requesting
  <1>7. Flow(Buffer(streamData[S(d)]), net[S(d)], Buffer(reqData[C(d)])) = Request(d)
    BY <1>1, <1>5, EndsOf DEF Requesting, InTransit, Flow
  <1>8. PICK b \in Seq(Byte) :
           /\ b = Gather(Head(streamData[S(d)]), Taken(net[S(d)], n))
           /\ Len(Taken(net[S(d)], n)) = n /\ Left(net[S(d)], n) \in Seq(Byte)
           /\ Flow(b, Left(net[S(d)], n), Buffer(reqData[C(d)])) = Request(d)
           /\ MoreToRead(b, n) => Len(b) < Len(Request(d))
           /\ ~MoreToRead(b, n) =>
                 /\ Complete(b) /\ b = Request(d)
                 /\ Left(net[S(d)], n) = <<>> /\ Buffer(reqData[C(d)]) = <<>>
    <2>1. PICK body \in Seq(Byte), a \in Seq(Byte), s \in Seq(Byte), r \in Seq(Byte) :
             /\ a = Head(streamData[S(d)]) /\ s = net[S(d)] /\ r = Buffer(reqData[C(d)])
             /\ n \in 1 .. Len(s) /\ Fits(LenSz + Len(body))
             /\ Request(d) = Framed(Message(body)) /\ Flow(a, s, r) = Framed(Message(body))
      BY <1>3, <1>4, <1>7, Bodies DEF Request
    <2>2. AfterRead(a, s, r, n, Framed(Message(body)))
      BY <2>1, ReadsFramed, Zenon
    <2> QED
      BY <2>1, <2>2, Zenon DEF AfterRead
  <1>9. /\ Len(Taken(net[S(d)], n)) = n /\ Left(net[S(d)], n) \in Seq(Byte)
        /\ Flow(b, Left(net[S(d)], n), Buffer(reqData[C(d)])) = Request(d)
        /\ MoreToRead(b, n) => Len(b) < Len(Request(d))
        /\ ~MoreToRead(b, n) =>
              /\ Complete(b) /\ b = Request(d)
              /\ Left(net[S(d)], n) = <<>> /\ Buffer(reqData[C(d)]) = <<>>
    BY <1>8, Zenon
  <1>10. /\ S(d) \in Ends /\ C(d) \in Ends /\ S(d) # C(d) /\ S(d)[2] = "server"
         /\ Peer(S(d)) = C(d) /\ Peer(C(d)) = S(d)
    BY EndsOf
  <1>11. /\ net'[S(d)] = Left(net[S(d)], n) /\ net'[C(d)] = net[C(d)]
         /\ net' \in [Ends -> Seq(Byte)]
    BY <1>2, <1>9, <1>10 DEF Typed
  <1>12. CASE MoreToRead(b, n)
    <2>1. /\ streamData' = [streamData EXCEPT ![S(d)] = <<b>> \o Tail(@)]
          /\ full' = [full EXCEPT ![S(d)] = n = BufferLen]
          /\ UNCHANGED <<srv, cli, reading, reqData, printed>>
      BY <1>2, <1>8, <1>9, <1>12 DEF OnRead
    <2>2. <<b>> \o Tail(streamData[S(d)]) = <<b>> /\ <<b>> \in Seq(Seq(Byte))
          /\ Len(<<b>>) = 1 /\ <<b>> # <<>> /\ Buffer(<<b>>) = b
      BY <1>3, NewContext
    <2>3. /\ streamData'[S(d)] = <<b>> /\ streamData'[C(d)] = streamData[C(d)]
          /\ streamData' \in [Ends -> Seq(Seq(Byte))]
      <3>1. streamData' = [streamData EXCEPT ![S(d)] = <<b>>]
        BY <2>1, <2>2, Zenon
      <3> QED
        BY <3>1, <2>2, <1>10 DEF Typed
    <2>4. full' \in [Ends -> BOOLEAN]
      BY <2>1, <1>10 DEF Typed
    <2>5. Typed'
      BY <2>1, <2>3, <2>4, <1>1, <1>11 DEF Typed
    <2>6. Contexts(d)'
      BY <2>1, <2>2, <2>3, <1>3 DEF Contexts
    <2>7. Requesting(d)'
      BY <2>1, <2>2, <2>3, <1>1, <1>3, <1>6, <1>9, <1>10, <1>11, <1>12
         DEF Requesting, Waits, InTransit, Flow
    <2> QED
      BY <2>5, <2>6, <2>7 DEF Phase
  <1>13. CASE ~MoreToRead(b, n)
    <2>1. /\ streamData' = [streamData EXCEPT ![S(d)] = Tail(@)]
          /\ reading' = [reading EXCEPT ![S(d)] = FALSE]
          /\ full' = [full EXCEPT ![S(d)] = FALSE]
          /\ ReadDone(S(d), TRUE, Received(Request(d)))
      BY <1>2, <1>8, <1>9, <1>13 DEF OnRead
    <2>2. /\ reqData' = [reqData EXCEPT ![S(d)] = <<Answer(d)>> \o @]
          /\ UNCHANGED <<srv, cli, printed>>
      BY <2>1, <1>10, AnswerToRequest DEF ReadDone, ServerOnRead, NrpcWrite
    <2>3. /\ <<Answer(d)>> \o <<>> = <<Answer(d)>> /\ <<Answer(d)>> \in Seq(Seq(Byte))
          /\ Len(<<Answer(d)>>) = 1 /\ Buffer(<<Answer(d)>>) = Answer(d)
      BY Bodies, NewContext
    <2>4. /\ reqData'[S(d)] = <<Answer(d)>> /\ reqData'[C(d)] = reqData[C(d)]
          /\ reqData' \in [Ends -> Seq(Seq(Byte))]
      <3>1. reqData' = [reqData EXCEPT ![S(d)] = <<Answer(d)>>]
        BY <2>2, <2>3, <1>6, Zenon
      <3> QED
        BY <3>1, <2>3, <1>10 DEF Typed
    <2>5. /\ streamData'[S(d)] = <<>> /\ streamData'[C(d)] = streamData[C(d)]
          /\ streamData' \in [Ends -> Seq(Seq(Byte))]
          /\ reading'[S(d)] = FALSE /\ reading'[C(d)] = reading[C(d)]
          /\ reading' \in [Ends -> BOOLEAN] /\ full' \in [Ends -> BOOLEAN]
      BY <2>1, <1>3, <1>10, NoBytes DEF Typed
    <2>6. Typed'
      BY <2>2, <2>4, <2>5, <1>1, <1>11 DEF Typed
    <2>7. Contexts(d)'
      <3>1. Len(<<>>) <= 1 /\ Len(<<Answer(d)>>) <= 1
        BY <2>3, NoBytes
      <3> QED
        BY <3>1, <2>2, <2>4, <2>5, Zenon DEF Contexts
    <2>8. Answering(d)'
      <3>1. (<<>> \o <<>>) \o Answer(d) = Answer(d)
        BY Bodies, NoBytes, ConcatEmptySeq
      <3>2. InTransit(C(d))' = Answer(d) /\ Buffer(streamData'[C(d)]) = <<>>
        BY <3>1, <2>3, <2>4, <2>5, <1>6, <1>10, <1>11 DEF InTransit
      <3> QED
        BY <3>2, <2>2, <2>4, <2>5, <1>1, <1>3, <1>6, <1>9, <1>11, <1>13, Bodies, NoBytes DEF Answering
    <2> QED
      BY <2>6, <2>7, <2>8 DEF Phase
  <1> QED
    BY <1>12, <1>13

\* Bytes of the answer arrive: on_read keeps them, or has all of them and the
\* client prints the answer.
LEMMA ClientDeliver ==
    ASSUME Typed, NEW d \in Clients, Contexts(d), Phase(d), Deliver(C(d))
    PROVE  Typed' /\ Contexts(d)' /\ Phase(d)'
  <1>1. cli[d] = "up" /\ reading[C(d)] /\ conn' = conn
    BY AliveEnds DEF Deliver
  <1>2. PICK n \in 1 .. Len(net[C(d)]) :
           /\ net' = [net EXCEPT ![C(d)] = Left(@, n)]
           /\ OnRead(C(d), Taken(net[C(d)], n))
    BY DEF Deliver, Taken, Left
  <1>3. /\ streamData[C(d)] # <<>> /\ reqData[C(d)] = <<>>
        /\ Buffer(streamData[C(d)]) = Head(streamData[C(d)]) /\ Tail(streamData[C(d)]) = <<>>
        /\ Requesting(d) \/ Answering(d)
    BY <1>1, ClientReads
  <1>4. /\ net[C(d)] \in Seq(Byte) /\ Buffer(streamData[C(d)]) \in Seq(Byte)
        /\ Buffer(reqData[S(d)]) \in Seq(Byte)
    BY Values
  <1>5. Answering(d)
    <2>1. net[C(d)] # <<>>
      BY <1>2
    <2> QED
      BY <1>3, <2>1 DEF Requesting
  <1>6. /\ streamData[S(d)] = <<>> /\ net[S(d)] = <<>> /\ Buffer(reqData[C(d)]) = <<>>
        /\ printed[d] = <<>> /\ conn[d]
    BY <1>5 DEF Answering
  <1>7. Flow(Buffer(streamData[C(d)]), net[C(d)], Buffer(reqData[S(d)])) = Answer(d)
    BY <1>1, <1>5, EndsOf DEF Answering, InTransit, Flow
  <1>8. PICK b \in Seq(Byte) :
           /\ b = Gather(Head(streamData[C(d)]), Taken(net[C(d)], n))
           /\ Len(Taken(net[C(d)], n)) = n /\ Left(net[C(d)], n) \in Seq(Byte)
           /\ Flow(b, Left(net[C(d)], n), Buffer(reqData[S(d)])) = Answer(d)
           /\ MoreToRead(b, n) => Len(b) < Len(Answer(d))
           /\ ~MoreToRead(b, n) => Complete(b) /\ b = Answer(d)
    <2>1. PICK body \in Seq(Byte), a \in Seq(Byte), s \in Seq(Byte), r \in Seq(Byte) :
             /\ a = Head(streamData[C(d)]) /\ s = net[C(d)] /\ r = Buffer(reqData[S(d)])
             /\ n \in 1 .. Len(s) /\ Fits(LenSz + Len(body))
             /\ Answer(d) = Framed(Message(body)) /\ Flow(a, s, r) = Framed(Message(body))
      BY <1>3, <1>4, <1>7, Bodies DEF Answer
    <2>2. AfterRead(a, s, r, n, Framed(Message(body)))
      BY <2>1, ReadsFramed, Zenon
    <2> QED
      BY <2>1, <2>2, Zenon DEF AfterRead
  <1>9. /\ Len(Taken(net[C(d)], n)) = n /\ Left(net[C(d)], n) \in Seq(Byte)
        /\ Flow(b, Left(net[C(d)], n), Buffer(reqData[S(d)])) = Answer(d)
        /\ MoreToRead(b, n) => Len(b) < Len(Answer(d))
        /\ ~MoreToRead(b, n) => Complete(b) /\ b = Answer(d)
    BY <1>8, Zenon
  <1>10. /\ S(d) \in Ends /\ C(d) \in Ends /\ S(d) # C(d)
         /\ C(d)[1] = d /\ C(d)[2] = "client"
         /\ Peer(S(d)) = C(d) /\ Peer(C(d)) = S(d)
    BY EndsOf
  <1>11. /\ net'[C(d)] = Left(net[C(d)], n) /\ net'[S(d)] = net[S(d)]
         /\ net' \in [Ends -> Seq(Byte)]
    BY <1>2, <1>9, <1>10 DEF Typed
  <1>12. CASE MoreToRead(b, n)
    <2>1. /\ streamData' = [streamData EXCEPT ![C(d)] = <<b>> \o Tail(@)]
          /\ full' = [full EXCEPT ![C(d)] = n = BufferLen]
          /\ UNCHANGED <<srv, cli, reading, reqData, printed>>
      BY <1>2, <1>8, <1>9, <1>12 DEF OnRead
    <2>2. <<b>> \o Tail(streamData[C(d)]) = <<b>> /\ <<b>> \in Seq(Seq(Byte))
          /\ Len(<<b>>) = 1 /\ <<b>> # <<>> /\ Buffer(<<b>>) = b
      BY <1>3, NewContext
    <2>3. /\ streamData'[C(d)] = <<b>> /\ streamData'[S(d)] = streamData[S(d)]
          /\ streamData' \in [Ends -> Seq(Seq(Byte))]
      <3>1. streamData' = [streamData EXCEPT ![C(d)] = <<b>>]
        BY <2>1, <2>2, Zenon
      <3> QED
        BY <3>1, <2>2, <1>10 DEF Typed
    <2>4. full' \in [Ends -> BOOLEAN]
      BY <2>1, <1>10 DEF Typed
    <2>5. Typed'
      BY <2>1, <2>3, <2>4, <1>1, <1>11 DEF Typed
    <2>6. Contexts(d)'
      BY <2>1, <2>2, <2>3, <1>3 DEF Contexts
    <2>7. Answering(d)'
      BY <2>1, <2>2, <2>3, <1>1, <1>3, <1>6, <1>9, <1>10, <1>11, <1>12
         DEF Answering, InTransit, Flow
    <2> QED
      BY <2>5, <2>6, <2>7 DEF Phase
  <1>13. CASE ~MoreToRead(b, n)
    <2>1. /\ streamData' = [streamData EXCEPT ![C(d)] = Tail(@)]
          /\ reading' = [reading EXCEPT ![C(d)] = FALSE]
          /\ full' = [full EXCEPT ![C(d)] = FALSE]
          /\ ReadDone(C(d), TRUE, Received(Answer(d)))
      BY <1>2, <1>8, <1>9, <1>13 DEF OnRead
    <2>2. /\ Received(Answer(d)) = Message(Greeting(Name[d]))
          /\ Message(Greeting(Name[d])) \in Seq(Byte)
      BY Bodies, FramedFacts, MessageFacts DEF Answer
    <2>3. /\ cli' = [cli EXCEPT ![d] = "done"]
          /\ printed' = [printed EXCEPT ![d] = Message(Greeting(Name[d]))]
          /\ UNCHANGED <<srv, reqData>>
      BY <2>1, <2>2, <1>10 DEF ReadDone, ClientOnRead
    <2>4. /\ cli'[d] = "done" /\ printed'[d] = Message(Greeting(Name[d]))
          /\ cli' \in [Clients -> {"connecting", "up", "done", "dead", "undefined"}]
          /\ printed' \in [Clients -> Seq(Byte)]
      BY <2>2, <2>3 DEF Typed
    <2>5. /\ streamData'[C(d)] = <<>> /\ streamData'[S(d)] = streamData[S(d)]
          /\ streamData' \in [Ends -> Seq(Seq(Byte))]
          /\ reading'[S(d)] = reading[S(d)]
          /\ reading' \in [Ends -> BOOLEAN] /\ full' \in [Ends -> BOOLEAN]
      BY <2>1, <1>3, <1>10, NoBytes DEF Typed
    <2>6. Typed'
      BY <2>3, <2>4, <2>5, <1>1, <1>11 DEF Typed
    <2>7. Contexts(d)'
      <3>1. Len(<<>>) <= 1
        BY NoBytes
      <3>2. cli'[d] # "up"
        BY <2>4
      <3> QED
        BY <3>1, <3>2, <2>3, <2>5, Zenon DEF Contexts
    <2>8. Answered(d)'
      BY <2>3, <2>4, <2>5, <1>1, <1>6 DEF Answered
    <2> QED
      BY <2>6, <2>7, <2>8 DEF Phase
  <1> QED
    BY <1>12, <1>13

\* A buffer that does not hold the whole message is not complete.
LEMMA NotComplete ==
    ASSUME Typed, NEW c \in Clients, Contexts(c)
    PROVE  /\ Buffer(streamData[S(c)]) = <<>> => ~Complete(Buffer(streamData[S(c)]))
           /\ Buffer(streamData[C(c)]) = <<>> => ~Complete(Buffer(streamData[C(c)]))
           /\ Requesting(c) /\ srv = "up" => ~Complete(Buffer(streamData[S(c)]))
           /\ Answering(c) /\ cli[c] = "up" => ~Complete(Buffer(streamData[C(c)]))
  <1>1. ~Complete(<<>>)
    <2>1. Len(<<>>) = 0 /\ LenSz \in Nat /\ LenSz > 0
      BY RpcAssumption
    <2> QED
      BY <2>1 DEF Complete, MsgLen
  <1>2. ASSUME NEW a \in Seq(Byte), NEW b \in Seq(Byte), NEW r \in Seq(Byte),
               NEW body \in Seq(Byte), Fits(LenSz + Len(body)),
               Flow(a, b, r) = Framed(Message(body)), Len(a) < Len(Framed(Message(body)))
        PROVE  ~Complete(a)
    <2>1. PICK rest \in Seq(Byte) : rest = Gather(b, r)
      BY Gathered
    <2>2. Gather(a, rest) = Framed(Message(body))
      <3>1. Gather(Gather(a, b), r) = Gather(a, Gather(b, r))
        BY GatherAssociative
      <3> QED
        BY <1>2, <2>1, <3>1, Zenon DEF Flow, Gather
    <2>3. Complete(a) <=> Len(a) = Len(Framed(Message(body)))
      BY <1>2, <2>2, PartOfFramed
    <2>4. Framed(Message(body)) \in Seq(Byte)
      BY FramedFacts
    <2> QED
      BY <1>2, <2>3, <2>4
  <1>3. Requesting(c) /\ srv = "up" => ~Complete(Buffer(streamData[S(c)]))
    <2> HAVE Requesting(c) /\ srv = "up"
    <2>1. /\ Flow(Buffer(streamData[S(c)]), net[S(c)], Buffer(reqData[C(c)])) = Request(c)
          /\ Len(Buffer(streamData[S(c)])) < Len(Request(c))
      BY EndsOf DEF Requesting, InTransit, Flow
    <2> QED
      BY <2>1, <1>2, Values, Bodies DEF Request
  <1>4. Answering(c) /\ cli[c] = "up" => ~Complete(Buffer(streamData[C(c)]))
    <2> HAVE Answering(c) /\ cli[c] = "up"
    <2>1. /\ Flow(Buffer(streamData[C(c)]), net[C(c)], Buffer(reqData[S(c)])) = Answer(c)
          /\ Len(Buffer(streamData[C(c)])) < Len(Answer(c))
      BY EndsOf DEF Answering, InTransit, Flow
    <2> QED
      BY <2>1, <1>2, Values, Bodies DEF Answer
  <1> QED
    BY <1>1, <1>3, <1>4, Zenon

\* The read that finds nothing ends the process, and never with an answer.
LEMMA ServerZeroRead ==
    ASSUME Typed, NEW d \in Clients, Contexts(d), Phase(d), ZeroRead(S(d))
    PROVE  Typed' /\ Contexts(d)' /\ Phase(d)'
  <1>1. srv = "up" /\ reading[S(d)] /\ UNCHANGED <<conn, net>> /\ OnRead(S(d), <<>>)
    BY AliveEnds DEF ZeroRead
  <1>2. /\ streamData[S(d)] # <<>> /\ conn[d]
        /\ Buffer(streamData[S(d)]) = Head(streamData[S(d)]) /\ Tail(streamData[S(d)]) = <<>>
        /\ Quiet(d) \/ Requesting(d)
    BY <1>1, ServerReads
  <1>3. PICK b : b = Buffer(streamData[S(d)]) /\ b = Gather(Head(streamData[S(d)]), <<>>)
    BY <1>2, Values, ConcatEmptySeq DEF Gather
  <1>4. ~Complete(b) /\ ~MoreToRead(b, 0)
    BY <1>1, <1>2, <1>3, NotComplete DEF Quiet, MoreToRead
  <1>5. /\ streamData' = [streamData EXCEPT ![S(d)] = Tail(@)]
        /\ reading' = [reading EXCEPT ![S(d)] = TRUE]
        /\ full' = [full EXCEPT ![S(d)] = FALSE]
        /\ ReadDone(S(d), FALSE, Received(b))
    <2>1. ~MoreToRead(b, Len(<<>>))
      BY <1>4, NoBytes
    <2>2. /\ streamData' = [streamData EXCEPT ![S(d)] = Tail(@)]
          /\ reading' = [reading EXCEPT ![S(d)] = ~Complete(b)]
          /\ full' = [full EXCEPT ![S(d)] = FALSE]
          /\ ReadDone(S(d), Complete(b), Received(b))
      BY <1>1, <1>3, <2>1, Zenon DEF OnRead
    <2>3. Complete(b) = FALSE /\ (~Complete(b)) = TRUE
      BY <1>4 DEF Complete
    <2> QED
      BY <2>2, <2>3, Zenon
  <1>6. /\ S(d) \in Ends /\ C(d) \in Ends /\ S(d) # C(d) /\ S(d)[2] = "server"
    BY EndsOf
  <1>7. srv' = "dead" /\ UNCHANGED <<cli, reqData, printed>>
    BY <1>5, <1>6 DEF ReadDone, ServerOnRead
  <1>8. /\ streamData'[S(d)] = <<>> /\ streamData'[C(d)] = streamData[C(d)]
        /\ streamData' \in [Ends -> Seq(Seq(Byte))] /\ reading'[C(d)] = reading[C(d)]
        /\ reading' \in [Ends -> BOOLEAN] /\ full' \in [Ends -> BOOLEAN]
    BY <1>2, <1>5, <1>6, NoBytes DEF Typed
  <1>9. Typed'
    BY <1>1, <1>7, <1>8 DEF Typed
  <1>10. Contexts(d)'
    <2>1. Len(<<>>) <= 1
      BY NoBytes
    <2>2. srv' # "up"
      BY <1>7
    <2> QED
      BY <2>1, <2>2, <1>7, <1>8, Zenon DEF Contexts
  <1>11. CASE Quiet(d)
    <2>1. Quiet(d)'
      BY <1>1, <1>7, <1>8, <1>11, NoBytes DEF Quiet, Waits
    <2> QED
      BY <2>1, <1>9, <1>10 DEF Phase
  <1>12. CASE Requesting(d)
    <2>1. Requesting(d)'
      BY <1>1, <1>7, <1>8, <1>12 DEF Requesting, Waits
    <2> QED
      BY <2>1, <1>9, <1>10 DEF Phase
  <1> QED
    BY <1>2, <1>11, <1>12

\* The same for the client.
LEMMA ClientZeroRead ==
    ASSUME Typed, NEW d \in Clients, Contexts(d), Phase(d), ZeroRead(C(d))
    PROVE  Typed' /\ Contexts(d)' /\ Phase(d)'
  <1>1. cli[d] = "up" /\ reading[C(d)] /\ UNCHANGED <<conn, net>> /\ OnRead(C(d), <<>>)
    BY AliveEnds DEF ZeroRead
  <1>2. /\ streamData[C(d)] # <<>> /\ reqData[C(d)] = <<>>
        /\ Buffer(streamData[C(d)]) = Head(streamData[C(d)]) /\ Tail(streamData[C(d)]) = <<>>
        /\ Requesting(d) \/ Answering(d)
    BY <1>1, ClientReads
  <1>3. PICK b : b = Buffer(streamData[C(d)]) /\ b = Gather(Head(streamData[C(d)]), <<>>)
    BY <1>2, Values, ConcatEmptySeq DEF Gather
  <1>4. ~Complete(b) /\ ~MoreToRead(b, 0)
    BY <1>1, <1>2, <1>3, NotComplete DEF Requesting, MoreToRead
  <1>5. /\ streamData' = [streamData EXCEPT ![C(d)] = Tail(@)]
        /\ reading' = [reading EXCEPT ![C(d)] = TRUE]
        /\ full' = [full EXCEPT ![C(d)] = FALSE]
        /\ ReadDone(C(d), FALSE, Received(b))
    <2>1. ~MoreToRead(b, Len(<<>>))
      BY <1>4, NoBytes
    <2>2. /\ streamData' = [streamData EXCEPT ![C(d)] = Tail(@)]
          /\ reading' = [reading EXCEPT ![C(d)] = ~Complete(b)]
          /\ full' = [full EXCEPT ![C(d)] = FALSE]
          /\ ReadDone(C(d), Complete(b), Received(b))
      BY <1>1, <1>3, <2>1, Zenon DEF OnRead
    <2>3. Complete(b) = FALSE /\ (~Complete(b)) = TRUE
      BY <1>4 DEF Complete
    <2> QED
      BY <2>2, <2>3, Zenon
  <1>6. /\ S(d) \in Ends /\ C(d) \in Ends /\ S(d) # C(d) /\ C(d)[1] = d /\ C(d)[2] = "client"
    BY EndsOf
  <1>7. /\ cli' = [cli EXCEPT ![d] = "dead"]
        /\ printed' = [printed EXCEPT ![d] = printed[d]]
        /\ UNCHANGED <<srv, reqData>>
    BY <1>5, <1>6 DEF ReadDone, ClientOnRead
  <1>8. /\ cli'[d] = "dead"
        /\ cli' \in [Clients -> {"connecting", "up", "done", "dead", "undefined"}]
        /\ printed' = printed
    BY <1>7 DEF Typed
  <1>9. /\ streamData'[C(d)] = <<>> /\ streamData'[S(d)] = streamData[S(d)]
        /\ streamData' \in [Ends -> Seq(Seq(Byte))] /\ reading'[S(d)] = reading[S(d)]
        /\ reading' \in [Ends -> BOOLEAN] /\ full' \in [Ends -> BOOLEAN]
    BY <1>2, <1>5, <1>6, NoBytes DEF Typed
  <1>10. Typed'
    BY <1>1, <1>7, <1>8, <1>9 DEF Typed
  <1>11. Contexts(d)'
    <2>1. Len(<<>>) <= 1
      BY NoBytes
    <2>2. cli'[d] # "up"
      BY <1>8
    <2> QED
      BY <2>1, <2>2, <1>7, <1>9, Zenon DEF Contexts
  <1>12. CASE Requesting(d)
    <2>1. Requesting(d)'
      BY <1>1, <1>7, <1>8, <1>9, <1>12, EndsOf, NoBytes DEF Requesting, Waits, InTransit
    <2> QED
      BY <2>1, <1>10, <1>11 DEF Phase
  <1>13. CASE Answering(d)
    <2>1. Answering(d)'
      BY <1>1, <1>7, <1>8, <1>9, <1>13 DEF Answering
    <2> QED
      BY <2>1, <1>10, <1>11 DEF Phase
  <1> QED
    BY <1>2, <1>12, <1>13

\* The steps that end one of the two processes and touch nothing else.
LEMMA ProcessEnds ==
    ASSUME Typed, NEW d \in Clients, Contexts(d), Phase(d),
           NEW e \in {S(d), C(d)}, EndOfFile(e) \/ WriteFails(e)
    PROVE  Typed' /\ Contexts(d)' /\ Phase(d)'
  <1>1. /\ S(d) \in Ends /\ C(d) \in Ends /\ S(d) # C(d) /\ C(d)[1] = d /\ C(d)[2] = "client"
        /\ S(d)[2] = "server" /\ (e = S(d) \/ e = C(d))
    BY EndsOf
  <1>2. UNCHANGED <<conn, streamData, full, reqData, net, printed>>
    BY DEF EndOfFile, WriteFails
  <1>3. reading' = reading \/ reading' = [reading EXCEPT ![e] = FALSE]
    BY DEF EndOfFile, WriteFails
  <1>4. reading' \in [Ends -> BOOLEAN]
    BY <1>3 DEF Typed
  <1>5. CASE e = S(d)
    <2>1. /\ srv' = "dead" \/ srv' = "undefined"
          /\ cli' = cli
      BY <1>1, <1>5 DEF EndOfFile, WriteFails
    <2>2. Typed'
      BY <2>1, <1>2, <1>4 DEF Typed
    <2>3. reading'[C(d)] = reading[C(d)]
      BY <1>1, <1>3, <1>5 DEF Typed
    <2>4. srv' # "up"
      BY <2>1
    <2>5. Contexts(d)'
      BY <2>1, <2>3, <2>4, <1>2, Zenon DEF Contexts
    <2>6. Phase(d)'
      <3>1. CASE Quiet(d)
        BY <3>1, <2>1, <2>3, <2>4, <1>2 DEF Phase, Quiet, Waits
      <3>2. CASE Requesting(d)
        BY <3>2, <2>1, <2>4, <1>2 DEF Phase, Requesting, Waits
      <3>3. CASE Answering(d)
        BY <3>3, <2>1, <1>2 DEF Phase, Answering, InTransit
      <3>4. CASE Answered(d)
        BY <3>4, <2>1, <1>2 DEF Phase, Answered
      <3> QED
        BY <3>1, <3>2, <3>3, <3>4 DEF Phase
    <2> QED
      BY <2>2, <2>5, <2>6
  <1>6. CASE e = C(d)
    <2>1. /\ cli[d] = "up" /\ srv' = srv
          /\ cli' = [cli EXCEPT ![d] = "dead"] \/ cli' = [cli EXCEPT ![d] = "undefined"]
      BY <1>1, <1>6, AliveEnds DEF EndOfFile, WriteFails
    <2>2. /\ cli'[d] \notin {"connecting", "up"}
          /\ cli' \in [Clients -> {"connecting", "up", "done", "dead", "undefined"}]
      BY <2>1 DEF Typed
    <2>3. Typed'
      BY <2>1, <2>2, <1>2, <1>4 DEF Typed
    <2>4. reading'[S(d)] = reading[S(d)]
      BY <1>1, <1>3, <1>6 DEF Typed
    <2>5. cli'[d] # "up" /\ cli'[d] # "connecting"
      BY <2>2
    <2>6. Contexts(d)'
      BY <2>1, <2>4, <2>5, <1>2, Zenon DEF Contexts
    <2>7. Phase(d)'
      <3>1. CASE Requesting(d)
        BY <3>1, <2>1, <2>5, <1>2 DEF Phase, Requesting, Waits, InTransit
      <3>2. CASE Answering(d)
        BY <3>2, <2>1, <2>5, <1>2 DEF Phase, Answering
      <3> QED
        BY <2>1, <3>1, <3>2 DEF Phase, Quiet, Answered
    <2> QED
      BY <2>3, <2>6, <2>7
  <1> QED
    BY <1>1, <1>5, <1>6

\* The order of the bytes does not depend on where they are.
LEMMA FlowAssociative ==
    ASSUME NEW a \in Seq(Byte), NEW b \in Seq(Byte), NEW p \in Seq(Byte), NEW q \in Seq(Byte)
    PROVE  Flow(a, Gather(b, p), q) = Flow(a, b, Gather(p, q))
  <1>1. \A x, y, z : Flow(x, y, z) = Gather(Gather(x, y), z)
    BY DEF Flow, Gather
  <1>2. PICK bp \in Seq(Byte) : bp = Gather(b, p)
    BY Gathered
  <1>3. PICK pq \in Seq(Byte) : pq = Gather(p, q)
    BY Gathered
  <1>4. Gather(Gather(a, bp), q) = Gather(a, Gather(bp, q))
    BY GatherAssociative
  <1>5. Gather(bp, q) = Gather(b, pq)
    BY <1>2, <1>3, GatherAssociative
  <1>6. Gather(Gather(a, b), pq) = Gather(a, Gather(b, pq))
    BY GatherAssociative
  <1> QED
    BY <1>1, <1>2, <1>3, <1>4, <1>5, <1>6

\* Written bytes are on their way: the flow from one end to the other stays.
LEMMA WritePasses ==
    ASSUME NEW a \in Seq(Byte), NEW b \in Seq(Byte), NEW r \in Seq(Byte), NEW n \in 1 .. Len(r)
    PROVE  /\ Flow(a, Gather(b, Taken(r, n)), Left(r, n)) = Flow(a, b, r)
           /\ Gather(b, Taken(r, n)) \in Seq(Byte) /\ Left(r, n) \in Seq(Byte)
  <1>1. PICK p \in Seq(Byte), q \in Seq(Byte) :
           p = Taken(r, n) /\ q = Left(r, n) /\ Gather(p, q) = r
    BY Cut
  <1>2. Gather(b, p) \in Seq(Byte)
    BY Gathered
  <1>3. Flow(a, Gather(b, p), q) = Flow(a, b, r)
    BY <1>1, FlowAssociative
  <1> QED
    BY <1>1, <1>2, <1>3

\* The system takes bytes of the answer.
LEMMA ServerWrite ==
    ASSUME Typed, NEW d \in Clients, Contexts(d), Phase(d), Write(S(d))
    PROVE  Typed' /\ Contexts(d)' /\ Phase(d)'
  <1>1. /\ S(d) \in Ends /\ C(d) \in Ends /\ S(d) # C(d)
        /\ Peer(S(d)) = C(d) /\ Peer(C(d)) = S(d)
    BY EndsOf
  <1>2. /\ srv = "up" /\ reqData[S(d)] # <<>> /\ cli[d] \in {"connecting", "up"}
        /\ UNCHANGED <<srv, cli, conn, streamData, reading, full, printed>>
    BY <1>1, AliveEnds DEF Write
  <1>3. Buffer(reqData[S(d)]) = Head(reqData[S(d)]) /\ Tail(reqData[S(d)]) = <<>>
    BY <1>2, Values, OneContext DEF Contexts
  <1>4. PICK n \in 1 .. Len(Head(reqData[S(d)])) :
           /\ net' = [net EXCEPT ![C(d)] = @ \o SubSeq(Head(reqData[S(d)]), 1, n)]
           /\ reqData' = [reqData EXCEPT ![S(d)] =
                            <<SubSeq(Head(@), n + 1, Len(Head(@)))>> \o Tail(@)]
    BY <1>1 DEF Write
  <1>5. Answering(d)
    BY <1>2 DEF Phase, Quiet, Requesting, Answered
  <1>6. cli[d] = "up"
    BY <1>2, <1>5 DEF Answering
  <1>7. PICK r \in Seq(Byte) : r = Head(reqData[S(d)]) /\ n \in 1 .. Len(r)
    BY <1>3, Values
  <1>8. PICK x \in Seq(Byte), q \in Seq(Byte) : x = Gather(net[C(d)], Taken(r, n)) /\ q = Left(r, n)
    BY <1>7, Values, WritePasses
  <1>9. Flow(Buffer(streamData[C(d)]), x, q) = Flow(Buffer(streamData[C(d)]), net[C(d)], r)
    <2>1. PICK a \in Seq(Byte), b \in Seq(Byte) : a = Buffer(streamData[C(d)]) /\ b = net[C(d)]
      BY Values
    <2>2. Flow(a, Gather(b, Taken(r, n)), Left(r, n)) = Flow(a, b, r)
      BY <1>7, WritePasses
    <2> QED
      BY <1>8, <2>1, <2>2
  <1>10. net' = [net EXCEPT ![C(d)] = x]
    BY <1>4, <1>7, <1>8, Zenon DEF Gather, Taken
  <1>11. <<q>> \o <<>> = <<q>> /\ <<q>> \in Seq(Seq(Byte)) /\ Len(<<q>>) = 1 /\ Buffer(<<q>>) = q
    BY NewContext
  <1>12. reqData' = [reqData EXCEPT ![S(d)] = <<q>>]
    BY <1>3, <1>4, <1>7, <1>8, <1>11, Zenon DEF Left
  <1>13. /\ net'[C(d)] = x /\ net'[S(d)] = net[S(d)] /\ net' \in [Ends -> Seq(Byte)]
         /\ reqData'[S(d)] = <<q>> /\ reqData'[C(d)] = reqData[C(d)]
         /\ reqData' \in [Ends -> Seq(Seq(Byte))]
    BY <1>1, <1>10, <1>11, <1>12 DEF Typed
  <1>14. Typed'
    BY <1>2, <1>13 DEF Typed
  <1>15. Contexts(d)'
    BY <1>2, <1>11, <1>13 DEF Contexts
  <1>16. Answering(d)'
    <2>1. InTransit(C(d))' = Answer(d)
      <3>1. InTransit(C(d))' = Flow(Buffer(streamData[C(d)]), x, q)
        BY <1>1, <1>2, <1>11, <1>13 DEF InTransit, Flow
      <3>2. InTransit(C(d)) = Flow(Buffer(streamData[C(d)]), net[C(d)], r)
        BY <1>1, <1>3, <1>7 DEF InTransit, Flow
      <3> QED
        BY <3>1, <3>2, <1>5, <1>6, <1>9 DEF Answering
    <2> QED
      BY <2>1, <1>2, <1>5, <1>6, <1>13 DEF Answering
  <1> QED
    BY <1>14, <1>15, <1>16 DEF Phase

\* The system takes bytes of the request.
LEMMA ClientWrite ==
    ASSUME Typed, NEW d \in Clients, Contexts(d), Phase(d), Write(C(d))
    PROVE  Typed' /\ Contexts(d)' /\ Phase(d)'
  <1>1. /\ S(d) \in Ends /\ C(d) \in Ends /\ S(d) # C(d)
        /\ Peer(S(d)) = C(d) /\ Peer(C(d)) = S(d)
    BY EndsOf
  <1>2. /\ srv = "up" /\ reqData[C(d)] # <<>> /\ cli[d] = "up"
        /\ UNCHANGED <<srv, cli, conn, streamData, reading, full, printed>>
    BY <1>1, AliveEnds DEF Write
  <1>3. Buffer(reqData[C(d)]) = Head(reqData[C(d)]) /\ Tail(reqData[C(d)]) = <<>>
    BY <1>2, Values, OneContext DEF Contexts
  <1>4. PICK n \in 1 .. Len(Head(reqData[C(d)])) :
           /\ net' = [net EXCEPT ![S(d)] = @ \o SubSeq(Head(reqData[C(d)]), 1, n)]
           /\ reqData' = [reqData EXCEPT ![C(d)] =
                            <<SubSeq(Head(@), n + 1, Len(Head(@)))>> \o Tail(@)]
    BY <1>1 DEF Write
  <1>5. PICK r \in Seq(Byte) : r = Head(reqData[C(d)]) /\ n \in 1 .. Len(r)
    BY <1>3, Values
  <1>6. Requesting(d)
    <2>1. r # <<>>
      BY <1>5
    <2> QED
      BY <2>1, <1>2, <1>3, <1>5 DEF Phase, Quiet, Answering, Answered
  <1>8. PICK x \in Seq(Byte), q \in Seq(Byte) : x = Gather(net[S(d)], Taken(r, n)) /\ q = Left(r, n)
    BY <1>5, Values, WritePasses
  <1>9. Flow(Buffer(streamData[S(d)]), x, q) = Flow(Buffer(streamData[S(d)]), net[S(d)], r)
    <2>1. PICK a \in Seq(Byte), b \in Seq(Byte) : a = Buffer(streamData[S(d)]) /\ b = net[S(d)]
      BY Values
    <2>2. Flow(a, Gather(b, Taken(r, n)), Left(r, n)) = Flow(a, b, r)
      BY <1>5, WritePasses
    <2> QED
      BY <1>8, <2>1, <2>2
  <1>10. net' = [net EXCEPT ![S(d)] = x]
    BY <1>4, <1>5, <1>8, Zenon DEF Gather, Taken
  <1>11. /\ <<q>> \o <<>> = <<q>> /\ <<q>> \in Seq(Seq(Byte)) /\ Len(<<q>>) = 1
         /\ Buffer(<<q>>) = q
    BY NewContext
  <1>12. reqData' = [reqData EXCEPT ![C(d)] = <<q>>]
    BY <1>3, <1>4, <1>5, <1>8, <1>11, Zenon DEF Left
  <1>13. /\ net'[S(d)] = x /\ net'[C(d)] = net[C(d)] /\ net' \in [Ends -> Seq(Byte)]
         /\ reqData'[C(d)] = <<q>> /\ reqData'[S(d)] = reqData[S(d)]
         /\ reqData' \in [Ends -> Seq(Seq(Byte))]
    BY <1>1, <1>10, <1>11, <1>12 DEF Typed
  <1>14. Typed'
    BY <1>2, <1>13 DEF Typed
  <1>15. Contexts(d)'
    BY <1>2, <1>11, <1>13 DEF Contexts
  <1>16. Requesting(d)'
    <2>1. InTransit(S(d))' = Request(d)
      <3>1. InTransit(S(d))' = Flow(Buffer(streamData[S(d)]), x, q)
        BY <1>1, <1>2, <1>11, <1>13 DEF InTransit, Flow
      <3>2. InTransit(S(d)) = Flow(Buffer(streamData[S(d)]), net[S(d)], r)
        BY <1>1, <1>3, <1>5 DEF InTransit, Flow
      <3> QED
        BY <3>1, <3>2, <1>2, <1>6, <1>9 DEF Requesting
    <2> QED
      BY <2>1, <1>2, <1>6, <1>13 DEF Requesting, Waits
  <1> QED
    BY <1>14, <1>15, <1>16 DEF Phase

\* The end of a write puts the caller's data back; the client then reads.
LEMMA OwnWriteEnd ==
    ASSUME Typed, NEW d \in Clients, Contexts(d), Phase(d), NEW e \in {S(d), C(d)}, WriteEnd(e)
    PROVE  Typed' /\ Contexts(d)' /\ Phase(d)'
  <1>1. /\ S(d) \in Ends /\ C(d) \in Ends /\ S(d) # C(d) /\ C(d)[2] = "client"
        /\ S(d)[2] = "server" /\ (e = S(d) \/ e = C(d))
        /\ Peer(S(d)) = C(d) /\ Peer(C(d)) = S(d)
    BY EndsOf
  <1>2. UNCHANGED <<srv, cli, conn, full, net, printed>>
    BY DEF WriteEnd
  <1>3. Len(<<>>) <= 1
    BY NoBytes
  <1>4. CASE e = S(d)
    <2>1. /\ reqData[S(d)] # <<>> /\ Head(reqData[S(d)]) = <<>>
          /\ reqData' = [reqData EXCEPT ![S(d)] = Tail(@)]
          /\ UNCHANGED <<streamData, reading>>
      BY <1>1, <1>4 DEF WriteEnd
    <2>2. Tail(reqData[S(d)]) = <<>> /\ Buffer(reqData[S(d)]) = <<>>
      BY <2>1, Values, OneContext DEF Contexts
    <2>3. /\ reqData'[S(d)] = <<>> /\ reqData'[C(d)] = reqData[C(d)]
          /\ reqData' \in [Ends -> Seq(Seq(Byte))]
      BY <2>1, <2>2, <1>1, NoBytes DEF Typed
    <2>4. Typed'
      BY <2>1, <2>3, <1>2 DEF Typed
    <2>5. Contexts(d)'
      BY <2>1, <2>3, <1>2, <1>3, Zenon DEF Contexts
    <2>6. CASE Answering(d)
      <3>1. InTransit(C(d))' = InTransit(C(d))
        BY <2>1, <2>2, <2>3, <1>1, <1>2, NoBytes DEF InTransit
      <3>2. Answering(d)'
        BY <2>1, <2>3, <2>6, <3>1, <1>2 DEF Answering
      <3> QED
        BY <2>4, <2>5, <3>2 DEF Phase
    <2>7. CASE Answered(d)
      BY <2>1, <2>4, <2>5, <2>7, <1>2 DEF Phase, Answered
    <2> QED
      BY <2>1, <2>6, <2>7 DEF Phase, Quiet, Requesting
  <1>5. CASE e = C(d)
    <2>1. /\ reqData[C(d)] # <<>> /\ Head(reqData[C(d)]) = <<>>
          /\ reqData' = [reqData EXCEPT ![C(d)] = Tail(@)]
          /\ streamData' = [streamData EXCEPT ![C(d)] = <<<<>>>> \o @]
          /\ reading' = [reading EXCEPT ![C(d)] = TRUE]
      BY <1>1, <1>5 DEF WriteEnd, NrpcRead
    <2>2. /\ Tail(reqData[C(d)]) = <<>> /\ Buffer(reqData[C(d)]) = <<>>
          /\ streamData[C(d)] = <<>> /\ cli[d] = "up"
      BY <2>1, <1>5, Values, OneContext, AliveEnds DEF Contexts, WriteEnd
    <2>3. /\ <<<<>>>> \o <<>> = <<<<>>>> /\ <<<<>>>> \in Seq(Seq(Byte))
          /\ Len(<<<<>>>>) = 1 /\ <<<<>>>> # <<>> /\ Buffer(<<<<>>>>) = <<>>
      <3>1. PICK x \in Seq(Byte) : x = <<>>
        BY NoBytes
      <3>2. /\ <<x>> \o <<>> = <<x>> /\ <<x>> \in Seq(Seq(Byte))
            /\ Len(<<x>>) = 1 /\ <<x>> # <<>> /\ Buffer(<<x>>) = x
        BY NewContext
      <3> QED
        BY <3>1, <3>2, Zenon
    <2>4. /\ reqData'[C(d)] = <<>> /\ reqData'[S(d)] = reqData[S(d)]
          /\ reqData' \in [Ends -> Seq(Seq(Byte))]
      BY <2>1, <2>2, <1>1, NoBytes DEF Typed
    <2>5. /\ streamData'[C(d)] = <<<<>>>> /\ streamData'[S(d)] = streamData[S(d)]
          /\ streamData' \in [Ends -> Seq(Seq(Byte))]
      <3>1. PICK x \in Seq(Seq(Byte)) : x = <<<<>>>>
        BY <2>3
      <3>2. streamData' = [streamData EXCEPT ![C(d)] = x]
        BY <2>1, <2>2, <2>3, <3>1, Zenon
      <3>3. /\ streamData'[C(d)] = x /\ streamData'[S(d)] = streamData[S(d)]
            /\ streamData' \in [Ends -> Seq(Seq(Byte))]
        BY <3>2, <1>1 DEF Typed
      <3> QED
        BY <3>1, <3>3, Zenon
    <2>6. /\ reading'[C(d)] = TRUE /\ reading'[S(d)] = reading[S(d)]
          /\ reading' \in [Ends -> BOOLEAN]
      BY <2>1, <1>1 DEF Typed
    <2>7. Typed'
      BY <2>4, <2>5, <2>6, <1>2 DEF Typed
    <2>8. Contexts(d)'
      <3>1. Len(<<<<>>>>) <= 1
        BY <2>3
      <3> QED
        BY <3>1, <2>3, <2>4, <2>5, <2>6, <1>2, <1>3, Zenon DEF Contexts
    <2>9. /\ Buffer(streamData'[C(d)]) = <<>> /\ Buffer(streamData[C(d)]) = <<>>
          /\ Buffer(reqData'[C(d)]) = <<>>
      BY <2>2, <2>3, <2>4, <2>5, NoBytes, Zenon
    <2>10. InTransit(S(d))' = InTransit(S(d)) /\ InTransit(C(d))' = InTransit(C(d))
      BY <2>2, <2>4, <2>5, <2>9, <1>1, <1>2 DEF InTransit
    <2>11. CASE Requesting(d)
      <3>1. Requesting(d)'
        BY <2>4, <2>5, <2>9, <2>10, <2>11, <1>2 DEF Requesting, Waits
      <3> QED
        BY <3>1, <2>7, <2>8 DEF Phase
    <2>12. CASE Answering(d)
      <3>1. Answering(d)'
        BY <2>4, <2>5, <2>9, <2>10, <2>12, <1>2 DEF Answering
      <3> QED
        BY <3>1, <2>7, <2>8 DEF Phase
    <2> QED
      BY <2>1, <2>2, <2>11, <2>12 DEF Phase, Quiet, Answered
  <1> QED
    BY <1>1, <1>4, <1>5

\* The server accepts a connection, whatever its client has done so far.
LEMMA OwnServerOnConnect ==
    ASSUME Typed, NEW d \in Clients, Contexts(d), Phase(d), ServerOnConnect(d)
    PROVE  Typed' /\ Contexts(d)' /\ Phase(d)'
  <1>1. /\ S(d) \in Ends /\ C(d) \in Ends /\ S(d) # C(d)
        /\ Peer(S(d)) = C(d) /\ Peer(C(d)) = S(d)
    BY EndsOf
  <1>2. /\ srv = "up" /\ ~conn[d] /\ cli[d] # "connecting"
        /\ conn' = [conn EXCEPT ![d] = TRUE]
        /\ streamData' = [streamData EXCEPT ![S(d)] = <<<<>>>> \o @]
        /\ reading' = [reading EXCEPT ![S(d)] = TRUE]
        /\ UNCHANGED <<srv, cli, full, reqData, net, printed>>
    BY DEF ServerOnConnect, NrpcRead, S
  <1>3. (Quiet(d) \/ Requesting(d)) /\ streamData[S(d)] = <<>>
    BY <1>2 DEF Phase, Quiet, Requesting, Waits, Answering, Answered
  <1>4. /\ <<<<>>>> \o <<>> = <<<<>>>> /\ <<<<>>>> \in Seq(Seq(Byte))
        /\ Len(<<<<>>>>) = 1 /\ <<<<>>>> # <<>> /\ Buffer(<<<<>>>>) = <<>>
    <2>1. PICK x \in Seq(Byte) : x = <<>>
      BY NoBytes
    <2>2. /\ <<x>> \o <<>> = <<x>> /\ <<x>> \in Seq(Seq(Byte))
          /\ Len(<<x>>) = 1 /\ <<x>> # <<>> /\ Buffer(<<x>>) = x
      BY NewContext
    <2> QED
      BY <2>1, <2>2, Zenon
  <1>5. /\ streamData'[S(d)] = <<<<>>>> /\ streamData'[C(d)] = streamData[C(d)]
        /\ streamData' \in [Ends -> Seq(Seq(Byte))]
    <2>1. PICK x \in Seq(Seq(Byte)) : x = <<<<>>>>
      BY <1>4
    <2>2. streamData' = [streamData EXCEPT ![S(d)] = x]
      BY <2>1, <1>2, <1>3, <1>4, Zenon
    <2>3. /\ streamData'[S(d)] = x /\ streamData'[C(d)] = streamData[C(d)]
          /\ streamData' \in [Ends -> Seq(Seq(Byte))]
      BY <2>2, <1>1 DEF Typed
    <2> QED
      BY <2>1, <2>3, Zenon
  <1>6. /\ reading'[S(d)] = TRUE /\ reading'[C(d)] = reading[C(d)]
        /\ reading' \in [Ends -> BOOLEAN]
        /\ conn'[d] = TRUE /\ conn' \in [Clients -> BOOLEAN]
    BY <1>1, <1>2 DEF Typed
  <1>7. Typed'
    BY <1>2, <1>5, <1>6 DEF Typed
  <1>8. Contexts(d)'
    <2>1. Len(<<<<>>>>) <= 1
      BY <1>4
    <2> QED
      BY <2>1, <1>2, <1>4, <1>5, <1>6, Zenon DEF Contexts
  <1>9. Buffer(streamData'[S(d)]) = Buffer(streamData[S(d)]) /\ Buffer(streamData[S(d)]) = <<>>
    BY <1>3, <1>4, <1>5, NoBytes, Zenon
  <1>10. Waits(d)'
    BY <1>4, <1>5, <1>6, Zenon DEF Waits
  <1>11. CASE Quiet(d)
    <2>1. Quiet(d)'
      BY <1>2, <1>5, <1>6, <1>9, <1>10, <1>11 DEF Quiet
    <2> QED
      BY <2>1, <1>7, <1>8 DEF Phase
  <1>12. CASE Requesting(d)
    <2>1. InTransit(S(d))' = InTransit(S(d))
      BY <1>1, <1>2, <1>9 DEF InTransit
    <2>2. Requesting(d)'
      BY <2>1, <1>2, <1>5, <1>9, <1>10, <1>12 DEF Requesting
    <2> QED
      BY <2>2, <1>7, <1>8 DEF Phase
  <1> QED
    BY <1>3, <1>11, <1>12

\* The client connects: it sends its request or dies.
LEMMA OwnClientOnConnect ==
    ASSUME Typed, NEW d \in Clients, Contexts(d), Phase(d), ClientOnConnect(d)
    PROVE  Typed' /\ Contexts(d)' /\ Phase(d)'
  <1>1. /\ S(d) \in Ends /\ C(d) \in Ends /\ S(d) # C(d)
        /\ Peer(S(d)) = C(d) /\ Peer(C(d)) = S(d)
    BY EndsOf
  <1>2. /\ cli[d] = "connecting"
        /\ UNCHANGED <<srv, conn, streamData, reading, full, net, printed>>
    BY DEF ClientOnConnect
  <1>3. Quiet(d)
    BY <1>2 DEF Phase, Requesting, Answering, Answered
  <1>4. CASE cli' = [cli EXCEPT ![d] = "dead"] /\ reqData' = reqData
    <2>1. /\ cli'[d] = "dead"
          /\ cli' \in [Clients -> {"connecting", "up", "done", "dead", "undefined"}]
      BY <1>4 DEF Typed
    <2>2. Typed'
      BY <2>1, <1>2, <1>4 DEF Typed
    <2>3. Contexts(d)'
      <3>1. cli'[d] # "up"
        BY <2>1
      <3> QED
        BY <3>1, <1>2, <1>4, Zenon DEF Contexts
    <2>4. Quiet(d)'
      BY <2>1, <1>2, <1>3, <1>4 DEF Quiet, Waits
    <2> QED
      BY <2>2, <2>3, <2>4 DEF Phase
  <1>5. CASE cli' = [cli EXCEPT ![d] = "up"] /\ NrpcWrite(C(d), Message(Name[d])) /\ srv = "up"
    <2>1. /\ cli'[d] = "up"
          /\ cli' \in [Clients -> {"connecting", "up", "done", "dead", "undefined"}]
      BY <1>5 DEF Typed
    <2>2. reqData' = [reqData EXCEPT ![C(d)] = <<Request(d)>> \o @]
      BY <1>5 DEF NrpcWrite, Request, Framed
    <2>3. /\ <<Request(d)>> \o <<>> = <<Request(d)>> /\ <<Request(d)>> \in Seq(Seq(Byte))
          /\ Len(<<Request(d)>>) = 1 /\ Buffer(<<Request(d)>>) = Request(d)
      BY Bodies, NewContext
    <2>4. /\ reqData[C(d)] = <<>> /\ streamData[C(d)] = <<>> /\ net[S(d)] = <<>>
          /\ Buffer(streamData[S(d)]) = <<>>
      BY <1>3 DEF Quiet
    <2>5. /\ reqData'[C(d)] = <<Request(d)>> /\ reqData'[S(d)] = reqData[S(d)]
          /\ reqData' \in [Ends -> Seq(Seq(Byte))]
      <3>1. reqData' = [reqData EXCEPT ![C(d)] = <<Request(d)>>]
        BY <2>2, <2>3, <2>4, Zenon
      <3> QED
        BY <3>1, <2>3, <1>1 DEF Typed
    <2>6. Typed'
      BY <2>1, <2>5, <1>2 DEF Typed
    <2>7. ~reading[C(d)]
      BY <1>2, <1>3 DEF Quiet
    <2>8. Contexts(d)'
      BY <2>1, <2>3, <2>4, <2>5, <2>7, <1>2 DEF Contexts
    <2>9. InTransit(S(d))' = Request(d)
      <3>1. (<<>> \o <<>>) \o Request(d) = Request(d)
        BY Bodies, NoBytes, ConcatEmptySeq
      <3> QED
        BY <3>1, <2>3, <2>4, <2>5, <1>1, <1>2 DEF InTransit
    <2>10. Requesting(d)'
      BY <2>1, <2>4, <2>5, <2>9, <1>2, <1>3, Bodies, NoBytes DEF Requesting, Quiet, Waits
    <2> QED
      BY <2>6, <2>8, <2>10 DEF Phase
  <1> QED
    BY <1>4, <1>5 DEF ClientOnConnect, C

\* A killed client leaves its bytes as they are.
LEMMA OwnClientKilled ==
    ASSUME Typed, NEW d \in Clients, Contexts(d), Phase(d), ClientKilled(d)
    PROVE  Typed' /\ Contexts(d)' /\ Phase(d)'
  <1>1. /\ cli[d] = "up" /\ cli' = [cli EXCEPT ![d] = "dead"]
        /\ UNCHANGED <<srv, conn, streamData, reading, full, reqData, net, printed>>
    BY DEF ClientKilled
  <1>2. /\ cli'[d] = "dead"
        /\ cli' \in [Clients -> {"connecting", "up", "done", "dead", "undefined"}]
    BY <1>1 DEF Typed
  <1>3. Typed'
    BY <1>1, <1>2 DEF Typed
  <1>4. SameBytes(d) /\ ServerStaysDown /\ cli'[d] \notin {"connecting", "up"}
    BY <1>1, <1>2 DEF SameBytes, ServerStaysDown
  <1> QED
    BY <1>1, <1>3, <1>4, ClientEndsKeepsPhase

\* Every step of a connection leads from a phase to a phase.
LEMMA OwnStep ==
    ASSUME Typed, NEW d \in Clients, Contexts(d), Phase(d), StepOf(d)
    PROVE  Typed' /\ Contexts(d)' /\ Phase(d)'
  <1>1. CASE \E e \in {S(d), C(d)} : EndOfFile(e) \/ WriteFails(e)
    BY <1>1, ProcessEnds
  <1>2. CASE \E e \in {S(d), C(d)} : WriteEnd(e)
    BY <1>2, OwnWriteEnd
  <1>3. CASE \E e \in {S(d), C(d)} : Deliver(e) \/ ZeroRead(e) \/ Write(e)
    BY <1>3, ServerDeliver, ClientDeliver, ServerZeroRead, ClientZeroRead,
       ServerWrite, ClientWrite
  <1> QED
    BY <1>1, <1>2, <1>3, OwnClientOnConnect, OwnServerOnConnect, OwnClientKilled DEF StepOf

-----------------------------------------------------------------------------
(* The theorems *)

\* The invariant holds at the start ...
LEMMA RpcInit == Init => RpcInv
  <1> SUFFICES ASSUME Init PROVE RpcInv
    OBVIOUS
  <1>1. Typed
    BY NoBytes DEF Init, Typed
  <1>2. ASSUME NEW c \in Clients PROVE Contexts(c) /\ Phase(c)
    <2>1. S(c) \in Ends /\ C(c) \in Ends
      BY EndsOf
    <2>2. /\ streamData[S(c)] = <<>> /\ streamData[C(c)] = <<>>
          /\ reqData[S(c)] = <<>> /\ reqData[C(c)] = <<>>
          /\ net[S(c)] = <<>> /\ net[C(c)] = <<>> /\ printed[c] = <<>>
          /\ ~reading[S(c)] /\ ~reading[C(c)] /\ ~conn[c] /\ cli[c] = "connecting"
      BY <2>1 DEF Init
    <2>3. Contexts(c)
      <3>1. Len(<<>>) <= 1
        BY NoBytes
      <3> QED
        BY <3>1, <2>2, Zenon DEF Contexts
    <2>4. Quiet(c)
      BY <2>2, NoBytes DEF Quiet, Waits
    <2> QED
      BY <2>3, <2>4 DEF Phase
  <1> QED
    BY <1>1, <1>2 DEF RpcInv

\* ... and every step keeps it: the connection that moves by OwnStep, the others
\* because they are left alone.
LEMMA RpcStep == RpcInv /\ [Next]_vars => RpcInv'
  <1> SUFFICES ASSUME RpcInv, [Next]_vars PROVE RpcInv'
    OBVIOUS
  <1>1. CASE Next
    <2>1. PICK d \in Clients : StepOf(d)
      BY <1>1, StepOfSome
    <2>2. Typed' /\ Contexts(d)' /\ Phase(d)'
      BY <2>1, OwnStep DEF RpcInv
    <2>3. ASSUME NEW c \in Clients, c # d PROVE Contexts(c)' /\ Phase(c)'
      BY <2>1, <2>3, StepOthers, OthersKeepPhase DEF RpcInv
    <2> QED
      BY <2>2, <2>3 DEF RpcInv
  <1>2. CASE UNCHANGED vars
    <2>1. Typed'
      BY <1>2 DEF RpcInv, Typed, vars
    <2>2. ASSUME NEW c \in Clients PROVE Contexts(c)' /\ Phase(c)'
      <3>1. SameBytes(c) /\ cli'[c] = cli[c] /\ ServerStaysDown
        BY <1>2 DEF vars, SameBytes, ServerStaysDown
      <3> QED
        BY <3>1, OthersKeepPhase DEF RpcInv
    <2> QED
      BY <2>1, <2>2 DEF RpcInv
  <1> QED
    BY <1>1, <1>2

\* So it holds always.
LEMMA RpcInvariant == Spec => []RpcInv
  BY RpcInit, RpcStep, PTL DEF Spec

\* stream->data and req->data are never left with a context that is not in
\* use, or without one that is, for any number of clients.
THEOREM RpcTypeOK == Spec => []TypeOK
  <1>1. RpcInv => TypeOK
    <2> SUFFICES ASSUME RpcInv PROVE TypeOK
      OBVIOUS
    <2>1. ASSUME NEW e \in Ends
          PROVE  /\ streamData[e] \in Seq(Seq(Byte)) /\ Len(streamData[e]) <= 1
                 /\ reqData[e] \in Seq(Seq(Byte)) /\ Len(reqData[e]) <= 1
                 /\ Alive(e) => (reading[e] <=> streamData[e] # <<>>)
      <3>1. PICK c \in Clients : e = S(c) \/ e = C(c)
        BY EndsAre
      <3>2. Contexts(c) /\ Typed
        BY DEF RpcInv
      <3>3. CASE e = S(c)
        BY <3>2, <3>3, AliveEnds DEF Contexts, Typed
      <3>4. CASE e = C(c)
        BY <3>2, <3>4, AliveEnds DEF Contexts, Typed
      <3> QED
        BY <3>1, <3>3, <3>4
    <2> QED
      BY <2>1 DEF TypeOK, RpcInv, Typed
  <1> QED
    BY <1>1, RpcInvariant, PTL

\* A client prints nothing but the answer to its own request: on_read hands
\* on exactly the framed message, with its first word put back.
THEOREM RpcRightAnswer == Spec => []RightAnswer
  <1>1. RpcInv => RightAnswer
    BY DEF RpcInv, Phase, Quiet, Requesting, Answering, Answered, RightAnswer
  <1> QED
    BY <1>1, RpcInvariant, PTL

\* No byte of a request or an answer is lost, repeated or reordered, however
\* the reads and the writes of any number of connections cut them up.
THEOREM RpcNothingLost == Spec => []NothingLost
  <1>1. RpcInv => NothingLost
    <2> SUFFICES ASSUME RpcInv, NEW c \in Clients, cli[c] = "up", srv = "up"
                 PROVE  /\ (reading[S(c)] \/ ~conn[c]) => InTransit(S(c)) = Request(c)
                        /\ conn[c] /\ ~reading[S(c)] => InTransit(C(c)) = Answer(c)
      BY AliveEnds DEF NothingLost, S, C, Request, Answer
    <2>1. Contexts(c) /\ Phase(c)
      BY DEF RpcInv
    <2>2. reading[S(c)] <=> streamData[S(c)] # <<>>
      BY <2>1 DEF Contexts
    <2> QED
      BY <2>1, <2>2 DEF Phase, Quiet, Requesting, Waits, Answering, Answered
  <1> QED
    BY <1>1, RpcInvariant, PTL
=============================================================================
