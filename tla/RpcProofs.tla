------------------------------ MODULE RpcProofs -----------------------------
(***************************************************************************)
(* The RPC exchange for any services, methods, payload sizes and number of *)
(* calls: replies are in the order of the requests, and a call gets the    *)
(* reply to its own request.                                               *)
(***************************************************************************)
EXTENDS Rpc, TLAPS

LEMMA LenProperties ==
  ASSUME NEW S, NEW seq \in Seq(S)
  PROVE  Len(seq) \in Nat /\ seq \in [1..Len(seq) -> S] /\ DOMAIN seq = 1..Len(seq)
OBVIOUS

LEMMA ElementOfSeq == ASSUME NEW S, NEW seq \in Seq(S), NEW n \in 1..Len(seq) PROVE seq[n] \in S
OBVIOUS

LEMMA IsASeq ==
  ASSUME NEW S, NEW n \in Nat, NEW f \in [1..n -> S] PROVE f \in Seq(S) /\ Len(f) = n
OBVIOUS

LEMMA SeqMonotonic ==
  ASSUME NEW S, NEW T, NEW seq \in Seq(S), S \subseteq T PROVE seq \in Seq(T)
<1>1. Len(seq) \in Nat /\ seq \in [1..Len(seq) -> T]
  OBVIOUS
<1> QED
  BY <1>1, IsASeq, Zenon

LEMMA AppendProperties ==
  ASSUME NEW S, NEW seq \in Seq(S), NEW elt \in S
  PROVE  /\ Append(seq, elt) \in Seq(S)
         /\ Len(Append(seq, elt)) = Len(seq) + 1
         /\ \A i \in 1..Len(seq) : Append(seq, elt)[i] = seq[i]
         /\ Append(seq, elt)[Len(seq) + 1] = elt
OBVIOUS

DataCells == [cell : {"data"}, value : Nat]
Cells ==
  DataCells \cup {Zero} \cup [cell : {"magic"}, type : {"Request", "Response", "Heartbeat"}]
    \cup [cell : {"lengths"}, meta_len : {MetaSize}, payload_len : Nat]
    \cup [cell : {"request_meta"}, request_id : Nat, service : Services, method : Methods]
    \cup [cell : {"response_meta"}, request_id : Nat, error_code : Codes]

Requests == [type : {"Request"}, request_id : Nat, service : Services, method : Methods,
             payload : Seq(DataCells), error_code : {"OK"}]
Heartbeats == [type : {"Heartbeat"}, request_id : Nat, service : {NoName}, method : {NoName},
               payload : {<<>>}, error_code : {"OK"}]
Replies == [type : {"Response"}, request_id : Nat, service : {NoName}, method : {NoName},
            payload : Seq(DataCells), error_code : Codes]
Messages == Requests \cup Heartbeats \cup Replies

\* the cells of a message's frame
Size(m) == Len(serialize(m))

\* The stream holds the frames of the messages after the j-th, except for the first d
\* cells, which have been read: the frame of the k-th starts after position st[k].
Carries(stream, msgs, j, d) ==
  /\ stream \in Seq(Cells) /\ j \in 0..Len(msgs)
  /\ \E st \in [1..(Len(msgs) + 1) -> Int] :
       /\ st[j + 1] + d = 0 /\ st[Len(msgs) + 1] = Len(stream)
       /\ \A k \in (j + 1)..Len(msgs) :
            /\ st[k + 1] = st[k] + Size(msgs[k]) /\ st[k + 1] <= Len(stream)
            /\ \A i \in 1..Size(msgs[k]) :
                 st[k] + i > 0 => stream[st[k] + i] = serialize(msgs[k])[i]

\* The first n cells of the frame of m are at the front of the buffer, with room for all.
Holds(buf, m, n) ==
  /\ buf \in Seq(Cells) /\ Len(buf) >= Size(m)
  /\ \A i \in 1..n : buf[i] = serialize(m)[i]

-----------------------------------------------------------------------------
(* The wire format. *)

\* A frame is the header of two cells, the meta data and the payload.
LEMMA Frame ==
  ASSUME NEW m \in Messages
  PROVE  /\ serialize(m) \in Seq(Cells)
         /\ Len(serialize(m)) = 3 + Len(m.payload)
         /\ m.payload \in Seq(DataCells) /\ Len(m.payload) \in Nat
         /\ serialize(m)[1] = [cell |-> "magic", type |-> m.type]
         /\ serialize(m)[2] = [cell |-> "lengths", meta_len |-> MetaSize, payload_len |-> Len(m.payload)]
         /\ m.type = "Request" =>
              serialize(m)[3] = [cell |-> "request_meta", request_id |-> m.request_id,
                                 service |-> m.service, method |-> m.method]
         /\ m.type # "Request" =>
              serialize(m)[3] = [cell |-> "response_meta", request_id |-> m.request_id,
                                 error_code |-> m.error_code]
         /\ \A i \in 1..Len(m.payload) : serialize(m)[3 + i] = m.payload[i]
<1> DEFINE a == [cell |-> "magic", type |-> m.type]
           b == [cell |-> "lengths", meta_len |-> MetaSize, payload_len |-> Len(m.payload)]
           c == IF m.type = "Request"
                THEN [cell |-> "request_meta", request_id |-> m.request_id,
                      service |-> m.service, method |-> m.method]
                ELSE [cell |-> "response_meta", request_id |-> m.request_id,
                      error_code |-> m.error_code]
<1>1. m.payload \in Seq(DataCells) /\ Len(m.payload) \in Nat
  <2>1. <<>> \in Seq(DataCells)
    OBVIOUS
  <2>2. m.payload \in Seq(DataCells)
    BY <2>1, Zenon DEF Messages, Requests, Heartbeats, Replies
  <2> QED
    BY <2>2
<1>2. a \in Cells
  BY Zenon DEF Messages, Requests, Heartbeats, Replies, Cells
<1>3. b \in Cells
  BY <1>1, Zenon DEF Cells
<1>4. c \in Cells
  BY Zenon DEF Messages, Requests, Heartbeats, Replies, Cells, Codes
<1>5. m.payload \in Seq(Cells)
  BY <1>1 DEF Cells
<1>6. serialize(m) = <<a, b, c>> \o m.payload
  BY Zenon DEF serialize
<1>7. (m.type = "Request" => c = [cell |-> "request_meta", request_id |-> m.request_id,
                                 service |-> m.service, method |-> m.method])
      /\ (m.type # "Request" => c = [cell |-> "response_meta", request_id |-> m.request_id,
                                 error_code |-> m.error_code])
  BY Zenon
<1>8. a = [cell |-> "magic", type |-> m.type]
      /\ b = [cell |-> "lengths", meta_len |-> MetaSize, payload_len |-> Len(m.payload)]
  BY Zenon
<1> HIDE DEF a, b, c
<1>9. <<a, b, c>> \in Seq(Cells) /\ Len(<<a, b, c>>) = 3
  BY <1>2, <1>3, <1>4
<1>10. serialize(m) \in Seq(Cells) /\ Len(serialize(m)) = 3 + Len(m.payload)
  BY <1>5, <1>6, <1>9
<1>11. serialize(m)[1] = a /\ serialize(m)[2] = b /\ serialize(m)[3] = c
  BY <1>5, <1>6, <1>9
<1>12. \A i \in 1..Len(m.payload) : serialize(m)[3 + i] = m.payload[i]
  BY <1>5, <1>6, <1>9
<1> QED
  BY <1>1, <1>7, <1>8, <1>10, <1>11, <1>12, Zenon

LEMMA FrameSize ==
  ASSUME NEW m \in Messages
  PROVE  serialize(m) \in Seq(Cells) /\ Size(m) \in Nat /\ Size(m) >= 3
<1>1. serialize(m) \in Seq(Cells) /\ Len(serialize(m)) = 3 + Len(m.payload) /\ Len(m.payload) \in Nat
  BY Frame, Zenon
<1> QED
  BY <1>1 DEF Size

\* What a buffer with a header announces.
LEMMA HeaderRead ==
  ASSUME NEW m \in Messages, NEW buf, buf[1] = serialize(m)[1], buf[2] = serialize(m)[2]
  PROVE  /\ valid(buf)
         /\ total_size(buf) = Size(m) /\ payload_len(buf) = Len(m.payload)
         /\ buf[1].type = m.type
<1>3. buf[1] = [cell |-> "magic", type |-> m.type]
      /\ buf[2] = [cell |-> "lengths", meta_len |-> MetaSize, payload_len |-> Len(m.payload)]
  BY Frame, Zenon
<1>4. buf[1].cell = "magic" /\ buf[1].type = m.type
  BY <1>3
<1>5. buf[2].cell = "lengths" /\ buf[2].meta_len = MetaSize /\ buf[2].payload_len = Len(m.payload)
  BY <1>3
<1>6. Len(serialize(m)) = 3 + Len(m.payload) /\ Len(m.payload) \in Nat
  BY Frame, Zenon
<1> QED
  BY <1>4, <1>5, <1>6 DEF Size, valid, total_size, payload_len, meta_len, HeaderSize, MetaSize

\* Decoding a frame gives back the message; of a heartbeat only its type.
LEMMA Decode ==
  ASSUME NEW m \in Messages, NEW buf, Holds(buf, m, Size(m))
  PROVE  /\ CanDeserialize(buf, total_size(buf))
         /\ m \in Requests \cup Replies => Deserialized(buf) = m
         /\ m \in Heartbeats => Deserialized(buf).type = "Heartbeat" /\ Deserialized(buf).request_id = 0
<1>1. buf \in Seq(Cells) /\ Len(buf) >= 3 + Len(m.payload) /\ Len(m.payload) \in Nat
  BY Frame, Zenon DEF Holds, Size
<1>2. \A i \in 1..(3 + Len(m.payload)) : buf[i] = serialize(m)[i]
  BY Frame, Zenon DEF Holds, Size
<1>a. 3 \in 1..(3 + Len(m.payload)) /\ buf[3] = serialize(m)[3]
  BY <1>1, <1>2
<1>3. valid(buf) /\ total_size(buf) = 3 + Len(m.payload) /\ payload_len(buf) = Len(m.payload)
      /\ buf[1].type = m.type
  <2>1. Len(serialize(m)) = 3 + Len(m.payload)
    BY Frame, Zenon
  <2>2. buf[1] = serialize(m)[1] /\ buf[2] = serialize(m)[2]
    BY <1>1, <1>2
  <2> QED
    BY <2>1, <2>2, HeaderRead, Zenon DEF Size
<1>4. CanDeserialize(buf, total_size(buf))
  BY <1>1, <1>3 DEF CanDeserialize, HeaderSize
<1>5. SubSeq(buf, 4, 3 + Len(m.payload)) = m.payload
  <2>1. m.payload \in Seq(DataCells)
    BY Frame, Zenon
  <2>2. SubSeq(buf, 4, 3 + Len(m.payload)) \in Seq(Cells)
        /\ Len(SubSeq(buf, 4, 3 + Len(m.payload))) = Len(m.payload)
        /\ \A i \in 1..Len(m.payload) : SubSeq(buf, 4, 3 + Len(m.payload))[i] = buf[3 + i]
    BY <1>1
  <2>3. \A i \in 1..Len(m.payload) : buf[3 + i] = m.payload[i]
    <3> SUFFICES ASSUME NEW i \in 1..Len(m.payload) PROVE buf[3 + i] = m.payload[i]
      BY Zenon
    <3>1. 3 + i \in 1..(3 + Len(m.payload))
      BY <1>1
    <3>2. serialize(m)[3 + i] = m.payload[i]
      BY Frame, Zenon
    <3> QED
      BY <1>2, <3>1, <3>2, Zenon
  <2> QED
    BY <2>1, <2>2, <2>3
<1>b. /\ HeaderSize + 1 = 3 /\ HeaderSize + MetaSize + 1 = 4
      /\ HeaderSize + MetaSize + payload_len(buf) = 3 + Len(m.payload)
  BY <1>1, <1>3 DEF HeaderSize, MetaSize
<1>6. CASE m \in Requests
  <2>1. m.type = "Request" /\ m.error_code = "OK"
    BY <1>6, Zenon DEF Requests
  <2>2. buf[3] = [cell |-> "request_meta", request_id |-> m.request_id,
                  service |-> m.service, method |-> m.method]
    BY <1>a, <2>1, Frame, Zenon
  <2>3. ReadMeta(buf[3], "request_meta") = buf[3]
    BY <2>2 DEF ReadMeta
  <2>4. Deserialized(buf) = create_request(buf[3].request_id, buf[3].service, buf[3].method, m.payload)
    BY <1>3, <1>5, <1>b, <2>1, <2>3, Zenon DEF Deserialized
  <2>5. Deserialized(buf) = create_request(m.request_id, m.service, m.method, m.payload)
    BY <2>2, <2>4
  <2>6. m = create_request(m.request_id, m.service, m.method, m.payload)
    BY <1>6, Zenon DEF Requests, create_request
  <2> QED
    BY <1>4, <1>6, <2>5, <2>6, Zenon DEF Requests, Heartbeats
<1>7. CASE m \in Replies
  <2>1. m.type = "Response" /\ m.service = NoName /\ m.method = NoName
    BY <1>7, Zenon DEF Replies
  <2>2. buf[3] = [cell |-> "response_meta", request_id |-> m.request_id, error_code |-> m.error_code]
    BY <1>a, <2>1, Frame, Zenon
  <2>3. ReadMeta(buf[3], "response_meta") = buf[3]
    BY <2>2 DEF ReadMeta
  <2>4. Deserialized(buf) = [create_response(buf[3].request_id, m.payload)
                               EXCEPT !.error_code = buf[3].error_code]
    BY <1>3, <1>5, <1>b, <2>1, <2>3, Zenon DEF Deserialized
  <2>5. Deserialized(buf) = [create_response(m.request_id, m.payload) EXCEPT !.error_code = m.error_code]
    BY <2>2, <2>4
  <2>6. m = [create_response(m.request_id, m.payload) EXCEPT !.error_code = m.error_code]
    BY <1>7 DEF Replies, create_response
  <2> QED
    BY <1>4, <1>7, <2>5, <2>6, Zenon DEF Replies, Heartbeats
<1>8. CASE m \in Heartbeats
  <2>1. m.type = "Heartbeat" /\ m \notin Requests \cup Replies
    BY <1>8, Zenon DEF Heartbeats, Requests, Replies
  <2>2. \E p : Deserialized(buf) = [create_response(0, p) EXCEPT !.type = "Heartbeat"]
    BY <1>3, <2>1, Zenon DEF Deserialized
  <2> QED
    BY <1>4, <2>1, <2>2, Zenon DEF create_response
<1> QED
  BY <1>6, <1>7, <1>8, Zenon DEF Messages

-----------------------------------------------------------------------------
(* The streams. *)

LEMMA CarriesCells ==
  ASSUME NEW stream, NEW msgs, NEW j, NEW d, Carries(stream, msgs, j, d)
  PROVE  stream \in Seq(Cells) /\ Len(stream) \in Nat /\ j \in 0..Len(msgs)
<1>1. stream \in Seq(Cells) /\ j \in 0..Len(msgs)
  BY Zenon DEF Carries
<1> QED
  BY <1>1, LenProperties, Zenon

LEMMA CarriesNothing ==
  ASSUME NEW msgs \in Seq(Messages)
  PROVE  Carries(<<>>, msgs, Len(msgs), 0)
<1>1. Len(msgs) \in Nat /\ Len(msgs) \in 0..Len(msgs)
  OBVIOUS
<1>2. <<>> \in Seq(Cells) /\ Len(<<>>) = 0
  OBVIOUS
<1> DEFINE st == [k \in 1..(Len(msgs) + 1) |-> 0]
<1>3. st \in [1..(Len(msgs) + 1) -> Int] /\ st[Len(msgs) + 1] = 0
  BY <1>1
<1>4. (Len(msgs) + 1)..Len(msgs) = {}
  BY <1>1
<1> QED
  BY <1>1, <1>2, <1>3, <1>4 DEF Carries

\* Cells that are left, or a frame read in part: there is a message that was not read.
LEMMA CarriesSome ==
  ASSUME NEW msgs \in Seq(Messages), NEW stream, NEW j, NEW d \in Nat,
         Carries(stream, msgs, j, d), d > 0 \/ Len(stream) > 0
  PROVE  j \in 0..(Len(msgs) - 1)
<1>1. j \in 0..Len(msgs) /\ Len(msgs) \in Nat /\ Len(stream) \in Nat
  BY DEF Carries
<1>2. CASE j = Len(msgs)
  <2>1. Len(stream) + d = 0
    BY <1>2, Zenon DEF Carries
  <2> QED
    BY <1>1, <2>1
<1> QED
  BY <1>1, <1>2

\* A whole frame is sent.
LEMMA CarriesSent ==
  ASSUME NEW msgs \in Seq(Messages), NEW m \in Messages, NEW stream, NEW j, NEW d \in Nat,
         Carries(stream, msgs, j, d)
  PROVE  Carries(stream \o serialize(m), Append(msgs, m), j, d)
<1> DEFINE L == Len(msgs)
           n == Len(stream)
           frame == serialize(m)
           f == Size(m)
           more == Append(msgs, m)
           out == stream \o frame
<1>1. PICK st \in [1..(L + 1) -> Int] :
       /\ st[j + 1] + d = 0 /\ st[L + 1] = n
       /\ \A k \in (j + 1)..L :
            /\ st[k + 1] = st[k] + Size(msgs[k]) /\ st[k + 1] <= n
            /\ \A i \in 1..Size(msgs[k]) :
                 st[k] + i > 0 => stream[st[k] + i] = serialize(msgs[k])[i]
  BY Zenon DEF Carries
<1>2. stream \in Seq(Cells) /\ n \in Nat /\ L \in Nat /\ j \in 0..L
  BY DEF Carries
<1>3. frame \in Seq(Cells) /\ f \in Nat /\ f = Len(frame)
  BY FrameSize, Zenon DEF Size
<1>4. /\ out \in Seq(Cells) /\ Len(out) = n + f
      /\ \A i \in 1..n : out[i] = stream[i]
      /\ \A i \in 1..f : out[n + i] = frame[i]
  BY <1>2, <1>3
<1>5. more \in Seq(Messages) /\ Len(more) = L + 1 /\ more[L + 1] = m /\ \A k \in 1..L : more[k] = msgs[k]
  OBVIOUS
<1> DEFINE new == [k \in 1..(L + 2) |-> IF k <= L + 1 THEN st[k] ELSE n + f]
<1>6. new \in [1..(L + 2) -> Int] /\ new[L + 2] = n + f /\ \A k \in 1..(L + 1) : new[k] = st[k]
  BY <1>1, <1>2, <1>3
<1>7. \A k \in 1..L : Size(msgs[k]) \in Nat
  <2>1. \A k \in 1..L : msgs[k] \in Messages
    OBVIOUS
  <2> QED
    BY <2>1, FrameSize, Zenon
<1> HIDE DEF L, n, frame, f, more, out, new
<1>8. ASSUME NEW k \in (j + 1)..(L + 1)
      PROVE  /\ new[k + 1] = new[k] + Size(more[k]) /\ new[k + 1] <= n + f
             /\ \A i \in 1..Size(more[k]) :
                  new[k] + i > 0 => out[new[k] + i] = serialize(more[k])[i]
  <2>1. CASE k \in (j + 1)..L
    <3>1. k \in 1..L /\ k \in 1..(L + 1) /\ k + 1 \in 1..(L + 1)
      BY <1>2, <2>1
    <3>2. /\ more[k] = msgs[k] /\ new[k] = st[k] /\ new[k + 1] = st[k + 1]
          /\ st[k] \in Int /\ st[k + 1] \in Int /\ Size(msgs[k]) \in Nat
      BY <1>1, <1>5, <1>6, <1>7, <3>1, Zenon
    <3>3. st[k + 1] = st[k] + Size(msgs[k]) /\ st[k + 1] <= n
      BY <1>1, <2>1, Zenon
    <3>4. ASSUME NEW i \in 1..Size(msgs[k]), st[k] + i > 0
          PROVE  out[st[k] + i] = serialize(msgs[k])[i]
      <4>1. st[k] + i \in 1..n
        <5> DEFINE s == st[k]
                   size == Size(msgs[k])
        <5>1. s \in Int /\ size \in Nat /\ n \in Nat /\ i \in 1..size /\ s + size <= n /\ s + i > 0
          BY <1>2, <3>2, <3>3, <3>4, Zenon
        <5> HIDE DEF s, size
        <5>2. s + i \in 1..n
          BY <5>1
        <5> QED
          BY <5>2, Zenon DEF s
      <4>2. stream[st[k] + i] = serialize(msgs[k])[i]
        BY <1>1, <2>1, <3>4, Zenon
      <4> QED
        BY <1>4, <4>1, <4>2, Zenon
    <3>5. new[k + 1] = new[k] + Size(more[k])
      BY <3>2, <3>3, Zenon
    <3>6. new[k + 1] <= n + f
      BY <1>2, <1>3, <3>2, <3>3, SMTT(30)
    <3> QED
      BY <3>2, <3>4, <3>5, <3>6, Zenon
  <2>2. CASE k = L + 1
    <3>1. more[k] = m /\ new[k] = n /\ new[k + 1] = n + f
      BY <1>1, <1>2, <1>5, <1>6, <2>2
    <3>2. Size(more[k]) = f /\ serialize(more[k]) = frame
      BY <3>1, Zenon DEF frame, f
    <3>3. new[k + 1] <= n + f /\ new[k + 1] = new[k] + Size(more[k])
      BY <1>2, <1>3, <3>1, <3>2
    <3>4. \A i \in 1..Size(more[k]) : out[new[k] + i] = serialize(more[k])[i]
      BY <1>4, <3>1, <3>2, Zenon
    <3> QED
      BY <3>3, <3>4, Zenon
  <2> QED
    BY <1>2, <2>1, <2>2
<1>9. j \in 0..(L + 1) /\ new[j + 1] + d = 0 /\ (L + 1) + 1 = L + 2
  BY <1>1, <1>2, <1>6
<1>10. Carries(out, more, j, d)
  <2>1. new \in [1..(Len(more) + 1) -> Int] /\ j \in 0..Len(more)
    BY <1>5, <1>6, <1>9, Zenon
  <2>2. new[j + 1] + d = 0 /\ new[Len(more) + 1] = Len(out)
    BY <1>4, <1>5, <1>6, <1>9, Zenon
  <2>3. \A k \in (j + 1)..Len(more) :
          /\ new[k + 1] = new[k] + Size(more[k]) /\ new[k + 1] <= Len(out)
          /\ \A i \in 1..Size(more[k]) : new[k] + i > 0 => out[new[k] + i] = serialize(more[k])[i]
    BY <1>4, <1>5, <1>8, Zenon
  <2> QED
    BY <1>4, <2>1, <2>2, <2>3, Zenon DEF Carries
<1> QED
  BY <1>10, Zenon DEF out, more, frame

LEMMA RestCells ==
  ASSUME NEW stream \in Seq(Cells), NEW n \in 1..Len(stream)
  PROVE  /\ Rest(stream, n) \in Seq(Cells) /\ Len(Rest(stream, n)) = Len(stream) - n
         /\ \A i \in 1..(Len(stream) - n) : Rest(stream, n)[i] = stream[n + i]
BY SMTT(30) DEF Rest

\* The next n cells of a frame are read.
LEMMA CarriesTaken ==
  ASSUME NEW msgs \in Seq(Messages), NEW stream, NEW j \in 0..(Len(msgs) - 1), NEW d \in Nat,
         Carries(stream, msgs, j, d), NEW n \in 1..Len(stream),
         d + n <= Size(msgs[j + 1])
  PROVE  /\ d + n < Size(msgs[j + 1]) => Carries(Rest(stream, n), msgs, j, d + n)
         /\ d + n = Size(msgs[j + 1]) => Carries(Rest(stream, n), msgs, j + 1, 0)
         /\ \A i \in 1..n : stream[i] = serialize(msgs[j + 1])[d + i]
<1> DEFINE L == Len(msgs)
           f == Size(msgs[j + 1])
           rest == Rest(stream, n)
<1>1. PICK st \in [1..(L + 1) -> Int] :
       /\ st[j + 1] + d = 0 /\ st[L + 1] = Len(stream)
       /\ \A k \in (j + 1)..L :
            /\ st[k + 1] = st[k] + Size(msgs[k]) /\ st[k + 1] <= Len(stream)
            /\ \A i \in 1..Size(msgs[k]) :
                 st[k] + i > 0 => stream[st[k] + i] = serialize(msgs[k])[i]
  BY Zenon DEF Carries
<1>2. stream \in Seq(Cells) /\ Len(stream) \in Nat /\ L \in Nat /\ j + 1 \in 1..L
  BY CarriesCells
<1>3. \A k \in 1..L : Size(msgs[k]) \in Nat
  <2>1. \A k \in 1..L : msgs[k] \in Messages
    OBVIOUS
  <2> QED
    BY <2>1, FrameSize, Zenon
<1>4. /\ rest \in Seq(Cells) /\ Len(rest) = Len(stream) - n
      /\ \A i \in 1..(Len(stream) - n) : rest[i] = stream[n + i]
  BY <1>2, RestCells, Zenon
<1> DEFINE new == [k \in 1..(L + 1) |-> st[k] - n]
<1>5. new \in [1..(L + 1) -> Int] /\ \A k \in 1..(L + 1) : new[k] = st[k] - n
  BY <1>1, <1>2
<1> HIDE DEF L, f, rest, new
<1>6. f \in Nat /\ d + n <= f
  BY <1>2, <1>3, Zenon DEF f
<1>7. \A i \in 1..n : stream[i] = serialize(msgs[j + 1])[d + i]
  <2> SUFFICES ASSUME NEW i \in 1..n PROVE stream[i] = serialize(msgs[j + 1])[d + i]
    BY Zenon
  <2>0. st[j + 1] \in Int /\ st[j + 1] + d = 0
    BY <1>1, <1>2
  <2>1. d + i \in 1..f /\ i > 0
    BY <1>6
  <2>2. st[j + 1] + (d + i) = i
    BY <2>0, SMTT(30)
  <2>3. j + 1 \in (j + 1)..L
    BY <1>2
  <2> QED
    BY <1>1, <2>1, <2>2, <2>3, Zenon DEF f
<1>8. ASSUME NEW k \in (j + 1)..L
      PROVE  /\ new[k + 1] = new[k] + Size(msgs[k]) /\ new[k + 1] <= Len(rest)
             /\ \A i \in 1..Size(msgs[k]) :
                  new[k] + i > 0 => rest[new[k] + i] = serialize(msgs[k])[i]
  <2>1. k \in 1..L /\ k \in 1..(L + 1) /\ k + 1 \in 1..(L + 1)
    BY <1>2
  <2>2. /\ new[k] = st[k] - n /\ new[k + 1] = st[k + 1] - n
        /\ st[k] \in Int /\ st[k + 1] \in Int /\ Size(msgs[k]) \in Nat
    BY <1>1, <1>3, <1>5, <2>1, Zenon
  <2>3. st[k + 1] = st[k] + Size(msgs[k]) /\ st[k + 1] <= Len(stream)
    BY <1>1, Zenon
  <2>4. ASSUME NEW i \in 1..Size(msgs[k]), new[k] + i > 0
        PROVE  rest[new[k] + i] = serialize(msgs[k])[i]
    <3> DEFINE a == st[k]
               b == st[k + 1]
               z == Size(msgs[k])
               l == Len(stream)
               c == new[k]
    <3>2. a \in Int /\ b \in Int /\ z \in Nat /\ l \in Nat /\ n \in Nat
      BY <1>2, <2>2
    <3>3. i \in 1..z /\ c + i > 0
      BY <2>4, Zenon
    <3>4. c = a - n /\ b = a + z /\ b <= l
      BY <2>2, <2>3, Zenon
    <3> HIDE DEF a, b, z, l, c
    <3>a. c + i \in 1..(l - n) /\ n + (c + i) = a + i /\ a + i > 0
      BY <3>2, <3>3, <3>4
    <3>1. new[k] + i \in 1..(Len(stream) - n) /\ n + (new[k] + i) = st[k] + i /\ st[k] + i > 0
      BY <3>a, Zenon DEF a, l, c
    <3>5. stream[st[k] + i] = serialize(msgs[k])[i]
      BY <1>1, <3>1, Zenon
    <3> QED
      BY <1>4, <3>1, <3>5, Zenon
  <2>5. new[k + 1] = new[k] + Size(msgs[k]) /\ new[k + 1] <= Len(rest)
    <3> DEFINE a == st[k]
               b == st[k + 1]
               z == Size(msgs[k])
               l == Len(stream)
    <3>1. /\ a \in Int /\ b \in Int /\ z \in Nat /\ l \in Nat /\ n \in Nat
          /\ b = a + z /\ b <= l
      BY <1>2, <2>2, <2>3
    <3>2. new[k] = a - n /\ new[k + 1] = b - n /\ Len(rest) = l - n
      BY <1>4, <2>2, Zenon
    <3> HIDE DEF a, b, z, l
    <3>3. new[k + 1] = new[k] + z /\ new[k + 1] <= Len(rest)
      BY <3>1, <3>2
    <3> QED
      BY <3>3, Zenon DEF z
  <2> QED
    BY <2>4, <2>5, Zenon
<1>9. new[L + 1] = Len(rest) /\ new[j + 1] + (d + n) = 0
  <2>1. L + 1 \in 1..(L + 1) /\ j + 1 \in 1..(L + 1)
    BY <1>2
  <2>2. new[L + 1] = st[L + 1] - n /\ new[j + 1] = st[j + 1] - n /\ st[j + 1] \in Int
    BY <1>1, <1>5, <2>1, Zenon
  <2>3. st[j + 1] + d = 0 /\ st[L + 1] = Len(stream)
    BY <1>1, Zenon
  <2> QED
    BY <1>2, <1>4, <2>2, <2>3, SMTT(30)
<1>10. Carries(rest, msgs, j, d + n)
  BY <1>2, <1>4, <1>5, <1>8, <1>9, Zenon DEF Carries, L
<1>11. ASSUME d + n = f PROVE Carries(rest, msgs, j + 1, 0)
  <2>1. new[(j + 1) + 1] + 0 = 0
    <3>1. j + 1 \in (j + 1)..L /\ j + 1 \in 1..L /\ (j + 1) + 1 \in 1..(L + 1)
      BY <1>2
    <3>2. new[(j + 1) + 1] = new[j + 1] + f
      BY <1>8, <3>1, Zenon DEF f
    <3>3. new[j + 1] \in Int
      <4>1. j + 1 \in 1..(L + 1)
        BY <1>2
      <4> QED
        BY <1>5, <4>1, Zenon
    <3> QED
      BY <1>6, <1>9, <1>11, <3>2, <3>3, SMTT(30)
  <2>2. \A k \in ((j + 1) + 1)..L : k \in (j + 1)..L
    BY <1>2
  <2>3. j + 1 \in 0..L
    BY <1>2
  <2> QED
    BY <1>2, <1>4, <1>5, <1>8, <1>9, <2>1, <2>2, <2>3, Zenon DEF Carries, L
<1> QED
  BY <1>7, <1>10, <1>11, Zenon DEF f, rest, L

-----------------------------------------------------------------------------
(* Reading a frame, on either side: the header, then the rest. *)

LEMMA Stored ==
  ASSUME NEW buf \in Seq(Cells), NEW offset \in Nat, NEW cells \in Seq(Cells),
         offset + Len(cells) <= Len(buf)
  PROVE  /\ Store(buf, offset, cells) \in Seq(Cells) /\ Len(Store(buf, offset, cells)) = Len(buf)
         /\ \A i \in 1..offset : Store(buf, offset, cells)[i] = buf[i]
         /\ \A i \in 1..Len(cells) : Store(buf, offset, cells)[offset + i] = cells[i]
<1> DEFINE out == Store(buf, offset, cells)
<1>1. DOMAIN buf = 1..Len(buf) /\ Len(buf) \in Nat /\ Len(cells) \in Nat
  OBVIOUS
<1>2. \A i \in 1..Len(buf) : buf[i] \in Cells
  OBVIOUS
<1>3. \A i \in offset + 1..offset + Len(cells) : cells[i - offset] \in Cells
  <2> SUFFICES ASSUME NEW i \in offset + 1..offset + Len(cells) PROVE cells[i - offset] \in Cells
    BY Zenon
  <2>1. i - offset \in 1..Len(cells)
    BY <1>1
  <2> QED
    BY <2>1
<1>4. out = [i \in 1..Len(buf) |->
               IF i \in offset + 1..offset + Len(cells) THEN cells[i - offset] ELSE buf[i]]
  BY <1>1, Zenon DEF Store
<1>5. out \in [1..Len(buf) -> Cells]
  BY <1>2, <1>3, <1>4, Zenon
<1>6. out \in Seq(Cells) /\ Len(out) = Len(buf)
  BY <1>1, <1>5, IsASeq, LenProperties, Zenon
<1>7. ASSUME NEW i \in 1..offset PROVE out[i] = buf[i]
  BY <1>1, <1>4
<1>8. ASSUME NEW i \in 1..Len(cells) PROVE out[offset + i] = cells[i]
  <2>1. offset + i \in 1..Len(buf) /\ offset + i \in offset + 1..offset + Len(cells)
        /\ (offset + i) - offset = i
    BY <1>1
  <2> QED
    BY <1>4, <2>1, Zenon
<1> QED
  BY <1>6, <1>7, <1>8, Zenon

LEMMA Enlarged ==
  ASSUME NEW buf \in Seq(Cells), NEW size \in Nat
  PROVE  /\ Resized(buf, size) \in Seq(Cells)
         /\ Len(Resized(buf, size)) >= size /\ Len(Resized(buf, size)) >= Len(buf)
         /\ \A i \in 1..Len(buf) : Resized(buf, size)[i] = buf[i]
<1> DEFINE n == IF size > Len(buf) THEN size ELSE Len(buf)
           out == Resized(buf, size)
<1>1. n \in Nat /\ n >= size /\ n >= Len(buf) /\ Len(buf) \in Nat
  OBVIOUS
<1>2. out = [i \in 1..n |-> IF i <= Len(buf) THEN buf[i] ELSE Zero]
  BY Zenon DEF Resized
<1> HIDE DEF n
<1>3. \A i \in 1..n : i <= Len(buf) => buf[i] \in Cells
  BY <1>1
<1>4. out \in [1..n -> Cells]
  BY <1>2, <1>3, ZenonT(30) DEF Cells
<1>5. out \in Seq(Cells) /\ Len(out) = n
  BY <1>1, <1>4, IsASeq, LenProperties, Zenon
<1>6. \A i \in 1..Len(buf) : out[i] = buf[i]
  BY <1>1, <1>2
<1> QED
  BY <1>1, <1>5, <1>6, Zenon

LEMMA FrontOf ==
  ASSUME NEW stream \in Seq(Cells), NEW n \in 1..Len(stream)
  PROVE  /\ SubSeq(stream, 1, n) \in Seq(Cells) /\ Len(SubSeq(stream, 1, n)) = n
         /\ \A i \in 1..n : SubSeq(stream, 1, n)[i] = stream[i]
BY SMTT(30)

LEMMA HeaderTaken ==
  ASSUME NEW msgs \in Seq(Messages), NEW stream, NEW j, Carries(stream, msgs, j, 0),
         2 \in 1..Len(stream), NEW buf \in Seq(Cells), Len(buf) >= 3
  PROVE  LET new == Store(buf, 0, SubSeq(stream, 1, 2)) IN
         /\ j \in 0..(Len(msgs) - 1)
         /\ Carries(Rest(stream, 2), msgs, j, 2)
         /\ valid(new) /\ total_size(new) = Size(msgs[j + 1]) /\ total_size(new) > 2
         /\ new \in Seq(Cells) /\ Len(new) >= 3
         /\ Holds(Resized(new, total_size(new)), msgs[j + 1], 2)
         /\ Len(Resized(new, total_size(new))) >= 3
<1> DEFINE new == Store(buf, 0, SubSeq(stream, 1, 2))
           m == msgs[j + 1]
           size == Size(m)
<1>1. stream \in Seq(Cells) /\ Len(stream) \in Nat /\ Len(stream) > 0 /\ Len(buf) \in Nat
  BY CarriesCells, LenProperties
<1>2. j \in 0..(Len(msgs) - 1)
  BY <1>1, CarriesSome, Zenon
<1>3. m \in Messages
  BY <1>2
<1>4. size \in Nat /\ size >= 3
  BY <1>3, FrameSize, Zenon
<1>5. Carries(Rest(stream, 2), msgs, j, 2) /\ \A i \in 1..2 : stream[i] = serialize(m)[i]
  <2>1. 0 + 2 = 2 /\ 0 + 2 < Size(m) /\ 0 + 2 <= Size(m) /\ 0 \in Nat
    BY <1>4
  <2>2. Carries(Rest(stream, 2), msgs, j, 0 + 2) /\ \A i \in 1..2 : stream[i] = serialize(m)[0 + i]
    BY <1>2, <2>1, CarriesTaken, ZenonT(60)
  <2> QED
    BY <2>1, <2>2
<1>6. /\ SubSeq(stream, 1, 2) \in Seq(Cells) /\ Len(SubSeq(stream, 1, 2)) = 2
      /\ \A i \in 1..2 : SubSeq(stream, 1, 2)[i] = stream[i]
  BY <1>1, FrontOf, Zenon
<1>7. /\ new \in Seq(Cells) /\ Len(new) = Len(buf)
      /\ \A i \in 1..2 : new[0 + i] = stream[i]
  <2>1. 0 + Len(SubSeq(stream, 1, 2)) <= Len(buf) /\ 0 \in Nat
    BY <1>1, <1>6
  <2> DEFINE front == SubSeq(stream, 1, 2)
  <2>2. front \in Seq(Cells) /\ Len(front) = 2 /\ (\A i \in 1..2 : front[i] = stream[i])
        /\ 0 + Len(front) <= Len(buf)
    BY <1>6, <2>1, Zenon
  <2> HIDE DEF front
  <2>3. /\ Store(buf, 0, front) \in Seq(Cells) /\ Len(Store(buf, 0, front)) = Len(buf)
        /\ \A i \in 1..0 : Store(buf, 0, front)[i] = buf[i]
        /\ \A i \in 1..Len(front) : Store(buf, 0, front)[0 + i] = front[i]
    BY <2>1, <2>2, Stored, Zenon
  <2>4. /\ Store(buf, 0, front) \in Seq(Cells) /\ Len(Store(buf, 0, front)) = Len(buf)
        /\ \A i \in 1..2 : Store(buf, 0, front)[0 + i] = stream[i]
    BY <2>2, <2>3, Zenon
  <2> QED
    BY <2>4, Zenon DEF front
<1>8. new[1] = serialize(m)[1] /\ new[2] = serialize(m)[2]
  BY <1>5, <1>7
<1> HIDE DEF m, new
<1>9. valid(new) /\ total_size(new) = size
  BY <1>3, <1>8, HeaderRead, Zenon
<1> DEFINE big == Resized(new, size)
<1>10. /\ big \in Seq(Cells) /\ Len(big) >= size /\ Len(big) >= Len(new)
       /\ \A i \in 1..Len(new) : big[i] = new[i]
  BY <1>4, <1>7, Enlarged, Zenon
<1> HIDE DEF big
<1>11. \A i \in 1..2 : big[i] = serialize(m)[i]
  <2>1. 1 \in 1..Len(new) /\ 2 \in 1..Len(new)
    BY <1>1, <1>7
  <2>2. big[1] = serialize(m)[1] /\ big[2] = serialize(m)[2]
    BY <1>8, <1>10, <2>1, Zenon
  <2> QED
    BY <2>2
<1>12. Holds(big, m, 2) /\ Len(big) >= 3
  BY <1>1, <1>4, <1>7, <1>10, <1>11 DEF Holds
<1>13. total_size(new) > 2 /\ Len(new) >= 3
  BY <1>4, <1>7, <1>9
<1> QED
  BY <1>2, <1>5, <1>7, <1>9, <1>12, <1>13, Zenon DEF new, m, big

LEMMA BodyTaken ==
  ASSUME NEW msgs \in Seq(Messages), NEW stream, NEW j \in 0..(Len(msgs) - 1),
         Carries(stream, msgs, j, 2),
         NEW buf, Holds(buf, msgs[j + 1], 2), NEW n \in 1..Len(stream), n = Remaining(buf)
  PROVE  /\ Carries(Rest(stream, n), msgs, j + 1, 0)
         /\ Holds(Store(buf, HeaderSize, SubSeq(stream, 1, n)), msgs[j + 1], Size(msgs[j + 1]))
<1> DEFINE m == msgs[j + 1]
           size == Size(m)
           front == SubSeq(stream, 1, n)
           new == Store(buf, 2, front)
<1>1. m \in Messages /\ size \in Nat /\ size >= 3
  BY FrameSize, SMTT(30)
<1>2. buf \in Seq(Cells) /\ Len(buf) >= size /\ Len(buf) \in Nat
      /\ \A i \in 1..2 : buf[i] = serialize(m)[i]
  BY DEF Holds
<1>3. stream \in Seq(Cells)
  BY Zenon DEF Carries
<1>4. n = size - 2
  <2>1. buf[1] = serialize(m)[1] /\ buf[2] = serialize(m)[2]
    BY <1>2
  <2> HIDE DEF m
  <2>2. total_size(buf) = size
    BY <1>1, <2>1, HeaderRead, Zenon
  <2> QED
    BY <2>2, Zenon DEF Remaining, HeaderSize
<1>5. Carries(Rest(stream, n), msgs, j + 1, 0) /\ \A i \in 1..n : stream[i] = serialize(m)[2 + i]
  <2>1. 2 \in Nat /\ 2 + n = size /\ 2 + n <= size
    BY <1>1, <1>4, SMTT(30)
  <2> QED
    BY <2>1, CarriesTaken, SMTT(20)
<1>6. front \in Seq(Cells) /\ Len(front) = n /\ \A i \in 1..n : front[i] = stream[i]
  BY <1>3, FrontOf, Zenon
<1> HIDE DEF m, front, size
<1>7. /\ new \in Seq(Cells) /\ Len(new) = Len(buf)
      /\ \A i \in 1..2 : new[i] = buf[i]
      /\ \A i \in 1..n : new[2 + i] = front[i]
  <2>1. 2 \in Nat /\ 2 + Len(front) <= Len(buf)
    BY <1>1, <1>2, <1>4, <1>6
  <2> QED
    BY <1>2, <1>6, <2>1, Stored, SMTT(30)
<1> HIDE DEF new
<1>8. ASSUME NEW i \in 1..size PROVE new[i] = serialize(m)[i]
  <2>1. CASE i \in 1..2
    BY <1>2, <1>7, <2>1, Zenon
  <2>2. CASE i \notin 1..2
    <3>1. i - 2 \in 1..n /\ 2 + (i - 2) = i
      BY <1>1, <1>4, <2>2
    <3>2. new[2 + (i - 2)] = serialize(m)[2 + (i - 2)]
      BY <1>5, <1>6, <1>7, <3>1, Zenon
    <3> QED
      BY <3>1, <3>2, Zenon
  <2> QED
    BY <2>1, <2>2, Zenon
<1>9. Holds(new, m, size)
  BY <1>2, <1>7, <1>8, Zenon DEF Holds, size
<1> QED
  BY <1>5, <1>9, Zenon DEF new, m, front, size, HeaderSize

-----------------------------------------------------------------------------
(* The server. *)

Current == asked[Len(replied) + 1]

\* Where the server stands in the stream of requests while no transfer was short: it has
\* written one reply for each message before the current one.
Serving ==
  /\ asked \in Seq(Requests \cup Heartbeats) /\ replied \in Seq(Replies)
  /\ buffer \in Seq(Cells) /\ Len(buffer) >= 3
  /\ Len(replied) <= Len(asked)
  /\ \A k \in 1..Len(replied) : Answers(replied[k], asked[k])
  /\ spc = "header" => Carries(c2s, asked, Len(replied), 0)
  /\ spc \in {"body", "message", "invoke", "reply"} => Len(replied) < Len(asked)
  /\ spc = "body" => Carries(c2s, asked, Len(replied), 2) /\ Holds(buffer, Current, 2)
  /\ spc \in {"message", "invoke", "reply"} => Carries(c2s, asked, Len(replied) + 1, 0)
  /\ spc = "message" => Holds(buffer, Current, Size(Current))
  /\ spc = "invoke" => msg = Current /\ Current.type = "Request"
  /\ spc = "reply" => \E r \in Replies : response = serialize(r) /\ Answers(r, Current)

ServerInv == torn \in Nat /\ request_id_ \in Nat /\ (torn = 0 => Serving)

\* Once a transfer was short torn stays positive; otherwise it moved all.
LEMMA HeldCells ==
  ASSUME NEW m \in Messages, NEW buf, NEW n, Holds(buf, m, n)
  PROVE  buf \in Seq(Cells) /\ Len(buf) \in Nat /\ Len(buf) >= 3
<1>1. buf \in Seq(Cells) /\ Len(buf) >= Size(m)
  BY Zenon DEF Holds
<1>2. Len(buf) \in Nat
  BY <1>1, LenProperties, Zenon
<1> QED
  BY <1>1, <1>2, FrameSize

LEMMA HeldHeader ==
  ASSUME NEW m \in Messages, NEW buf, Holds(buf, m, 2)
  PROVE  /\ total_size(buf) = Size(m) /\ Size(m) \in Nat /\ Size(m) >= 3
         /\ Remaining(buf) \in Nat
<1>1. 1 \in 1..2 /\ 2 \in 1..2
  OBVIOUS
<1>2. buf[1] = serialize(m)[1] /\ buf[2] = serialize(m)[2]
  BY <1>1, Zenon DEF Holds
<1>3. total_size(buf) = Size(m) /\ Size(m) \in Nat /\ Size(m) >= 3
  BY <1>2, HeaderRead, FrameSize, Zenon
<1> QED
  BY <1>3 DEF Remaining, HeaderSize

LEMMA TornGrows ==
  ASSUME torn \in Nat, NEW n, NEW size, CountTorn(n, size)
  PROVE  torn' \in Nat /\ (torn' = 0 => torn = 0 /\ ~(n < size))
BY DEF CountTorn

LEMMA AllMoved ==
  ASSUME NEW size \in Nat, NEW available \in Nat, NEW n \in Moves(size, available), ~(n < size)
  PROVE  n = size /\ n \in 1..available
BY DEF Moves

LEMMA ServingTypes ==
  ASSUME Serving
  PROVE  /\ asked \in Seq(Requests \cup Heartbeats) /\ replied \in Seq(Replies)
         /\ asked \in Seq(Messages) /\ replied \in Seq(Messages)
         /\ Len(asked) \in Nat /\ Len(replied) \in Nat /\ Len(replied) <= Len(asked)
         /\ buffer \in Seq(Cells) /\ Len(buffer) >= 3
<1>1. /\ asked \in Seq(Requests \cup Heartbeats) /\ replied \in Seq(Replies)
      /\ Len(replied) <= Len(asked) /\ buffer \in Seq(Cells) /\ Len(buffer) >= 3
  BY Zenon DEF Serving
<1>2. Requests \cup Heartbeats \subseteq Messages /\ Replies \subseteq Messages
  BY Zenon DEF Messages
<1>3. asked \in Seq(Messages)
  BY <1>1, <1>2, SeqMonotonic, Zenon
<1>4. replied \in Seq(Messages)
  BY <1>1, <1>2, SeqMonotonic, Zenon
<1>5. Len(asked) \in Nat /\ Len(replied) \in Nat
  BY <1>3, <1>4, LenProperties, Zenon
<1> QED
  BY <1>1, <1>3, <1>4, <1>5, Zenon

LEMMA CurrentMessage ==
  ASSUME Serving, Len(replied) < Len(asked)
  PROVE  /\ Len(replied) \in 0..(Len(asked) - 1)
         /\ Current \in Requests \cup Heartbeats /\ Current \in Messages
<1>1. Len(replied) \in 0..(Len(asked) - 1) /\ Len(replied) + 1 \in 1..Len(asked)
  BY ServingTypes
<1>2. Current \in Requests \cup Heartbeats
  BY <1>1, ServingTypes, ElementOfSeq, Zenon DEF Current
<1> QED
  BY <1>1, <1>2, Zenon DEF Messages

LEMMA FreshCells == Fresh \in Seq(Cells) /\ Len(Fresh) >= 3
<1>1. InitialSize \in Nat /\ InitialSize >= 3
  BY RpcAssumption DEF HeaderSize, MetaSize
<1>2. Fresh \in [1..InitialSize -> Cells]
  BY Zenon DEF Fresh, Cells
<1>3. Fresh \in Seq(Cells)
  BY <1>1, <1>2, IsASeq, Zenon
<1>4. Len(Fresh) = InitialSize
  BY <1>1, <1>2, <1>3, LenProperties DEF Fresh
<1> QED
  BY <1>1, <1>3, <1>4, Zenon

LEMMA ServerInit == Init => ServerInv
<1> SUFFICES ASSUME Init PROVE ServerInv
  BY Zenon
<1>1. asked = <<>> /\ replied = <<>> /\ c2s = <<>> /\ spc = "header" /\ buffer = Fresh
      /\ torn = 0 /\ request_id_ = 0
  BY Zenon DEF Init
<1>2. <<>> \in Seq(Messages) /\ <<>> \in Seq(Requests \cup Heartbeats) /\ <<>> \in Seq(Replies)
      /\ Len(<<>>) = 0
  OBVIOUS
<1>3. Carries(<<>>, <<>>, 0, 0)
  BY <1>2, CarriesNothing, ZenonT(30)
<1> QED
  BY <1>1, <1>2, <1>3, FreshCells DEF ServerInv, Serving

LEMMA ServerKept ==
  ASSUME ServerInv, request_id_' \in Nat,
         UNCHANGED <<torn, c2s, spc, buffer, msg, response, asked, replied>>
  PROVE  ServerInv'
BY Zenon DEF ServerInv, Serving, Current

\* The client reads.
LEMMA ServerUnread ==
  ASSUME ServerInv, torn' \in Nat, torn' = 0 => torn = 0,
         UNCHANGED <<request_id_, c2s, spc, buffer, msg, response, asked, replied>>
  PROVE  ServerInv'
BY Zenon DEF ServerInv, Serving, Current

\* A message sent whole lies behind those that are on their way.
LEMMA ServerSent ==
  ASSUME ServerInv, NEW m \in Requests \cup Heartbeats, Send(m),
         UNCHANGED <<spc, buffer, msg, response, replied>>
  PROVE  ServerInv'
<1>1. m \in Messages
  BY Zenon DEF Messages
<1>2. serialize(m) \in Seq(Cells) /\ Len(serialize(m)) \in Nat
  BY <1>1, FrameSize, Zenon DEF Size
<1>3. torn \in Nat /\ request_id_ \in Nat
  BY Zenon DEF ServerInv
<1>4. PICK n \in Moves(Len(serialize(m)), Len(serialize(m))) :
         /\ c2s' = c2s \o SubSeq(serialize(m), 1, n)
         /\ CountTorn(n, Len(serialize(m)))
  BY Zenon DEF Send
<1>5. torn' \in Nat /\ request_id_' \in Nat /\ asked' = Append(asked, m)
  BY <1>3, <1>4, TornGrows DEF Send
<1> SUFFICES ASSUME torn' = 0 PROVE Serving'
  BY <1>5, Zenon DEF ServerInv
<1>6. torn = 0 /\ ~(n < Len(serialize(m)))
  BY <1>3, <1>4, TornGrows, Zenon
<1>7. n = Len(serialize(m))
  BY <1>2, <1>6, AllMoved, Zenon
<1>8. c2s' = c2s \o serialize(m)
  BY <1>2, <1>4, <1>7
<1>9. Serving
  BY <1>6, Zenon DEF ServerInv
<1>10. asked \in Seq(Messages) /\ asked \in Seq(Requests \cup Heartbeats) /\ replied \in Seq(Replies)
  BY <1>9, ServingTypes, Zenon
<1>11. ASSUME NEW j, NEW d \in Nat, Carries(c2s, asked, j, d) PROVE Carries(c2s', asked', j, d)
  BY <1>1, <1>5, <1>8, <1>10, <1>11, CarriesSent, Zenon
<1>12. /\ asked' \in Seq(Requests \cup Heartbeats) /\ Len(asked') = Len(asked) + 1
       /\ \A k \in 1..Len(asked) : asked'[k] = asked[k]
  BY <1>5, <1>10
<1>13. Len(asked) \in Nat /\ Len(replied) \in Nat /\ Len(replied) <= Len(asked)
  BY <1>9, ServingTypes, Zenon
<1>14. Len(replied) < Len(asked) => Current' = Current
  BY <1>12, <1>13 DEF Current
<1>15. \A k \in 1..Len(replied) : Answers(replied[k], asked'[k])
  <2>1. \A k \in 1..Len(replied) : Answers(replied[k], asked[k])
    BY <1>9, Zenon DEF Serving
  <2>2. \A k \in 1..Len(replied) : k \in 1..Len(asked)
    BY <1>13, SMTT(30)
  <2> QED
    BY <1>12, <2>1, <2>2, Zenon
<1>16. /\ spc = "header" => Carries(c2s', asked', Len(replied), 0)
       /\ spc = "body" => Carries(c2s', asked', Len(replied), 2)
       /\ spc \in {"message", "invoke", "reply"} => Carries(c2s', asked', Len(replied) + 1, 0)
  BY <1>9, <1>11, Zenon DEF Serving
<1>17. spc \in {"body", "message", "invoke", "reply"} => Current' = Current /\ Len(replied) < Len(asked')
  <2>1. spc \in {"body", "message", "invoke", "reply"} => Len(replied) < Len(asked)
    BY <1>9, Zenon DEF Serving
  <2> QED
    BY <1>12, <1>13, <1>14, <2>1
<1>18. Len(replied) <= Len(asked')
  BY <1>12, <1>13, SMTT(30)
<1> QED
  BY <1>9, <1>12, <1>15, <1>16, <1>17, <1>18, Zenon DEF Serving

LEMMA ServerEnded ==
  ASSUME ServerInv, spc' = "ended", torn' \in Nat, torn' = 0 => torn = 0,
         UNCHANGED <<request_id_, asked, replied>>,
         torn' = 0 => buffer' \in Seq(Cells) /\ Len(buffer') >= 3
  PROVE  ServerInv'
BY Zenon DEF ServerInv, Serving

LEMMA ServerReadsHeader ==
  ASSUME ServerInv, ReadHeader
  PROVE  ServerInv'
<1>1. spc = "header" /\ UNCHANGED <<request_id_, asked, replied, msg, response>>
  BY Zenon DEF ReadHeader, client
<1>2. torn \in Nat /\ (torn = 0 => buffer \in Seq(Cells) /\ Len(buffer) >= 3)
  BY Zenon DEF ServerInv, Serving
<1>3. CASE spc' = "ended" /\ UNCHANGED <<buffer, torn>>
  BY <1>1, <1>2, <1>3, ServerEnded, Zenon
<1>4. ASSUME NEW n \in Moves(HeaderSize, Len(c2s)), c2s' = Rest(c2s, n), CountTorn(n, HeaderSize),
             AcceptHeader(Store(buffer, 0, SubSeq(c2s, 1, n)))
      PROVE  ServerInv'
  <2>1. torn' \in Nat /\ (torn' = 0 => torn = 0 /\ ~(n < HeaderSize)) /\ request_id_' \in Nat
    BY <1>1, <1>2, <1>4, TornGrows, Zenon DEF ServerInv
  <2> SUFFICES ASSUME torn' = 0 PROVE Serving'
    BY <2>1, Zenon DEF ServerInv
  <2>2. Serving /\ asked \in Seq(Messages) /\ Carries(c2s, asked, Len(replied), 0)
    BY <1>1, <2>1, ServingTypes, Zenon DEF ServerInv, Serving
  <2>3. n = 2 /\ 2 \in 1..Len(c2s)
    <3>1. Len(c2s) \in Nat /\ HeaderSize \in Nat
      BY <2>2, CarriesCells, Zenon DEF HeaderSize
    <3> QED
      BY <2>1, <3>1, AllMoved, ZenonT(60) DEF HeaderSize
  <2> DEFINE new == Store(buffer, 0, SubSeq(c2s, 1, 2))
  <2>4. /\ Len(replied) \in 0..(Len(asked) - 1)
        /\ Carries(Rest(c2s, 2), asked, Len(replied), 2)
        /\ valid(new) /\ total_size(new) = Size(Current) /\ total_size(new) > 2
        /\ new \in Seq(Cells) /\ Len(new) >= 3
        /\ Holds(Resized(new, total_size(new)), Current, 2)
        /\ Len(Resized(new, total_size(new))) >= 3
    BY <1>2, <2>1, <2>2, <2>3, HeaderTaken, Zenon DEF Current
  <2>5. CASE spc' = "ended" /\ buffer' = new
    BY <1>1, <2>1, <2>2, <2>4, <2>5, ZenonT(30) DEF Serving
  <2>6. CASE spc' = "body" /\ buffer' = Resized(new, total_size(new))
    <3>1. Current' = Current /\ c2s' = Rest(c2s, 2) /\ asked' = asked /\ replied' = replied
      BY <1>1, <1>4, <2>3, Zenon DEF Current
    <3>2. buffer' \in Seq(Cells) /\ Len(buffer') >= 3
      BY <2>4, <2>6, Zenon DEF Holds
    <3>3. Len(replied) < Len(asked)
      BY <2>2, <2>4, ServingTypes
    <3>4. Carries(c2s', asked', Len(replied'), 2) /\ Holds(buffer', Current', 2)
      BY <2>4, <2>6, <3>1, Zenon
    <3> QED
      BY <2>2, <2>6, <3>1, <3>2, <3>3, <3>4, Zenon DEF Serving
  <2> QED
    BY <1>4, <2>3, <2>4, <2>5, <2>6, Zenon DEF AcceptHeader, EndConnection, HeaderSize
<1> QED
  BY <1>3, <1>4, Zenon DEF ReadHeader, EndConnection

LEMMA ServerReadsBody ==
  ASSUME ServerInv, ReadBody
  PROVE  ServerInv'
<1>1. spc = "body" /\ UNCHANGED <<request_id_, asked, replied, msg, response>>
  BY Zenon DEF ReadBody, client
<1>2. torn \in Nat /\ (torn = 0 => buffer \in Seq(Cells) /\ Len(buffer) >= 3)
  BY Zenon DEF ServerInv, Serving
<1>3. CASE spc' = "ended" /\ UNCHANGED <<buffer, torn>>
  BY <1>1, <1>2, <1>3, ServerEnded, Zenon
<1>4. ASSUME NEW n \in Moves(Remaining(buffer), Len(c2s)), c2s' = Rest(c2s, n),
             CountTorn(n, Remaining(buffer)), spc' = "message",
             buffer' = Store(buffer, HeaderSize, SubSeq(c2s, 1, n))
      PROVE  ServerInv'
  <2>1. torn' \in Nat /\ (torn' = 0 => torn = 0 /\ ~(n < Remaining(buffer))) /\ request_id_' \in Nat
    BY <1>1, <1>2, <1>4, TornGrows, Zenon DEF ServerInv
  <2> SUFFICES ASSUME torn' = 0 PROVE Serving'
    BY <2>1, Zenon DEF ServerInv
  <2>2. /\ Serving /\ asked \in Seq(Messages) /\ Carries(c2s, asked, Len(replied), 2)
        /\ Holds(buffer, Current, 2) /\ Len(replied) < Len(asked)
    BY <1>1, <2>1, ServingTypes, Zenon DEF ServerInv, Serving
  <2>3. Len(replied) \in Nat /\ Len(asked) \in Nat /\ Len(replied) \in 0..(Len(asked) - 1)
        /\ Current \in Messages
    BY <2>2, ServingTypes, CurrentMessage, Zenon
  <2>4. n = Remaining(buffer) /\ n \in 1..Len(c2s)
    <3>1. Remaining(buffer) \in Nat /\ Len(c2s) \in Nat
      BY <2>2, <2>3, HeldHeader, CarriesCells, Zenon
    <3> QED
      BY <2>1, <3>1, AllMoved, Zenon
  <2>5. /\ Carries(c2s', asked, Len(replied) + 1, 0) /\ Holds(buffer', Current, Size(Current))
    BY <1>4, <2>2, <2>3, <2>4, BodyTaken, Zenon DEF Current
  <2>6. Current' = Current /\ asked' = asked /\ replied' = replied
    BY <1>1, Zenon DEF Current
  <2>7. buffer' \in Seq(Cells) /\ Len(buffer') >= 3
    BY <2>3, <2>5, HeldCells, Zenon
  <2> QED
    BY <1>4, <2>2, <2>5, <2>6, <2>7, Zenon DEF Serving
<1> QED
  BY <1>3, <1>4, Zenon DEF ReadBody, EndConnection

\* What the server may reply.
LEMMA ReplyKinds ==
  ASSUME NEW id \in Nat
  PROVE  /\ \A p \in Seq(DataCells) : create_response(id, p) \in Replies
         /\ create_error(id, "ServiceNotFound") \in Replies /\ create_error(id, "Unknown") \in Replies
<1>1. <<>> \in Seq(DataCells)
  OBVIOUS
<1> QED
  BY <1>1, ZenonT(30) DEF create_response, create_error, Replies, Codes

LEMMA ServerHandles ==
  ASSUME ServerInv, HandleMessage
  PROVE  ServerInv'
<1>1. spc = "message" /\ UNCHANGED <<request_id_, torn, asked, replied, buffer, c2s>>
  BY Zenon DEF HandleMessage, client, history
<1> SUFFICES ASSUME torn = 0 PROVE Serving'
  BY <1>1, Zenon DEF ServerInv
<1>2. /\ Serving /\ asked \in Seq(Requests \cup Heartbeats)
      /\ Carries(c2s, asked, Len(replied) + 1, 0) /\ Holds(buffer, Current, Size(Current))
      /\ Len(replied) < Len(asked)
  BY <1>1, Zenon DEF ServerInv, Serving
<1>3. Current \in Requests \cup Heartbeats /\ Current \in Messages
  BY <1>2, CurrentMessage, Zenon
<1> DEFINE m == Deserialized(buffer)
<1>4. /\ CanDeserialize(buffer, total_size(buffer))
      /\ Current \in Requests => m = Current
      /\ Current \in Heartbeats => m.type = "Heartbeat" /\ m.request_id = 0
  BY <1>2, <1>3, Decode, Zenon
<1> HIDE DEF m
<1>5. Current' = Current
  BY <1>1, Zenon DEF Current
<1>6. CASE Current \in Requests
  <2>1. Current.type = "Request" /\ Current.request_id \in Nat /\ m = Current
    BY <1>4, <1>6, Zenon DEF Requests
  <2>2. CASE spc' = "invoke" /\ msg' = m
    BY <1>1, <1>2, <1>5, <2>1, <2>2, ZenonT(30) DEF Serving
  <2>3. CASE spc' = "reply" /\ response' = serialize(create_error(m.request_id, "ServiceNotFound"))
    <3>1. create_error(m.request_id, "ServiceNotFound") \in Replies
      BY <2>1, ReplyKinds, Zenon
    <3>2. Answers(create_error(m.request_id, "ServiceNotFound"), Current)
      BY <2>1, Zenon DEF Answers, create_error, create_response
    <3> QED
      BY <1>1, <1>2, <1>5, <2>3, <3>1, <3>2, Zenon DEF Serving
  <2> QED
    BY <1>4, <2>1, <2>2, <2>3, Zenon DEF HandleMessage, m
<1>7. CASE Current \in Heartbeats
  <2>1. Current.type = "Heartbeat" /\ m.type = "Heartbeat" /\ m.request_id = 0
    BY <1>4, <1>7, Zenon DEF Heartbeats
  <2>2. spc' = "reply" /\ response' = serialize(create_response(0, <<>>))
    BY <1>4, <2>1, Zenon DEF HandleMessage, m
  <2>3. create_response(0, <<>>) \in Replies
    <3>1. <<>> \in Seq(DataCells) /\ 0 \in Nat
      OBVIOUS
    <3> QED
      BY <3>1, ReplyKinds, Zenon
  <2>4. Answers(create_response(0, <<>>), Current)
    BY <2>1, Zenon DEF Answers
  <2> QED
    BY <1>1, <1>2, <1>5, <2>2, <2>3, <2>4, Zenon DEF Serving
<1> QED
  BY <1>3, <1>6, <1>7, Zenon

LEMMA ServerInvokes ==
  ASSUME ServerInv, Invoke
  PROVE  ServerInv'
<1>1. spc = "invoke" /\ spc' = "reply" /\ UNCHANGED <<request_id_, torn, asked, replied, buffer, c2s, msg>>
  BY Zenon DEF Invoke, client, history
<1> SUFFICES ASSUME torn = 0 PROVE Serving'
  BY <1>1, Zenon DEF ServerInv
<1>2. /\ Serving /\ asked \in Seq(Requests \cup Heartbeats) /\ msg = Current /\ Current.type = "Request"
      /\ Carries(c2s, asked, Len(replied) + 1, 0) /\ Len(replied) < Len(asked)
  BY <1>1, Zenon DEF ServerInv, Serving
<1>3. Current \in Requests
  <2>1. Current \in Requests \cup Heartbeats
    BY <1>2, CurrentMessage, Zenon
  <2> QED
    BY <1>2, <2>1, Zenon DEF Heartbeats
<1>4. Current' = Current
  BY <1>1, Zenon DEF Current
<1>5. Current.request_id \in Nat /\ Current.payload \in Seq(DataCells)
  BY <1>3, Zenon DEF Requests
<1>6. \E r \in Replies : response' = serialize(r) /\ Answers(r, Current)
  <2>1. CASE response' = serialize(create_response(msg.request_id, msg.payload))
    <3>1. create_response(Current.request_id, Current.payload) \in Replies
      BY <1>5, ReplyKinds, Zenon
    <3>2. Answers(create_response(Current.request_id, Current.payload), Current)
      BY Zenon DEF Answers, create_response
    <3> QED
      BY <1>2, <2>1, <3>1, <3>2, Zenon
  <2>2. CASE response' = serialize(create_error(msg.request_id, "Unknown"))
    <3>1. create_error(Current.request_id, "Unknown") \in Replies
      BY <1>5, ReplyKinds, Zenon
    <3>2. Answers(create_error(Current.request_id, "Unknown"), Current)
      BY Zenon DEF Answers, create_error, create_response
    <3> QED
      BY <1>2, <2>2, <3>1, <3>2, Zenon
  <2> QED
    BY <2>1, <2>2, Zenon DEF Invoke
<1> QED
  BY <1>1, <1>2, <1>4, <1>6, Zenon DEF Serving

\* A reply written whole is the one that answers the current message.
LEMMA ReplyWritten ==
  ASSUME ServerInv, WriteReply, open
  PROVE  /\ torn' \in Nat /\ spc = "reply" /\ spc' = "header" /\ open'
         /\ torn' = 0 => /\ torn = 0
                         /\ \E r \in Replies : /\ s2c' = s2c \o serialize(r)
                                               /\ replied' = Append(replied, r)
                                               /\ Answers(r, Current)
<1>1. PICK n \in Moves(Len(response), Len(response)) :
         /\ s2c' = s2c \o SubSeq(response, 1, n) /\ CountTorn(n, Len(response))
         /\ spc' = "header" /\ replied' = Append(replied, Deserialized(response)) /\ UNCHANGED open
  BY Zenon DEF WriteReply
<1>2. spc = "reply" /\ torn \in Nat
  BY Zenon DEF WriteReply, ServerInv
<1>3. torn' \in Nat /\ (torn' = 0 => torn = 0 /\ ~(n < Len(response)))
  BY <1>1, <1>2, TornGrows, Zenon
<1>4. ASSUME torn' = 0
      PROVE  \E r \in Replies : /\ s2c' = s2c \o serialize(r) /\ replied' = Append(replied, r)
                                /\ Answers(r, Current)
  <2>1. PICK r \in Replies : response = serialize(r) /\ Answers(r, Current)
    BY <1>2, <1>3, <1>4, Zenon DEF ServerInv, Serving
  <2>2. r \in Messages /\ response \in Seq(Cells) /\ Len(response) \in Nat
    BY <2>1, FrameSize, Zenon DEF Messages, Size
  <2>3. n = Len(response)
    BY <1>3, <1>4, <2>2, AllMoved, Zenon
  <2>4. SubSeq(response, 1, n) = response
    BY <2>2, <2>3
  <2>5. Deserialized(response) = r
    <3>1. Holds(response, r, Size(r))
      BY <2>1, <2>2 DEF Holds, Size
    <3> QED
      BY <2>2, <3>1, Decode, Zenon
  <2> QED
    BY <1>1, <2>1, <2>4, <2>5, ZenonT(30)
<1> QED
  BY <1>1, <1>2, <1>3, <1>4, Zenon

LEMMA ServerReplies ==
  ASSUME ServerInv, WriteReply
  PROVE  ServerInv'
<1>1. UNCHANGED <<request_id_, asked, buffer, c2s, msg, response>> /\ spc = "reply"
  BY Zenon DEF WriteReply, client
<1>2. torn \in Nat /\ (torn = 0 => buffer \in Seq(Cells) /\ Len(buffer) >= 3)
  BY Zenon DEF ServerInv, Serving
<1>3. CASE ~open
  <2>1. spc' = "ended" /\ UNCHANGED <<torn, replied>>
    BY <1>3, Zenon DEF WriteReply, EndConnection
  <2> QED
    BY <1>1, <1>2, <2>1, ServerEnded, Zenon
<1>4. CASE open
  <2>1. torn' \in Nat /\ request_id_' \in Nat
    BY <1>1, <1>4, ReplyWritten, Zenon DEF ServerInv
  <2> SUFFICES ASSUME torn' = 0 PROVE Serving'
    BY <2>1, Zenon DEF ServerInv
  <2>2. PICK r \in Replies : replied' = Append(replied, r) /\ Answers(r, Current)
    BY <1>4, ReplyWritten, Zenon
  <2>3. Serving /\ spc' = "header"
    BY <1>4, ReplyWritten, Zenon DEF ServerInv
  <2>4. /\ replied \in Seq(Replies) /\ Len(replied) \in Nat /\ Len(asked) \in Nat
        /\ Len(replied) < Len(asked) /\ Carries(c2s, asked, Len(replied) + 1, 0)
    <3>1. Len(replied) < Len(asked) /\ Carries(c2s, asked, Len(replied) + 1, 0)
      BY <1>1, <2>3, Zenon DEF Serving
    <3> QED
      BY <2>3, <3>1, ServingTypes, Zenon
  <2>5. /\ replied' \in Seq(Replies) /\ Len(replied') = Len(replied) + 1 /\ Len(replied') <= Len(asked)
        /\ replied'[Len(replied) + 1] = r /\ \A k \in 1..Len(replied) : replied'[k] = replied[k]
    BY <2>2, <2>4
  <2>6. ASSUME NEW k \in 1..Len(replied') PROVE Answers(replied'[k], asked[k])
    <3>1. CASE k \in 1..Len(replied)
      BY <2>3, <2>5, <3>1, Zenon DEF Serving
    <3>2. CASE k = Len(replied) + 1
      BY <2>2, <2>5, <3>2, Zenon DEF Current
    <3> QED
      BY <2>4, <2>5, <3>1, <3>2, SMTT(30)
  <2>7. Carries(c2s', asked', Len(replied'), 0)
    BY <1>1, <2>4, <2>5, Zenon
  <2> QED
    BY <1>1, <2>3, <2>5, <2>6, <2>7, Zenon DEF Serving
<1> QED
  BY <1>3, <1>4, Zenon

-----------------------------------------------------------------------------
(* The client. *)

Tagged(m) == m \in Requests /\ \A i \in DOMAIN m.payload : m.payload[i] = Data(m.request_id)
Last == Len(asked)
Sound(r) == (r.rid # GarbageId => r.rid = r.id) /\ (r.code = "OK" => r.payload[1] = Data(r.id))

\* Where the client stands in the stream of replies while no transfer was short and every
\* message was a call's: it has read the replies to all its calls but the current one.
Calling ==
  /\ \A k \in 1..Len(asked) : Tagged(asked[k])
  /\ response_buffer \in Seq(Cells) /\ Len(response_buffer) >= 3
  /\ cpc = "idle" /\ open => Carries(s2c, replied, Last, 0)
  /\ cpc \in {"header", "body", "message"} => Last > 0 /\ call = asked[Last]
  /\ cpc = "header" => Carries(s2c, replied, Last - 1, 0)
  /\ cpc = "body" => Carries(s2c, replied, Last - 1, 2) /\ Holds(response_buffer, replied[Last], 2)
  /\ cpc = "message" => /\ Carries(s2c, replied, Last, 0)
                        /\ Holds(response_buffer, replied[Last], Size(replied[Last]))
  /\ \A r \in results : Sound(r)

ClientInv == ServerInv /\ strays \in Nat /\ (torn = 0 /\ strays = 0 => Calling)

LEMMA ClientInit == Init => ClientInv
<1> SUFFICES ASSUME Init PROVE ClientInv
  BY Zenon
<1>1. asked = <<>> /\ replied = <<>> /\ s2c = <<>> /\ cpc = "idle" /\ response_buffer = Fresh
      /\ results = {} /\ strays = 0
  BY Zenon DEF Init
<1>2. <<>> \in Seq(Messages) /\ Len(<<>>) = 0
  OBVIOUS
<1>3. Carries(<<>>, <<>>, 0, 0)
  BY <1>2, CarriesNothing, Zenon
<1> QED
  BY <1>1, <1>2, <1>3, FreshCells, ServerInit DEF ClientInv, Calling, Last

LEMMA ClientKept ==
  ASSUME ClientInv, ServerInv', torn' = 0 => torn = 0, open' => open,
         UNCHANGED <<strays, s2c, cpc, response_buffer, call, results, asked, replied>>
  PROVE  ClientInv'
BY Zenon DEF ClientInv, Calling, Last

\* A client that has read the header of a reply waits for a reply that was written.
LEMMA ReplyUnderWay ==
  ASSUME Serving, Carries(s2c, replied, Last - 1, 2)
  PROVE  /\ Last - 1 \in 0..(Len(replied) - 1) /\ Last \in 1..Len(replied)
         /\ (Last - 1) + 1 = Last /\ replied[Last] \in Messages
<1>1. Last \in Nat /\ Len(replied) \in Nat /\ replied \in Seq(Messages)
  BY ServingTypes, Zenon DEF Last
<1> HIDE DEF Last
<1>2. Last - 1 \in 0..(Len(replied) - 1)
  BY <1>1, CarriesSome
<1>3. Last \in 1..Len(replied) /\ (Last - 1) + 1 = Last
  BY <1>1, <1>2
<1>4. replied[Last] \in Messages
  BY <1>1, <1>3, ElementOfSeq, Zenon
<1> QED
  BY <1>2, <1>3, <1>4, Zenon

\* A reply is written: behind those that are on their way.
LEMMA ClientReplied ==
  ASSUME ClientInv, ServerInv', WriteReply
  PROVE  ClientInv'
<1>1. UNCHANGED <<strays, cpc, response_buffer, call, results, asked>>
  BY Zenon DEF WriteReply, client
<1>2. CASE ~open
  BY <1>1, <1>2, ClientKept, Zenon DEF WriteReply, EndConnection
<1>3. CASE open
  <2> SUFFICES ASSUME torn' = 0, strays' = 0 PROVE Calling'
    BY <1>1, Zenon DEF ClientInv
  <2>1. PICK r \in Replies : s2c' = s2c \o serialize(r) /\ replied' = Append(replied, r)
    BY <1>3, ReplyWritten, Zenon DEF ClientInv
  <2>2. torn = 0 /\ strays = 0 /\ open'
    BY <1>1, <1>3, ReplyWritten, Zenon DEF ClientInv
  <2>3. Calling /\ Serving
    BY <2>2, Zenon DEF ClientInv, ServerInv
  <2>4. replied \in Seq(Messages) /\ r \in Messages
    BY <2>3, ServingTypes, Zenon DEF Messages
  <2>5. ASSUME NEW j, NEW d \in Nat, Carries(s2c, replied, j, d) PROVE Carries(s2c', replied', j, d)
    BY <2>1, <2>4, <2>5, CarriesSent, Zenon
  <2>6. Len(replied) \in Nat /\ Len(asked) \in Nat /\ \A k \in 1..Len(replied) : replied'[k] = replied[k]
    BY <2>1, <2>3, <2>4, ServingTypes
  <2>7. ASSUME cpc \in {"body", "message"} PROVE replied'[Last] = replied[Last]
    <3>1. Last \in 1..Len(replied)
      <4>1. CASE cpc = "body"
        <5>1. Carries(s2c, replied, Last - 1, 2)
          BY <2>3, <4>1, Zenon DEF Calling
        <5> QED
          BY <2>3, <5>1, ReplyUnderWay, Zenon
      <4>2. CASE cpc = "message"
        <5>1. Carries(s2c, replied, Last, 0) /\ Last > 0
          BY <2>3, <4>2, Zenon DEF Calling
        <5>2. Last \in 0..Len(replied)
          BY <5>1, CarriesCells, Zenon
        <5> QED
          BY <2>6, <5>1, <5>2
      <4> QED
        BY <2>7, <4>1, <4>2, Zenon
    <3> QED
      BY <2>6, <3>1, Zenon
  <2>8. Last' = Last
    BY <1>1, Zenon DEF Last
  <2>9. /\ cpc = "idle" /\ open => Carries(s2c, replied, Last, 0)
        /\ cpc = "header" => Carries(s2c, replied, Last - 1, 0)
        /\ cpc = "body" => Carries(s2c, replied, Last - 1, 2)
        /\ cpc = "message" => Carries(s2c, replied, Last, 0)
    BY <2>3, Zenon DEF Calling
  <2>10. 0 \in Nat /\ 2 \in Nat
    BY Zenon
  <2>11. /\ cpc = "idle" /\ open => Carries(s2c', replied', Last, 0)
         /\ cpc = "header" => Carries(s2c', replied', Last - 1, 0)
         /\ cpc = "body" => Carries(s2c', replied', Last - 1, 2)
         /\ cpc = "message" => Carries(s2c', replied', Last, 0)
    BY <2>5, <2>9, <2>10, Zenon
  <2> QED
    BY <1>1, <1>3, <2>3, <2>7, <2>8, <2>11, Zenon DEF Calling
<1> QED
  BY <1>2, <1>3, Zenon

\* A request carries its id in every cell of its payload.
LEMMA RequestTagged ==
  ASSUME request_id_ \in Nat, NEW s \in Services, NEW m \in Methods, NEW k \in Nat
  PROVE  Tagged(NewRequest(s, m, k)) /\ NewRequest(s, m, k) \in Requests
<1> DEFINE p == [i \in 1..k |-> Data(request_id_)]
<1>1. p \in [1..k -> DataCells]
  BY Zenon DEF Data, DataCells
<1>2. p \in Seq(DataCells) /\ DOMAIN p = 1..k /\ \A i \in 1..k : p[i] = Data(request_id_)
  BY <1>1, IsASeq, Zenon
<1>3. NewRequest(s, m, k) = create_request(request_id_, s, m, p)
  BY Zenon DEF NewRequest
<1> HIDE DEF p
<1>4. NewRequest(s, m, k) \in Requests
  <2>1. NewRequest(s, m, k) =
          [type |-> "Request", request_id |-> request_id_, service |-> s, method |-> m,
           payload |-> p, error_code |-> "OK"]
    BY <1>3, Zenon DEF create_request
  <2>2. [type |-> "Request", request_id |-> request_id_, service |-> s, method |-> m,
         payload |-> p, error_code |-> "OK"] \in Requests
    BY <1>2, Zenon DEF Requests
  <2> QED
    BY <2>1, <2>2, Zenon
<1>5. NewRequest(s, m, k).payload = p /\ NewRequest(s, m, k).request_id = request_id_
  BY <1>3 DEF create_request
<1> QED
  BY <1>2, <1>4, <1>5, Zenon DEF Tagged

LEMMA HeartbeatKind ==
  ASSUME request_id_ \in Nat
  PROVE  [create_response(request_id_, <<>>) EXCEPT !.type = "Heartbeat"] \in Heartbeats
BY Zenon DEF create_response, Heartbeats

LEMMA ClientCalls ==
  ASSUME ClientInv, ServerInv', NEW s \in Services, NEW m \in Methods, NEW k \in PayloadSizes, Call(s, m, k)
  PROVE  ClientInv'
<1>1. /\ cpc = "idle" /\ call' = NewRequest(s, m, k) /\ cpc' = "header" /\ response_buffer' = Fresh
      /\ UNCHANGED <<s2c, open, strays, replied, results>> /\ open
      /\ asked' = Append(asked, NewRequest(s, m, k))
  BY Zenon DEF Call, Send
<1>2. torn \in Nat /\ torn' \in Nat /\ (torn' = 0 => torn = 0)
  <2>1. torn \in Nat
    BY Zenon DEF ClientInv, ServerInv
  <2>2. PICK n, size : CountTorn(n, size)
    BY Zenon DEF Call, Send
  <2> QED
    BY <2>1, <2>2, TornGrows, Zenon
<1> SUFFICES ASSUME torn' = 0, strays' = 0 PROVE Calling'
  BY <1>1, Zenon DEF ClientInv
<1>3. Calling /\ Serving
  BY <1>1, <1>2, Zenon DEF ClientInv, ServerInv
<1>4. Tagged(NewRequest(s, m, k))
  <2>1. request_id_ \in Nat /\ k \in Nat
    BY RpcAssumption, Zenon DEF ClientInv, ServerInv
  <2> QED
    BY <2>1, RequestTagged, Zenon
<1>5. asked \in Seq(Requests \cup Heartbeats) /\ Len(asked) \in Nat
  BY <1>3, ServingTypes, Zenon
<1>6. /\ Len(asked') = Len(asked) + 1 /\ asked'[Len(asked) + 1] = NewRequest(s, m, k)
      /\ \A i \in 1..Len(asked) : asked'[i] = asked[i]
  <2>1. NewRequest(s, m, k) \in Requests \cup Heartbeats
    BY <1>4, Zenon DEF Tagged
  <2>2. asked' = Append(asked, NewRequest(s, m, k))
    BY <1>1, Zenon
  <2> DEFINE new == NewRequest(s, m, k)
  <2> HIDE DEF new
  <2>3. /\ Len(Append(asked, new)) = Len(asked) + 1 /\ Append(asked, new)[Len(asked) + 1] = new
        /\ \A i \in 1..Len(asked) : Append(asked, new)[i] = asked[i]
    BY <1>5, <2>1, AppendProperties DEF new
  <2> QED
    BY <2>2, <2>3, Zenon DEF new
<1>7. \A i \in 1..Len(asked') : Tagged(asked'[i])
  <2> SUFFICES ASSUME NEW i \in 1..Len(asked') PROVE Tagged(asked'[i])
    BY Zenon
  <2>1. CASE i \in 1..Len(asked)
    <3>1. Tagged(asked[i])
      BY <1>3, <2>1, Zenon DEF Calling
    <3> QED
      BY <1>6, <2>1, <3>1, Zenon
  <2>2. CASE i = Len(asked) + 1
    BY <1>4, <1>6, <2>2, Zenon
  <2>3. i \in 1..(Len(asked) + 1)
    BY <1>6, Zenon
  <2> QED
    BY <1>5, <2>1, <2>2, <2>3
<1>8. Last' > 0 /\ call' = asked'[Last'] /\ Last' - 1 = Last
  BY <1>1, <1>5, <1>6, SMTT(30) DEF Last
<1>9. Carries(s2c', replied', Last' - 1, 0)
  BY <1>1, <1>3, <1>8, Zenon DEF Calling
<1> QED
  BY <1>1, <1>3, <1>7, <1>8, <1>9, FreshCells, Zenon DEF Calling

\* The results of earlier calls stay, and an error without a reply is no wrong reply.
LEMMA ReturnsError ==
  ASSUME NEW code, code # "OK", Return(code, <<>>, GarbageId), \A r \in results : Sound(r)
  PROVE  cpc' = "idle" /\ \A r \in results' : Sound(r)
<1> DEFINE x == [id |-> call.request_id, code |-> code, payload |-> <<>>, rid |-> GarbageId]
<1>1. Sound(x)
  BY Zenon DEF Sound
<1> HIDE DEF x
<1>2. cpc' = "idle" /\ results' = results \cup {x}
  BY Zenon DEF Return, x
<1> QED
  BY <1>1, <1>2, Zenon

\* Return with the connection closed.
LEMMA ClientFails ==
  ASSUME ClientInv, ServerInv', UNCHANGED <<strays, torn, open, response_buffer, asked, replied>>, ~open,
         NEW code, code # "OK", Return(code, <<>>, GarbageId)
  PROVE  ClientInv'
<1> SUFFICES ASSUME torn = 0, strays = 0 PROVE Calling'
  BY Zenon DEF ClientInv
<1>1. Calling
  BY Zenon DEF ClientInv
<1>2. cpc' = "idle" /\ \A r \in results' : Sound(r)
  BY <1>1, ReturnsError, Zenon DEF Calling
<1> QED
  BY <1>1, <1>2, Zenon DEF Calling

LEMMA ClientReadsHeader ==
  ASSUME ClientInv, ServerInv', RecvHeader
  PROVE  ClientInv'
<1>1. cpc = "header" /\ UNCHANGED <<strays, call, asked, replied, open>>
  BY Zenon DEF RecvHeader
<1>2. torn \in Nat /\ strays' \in Nat
  BY <1>1, Zenon DEF ClientInv, ServerInv
<1>3. CASE AtEnd(s2c) /\ Return("ConnectionError", <<>>, GarbageId) /\ UNCHANGED <<response_buffer, torn>>
  BY <1>1, <1>3, ClientFails, Zenon DEF AtEnd
<1>4. ASSUME NEW n \in Moves(HeaderSize, Len(s2c)),
             s2c' = Rest(s2c, n), CountTorn(n, HeaderSize),
             LET buf == Store(response_buffer, 0, SubSeq(s2c, 1, n))
             IN IF valid(buf)
                THEN /\ cpc' = IF total_size(buf) > HeaderSize THEN "body" ELSE "message"
                     /\ response_buffer' = Resized(buf, total_size(buf))
                     /\ UNCHANGED results
                ELSE /\ Return("InvalidRequest", <<>>, GarbageId)
                     /\ response_buffer' = buf
      PROVE  ClientInv'
  <2> SUFFICES ASSUME torn' = 0, strays' = 0 PROVE Calling'
    BY <1>2, Zenon DEF ClientInv
  <2>1. torn = 0 /\ ~(n < HeaderSize) /\ strays = 0
    BY <1>1, <1>2, <1>4, TornGrows, Zenon
  <2>2. Calling /\ Serving /\ replied \in Seq(Messages) /\ Carries(s2c, replied, Last - 1, 0) /\ Last > 0
    <3>1. Calling /\ Serving
      BY <2>1, Zenon DEF ClientInv, ServerInv
    <3>2. Carries(s2c, replied, Last - 1, 0) /\ Last > 0
      BY <1>1, <3>1, Zenon DEF Calling
    <3> QED
      BY <3>1, <3>2, ServingTypes, Zenon
  <2>3. n = 2 /\ 2 \in 1..Len(s2c)
    <3>1. Len(s2c) \in Nat /\ HeaderSize \in Nat
      BY <2>2, CarriesCells, Zenon DEF HeaderSize
    <3> QED
      BY <2>1, <3>1, AllMoved, ZenonT(60) DEF HeaderSize
  <2>4. Last \in Nat /\ (Last - 1) + 1 = Last /\ Last' = Last
    BY <1>1, <2>2, ServingTypes, SMTT(30) DEF Last
  <2> DEFINE new == Store(response_buffer, 0, SubSeq(s2c, 1, 2))
  <2>5. /\ Carries(Rest(s2c, 2), replied, Last - 1, 2)
        /\ valid(new) /\ total_size(new) > 2
        /\ Holds(Resized(new, total_size(new)), replied[(Last - 1) + 1], 2)
        /\ Len(Resized(new, total_size(new))) >= 3
    BY <2>2, <2>3, HeaderTaken, Zenon DEF Calling
  <2>6. cpc' = "body" /\ response_buffer' = Resized(new, total_size(new)) /\ results' = results
        /\ s2c' = Rest(s2c, 2)
    <3> HIDE DEF new
    <3> QED
      BY <1>4, <2>3, <2>5, Zenon DEF HeaderSize, new
  <2>7. response_buffer' \in Seq(Cells) /\ Len(response_buffer') >= 3 /\ Holds(response_buffer', replied[Last], 2)
    BY <2>4, <2>5, <2>6, Zenon DEF Holds
  <2> QED
    BY <1>1, <2>2, <2>4, <2>5, <2>6, <2>7, Zenon DEF Calling
<1> QED
  BY <1>3, <1>4, Zenon DEF RecvHeader

LEMMA ClientReadsBody ==
  ASSUME ClientInv, ServerInv', RecvBody
  PROVE  ClientInv'
<1>1. cpc = "body" /\ UNCHANGED <<strays, call, asked, replied, open>>
  BY Zenon DEF RecvBody
<1>2. torn \in Nat /\ strays' \in Nat
  BY <1>1, Zenon DEF ClientInv, ServerInv
<1>3. CASE AtEnd(s2c) /\ Return("ConnectionError", <<>>, GarbageId) /\ UNCHANGED <<response_buffer, torn>>
  BY <1>1, <1>3, ClientFails, Zenon DEF AtEnd
<1>4. ASSUME NEW n \in Moves(Remaining(response_buffer), Len(s2c)),
             s2c' = Rest(s2c, n), CountTorn(n, Remaining(response_buffer)),
             response_buffer' = Store(response_buffer, HeaderSize, SubSeq(s2c, 1, n)),
             cpc' = "message", UNCHANGED results
      PROVE  ClientInv'
  <2> SUFFICES ASSUME torn' = 0, strays' = 0 PROVE Calling'
    BY <1>2, Zenon DEF ClientInv
  <2>1. torn = 0 /\ ~(n < Remaining(response_buffer)) /\ strays = 0
    BY <1>1, <1>2, <1>4, TornGrows, Zenon
  <2>2. /\ Calling /\ Serving /\ replied \in Seq(Messages)
        /\ Carries(s2c, replied, Last - 1, 2) /\ Holds(response_buffer, replied[Last], 2)
    <3>1. Calling /\ Serving
      BY <2>1, Zenon DEF ClientInv, ServerInv
    <3>2. Carries(s2c, replied, Last - 1, 2) /\ Holds(response_buffer, replied[Last], 2)
      BY <1>1, <3>1, Zenon DEF Calling
    <3> QED
      BY <3>1, <3>2, ServingTypes, Zenon
  <2>3. (Last - 1) + 1 = Last /\ Last - 1 \in 0..(Len(replied) - 1) /\ replied[Last] \in Messages
    BY <2>2, ReplyUnderWay, Zenon
  <2>4. Last' = Last
    BY <1>1, Zenon DEF Last
  <2>5. Size(replied[Last]) \in Nat /\ Size(replied[Last]) >= 3 /\ Remaining(response_buffer) \in Nat
    BY <2>2, <2>3, HeldHeader, Zenon
  <2>6. n = Remaining(response_buffer) /\ n \in 1..Len(s2c)
    <3>1. Len(s2c) \in Nat
      BY <2>2, CarriesCells, Zenon
    <3> QED
      BY <2>1, <2>5, <3>1, AllMoved, Zenon
  <2>7. /\ Carries(s2c', replied, (Last - 1) + 1, 0)
        /\ Holds(response_buffer', replied[(Last - 1) + 1], Size(replied[(Last - 1) + 1]))
    <3>1. Holds(response_buffer, replied[(Last - 1) + 1], 2)
      BY <2>2, <2>3, Zenon
    <3> QED
      BY <1>4, <2>2, <2>3, <2>6, <3>1, BodyTaken, Zenon
  <2>8. Carries(s2c', replied, Last, 0) /\ Holds(response_buffer', replied[Last], Size(replied[Last]))
    BY <2>3, <2>7, Zenon
  <2>9. response_buffer' \in Seq(Cells) /\ Len(response_buffer') >= 3
    BY <2>3, <2>8, HeldCells, Zenon
  <2> QED
    BY <1>1, <1>4, <2>2, <2>4, <2>8, <2>9, Zenon DEF Calling
<1> QED
  BY <1>3, <1>4, Zenon DEF RecvBody, ReplyRemaining

\* The reply that is decoded answers the call that is under way.
LEMMA ClientFinishes ==
  ASSUME ClientInv, ServerInv', FinishCall
  PROVE  ClientInv'
<1>1. /\ cpc = "message"
      /\ UNCHANGED <<strays, torn, s2c, open, response_buffer, call, asked, replied>>
  BY Zenon DEF FinishCall
<1>2. strays' \in Nat
  BY <1>1, Zenon DEF ClientInv
<1> SUFFICES ASSUME torn = 0, strays = 0 PROVE Calling'
  BY <1>1, <1>2, Zenon DEF ClientInv
<1> DEFINE m == replied[Last]
           r == Deserialized(response_buffer)
<1>3. /\ Calling /\ Serving /\ Carries(s2c, replied, Last, 0) /\ Holds(response_buffer, m, Size(m))
      /\ Last > 0 /\ call = asked[Last] /\ replied \in Seq(Replies)
  <2>1. Calling /\ Serving
    BY Zenon DEF ClientInv, ServerInv
  <2>2. Carries(s2c, replied, Last, 0) /\ Holds(response_buffer, m, Size(m)) /\ Last > 0 /\ call = asked[Last]
    BY <1>1, <2>1, Zenon DEF Calling
  <2> QED
    BY <2>1, <2>2, ServingTypes, Zenon
<1>4. Last \in 1..Len(replied) /\ Last \in 1..Len(asked)
  <2>1. Last \in 0..Len(replied)
    BY <1>3, CarriesCells, Zenon
  <2>2. Last = Len(asked) /\ Len(asked) \in Nat /\ Len(replied) \in Nat
    BY <1>3, ServingTypes, Zenon DEF Last
  <2> QED
    BY <1>3, <2>1, <2>2
<1>5. m \in Replies /\ m \in Messages
  BY <1>3, <1>4, ElementOfSeq, Zenon DEF Messages
<1>6. CanDeserialize(response_buffer, total_size(response_buffer)) /\ r = m
  BY <1>3, <1>5, Decode, Zenon
<1>7. Tagged(call) /\ Answers(m, call)
  <2>1. Tagged(asked[Last])
    BY <1>3, <1>4, Zenon DEF Calling
  <2>2. Answers(replied[Last], asked[Last])
    BY <1>3, <1>4, Zenon DEF Serving
  <2> QED
    BY <1>3, <2>1, <2>2, Zenon
<1>8. m.request_id = call.request_id /\ (m.error_code = "OK" => m.payload = call.payload)
  BY <1>7, Zenon DEF Tagged, Requests, Answers
<1>9. m.error_code = "OK" /\ m.payload # <<>> => m.payload[1] = Data(call.request_id)
  <2>1. m.payload \in Seq(DataCells)
    BY <1>5, Zenon DEF Replies
  <2>2. m.payload # <<>> => 1 \in DOMAIN m.payload
    BY <2>1
  <2> QED
    BY <1>7, <1>8, <2>2, Zenon DEF Tagged
<1> HIDE DEF m, r
<1>10. \E code, payload : /\ Return(code, payload, m.request_id)
                          /\ code = "OK" => payload[1] = Data(call.request_id)
  BY <1>6, <1>9 DEF FinishCall, r
<1>11. cpc' = "idle" /\ \A x \in results' : Sound(x)
  <2>1. PICK code, payload : /\ Return(code, payload, m.request_id)
                             /\ code = "OK" => payload[1] = Data(call.request_id)
    BY <1>10, Zenon
  <2> DEFINE y == [id |-> call.request_id, code |-> code, payload |-> payload, rid |-> m.request_id]
  <2>2. Sound(y)
    BY <1>8, <2>1, Zenon DEF Sound
  <2> HIDE DEF y
  <2>3. cpc' = "idle" /\ results' = results \cup {y}
    BY <2>1, Zenon DEF Return, y
  <2>4. \A x \in results : Sound(x)
    BY <1>3, Zenon DEF Calling
  <2> QED
    BY <2>2, <2>3, <2>4, Zenon
<1>12. Last' = Last
  BY <1>1, Zenon DEF Last
<1> QED
  BY <1>1, <1>3, <1>11, <1>12, Zenon DEF Calling

-----------------------------------------------------------------------------
LEMMA InvNext == ClientInv /\ [Next]_vars => ClientInv'
<1> SUFFICES ASSUME ClientInv, [Next]_vars PROVE ClientInv'
  BY Zenon
<1>0. ServerInv /\ request_id_ \in Nat /\ strays \in Nat
  BY Zenon DEF ClientInv, ServerInv
<1>1. CASE UNCHANGED vars
  <2>1. ServerInv'
    BY <1>0, <1>1, ServerKept, Zenon DEF vars, server, client, history
  <2> QED
    BY <1>1, <2>1, ClientKept, Zenon DEF vars, server, client, history
<1>2. CASE ChangeRegistry \/ disconnect
  <2>1. UNCHANGED <<c2s, s2c, server, client, history>> /\ (open' => open)
    BY <1>2 DEF ChangeRegistry, disconnect
  <2>2. ServerInv'
    BY <1>0, <2>1, ServerKept, Zenon DEF server, client, history
  <2> QED
    BY <2>1, <2>2, ClientKept, Zenon DEF server, client, history
<1>3. CASE SendFails
  <2>1. ServerInv'
    BY <1>0, <1>3, ServerKept, SMTT(30) DEF SendFails, server, history
  <2> QED
    BY <1>3, <2>1, ClientKept, Zenon DEF SendFails, server, history
<1>4. CASE ReadHeader
  <2>1. ServerInv'
    BY <1>0, <1>4, ServerReadsHeader, Zenon
  <2>2. torn' = 0 => torn = 0
    BY <1>0, <1>4, TornGrows, Zenon DEF ReadHeader, ServerInv
  <2>3. open' => open
    BY <1>4, Zenon DEF ReadHeader, AcceptHeader, EndConnection
  <2> QED
    BY <1>4, <2>1, <2>2, <2>3, ClientKept, Zenon DEF ReadHeader, client
<1>5. CASE ReadBody
  <2>1. ServerInv'
    BY <1>0, <1>5, ServerReadsBody, Zenon
  <2>2. torn' = 0 => torn = 0
    BY <1>0, <1>5, TornGrows, Zenon DEF ReadBody, ServerInv
  <2>3. open' => open
    BY <1>5, Zenon DEF ReadBody, EndConnection
  <2> QED
    BY <1>5, <2>1, <2>2, <2>3, ClientKept, Zenon DEF ReadBody, client
<1>6. CASE HandleMessage
  BY <1>0, <1>6, ServerHandles, ClientKept, Zenon DEF HandleMessage, client, history
<1>7. CASE Invoke
  BY <1>0, <1>7, ServerInvokes, ClientKept, Zenon DEF Invoke, client, history
<1>8. CASE WriteReply
  BY <1>0, <1>8, ServerReplies, ClientReplied, Zenon
<1>9. ASSUME NEW s \in Services, NEW m \in Methods, async_call(s, m) PROVE ClientInv'
  <2>1. NewRequest(s, m, 1) \in Requests
    BY <1>0, RequestTagged, Zenon
  <2>2. ServerInv'
    BY <1>0, <1>9, <2>1, ServerSent, Zenon DEF async_call, server
  <2>3. strays' \in Nat /\ strays' # 0
    BY <1>0, <1>9 DEF async_call
  <2> QED
    BY <2>2, <2>3, Zenon DEF ClientInv
<1>10. ASSUME NEW s \in Services, NEW m \in Methods, NEW k \in PayloadSizes, Call(s, m, k) PROVE ClientInv'
  <2>1. NewRequest(s, m, k) \in Requests
    BY <1>0, RequestTagged, RpcAssumption, Zenon
  <2>2. ServerInv'
    BY <1>0, <1>10, <2>1, ServerSent, Zenon DEF Call, server
  <2> QED
    BY <1>10, <2>2, ClientCalls, Zenon
<1>11. CASE Heartbeat
  <2>1. ServerInv'
    BY <1>0, <1>11, HeartbeatKind, ServerSent, Zenon DEF Heartbeat, server
  <2>2. strays' \in Nat /\ strays' # 0
    BY <1>0, <1>11 DEF Heartbeat
  <2> QED
    BY <2>1, <2>2, Zenon DEF ClientInv
<1>12. CASE RecvHeader
  <2>1. torn' \in Nat /\ (torn' = 0 => torn = 0)
    BY <1>0, <1>12, TornGrows, Zenon DEF RecvHeader, ServerInv
  <2>2. ServerInv'
    BY <1>0, <1>12, <2>1, ServerUnread, Zenon DEF RecvHeader, server
  <2> QED
    BY <1>12, <2>2, ClientReadsHeader, Zenon
<1>13. CASE RecvBody
  <2>1. torn' \in Nat /\ (torn' = 0 => torn = 0)
    BY <1>0, <1>13, TornGrows, Zenon DEF RecvBody, ServerInv
  <2>2. ServerInv'
    BY <1>0, <1>13, <2>1, ServerUnread, Zenon DEF RecvBody, server
  <2> QED
    BY <1>13, <2>2, ClientReadsBody, Zenon
<1>14. CASE FinishCall
  <2>1. ServerInv'
    BY <1>0, <1>14, ServerKept, Zenon DEF FinishCall, server
  <2> QED
    BY <1>14, <2>1, ClientFinishes, Zenon
<1> QED
  BY <1>1, <1>2, <1>3, <1>4, <1>5, <1>6, <1>7, <1>8, <1>9, <1>10, <1>11, <1>12, <1>13, <1>14, Zenon
     DEF Next, Serve, Receive

\* While no transfer is short, handle_connection's k-th reply answers the k-th message of the
\* connection, with the request's id and the value its handler computed, whatever threads
\* register or unregister meanwhile and whether the client waits for its replies.
THEOREM RepliesKeepOrder == Spec => []RepliesInOrder
<1>1. Serving => RepliesInOrder
  <2> SUFFICES ASSUME Serving PROVE RepliesInOrder
    BY Zenon
  <2>1. DOMAIN replied = 1..Len(replied)
    BY ServingTypes, LenProperties, Zenon
  <2>2. \A k \in 1..Len(replied) : Answers(replied[k], asked[k])
    BY Zenon DEF Serving
  <2> QED
    BY <2>1, <2>2, ServingTypes, Zenon DEF RepliesInOrder
<1>2. ClientInv => RepliesInOrder
  BY <1>1, Zenon DEF ClientInv, ServerInv, RepliesInOrder
<1> QED
  BY <1>2, ClientInit, InvNext, PTL DEF Spec

\* RpcClient::call does not look at the request_id of the reply it decodes; still, while no
\* transfer is short and nothing but calls is sent, each call returns the reply to its own
\* request, and the payload its handler returned for it.
THEOREM CallGetsOwnReply == Spec => []OwnReply
<1>1. ClientInv => OwnReply
  BY Zenon DEF ClientInv, Calling, Sound, OwnReply
<1> QED
  BY <1>1, ClientInit, InvNext, PTL DEF Spec
=============================================================================
