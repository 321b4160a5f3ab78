------------------------- MODULE ServiceSocketsProofs -------------------------
(***************************************************************************)
(* Proofs about ServiceSockets, for any names, sockets and bound on the    *)
(* frames.                                                                 *)
(*                                                                         *)
(* The properties say what holds between the steps of a call that opens a  *)
(* socket.  The inductive invariant says what holds within: what the call  *)
(* has made so far (OpenInv), that the table gives each socket at most one *)
(* name, with the type it was created with (TableInv), what on_read found  *)
(* there (FoundInv), and that the frames at a socket are whole messages of *)
(* one string, but for servers that were sent others (FrameInv).           *)
(***************************************************************************)
EXTENDS ServiceSockets, SequenceTheorems, TLAPS

Frames == Seq({"id", "text"})

(* A call that opens a socket has a name that is not taken, and then a socket
   of its type that has no name. *)
OpenInv ==
    /\ openPc # "idle" => /\ args \in [name : Names, type : Types]
                          /\ ~HasName(args.name)
    /\ openPc = "add" => /\ sock \in Sockets /\ kind[sock] = args.type
                         /\ \A n \in Names :
                              HasName(n) => socket_hash[n].mq_socket # sock
    /\ openPc # "add" => sock = None

(* No socket has two names, and the table knows its type. *)
TableInv ==
    \A n \in Names : HasName(n) =>
        /\ kind[socket_hash[n].mq_socket] = socket_hash[n].type
        /\ \A m \in Names :
              HasName(m) /\ socket_hash[m].mq_socket = socket_hash[n].mq_socket
                 => m = n

(* Until stop, every socket has a name or is about to be given one. *)
NamedInv ==
    ~terminated =>
        \A s \in Sockets : kind[s] # None =>
            \/ s = sock
            \/ \E n \in Names : HasName(n) /\ socket_hash[n].mq_socket = s

(* Identities and strings take turns. *)
Alternate(f) ==
    /\ f # <<>> => f[1] = "id" /\ f[Len(f)] = "text"
    /\ \A i \in 1..(Len(f) - 1) : f[i] # f[i + 1]

Strings(f) == \A i \in 1..Len(f) : f[i] = "text"

(* What on_read found of the socket it reads is the type it was created with. *)
FoundInv ==
    svcPc = "read" =>
        /\ which \in Sockets
        /\ found \in [name : Names, type : Types]
        /\ kind[which] = found.type

(* What waits at a socket is made of whole messages of its type. *)
FrameInv ==
    \A s \in Sockets :
        /\ kind[s] \in {None, "publisher"} => frames[s] = <<>>
        /\ kind[s] = "server" /\ s \notin odd => Alternate(frames[s])
        /\ kind[s] \in {"client", "subscriber"} => Strings(frames[s])

(* A message passed on came from a socket that has a type. *)
HeardInv ==
    heard # None =>
        /\ heard \in [name : Names, mq_socket : Sockets, parts : Frames]
        /\ kind[heard.mq_socket] # None
        /\ ReadsInStep

IInv == TypeOK /\ OpenInv /\ TableInv /\ NamedInv /\ FoundInv /\ FrameInv
               /\ HeardInv /\ PublishNamesOpen

-----------------------------------------------------------------------------
(* NULL is no socket, name, type or entry of the table. *)
LEMMA Kinds ==
    /\ \A n \in Names : n # None
    /\ \A s \in Sockets : s # None
    /\ \A t \in Types : t # None
    /\ \A v \in Value : v # None /\ v.mq_socket \in Sockets /\ v.type \in Types
    /\ \A s \in Sockets, t \in Types : [mq_socket |-> s, type |-> t] \in Value
    /\ "server" \in Types /\ "publisher" \in Types
  BY NoneAssumption DEF Value, Types

(* What the table holds of a name that it has. *)
LEMMA Entries ==
    ASSUME TypeOK, NEW n \in Names, HasName(n)
    PROVE  socket_hash[n].mq_socket \in Sockets /\ socket_hash[n].type \in Types
  BY Kinds DEF TypeOK, HasName

(* A message of k strings. *)
LEMMA MessageFrames ==
    ASSUME NEW type, NEW k \in Lengths
    PROVE  /\ Message(type, k) \in Frames
           /\ type # "server" => /\ Message(type, k) # <<>>
                                 /\ Strings(Message(type, k))
           /\ type = "server" /\ k = 1 => Message(type, k) = <<"id", "text">>
<1>1. k \in Nat /\ k # 0
  BY LengthsAssumption
<1> DEFINE texts == [i \in 1..k |-> "text"]
<1>2. texts \in Frames /\ Len(texts) = k /\ \A i \in 1..k : texts[i] = "text"
  BY <1>1 DEF Frames
<1>3. <<"id">> \in Frames /\ <<>> \in Frames /\ Len(<<"id">>) = 1
  BY DEF Frames
<1>4. Message(type, k) = (IF type = "server" THEN <<"id">> ELSE <<>>) \o texts
  BY DEF Message
<1> HIDE DEF texts
<1>5. CASE type = "server"
  <2>1. Message(type, k) = <<"id">> \o texts /\ Message(type, k) \in Frames
    BY <1>2, <1>3, <1>4, <1>5, ConcatProperties DEF Frames
  <2>2. k = 1 => <<"id">> \o texts = <<"id", "text">>
    <3> HAVE k = 1
    <3>1. <<"id", "text">> \in Frames /\ Len(<<"id", "text">>) = 2
      BY DEF Frames
    <3>2. /\ <<"id">> \o texts \in Frames /\ Len(<<"id">> \o texts) = 2
          /\ \A i \in 1..2 : (<<"id">> \o texts)[i] =
                                IF i <= 1 THEN <<"id">>[i] ELSE texts[i - 1]
      <4>1. /\ <<"id">> \o texts \in Frames
            /\ Len(<<"id">> \o texts) = Len(<<"id">>) + Len(texts)
            /\ \A i \in 1..(Len(<<"id">>) + Len(texts)) :
                  (<<"id">> \o texts)[i] =
                     IF i <= Len(<<"id">>) THEN <<"id">>[i] ELSE texts[i - Len(<<"id">>)]
        BY <1>2, <1>3, ConcatProperties DEF Frames
      <4>2. Len(<<"id">>) = 1 /\ Len(texts) = 1
        BY <1>2, <1>3
      <4> QED
        BY <4>1, <4>2
    <3>3. \A i \in 1..2 : (<<"id">> \o texts)[i] = <<"id", "text">>[i]
      BY <1>2, <3>2
    <3> QED
      BY <3>1, <3>2, <3>3, SeqEqual DEF Frames
  <2> QED
    BY <1>5, <2>1, <2>2
<1>6. CASE type # "server"
  <2>1. Message(type, k) = <<>> \o texts
    BY <1>4, <1>6
  <2>2. <<>> \o texts = texts
    BY <1>2, ConcatEmptySeq DEF Frames
  <2>3. texts # <<>> /\ Strings(texts)
    BY <1>1, <1>2 DEF Strings
  <2> QED
    BY <1>2, <1>6, <2>1, <2>2, <2>3
<1> QED
  BY <1>5, <1>6

(* A message of two frames behind others of two frames. *)
LEMMA AlternateArrive ==
    ASSUME NEW f \in Frames, Alternate(f)
    PROVE  f \o <<"id", "text">> \in Frames /\ Alternate(f \o <<"id", "text">>)
<1> DEFINE m == <<"id", "text">>
           g == f \o m
<1>1. m \in Frames /\ Len(m) = 2 /\ m[1] = "id" /\ m[2] = "text"
  BY DEF Frames
<1>2. /\ g \in Frames /\ Len(g) = Len(f) + 2 /\ Len(f) \in Nat
      /\ \A i \in 1..(Len(f) + 2) :
            g[i] = IF i <= Len(f) THEN f[i] ELSE m[i - Len(f)]
  BY <1>1, ConcatProperties, LenProperties DEF Frames
<1> HIDE DEF g
<1>3. g[Len(f) + 1] = "id" /\ g[Len(f) + 2] = "text"
  BY <1>1, <1>2
<1>4. g # <<>> => g[1] = "id" /\ g[Len(g)] = "text"
  <2>1. CASE f = <<>>
    BY <1>2, <1>3, <2>1
  <2>2. CASE f # <<>>
    <3>1. Len(f) >= 1
      BY <2>2, EmptySeq DEF Frames
    <3> QED
      BY <1>2, <1>3, <2>2, <3>1 DEF Alternate
  <2> QED
    BY <2>1, <2>2
<1>5. ASSUME NEW i \in 1..(Len(g) - 1) PROVE g[i] # g[i + 1]
  <2>1. CASE i < Len(f)
    BY <1>2, <2>1 DEF Alternate
  <2>2. CASE i = Len(f)
    <3>1. f # <<>> /\ f[i] = "text"
      BY <1>2, <2>2 DEF Alternate
    <3> QED
      BY <1>2, <1>3, <2>2, <3>1
  <2>3. CASE i = Len(f) + 1
    BY <1>3, <2>3
  <2> QED
    BY <1>2, <2>1, <2>2, <2>3
<1> QED
  BY <1>2, <1>4, <1>5 DEF Alternate, g

(* Taking two frames, of whatever messages. *)
LEMMA FramesRead ==
    ASSUME NEW f \in Frames, Len(f) >= 2
    PROVE  SubSeq(f, 3, Len(f)) \in Frames /\ SubSeq(f, 1, 2) \in Frames
<1>1. Len(f) \in Nat /\ \A i \in 1..Len(f) : f[i] \in {"id", "text"}
  BY ElementOfSeq, LenProperties DEF Frames
<1>2. \A i \in 3..Len(f) : f[i] \in {"id", "text"}
  BY <1>1
<1>3. \A i \in 1..2 : f[i] \in {"id", "text"}
  BY <1>1
<1> QED
  BY <1>1, <1>2, <1>3, SubSeqProperties DEF Frames

(* Taking one message of two frames. *)
LEMMA AlternateRead ==
    ASSUME NEW f \in Frames, Alternate(f), Len(f) >= 2
    PROVE  /\ SubSeq(f, 3, Len(f)) \in Frames /\ Alternate(SubSeq(f, 3, Len(f)))
           /\ SubSeq(f, 1, 2) = <<"id", "text">>
<1> DEFINE g == SubSeq(f, 3, Len(f))
           h == SubSeq(f, 1, 2)
<1>1. Len(f) \in Nat /\ \A i \in 1..Len(f) : f[i] \in {"id", "text"}
  BY ElementOfSeq, LenProperties DEF Frames
<1>2. /\ g \in Frames /\ Len(g) = Len(f) - 2
      /\ \A i \in 1..(Len(f) - 2) : g[i] = f[i + 2]
  <2>0. Len(f) = 2 \/ Len(f) >= 3
    <3>1. PICK k \in Nat : k = Len(f) /\ k >= 2
      BY <1>1
    <3> QED
      BY <3>1
  <2>1. \A i \in 3..Len(f) : f[i] \in {"id", "text"}
    BY <1>1
  <2>2. /\ g \in Frames
        /\ Len(g) = IF 3 <= Len(f) THEN Len(f) - 3 + 1 ELSE 0
        /\ \A i \in 1..(Len(f) - 3 + 1) : g[i] = f[3 + i - 1]
    BY <1>1, <2>1, SubSeqProperties DEF Frames
  <2> HIDE DEF g
  <2>3. Len(g) = Len(f) - 2
    BY <1>1, <2>0, <2>2
  <2>4. ASSUME NEW i \in 1..(Len(f) - 2) PROVE g[i] = f[i + 2]
    <3>1. i \in 1..(Len(f) - 3 + 1) /\ 3 + i - 1 = i + 2
      BY <1>1
    <3> QED
      BY <2>2, <3>1
  <2> QED
    BY <2>2, <2>3, <2>4
<1>3. h \in Frames /\ Len(h) = 2 /\ h[1] = f[1] /\ h[2] = f[2]
  BY <1>1, SubSeqProperties DEF Frames
<1> HIDE DEF g, h
<1>4. f[1] = "id" /\ f[2] = "text" /\ f[Len(f)] = "text"
  BY <1>1, EmptySeq DEF Alternate, Frames
<1>5. h = <<"id", "text">>
  <2>1. <<"id", "text">> \in Frames
    BY DEF Frames
  <2>2. \A i \in 1..Len(h) : h[i] = <<"id", "text">>[i]
    BY <1>3, <1>4
  <2> QED
    BY <1>3, <2>1, <2>2, SeqEqual DEF Frames
<1>6. g # <<>> => g[1] = "id" /\ g[Len(g)] = "text"
  <2> HAVE g # <<>>
  <2>1. Len(g) >= 1
    BY <1>2, EmptySeq DEF Frames
  <2>2. f[3] = "id"
    BY <1>1, <1>2, <1>4, <2>1 DEF Alternate
  <2> QED
    BY <1>1, <1>2, <1>4, <2>1, <2>2
<1>7. \A i \in 1..(Len(g) - 1) : g[i] # g[i + 1]
  BY <1>1, <1>2 DEF Alternate
<1> QED
  BY <1>2, <1>5, <1>6, <1>7 DEF Alternate, g, h

(* Messages of strings alone, that arrive and are read one by one. *)
LEMMA StringsArrive ==
    ASSUME NEW f \in Frames, Strings(f), NEW m \in Frames, Strings(m)
    PROVE  Strings(f \o m)
<1>1. /\ Len(f) \in Nat /\ Len(m) \in Nat /\ Len(f \o m) = Len(f) + Len(m)
      /\ \A i \in 1..(Len(f) + Len(m)) :
            (f \o m)[i] = IF i <= Len(f) THEN f[i] ELSE m[i - Len(f)]
  BY ConcatProperties, LenProperties DEF Frames
<1> DEFINE g == f \o m
<1>2. ASSUME NEW i \in 1..Len(g) PROVE g[i] = "text"
  <2>1. PICK a \in Nat, b \in Nat : a = Len(f) /\ b = Len(m)
    BY <1>1
  <2>2. CASE i <= a
    BY <1>1, <2>1, <2>2 DEF Strings
  <2>3. CASE ~(i <= a)
    <3>1. i - a \in 1..b
      BY <1>1, <2>1, <2>3
    <3> QED
      BY <1>1, <2>1, <2>3, <3>1 DEF Strings
  <2> QED
    BY <2>2, <2>3
<1> QED
  BY <1>2 DEF Strings

(* Taking one message of one frame. *)
LEMMA StringsRead ==
    ASSUME NEW f \in Frames, Strings(f), Len(f) >= 1
    PROVE  /\ SubSeq(f, 2, Len(f)) \in Frames /\ Strings(SubSeq(f, 2, Len(f)))
           /\ SubSeq(f, 1, 1) = <<"text">>
<1> DEFINE g == SubSeq(f, 2, Len(f))
           h == SubSeq(f, 1, 1)
<1>1. Len(f) \in Nat /\ \A i \in 1..Len(f) : f[i] \in {"id", "text"}
  BY ElementOfSeq, LenProperties DEF Frames
<1>2. /\ g \in Frames /\ Len(g) = Len(f) - 1
      /\ \A i \in 1..(Len(f) - 1) : g[i] = f[i + 1]
  <2>0. Len(f) = 1 \/ Len(f) >= 2
    <3>1. PICK k \in Nat : k = Len(f) /\ k >= 1
      BY <1>1
    <3> QED
      BY <3>1
  <2>1. \A i \in 2..Len(f) : f[i] \in {"id", "text"}
    BY <1>1
  <2>2. /\ g \in Frames
        /\ Len(g) = IF 2 <= Len(f) THEN Len(f) - 2 + 1 ELSE 0
        /\ \A i \in 1..(Len(f) - 2 + 1) : g[i] = f[2 + i - 1]
    BY <1>1, <2>1, SubSeqProperties DEF Frames
  <2> HIDE DEF g
  <2>3. Len(g) = Len(f) - 1
    BY <1>1, <2>0, <2>2
  <2>4. ASSUME NEW i \in 1..(Len(f) - 1) PROVE g[i] = f[i + 1]
    <3>1. i \in 1..(Len(f) - 2 + 1) /\ 2 + i - 1 = i + 1
      BY <1>1
    <3> QED
      BY <2>2, <3>1
  <2> QED
    BY <2>2, <2>3, <2>4
<1>3. h \in Frames /\ Len(h) = 1 /\ h[1] = f[1]
  BY <1>1, SubSeqProperties DEF Frames
<1> HIDE DEF g, h
<1>4. h = <<"text">>
  <2>1. <<"text">> \in Frames /\ Len(<<"text">>) = 1
    BY DEF Frames
  <2>2. \A i \in 1..Len(h) : h[i] = <<"text">>[i]
    BY <1>1, <1>3 DEF Strings
  <2> QED
    BY <1>3, <2>1, <2>2, SeqEqual DEF Frames
<1>5. Strings(g)
  BY <1>1, <1>2 DEF Strings
<1> QED
  BY <1>2, <1>4, <1>5 DEF g, h

-----------------------------------------------------------------------------
(* What a peer sends arrives as a whole message. *)
LEMMA ArriveStep ==
    ASSUME TypeOK, FrameInv, NEW s \in Sockets, NEW k \in Lengths, Arrive(s, k)
    PROVE  frames' \in [Sockets -> Frames] /\ FrameInv'
<1> DEFINE m == Message(kind[s], k)
<1>1. /\ frames \in [Sockets -> Frames] /\ kind \in [Sockets -> Types \cup {None}]
      /\ m \in Frames
  BY MessageFrames DEF TypeOK, Frames
<1>2. /\ kind' = kind /\ kind[s] \notin {None, "publisher"}
      /\ frames' = [frames EXCEPT ![s] = frames[s] \o m]
      /\ odd \subseteq odd' /\ (kind[s] = "server" /\ s \notin odd' => k = 1)
  BY DEF Arrive
<1>3. m = Message(kind[s], k)
  OBVIOUS
<1> HIDE DEF m
<1>4. frames[s] \o m \in Frames
  BY <1>1, ConcatProperties DEF Frames
<1>5. frames' \in [Sockets -> Frames]
  BY <1>1, <1>2, <1>4
<1>6. kind[s] = "server" /\ s \notin odd' => Alternate(frames[s] \o m)
  BY <1>1, <1>2, <1>3, MessageFrames, AlternateArrive DEF FrameInv
<1>7. kind[s] \in {"client", "subscriber"} => Strings(frames[s] \o m)
  BY <1>1, <1>3, MessageFrames, StringsArrive DEF FrameInv
<1>8. FrameInv'
  <2>1. ASSUME NEW p \in Sockets
        PROVE  /\ kind[p] \in {None, "publisher"} => frames'[p] = <<>>
               /\ kind[p] = "server" /\ p \notin odd' => Alternate(frames'[p])
               /\ kind[p] \in {"client", "subscriber"} => Strings(frames'[p])
    <3>1. CASE p = s
      BY <1>1, <1>2, <1>6, <1>7, <3>1
    <3>2. CASE p # s
      BY <1>1, <1>2, <3>2 DEF FrameInv
    <3> QED
      BY <3>1, <3>2
  <2> QED
    BY <1>2, <2>1 DEF FrameInv
<1> QED
  BY <1>5, <1>8

(* What is passed on is one message of the socket's type, and whole messages
   stay behind, as long as the socket is in step. *)
LEMMA ReceiveStep ==
    ASSUME TypeOK, FoundInv, FrameInv, ReceiveStrings
    PROVE  /\ frames' \in [Sockets -> Frames]
           /\ heard' \in [name : Names, mq_socket : Sockets, parts : Frames]
           /\ FrameInv' /\ HeardInv'
<1> DEFINE f == frames[which]
           k == FramesOf(found.type)
<1>1. /\ frames \in [Sockets -> Frames] /\ kind \in [Sockets -> Types \cup {None}]
      /\ which \in Sockets /\ kind' = kind /\ odd' = odd
      /\ kind[which] = found.type /\ kind[which] \in Types /\ found.name \in Names
  BY DEF TypeOK, Frames, ReceiveStrings, FoundInv
<1>2. /\ frames' = [frames EXCEPT ![which] = SubSeq(f, k + 1, Len(f))]
      /\ heard' = [name |-> found.name, mq_socket |-> which, parts |-> SubSeq(f, 1, k)]
      /\ Len(f) >= k /\ f \in Frames
  BY <1>1 DEF ReceiveStrings
<1>3. CASE kind[which] = "server"
  <2>1. k = 2
    BY <1>1, <1>3 DEF FramesOf
  <2>2. /\ SubSeq(f, k + 1, Len(f)) \in Frames /\ SubSeq(f, 1, k) \in Frames
        /\ which \notin odd => /\ Alternate(SubSeq(f, k + 1, Len(f)))
                               /\ SubSeq(f, 1, k) = <<"id", "text">>
    <3>1. k + 1 = 3 /\ (which \notin odd => Alternate(f))
      BY <1>1, <1>3, <2>1 DEF FrameInv
    <3>2. SubSeq(f, 3, Len(f)) \in Frames /\ SubSeq(f, 1, 2) \in Frames
      BY <1>2, <2>1, FramesRead
    <3> QED
      BY <1>2, <2>1, <3>1, <3>2, AlternateRead
  <2> HIDE DEF f, k
  <2>3. frames' \in [Sockets -> Frames] /\ FrameInv'
    BY <1>1, <1>2, <1>3, <2>2, NoneAssumption DEF FrameInv, Types
  <2>4. heard' \in [name : Names, mq_socket : Sockets, parts : Frames]
    BY <1>1, <1>2, <2>2
  <2>5. /\ heard'.mq_socket = which /\ kind'[which] # None
        /\ which \notin odd => heard'.parts = <<"id", "text">>
    BY <1>1, <1>2, <2>2, Kinds
  <2> QED
    BY <1>1, <1>3, <2>3, <2>4, <2>5 DEF HeardInv, ReadsInStep
<1>4. CASE kind[which] # "server"
  <2>1. k = 1
    BY <1>1, <1>4 DEF FramesOf
  <2>2. kind[which] # "publisher"
    <3> SUFFICES ASSUME kind[which] = "publisher" PROVE FALSE
      OBVIOUS
    <3>1. f = <<>> /\ Len(f) >= 1
      BY <1>1, <1>2, <2>1 DEF FrameInv
    <3> QED
      BY <3>1
  <2>3. kind[which] \in {"client", "subscriber"}
    BY <1>1, <1>4, <2>2 DEF Types
  <2>4. /\ SubSeq(f, k + 1, Len(f)) \in Frames /\ Strings(SubSeq(f, k + 1, Len(f)))
        /\ SubSeq(f, 1, k) = <<"text">>
    BY <1>1, <1>2, <2>1, <2>3, StringsRead DEF FrameInv
  <2>5. SubSeq(f, 1, k) \in Frames
    <3>1. <<"text">> \in Frames
      BY DEF Frames
    <3> HIDE DEF f, k
    <3> QED
      BY <2>4, <3>1
  <2> HIDE DEF f, k
  <2>6. frames' \in [Sockets -> Frames] /\ FrameInv'
    BY <1>1, <1>2, <2>3, <2>4, NoneAssumption DEF FrameInv, Types
  <2>7. heard' \in [name : Names, mq_socket : Sockets, parts : Frames]
    BY <1>1, <1>2, <2>5
  <2>8. /\ heard'.mq_socket = which /\ heard'.parts = <<"text">>
        /\ kind'[which] # None
    BY <1>1, <1>2, <2>4, Kinds
  <2> QED
    BY <1>1, <1>4, <2>6, <2>7, <2>8 DEF HeardInv, ReadsInStep
<1> QED
  BY <1>3, <1>4

-----------------------------------------------------------------------------
(* A publisher's name joins the list while a socket of its type is opened.  As
   long as a listed name is taken or being opened it was not there before. *)
LEMMA ListStep ==
    ASSUME NEW l \in Seq(Names), NEW n \in Names
    PROVE  /\ Append(l, n) \in Seq(Names)
           /\ ToSet(Append(l, n)) = ToSet(l) \cup {n}
           /\ IsInjective(l) /\ n \notin ToSet(l) => IsInjective(Append(l, n))
<1> DEFINE g == Append(l, n)
<1>1. /\ g \in Seq(Names) /\ Len(g) = Len(l) + 1 /\ Len(l) \in Nat
      /\ \A i \in 1..Len(l) : g[i] = l[i]
      /\ g[Len(l) + 1] = n
      /\ DOMAIN g = 1..Len(g) /\ DOMAIN l = 1..Len(l)
  BY AppendProperties, LenProperties
<1> HIDE DEF g
<1>2. ToSet(g) = ToSet(l) \cup {n}
  BY <1>1 DEF ToSet
<1>3. ASSUME IsInjective(l), n \notin ToSet(l) PROVE IsInjective(g)
  <2>1. \A i \in 1..Len(l) : l[i] # n
    BY <1>1, <1>3 DEF ToSet
  <2> QED
    BY <1>1, <1>3, <2>1 DEF IsInjective
<1> QED
  BY <1>1, <1>2, <1>3 DEF g

(* The invariant holds initially. *)
LEMMA InitIInv == Init => IInv
<1> SUFFICES ASSUME Init PROVE IInv
  OBVIOUS
<1>1. TypeOK
  <2>1. <<>> \in Seq(Names) /\ <<>> \in Seq({"id", "text"})
    OBVIOUS
  <2>2. frames \in [Sockets -> Seq({"id", "text"})]
    BY <2>1 DEF Init
  <2> QED
    BY <2>1, <2>2 DEF Init, TypeOK
<1>2. OpenInv /\ TableInv /\ NamedInv /\ FoundInv /\ HeardInv
  BY DEF Init, OpenInv, TableInv, NamedInv, FoundInv, HeardInv, HasName
<1>3. FrameInv
  BY NoneAssumption DEF Init, FrameInv, Types
<1>4. PublishNamesOpen
  <2>1. publish_lists = <<>> /\ DOMAIN publish_lists = {}
    BY DEF Init
  <2>2. Publishers = {} /\ NewPublisher = {}
    BY DEF Init, Publishers, NewPublisher, HasName
  <2> QED
    BY <2>1, <2>2 DEF PublishNamesOpen, IsInjective, ToSet
<1> QED
  BY <1>1, <1>2, <1>3, <1>4 DEF IInv

(* on_read finds the type that the socket was created with. *)
LEMMA FoundStep ==
    ASSUME TypeOK, TableInv, OnRead
    PROVE  FoundInv' /\ found' \in [name : Names, type : Types] \cup {None}
<1>1. which \in Sockets /\ UNCHANGED kind
  BY DEF TypeOK, OnRead
<1>2. CASE NamesOf(which) = {}
  BY <1>1, <1>2 DEF OnRead, FoundInv, TypeOK
<1>3. CASE NamesOf(which) # {}
  <2>1. PICK n \in NamesOf(which) :
          /\ found' = [name |-> n, type |-> socket_hash[n].type]
          /\ UNCHANGED which
    BY <1>3 DEF OnRead
  <2>2. n \in Names /\ HasName(n) /\ socket_hash[n].mq_socket = which
    BY <2>1 DEF NamesOf
  <2>3. socket_hash[n].type \in Types /\ kind[which] = socket_hash[n].type
    BY <2>2, Entries DEF TableInv
  <2> QED
    BY <1>1, <2>1, <2>2, <2>3 DEF FoundInv
<1> QED
  BY <1>2, <1>3

(* Every step keeps every variable in its type. *)
LEMMA TypeStep ==
    ASSUME IInv, [Next]_vars
    PROVE  TypeOK'
<1> USE DEF TypeOK, openVars, loopVars
<1> USE Kinds
<1>1. ASSUME NEW n \in Names, NEW type \in Types, OpenCheck(n, type)
      PROVE  TypeOK'
  BY <1>1 DEF IInv, OpenCheck
<1>2. CASE OpenCreate
  <2>1. args \in [name : Names, type : Types]
    BY <1>2 DEF IInv, OpenInv, OpenCreate
  <2>2. PICK s \in Fresh :
          /\ kind' = [kind EXCEPT ![s] = args.type]
          /\ sock' = s
          /\ IF args.type = "publisher"
               THEN /\ publish_lists' = Append(publish_lists, args.name)
                    /\ UNCHANGED poller
               ELSE /\ poller' = poller \cup {s}
                    /\ UNCHANGED publish_lists
    BY <1>2 DEF OpenCreate
  <2>3. s \in Sockets /\ args.name \in Names /\ args.type \in Types
    BY <2>1 DEF Fresh
  <2>4. publish_lists' \in Seq(Names)
    <3>1. Append(publish_lists, args.name) \in Seq(Names)
      BY <2>3, AppendProperties DEF IInv
    <3> QED
      BY <2>2, <3>1 DEF IInv
  <2>5. /\ kind' \in [Sockets -> Types \cup {None}] /\ poller' \subseteq Sockets
        /\ sock' \in Sockets
    BY <2>2, <2>3 DEF IInv
  <2> QED
    BY <1>2, <2>4, <2>5 DEF IInv, OpenCreate
<1>3. CASE OpenAdd
  <2>1. /\ args \in [name : Names, type : Types] /\ sock \in Sockets
        /\ openPc = "add"
    BY <1>3 DEF IInv, OpenInv, OpenAdd
  <2>2. [mq_socket |-> sock, type |-> args.type] \in Value /\ args.name \in Names
    BY <2>1
  <2> QED
    BY <1>3, <2>1, <2>2 DEF IInv, OpenAdd
<1>4. ASSUME NEW s \in Sockets, NEW k \in Lengths, Arrive(s, k) PROVE TypeOK'
  BY <1>4, ArriveStep DEF IInv, Arrive, Frames
<1>5. CASE LoopTest
  BY <1>5 DEF IInv, LoopTest
<1>6. ASSUME NEW s \in Sockets, Poll(s) PROVE TypeOK'
  BY <1>6 DEF IInv, Poll
<1>7. CASE PollExpired
  BY <1>7 DEF IInv, PollExpired
<1>8. CASE Interrupt
  BY <1>8 DEF IInv, Interrupt
<1>9. CASE OnRead
  BY <1>9, FoundStep DEF IInv, OnRead
<1>9b. CASE ReceiveStrings
  BY <1>9b, ReceiveStep DEF IInv, ReceiveStrings, Frames
<1>10. CASE Stop
  BY <1>10 DEF IInv, Stop
<1>11. CASE CloseAll
  BY <1>11 DEF IInv, CloseAll
<1>12. CASE UNCHANGED vars
  BY <1>12 DEF IInv, vars
<1> QED
  BY <1>1, <1>2, <1>3, <1>4, <1>5, <1>6, <1>7, <1>8, <1>9, <1>9b, <1>10, <1>11, <1>12
     DEF Next, Open, Loop, Finished

(* What the invariant says of names and types; the steps keep it, given that
   the rest of the state keeps its type. *)
NameInv == OpenInv /\ TableInv /\ NamedInv /\ PublishNamesOpen

(* The first part of a call: a name is found free. *)
LEMMA OpenCheckStep ==
    ASSUME IInv, NEW n \in Names, NEW type \in Types, OpenCheck(n, type)
    PROVE  NameInv' /\ FoundInv' /\ FrameInv' /\ HeardInv'
<1>1. /\ UNCHANGED <<socket_hash, publish_lists, kind, frames, odd, terminated, heard, sock>>
      /\ UNCHANGED <<svcPc, which, found>>
      /\ openPc = "idle" /\ openPc' = "create"
      /\ args' = [name |-> n, type |-> type] /\ ~HasName(n)
  BY DEF OpenCheck, loopVars
<1>2. sock = None
  BY <1>1 DEF IInv, OpenInv
<1>3. OpenInv'
  BY <1>1, <1>2 DEF OpenInv, HasName
<1>4. TableInv' /\ NamedInv' /\ PublishNamesOpen'
  BY <1>1 DEF IInv, TableInv, NamedInv, PublishNamesOpen, Publishers, NewPublisher, HasName
<1>5. FoundInv' /\ FrameInv' /\ HeardInv'
  BY <1>1 DEF IInv, FoundInv, FrameInv, HeardInv, ReadsInStep
<1> QED
  BY <1>3, <1>4, <1>5 DEF NameInv

(* The second part: the socket is new, so no name stands for it, nothing waits
   at it and nothing was heard from it. *)
LEMMA OpenCreateStep ==
    ASSUME IInv, OpenCreate
    PROVE  NameInv' /\ FoundInv' /\ FrameInv' /\ HeardInv'
<1>1. /\ UNCHANGED <<socket_hash, frames, odd, terminated, heard, args>>
      /\ UNCHANGED <<svcPc, which, found>>
      /\ openPc = "create" /\ openPc' = "add"
  BY DEF OpenCreate, loopVars
<1>2. PICK s \in Fresh :
        /\ kind' = [kind EXCEPT ![s] = args.type]
        /\ sock' = s
        /\ IF args.type = "publisher"
             THEN /\ publish_lists' = Append(publish_lists, args.name)
                  /\ UNCHANGED poller
             ELSE /\ poller' = poller \cup {s}
                  /\ UNCHANGED publish_lists
  BY DEF OpenCreate
<1>3. /\ args \in [name : Names, type : Types] /\ ~HasName(args.name)
      /\ sock = None
  BY <1>1 DEF IInv, OpenInv
<1>4. /\ s \in Sockets /\ kind[s] = None /\ kind \in [Sockets -> Types \cup {None}]
      /\ args.name \in Names /\ args.type \in Types
  BY <1>2, <1>3 DEF IInv, TypeOK, Fresh
<1>5. ASSUME NEW n \in Names, HasName(n)
      PROVE  socket_hash[n].mq_socket \in Sockets \ {s}
  BY <1>4, <1>5, Entries, Kinds DEF IInv, TableInv
<1>6. OpenInv'
  BY <1>1, <1>2, <1>3, <1>4, <1>5 DEF OpenInv, HasName
<1>7. TableInv'
  BY <1>1, <1>2, <1>4, <1>5 DEF IInv, TableInv, HasName
<1>8. NamedInv'
  BY <1>1, <1>2, <1>3, <1>4, Kinds DEF IInv, NamedInv, HasName
<1>9. PublishNamesOpen'
  <2>1. /\ Publishers' = Publishers /\ NewPublisher = {}
        /\ NewPublisher' = IF args.type = "publisher" THEN {args.name} ELSE {}
    <3>1. Publishers' = Publishers /\ NewPublisher = {}
      BY <1>1 DEF Publishers, NewPublisher, HasName
    <3>2. \A n : args = [name |-> n, type |-> "publisher"]
                    <=> n = args.name /\ args.type = "publisher"
      BY <1>3
    <3> QED
      BY <1>1, <1>4, <3>1, <3>2 DEF NewPublisher
  <2>2. publish_lists \in Seq(Names) /\ PublishNamesOpen
    BY DEF IInv, TypeOK
  <2>3. args.name \notin Publishers
    BY <1>3 DEF Publishers
  <2>4. CASE args.type = "publisher"
    <3>1. publish_lists' = Append(publish_lists, args.name)
      BY <1>2, <2>4
    <3>2. ToSet(publish_lists') = ToSet(publish_lists) \cup {args.name}
      BY <1>4, <2>2, <3>1, ListStep
    <3>3. ~terminated => IsInjective(publish_lists')
      BY <1>4, <2>1, <2>2, <2>3, <3>1, ListStep DEF PublishNamesOpen
    <3> QED
      BY <1>1, <2>1, <2>2, <2>4, <3>2, <3>3 DEF PublishNamesOpen
  <2>5. CASE args.type # "publisher"
    BY <1>1, <1>2, <2>1, <2>2, <2>5 DEF PublishNamesOpen
  <2> QED
    BY <2>4, <2>5
<1>10. FrameInv'
  <2>1. frames[s] = <<>>
    BY <1>4 DEF IInv, FrameInv
  <2>2. Alternate(<<>>) /\ Strings(<<>>)
    BY DEF Alternate, Strings
  <2> QED
    BY <1>1, <1>2, <1>4, <2>1, <2>2 DEF IInv, FrameInv
<1>11. HeardInv'
  BY <1>1, <1>2, <1>4, Kinds DEF IInv, HeardInv, ReadsInStep
<1>12. FoundInv'
  BY <1>1, <1>2, <1>4, Kinds DEF IInv, FoundInv
<1> QED
  BY <1>6, <1>7, <1>8, <1>9, <1>10, <1>11, <1>12 DEF NameInv

(* The third part: the socket, which has no name, gets the free name. *)
LEMMA OpenAddStep ==
    ASSUME IInv, OpenAdd
    PROVE  NameInv' /\ FoundInv' /\ FrameInv' /\ HeardInv'
<1>1. /\ UNCHANGED <<publish_lists, kind, frames, odd, terminated, heard>>
      /\ UNCHANGED <<svcPc, which, found>>
      /\ openPc = "add" /\ openPc' = "idle" /\ sock' = None
      /\ socket_hash' = [socket_hash EXCEPT ![args.name] =
                           [mq_socket |-> sock, type |-> args.type]]
  BY DEF OpenAdd, loopVars
<1>2. /\ args \in [name : Names, type : Types] /\ ~HasName(args.name)
      /\ sock \in Sockets /\ kind[sock] = args.type
      /\ \A n \in Names : HasName(n) => socket_hash[n].mq_socket # sock
  BY <1>1 DEF IInv, OpenInv
<1> DEFINE v == [mq_socket |-> sock, type |-> args.type]
<1>3. /\ args.name \in Names /\ v # None
      /\ v.mq_socket = sock /\ v.type = args.type
      /\ socket_hash \in [Names -> Value \cup {None}]
  BY <1>2, Kinds DEF IInv, TypeOK
<1>4. \A n \in Names : socket_hash'[n] = IF n = args.name THEN v ELSE socket_hash[n]
  BY <1>1, <1>3
<1> HIDE DEF v
<1>5. \A n \in Names : HasName(n)' <=> (n = args.name \/ HasName(n))
  BY <1>3, <1>4 DEF HasName
<1>6. OpenInv'
  BY <1>1 DEF OpenInv
<1>7. TableInv'
  <2> SUFFICES ASSUME NEW n \in Names, HasName(n)'
               PROVE  /\ kind[socket_hash'[n].mq_socket] = socket_hash'[n].type
                      /\ \A m \in Names :
                            /\ HasName(m)'
                            /\ socket_hash'[m].mq_socket = socket_hash'[n].mq_socket
                            => m = n
    BY <1>1 DEF TableInv
  <2>1. CASE n = args.name
    BY <1>2, <1>3, <1>4, <1>5, <2>1
  <2>2. CASE n # args.name
    BY <1>2, <1>3, <1>4, <1>5, <2>2 DEF IInv, TableInv
  <2> QED
    BY <2>1, <2>2
<1>8. NamedInv'
  <2> SUFFICES ASSUME ~terminated, NEW s \in Sockets, kind[s] # None
               PROVE  \E n \in Names : HasName(n)' /\ socket_hash'[n].mq_socket = s
    BY <1>1 DEF NamedInv, HasName
  <2>1. CASE s = sock
    BY <1>3, <1>4, <1>5, <2>1
  <2>2. CASE s # sock
    <3>1. PICK n \in Names : HasName(n) /\ socket_hash[n].mq_socket = s
      BY <2>2 DEF IInv, NamedInv
    <3>2. n # args.name
      BY <1>2, <3>1
    <3> QED
      BY <1>4, <1>5, <3>1, <3>2
  <2> QED
    BY <2>1, <2>2
<1>9. PublishNamesOpen'
  <2>1. Publishers' \cup NewPublisher' = Publishers \cup NewPublisher
    <3>1. NewPublisher' = {}
      BY <1>1 DEF NewPublisher
    <3>2. \A n : args = [name |-> n, type |-> "publisher"]
                    <=> n = args.name /\ args.type = "publisher"
      BY <1>2
    <3>3. NewPublisher = {n \in Names : n = args.name /\ args.type = "publisher"}
      BY <1>1, <3>2 DEF NewPublisher
    <3>4. Publishers' = {n \in Names : \/ n = args.name /\ args.type = "publisher"
                                       \/ HasName(n) /\ socket_hash[n].type = "publisher"}
      BY <1>2, <1>3, <1>4, <1>5 DEF Publishers
    <3> QED
      BY <3>1, <3>3, <3>4 DEF Publishers
  <2> QED
    BY <1>1, <2>1 DEF IInv, PublishNamesOpen
<1>10. FoundInv' /\ FrameInv' /\ HeardInv'
  BY <1>1 DEF IInv, FoundInv, FrameInv, HeardInv, ReadsInStep
<1> QED
  BY <1>6, <1>7, <1>8, <1>9, <1>10 DEF NameInv

(* ipcam_service_stop_impl empties the table. *)
LEMMA CloseAllStep ==
    ASSUME IInv, CloseAll
    PROVE  NameInv' /\ FoundInv' /\ FrameInv' /\ HeardInv'
<1>1. /\ UNCHANGED <<publish_lists, kind, frames, odd, terminated, heard, openVars>>
      /\ UNCHANGED <<svcPc, which, found>>
      /\ terminated /\ socket_hash' = [n \in Names |-> None]
  BY DEF CloseAll, loopVars
<1>2. \A n \in Names : ~HasName(n)'
  BY <1>1 DEF HasName
<1>3. OpenInv'
  BY <1>1, <1>2 DEF IInv, OpenInv, openVars
<1>4. TableInv' /\ NamedInv'
  BY <1>1, <1>2 DEF TableInv, NamedInv
<1>4b. PublishNamesOpen'
  <2>1. Publishers' = {} /\ NewPublisher' = NewPublisher
    BY <1>1, <1>2 DEF Publishers, NewPublisher, openVars
  <2> QED
    BY <1>1, <2>1 DEF IInv, PublishNamesOpen
<1>5. FoundInv' /\ FrameInv' /\ HeardInv'
  BY <1>1 DEF IInv, FoundInv, FrameInv, HeardInv, ReadsInStep
<1> QED
  BY <1>3, <1>4, <1>4b, <1>5 DEF NameInv

(* The other steps leave sockets, names and calls alone. *)
LEMMA NamesKept ==
    ASSUME NameInv,
           UNCHANGED <<socket_hash, publish_lists, kind, openVars>>,
           terminated' \in {terminated, TRUE}
    PROVE  NameInv'
  BY DEF NameInv, OpenInv, TableInv, NamedInv, PublishNamesOpen, Publishers, NewPublisher,
         HasName, openVars

-----------------------------------------------------------------------------
(* The invariant is inductive. *)
LEMMA NextIInv == IInv /\ [Next]_vars => IInv'
<1> SUFFICES ASSUME IInv, [Next]_vars PROVE IInv'
  OBVIOUS
<1>0. NameInv /\ TypeOK'
  BY TypeStep DEF IInv, NameInv
<1> SUFFICES NameInv' /\ FoundInv' /\ FrameInv' /\ HeardInv'
  BY <1>0 DEF IInv, NameInv
<1>1. ASSUME NEW n \in Names, NEW type \in Types, OpenCheck(n, type)
      PROVE  NameInv' /\ FoundInv' /\ FrameInv' /\ HeardInv'
  BY <1>1, OpenCheckStep
<1>2. CASE OpenCreate
  BY <1>2, OpenCreateStep
<1>3. CASE OpenAdd
  BY <1>3, OpenAddStep
<1>4. ASSUME NEW s \in Sockets, NEW k \in Lengths, Arrive(s, k)
      PROVE  NameInv' /\ FoundInv' /\ FrameInv' /\ HeardInv'
  <2>1. NameInv'
    BY <1>0, <1>4, NamesKept DEF Arrive
  <2>2. FrameInv'
    BY <1>4, ArriveStep DEF IInv
  <2>3. UNCHANGED <<kind, heard, svcPc, which, found>> /\ odd \subseteq odd'
    BY <1>4 DEF Arrive, loopVars
  <2>4. FoundInv' /\ HeardInv'
    BY <2>3 DEF IInv, FoundInv, HeardInv, ReadsInStep
  <2> QED
    BY <2>1, <2>2, <2>4
<1>5. CASE OnRead
  <2>1. NameInv'
    BY <1>0, <1>5, NamesKept DEF OnRead
  <2>2. FoundInv'
    BY <1>5, FoundStep DEF IInv
  <2>3. FrameInv' /\ HeardInv'
    BY <1>5 DEF OnRead, IInv, FrameInv, HeardInv, ReadsInStep
  <2> QED
    BY <2>1, <2>2, <2>3
<1>5b. CASE ReceiveStrings
  <2>1. NameInv' /\ FoundInv'
    BY <1>0, <1>5b, NamesKept DEF ReceiveStrings, FoundInv
  <2> QED
    BY <1>5b, <2>1, ReceiveStep DEF IInv
<1>6. CASE CloseAll
  BY <1>6, CloseAllStep
<1>7. CASE LoopTest \/ (\E s \in Sockets : Poll(s)) \/ PollExpired \/ Interrupt
           \/ Stop \/ UNCHANGED vars
  <2>1. /\ UNCHANGED <<socket_hash, publish_lists, kind, frames, odd, openVars>>
        /\ terminated' \in {terminated, TRUE} /\ heard' \in {heard, None}
        /\ svcPc' # "read" \/ UNCHANGED <<svcPc, which, found>>
    BY <1>7 DEF LoopTest, Poll, PollExpired, Interrupt, Stop, vars, loopVars
  <2>2. NameInv'
    BY <1>0, <2>1, NamesKept
  <2>3. FoundInv' /\ FrameInv' /\ HeardInv'
    BY <2>1 DEF IInv, FoundInv, FrameInv, HeardInv, ReadsInStep
  <2> QED
    BY <2>2, <2>3
<1> QED
  BY <1>1, <1>2, <1>3, <1>4, <1>5, <1>5b, <1>6, <1>7 DEF Next, Open, Loop, Finished

(* The parts of a call, the table, the list, the frames and the messages fit
   together in every state of the service. *)
THEOREM ServiceInvariant == Spec => []IInv
<1> QED
  BY InitIInv, NextIInv, PTL DEF Spec

(* Every variable of the service has its type, always. *)
THEOREM ServiceTypes == Spec => []TypeOK
<1>1. IInv => TypeOK
  BY DEF IInv
<1> QED
  BY <1>1, ServiceInvariant, PTL

(* What PolledSocketsNamed says follows from the table and what it names. *)
LEMMA NamedOnce == IInv => PolledSocketsNamed
<1> SUFFICES ASSUME IInv, ~terminated, NEW s \in Sockets, kind[s] # None, s # sock
             PROVE  \E n \in Names : NamesOf(s) = {n} /\ socket_hash[n].type = kind[s]
  BY DEF PolledSocketsNamed
<1>1. PICK n \in Names : HasName(n) /\ socket_hash[n].mq_socket = s
  BY DEF IInv, NamedInv
<1>2. \A m \in Names : HasName(m) /\ socket_hash[m].mq_socket = s <=> m = n
  BY <1>1 DEF IInv, TableInv
<1>3. NamesOf(s) = {n}
  BY <1>2 DEF NamesOf
<1>4. socket_hash[n].type = kind[s]
  BY <1>1 DEF IInv, TableInv
<1> QED
  BY <1>3, <1>4

(* Whatever is opened and however many sockets there are: until the service is
   told to stop, a created socket has one name, with its type, or is being
   entered in the table. *)
THEOREM SocketsNamed == Spec => []PolledSocketsNamed
<1> QED
  BY NamedOnce, ServiceInvariant, PTL

(* However the senders' messages arrive and are read, what is passed on is one
   message of the type the socket was created with, but for servers to which
   several strings were sent at once. *)
THEOREM ReadsWholeMessages == Spec => []ReadsInStep
<1>1. IInv => ReadsInStep
  BY DEF IInv, HeardInv, ReadsInStep
<1> QED
  BY <1>1, ServiceInvariant, PTL

(* Every publisher that is open or is just being entered in the table is on the
   list that broadcasts go through; until the service is told to stop it is there
   once, and so is nothing else. *)
THEOREM PublishersListed == Spec => []PublishNamesOpen
<1>1. IInv => PublishNamesOpen
  BY DEF IInv
<1> QED
  BY <1>1, ServiceInvariant, PTL
===============================================================================
