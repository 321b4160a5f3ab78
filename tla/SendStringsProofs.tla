--------------------------- MODULE SendStringsProofs ---------------------------
(***************************************************************************)
(* Proofs about SendStrings, for any threads, sockets and receivers, and   *)
(* messages of any length.                                                 *)
(*                                                                         *)
(* On a socket on which no sends have overlapped there is at most one      *)
(* thread in the middle of a message, and what libzmq holds back is the    *)
(* part of it that is sent (AloneInv); so a message arrives whole.  On the *)
(* others a string is told from the later ones of its thread by where the  *)
(* thread is (UsedInv), so it arrives once, and stays where it is until it *)
(* is read (KeptInv).                                                      *)
(***************************************************************************)
EXTENDS SendStrings, SequenceTheorems, TLAPS

(* What a thread that sends knows of its message, as far as it has got. *)
Knows(t) ==
    /\ job[t] \in Jobs /\ count[t] > 0
    /\ pc[t] = "token" => Strings[job[t].name] = 1 /\ job[t].token = ""
    /\ pc[t] = "lookup" => \/ job[t].token = RightToken(job[t].name)
                           \/ job[t].name \notin named
    /\ pc[t] \in {"identity", "strings"} => job[t].token = RightToken(job[t].name)
    /\ pc[t] = "identity" => TypeOf[job[t].name] = "server"
    /\ pc[t] = "strings" => part[t] < Strings[job[t].name]

JobInv == \A t \in Threads : pc[t] # "idle" => Knows(t)

RoutedInv == \A n \in Names : TypeOf[n] # "server" => routed[n] = None

(* The thread is the only one in the middle of a message on the socket. *)
Routed(t) ==
    IF job[t].client_id \in Peers(job[t].name) THEN job[t].client_id ELSE None

Alone(t, n) ==
    /\ Underway(t, n) /\ \A u \in Threads \ {t} : ~Underway(u, n)
    /\ begun[n] /\ buffer[n] = [i \in 1..part[t] |-> Text(t, i)]
    /\ TypeOf[n] = "server" => routed[n] = Routed(t)

Nobody(n) == ~begun[n] /\ \A u \in Threads : ~Underway(u, n)

AloneInv == \A n \in Names \ overlapped : Nobody(n) \/ \E t \in Threads : Alone(t, n)

(* The strings that its thread has sent. *)
Used(f) ==
    \/ f.no < count[f.by]
    \/ /\ f.no = count[f.by]
       /\ \/ pc[f.by] = "idle"
          \/ pc[f.by] = "strings" /\ f.part <= part[f.by]

UsedInv ==
    \A r \in Receivers : \A f \in ToSet(Arrived(r)) \cap Texts : Used(f)

OnceInv == \A r \in Receivers : Once(Arrived(r))

(* What was sent to all is still to be read, was read, or is held back. *)
KeptInv ==
    \A r \in Receivers : TypeOf[At[r]] # "server" =>
        /\ ToSet(sent[r]) \subseteq ToSet(Arrived(r)) \cup {Identity}
        /\ \A t \in Threads : pc[t] = "strings" /\ job[t].name = At[r] =>
              \A i \in 1..part[t] : Text(t, i) \in ToSet(Arrived(r))

TokensInv ==
    \A r \in Receivers : \A f \in ToSet(sent[r]) \cap Texts :
        f.token = RightToken(At[r])

ArriveInv ==
    \A r \in Receivers : At[r] \notin overlapped => heard[r] \o wire[r] = sent[r]

IInv ==
    /\ TypeOK /\ JobInv /\ RoutedInv
    /\ AloneInv /\ ArriveInv /\ TokensInv
    /\ UsedInv /\ OnceInv /\ KeptInv

-----------------------------------------------------------------------------
(* Sequences of frames. *)

(* The frames of a sequence. *)
LEMMA ToSetIs ==
    ASSUME NEW S, NEW s \in Seq(S)
    PROVE  /\ ToSet(s) = {s[i] : i \in 1..Len(s)}
           /\ ToSet(s) \subseteq S /\ Len(s) \in Nat /\ DOMAIN s = 1..Len(s)
  BY LenProperties, ElementOfSeq DEF ToSet

(* Those of two in a row. *)
LEMMA ToSetConcat ==
    ASSUME NEW S, NEW s \in Seq(S), NEW t \in Seq(S)
    PROVE  s \o t \in Seq(S) /\ ToSet(s \o t) = ToSet(s) \cup ToSet(t)
<1>1. PICK k \in Nat, l \in Nat : k = Len(s) /\ l = Len(t)
  BY LenProperties
<1>2. /\ s \o t \in Seq(S) /\ Len(s \o t) = k + l
      /\ \A i \in 1..k + l : (s \o t)[i] = IF i <= k THEN s[i] ELSE t[i - k]
  BY <1>1, ConcatProperties
<1>3. /\ ToSet(s) = {s[i] : i \in 1..k} /\ ToSet(t) = {t[i] : i \in 1..l}
      /\ ToSet(s \o t) = {(s \o t)[i] : i \in 1..k + l}
  BY <1>1, <1>2, ToSetIs
<1>4. ASSUME NEW i \in 1..k PROVE s[i] \in ToSet(s \o t)
  BY <1>2, <1>3, (s \o t)[i] = s[i], i \in 1..k + l
<1>5. ASSUME NEW i \in 1..l PROVE t[i] \in ToSet(s \o t)
  BY <1>2, <1>3, (s \o t)[k + i] = t[i], k + i \in 1..k + l
<1>6. ASSUME NEW i \in 1..k + l PROVE (s \o t)[i] \in ToSet(s) \cup ToSet(t)
  <2>1. i <= k => (s \o t)[i] = s[i] /\ i \in 1..k
    BY <1>2
  <2>2. ~(i <= k) => (s \o t)[i] = t[i - k] /\ i - k \in 1..l
    BY <1>2
  <2> QED
    BY <1>3, <2>1, <2>2
<1>7. ToSet(s) \cup ToSet(t) \subseteq ToSet(s \o t)
  BY <1>3, <1>4, <1>5
<1>8. ToSet(s \o t) \subseteq ToSet(s) \cup ToSet(t)
  BY <1>3, <1>6
<1> QED
  BY <1>2, <1>7, <1>8

(* No text is twice in two sequences in a row if it is not twice in either and
   not in both. *)
LEMMA OnceConcat ==
    ASSUME NEW S, NEW s \in Seq(S), NEW t \in Seq(S)
    PROVE  Once(s \o t) <=> /\ Once(s) /\ Once(t)
                            /\ ToSet(s) \cap ToSet(t) \cap Texts = {}
<1>1. PICK k \in Nat, l \in Nat : k = Len(s) /\ l = Len(t)
  BY LenProperties
<1>2. /\ s \o t \in Seq(S) /\ Len(s \o t) = k + l
      /\ \A i \in 1..k + l : (s \o t)[i] = IF i <= k THEN s[i] ELSE t[i - k]
  BY <1>1, ConcatProperties
<1>3. ToSet(s) = {s[i] : i \in 1..k} /\ ToSet(t) = {t[i] : i \in 1..l}
  BY <1>1, ToSetIs
<1>4. \A i \in 1..k : (s \o t)[i] = s[i] /\ i \in 1..k + l
  BY <1>2
<1>5. \A i \in 1..l : (s \o t)[k + i] = t[i] /\ k + i \in 1..k + l
  BY <1>2
<1> DEFINE v == s \o t
<1>6. /\ Once(v) <=> \A i, j \in 1..k + l : v[i] \in Texts /\ v[i] = v[j] => i = j
      /\ Once(s) <=> \A i, j \in 1..k : s[i] \in Texts /\ s[i] = s[j] => i = j
      /\ Once(t) <=> \A i, j \in 1..l : t[i] \in Texts /\ t[i] = t[j] => i = j
  BY <1>1, <1>2 DEF Once
<1> HIDE DEF v
<1>7. ASSUME Once(v) PROVE Once(s) /\ Once(t) /\ ToSet(s) \cap ToSet(t) \cap Texts = {}
  <2>1. Once(s)
    BY <1>4, <1>6, <1>7 DEF v
  <2>2. Once(t)
    <3> SUFFICES ASSUME NEW i \in 1..l, NEW j \in 1..l, t[i] \in Texts, t[i] = t[j]
                 PROVE  i = j
      BY <1>6
    <3>1. v[k + i] = t[i] /\ v[k + j] = t[j] /\ k + i \in 1..k + l /\ k + j \in 1..k + l
      BY <1>5 DEF v
    <3>2. k + i = k + j
      BY <1>6, <1>7, <3>1
    <3> QED
      BY <3>2
  <2>3. ASSUME NEW i \in 1..k, NEW j \in 1..l, s[i] = t[j], s[i] \in Texts PROVE FALSE
    <3>1. v[i] = s[i] /\ v[k + j] = t[j] /\ i \in 1..k + l /\ k + j \in 1..k + l
      BY <1>4, <1>5 DEF v
    <3>2. i = k + j
      BY <1>6, <1>7, <2>3, <3>1
    <3> QED
      BY <3>2
  <2> QED
    BY <1>3, <2>1, <2>2, <2>3
<1>8. ASSUME Once(s), Once(t), ToSet(s) \cap ToSet(t) \cap Texts = {} PROVE Once(v)
  <2> SUFFICES ASSUME NEW i \in 1..k + l, NEW j \in 1..k + l, v[i] \in Texts, v[i] = v[j]
               PROVE  i = j
    BY <1>6
  <2>1. /\ v[i] = IF i <= k THEN s[i] ELSE t[i - k]
        /\ v[j] = IF j <= k THEN s[j] ELSE t[j - k]
    BY <1>2 DEF v
  <2>2. \A m \in 1..k + l : m <= k => m \in 1..k
    OBVIOUS
  <2>3. \A m \in 1..k + l : ~(m <= k) => m - k \in 1..l
    OBVIOUS
  <2>4. \A m \in 1..k, h \in 1..l : ~(s[m] = t[h] /\ s[m] \in Texts)
    BY <1>3, <1>8
  <2>5. CASE i <= k /\ j <= k
    BY <1>6, <1>8, <2>1, <2>2, <2>5
  <2>6. CASE i <= k /\ ~(j <= k)
    BY <2>1, <2>2, <2>3, <2>4, <2>6
  <2>7. CASE ~(i <= k) /\ j <= k
    BY <2>1, <2>2, <2>3, <2>4, <2>7
  <2>8. CASE ~(i <= k) /\ ~(j <= k)
    <3>1. i - k = j - k
      BY <1>6, <1>8, <2>1, <2>3, <2>8
    <3> QED
      BY <3>1
  <2> QED
    BY <2>5, <2>6, <2>7, <2>8
<1> QED
  BY <1>7, <1>8 DEF v

(* Both, of frames. *)
LEMMA FramesConcat ==
    ASSUME NEW s \in Seq(Frames), NEW t \in Seq(Frames)
    PROVE  /\ s \o t \in Seq(Frames) /\ ToSet(s \o t) = ToSet(s) \cup ToSet(t)
           /\ Once(s \o t) <=> /\ Once(s) /\ Once(t)
                               /\ ToSet(s) \cap ToSet(t) \cap Texts = {}
  BY ToSetConcat, OnceConcat

(* Three in a row. *)
LEMMA InARow ==
    ASSUME NEW s \in Seq(Frames), NEW t \in Seq(Frames), NEW u \in Seq(Frames)
    PROVE  (s \o t) \o u = s \o (t \o u)
  BY ConcatAssociative

(* Four. *)
LEMMA FourInARow ==
    ASSUME NEW h \in Seq(Frames), NEW w \in Seq(Frames),
           NEW p \in Seq(Frames), NEW c \in Seq(Frames)
    PROVE  h \o (w \o p \o c) = h \o w \o p \o c
<1> DEFINE x == w \o p
<1>1. x \in Seq(Frames)
  BY FramesConcat
<1>2. h \o x = (h \o w) \o p
  BY InARow, Zenon
<1> HIDE DEF x
<1>3. h \o (x \o c) = (h \o x) \o c
  BY <1>1, InARow, Zenon
<1> QED
  BY <1>2, <1>3, Zenon DEF x

(* A sequence of one frame, and what is appended to another. *)
LEMMA OneFrame ==
    ASSUME NEW f \in Frames, NEW s \in Seq(Frames)
    PROVE  /\ <<f>> \in Seq(Frames) /\ ToSet(<<f>>) = {f} /\ Once(<<f>>)
           /\ Append(s, f) = s \o <<f>> /\ Append(s, f) \in Seq(Frames)
           /\ <<>> \in Seq(Frames) /\ ToSet(<<>>) = {} /\ Once(<<>>)
<1>1. <<>> \in Seq(Frames) /\ Len(<<>>) = 0
  BY EmptySeq
<1>2. ASSUME NEW e \in Seq(Frames), Len(e) = 0 PROVE ToSet(e) = {} /\ Once(e)
  <2>1. ToSet(e) = {e[i] : i \in 1..0} /\ 1..Len(e) = 1..0
    BY <1>2, ToSetIs
  <2> QED
    BY <2>1 DEF Once
<1>3. ASSUME NEW e \in Seq(Frames), Len(e) = 1 PROVE ToSet(e) = {e[1]} /\ Once(e)
  <2>1. ToSet(e) = {e[i] : i \in 1..1} /\ 1..Len(e) = 1..1
    BY <1>3, ToSetIs
  <2> QED
    BY <2>1 DEF Once
<1>4. Append(<<>>, f) \in Seq(Frames) /\ Len(Append(<<>>, f)) = 1 /\ Append(<<>>, f)[1] = f
  BY <1>1, AppendProperties
<1>5. <<f>> = Append(<<>>, f)
  OBVIOUS
<1>6. <<f>> \in Seq(Frames) /\ ToSet(<<f>>) = {f} /\ Once(<<f>>)
  BY <1>3, <1>4, <1>5
<1> QED
  BY <1>1, <1>2, <1>6, AppendIsConcat, AppendProperties

(* What comes before a message holds no text. *)
LEMMA PrefixIs ==
    ASSUME NEW n
    PROVE  /\ Prefix(n) \in Seq(Frames) /\ ToSet(Prefix(n)) \subseteq {Identity}
           /\ Once(Prefix(n)) /\ Identity \in Frames /\ Identity \notin Texts
<1>1. Identity \in Frames /\ Identity \notin Texts
  BY FramesAssumption DEF Frames
<1>2. /\ <<Identity>> \in Seq(Frames) /\ ToSet(<<Identity>>) = {Identity}
      /\ Once(<<Identity>>)
      /\ <<>> \in Seq(Frames) /\ ToSet(<<>>) = {} /\ Once(<<>>)
  BY <1>1, OneFrame, EmptySeq
<1> QED
  BY <1>1, <1>2 DEF Prefix

(* What was heard, lies there and is held back, before and after a frame is
   sent: it is held back too, all that is held back is delivered, or dropped. *)
LEMMA Flow ==
    ASSUME NEW h \in Seq(Frames), NEW w \in Seq(Frames), NEW b \in Seq(Frames),
           NEW f \in Frames, NEW n \in Names
    PROVE  LET old == h \o w \o b
               kept == h \o w \o Append(b, f)
               passed == h \o (w \o Prefix(n) \o Append(b, f)) \o <<>>
               dropped == h \o w \o <<>>
           IN  /\ old \in Seq(Frames) /\ kept \in Seq(Frames)
               /\ passed \in Seq(Frames) /\ dropped \in Seq(Frames)
               /\ w \o Prefix(n) \o Append(b, f) \in Seq(Frames)
               /\ ToSet(kept) = ToSet(old) \cup {f}
               /\ ToSet(passed) = ToSet(old) \cup {f} \cup ToSet(Prefix(n))
               /\ ToSet(dropped) \subseteq ToSet(old)
               /\ Once(old) => Once(dropped)
               /\ Once(old) /\ f \notin ToSet(old) \cap Texts
                    => Once(kept) /\ Once(passed)
<1> DEFINE c == Append(b, f)
           q == Prefix(n)
<1>1. /\ c \in Seq(Frames) /\ ToSet(c) = ToSet(b) \cup {f}
      /\ Once(c) <=> Once(b) /\ ToSet(b) \cap {f} \cap Texts = {}
  <2>1. c = b \o <<f>> /\ <<f>> \in Seq(Frames) /\ ToSet(<<f>>) = {f} /\ Once(<<f>>)
    BY OneFrame
  <2> HIDE DEF c
  <2> QED
    BY <2>1, FramesConcat
<1>2. /\ q \in Seq(Frames) /\ ToSet(q) \cap Texts = {} /\ Once(q)
      /\ <<>> \in Seq(Frames) /\ ToSet(<<>>) = {} /\ Once(<<>>)
  <2>1. q \in Seq(Frames) /\ ToSet(q) \cap Texts = {} /\ Once(q)
    BY PrefixIs
  <2> QED
    BY <2>1, OneFrame
<1> HIDE DEF c, q
<1>3. /\ h \o w \in Seq(Frames) /\ ToSet(h \o w) = ToSet(h) \cup ToSet(w)
      /\ Once(h \o w) <=> Once(h) /\ Once(w) /\ ToSet(h) \cap ToSet(w) \cap Texts = {}
  BY FramesConcat
<1>4. /\ h \o w \o b \in Seq(Frames)
      /\ ToSet(h \o w \o b) = ToSet(h) \cup ToSet(w) \cup ToSet(b)
      /\ Once(h \o w \o b) <=>
            Once(h \o w) /\ Once(b) /\ ToSet(h \o w) \cap ToSet(b) \cap Texts = {}
  BY <1>3, FramesConcat
<1>5. /\ h \o w \o c \in Seq(Frames)
      /\ ToSet(h \o w \o c) = ToSet(h) \cup ToSet(w) \cup ToSet(c)
      /\ Once(h \o w \o c) <=>
            Once(h \o w) /\ Once(c) /\ ToSet(h \o w) \cap ToSet(c) \cap Texts = {}
  BY <1>1, <1>3, FramesConcat
<1>6. h \o w \o <<>> = h \o w
  BY <1>3, ConcatEmptySeq
<1>7. /\ w \o q \in Seq(Frames) /\ ToSet(w \o q) = ToSet(w) \cup ToSet(q)
      /\ Once(w \o q) <=> Once(w)
  BY <1>2, FramesConcat
<1> DEFINE x == w \o q \o c
<1>8. /\ x \in Seq(Frames) /\ ToSet(x) = ToSet(w) \cup ToSet(q) \cup ToSet(c)
      /\ Once(x) <=> Once(w) /\ Once(c) /\ ToSet(w) \cap ToSet(c) \cap Texts = {}
  <2>1. ToSet(w \o q) \cap ToSet(c) \cap Texts = ToSet(w) \cap ToSet(c) \cap Texts
    BY <1>2, <1>7
  <2>2. /\ x \in Seq(Frames) /\ ToSet(x) = ToSet(w \o q) \cup ToSet(c)
        /\ Once(x) <=> Once(w \o q) /\ Once(c) /\ ToSet(w \o q) \cap ToSet(c) \cap Texts = {}
    BY <1>1, <1>7, FramesConcat
  <2> QED
    BY <1>7, <2>1, <2>2
<1> HIDE DEF x
<1>9. /\ h \o x \in Seq(Frames) /\ ToSet(h \o x) = ToSet(h) \cup ToSet(x)
      /\ Once(h \o x) <=> Once(h) /\ Once(x) /\ ToSet(h) \cap ToSet(x) \cap Texts = {}
  BY <1>8, FramesConcat
<1>10. h \o x \o <<>> = h \o x
  BY <1>9, ConcatEmptySeq
<1>11. Once(h \o w \o b) /\ f \notin ToSet(h \o w \o b) \cap Texts => Once(h \o w \o c)
  BY <1>1, <1>3, <1>4, <1>5
<1>12. Once(h \o w \o c) => Once(h \o x)
  BY <1>2, <1>3, <1>5, <1>8, <1>9
<1>13. /\ ToSet(h \o w \o c) = ToSet(h \o w \o b) \cup {f}
       /\ ToSet(h \o x) = ToSet(h \o w \o b) \cup {f} \cup ToSet(q)
       /\ ToSet(h \o w) \subseteq ToSet(h \o w \o b)
       /\ Once(h \o w \o b) => Once(h \o w)
  BY <1>1, <1>3, <1>4, <1>5, <1>8, <1>9
<1> QED
  BY <1>3, <1>4, <1>5, <1>6, <1>8, <1>9, <1>10, <1>11, <1>12, <1>13 DEF x, c, q

-----------------------------------------------------------------------------
(* libzmq is given a frame. *)

(* What the types say of a socket. *)
LEMMA SocketParts ==
    ASSUME TypeOK, NEW n \in Names
    PROVE  /\ TypeOf[n] \in Types
           /\ buffer[n] \in Seq(Frames) /\ routed[n] \in Peers(n) \cup {None}
           /\ ~begun[n] => buffer[n] = <<>> /\ routed[n] = None
           /\ Peers(n) \subseteq Receivers /\ None \notin Receivers
           /\ \A r \in Peers(n) : At[r] = n
           /\ <<>> \in Seq(Frames)
           /\ \A r \in Receivers : wire[r] \in Seq(Frames)
  BY NamesAssumption, FramesAssumption, EmptySeq DEF TypeOK, Peers

SendMore(n, frame) == SendFrame(n, frame, TRUE)
SendLast(n, frame) == SendFrame(n, frame, FALSE)

(* Another frame is to follow: this one is held back, or names the peer. *)
LEMMA HeldBack ==
    ASSUME TypeOK, NEW n \in Names, NEW frame \in Frames, SendMore(n, frame)
    PROVE  /\ UNCHANGED wire
           /\ begun' \in [Names -> BOOLEAN] /\ begun'[n]
           /\ \A m \in Names : m # n => (begun'[m] <=> begun[m])
           /\ routed' \in [Names -> Receivers \cup {None}]
           /\ routed'[n] \in Peers(n) \cup {None}
           /\ \A m \in Names : m # n => routed'[m] = routed[m]
           /\ \/ /\ TypeOf[n] = "server" /\ ~begun[n] /\ UNCHANGED buffer
                 /\ routed'[n] = IF frame \in Peers(n) THEN frame ELSE None
              \/ /\ TypeOf[n] = "server" => begun[n]
                 /\ buffer' = [buffer EXCEPT ![n] = Append(@, frame)]
                 /\ UNCHANGED routed
<1>1. CASE TypeOf[n] = "server" /\ RouterFirst(n, frame, TRUE)
  <2>1. /\ ~begun[n] /\ begun' = [begun EXCEPT ![n] = TRUE] /\ UNCHANGED <<buffer, wire>>
        /\ routed' = [routed EXCEPT ![n] = IF frame \in Peers(n) THEN frame ELSE None]
    BY <1>1 DEF RouterFirst
  <2>2. routed \in [Names -> Receivers \cup {None}] /\ begun \in [Names -> BOOLEAN]
    BY DEF TypeOK
  <2> QED
    BY <1>1, <2>1, <2>2, SocketParts
<1>2. CASE TypeOf[n] = "server" /\ RouterNext(n, frame, TRUE)
  <2>1. /\ begun[n] /\ begun' = [begun EXCEPT ![n] = TRUE] /\ UNCHANGED wire
        /\ routed' = [routed EXCEPT ![n] = @]
        /\ buffer' = [buffer EXCEPT ![n] = Append(@, frame)]
    BY <1>2 DEF RouterNext
  <2>2. routed \in [Names -> Receivers \cup {None}] /\ begun \in [Names -> BOOLEAN]
    BY DEF TypeOK
  <2> QED
    BY <1>2, <2>1, <2>2, SocketParts
<1>3. CASE TypeOf[n] # "server" /\ PlainFrame(n, frame, TRUE)
  <2>1. routed \in [Names -> Receivers \cup {None}] /\ begun \in [Names -> BOOLEAN]
    BY DEF TypeOK
  <2> QED
    BY <1>3, <2>1, SocketParts DEF PlainFrame
<1> QED
  BY <1>1, <1>2, <1>3 DEF SendMore, SendFrame

(* This one was the last: nothing is held back any more, and what was goes to
   the peer that was named or to all there are. *)
Reached(n, r) ==
    At[r] = n /\ (TypeOf[n] = "server" => begun[n] /\ r = routed[n])

Extended(r, n, frame) == wire[r] \o Prefix(n) \o Append(buffer[n], frame)

LEMMA Delivered ==
    ASSUME TypeOK, RoutedInv, NEW n \in Names, NEW frame \in Frames,
           SendLast(n, frame)
    PROVE  /\ begun' \in [Names -> BOOLEAN] /\ ~begun'[n]
           /\ \A m \in Names : m # n => (begun'[m] <=> begun[m])
           /\ routed' \in [Names -> Receivers \cup {None}] /\ routed'[n] = None
           /\ \A m \in Names : m # n => routed'[m] = routed[m]
           /\ buffer' = [buffer EXCEPT ![n] = <<>>]
           /\ wire' \in [Receivers -> Seq(Frames)]
           /\ \A r \in Receivers :
                 wire'[r] = IF Reached(n, r) THEN Extended(r, n, frame) ELSE wire[r]
<1> DEFINE all == Append(buffer[n], frame)
<1>1. /\ routed \in [Names -> Receivers \cup {None}] /\ begun \in [Names -> BOOLEAN]
      /\ buffer \in [Names -> Seq(Frames)] /\ wire \in [Receivers -> Seq(Frames)]
  BY DEF TypeOK
<1>2. \A r \in Receivers : Extended(r, n, frame) \in Seq(Frames)
  BY SocketParts, OneFrame, PrefixIs, FramesConcat DEF Extended
<1>3. ASSUME NEW peers, Deliver(peers, n, all)
      PROVE  /\ wire' \in [Receivers -> Seq(Frames)]
             /\ \A r \in Receivers : wire'[r] = IF r \in peers
                                       THEN Extended(r, n, frame) ELSE wire[r]
  <2>1. wire' = [r \in Receivers |-> IF r \in peers THEN Extended(r, n, frame) ELSE wire[r]]
    BY <1>3 DEF Deliver, Extended
  <2> QED
    BY <1>1, <1>2, <2>1
<1> HIDE DEF all
<1>4. CASE TypeOf[n] = "server" /\ RouterFirst(n, frame, FALSE)
  <2>1. /\ ~begun[n] /\ begun' = [begun EXCEPT ![n] = FALSE] /\ UNCHANGED <<buffer, wire>>
        /\ routed' = [routed EXCEPT ![n] = None]
    BY <1>4 DEF RouterFirst
  <2>2. buffer' = [buffer EXCEPT ![n] = <<>>]
    BY <1>1, <2>1, SocketParts
  <2> QED
    BY <1>1, <1>4, <2>1, <2>2 DEF Reached
<1>5. CASE TypeOf[n] = "server" /\ RouterNext(n, frame, FALSE)
  <2>1. /\ begun[n] /\ begun' = [begun EXCEPT ![n] = FALSE]
        /\ routed' = [routed EXCEPT ![n] = None]
        /\ buffer' = [buffer EXCEPT ![n] = <<>>] /\ Deliver({routed[n]}, n, all)
    BY <1>5 DEF RouterNext, all
  <2>2. \A r \in Receivers : r \in {routed[n]} <=> Reached(n, r)
    BY <1>5, <2>1, SocketParts DEF Reached
  <2> QED
    BY <1>1, <1>3, <2>1, <2>2
<1>6. CASE TypeOf[n] # "server" /\ PlainFrame(n, frame, FALSE)
  <2>1. /\ begun' = [begun EXCEPT ![n] = FALSE] /\ UNCHANGED routed
        /\ buffer' = [buffer EXCEPT ![n] = <<>>] /\ Deliver(Peers(n), n, all)
    BY <1>6 DEF PlainFrame, all
  <2>2. \A r \in Receivers : r \in Peers(n) <=> Reached(n, r)
    BY <1>6 DEF Reached, Peers
  <2> QED
    BY <1>1, <1>3, <1>6, <2>1, <2>2 DEF RoutedInv
<1> QED
  BY <1>4, <1>5, <1>6 DEF SendLast, SendFrame

(* The frames that arrived or are held back, after it: the frame may be among
   them, and is unless the socket is a ROUTER; none is twice that was not. *)
LEMMA ArrivedAfter ==
    ASSUME TypeOK, RoutedInv, NEW n \in Names, NEW frame \in Frames,
           SendMore(n, frame) \/ SendLast(n, frame),
           UNCHANGED heard, NEW r \in Receivers
    PROVE  /\ At[r] # n => Arrived(r)' = Arrived(r)
           /\ At[r] = n =>
                /\ ToSet(Arrived(r)') \subseteq ToSet(Arrived(r)) \cup {frame, Identity}
                /\ TypeOf[n] # "server" =>
                     ToSet(Arrived(r)) \cup {frame} \subseteq ToSet(Arrived(r)')
                /\ Once(Arrived(r)) /\ frame \notin ToSet(Arrived(r)) \cap Texts
                     => Once(Arrived(r)')
<1> DEFINE h == heard[r]
           w == wire[r]
           b == buffer[n]
           old == h \o w \o b
           kept == h \o w \o Append(b, frame)
           passed == h \o (w \o Prefix(n) \o Append(b, frame)) \o <<>>
           dropped == h \o w \o <<>>
<1>1. /\ h \in Seq(Frames) /\ w \in Seq(Frames) /\ At[r] \in Names
      /\ b \in Seq(Frames) /\ buffer \in [Names -> Seq(Frames)]
  BY NamesAssumption DEF TypeOK
<1>2. Arrived(r) = h \o w \o buffer[At[r]] /\ Arrived(r)' = h \o wire'[r] \o buffer'[At[r]]
  BY DEF Arrived
<1>3. /\ At[r] # n => wire'[r] = wire[r] /\ buffer'[At[r]] = buffer[At[r]]
      /\ At[r] = n =>
           \/ wire'[r] = w /\ buffer'[n] = Append(b, frame)
           \/ wire'[r] = Extended(r, n, frame) /\ buffer'[n] = <<>>
           \/ /\ TypeOf[n] = "server" /\ wire'[r] = w
              /\ buffer'[n] = b \/ buffer'[n] = <<>>
  <2> HIDE DEF h, old, kept, passed, dropped
  <2>1. CASE SendMore(n, frame)
    BY <1>1, <2>1, HeldBack
  <2>2. CASE SendLast(n, frame)
    BY <1>1, <2>2, Delivered DEF Reached
  <2> QED
    BY <2>1, <2>2
<1>4. CASE At[r] # n
  BY <1>2, <1>3, <1>4
<1>5. CASE At[r] = n
  <2>1. Arrived(r) = old
    BY <1>2, <1>5
  <2>2. \/ Arrived(r)' = kept
        \/ Arrived(r)' = passed
        \/ TypeOf[n] = "server" /\ (Arrived(r)' = old \/ Arrived(r)' = dropped)
    BY <1>2, <1>3, <1>5 DEF Extended
  <2>3. ToSet(Prefix(n)) \subseteq {Identity}
    BY PrefixIs
  <2> HIDE DEF h, w, b
  <2>4. /\ ToSet(kept) = ToSet(old) \cup {frame}
        /\ ToSet(passed) = ToSet(old) \cup {frame} \cup ToSet(Prefix(n))
        /\ ToSet(dropped) \subseteq ToSet(old)
        /\ Once(old) => Once(dropped)
        /\ Once(old) /\ frame \notin ToSet(old) \cap Texts => Once(kept) /\ Once(passed)
    BY <1>1, Flow
  <2> HIDE DEF old, kept, passed, dropped
  <2> QED
    BY <1>5, <2>1, <2>2, <2>3, <2>4
<1> QED
  BY <1>4, <1>5

-----------------------------------------------------------------------------
(* Steps of a thread up to its first frame. *)

(* What is known of a thread that sends. *)
LEMMA JobParts ==
    ASSUME TypeOK, JobInv, NEW t \in Threads, pc[t] # "idle"
    PROVE  /\ job[t] \in Jobs /\ job[t] # None /\ job[t].name \in Names
           /\ job[t].client_id \in ClientIds /\ job[t].token \in {"", "app"}
           /\ TypeOf[job[t].name] \in Types
           /\ Strings[job[t].name] \in Nat \ {0}
           /\ \A i \in Nat \ {0} : Text(t, i) \in Texts /\ Text(t, i) \in Frames
<1>1. job[t] \in Jobs /\ count[t] \in Nat \ {0}
  <2>1. Knows(t)
    BY DEF JobInv
  <2>2. job[t] \in Jobs /\ count[t] > 0
    BY <2>1 DEF Knows
  <2>3. count[t] \in Nat
    BY DEF TypeOK
  <2> QED
    BY <2>2, <2>3
<1>2. /\ job[t].name \in Names /\ job[t].client_id \in ClientIds
      /\ job[t].token \in {"", "app"} /\ job[t] # None
  BY <1>1, FramesAssumption DEF Jobs
<1>3. \A i \in Nat \ {0} : Text(t, i) \in Texts
  BY <1>1, <1>2 DEF Text, Texts
<1> QED
  BY <1>1, <1>2, <1>3, NamesAssumption DEF Frames

Opening(t) ==
    \/ \E n \in Names : \E p \in ClientIdsFor(n) : SendMessage(t, n, p)
    \/ ChooseToken(t)
    \/ Lookup(t)

(* They keep the types, and what each thread knows. *)
LEMMA OpeningJob ==
    ASSUME IInv, NEW t \in Threads, Opening(t)
    PROVE  TypeOK' /\ JobInv' /\ RoutedInv'
<1>1. TypeOK /\ JobInv /\ RoutedInv
  BY DEF IInv
<1>2. /\ UNCHANGED <<named, part, socketVars, wire, heard, sent, overlapped>>
      /\ pc[t] \in {"idle", "token", "lookup"}
  BY DEF Opening, SendMessage, ChooseToken, Lookup
<1>3. ASSUME NEW label \in {"idle", "token", "lookup", "identity", "strings"},
             pc' = [pc EXCEPT ![t] = label],
             job' \in [Threads -> Jobs \cup {None}], count' \in [Threads -> Nat]
      PROVE  TypeOK' /\ RoutedInv'
  <2>1. pc' \in [Threads -> {"idle", "token", "lookup", "identity", "strings"}]
    BY <1>1, <1>3 DEF TypeOK
  <2>2. \A u \in Threads : part[u] > 0 => pc'[u] = "strings"
    BY <1>1, <1>2, <1>3 DEF TypeOK
  <2> QED
    BY <1>1, <1>2, <1>3, <2>1, <2>2 DEF TypeOK, RoutedInv, socketVars
<1>4. ASSUME NEW u \in Threads, u # t, job'[u] = job[u], pc'[u] = pc[u],
             count'[u] = count[u], pc'[u] # "idle"
      PROVE  Knows(u)'
  BY <1>1, <1>2, <1>4 DEF JobInv, Knows, RightToken
<1>5. CASE \E n \in Names : \E p \in ClientIdsFor(n) : SendMessage(t, n, p)
  <2>1. PICK n \in Names : \E p \in ClientIdsFor(n) : SendMessage(t, n, p)
    BY <1>5
  <2>2. PICK p \in ClientIdsFor(n) : SendMessage(t, n, p)
    BY <2>1
  <2> DEFINE new == [name |-> n, client_id |-> p, token |-> ""]
             label == IF Strings[n] = 1 THEN "token" ELSE "lookup"
  <2>3. new \in Jobs /\ new.name = n /\ new.token = ""
    BY DEF ClientIdsFor, ClientIds, Jobs, Peers
  <2>4. /\ pc' = [pc EXCEPT ![t] = label] /\ job' = [job EXCEPT ![t] = new]
        /\ count' = [count EXCEPT ![t] = @ + 1]
    BY <2>2 DEF SendMessage, Goto
  <2> HIDE DEF new
  <2>5. job' \in [Threads -> Jobs \cup {None}] /\ count' \in [Threads -> Nat]
    <3>1. job \in [Threads -> Jobs \cup {None}] /\ count \in [Threads -> Nat]
      BY <1>1 DEF TypeOK
    <3>2. count[t] + 1 \in Nat
      BY <3>1
    <3> QED
      BY <2>3, <2>4, <3>1, <3>2
  <2>6. /\ job'[t] = new /\ pc'[t] = label /\ count'[t] > 0
        /\ \A u \in Threads \ {t} :
              job'[u] = job[u] /\ pc'[u] = pc[u] /\ count'[u] = count[u]
    BY <1>1, <2>4 DEF TypeOK
  <2>7. Strings[n] # 1 => RightToken(n) = ""
    BY DEF RightToken
  <2>8. Knows(t)'
    BY <2>3, <2>6, <2>7 DEF Knows, RightToken
  <2> QED
    BY <1>3, <1>4, <2>4, <2>5, <2>6, <2>8 DEF JobInv
<1>6. CASE ChooseToken(t)
  <2> DEFINE n == job[t].name
             token == IF IsServer(n) THEN "" ELSE "app"
  <2>1. /\ pc[t] = "token" /\ pc' = [pc EXCEPT ![t] = "lookup"] /\ count' = count
        /\ job' = [job EXCEPT ![t].token = token]
    BY <1>6 DEF ChooseToken, Goto
  <2>2. Knows(t) /\ job[t] \in Jobs
    BY <1>1, <2>1 DEF JobInv, Knows
  <2>3. /\ [job[t] EXCEPT !.token = token] \in Jobs
        /\ [job[t] EXCEPT !.token = token].name = n
        /\ [job[t] EXCEPT !.token = token].token = token
    BY <2>2 DEF Jobs
  <2>4. n \in Names /\ TypeOf[n] \in Types
    BY <2>2, NamesAssumption DEF Jobs
  <2>5. token = RightToken(n) \/ n \notin named
    BY <2>1, <2>2, <2>4 DEF Knows, RightToken, IsServer, Types
  <2> DEFINE new == [job[t] EXCEPT !.token = token]
  <2>9. job' = [job EXCEPT ![t] = new] /\ job \in [Threads -> Jobs \cup {None}]
    BY <1>1, <2>1 DEF TypeOK
  <2>10. new \in Jobs /\ new = [job[t] EXCEPT !.token = token]
    BY <2>3
  <2> HIDE DEF token, new
  <2>6. /\ job'[t] = new /\ pc'[t] = "lookup"
        /\ job' \in [Threads -> Jobs \cup {None}]
        /\ \A u \in Threads \ {t} : job'[u] = job[u] /\ pc'[u] = pc[u]
    BY <1>1, <2>1, <2>9, <2>10 DEF TypeOK
  <2>7. Knows(t)'
    <3>1. /\ job'[t] \in Jobs /\ job'[t].name = n /\ job'[t].token = token
          /\ named' = named /\ count'[t] > 0
      BY <1>2, <2>1, <2>2, <2>3, <2>6 DEF new, Knows
    <3> QED
      BY <2>5, <2>6, <3>1 DEF Knows, RightToken
  <2>8. count' \in [Threads -> Nat]
    BY <1>1, <2>1 DEF TypeOK
  <2> QED
    BY <1>3, <1>4, <2>1, <2>6, <2>7, <2>8 DEF JobInv
<1>7. CASE Lookup(t)
  <2>1. pc[t] = "lookup" /\ UNCHANGED count
    BY <1>7 DEF Lookup
  <2>2. Knows(t) /\ job[t] \in Jobs
    BY <1>1, <2>1 DEF JobInv, Knows
  <2>3. CASE Refused(t)
    <3>1. pc' = [pc EXCEPT ![t] = "idle"] /\ job' = [job EXCEPT ![t] = None]
      BY <1>7, <2>3 DEF Lookup, Goto
    <3>2. /\ pc'[t] = "idle" /\ job' \in [Threads -> Jobs \cup {None}]
          /\ \A u \in Threads \ {t} : job'[u] = job[u] /\ pc'[u] = pc[u]
          /\ count' \in [Threads -> Nat]
      BY <1>1, <2>1, <3>1 DEF TypeOK
    <3> QED
      BY <1>3, <1>4, <2>1, <3>1, <3>2 DEF JobInv
  <2>4. CASE ~Refused(t)
    <3> DEFINE n == job[t].name
               label == IF TypeOf[n] = "server" THEN "identity" ELSE "strings"
    <3>1. pc' = [pc EXCEPT ![t] = label] /\ job' = job
      BY <1>7, <2>4 DEF Lookup, Goto
    <3> HIDE DEF label
    <3>2. /\ pc'[t] = label /\ \A u \in Threads \ {t} : pc'[u] = pc[u]
          /\ count' \in [Threads -> Nat] /\ job' \in [Threads -> Jobs \cup {None}]
      BY <1>1, <2>1, <3>1 DEF TypeOK
    <3>3. part[t] = 0 /\ Strings[n] \in Nat \ {0} /\ n \in named
      <4>1. part[t] \in Nat /\ (part[t] > 0 => pc[t] = "strings")
        BY <1>1 DEF TypeOK
      <4>2. n \in Names /\ n \in named
        BY <2>2, <2>4 DEF Jobs, Refused
      <4>3. part[t] = 0
        BY <2>1, <4>1
      <4> QED
        BY <4>2, <4>3, NamesAssumption
    <3>4. Knows(t)'
      <4>1. /\ job'[t] \in Jobs /\ job'[t].name = n /\ job'[t].token = RightToken(n)
            /\ count'[t] > 0 /\ part'[t] = 0
        <5>1. job[t].token = RightToken(n) /\ count[t] > 0
          BY <2>1, <2>2, <3>3 DEF Knows
        <5> QED
          BY <1>2, <2>1, <2>2, <3>1, <3>3, <5>1
      <4>2. 0 < Strings[n] /\ label \notin {"idle", "token", "lookup"}
            /\ (label = "identity" => TypeOf[n] = "server")
        BY <3>3 DEF label
      <4> HIDE DEF n
      <4> QED
        BY <3>2, <4>1, <4>2 DEF Knows, RightToken
    <3>5. label \in {"idle", "token", "lookup", "identity", "strings"}
      BY DEF label
    <3>6. JobInv'
      BY <1>4, <2>1, <3>1, <3>2, <3>4 DEF JobInv
    <3> QED
      BY <1>3, <3>1, <3>2, <3>5, <3>6
  <2> QED
    BY <2>3, <2>4
<1> QED
  BY <1>5, <1>6, <1>7 DEF Opening

(* What they change: nobody gets into the middle of a message. *)
LEMMA OpeningEffect ==
    ASSUME IInv, NEW t \in Threads, Opening(t)
    PROVE  /\ UNCHANGED <<named, part, routed, begun, buffer, wire, heard, sent, overlapped>>
           /\ \A u \in Threads : u # t =>
                 pc'[u] = pc[u] /\ job'[u] = job[u] /\ count'[u] = count[u]
           /\ part[t] = 0 /\ count[t] \in Nat
           /\ \/ pc[t] = "idle" /\ count'[t] = count[t] + 1
              \/ pc[t] \in {"token", "lookup"} /\ count'[t] = count[t]
           /\ pc'[t] = "strings" => TypeOf[job'[t].name] # "server"
<1>1. /\ pc \in [Threads -> {"idle", "token", "lookup", "identity", "strings"}]
      /\ job \in [Threads -> Jobs \cup {None}] /\ count \in [Threads -> Nat]
      /\ part \in [Threads -> Nat] /\ \A u \in Threads : part[u] > 0 => pc[u] = "strings"
  BY DEF IInv, TypeOK
<1>2. \A u \in Threads : count[u] \in Nat /\ (pc[u] # "strings" => part[u] = 0)
  <2> TAKE u \in Threads
  <2>1. part[u] \in Nat /\ count[u] \in Nat /\ (part[u] > 0 => pc[u] = "strings")
    BY <1>1
  <2> QED
    BY <2>1
<1>3. UNCHANGED <<named, part, routed, begun, buffer, wire, heard, sent, overlapped>>
  BY DEF Opening, SendMessage, ChooseToken, Lookup, socketVars
<1>4. CASE \E n \in Names : \E p \in ClientIdsFor(n) : SendMessage(t, n, p)
  <2>1. PICK n \in Names : \E p \in ClientIdsFor(n) : SendMessage(t, n, p)
    BY <1>4
  <2>2. PICK p \in ClientIdsFor(n) : SendMessage(t, n, p)
    BY <2>1
  <2>3. /\ pc[t] = "idle" /\ count' = [count EXCEPT ![t] = @ + 1]
        /\ job' = [job EXCEPT ![t] = [name |-> n, client_id |-> p, token |-> ""]]
        /\ pc' = [pc EXCEPT ![t] = IF Strings[n] = 1 THEN "token" ELSE "lookup"]
    BY <2>2 DEF SendMessage, Goto
  <2>4. pc'[t] # "strings" /\ count'[t] = count[t] + 1
    BY <1>1, <2>3
  <2>5. \A u \in Threads : u # t =>
          pc'[u] = pc[u] /\ job'[u] = job[u] /\ count'[u] = count[u]
    BY <1>1, <2>3
  <2>6. part[t] = 0 /\ count[t] \in Nat
    BY <1>2, <2>3
  <2> QED
    BY <1>3, <2>3, <2>4, <2>5, <2>6
<1>5. CASE ChooseToken(t)
  <2>1. /\ pc[t] = "token" /\ count' = count /\ pc' = [pc EXCEPT ![t] = "lookup"]
        /\ job' = [job EXCEPT ![t].token = IF IsServer(job[t].name) THEN "" ELSE "app"]
    BY <1>5 DEF ChooseToken, Goto
  <2>2. \A u \in Threads : u # t =>
          pc'[u] = pc[u] /\ job'[u] = job[u] /\ count'[u] = count[u]
    BY <1>1, <2>1
  <2>3. part[t] = 0 /\ count[t] \in Nat /\ pc'[t] = "lookup"
    BY <1>1, <1>2, <2>1
  <2> QED
    BY <1>3, <2>1, <2>2, <2>3
<1>6. CASE Lookup(t)
  BY <1>1, <1>3, <1>6 DEF Lookup, Goto
<1> QED
  BY <1>4, <1>5, <1>6 DEF Opening

(* A string stays used as long as its thread does not go back. *)
LEMMA StillUsed ==
    ASSUME TypeOK, NEW f \in Texts, Used(f),
           pc'[f.by] = pc[f.by] /\ count'[f.by] = count[f.by]
             /\ (pc[f.by] = "strings" => part'[f.by] >= part[f.by] /\ part'[f.by] \in Nat)
    PROVE  Used(f)'
<1>1. /\ f.by \in Threads /\ f.no \in Nat /\ f.part \in Nat
      /\ count[f.by] \in Nat /\ part[f.by] \in Nat
  BY DEF Texts, TypeOK
<1> QED
  BY <1>1 DEF Used

(* They keep what the sockets hold. *)
LEMMA OpeningRest ==
    ASSUME IInv, NEW t \in Threads, Opening(t)
    PROVE  AloneInv' /\ ArriveInv' /\ TokensInv' /\ UsedInv' /\ OnceInv' /\ KeptInv'
<1>1. /\ TypeOK /\ AloneInv /\ ArriveInv /\ TokensInv /\ UsedInv /\ OnceInv /\ KeptInv
  BY DEF IInv
<1>2. /\ UNCHANGED <<named, part, routed, begun, buffer, wire, heard, sent, overlapped>>
      /\ \A u \in Threads : u # t =>
            pc'[u] = pc[u] /\ job'[u] = job[u] /\ count'[u] = count[u]
      /\ part[t] = 0 /\ count[t] \in Nat
      /\ \/ pc[t] = "idle" /\ count'[t] = count[t] + 1
         \/ pc[t] \in {"token", "lookup"} /\ count'[t] = count[t]
      /\ pc'[t] = "strings" => TypeOf[job'[t].name] # "server"
  BY OpeningEffect
<1>3. \A u \in Threads, n \in Names : Underway(u, n)' <=> Underway(u, n)
  BY <1>2 DEF Underway
<1>4. \A n \in Names : ~Underway(t, n)
  BY <1>2 DEF Underway
<1>5. \A r \in Receivers : Arrived(r)' = Arrived(r)
  BY <1>2 DEF Arrived
<1>6. AloneInv'
  <2> SUFFICES ASSUME NEW n \in Names, n \notin overlapped
               PROVE  Nobody(n)' \/ \E u \in Threads : Alone(u, n)'
    BY <1>2 DEF AloneInv
  <2>1. CASE Nobody(n)
    BY <1>2, <1>3, <2>1 DEF Nobody
  <2>2. ASSUME NEW u \in Threads, Alone(u, n) PROVE Alone(u, n)'
    <3>1. u # t
      BY <1>4, <2>2 DEF Alone
    <3>2. Routed(u)' = Routed(u) /\ \A i : Text(u, i)' = Text(u, i)
      BY <1>2, <3>1 DEF Routed, Peers, Text
    <3>3. [i \in 1..part[u] |-> Text(u, i)]' = [i \in 1..part[u] |-> Text(u, i)]
      BY <1>2, <3>2
    <3> QED
      BY <1>2, <1>3, <2>2, <3>2, <3>3 DEF Alone
  <2> QED
    BY <1>1, <2>1, <2>2 DEF AloneInv
<1>7. ArriveInv' /\ TokensInv'
  BY <1>1, <1>2 DEF ArriveInv, TokensInv, RightToken
<1>8. UsedInv'
  <2> SUFFICES ASSUME NEW f \in Texts, Used(f) PROVE Used(f)'
    BY <1>1, <1>5 DEF UsedInv
  <2>1. f.by \in Threads /\ f.no \in Nat
    BY DEF Texts
  <2>2. CASE f.by # t
    <3>1. part' = part /\ part[f.by] \in Nat
      BY <1>1, <1>2, <2>1 DEF TypeOK
    <3> QED
      BY <1>1, <1>2, <2>1, <2>2, <3>1, StillUsed
  <2>3. CASE f.by = t
    BY <1>2, <2>1, <2>3 DEF Used
  <2> QED
    BY <2>2, <2>3
<1>9. OnceInv'
  BY <1>1, <1>5 DEF OnceInv
<1>10. KeptInv'
  <2> SUFFICES ASSUME NEW r \in Receivers, TypeOf[At[r]] # "server"
               PROVE  /\ ToSet(sent[r]) \subseteq ToSet(Arrived(r)) \cup {Identity}
                      /\ \A u \in Threads : pc'[u] = "strings" /\ job'[u].name = At[r] =>
                            \A i \in 1..part[u] : Text(u, i)' \in ToSet(Arrived(r))
    BY <1>2, <1>5 DEF KeptInv
  <2>1. \A u \in Threads : u # t => \A i : Text(u, i)' = Text(u, i)
    BY <1>2 DEF Text
  <2>2. \A i : i \notin 1..0
    OBVIOUS
  <2> QED
    BY <1>1, <1>2, <2>1, <2>2 DEF KeptInv
<1> QED
  BY <1>6, <1>7, <1>8, <1>9, <1>10

-----------------------------------------------------------------------------
(* Steps of a thread that sends a frame. *)

(* Whatever the frame, the sockets keep their types. *)
LEMMA FrameTypes ==
    ASSUME TypeOK, RoutedInv, NEW n \in Names, NEW frame \in Frames,
           SendMore(n, frame) \/ SendLast(n, frame)
    PROVE  /\ routed' \in [Names -> Receivers \cup {None}]
           /\ begun' \in [Names -> BOOLEAN]
           /\ buffer' \in [Names -> Seq(Frames)]
           /\ \A m \in Names : /\ routed'[m] \in Peers(m) \cup {None}
                               /\ ~begun'[m] => buffer'[m] = <<>> /\ routed'[m] = None
           /\ wire' \in [Receivers -> Seq(Frames)]
           /\ RoutedInv'
           /\ \A m \in Names : m # n => /\ routed'[m] = routed[m] /\ buffer'[m] = buffer[m]
                                        /\ begun'[m] <=> begun[m]
<1>1. /\ \A m \in Names : /\ routed[m] \in Peers(m) \cup {None}
                          /\ ~begun[m] => buffer[m] = <<>> /\ routed[m] = None
      /\ wire \in [Receivers -> Seq(Frames)] /\ buffer \in [Names -> Seq(Frames)]
      /\ \A m \in Names : TypeOf[m] # "server" => routed[m] = None
  BY DEF TypeOK, RoutedInv
<1>2. Append(buffer[n], frame) \in Seq(Frames) /\ <<>> \in Seq(Frames)
  BY <1>1, OneFrame, EmptySeq
<1>3. CASE SendMore(n, frame)
  <2>1. buffer' = buffer \/ buffer' = [buffer EXCEPT ![n] = Append(@, frame)]
    BY <1>3, HeldBack
  <2> DEFINE new == Append(buffer[n], frame)
  <2> HIDE DEF new
  <2>2. buffer' = buffer \/ buffer' = [buffer EXCEPT ![n] = new]
    BY <2>1 DEF new
  <2>3. buffer' \in [Names -> Seq(Frames)] /\ \A m \in Names : m # n => buffer'[m] = buffer[m]
    BY <1>1, <1>2, <2>2 DEF new
  <2>4. /\ wire' = wire /\ begun' \in [Names -> BOOLEAN] /\ begun'[n]
        /\ \A m \in Names : m # n => (begun'[m] <=> begun[m])
        /\ routed' \in [Names -> Receivers \cup {None}]
        /\ routed'[n] \in Peers(n) \cup {None}
        /\ \A m \in Names : m # n => routed'[m] = routed[m]
        /\ TypeOf[n] # "server" => routed' = routed
    BY <1>3, HeldBack
  <2>5. RoutedInv'
    BY <1>1, <2>4 DEF RoutedInv
  <2>6. ASSUME NEW m \in Names
        PROVE  /\ routed'[m] \in Peers(m) \cup {None}
               /\ ~begun'[m] => buffer'[m] = <<>> /\ routed'[m] = None
    BY <1>1, <2>3, <2>4
  <2> QED
    BY <1>1, <2>3, <2>4, <2>5, <2>6
<1>4. CASE SendLast(n, frame)
  <2>1. /\ buffer' = [buffer EXCEPT ![n] = <<>>]
        /\ begun' \in [Names -> BOOLEAN] /\ ~begun'[n]
        /\ \A m \in Names : m # n => (begun'[m] <=> begun[m])
        /\ routed' \in [Names -> Receivers \cup {None}] /\ routed'[n] = None
        /\ \A m \in Names : m # n => routed'[m] = routed[m]
        /\ wire' \in [Receivers -> Seq(Frames)]
    BY <1>4, Delivered
  <2>2. /\ buffer' \in [Names -> Seq(Frames)] /\ buffer'[n] = <<>>
        /\ \A m \in Names : m # n => buffer'[m] = buffer[m]
    BY <1>1, <1>2, <2>1
  <2>3. RoutedInv'
    BY <1>1, <2>1 DEF RoutedInv
  <2>4. ASSUME NEW m \in Names
        PROVE  /\ routed'[m] \in Peers(m) \cup {None}
               /\ ~begun'[m] => buffer'[m] = <<>> /\ routed'[m] = None
    BY <1>1, <2>1, <2>2
  <2> QED
    BY <2>1, <2>2, <2>3, <2>4
<1> QED
  BY <1>3, <1>4

(* On another socket nothing happens. *)
LEMMA AloneElsewhere ==
    ASSUME NEW t \in Threads, NEW m \in Names,
           pc[t] # "idle", job[t].name # m,
           pc'[t] = "strings" => job'[t].name # m,
           \A u \in Threads : u # t => /\ pc'[u] = pc[u] /\ job'[u] = job[u]
                                       /\ part'[u] = part[u] /\ count'[u] = count[u],
           routed'[m] = routed[m], buffer'[m] = buffer[m], begun'[m] <=> begun[m],
           Nobody(m) \/ \E u \in Threads : Alone(u, m)
    PROVE  Nobody(m)' \/ \E u \in Threads : Alone(u, m)'
<1>1. \A u \in Threads : Underway(u, m)' <=> Underway(u, m)
  BY DEF Underway
<1>2. CASE Nobody(m)
  BY <1>1, <1>2 DEF Nobody
<1>3. ASSUME NEW u \in Threads, Alone(u, m) PROVE Alone(u, m)'
  <2>1. u # t
    BY <1>3 DEF Alone, Underway
  <2>2. Routed(u)' = Routed(u) /\ part'[u] = part[u] /\ \A i : Text(u, i)' = Text(u, i)
    BY <2>1 DEF Routed, Peers, Text
  <2>3. [i \in 1..part[u] |-> Text(u, i)]' = [i \in 1..part[u] |-> Text(u, i)]
    BY <2>2
  <2> QED
    BY <1>1, <1>3, <2>2, <2>3 DEF Alone
<1> QED
  BY <1>2, <1>3

(* Without an overlap, the thread that sends is in the middle of its message, or
   nobody is: libzmq holds back what it has sent. *)
LEMMA OwnBuffer ==
    ASSUME TypeOK, AloneInv, NEW t \in Threads, NEW n \in Names \ overlapped,
           \A u \in Threads \ {t} : ~Underway(u, n)
    PROVE  /\ Underway(t, n) => Alone(t, n)
           /\ ~Underway(t, n) => Nobody(n) /\ ~begun[n] /\ buffer[n] = <<>>
<1>1. Nobody(n) \/ \E u \in Threads : Alone(u, n)
  BY DEF AloneInv
<1>2. ASSUME NEW u \in Threads, Alone(u, n) PROVE u = t /\ Underway(t, n)
  <2>1. Underway(u, n)
    BY <1>2 DEF Alone
  <2> QED
    BY <2>1
<1>3. Nobody(n) => ~Underway(t, n) /\ ~begun[n]
  BY DEF Nobody
<1>4. ~begun[n] => buffer[n] = <<>>
  BY SocketParts
<1> QED
  BY <1>1, <1>2, <1>3, <1>4

(* What a thread has sent, and sends next. *)
LEMMA Growing ==
    ASSUME NEW t \in Threads, NEW k \in Nat,
           \A i \in Nat \ {0} : Text(t, i) \in Frames
    PROVE  /\ [i \in 1..0 |-> Text(t, i)] = <<>>
           /\ [i \in 1..k |-> Text(t, i)] \in Seq(Frames)
           /\ Append([i \in 1..k |-> Text(t, i)], Text(t, k + 1))
                = [i \in 1..k + 1 |-> Text(t, i)]
<1> DEFINE s(m) == [i \in 1..m |-> Text(t, i)]
<1>1. ASSUME NEW m \in Nat PROVE s(m) \in Seq(Frames) /\ Len(s(m)) = m
  <2>1. s(m) \in [1..m -> Frames]
    OBVIOUS
  <2> QED
    BY <2>1
<1>2. s(0) = <<>>
  <2>1. s(0) \in Seq(Frames) /\ Len(s(0)) = 0
    BY <1>1
  <2> HIDE DEF s
  <2> QED
    BY <2>1, EmptySeq
<1>3. /\ Append(s(k), Text(t, k + 1)) \in Seq(Frames)
      /\ Len(Append(s(k), Text(t, k + 1))) = k + 1
      /\ \A i \in 1..k : Append(s(k), Text(t, k + 1))[i] = s(k)[i]
      /\ Append(s(k), Text(t, k + 1))[k + 1] = Text(t, k + 1)
  <2>1. Text(t, k + 1) \in Frames
    OBVIOUS
  <2>2. s(k) \in Seq(Frames) /\ Len(s(k)) = k
    BY <1>1
  <2> HIDE DEF s
  <2> QED
    BY <2>1, <2>2, AppendProperties
<1>4. \A i \in 1..k + 1 : Append(s(k), Text(t, k + 1))[i] = s(k + 1)[i]
  <2> TAKE i \in 1..k + 1
  <2>1. CASE i = k + 1
    BY <1>3, <2>1
  <2>2. CASE i # k + 1
    <3>1. i \in 1..k
      BY <2>2
    <3> QED
      BY <1>3, <3>1
  <2> QED
    BY <2>1, <2>2
<1>5. s(k + 1) \in Seq(Frames) /\ Len(s(k + 1)) = k + 1
  BY <1>1
<1>6. Append(s(k), Text(t, k + 1)) = s(k + 1)
  <2> HIDE DEF s
  <2> QED
    BY <1>3, <1>4, <1>5, SeqEqual
<1> QED
  BY <1>1, <1>2, <1>6

(* The parts of SendIdentity. *)
LEMMA IdentityParts ==
    ASSUME IInv, NEW t \in Threads, SendIdentity(t)
    PROVE  LET n == job[t].name
               frame == job[t].client_id
           IN  /\ n \in Names /\ TypeOf[n] = "server"
               /\ frame \in Frames /\ frame \notin Texts /\ SendMore(n, frame)
               /\ pc[t] = "identity" /\ pc' = [pc EXCEPT ![t] = "strings"]
               /\ UNCHANGED <<named, job, part, count, heard, sent>>
               /\ overlapped' = IF \E u \in Threads \ {t} : Underway(u, n)
                                  THEN overlapped \cup {n} ELSE overlapped
<1>1. /\ pc[t] = "identity" /\ pc' = [pc EXCEPT ![t] = "strings"]
      /\ UNCHANGED <<named, job, part, count, heard, sent>>
      /\ overlapped' = IF \E u \in Threads \ {t} : Underway(u, job[t].name)
                         THEN overlapped \cup {job[t].name} ELSE overlapped
      /\ SendMore(job[t].name, job[t].client_id)
  BY DEF SendIdentity, NoteOverlap, Goto, SendMore
<1>2. job[t].name \in Names /\ job[t].client_id \in ClientIds
  BY <1>1, JobParts DEF IInv
<1>3. TypeOf[job[t].name] = "server"
  BY <1>1 DEF IInv, JobInv, Knows
<1> QED
  BY <1>1, <1>2, <1>3, FramesAssumption DEF Frames

(* The identity names the peer, and the thread is in the middle. *)
LEMMA IdentityStep ==
    ASSUME IInv, NEW t \in Threads, SendIdentity(t)
    PROVE  IInv'
<1> DEFINE n == job[t].name
           frame == job[t].client_id
<1>1. /\ n \in Names /\ TypeOf[n] = "server"
      /\ frame \in Frames /\ frame \notin Texts /\ SendMore(n, frame)
      /\ pc[t] = "identity" /\ pc' = [pc EXCEPT ![t] = "strings"]
      /\ UNCHANGED <<named, job, part, count, heard, sent>>
      /\ overlapped' = IF \E u \in Threads \ {t} : Underway(u, n)
                         THEN overlapped \cup {n} ELSE overlapped
  BY IdentityParts
<1>2. /\ TypeOK /\ JobInv /\ RoutedInv /\ AloneInv /\ ArriveInv /\ TokensInv
      /\ UsedInv /\ OnceInv /\ KeptInv
  BY DEF IInv
<1>3. /\ pc \in [Threads -> {"idle", "token", "lookup", "identity", "strings"}]
      /\ \A u \in Threads : part[u] \in Nat /\ (part[u] > 0 => pc[u] = "strings")
      /\ overlapped \subseteq Names
  BY <1>2 DEF TypeOK
<1>4. /\ pc'[t] = "strings" /\ \A u \in Threads : u # t => pc'[u] = pc[u]
      /\ pc' \in [Threads -> {"idle", "token", "lookup", "identity", "strings"}]
      /\ part[t] = 0
  <2>1. part[t] \in Nat /\ ~(part[t] > 0)
    BY <1>1, <1>3
  <2> QED
    BY <1>1, <1>3, <2>1
<1>5. /\ routed' \in [Names -> Receivers \cup {None}]
      /\ begun' \in [Names -> BOOLEAN]
      /\ buffer' \in [Names -> Seq(Frames)]
      /\ \A m \in Names : /\ routed'[m] \in Peers(m) \cup {None}
                          /\ ~begun'[m] => buffer'[m] = <<>> /\ routed'[m] = None
      /\ wire' \in [Receivers -> Seq(Frames)]
      /\ RoutedInv'
      /\ \A m \in Names : m # n => /\ routed'[m] = routed[m] /\ buffer'[m] = buffer[m]
                                   /\ begun'[m] <=> begun[m]
  <2> HIDE DEF n, frame
  <2> QED
    BY <1>1, <1>2, FrameTypes
<1>6. TypeOK'
  <2>1. \A u \in Threads : part'[u] > 0 => pc'[u] = "strings"
    BY <1>1, <1>3, <1>4
  <2>2. overlapped' \subseteq Names
    BY <1>1, <1>3
  <2>3. \A m \in Names : Peers(m)' = Peers(m)
    BY DEF Peers
  <2> QED
    BY <1>1, <1>2, <1>4, <1>5, <2>1, <2>2, <2>3 DEF TypeOK
<1>7. JobInv'
  <2>1. Knows(t)'
    <3>1. Knows(t) /\ Strings[n] \in Nat \ {0}
      BY <1>1, <1>2, JobParts DEF JobInv
    <3>2. job[t] \in Jobs /\ count[t] > 0 /\ job[t].token = RightToken(n)
      BY <1>1, <3>1 DEF Knows
    <3>3. 0 < Strings[n]
      BY <3>1
    <3> QED
      BY <1>1, <1>4, <3>2, <3>3 DEF Knows, RightToken
  <2>2. \A u \in Threads : u # t /\ pc'[u] # "idle" => Knows(u)'
    BY <1>1, <1>2, <1>4 DEF JobInv, Knows, RightToken
  <2> QED
    BY <2>1, <2>2 DEF JobInv
<1>8. AloneInv'
  <2> SUFFICES ASSUME NEW m \in Names, m \notin overlapped'
               PROVE  Nobody(m)' \/ \E u \in Threads : Alone(u, m)'
    BY DEF AloneInv
  <2>1. CASE m # n
    <3>1. Nobody(m) \/ \E u \in Threads : Alone(u, m)
      BY <1>1, <1>2, <2>1 DEF AloneInv
    <3> QED
      BY <1>1, <1>4, <1>5, <2>1, <3>1, AloneElsewhere
  <2>2. CASE m = n
    <3>1. n \in Names \ overlapped /\ \A u \in Threads \ {t} : ~Underway(u, n)
      BY <1>1, <2>2
    <3>2. ~Underway(t, n)
      BY <1>1 DEF Underway
    <3>3. ~begun[n] /\ buffer[n] = <<>>
      BY <1>2, <3>1, <3>2, OwnBuffer
    <3>4. /\ begun'[n] /\ buffer'[n] = <<>>
          /\ routed'[n] = IF frame \in Peers(n) THEN frame ELSE None
      <4> HIDE DEF n, frame
      <4> QED
        BY <1>1, <1>2, <3>3, HeldBack
    <3>5. \A u \in Threads \ {t} : ~Underway(u, n)'
      BY <1>1, <1>4, <3>1 DEF Underway
    <3>6. [i \in 1..0 |-> Text(t, i)'] = <<>>
      BY <1>1, <1>2, JobParts, Growing DEF Text
    <3>7. Underway(t, n)'
      BY <1>1, <1>4 DEF Underway
    <3>8. Routed(t)' = IF frame \in Peers(n) THEN frame ELSE None
      BY <1>1 DEF Routed, Peers
    <3>9. part'[t] = 0
      BY <1>1, <1>4
    <3>10. buffer'[n] = [i \in 1..part'[t] |-> Text(t, i)']
      BY <3>4, <3>6, <3>9
    <3>11. /\ \A u \in Threads \ {t} : ~Underway(u, m)'
           /\ Underway(t, m)' /\ begun'[m] /\ routed'[m] = Routed(t)'
           /\ buffer'[m] = [i \in 1..part'[t] |-> Text(t, i)']
      BY <1>1, <2>2, <3>4, <3>5, <3>7, <3>8, <3>10
    <3> HIDE DEF n, frame
    <3>12. Alone(t, m)'
      BY <3>11 DEF Alone
    <3> QED
      BY <3>12
  <2> QED
    BY <2>1, <2>2
<1>9. wire' = wire
  <2> HIDE DEF n, frame
  <2> QED
    BY <1>1, <1>2, HeldBack
<1>10. ArriveInv' /\ TokensInv'
  BY <1>1, <1>2, <1>9 DEF ArriveInv, TokensInv, RightToken
<1>11. \A r \in Receivers :
         /\ At[r] # n => Arrived(r)' = Arrived(r)
         /\ ToSet(Arrived(r)') \subseteq ToSet(Arrived(r)) \cup {frame, Identity}
         /\ Once(Arrived(r)')
  <2> HIDE DEF n, frame
  <2> QED
    BY <1>1, <1>2, ArrivedAfter DEF OnceInv
<1>12. UsedInv'
  <2> SUFFICES ASSUME NEW r \in Receivers, NEW f \in ToSet(Arrived(r)') \cap Texts
               PROVE  Used(f)'
    BY DEF UsedInv
  <2>1. f \in Texts /\ Used(f) /\ f.by \in Threads
    BY <1>1, <1>2, <1>11, PrefixIs DEF UsedInv, Texts
  <2>2. CASE f.by # t
    BY <1>1, <1>2, <1>3, <1>4, <2>1, <2>2, StillUsed
  <2>3. CASE f.by = t
    BY <1>1, <2>1, <2>3 DEF Used
  <2> QED
    BY <2>2, <2>3
<1>13. OnceInv'
  BY <1>11 DEF OnceInv
<1>14. KeptInv'
  <2> SUFFICES ASSUME NEW r \in Receivers, TypeOf[At[r]] # "server"
               PROVE  /\ ToSet(sent[r]) \subseteq ToSet(Arrived(r)) \cup {Identity}
                      /\ \A u \in Threads : pc'[u] = "strings" /\ job[u].name = At[r] =>
                            \A i \in 1..part[u] : Text(u, i) \in ToSet(Arrived(r))
    BY <1>1, <1>11 DEF KeptInv, Text
  <2> QED
    BY <1>1, <1>2, <1>4 DEF KeptInv
<1> QED
  BY <1>5, <1>6, <1>7, <1>8, <1>10, <1>12, <1>13, <1>14 DEF IInv

(* The parts of SendString. *)
LEMMA StringParts ==
    ASSUME IInv, NEW t \in Threads, SendString(t)
    PROVE  LET n == job[t].name
               frame == Text(t, part[t] + 1)
           IN  /\ n \in Names /\ Strings[n] \in Nat \ {0} /\ part[t] \in Nat
               /\ frame \in Texts /\ frame \in Frames /\ frame = Text(t, part[t] + 1)
               /\ pc[t] = "strings" /\ job[t].token = RightToken(n)
               /\ UNCHANGED <<named, count, heard>>
               /\ overlapped' = IF \E u \in Threads \ {t} : Underway(u, n)
                                  THEN overlapped \cup {n} ELSE overlapped
               /\ \/ /\ part[t] + 1 < Strings[n] /\ SendMore(n, frame)
                     /\ part' = [part EXCEPT ![t] = @ + 1]
                     /\ UNCHANGED <<pc, job, sent>>
                  \/ /\ part[t] + 1 = Strings[n] /\ SendLast(n, frame)
                     /\ part' = [part EXCEPT ![t] = 0]
                     /\ pc' = [pc EXCEPT ![t] = "idle"]
                     /\ job' = [job EXCEPT ![t] = None]
                     /\ sent' = [r \in Receivers |->
                                   IF r \in Addressees(t)
                                   THEN sent[r] \o Prefix(n) \o Content(t)
                                   ELSE sent[r]]
<1> DEFINE n == job[t].name
           frame == Text(t, part[t] + 1)
           more == part[t] + 1 < Strings[n]
<1>1. /\ pc[t] = "strings" /\ UNCHANGED <<named, count, heard>>
      /\ overlapped' = IF \E u \in Threads \ {t} : Underway(u, n)
                         THEN overlapped \cup {n} ELSE overlapped
  BY DEF SendString, NoteOverlap
<1>2. n \in Names /\ Strings[n] \in Nat \ {0} /\ part[t] \in Nat
  BY <1>1, JobParts DEF IInv, TypeOK
<1>3. frame \in Texts /\ frame \in Frames
  <2>1. part[t] + 1 \in Nat \ {0}
    BY <1>2
  <2> QED
    BY <1>1, <2>1, JobParts DEF IInv
<1>4. job[t].token = RightToken(n) /\ part[t] < Strings[n]
  BY <1>1 DEF IInv, JobInv, Knows
<1>5. CASE more
  <2>1. SendFrame(n, frame, more)
    BY DEF SendString
  <2>2. SendMore(n, frame)
    BY <1>5, <2>1, Zenon DEF SendMore, SendFrame, RouterFirst, RouterNext, PlainFrame
  <2>3. part' = [part EXCEPT ![t] = @ + 1] /\ UNCHANGED <<pc, job, sent>>
    BY <1>5 DEF SendString
  <2> QED
    BY <1>1, <1>2, <1>3, <1>4, <1>5, <2>2, <2>3
<1>6. CASE ~more
  <2>1. SendFrame(n, frame, more)
    BY DEF SendString
  <2>2. SendLast(n, frame)
    <3>1. more = FALSE
      BY <1>6
    <3> HIDE DEF n, frame, more
    <3> QED
      BY <2>1, <3>1, Zenon DEF SendLast
  <2>3. /\ part' = [part EXCEPT ![t] = 0]
        /\ pc' = [pc EXCEPT ![t] = "idle"]
        /\ job' = [job EXCEPT ![t] = None]
        /\ sent' = [r \in Receivers |-> IF r \in Addressees(t)
                      THEN sent[r] \o Prefix(n) \o Content(t) ELSE sent[r]]
    BY <1>6 DEF SendString, Goto
  <2>4. part[t] + 1 = Strings[n]
    BY <1>2, <1>4, <1>6
  <2> QED
    BY <1>1, <1>2, <1>3, <1>4, <2>2, <2>3, <2>4
<1> QED
  BY <1>5, <1>6

(* The string is new at each receiver, and stays there once it has got there. *)
LEMMA StringFlow ==
    ASSUME IInv, NEW t \in Threads, SendString(t), NEW r \in Receivers
    PROVE  LET n == job[t].name
               frame == Text(t, part[t] + 1)
           IN  /\ At[r] # n => Arrived(r)' = Arrived(r)
               /\ ToSet(Arrived(r)') \subseteq ToSet(Arrived(r)) \cup {frame, Identity}
               /\ Once(Arrived(r)')
               /\ TypeOf[At[r]] # "server" =>
                    /\ ToSet(Arrived(r)) \subseteq ToSet(Arrived(r)')
                    /\ At[r] = n => frame \in ToSet(Arrived(r)')
<1> DEFINE n == job[t].name
           frame == Text(t, part[t] + 1)
<1>1. /\ n \in Names /\ frame \in Texts /\ frame \in Frames /\ part[t] \in Nat
      /\ pc[t] = "strings" /\ UNCHANGED heard
      /\ SendMore(n, frame) \/ SendLast(n, frame)
  BY StringParts
<1>2. ~Used(frame)
  <2>1. /\ frame.by = t /\ frame.no = count[t] /\ frame.part = part[t] + 1
        /\ count[t] \in Nat
    BY DEF Text, IInv, TypeOK
  <2> HIDE DEF frame
  <2> QED
    BY <1>1, <2>1 DEF Used
<1> HIDE DEF n, frame
<1>3. frame \notin ToSet(Arrived(r)) \cap Texts /\ Once(Arrived(r))
  BY <1>2 DEF IInv, UsedInv, OnceInv
<1>4. TypeOK /\ RoutedInv
  BY DEF IInv
<1>5. /\ At[r] # n => Arrived(r)' = Arrived(r)
      /\ At[r] = n =>
           /\ ToSet(Arrived(r)') \subseteq ToSet(Arrived(r)) \cup {frame, Identity}
           /\ TypeOf[n] # "server" =>
                ToSet(Arrived(r)) \cup {frame} \subseteq ToSet(Arrived(r)')
           /\ Once(Arrived(r)')
  BY <1>1, <1>3, <1>4, ArrivedAfter
<1>6. CASE At[r] = n
  BY <1>5, <1>6 DEF n, frame
<1>7. CASE At[r] # n
  BY <1>3, <1>5, <1>7 DEF n, frame
<1> QED
  BY <1>6, <1>7

(* Without an overlap, libzmq holds back what the thread has sent before, for
   the peer that it named. *)
LEMMA StringBuffer ==
    ASSUME IInv, NEW t \in Threads, SendString(t), job[t].name \notin overlapped'
    PROVE  LET n == job[t].name
           IN  /\ n \notin overlapped /\ \A u \in Threads \ {t} : ~Underway(u, n)
               /\ buffer[n] = [i \in 1..part[t] |-> Text(t, i)]
               /\ TypeOf[n] = "server" => begun[n] /\ routed[n] = Routed(t)
<1> DEFINE n == job[t].name
<1>1. /\ n \in Names /\ part[t] \in Nat /\ pc[t] = "strings"
      /\ overlapped' = IF \E u \in Threads \ {t} : Underway(u, n)
                         THEN overlapped \cup {n} ELSE overlapped
  BY StringParts
<1>2. n \notin overlapped /\ \A u \in Threads \ {t} : ~Underway(u, n)
  BY <1>1
<1>3. /\ Underway(t, n) => Alone(t, n)
      /\ ~Underway(t, n) => buffer[n] = <<>>
  BY <1>1, <1>2, OwnBuffer DEF IInv
<1>4. CASE Underway(t, n)
  BY <1>2, <1>3, <1>4 DEF Alone
<1>5. CASE ~Underway(t, n)
  <2>1. TypeOf[n] # "server" /\ part[t] = 0
    BY <1>1, <1>5 DEF Underway
  <2>2. [i \in 1..0 |-> Text(t, i)] = <<>>
    BY <1>1, JobParts, Growing DEF IInv
  <2>3. buffer[n] = [i \in 1..part[t] |-> Text(t, i)]
    BY <1>3, <1>5, <2>1, <2>2
  <2> QED
    BY <1>2, <2>1, <2>3
<1> QED
  BY <1>4, <1>5

(* Other threads stay where they are. *)
LEMMA StringOthers ==
    ASSUME IInv, NEW t \in Threads, SendString(t)
    PROVE  \A u \in Threads : u # t => /\ pc'[u] = pc[u] /\ job'[u] = job[u]
                                       /\ part'[u] = part[u] /\ count'[u] = count[u]
<1>1. /\ pc \in [Threads -> {"idle", "token", "lookup", "identity", "strings"}]
      /\ job \in [Threads -> Jobs \cup {None}] /\ part \in [Threads -> Nat]
  BY DEF IInv, TypeOK
<1>2. /\ UNCHANGED count
      /\ \/ part' = [part EXCEPT ![t] = @ + 1] /\ UNCHANGED <<pc, job>>
         \/ /\ part' = [part EXCEPT ![t] = 0]
            /\ pc' = [pc EXCEPT ![t] = "idle"]
            /\ job' = [job EXCEPT ![t] = None]
  BY StringParts
<1> QED
  BY <1>1, <1>2

(* Types, what threads know, and what is used and once, after a string. *)
LEMMA StringCommon ==
    ASSUME IInv, NEW t \in Threads, SendString(t), sent' \in [Receivers -> Seq(Frames)]
    PROVE  TypeOK' /\ JobInv' /\ RoutedInv' /\ UsedInv' /\ OnceInv'
<1> DEFINE n == job[t].name
           frame == Text(t, part[t] + 1)
<1>1. /\ n \in Names /\ frame \in Texts /\ frame \in Frames /\ part[t] \in Nat
      /\ frame = Text(t, part[t] + 1)
      /\ pc[t] = "strings" /\ UNCHANGED <<named, count, heard>>
      /\ overlapped' = IF \E u \in Threads \ {t} : Underway(u, n)
                         THEN overlapped \cup {n} ELSE overlapped
      /\ SendMore(n, frame) \/ SendLast(n, frame)
      /\ \/ /\ part[t] + 1 < Strings[n]
            /\ part' = [part EXCEPT ![t] = @ + 1] /\ UNCHANGED <<pc, job>>
         \/ /\ part' = [part EXCEPT ![t] = 0]
            /\ pc' = [pc EXCEPT ![t] = "idle"]
            /\ job' = [job EXCEPT ![t] = None]
  BY StringParts
<1>2. /\ TypeOK /\ JobInv /\ RoutedInv /\ UsedInv
      /\ pc \in [Threads -> {"idle", "token", "lookup", "identity", "strings"}]
      /\ job \in [Threads -> Jobs \cup {None}] /\ part \in [Threads -> Nat]
      /\ overlapped \subseteq Names /\ count \in [Threads -> Nat]
      /\ \A u \in Threads : part[u] > 0 => pc[u] = "strings"
  BY DEF IInv, TypeOK
<1>3. \A u \in Threads : u # t => /\ pc'[u] = pc[u] /\ job'[u] = job[u]
                                  /\ part'[u] = part[u] /\ count'[u] = count[u]
  BY StringOthers
<1>4. /\ \/ /\ part'[t] = part[t] + 1 /\ pc'[t] = "strings" /\ job'[t] = job[t]
            /\ part[t] + 1 < Strings[n]
         \/ part'[t] = 0 /\ pc'[t] = "idle"
      /\ pc' \in [Threads -> {"idle", "token", "lookup", "identity", "strings"}]
      /\ job' \in [Threads -> Jobs \cup {None}]
  BY <1>1, <1>2
<1>5. part' \in [Threads -> Nat] /\ overlapped' \subseteq Names
  <2>1. part[t] + 1 \in Nat
    BY <1>1
  <2>2. part' \in [Threads -> Nat]
    BY <1>1, <1>2, <2>1
  <2> QED
    BY <1>1, <1>2, <2>2
<1>6. /\ routed' \in [Names -> Receivers \cup {None}]
      /\ begun' \in [Names -> BOOLEAN]
      /\ buffer' \in [Names -> Seq(Frames)]
      /\ \A m \in Names : /\ routed'[m] \in Peers(m) \cup {None}
                          /\ ~begun'[m] => buffer'[m] = <<>> /\ routed'[m] = None
      /\ wire' \in [Receivers -> Seq(Frames)]
      /\ RoutedInv'
  <2> HIDE DEF n, frame
  <2> QED
    BY <1>1, <1>2, FrameTypes
<1>7. TypeOK'
  <2>1. ASSUME NEW u \in Threads, part'[u] > 0 PROVE pc'[u] = "strings"
    <3>1. CASE u = t
      BY <1>4, <2>1, <3>1
    <3>2. CASE u # t
      BY <1>2, <1>3, <2>1, <3>2
    <3> QED
      BY <3>1, <3>2
  <2>2. \A m \in Names : Peers(m)' = Peers(m)
    BY DEF Peers
  <2>3. /\ named' \subseteq Names /\ count' \in [Threads -> Nat]
        /\ heard' \in [Receivers -> Seq(Frames)]
    BY <1>1, <1>2 DEF TypeOK
  <2> HIDE DEF n, frame
  <2> QED
    BY <1>4, <1>5, <1>6, <2>1, <2>2, <2>3 DEF TypeOK
<1>8. JobInv'
  <2>1. pc'[t] # "idle" => Knows(t)'
    <3>1. Knows(t)
      BY <1>1, <1>2 DEF JobInv
    <3>2. job[t] \in Jobs /\ count[t] > 0 /\ job[t].token = RightToken(n)
      BY <1>1, <3>1 DEF Knows
    <3> QED
      BY <1>1, <1>4, <3>2 DEF Knows, RightToken
  <2>2. ASSUME NEW u \in Threads, u # t, pc'[u] # "idle" PROVE Knows(u)'
    <3>1. /\ pc'[u] = pc[u] /\ job'[u] = job[u] /\ part'[u] = part[u]
          /\ count'[u] = count[u] /\ named' = named
      BY <1>1, <1>3, <2>2
    <3>2. Knows(u)
      BY <1>2, <2>2, <3>1 DEF JobInv
    <3> QED
      BY <3>1, <3>2 DEF Knows, RightToken
  <2> QED
    BY <2>1, <2>2 DEF JobInv
<1>9. UsedInv'
  <2> SUFFICES ASSUME NEW r \in Receivers, NEW f \in ToSet(Arrived(r)') \cap Texts
               PROVE  Used(f)'
    BY DEF UsedInv
  <2>1. f \in Texts /\ f.by \in Threads /\ f.no \in Nat /\ f.part \in Nat
    BY DEF Texts
  <2>2. f = frame \/ Used(f)
    BY <1>2, StringFlow, PrefixIs DEF UsedInv
  <2>3. /\ frame.by = t /\ frame.no = count[t] /\ frame.part = part[t] + 1
        /\ count[t] \in Nat
    BY <1>2 DEF Text
  <2> HIDE DEF n, frame
  <2>4. CASE f.by # t
    <3>1. Used(f)
      BY <2>2, <2>3, <2>4
    <3>2. part[f.by] \in Nat /\ part'[f.by] = part[f.by]
      BY <1>2, <1>3, <2>1, <2>4
    <3>3. pc'[f.by] = pc[f.by] /\ count'[f.by] = count[f.by]
      BY <1>3, <2>1, <2>4
    <3>4. part'[f.by] >= part[f.by] /\ part'[f.by] \in Nat
      BY <3>2
    <3>5. TypeOK
      BY <1>2
    <3> QED
      BY <2>1, <3>1, <3>3, <3>4, <3>5, StillUsed
  <2>5. CASE f.by = t
    <3>1. f = frame => f.no = count[t] /\ f.part <= part[t] + 1
      BY <1>1, <2>3
    <3>2. Used(f) => \/ f.no < count[t]
                     \/ f.no = count[t] /\ f.part <= part[t] + 1
      BY <1>1, <2>1, <2>5 DEF Used
    <3>3. f.no < count[t] \/ (f.no = count[t] /\ f.part <= part[t] + 1)
      BY <2>2, <3>1, <3>2
    <3> QED
      BY <1>1, <1>4, <2>5, <3>3 DEF Used
  <2> QED
    BY <2>4, <2>5
<1>10. OnceInv'
  BY StringFlow DEF OnceInv
<1> QED
  BY <1>6, <1>7, <1>8, <1>9, <1>10

(* A string that others follow: it is held back. *)
LEMMA StringMore ==
    ASSUME IInv, NEW t \in Threads, SendString(t),
           part[t] + 1 < Strings[job[t].name]
    PROVE  IInv'
<1> DEFINE n == job[t].name
           frame == Text(t, part[t] + 1)
<1>1. /\ n \in Names /\ frame \in Frames /\ part[t] \in Nat
      /\ pc[t] = "strings" /\ UNCHANGED <<named, count, heard, pc, job, sent>>
      /\ overlapped' = IF \E u \in Threads \ {t} : Underway(u, n)
                         THEN overlapped \cup {n} ELSE overlapped
      /\ SendMore(n, frame) /\ part' = [part EXCEPT ![t] = @ + 1]
  <2>1. Strings[n] \in Nat /\ part[t] \in Nat
    BY StringParts
  <2>2. ~(part[t] + 1 = Strings[n])
    BY <2>1
  <2> HIDE DEF n, frame
  <2> QED
    BY <2>2, StringParts DEF n, frame
<1>2. /\ TypeOK /\ RoutedInv /\ AloneInv /\ ArriveInv /\ TokensInv /\ KeptInv
      /\ part \in [Threads -> Nat] /\ sent \in [Receivers -> Seq(Frames)]
  BY DEF IInv, TypeOK
<1>3. /\ part'[t] = part[t] + 1
      /\ \A u \in Threads : u # t => part'[u] = part[u]
  BY <1>1, <1>2
<1>4. TypeOK' /\ JobInv' /\ RoutedInv' /\ UsedInv' /\ OnceInv'
  BY <1>1, <1>2, StringCommon
<1>5. /\ UNCHANGED wire /\ begun'[n]
      /\ \/ TypeOf[n] = "server" /\ ~begun[n]
         \/ routed' = routed /\ buffer'[n] = Append(buffer[n], frame)
  <2>1. buffer \in [Names -> Seq(Frames)]
    BY <1>2 DEF TypeOK
  <2> HIDE DEF n, frame
  <2> QED
    BY <1>1, <1>2, <2>1, HeldBack
<1>6. AloneInv'
  <2> SUFFICES ASSUME NEW m \in Names, m \notin overlapped'
               PROVE  Nobody(m)' \/ \E u \in Threads : Alone(u, m)'
    BY DEF AloneInv
  <2>1. CASE m # n
    <3>1. Nobody(m) \/ \E u \in Threads : Alone(u, m)
      BY <1>1, <1>2, <2>1 DEF AloneInv
    <3>2. routed'[m] = routed[m] /\ buffer'[m] = buffer[m] /\ (begun'[m] <=> begun[m])
      <4> HIDE DEF n, frame
      <4> QED
        BY <1>1, <1>2, <2>1, FrameTypes
    <3> QED
      BY <1>1, <1>3, <2>1, <3>1, <3>2, AloneElsewhere
  <2>2. CASE m = n
    <3>1. /\ \A u \in Threads \ {t} : ~Underway(u, n)
          /\ buffer[n] = [i \in 1..part[t] |-> Text(t, i)]
          /\ TypeOf[n] = "server" => begun[n] /\ routed[n] = Routed(t)
      BY <2>2, StringBuffer
    <3>2. routed'[n] = routed[n] /\ buffer'[n] = Append(buffer[n], frame)
      BY <1>5, <3>1
    <3>3. Append([i \in 1..part[t] |-> Text(t, i)], Text(t, part[t] + 1))
            = [i \in 1..part[t] + 1 |-> Text(t, i)]
      BY <1>1, <1>2, JobParts, Growing DEF IInv
    <3>4. buffer'[n] = [i \in 1..part'[t] |-> Text(t, i)]
      BY <1>3, <3>1, <3>2, <3>3
    <3>5. \A i : Text(t, i)' = Text(t, i)
      BY <1>1 DEF Text
    <3>6. buffer'[n] = [i \in 1..part'[t] |-> Text(t, i)']
      BY <3>4, <3>5
    <3>7. part'[t] > 0
      BY <1>1, <1>3
    <3>8. Routed(t)' = Routed(t)
      BY <1>1 DEF Routed, Peers
    <3>9. /\ \A u \in Threads \ {t} : ~Underway(u, m)'
          /\ Underway(t, m)' /\ begun'[m]
          /\ TypeOf[m] = "server" => routed'[m] = Routed(t)'
          /\ buffer'[m] = [i \in 1..part'[t] |-> Text(t, i)']
      BY <1>1, <1>3, <1>5, <2>2, <3>1, <3>2, <3>6, <3>7, <3>8 DEF Underway
    <3> HIDE DEF n, frame
    <3>10. Alone(t, m)'
      BY <3>9 DEF Alone
    <3> QED
      BY <3>10
  <2> QED
    BY <2>1, <2>2
<1>7. ArriveInv' /\ TokensInv'
  BY <1>1, <1>2, <1>5 DEF ArriveInv, TokensInv, RightToken
<1>8. KeptInv'
  <2> SUFFICES ASSUME NEW r \in Receivers, TypeOf[At[r]] # "server"
               PROVE  /\ ToSet(sent[r]) \subseteq ToSet(Arrived(r)') \cup {Identity}
                      /\ \A u \in Threads : pc[u] = "strings" /\ job[u].name = At[r] =>
                            \A i \in 1..part'[u] : Text(u, i) \in ToSet(Arrived(r)')
    BY <1>1 DEF KeptInv, Text
  <2>1. /\ ToSet(Arrived(r)) \subseteq ToSet(Arrived(r)')
        /\ At[r] = n => frame \in ToSet(Arrived(r)')
    BY StringFlow
  <2>2. /\ ToSet(sent[r]) \subseteq ToSet(Arrived(r)) \cup {Identity}
        /\ \A u \in Threads : pc[u] = "strings" /\ job[u].name = At[r] =>
              \A i \in 1..part[u] : Text(u, i) \in ToSet(Arrived(r))
    BY <1>2 DEF KeptInv
  <2>3. ASSUME NEW u \in Threads, pc[u] = "strings", job[u].name = At[r],
               NEW i \in 1..part'[u]
        PROVE  Text(u, i) \in ToSet(Arrived(r)')
    <3>1. CASE u # t
      BY <1>3, <2>1, <2>2, <2>3, <3>1
    <3>2. CASE u = t
      <4>1. i \in 1..part[t] \/ i = part[t] + 1
        BY <1>1, <1>3, <2>3, <3>2
      <4> QED
        BY <2>1, <2>2, <2>3, <3>2, <4>1
    <3> QED
      BY <3>1, <3>2
  <2> QED
    BY <2>1, <2>2, <2>3
<1> QED
  BY <1>4, <1>6, <1>7, <1>8 DEF IInv

(* What a receiver was sent, with the message of the thread after it. *)
WithMessage(t, r) == sent[r] \o Prefix(job[t].name) \o Content(t)

(* A message adds its texts and at most the identity to what was sent; it
   follows what has arrived as it follows what was sent before. *)
LEMMA MessageIs ==
    ASSUME IInv, NEW t \in Threads, pc[t] = "strings", NEW r \in Receivers
    PROVE  LET n == job[t].name
           IN  /\ WithMessage(t, r) \in Seq(Frames)
               /\ ToSet(WithMessage(t, r)) \subseteq
                    ToSet(sent[r]) \cup {Identity} \cup {Text(t, i) : i \in 1..Strings[n]}
               /\ heard[r] \o wire[r] = sent[r] =>
                    heard[r] \o (wire[r] \o Prefix(n) \o Content(t)) = WithMessage(t, r)
<1> DEFINE n == job[t].name
           p == Prefix(n)
           c == Content(t)
           s == sent[r]
           h == heard[r]
           w == wire[r]
<1>1. Strings[n] \in Nat /\ \A i \in Nat \ {0} : Text(t, i) \in Frames
  BY JobParts DEF IInv
<1>2. c \in Seq(Frames) /\ ToSet(c) = {Text(t, i) : i \in 1..Strings[n]}
  <2> DEFINE k == Strings[n]
  <2>1. c = [i \in 1..k |-> Text(t, i)] /\ k \in Nat
    BY <1>1 DEF Content
  <2> HIDE DEF k, n, c
  <2>2. c \in [1..k -> Frames]
    BY <1>1, <2>1
  <2>3. c \in Seq(Frames) /\ Len(c) = k
    BY <2>1, <2>2
  <2>4. ToSet(c) = {c[i] : i \in 1..k}
    BY <2>3, ToSetIs
  <2>5. ToSet(c) = {Text(t, i) : i \in 1..k}
    BY <2>1, <2>4
  <2> QED
    BY <2>3, <2>5 DEF k, n
<1>3. /\ p \in Seq(Frames) /\ ToSet(p) \subseteq {Identity}
      /\ s \in Seq(Frames) /\ h \in Seq(Frames) /\ w \in Seq(Frames)
  BY PrefixIs DEF IInv, TypeOK
<1>4. WithMessage(t, r) = s \o p \o c
  BY DEF WithMessage
<1> HIDE DEF p, c, s, h, w
<1>5. /\ s \o p \in Seq(Frames) /\ ToSet(s \o p) = ToSet(s) \cup ToSet(p)
      /\ w \o p \in Seq(Frames)
  BY <1>3, FramesConcat
<1>6. s \o p \o c \in Seq(Frames) /\ ToSet(s \o p \o c) = ToSet(s \o p) \cup ToSet(c)
  BY <1>2, <1>5, FramesConcat
<1>7. h \o (w \o p \o c) = h \o w \o p \o c
  <2> DEFINE x == w \o p
  <2>1. h \in Seq(Frames) /\ w \in Seq(Frames) /\ p \in Seq(Frames)
    BY <1>3
  <2>2. c \in Seq(Frames) /\ x \in Seq(Frames)
    BY <1>2, <1>5
  <2> HIDE DEF n
  <2>3. h \o x = (h \o w) \o p
    BY <2>1, InARow, Zenon
  <2> HIDE DEF x
  <2>4. h \o (x \o c) = (h \o x) \o c
    BY <2>1, <2>2, InARow, Zenon
  <2> QED
    BY <2>3, <2>4, Zenon DEF x
<1>9. h \o w = s => h \o (w \o p \o c) = s \o p \o c
  BY <1>7, Zenon
<1>10. ToSet(s \o p \o c) \subseteq ToSet(s) \cup {Identity} \cup ToSet(c)
  BY <1>3, <1>5, <1>6
<1> QED
  BY <1>2, <1>4, <1>6, <1>9, <1>10 DEF n, p, c, s, h, w

(* The last string: what was held back is the message, and is delivered. *)
LEMMA StringLast ==
    ASSUME IInv, NEW t \in Threads, SendString(t),
           ~(part[t] + 1 < Strings[job[t].name])
    PROVE  IInv'
<1> DEFINE n == job[t].name
           frame == Text(t, part[t] + 1)
<1>1. /\ n \in Names /\ frame \in Frames /\ part[t] \in Nat
      /\ Strings[n] = part[t] + 1 /\ job[t].token = RightToken(n)
      /\ pc[t] = "strings" /\ UNCHANGED <<named, count, heard>>
      /\ overlapped' = IF \E u \in Threads \ {t} : Underway(u, n)
                         THEN overlapped \cup {n} ELSE overlapped
      /\ SendLast(n, frame) /\ pc' = [pc EXCEPT ![t] = "idle"]
      /\ sent' = [r \in Receivers |-> IF r \in Addressees(t)
                    THEN WithMessage(t, r) ELSE sent[r]]
  <2> HIDE DEF n, frame
  <2> QED
    BY StringParts DEF n, frame, WithMessage
<1>2. /\ TypeOK /\ RoutedInv /\ AloneInv /\ ArriveInv /\ TokensInv /\ KeptInv
      /\ pc \in [Threads -> {"idle", "token", "lookup", "identity", "strings"}]
      /\ sent \in [Receivers -> Seq(Frames)]
  BY DEF IInv, TypeOK
<1>3. \A u \in Threads : u # t => /\ pc'[u] = pc[u] /\ job'[u] = job[u]
                                  /\ part'[u] = part[u] /\ count'[u] = count[u]
  BY StringOthers
<1>4. pc'[t] = "idle"
  BY <1>1, <1>2
<1>5. /\ sent' \in [Receivers -> Seq(Frames)]
      /\ \A r \in Receivers :
            sent'[r] = IF r \in Addressees(t) THEN WithMessage(t, r) ELSE sent[r]
  <2>1. \A r \in Receivers : WithMessage(t, r) \in Seq(Frames)
    BY <1>1, MessageIs
  <2> HIDE DEF n, frame
  <2> QED
    BY <1>1, <1>2, <2>1
<1>6. TypeOK' /\ JobInv' /\ RoutedInv' /\ UsedInv' /\ OnceInv'
  BY <1>5, StringCommon
<1>7. /\ ~begun'[n]
      /\ \A r \in Receivers :
            wire'[r] = IF Reached(n, r) THEN Extended(r, n, frame) ELSE wire[r]
  <2> HIDE DEF n, frame
  <2> QED
    BY <1>1, <1>2, Delivered
<1>8. \A r \in Receivers : r \in Addressees(t) <=>
        At[r] = n /\ (TypeOf[n] = "server" => r = job[t].client_id)
  BY DEF Addressees, Peers
<1>9. AloneInv'
  <2> SUFFICES ASSUME NEW m \in Names, m \notin overlapped'
               PROVE  Nobody(m)' \/ \E u \in Threads : Alone(u, m)'
    BY DEF AloneInv
  <2>1. CASE m # n
    <3>1. Nobody(m) \/ \E u \in Threads : Alone(u, m)
      BY <1>1, <1>2, <2>1 DEF AloneInv
    <3>2. routed'[m] = routed[m] /\ buffer'[m] = buffer[m] /\ (begun'[m] <=> begun[m])
      <4> HIDE DEF n, frame
      <4> QED
        BY <1>1, <1>2, <2>1, FrameTypes
    <3> QED
      BY <1>1, <1>3, <1>4, <2>1, <3>1, <3>2, AloneElsewhere
  <2>2. CASE m = n
    <3>1. \A u \in Threads \ {t} : ~Underway(u, m)
      BY <2>2, StringBuffer
    <3>2. \A u \in Threads : ~Underway(u, m)'
      BY <1>3, <1>4, <3>1 DEF Underway
    <3>3. ~begun'[m]
      BY <1>7, <2>2
    <3>4. Nobody(m)'
      BY <3>2, <3>3 DEF Nobody
    <3> QED
      BY <3>4
  <2> QED
    BY <2>1, <2>2
<1>10. ArriveInv'
  <2> SUFFICES ASSUME NEW r \in Receivers, At[r] \notin overlapped'
               PROVE  heard[r] \o wire'[r] = sent'[r]
    BY <1>1 DEF ArriveInv
  <2>1. heard[r] \o wire[r] = sent[r]
    BY <1>1, <1>2 DEF ArriveInv
  <2>2. CASE At[r] # n
    BY <1>5, <1>7, <1>8, <2>1, <2>2 DEF Reached
  <2>3. CASE At[r] = n
    <3>1. /\ buffer[n] = [i \in 1..part[t] |-> Text(t, i)]
          /\ TypeOf[n] = "server" => begun[n] /\ routed[n] = Routed(t)
      BY <2>3, StringBuffer
    <3>2. Append(buffer[n], frame) = Content(t)
      <4>1. Append([i \in 1..part[t] |-> Text(t, i)], Text(t, part[t] + 1))
              = [i \in 1..part[t] + 1 |-> Text(t, i)]
        BY <1>1, JobParts, Growing DEF IInv
      <4> QED
        BY <1>1, <3>1, <4>1 DEF Content
    <3>3. Extended(r, n, frame) = wire[r] \o Prefix(n) \o Content(t)
      BY <3>2 DEF Extended
    <3>4. Reached(n, r) <=> r \in Addressees(t)
      <4>1. r \in Peers(n) /\ r # None
        BY <2>3, FramesAssumption DEF Peers
      <4>2. TypeOf[n] = "server" => (r = routed[n] <=> r = job[t].client_id)
        BY <3>1, <4>1 DEF Routed
      <4> QED
        BY <1>8, <2>3, <3>1, <4>2 DEF Reached
    <3>5. heard[r] \o (wire[r] \o Prefix(n) \o Content(t)) = WithMessage(t, r)
      BY <1>1, <2>1, MessageIs
    <3>6. CASE r \in Addressees(t)
      <4>1. wire'[r] = wire[r] \o Prefix(n) \o Content(t) /\ sent'[r] = WithMessage(t, r)
        BY <1>5, <1>7, <3>3, <3>4, <3>6
      <4> QED
        BY <3>5, <4>1
    <3>7. CASE r \notin Addressees(t)
      BY <1>5, <1>7, <2>1, <3>4, <3>7
    <3> QED
      BY <3>6, <3>7
  <2> QED
    BY <2>2, <2>3
<1>11. TokensInv'
  <2> SUFFICES ASSUME NEW r \in Receivers, NEW f \in ToSet(sent'[r]) \cap Texts
               PROVE  f.token = RightToken(At[r])
    BY DEF TokensInv, RightToken
  <2>1. f \in ToSet(sent[r]) => f.token = RightToken(At[r])
    BY <1>2 DEF TokensInv
  <2>2. CASE r \in Addressees(t) /\ f \notin ToSet(sent[r])
    <3>1. f \in ToSet(WithMessage(t, r)) /\ At[r] = n /\ f # Identity
      BY <1>5, <1>8, <2>2, PrefixIs
    <3>2. PICK i \in 1..Strings[n] : f = Text(t, i)
      BY <1>1, <2>2, <3>1, MessageIs
    <3>3. f.token = job[t].token
      BY <3>2 DEF Text
    <3> QED
      BY <1>1, <3>1, <3>3
  <2> QED
    BY <1>5, <2>1, <2>2
<1>12. KeptInv'
  <2> SUFFICES ASSUME NEW r \in Receivers, TypeOf[At[r]] # "server"
               PROVE  /\ ToSet(sent'[r]) \subseteq ToSet(Arrived(r)') \cup {Identity}
                      /\ \A u \in Threads : pc'[u] = "strings" /\ job'[u].name = At[r] =>
                            \A i \in 1..part'[u] : Text(u, i)' \in ToSet(Arrived(r)')
    BY DEF KeptInv
  <2>1. /\ ToSet(Arrived(r)) \subseteq ToSet(Arrived(r)')
        /\ At[r] = n => frame \in ToSet(Arrived(r)')
    BY StringFlow
  <2>2. /\ ToSet(sent[r]) \subseteq ToSet(Arrived(r)) \cup {Identity}
        /\ \A u \in Threads : pc[u] = "strings" /\ job[u].name = At[r] =>
              \A i \in 1..part[u] : Text(u, i) \in ToSet(Arrived(r))
    BY <1>2 DEF KeptInv
  <2>3. ToSet(sent'[r]) \subseteq ToSet(Arrived(r)') \cup {Identity}
    <3>1. CASE r \in Addressees(t)
      <4>1. At[r] = n /\ sent'[r] = WithMessage(t, r)
        BY <1>5, <1>8, <3>1
      <4>2. ASSUME NEW i \in 1..Strings[n] PROVE Text(t, i) \in ToSet(Arrived(r)')
        <5>1. i \in 1..part[t] \/ i = part[t] + 1
          BY <1>1
        <5> QED
          BY <1>1, <2>1, <2>2, <4>1, <5>1
      <4>3. ToSet(WithMessage(t, r)) \subseteq
              ToSet(sent[r]) \cup {Identity} \cup {Text(t, i) : i \in 1..Strings[n]}
        BY <1>1, MessageIs
      <4> QED
        BY <2>1, <2>2, <4>1, <4>2, <4>3
    <3>2. CASE r \notin Addressees(t)
      BY <1>5, <2>1, <2>2, <3>2
    <3> QED
      BY <3>1, <3>2
  <2>4. ASSUME NEW u \in Threads, pc'[u] = "strings", job'[u].name = At[r],
               NEW i \in 1..part'[u]
        PROVE  Text(u, i)' \in ToSet(Arrived(r)')
    <3>1. /\ u # t /\ pc[u] = "strings" /\ job[u].name = At[r] /\ i \in 1..part[u]
          /\ Text(u, i)' = Text(u, i)
      BY <1>3, <1>4, <2>4 DEF Text
    <3> QED
      BY <2>1, <2>2, <3>1
  <2> QED
    BY <2>3, <2>4
<1> QED
  BY <1>6, <1>9, <1>10, <1>11, <1>12 DEF IInv

-----------------------------------------------------------------------------
(* The other end, and the end of the service. *)

(* A receiver takes frames from the front of what lies there. *)
LEMMA ReadFlow ==
    ASSUME NEW h \in Seq(Frames), NEW w \in Seq(Frames), NEW k \in Nat, Len(w) >= k
    PROVE  /\ h \o SubSeq(w, 1, k) \in Seq(Frames)
           /\ SubSeq(w, k + 1, Len(w)) \in Seq(Frames)
           /\ (h \o SubSeq(w, 1, k)) \o SubSeq(w, k + 1, Len(w)) = h \o w
<1>1. PICK l \in Nat : l = Len(w)
  BY LenProperties
<1>2. SubSeq(w, 1, k) \in Seq(Frames) /\ SubSeq(w, k + 1, l) \in Seq(Frames)
  <2>1. /\ \A i \in 1..k : w[i] \in Frames
        /\ \A i \in k + 1..l : w[i] \in Frames
    <3>1. \A i \in 1..l : w[i] \in Frames
      BY <1>1, ElementOfSeq
    <3>2. \A i \in 1..k : i \in 1..l
      BY <1>1
    <3>3. \A i \in k + 1..l : i \in 1..l
      OBVIOUS
    <3> QED
      BY <3>1, <3>2, <3>3
  <2> QED
    BY <2>1, SubSeqProperties
<1>3. SubSeq(w, 1, k) \o SubSeq(w, k + 1, l) = SubSeq(w, 1, l)
  <2>1. 1 \in 1..l + 1 /\ k \in 1 - 1..l /\ l \in k..l
    BY <1>1
  <2> QED
    BY <1>1, <2>1, ConcatAdjacentSubSeq
<1>4. SubSeq(w, 1, l) = w
  BY <1>1, SubSeqFull
<1>5. (h \o SubSeq(w, 1, k)) \o SubSeq(w, k + 1, l)
        = h \o (SubSeq(w, 1, k) \o SubSeq(w, k + 1, l))
  BY <1>2, InARow
<1> QED
  BY <1>1, <1>2, <1>3, <1>4, <1>5, ConcatProperties

(* A step that sends nothing and takes no frame away keeps everything. *)
LEMMA QuietStep ==
    ASSUME IInv,
           UNCHANGED <<pc, job, part, count, routed, begun, buffer, sent, overlapped>>,
           named' \subseteq named,
           wire' \in [Receivers -> Seq(Frames)], heard' \in [Receivers -> Seq(Frames)],
           \A r \in Receivers : heard'[r] \o wire'[r] = heard[r] \o wire[r]
    PROVE  IInv'
<1>1. /\ TypeOK /\ JobInv /\ RoutedInv /\ AloneInv /\ ArriveInv /\ TokensInv
      /\ UsedInv /\ OnceInv /\ KeptInv
  BY DEF IInv
<1>2. TypeOK'
  <2>1. \A m \in Names : Peers(m)' = Peers(m)
    BY DEF Peers
  <2> QED
    BY <1>1, <2>1 DEF TypeOK
<1>3. JobInv'
  BY <1>1 DEF JobInv, Knows, RightToken
<1>4. RoutedInv'
  BY <1>1 DEF RoutedInv
<1>5. AloneInv'
  <2>1. \A u \in Threads, m \in Names : Underway(u, m)' <=> Underway(u, m)
    BY DEF Underway
  <2> SUFFICES ASSUME NEW m \in Names, m \notin overlapped
               PROVE  Nobody(m)' \/ \E u \in Threads : Alone(u, m)'
    BY DEF AloneInv
  <2>2. CASE Nobody(m)
    BY <2>1, <2>2 DEF Nobody
  <2>3. ASSUME NEW u \in Threads, Alone(u, m) PROVE Alone(u, m)'
    <3>1. Routed(u)' = Routed(u) /\ \A i : Text(u, i)' = Text(u, i)
      BY DEF Routed, Peers, Text
    <3>2. [i \in 1..part[u] |-> Text(u, i)]' = [i \in 1..part[u] |-> Text(u, i)]
      BY <3>1
    <3> QED
      BY <2>1, <2>3, <3>1, <3>2 DEF Alone
  <2> QED
    BY <1>1, <2>2, <2>3 DEF AloneInv
<1>6. ArriveInv' /\ TokensInv'
  BY <1>1 DEF ArriveInv, TokensInv, RightToken
<1>7. \A r \in Receivers : Arrived(r)' = Arrived(r)
  BY DEF Arrived
<1>8. \A f \in Texts : Used(f)' <=> Used(f)
  BY DEF Used
<1>9. UsedInv' /\ OnceInv'
  BY <1>1, <1>7, <1>8 DEF UsedInv, OnceInv
<1>10. KeptInv'
  <2>1. \A u \in Threads : \A i : Text(u, i)' = Text(u, i)
    BY DEF Text
  <2> QED
    BY <1>1, <1>7, <2>1 DEF KeptInv
<1> QED
  BY <1>2, <1>3, <1>4, <1>5, <1>6, <1>9, <1>10 DEF IInv

(* on_read takes a message's frames. *)
LEMMA OnReadStep ==
    ASSUME IInv, NEW r \in Receivers, OnRead(r)
    PROVE  IInv'
<1> DEFINE k == Reads(At[r])
           h == heard[r]
           w == wire[r]
<1>1. /\ heard \in [Receivers -> Seq(Frames)] /\ wire \in [Receivers -> Seq(Frames)]
      /\ h \in Seq(Frames) /\ w \in Seq(Frames)
  BY DEF IInv, TypeOK
<1>2. k \in Nat
  <2>1. At[r] \in Names /\ Strings[At[r]] \in Nat
    BY NamesAssumption
  <2>2. Prefix(At[r]) \in Seq(Frames)
    BY PrefixIs
  <2>3. Len(Prefix(At[r])) \in Nat
    BY <2>2, LenProperties
  <2> QED
    BY <2>1, <2>3 DEF Reads
<1>3. /\ Len(w) >= k
      /\ heard' = [heard EXCEPT ![r] = @ \o SubSeq(wire[r], 1, k)]
      /\ wire' = [wire EXCEPT ![r] = SubSeq(@, k + 1, Len(@))]
      /\ UNCHANGED <<named, pc, job, part, count, routed, begun, buffer, sent, overlapped>>
  BY DEF OnRead, threadVars, socketVars
<1> DEFINE taken == h \o SubSeq(w, 1, k)
           left == SubSeq(w, k + 1, Len(w))
<1>4. heard' = [heard EXCEPT ![r] = taken] /\ wire' = [wire EXCEPT ![r] = left]
  BY <1>1, <1>3
<1>5. taken \in Seq(Frames) /\ left \in Seq(Frames) /\ taken \o left = h \o w
  <2> HIDE DEF h, w, k
  <2> QED
    BY <1>1, <1>2, <1>3, ReadFlow
<1> HIDE DEF taken, left, k
<1>6. /\ heard' \in [Receivers -> Seq(Frames)] /\ wire' \in [Receivers -> Seq(Frames)]
      /\ heard'[r] = taken /\ wire'[r] = left
      /\ \A q \in Receivers : q # r => heard'[q] = heard[q] /\ wire'[q] = wire[q]
  BY <1>1, <1>4, <1>5
<1>7. \A q \in Receivers : heard'[q] \o wire'[q] = heard[q] \o wire[q]
  BY <1>5, <1>6
<1> QED
  BY <1>3, <1>6, <1>7, QuietStep

(* Nothing is sent, read or named any more in a step that changes nothing but
   the names. *)
LEMMA ClosingStep ==
    ASSUME IInv, CloseAll \/ UNCHANGED vars
    PROVE  IInv'
<1>1. /\ heard \in [Receivers -> Seq(Frames)] /\ wire \in [Receivers -> Seq(Frames)]
  BY DEF IInv, TypeOK
<1>2. /\ UNCHANGED <<pc, job, part, count, routed, begun, buffer, wire, heard, sent, overlapped>>
      /\ named' \subseteq named
  BY DEF CloseAll, vars, threadVars, socketVars
<1> QED
  BY <1>1, <1>2, QuietStep

-----------------------------------------------------------------------------

(* At the start nothing is sent. *)
LEMMA InitHolds == Init => IInv
<1> SUFFICES ASSUME Init PROVE IInv
  OBVIOUS
<1>1. /\ named = Names /\ pc = [t \in Threads |-> "idle"]
      /\ job = [t \in Threads |-> None] /\ part = [t \in Threads |-> 0]
      /\ count = [t \in Threads |-> 0] /\ routed = [n \in Names |-> None]
      /\ begun = [n \in Names |-> FALSE] /\ buffer = [n \in Names |-> <<>>]
      /\ wire = [r \in Receivers |-> <<>>] /\ heard = [r \in Receivers |-> <<>>]
      /\ sent = [r \in Receivers |-> <<>>] /\ overlapped = {}
  BY DEF Init
<1>2. /\ <<>> \in Seq(Frames) /\ ToSet(<<>>) = {} /\ Once(<<>>)
      /\ \A r \in Receivers : At[r] \in Names
  BY PrefixIs, OneFrame, NamesAssumption
<1>3. TypeOK
  BY <1>1, <1>2 DEF TypeOK
<1>4. JobInv /\ RoutedInv
  BY <1>1 DEF JobInv, RoutedInv
<1>5. AloneInv
  BY <1>1 DEF AloneInv, Nobody, Underway
<1>6. <<>> \o <<>> = <<>>
  BY <1>2, ConcatEmptySeq
<1>7. \A r \in Receivers : Arrived(r) = <<>> /\ heard[r] \o wire[r] = sent[r]
  BY <1>1, <1>2, <1>6 DEF Arrived
<1>8. ArriveInv /\ TokensInv
  BY <1>1, <1>2, <1>7 DEF ArriveInv, TokensInv
<1>9. UsedInv /\ OnceInv /\ KeptInv
  BY <1>1, <1>2, <1>7 DEF UsedInv, OnceInv, KeptInv
<1> QED
  BY <1>3, <1>4, <1>5, <1>8, <1>9 DEF IInv

(* Every step keeps it. *)
LEMMA NextKeeps == IInv /\ [Next]_vars => IInv'
<1> SUFFICES ASSUME IInv, [Next]_vars PROVE IInv'
  OBVIOUS
<1>1. ASSUME NEW t \in Threads, Opening(t) PROVE IInv'
  BY <1>1, OpeningJob, OpeningRest DEF IInv
<1>2. ASSUME NEW t \in Threads, NEW n \in Names, NEW p \in ClientIdsFor(n),
             SendMessage(t, n, p)
      PROVE  IInv'
  BY <1>1, <1>2 DEF Opening
<1>3. ASSUME NEW t \in Threads, SendStep(t) PROVE IInv'
  <2>1. CASE ChooseToken(t) \/ Lookup(t)
    BY <1>1, <2>1 DEF Opening
  <2>2. CASE SendIdentity(t)
    BY <2>2, IdentityStep
  <2>3. CASE SendString(t)
    BY <2>3, StringMore, StringLast
  <2> QED
    BY <1>3, <2>1, <2>2, <2>3 DEF SendStep
<1>4. ASSUME NEW r \in Receivers, OnRead(r) PROVE IInv'
  BY <1>4, OnReadStep
<1>5. CASE CloseAll \/ Done \/ UNCHANGED vars
  BY <1>5, ClosingStep DEF Done
<1> QED
  BY <1>2, <1>3, <1>4, <1>5 DEF Next

(* What holds of the sockets and the threads that send on them, always. *)
THEOREM SendInvariant == Spec => []IInv
  BY InitHolds, NextKeeps, PTL DEF Spec

(* Every variable has its type, and a socket holds frames back only while a
   message is begun. *)
THEOREM SendTypes == Spec => []TypeOK
<1>1. IInv => TypeOK
  BY DEF IInv
<1> QED
  BY <1>1, SendInvariant, PTL

(* On a socket on which sends have not overlapped, what its receivers read and
   have read is what ipcam_service_send_strings was given for them, whole and in
   order, with the token that base_app.c should have chosen. *)
THEOREM SendsArrive == Spec => []SentArrives
<1>1. IInv => SentArrives
  BY DEF IInv, ArriveInv, TokensInv, SentArrives
<1> QED
  BY <1>1, SendInvariant, PTL

(* Whatever overlaps, no string arrives twice, and none is lost on a DEALER or
   PUB socket. *)
THEOREM StringsArriveOnce == Spec => []StringsOnce
<1>1. IInv => StringsOnce
  BY DEF IInv, OnceInv, KeptInv, StringsOnce
<1> QED
  BY <1>1, SendInvariant, PTL
===============================================================================
