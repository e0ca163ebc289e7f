------------------------ MODULE TlsServerEngineProofs ------------------------
(***************************************************************************)
(* Proofs about TlsServerEngine, with and without TLS, for any number of   *)
(* bytes and records and every size of the buffers: the plain bytes pass   *)
(* through intact in both directions, close_notify comes last, the EOF     *)
(* that the application sees is the peer's, and nothing gets stuck between *)
(* the application and the socket.                                         *)
(***************************************************************************)
EXTENDS TlsServerEngine, TcpStreamBufProofs

USE DEF outVars, flagVars, inVars, vars, tlsVars, allVars

-----------------------------------------------------------------------------
(* Records *)

Kind == {"hello", "finished", "flight", "data", "close"}
Record(S) == [t : Kind, bytes : Seq(S)]

LEMMA PlainEmpty == Plain(<<>>) = <<>>
<1>1. [i \in DOMAIN <<>> |-> <<>>[i].bytes] = <<>>
  OBVIOUS
<1> QED
  BY <1>1 DEF Plain, FlattenSeq

(* The pieces that Plain joins *)
LEMMA PiecesTyped ==
  ASSUME NEW S, NEW s \in Seq(Record(S))
  PROVE  [i \in DOMAIN s |-> s[i].bytes] \in Seq(Seq(S))
<1> DEFINE R == Record(S)
           P == Seq(S)
<1>1. \A r \in R : r.bytes \in P
  BY DEF Record
<1> HIDE DEF R, P
<1>2. s \in Seq(R)
  BY DEF R
<1>3. Len(s) \in Nat /\ DOMAIN s = 1..Len(s) /\ \A i \in 1..Len(s) : s[i] \in R
  BY <1>2
<1>4. [i \in DOMAIN s |-> s[i].bytes] \in [1..Len(s) -> P]
  BY <1>1, <1>3
<1>5. [i \in DOMAIN s |-> s[i].bytes] \in Seq(P)
  BY <1>3, <1>4
<1> QED
  BY <1>5 DEF P

LEMMA PlainTyped ==
  ASSUME NEW S, NEW s \in Seq(Record(S))
  PROVE  Plain(s) \in Seq(S)
<1> DEFINE p == [i \in DOMAIN s |-> s[i].bytes]
<1>1. p \in Seq(Seq(S))
  BY PiecesTyped
<1> HIDE DEF p
<1>2. FlattenSeq(p) \in Seq(S)
  BY <1>1, FlattenSeqTyped
<1> QED
  BY <1>2 DEF Plain, p

LEMMA PlainAppend ==
  ASSUME NEW S, NEW s \in Seq(Record(S)), NEW r \in Record(S)
  PROVE  Plain(Append(s, r)) = Plain(s) \o r.bytes
<1> DEFINE R == Record(S)
           p == [i \in DOMAIN s |-> s[i].bytes]
           t == Append(s, r)
           q == [i \in DOMAIN t |-> t[i].bytes]
<1>1. p \in Seq(Seq(S))
  BY PiecesTyped
<1>2. r.bytes \in Seq(S)
  BY DEF Record
<1> HIDE DEF R
<1>3. s \in Seq(R) /\ r \in R
  BY DEF R
<1>4. /\ Len(s) \in Nat /\ DOMAIN s = 1..Len(s) /\ DOMAIN t = 1..(Len(s) + 1) /\ t[Len(s) + 1] = r
      /\ \A i \in 1..Len(s) : t[i] = s[i]
  <2>1. t \in Seq(R) /\ Len(t) = Len(s) + 1 /\ t[Len(s) + 1] = r /\ \A i \in 1..Len(s) : t[i] = s[i]
    BY <1>3, AppendProperties
  <2>2. DOMAIN t = 1..Len(t) /\ Len(s) \in Nat /\ DOMAIN s = 1..Len(s)
    BY <1>3, <2>1
  <2> QED
    BY <2>1, <2>2
<1> HIDE DEF t
<1>5. DOMAIN p = 1..Len(s) /\ \A i \in 1..Len(s) : p[i] = s[i].bytes
  BY <1>4
<1>6. Len(p) = Len(s)
  BY <1>1, <1>4, <1>5
<1>7. DOMAIN q = 1..(Len(s) + 1) /\ \A i \in 1..(Len(s) + 1) : q[i] = t[i].bytes
  BY <1>4
<1>8. q = Append(p, r.bytes)
  <2> DEFINE a == Append(p, r.bytes)
             P == Seq(S)
  <2>1. p \in Seq(P) /\ r.bytes \in P
    BY <1>1, <1>2
  <2> HIDE DEF p, q, P
  <2>2. /\ a \in Seq(P) /\ Len(a) = Len(s) + 1 /\ a[Len(s) + 1] = r.bytes
        /\ \A i \in 1..Len(s) : a[i] = p[i]
    BY <1>6, <2>1, AppendProperties
  <2>3. DOMAIN a = 1..(Len(s) + 1) /\ a = [i \in 1..(Len(s) + 1) |-> a[i]]
    BY <1>4, <2>2
  <2> HIDE DEF a
  <2>4. ASSUME NEW i \in 1..(Len(s) + 1) PROVE q[i] = a[i]
    <3>1. CASE i = Len(s) + 1
      BY <1>4, <1>7, <2>2, <3>1
    <3>2. CASE i # Len(s) + 1
      <4>1. i \in 1..Len(s)
        BY <1>4, <3>2
      <4> QED
        BY <1>4, <1>5, <1>7, <2>2, <4>1
    <3> QED
      BY <3>1, <3>2
  <2>5. q = [i \in 1..(Len(s) + 1) |-> q[i]]
    BY <1>7 DEF q
  <2> QED
    BY <2>3, <2>4, <2>5 DEF a
<1> HIDE DEF p, q
<1>9. FlattenSeq(Append(p, r.bytes)) = FlattenSeq(p) \o r.bytes
  BY <1>1, <1>2, FlattenSeqAppend
<1> QED
  BY <1>8, <1>9 DEF Plain, p, q, t

LEMMA PlainConcat ==
  ASSUME NEW S, NEW s \in Seq(Record(S)), NEW t \in Seq(Record(S))
  PROVE  Plain(s \o t) = Plain(s) \o Plain(t)
<1> DEFINE R == Record(S)
           u == s \o t
           p == [i \in DOMAIN s |-> s[i].bytes]
           q == [i \in DOMAIN t |-> t[i].bytes]
           w == [i \in DOMAIN u |-> u[i].bytes]
           m == Len(s)
           n == Len(t)
<1>1. p \in Seq(Seq(S)) /\ q \in Seq(Seq(S))
  BY PiecesTyped
<1> HIDE DEF R
<1>2. s \in Seq(R) /\ t \in Seq(R)
  BY DEF R
<1>3. /\ m \in Nat /\ n \in Nat /\ DOMAIN s = 1..m /\ DOMAIN t = 1..n
  BY <1>2
<1>4. /\ u \in Seq(R) /\ Len(u) = m + n
      /\ \A i \in 1..(m + n) : u[i] = IF i <= m THEN s[i] ELSE t[i - m]
  BY <1>2, ConcatProperties
<1> HIDE DEF u
<1>5. DOMAIN u = 1..(m + n)
  BY <1>4
<1> HIDE DEF m, n
<1>6. DOMAIN p = 1..m /\ (\A i \in 1..m : p[i] = s[i].bytes) /\ DOMAIN q = 1..n
      /\ (\A i \in 1..n : q[i] = t[i].bytes) /\ DOMAIN w = 1..(m + n)
      /\ \A i \in 1..(m + n) : w[i] = u[i].bytes
  BY <1>3, <1>5
<1>7. Len(p) = m /\ Len(q) = n
  BY <1>1, <1>3, <1>6
<1>8. w = p \o q
  <2> DEFINE a == p \o q
             P == Seq(S)
  <2>1. p \in Seq(P) /\ q \in Seq(P)
    BY <1>1
  <2>5. w = [i \in 1..(m + n) |-> w[i]]
    BY <1>5
  <2> HIDE DEF p, q, P, w
  <2>2. /\ a \in Seq(P) /\ Len(a) = m + n
        /\ \A i \in 1..(m + n) : a[i] = IF i <= m THEN p[i] ELSE q[i - m]
    BY <1>7, <2>1, ConcatProperties
  <2> HIDE DEF a
  <2>3. a = [i \in 1..(m + n) |-> a[i]]
    BY <1>3, <2>2
  <2>4. ASSUME NEW i \in 1..(m + n) PROVE w[i] = a[i]
    <3>1. CASE i <= m
      <4>1. i \in 1..m
        BY <1>3, <3>1
      <4>2. u[i] = s[i] /\ a[i] = p[i]
        BY <1>4, <2>2, <3>1
      <4> QED
        BY <1>6, <4>1, <4>2
    <3>2. CASE ~(i <= m)
      <4>1. i - m \in 1..n
        BY <1>3, <3>2
      <4>2. u[i] = t[i - m] /\ a[i] = q[i - m]
        BY <1>4, <2>2, <3>2
      <4> QED
        BY <1>6, <4>1, <4>2
    <3> QED
      BY <3>1, <3>2
  <2> QED
    BY <2>3, <2>4, <2>5 DEF a
<1> HIDE DEF p, q, w
<1>9. FlattenSeq(p \o q) = FlattenSeq(p) \o FlattenSeq(q)
  BY <1>1, FlattenSeqConcat
<1> QED
  BY <1>8, <1>9 DEF Plain, p, q, w, u

LEMMA PlainTail ==
  ASSUME NEW S, NEW s \in Seq(Record(S)), s # <<>>
  PROVE  /\ Head(s) \in Record(S) /\ Tail(s) \in Seq(Record(S))
         /\ Plain(s) = Head(s).bytes \o Plain(Tail(s))
<1> DEFINE R == Record(S)
           h == Head(s)
           t == Tail(s)
           one == <<h>>
<1> HIDE DEF R
<1>0. s \in Seq(R)
  BY DEF R
<1>1. h \in R /\ t \in Seq(R) /\ s = one \o t /\ one \in Seq(R)
  BY <1>0
<1> HIDE DEF h, t
<1>2. Plain(one \o t) = Plain(one) \o Plain(t)
  <2> HIDE DEF one
  <2> QED
    BY <1>1, PlainConcat DEF R
<1>3. Plain(one) = h.bytes
  <2>1. one = Append(<<>>, h)
    OBVIOUS
  <2>2. <<>> \in Seq(Record(S)) /\ h \in Record(S)
    BY <1>1 DEF R
  <2>3. Plain(Append(<<>>, h)) = Plain(<<>>) \o h.bytes
    BY <2>2, PlainAppend
  <2>4. h.bytes \in Seq(S)
    BY <2>2 DEF Record
  <2>5. <<>> \o h.bytes = h.bytes
    BY <2>4, ConcatSimplifications
  <2> HIDE DEF one
  <2> QED
    BY <2>1, <2>3, <2>5, PlainEmpty
<1> HIDE DEF one
<1>4. Plain(s) = h.bytes \o Plain(t)
  BY <1>1, <1>2, <1>3
<1> QED
  BY <1>1, <1>4 DEF R, h, t

-----------------------------------------------------------------------------
(* process_new_packets *)

Conn == [tls : BOOLEAN, up : BOOLEAN, held : Seq(Nat), sendable : Seq(Record(Nat)),
         received : Seq(Byte), closed : BOOLEAN]

(* What a peer sends: bytes in data records only, and no flight. *)
PeerRecord == {r \in Record(Byte) : r.t # "flight" /\ (r.t # "data" => r.bytes = <<>>)}

NoClose(s) == \A i \in 1..Len(s) : s[i].t # "close"

(* c has become d: plaintext held is sent when the handshake is over, the
   rest stays. *)
Onward(c, d) ==
  /\ d \in Conn /\ d.tls = c.tls /\ (c.up => d.up) /\ (d.up => d.held = <<>>)
  /\ d.held \in {c.held, <<>>}
  /\ Plain(d.sendable) \o d.held = Plain(c.sendable) \o c.held
  /\ NoClose(c.sendable) => NoClose(d.sendable)

LEMMA NoCloseAppend ==
  ASSUME NEW s \in Seq(Record(Nat)), NEW r \in Record(Nat), r.t # "close", NoClose(s)
  PROVE  NoClose(Append(s, r))
<1> DEFINE R == Record(Nat)
           t == Append(s, r)
<1> HIDE DEF R
<1>1. s \in Seq(R) /\ r \in R
  BY DEF R
<1>2. Len(s) \in Nat /\ Len(t) = Len(s) + 1 /\ t[Len(s) + 1] = r /\ \A i \in 1..Len(s) : t[i] = s[i]
  BY <1>1, AppendProperties
<1> HIDE DEF t
<1>3. ASSUME NEW i \in 1..(Len(s) + 1) PROVE t[i].t # "close"
  <2>1. CASE i = Len(s) + 1
    BY <1>2, <2>1
  <2>2. CASE i # Len(s) + 1
    <3>1. i \in 1..Len(s)
      BY <1>2, <2>2
    <3> QED
      BY <1>2, <3>1 DEF NoClose
  <2> QED
    BY <2>1, <2>2
<1> QED
  BY <1>2, <1>3 DEF NoClose, t

(* One record *)
LEMMA ReceiveOne ==
  ASSUME NEW c \in Conn, c.up => c.held = <<>>, NEW r \in PeerRecord
  PROVE  /\ Onward(c, Receive(c, r))
         /\ Receive(c, r).received = c.received \o r.bytes
         /\ c.up /\ r.t # "hello" => Receive(c, r).sendable = c.sendable
         /\ Receive(c, r).closed => c.closed \/ r.t = "close"
<1> DEFINE d == Receive(c, r)
<1>0. /\ c.held \in Seq(Nat) /\ c.sendable \in Seq(Record(Nat)) /\ c.received \in Seq(Byte)
      /\ r.t \in {"hello", "finished", "data", "close"} /\ r.bytes \in Seq(Byte)
      /\ (r.t # "data" => r.bytes = <<>>)
  BY DEF Conn, PeerRecord, Record, Kind
<1>1. c.received \o <<>> = c.received
  BY <1>0, ConcatSimplifications
<1>2. Plain(c.sendable) \in Seq(Nat)
  BY <1>0, PlainTyped
<1>3. <<>> \in Seq(Nat)
  OBVIOUS
<1>4. Plain(c.sendable) \o <<>> = Plain(c.sendable)
  BY <1>2, ConcatSimplifications
<1>5. CASE r.t = "hello"
  <2> DEFINE f == Rec("flight")
             s == Append(c.sendable, f)
  <2>1. f \in Record(Nat) /\ f.bytes = <<>> /\ f.t = "flight"
    BY <1>3 DEF Rec, Record, Kind
  <2>2. d = [c EXCEPT !.sendable = s]
    BY <1>5 DEF Receive
  <2> HIDE DEF d, f
  <2>3. s \in Seq(Record(Nat)) /\ Plain(s) = Plain(c.sendable)
    <3>1. Plain(s) = Plain(c.sendable) \o f.bytes
      BY <1>0, <2>1, PlainAppend
    <3>2. s \in Seq(Record(Nat))
      <4> DEFINE R == Record(Nat)
      <4> HIDE DEF R
      <4>1. c.sendable \in Seq(R) /\ f \in R
        BY <1>0, <2>1 DEF R
      <4>2. s \in Seq(R)
        BY <4>1, AppendProperties
      <4> QED
        BY <4>2 DEF R
    <3> QED
      BY <1>4, <2>1, <3>1, <3>2
  <2>4. NoClose(c.sendable) => NoClose(s)
    BY <1>0, <2>1, NoCloseAppend
  <2> HIDE DEF s
  <2>5. /\ d \in Conn /\ d.tls = c.tls /\ d.up = c.up /\ d.held = c.held /\ d.sendable = s
        /\ d.received = c.received /\ d.closed = c.closed
    BY <2>2, <2>3 DEF Conn
  <2> QED
    BY <1>0, <1>1, <1>5, <2>3, <2>4, <2>5 DEF Onward, d
<1>6. CASE r.t = "finished"
  <2> DEFINE f == Data(c.held)
             s == IF c.held = <<>> THEN c.sendable ELSE Append(c.sendable, f)
  <2>1. f \in Record(Nat) /\ f.bytes = c.held /\ f.t = "data"
    BY <1>0 DEF Data, Record, Kind
  <2>2. d = [c EXCEPT !.up = TRUE, !.held = <<>>, !.sendable = s]
    BY <1>6 DEF Receive
  <2> HIDE DEF d, f
  <2>3. s \in Seq(Record(Nat)) /\ Plain(s) = Plain(c.sendable) \o c.held
    <3>1. CASE c.held = <<>>
      BY <1>0, <1>4, <3>1
    <3>2. CASE c.held # <<>>
      <4>0. s = Append(c.sendable, f)
        BY <3>2
      <4>1. Plain(Append(c.sendable, f)) = Plain(c.sendable) \o f.bytes
        BY <1>0, <2>1, PlainAppend
      <4>2. s \in Seq(Record(Nat))
        <5> DEFINE R == Record(Nat)
        <5> HIDE DEF R, s
        <5>1. c.sendable \in Seq(R) /\ f \in R
          BY <1>0, <2>1 DEF R
        <5>2. Append(c.sendable, f) \in Seq(R)
          BY <5>1, AppendProperties
        <5> QED
          BY <4>0, <5>2 DEF R
      <4> HIDE DEF s
      <4> QED
        BY <2>1, <4>0, <4>1, <4>2
    <3> QED
      BY <3>1, <3>2
  <2>4. NoClose(c.sendable) => NoClose(s)
    BY <1>0, <2>1, NoCloseAppend
  <2>6. c.up => s = c.sendable
    OBVIOUS
  <2> HIDE DEF s
  <2>7. Plain(s) \o <<>> = Plain(s)
    <3>1. Plain(s) \in Seq(Nat)
      BY <2>3, PlainTyped
    <3> QED
      BY <3>1, ConcatSimplifications
  <2>5. /\ d \in Conn /\ d.tls = c.tls /\ d.up = TRUE /\ d.held = <<>> /\ d.sendable = s
        /\ d.received = c.received /\ d.closed = c.closed
    BY <1>3, <2>2, <2>3 DEF Conn
  <2> QED
    BY <1>0, <1>1, <1>6, <2>3, <2>4, <2>5, <2>6, <2>7 DEF Onward, d
<1>7. CASE r.t = "data"
  <2> DEFINE b == c.received \o r.bytes
  <2>1. b \in Seq(Byte)
    BY <1>0, ConcatProperties
  <2>2. d = [c EXCEPT !.received = b]
    BY <1>7 DEF Receive
  <2> HIDE DEF d, b
  <2>3. /\ d \in Conn /\ d.tls = c.tls /\ d.up = c.up /\ d.held = c.held /\ d.sendable = c.sendable
        /\ d.received = b /\ d.closed = c.closed
    BY <2>1, <2>2 DEF Conn
  <2> QED
    BY <2>3 DEF Onward, b, d
<1>8. CASE r.t = "close"
  <2>2. d = [c EXCEPT !.closed = TRUE]
    BY <1>8 DEF Receive
  <2> HIDE DEF d
  <2>3. /\ d \in Conn /\ d.tls = c.tls /\ d.up = c.up /\ d.held = c.held /\ d.sendable = c.sendable
        /\ d.received = c.received
    BY <2>2 DEF Conn
  <2> QED
    BY <1>0, <1>1, <1>8, <2>3 DEF Onward, d
<1> QED
  BY <1>0, <1>5, <1>6, <1>7, <1>8

LEMMA PrefixStep ==
  ASSUME NEW S, NEW s \in Seq(S), NEW n \in Nat, n + 1 <= Len(s)
  PROVE  /\ SubSeq(s, 1, n) \in Seq(S) /\ s[n + 1] \in S
         /\ SubSeq(s, 1, n + 1) = Append(SubSeq(s, 1, n), s[n + 1])
<1> DEFINE u == SubSeq(s, 1, n)
           v == SubSeq(s, 1, n + 1)
           w == Append(u, s[n + 1])
<1>1. Len(s) \in Nat /\ s[n + 1] \in S
  OBVIOUS
<1>2. u \in Seq(S) /\ Len(u) = n /\ \A i \in 1..n : u[i] = s[i]
  BY <1>1
<1>3. v \in Seq(S) /\ Len(v) = n + 1 /\ \A i \in 1..(n + 1) : v[i] = s[i]
  BY <1>1
<1> HIDE DEF u, v
<1>4. w \in Seq(S) /\ Len(w) = n + 1 /\ \A i \in 1..(n + 1) : w[i] = s[i]
  BY <1>1, <1>2
<1> HIDE DEF w
<1>5. v = w
  BY <1>3, <1>4, SeqEqual
<1> QED
  BY <1>1, <1>2, <1>5 DEF u, v, w

(* f takes the connection through the records. *)
Receives(f, conn, records) ==
  f = [i \in 0..Len(records) |-> IF i = 0 THEN conn ELSE Receive(f[i - 1], records[i])]

LEMMA ReceivesExists ==
  ASSUME NEW conn, NEW S, NEW s \in Seq(S)
  PROVE  \E f : Receives(f, conn, s)
<1> DEFINE Upto(f, n) == f = [i \in 0..n |-> IF i = 0 THEN conn ELSE Receive(f[i - 1], s[i])]
           T == {n \in Nat : \E f : Upto(f, n)}
<1>1. 0 \in T
  <2> DEFINE f == [i \in 0..0 |-> conn]
  <2>1. f = [i \in 0..0 |-> IF i = 0 THEN conn ELSE Receive(f[i - 1], s[i])]
    OBVIOUS
  <2>2. Upto(f, 0)
    BY <2>1
  <2> HIDE DEF Upto
  <2> QED
    BY <2>2
<1>2. ASSUME NEW n \in Nat, n \in T PROVE n + 1 \in T
  <2>1. PICK f : Upto(f, n)
    BY <1>2
  <2> DEFINE g == [i \in 0..(n + 1) |-> IF i = n + 1 THEN Receive(f[i - 1], s[i]) ELSE f[i]]
  <2>2. \A i \in 0..n : g[i] = f[i]
    OBVIOUS
  <2>3. \A i \in 0..n : f[i] = IF i = 0 THEN conn ELSE Receive(f[i - 1], s[i])
    BY <2>1
  <2>4. ASSUME NEW i \in 0..(n + 1) PROVE g[i] = IF i = 0 THEN conn ELSE Receive(g[i - 1], s[i])
    <3>1. CASE i = n + 1
      <4>1. i # 0 /\ i - 1 \in 0..n
        BY <3>1
      <4>2. g[i] = Receive(f[i - 1], s[i])
        BY <3>1
      <4> HIDE DEF g
      <4> QED
        BY <2>2, <4>1, <4>2
    <3>2. CASE i # n + 1
      <4>1. i \in 0..n /\ (i # 0 => i - 1 \in 0..n)
        BY <3>2
      <4> HIDE DEF g
      <4> QED
        BY <2>2, <2>3, <4>1
    <3> QED
      BY <3>1, <3>2
  <2>5. g = [i \in 0..(n + 1) |-> g[i]]
    OBVIOUS
  <2> HIDE DEF g
  <2>6. Upto(g, n + 1)
    BY <2>4, <2>5
  <2>7. n + 1 \in Nat
    OBVIOUS
  <2> HIDE DEF Upto
  <2> QED
    BY <2>6, <2>7
<1> HIDE DEF T
<1>3. \A n \in Nat : n \in T
  BY <1>1, <1>2, SetInduction
<1>4. Len(s) \in T
  BY <1>3
<1> QED
  BY <1>4 DEF T, Receives

(* All the records of one read_tls *)
LEMMA ReceiveAllOnward ==
  ASSUME NEW c \in Conn, c.up => c.held = <<>>, NEW s \in Seq(PeerRecord)
  PROVE  /\ Onward(c, ReceiveAll(c, s))
         /\ ReceiveAll(c, s).received = c.received \o Plain(s)
         /\ c.up /\ (\A i \in 1..Len(s) : s[i].t # "hello") =>
              ReceiveAll(c, s).sendable = c.sendable
         /\ ReceiveAll(c, s).closed => c.closed \/ \E i \in 1..Len(s) : s[i].t = "close"
<1> DEFINE f == CHOOSE f : Receives(f, c, s)
           N == Len(s)
           Pre(n) == SubSeq(s, 1, n)
           Quiet(n) == c.up /\ (\A i \in 1..n : s[i].t # "hello")
           Closes(n) == c.closed \/ \E i \in 1..n : s[i].t = "close"
           Q(n) == /\ Onward(c, f[n]) /\ f[n].received = c.received \o Plain(Pre(n))
                   /\ Quiet(n) => f[n].sendable = c.sendable
                   /\ f[n].closed => Closes(n)
           T == {n \in Nat : n <= N => Q(n)}
<1>1. Receives(f, c, s)
  BY ReceivesExists
<1>2. ReceiveAll(c, s) = f[N]
  BY DEF ReceiveAll, Receives
<1> HIDE DEF f
<1>3. N \in Nat
  OBVIOUS
<1>4. \A i \in 0..N : f[i] = IF i = 0 THEN c ELSE Receive(f[i - 1], s[i])
  BY <1>1 DEF Receives
<1>5. \A n \in Nat : n + 1 <= N =>
        Pre(n) \in Seq(PeerRecord) /\ s[n + 1] \in PeerRecord /\ Pre(n + 1) = Append(Pre(n), s[n + 1])
  BY PrefixStep
<1>6. \A r \in PeerRecord : r \in Record(Byte)
  BY DEF PeerRecord
<1>7. Pre(0) = <<>> /\ Pre(N) = s
  BY SubSeqEmpty, SubSeqFull
<1> HIDE DEF N, Pre
<1>8. 0 \in T
  <2>1. f[0] = c
    BY <1>3, <1>4
  <2>2. c.received \o <<>> = c.received
    <3>1. c.received \in Seq(Byte)
      BY DEF Conn
    <3> QED
      BY <3>1, ConcatSimplifications
  <2>3. Onward(c, c)
    BY DEF Onward
  <2> QED
    BY <1>7, <2>1, <2>2, <2>3, PlainEmpty
<1>9. ASSUME NEW n \in Nat, n \in T PROVE n + 1 \in T
  <2> HIDE DEF Q
  <2> SUFFICES ASSUME n + 1 <= N PROVE Q(n + 1)
    OBVIOUS
  <2>1. n <= N /\ n + 1 \in 0..N /\ n + 1 # 0 /\ (n + 1) - 1 = n
    BY <1>3
  <2>2. Q(n)
    BY <1>9, <2>1
  <2> DEFINE d == f[n]
             e == f[n + 1]
             r == s[n + 1]
  <2>3. e = Receive(d, r)
    BY <1>4, <2>1
  <2>4. Pre(n) \in Seq(PeerRecord) /\ r \in PeerRecord /\ Pre(n + 1) = Append(Pre(n), r)
    BY <1>5
  <2>5. Onward(c, d) /\ d.received = c.received \o Plain(Pre(n)) /\ (Quiet(n) => d.sendable = c.sendable)
        /\ (d.closed => Closes(n))
    BY <2>2 DEF Q
  <2> HIDE DEF d, e, r
  <2>6. d \in Conn /\ (d.up => d.held = <<>>)
    BY <2>5 DEF Onward
  <2>7. /\ Onward(d, e) /\ e.received = d.received \o r.bytes
        /\ d.up /\ r.t # "hello" => e.sendable = d.sendable
        /\ e.closed => d.closed \/ r.t = "close"
    BY <2>3, <2>4, <2>6, ReceiveOne
  <2>8. Onward(c, e)
    BY <2>5, <2>7 DEF Onward
  <2>9. e.received = c.received \o Plain(Pre(n + 1))
    <3>0. Pre(n) \in Seq(Record(Byte)) /\ r \in Record(Byte)
      BY <1>6, <2>4, WiderSeq
    <3>1. Plain(Append(Pre(n), r)) = Plain(Pre(n)) \o r.bytes
      BY <3>0, PlainAppend
    <3>2. c.received \in Seq(Byte)
      BY DEF Conn
    <3>3. Plain(Pre(n)) \in Seq(Byte)
      BY <3>0, PlainTyped
    <3>4. r.bytes \in Seq(Byte)
      BY <3>0 DEF Record
    <3> DEFINE p == Plain(Pre(n))
               b == r.bytes
               a == c.received
    <3>5. a \in Seq(Byte) /\ p \in Seq(Byte) /\ b \in Seq(Byte)
      BY <3>2, <3>3, <3>4
    <3> HIDE DEF p, b, a
    <3>6. (a \o p) \o b = a \o (p \o b)
      BY <3>5, ThreePieces
    <3> QED
      BY <2>4, <2>5, <2>7, <3>1, <3>6 DEF a, b, p
  <2>10. Quiet(n + 1) => e.sendable = c.sendable
    <3> SUFFICES ASSUME Quiet(n + 1) PROVE e.sendable = c.sendable
      OBVIOUS
    <3>1. Quiet(n) /\ r.t # "hello"
      <4>1. n + 1 \in 1..(n + 1) /\ \A i \in 1..n : i \in 1..(n + 1)
        OBVIOUS
      <4> QED
        BY <4>1 DEF r
    <3>2. d.up
      BY <2>5 DEF Onward
    <3> QED
      BY <2>5, <2>7, <3>1, <3>2
  <2>11. e.closed => Closes(n + 1)
    <3>1. n + 1 \in 1..(n + 1) /\ \A i \in 1..n : i \in 1..(n + 1)
      OBVIOUS
    <3> QED
      BY <2>5, <2>7, <3>1 DEF r
  <2> QED
    BY <2>8, <2>9, <2>10, <2>11 DEF Q, e
<1>10. \A n \in Nat : n \in T
  <2> HIDE DEF T
  <2> QED
    BY <1>8, <1>9, SetInduction
<1>11. Q(N)
  BY <1>3, <1>10
<1> QED
  BY <1>2, <1>7, <1>11 DEF N

-----------------------------------------------------------------------------
(* Units and their contents *)

LEMMA ContentsTyped ==
  ASSUME NEW S, NEW rs \in Seq(S), NEW us, NEW n \in Nat, us \in [1..n -> 1..Len(rs)]
  PROVE  /\ Contents(rs, us) \in Seq(S) /\ Len(Contents(rs, us)) = n
         /\ \A i \in 1..n : Contents(rs, us)[i] = rs[us[i]]
<1> DEFINE c == Contents(rs, us)
<1>1. c = [i \in 1..n |-> rs[us[i]]]
  BY DEF Contents
<1>2. \A i \in 1..n : rs[us[i]] \in S
  OBVIOUS
<1> HIDE DEF c
<1>3. c \in [1..n -> S]
  BY <1>1, <1>2
<1>4. c \in Seq(S) /\ Len(c) = n
  BY <1>3
<1> QED
  BY <1>1, <1>4 DEF c

(* Every record, in its place *)
LEMMA ContentsAll ==
  ASSUME NEW S, NEW rs \in Seq(S)
  PROVE  Contents(rs, [i \in 1..Len(rs) |-> i]) = rs
<1> DEFINE us == [i \in 1..Len(rs) |-> i]
<1>1. DOMAIN us = 1..Len(rs) /\ \A i \in 1..Len(rs) : us[i] = i
  OBVIOUS
<1>2. rs = [i \in 1..Len(rs) |-> rs[i]]
  OBVIOUS
<1> HIDE DEF us
<1>3. Contents(rs, us) = [i \in 1..Len(rs) |-> rs[i]]
  BY <1>1 DEF Contents
<1> QED
  BY <1>2, <1>3 DEF us

(* The numbers n + 1 to n + m *)
Units(n, m) == [i \in 1..m |-> n + i]

LEMMA UnitsTyped ==
  ASSUME NEW n \in Nat, NEW m \in Nat
  PROVE  Units(n, m) \in Seq(Nat) /\ Len(Units(n, m)) = m /\ \A i \in 1..m : Units(n, m)[i] = n + i
<1>1. Units(n, m) \in [1..m -> Nat] /\ \A i \in 1..m : Units(n, m)[i] = n + i
  BY DEF Units
<1> QED
  BY <1>1

(* A front and a rest of such numbers *)
Splits(a, b, n, m) ==
  /\ Len(a) \in Nat /\ Len(a) <= m
  /\ a = Units(n, Len(a)) /\ b = Units(n + Len(a), m - Len(a))

LEMMA UnitsSplit ==
  ASSUME NEW S, NEW a \in Seq(S), NEW b \in Seq(S), NEW n \in Nat, NEW m \in Nat,
         a \o b = Units(n, m)
  PROVE  Splits(a, b, n, m)
<1> DEFINE p == Len(a)
           q == Len(b)
           ab == a \o b
<1>1. p \in Nat /\ q \in Nat /\ Len(ab) = p + q /\ a = [i \in 1..p |-> a[i]] /\ b = [i \in 1..q |-> b[i]]
      /\ \A i \in 1..(p + q) : ab[i] = IF i <= p THEN a[i] ELSE b[i - p]
  BY ConcatProperties
<1>2. Len(ab) = m /\ \A i \in 1..m : ab[i] = n + i
  BY UnitsTyped
<1> HIDE DEF ab, p, q
<1>3. m = p + q /\ p <= m /\ m - p = q
  BY <1>1, <1>2
<1>4. ASSUME NEW i \in 1..p PROVE a[i] = n + i
  <2>1. i \in 1..m /\ i \in 1..(p + q) /\ i <= p
    BY <1>1, <1>3
  <2> QED
    BY <1>1, <1>2, <2>1
<1>5. ASSUME NEW i \in 1..q PROVE b[i] = (n + p) + i
  <2>1. p + i \in 1..m /\ p + i \in 1..(p + q) /\ ~(p + i <= p) /\ (p + i) - p = i
        /\ n + (p + i) = (n + p) + i
    <3>1. p \in Nat /\ q \in Nat /\ m = p + q
      BY <1>1, <1>3
    <3> QED
      BY <3>1
  <2>2. ab[p + i] = b[i]
    BY <1>1, <2>1
  <2>3. ab[p + i] = n + (p + i)
    BY <1>2, <2>1
  <2> QED
    BY <2>1, <2>2, <2>3
<1>6. a = Units(n, p)
  BY <1>1, <1>4 DEF Units
<1>7. b = Units(n + p, m - p)
  BY <1>1, <1>3, <1>5 DEF Units
<1> QED
  BY <1>1, <1>3, <1>6, <1>7 DEF p, Splits

LEMMA UnitsJoin ==
  ASSUME NEW n \in Nat, NEW m \in Nat, NEW l \in Nat
  PROVE  Units(n, m) \o Units(n + m, l) = Units(n, m + l)
<1> DEFINE a == Units(n, m)
           b == Units(n + m, l)
           ab == a \o b
           c == Units(n, m + l)
<1>0. n + m \in Nat /\ m + l \in Nat
  OBVIOUS
<1>1. a \in Seq(Nat) /\ Len(a) = m /\ \A i \in 1..m : a[i] = n + i
  BY UnitsTyped
<1>2. b \in Seq(Nat) /\ Len(b) = l /\ \A i \in 1..l : b[i] = (n + m) + i
  BY <1>0, UnitsTyped
<1>3. c \in Seq(Nat) /\ Len(c) = m + l /\ \A i \in 1..(m + l) : c[i] = n + i
  BY <1>0, UnitsTyped
<1> HIDE DEF a, b, c
<1>4. ab \in Seq(Nat) /\ Len(ab) = m + l
      /\ \A i \in 1..(m + l) : ab[i] = IF i <= m THEN a[i] ELSE b[i - m]
  BY <1>1, <1>2, ConcatProperties
<1> HIDE DEF ab
<1>5. ASSUME NEW i \in 1..(m + l) PROVE ab[i] = c[i]
  <2>0. c[i] = n + i
    BY <1>3
  <2>1. CASE i <= m
    <3>1. i \in 1..m
      BY <2>1
    <3> QED
      BY <1>1, <1>4, <2>0, <2>1, <3>1
  <2>2. CASE ~(i <= m)
    <3>1. i - m \in 1..l /\ (n + m) + (i - m) = n + i
      BY <2>2
    <3>2. ab[i] = b[i - m]
      BY <1>4, <2>2
    <3>3. b[i - m] = (n + m) + (i - m)
      BY <1>2, <3>1
    <3> QED
      BY <2>0, <3>1, <3>2, <3>3
  <2> QED
    BY <2>1, <2>2
<1>6. ab = c
  BY <1>3, <1>4, <1>5, SeqEqual
<1> QED
  BY <1>6 DEF a, b, ab, c

(* The records of the units n + 1 to n + m *)
LEMMA ContentsUnits ==
  ASSUME NEW S, NEW rs \in Seq(S), NEW n \in Nat, NEW m \in Nat, n + m <= Len(rs)
  PROVE  /\ Contents(rs, Units(n, m)) \in Seq(S) /\ Len(Contents(rs, Units(n, m))) = m
         /\ \A i \in 1..m : Contents(rs, Units(n, m))[i] = rs[n + i]
<1> DEFINE us == Units(n, m)
<1>0. Len(rs) \in Nat
  OBVIOUS
<1>1. DOMAIN us = 1..m /\ (\A i \in 1..m : us[i] = n + i)
  BY DEF Units
<1>2. us \in [1..m -> 1..Len(rs)]
  <2>1. \A i \in 1..m : n + i \in 1..Len(rs)
    BY <1>0
  <2> QED
    BY <2>1 DEF Units
<1> HIDE DEF us
<1>3. /\ Contents(rs, us) \in Seq(S) /\ Len(Contents(rs, us)) = m
      /\ \A i \in 1..m : Contents(rs, us)[i] = rs[us[i]]
  BY <1>2, ContentsTyped
<1> QED
  BY <1>1, <1>3 DEF us

InTwo(rs, n, m, l) ==
  Contents(rs, Units(n, m + l)) = Contents(rs, Units(n, m)) \o Contents(rs, Units(n + m, l))

LEMMA ContentsSplit ==
  ASSUME NEW S, NEW rs \in Seq(S), NEW n \in Nat, NEW m \in Nat, NEW l \in Nat, n + (m + l) <= Len(rs)
  PROVE  InTwo(rs, n, m, l)
<1> DEFINE a == Contents(rs, Units(n, m))
           b == Contents(rs, Units(n + m, l))
           c == Contents(rs, Units(n, m + l))
           ab == a \o b
<1>0. n + m \in Nat /\ m + l \in Nat /\ Len(rs) \in Nat
  OBVIOUS
<1>1. a \in Seq(S) /\ Len(a) = m /\ \A i \in 1..m : a[i] = rs[n + i]
  <2>1. n + m <= Len(rs)
    BY <1>0
  <2> QED
    BY <2>1, ContentsUnits
<1>2. b \in Seq(S) /\ Len(b) = l /\ \A i \in 1..l : b[i] = rs[(n + m) + i]
  <2>1. (n + m) + l <= Len(rs)
    BY <1>0
  <2> QED
    BY <1>0, <2>1, ContentsUnits
<1>3. c \in Seq(S) /\ Len(c) = m + l /\ \A i \in 1..(m + l) : c[i] = rs[n + i]
  BY <1>0, ContentsUnits
<1> HIDE DEF a, b, c
<1>4. ab \in Seq(S) /\ Len(ab) = m + l
      /\ \A i \in 1..(m + l) : ab[i] = IF i <= m THEN a[i] ELSE b[i - m]
  <2>1. a \in Seq(S) /\ b \in Seq(S)
    BY <1>1, <1>2
  <2>2. ab \in Seq(S) /\ Len(ab) = Len(a) + Len(b)
    BY <2>1, ConcatProperties
  <2>3. \A i \in 1..(Len(a) + Len(b)) : ab[i] = IF i <= Len(a) THEN a[i] ELSE b[i - Len(a)]
    BY <2>1, ConcatProperties
  <2>4. Len(a) = m /\ Len(b) = l
    BY <1>1, <1>2
  <2> HIDE DEF ab
  <2> QED
    BY <2>2, <2>3, <2>4
<1> HIDE DEF ab
<1>5. ASSUME NEW i \in 1..(m + l) PROVE ab[i] = c[i]
  <2>0. c[i] = rs[n + i]
    BY <1>3
  <2>1. CASE i <= m
    <3>1. i \in 1..m
      BY <2>1
    <3> QED
      BY <1>1, <1>4, <2>0, <2>1, <3>1
  <2>2. CASE ~(i <= m)
    <3>1. i - m \in 1..l /\ (n + m) + (i - m) = n + i
      BY <2>2
    <3>2. ab[i] = b[i - m]
      BY <1>4, <2>2
    <3>3. b[i - m] = rs[(n + m) + (i - m)]
      BY <1>2, <3>1
    <3> QED
      BY <2>0, <3>1, <3>2, <3>3
  <2> QED
    BY <2>1, <2>2
<1>6. ab = c
  BY <1>3, <1>4, <1>5, SeqEqual
<1> QED
  BY <1>6 DEF a, b, ab, c, InTwo

(* One more record, and the unit for it *)
Grown(rs, r, n, m) == Contents(Append(rs, r), Units(n, m + 1)) = Append(Contents(rs, Units(n, m)), r)

LEMMA ContentsAppend ==
  ASSUME NEW S, NEW rs \in Seq(S), NEW r \in S, NEW n \in Nat, NEW m \in Nat, n + m = Len(rs)
  PROVE  Grown(rs, r, n, m)
<1> DEFINE t == Append(rs, r)
           a == Contents(rs, Units(n, m))
           c == Contents(t, Units(n, m + 1))
           d == Append(a, r)
<1>1. t \in Seq(S) /\ Len(t) = Len(rs) + 1 /\ t[Len(rs) + 1] = r /\ \A i \in 1..Len(rs) : t[i] = rs[i]
  BY AppendProperties
<1>0. n + m <= Len(rs) /\ Len(rs) \in Nat /\ m + 1 \in Nat
  OBVIOUS
<1>2. a \in Seq(S) /\ Len(a) = m /\ \A i \in 1..m : a[i] = rs[n + i]
  BY <1>0, ContentsUnits
<1> HIDE DEF t
<1>3. c \in Seq(S) /\ Len(c) = m + 1 /\ \A i \in 1..(m + 1) : c[i] = t[n + i]
  <2>1. n + (m + 1) <= Len(t)
    BY <1>0, <1>1
  <2>2. t \in Seq(S)
    BY <1>1
  <2> DEFINE l == m + 1
  <2>3. l \in Nat /\ n + l <= Len(t)
    BY <2>1
  <2> HIDE DEF l
  <2>4. /\ Contents(t, Units(n, l)) \in Seq(S) /\ Len(Contents(t, Units(n, l))) = l
        /\ \A i \in 1..l : Contents(t, Units(n, l))[i] = t[n + i]
    BY <2>2, <2>3, ContentsUnits
  <2> QED
    BY <2>4 DEF l
<1> HIDE DEF a, c
<1>4. d \in Seq(S) /\ Len(d) = m + 1 /\ d[m + 1] = r /\ \A i \in 1..m : d[i] = a[i]
  BY <1>2, AppendProperties
<1> HIDE DEF d
<1>5. ASSUME NEW i \in 1..(m + 1) PROVE c[i] = d[i]
  <2>0. c[i] = t[n + i]
    BY <1>3
  <2>1. CASE i = m + 1
    <3>1. n + i = Len(rs) + 1
      BY <2>1
    <3> QED
      BY <1>1, <1>4, <2>0, <2>1, <3>1
  <2>2. CASE i # m + 1
    <3>1. i \in 1..m /\ n + i \in 1..Len(rs)
      BY <1>0, <2>2
    <3>2. t[n + i] = rs[n + i]
      BY <1>1, <3>1
    <3> QED
      BY <1>2, <1>4, <2>0, <3>1, <3>2
  <2> QED
    BY <2>1, <2>2
<1>6. c = d
  BY <1>3, <1>4, <1>5, SeqEqual
<1> QED
  BY <1>6 DEF a, c, d, t, Grown


-----------------------------------------------------------------------------
(* The invariant.  The units of both directions are numbered one after the
   other, and every plain byte is in one place. *)

Pending == Unread(ib) \o k.rbuf

Carried(c) == Plain(c.sendable) \o c.held

TlsTypeOK ==
  /\ out \in Seq(Nat) /\ wire \in Seq(Nat) /\ written \in Nat
  /\ Good(ib) /\ k \in Stream /\ nodelay \in BOOLEAN /\ taken \in Seq(Byte)
  /\ sc \in Conn
  /\ engine \in [sent_out_eof : BOOLEAN, inp_eof : {"None", "Close"}]
  /\ int \in [out : Seq(Nat), out_eof : BOOLEAN, inp_eof : BOOLEAN, ib : Buffer] /\ Good(int.ib)
  /\ recs \in Seq(Record(Nat)) /\ peer_recs \in Seq(PeerRecord)
  /\ app \in [put : Nat, taken : Seq(Byte)]

UnitsOK ==
  /\ Len(recs) = written /\ wire \o out = Units(0, written)
  /\ Len(peer_recs) = k.peer /\ Len(taken) <= k.peer
  /\ Pending = Units(Len(taken), k.peer - Len(taken))
  /\ Len(Plain(peer_recs)) <= Len(peer_recs)

(* Without TLS nothing is in the ServerConnection; the handshake is over once,
   after a hello, and nothing is held then. *)
ConnOK ==
  /\ ~sc.tls => sc.held = <<>> /\ sc.sendable = <<>> /\ sc.received = <<>> /\ tpc = "idle"
  /\ sc.up => sc.held = <<>> /\ taken # <<>>
  /\ Len(sc.held) <= Limit
  /\ sc.tls => \A i \in 2..Len(peer_recs) : peer_recs[i].t # "hello"

PlainOutOK == (Plain(recs) \o Carried(sc)) \o int.out = Units(0, app.put)

PlainInOK ==
  ((app.taken \o Unread(int.ib)) \o sc.received) \o Plain(Contents(peer_recs, Pending))
    = Plain(peer_recs)

TlsInv == TlsTypeOK /\ UnitsOK /\ ConnOK /\ PlainOutOK /\ PlainInOK

Regroup(a, b, c, d) == (a \o (b \o c)) \o d = (a \o b) \o (c \o d)

LEMMA FourPieces ==
  ASSUME NEW S, NEW a \in Seq(S), NEW b \in Seq(S), NEW c \in Seq(S), NEW d \in Seq(S)
  PROVE  Regroup(a, b, c, d)
<1>1. Assoc(a, b, c)
  BY Reassociate
<1> DEFINE ab == a \o b
<1>2. ab \in Seq(S)
  BY ConcatProperties
<1> HIDE DEF ab
<1>3. Assoc(ab, c, d)
  BY <1>2, Reassociate
<1> QED
  BY <1>1, <1>3 DEF Assoc, Regroup, ab

LEMMA NothingAdded ==
  \A S : \A a \in Seq(S) : a \o <<>> = a /\ <<>> \o a = a
<1> SUFFICES ASSUME NEW S, NEW a \in Seq(S) PROVE a \o <<>> = a /\ <<>> \o a = a
  OBVIOUS
<1> QED
  BY ConcatSimplifications

LEMMA PeerRecordsTyped ==
  ASSUME NEW s \in Seq(PeerRecord)
  PROVE  s \in Seq(Record(Byte))
<1> DEFINE P == PeerRecord
           R == Record(Byte)
<1>1. \A r \in P : r \in R
  BY DEF PeerRecord
<1> HIDE DEF P, R
<1>2. s \in Seq(P)
  BY DEF P
<1>3. s \in Seq(R)
  BY <1>1, <1>2, WiderSeq
<1> QED
  BY <1>3 DEF R

(* The types that the pieces of the two sums have *)
LEMMA CarriedTyped ==
  ASSUME NEW c \in Conn
  PROVE  /\ Plain(c.sendable) \in Seq(Nat) /\ c.held \in Seq(Nat) /\ Carried(c) \in Seq(Nat)
         /\ c.sendable \in Seq(Record(Nat)) /\ c.received \in Seq(Byte)
<1>1. c.sendable \in Seq(Record(Nat))
  BY DEF Conn
<1>2. c.held \in Seq(Nat)
  BY DEF Conn
<1>3. c.received \in Seq(Byte)
  BY DEF Conn
<1>4. Plain(c.sendable) \in Seq(Nat)
  BY <1>1, PlainTyped
<1>5. Carried(c) \in Seq(Nat)
  BY <1>2, <1>4, ConcatProperties DEF Carried
<1> QED
  BY <1>1, <1>2, <1>3, <1>4, <1>5

(* All is taken from a buffer. *)
LEMMA EmptiedGood ==
  ASSUME NEW b, Good(b)
  PROVE  Good([b EXCEPT !.rd = b.wr]) /\ Unread([b EXCEPT !.rd = b.wr]) = <<>>
<1> DEFINE c == [b EXCEPT !.rd = b.wr]
<1>1. /\ b.wr \in Nat /\ b.rd \in Nat /\ b.rd <= b.wr /\ b.wr <= Len(b.inp)
      /\ b \in Buffer /\ b.inp \in Seq(Byte)
  BY DEF Good, Buffer
<1>2. c \in Buffer /\ c.rd = b.wr /\ c.wr = b.wr /\ c.inp = b.inp
  BY <1>1 DEF Buffer
<1>3. Good(c)
  BY <1>1, <1>2 DEF Good
<1> HIDE DEF c
<1>4. Unread(c) \in Seq(Byte) /\ Len(Unread(c)) = c.wr - c.rd
  BY <1>3, UnreadFacts
<1>5. Len(Unread(c)) = 0
  BY <1>1, <1>2, <1>4
<1>6. Unread(c) = <<>>
  BY <1>4, <1>5
<1> QED
  BY <1>3, <1>6 DEF c

(* The units that wait, split at the end of the buffer *)
LEMMA PendingFacts ==
  ASSUME TlsTypeOK, UnitsOK
  PROVE  LET T == Len(taken)
             L == Len(Unread(ib))
             M == Len(k.rbuf)
         IN /\ T \in Nat /\ L \in Nat /\ M \in Nat /\ T + (L + M) = k.peer
            /\ Unread(ib) = Units(T, L) /\ k.rbuf = Units(T + L, M)
            /\ Pending = Units(T, L + M)
<1> DEFINE T == Len(taken)
           U == Unread(ib)
           B == k.rbuf
           m == k.peer - T
<1>1. U \in Seq(Byte)
  BY UnreadFacts DEF TlsTypeOK
<1>2. B \in Seq(1..MaxIn) /\ k.peer \in Nat
  BY BoundsAssumption DEF TlsTypeOK, Stream
<1>3. B \in Seq(Byte)
  BY <1>2, BytesTyped
<1>4. T \in Nat
  BY DEF TlsTypeOK
<1>5. m \in Nat /\ T + m = k.peer
  BY <1>2, <1>4 DEF UnitsOK
<1>6. U \o B = Units(T, m)
  BY DEF UnitsOK, Pending
<1>7. Len(U) \in Nat /\ Len(B) \in Nat
  BY <1>1, <1>3
<1> HIDE DEF T, U, B, m
<1>8. Len(U) <= m /\ U = Units(T, Len(U)) /\ B = Units(T + Len(U), m - Len(U))
  <2> DEFINE S == Byte
  <2>1. U \in Seq(S) /\ B \in Seq(S)
    BY <1>1, <1>3
  <2> HIDE DEF S
  <2>2. T \in Nat /\ m \in Nat /\ U \o B = Units(T, m)
    BY <1>4, <1>5, <1>6
  <2>3. Splits(U, B, T, m)
    BY <2>1, <2>2, UnitsSplit
  <2> QED
    BY <2>3 DEF Splits
<1>9. Len(B) = m - Len(U)
  <2>1. T + Len(U) \in Nat /\ m - Len(U) \in Nat
    BY <1>4, <1>5, <1>7, <1>8
  <2>2. Len(Units(T + Len(U), m - Len(U))) = m - Len(U)
    BY <2>1, UnitsTyped
  <2> QED
    BY <1>8, <2>2
<1>10. Len(U) + Len(B) = m
  BY <1>5, <1>7, <1>9
<1> QED
  BY <1>4, <1>5, <1>6, <1>7, <1>8, <1>9, <1>10 DEF T, U, B, m, Pending

-----------------------------------------------------------------------------
(* Steps that move units inside `ext` and the socket, or none *)

EngineType == [sent_out_eof : BOOLEAN, inp_eof : {"None", "Close"}]
IntType == [out : Seq(Nat), out_eof : BOOLEAN, inp_eof : BOOLEAN, ib : Buffer]
AppType == [put : Nat, taken : Seq(Byte)]

QuietExt ==
  /\ wire' \in Seq(Nat) /\ out' \in Seq(Nat) /\ wire' \o out' = wire \o out
  /\ written' = written /\ taken' = taken /\ nodelay' = nodelay
  /\ Good(ib') /\ k' \in Stream /\ k'.peer = k.peer /\ Pending' = Pending
  /\ out_eof' = out_eof /\ (k'.shut => k.shut \/ out_eof)

LEMMA QuietVars == ASSUME TlsTypeOK, UNCHANGED vars PROVE QuietExt
<1>1. UNCHANGED <<ib, k>>
  OBVIOUS
<1>2. Pending' = Pending
  BY <1>1 DEF Pending, Unread
<1>3. Good(ib')
  BY <1>1 DEF TlsTypeOK
<1> QED
  BY <1>2, <1>3 DEF QuietExt, TlsTypeOK

LEMMA QuietOthers ==
  ASSUME TlsTypeOK,
         MoveOut \/ PeerEof \/ flush \/ pause_writes(FALSE) \/ flushNodelay \/ flushError
         \/ flushShutdown \/ flushReturn
  PROVE  QuietExt
<1>1. k \in Stream /\ nodelay \in BOOLEAN
  BY DEF TlsTypeOK
<1>2. k' \in Stream
  <2>1. CASE MoveOut \/ PeerEof
    BY <1>1, <2>1, OtherSideStream
  <2>2. CASE flush \/ flushNodelay \/ flushError \/ flushShutdown \/ flushReturn
    <3>1. flush \/ FlushStep
      BY <2>2 DEF FlushStep
    <3> QED
      BY <1>1, <3>1, FlushStream
  <2>3. CASE pause_writes(FALSE)
    BY <1>1, <2>3 DEF pause_writes
  <2> QED
    BY <2>1, <2>2, <2>3
<1>3. k'.peer = k.peer /\ k'.rbuf = k.rbuf /\ (k'.shut => k.shut \/ out_eof)
  BY <1>1 DEF Stream, MoveOut, PeerEof, flush, pause_writes, flushNodelay, flushError,
     flushShutdown, flushReturn
<1>4. UNCHANGED <<wire, out, written, taken, nodelay, ib, out_eof>>
  BY DEF MoveOut, PeerEof, flush, pause_writes, flushNodelay, flushError,
     flushShutdown, flushReturn
<1>5. Pending' = Pending
  BY <1>3, <1>4 DEF Pending, Unread
<1>6. Good(ib')
  BY <1>4 DEF TlsTypeOK
<1> QED
  BY <1>2, <1>3, <1>4, <1>5, <1>6 DEF QuietExt, TlsTypeOK

LEMMA QuietWrite == ASSUME TlsTypeOK, flushWrite PROVE QuietExt
<1>1. PICK len \in 1..Len(out) :
        /\ k' = [k EXCEPT !.nbuf = @ + len]
        /\ wire' = wire \o SubSeq(out, 1, len) /\ out' = SubSeq(out, len + 1, Len(out))
  BY DEF flushWrite, Drained
<1>2. out \in Seq(Nat) /\ wire \in Seq(Nat) /\ k \in Stream
  BY DEF TlsTypeOK
<1>3. k' \in Stream
  <2>1. flush \/ FlushStep
    BY DEF FlushStep
  <2>2. nodelay \in BOOLEAN
    BY DEF TlsTypeOK
  <2> QED
    BY <1>2, <2>1, <2>2, FlushStream
<1>4. k'.peer = k.peer /\ k'.rbuf = k.rbuf /\ k'.shut = k.shut
  BY <1>1, <1>2 DEF Stream
<1>5. UNCHANGED <<written, taken, nodelay, ib, out_eof>>
  BY DEF flushWrite
<1> DEFINE a == SubSeq(out, 1, len)
           b == SubSeq(out, len + 1, Len(out))
<1>6. a \in Seq(Nat) /\ wire \o a \in Seq(Nat) /\ b \in Seq(Nat) /\ a \o b = out
  <2>1. len \in 0..Len(out)
    OBVIOUS
  <2> QED
    BY <1>2, <2>1, Moved
<1>7. wire' = wire \o a /\ out' = b
  BY <1>1
<1> HIDE DEF a, b
<1>8. (wire \o a) \o b = wire \o (a \o b)
  <2>1. Assoc(wire, a, b)
    BY <1>2, <1>6, Reassociate
  <2> QED
    BY <2>1 DEF Assoc
<1>9. wire' \in Seq(Nat) /\ out' \in Seq(Nat) /\ wire' \o out' = wire \o out
  BY <1>6, <1>7, <1>8
<1>10. Pending' = Pending
  BY <1>4, <1>5 DEF Pending, Unread
<1>11. Good(ib')
  BY <1>5 DEF TlsTypeOK
<1> QED
  BY <1>3, <1>4, <1>5, <1>9, <1>10, <1>11 DEF QuietExt

LEMMA QuietRead ==
  ASSUME TlsTypeOK, NEW max \in Maxes, NEW spare \in Spare, ReadStep(max, spare)
  PROVE  QuietExt
<1>0. max \in Nat /\ spare \in Nat
  BY ArgsAssumption
<1>1. Good(ib) /\ k \in Stream
  BY DEF TlsTypeOK
<1>2. CASE readData(max, spare)
  <2>1. /\ Good(ib') /\ k' \in Stream
        /\ \E new \in Seq(1..MaxIn) : handed' = handed \o new /\ Unread(ib') = Unread(ib) \o new
                                     /\ new \o k'.rbuf = k.rbuf
    BY <1>0, <1>1, <1>2, ReadDataGood
  <2>2. PICK new \in Seq(1..MaxIn) : Unread(ib') = Unread(ib) \o new /\ new \o k'.rbuf = k.rbuf
    BY <2>1
  <2>3. UNCHANGED <<wire, out, written, taken, nodelay, out_eof>>
    BY <1>2 DEF readData
  <2>4. k'.peer = k.peer /\ k'.shut = k.shut
    BY <1>1, <1>2 DEF readData, Stream
  <2>5. Unread(ib) \in Seq(Byte)
    BY <1>1, UnreadFacts
  <2>6. new \in Seq(Byte)
    BY BytesTyped
  <2>7. k'.rbuf \in Seq(Byte)
    <3>1. k'.rbuf \in Seq(1..MaxIn)
      BY <2>1 DEF Stream
    <3> QED
      BY <3>1, BytesTyped
  <2> DEFINE u == Unread(ib)
             r == k'.rbuf
  <2>8. (u \o new) \o r = u \o (new \o r)
    <3>1. u \in Seq(Byte) /\ new \in Seq(Byte) /\ r \in Seq(Byte)
      BY <2>5, <2>6, <2>7
    <3> HIDE DEF u, r
    <3> QED
      BY <3>1, ThreePieces
  <2>9. Unread(ib') \o k'.rbuf = Unread(ib) \o k.rbuf
    BY <2>2, <2>8
  <2>10. Pending' = Pending
    BY <2>9 DEF Pending, Unread
  <2> QED
    BY <2>1, <2>3, <2>4, <2>10 DEF QuietExt, TlsTypeOK
<1>3. CASE readEof(max, spare) \/ readWouldBlock(max, spare) \/ readError(max, spare)
  <2>1. Good(ib') /\ Unread(ib') = Unread(ib) /\ k' \in Stream
    BY <1>0, <1>1, <1>3, ReadNoDataGood
  <2>2. UNCHANGED <<wire, out, written, taken, nodelay, out_eof>>
    BY <1>3 DEF readEof, readWouldBlock, readError
  <2>3. k'.peer = k.peer /\ k'.shut = k.shut /\ k'.rbuf = k.rbuf
    BY <1>1, <1>3 DEF readEof, readWouldBlock, readError, Stream
  <2>4. Pending' = Pending
    BY <2>1, <2>3 DEF Pending, Unread
  <2> QED
    BY <2>1, <2>2, <2>3, <2>4 DEF QuietExt, TlsTypeOK
<1> QED
  BY <1>2, <1>3 DEF ReadStep

(* Units stay in their order, so it is enough to look at the engine. *)
LEMMA QuietUnits ==
  ASSUME TlsTypeOK, UnitsOK, QuietExt, UNCHANGED <<recs, peer_recs>>
  PROVE  UnitsOK'
<1>1. wire' \o out' = Units(0, written')
  BY DEF UnitsOK, QuietExt
<1>2. Pending' = Units(Len(taken'), k'.peer - Len(taken'))
  BY DEF UnitsOK, QuietExt
<1>3. Len(recs') = written' /\ Len(peer_recs') = k'.peer /\ Len(taken') <= k'.peer
  BY DEF UnitsOK, QuietExt
<1>4. Len(Plain(peer_recs')) <= Len(peer_recs')
  BY DEF UnitsOK
<1> QED
  BY <1>1, <1>2, <1>3, <1>4 DEF UnitsOK, Units, Plain

LEMMA EngineInv ==
  ASSUME TlsInv, QuietExt, UNCHANGED <<recs, peer_recs>>,
         sc' \in Conn, engine' \in EngineType, int' \in IntType, Good(int'.ib), app' \in AppType,
         ConnOK',
         (Plain(recs) \o Carried(sc')) \o int'.out = Units(0, app'.put),
         (app'.taken \o Unread(int'.ib)) \o sc'.received
           = (app.taken \o Unread(int.ib)) \o sc.received
  PROVE  TlsInv'
<1>1. TlsTypeOK /\ UnitsOK /\ PlainInOK
  BY DEF TlsInv
<1>2. UnitsOK'
  BY <1>1, QuietUnits
<1>3. TlsTypeOK'
  <2>1. out' \in Seq(Nat) /\ wire' \in Seq(Nat) /\ written' \in Nat
    BY <1>1 DEF QuietExt, TlsTypeOK
  <2>2. Good(ib') /\ k' \in Stream /\ nodelay' \in BOOLEAN /\ taken' \in Seq(Byte)
    BY <1>1 DEF QuietExt, TlsTypeOK
  <2>3. recs' \in Seq(Record(Nat)) /\ peer_recs' \in Seq(PeerRecord)
    BY <1>1 DEF TlsTypeOK
  <2>4. Good((int.ib)')
    OBVIOUS
  <2> QED
    BY <2>1, <2>2, <2>3, <2>4 DEF TlsTypeOK, EngineType, IntType, AppType
<1>4. PlainOutOK'
  BY DEF PlainOutOK, Carried, Plain, Units
<1>5. PlainInOK'
  <2>1. Pending' = Pending
    BY DEF QuietExt
  <2>2. ((app'.taken \o Unread(int'.ib)) \o sc'.received) \o Plain(Contents(peer_recs, Pending))
          = Plain(peer_recs)
    BY <1>1 DEF PlainInOK
  <2>3. ((app'.taken \o Unread(int'.ib)) \o sc'.received) \o Plain(Contents(peer_recs', Pending'))
          = Plain(peer_recs')
    BY <2>1, <2>2
  <2> HIDE DEF Pending
  <2> QED
    BY <2>3 DEF PlainInOK, Plain, Contents, Unread
<1> QED
  BY <1>2, <1>3, <1>4, <1>5 DEF TlsInv

-----------------------------------------------------------------------------
(* Each step keeps the invariant *)

LEMMA QuietInv ==
  ASSUME TlsInv, QuietExt, UNCHANGED <<recs, peer_recs, sc, app>>, engine' \in EngineType,
         int' \in IntType, int'.out = int.out, int'.ib = int.ib, sc.tls \/ UNCHANGED tpc
  PROVE  TlsInv'
<1>1. sc' \in Conn /\ app' \in AppType /\ Good(int'.ib)
  BY DEF TlsInv, TlsTypeOK, AppType
<1>2. ConnOK'
  BY DEF TlsInv, ConnOK, QuietExt
<1>3. (Plain(recs) \o Carried(sc')) \o int'.out = Units(0, app'.put)
  BY DEF TlsInv, PlainOutOK
<1>4. (app'.taken \o Unread(int'.ib)) \o sc'.received
        = (app.taken \o Unread(int.ib)) \o sc.received
  OBVIOUS
<1> QED
  BY <1>1, <1>2, <1>3, <1>4, EngineInv

LEMMA TlsInitInv == TlsInit => TlsInv
<1> SUFFICES ASSUME TlsInit PROVE TlsInv
  OBVIOUS
<1>1. Good(ib) /\ Unread(ib) = <<>>
  BY DEF TlsInit, Good, Buffer, Unread
<1>2. k \in Stream /\ k.rbuf = <<>> /\ k.peer = 0
  BY FreshStreams DEF TlsInit, NewStream
<1>3. sc \in Conn /\ sc.held = <<>> /\ sc.sendable = <<>> /\ sc.received = <<>> /\ ~sc.up
  <2>1. sc \in [tls : TlsModes, up : {FALSE}, held : {<<>>}, sendable : {<<>>},
                received : {<<>>}, closed : {FALSE}]
    BY DEF TlsInit
  <2>2. \A x \in TlsModes : x \in BOOLEAN
    BY TlsModesAssumption
  <2>3. <<>> \in Seq(Nat) /\ <<>> \in Seq(Byte)
    OBVIOUS
  <2>4. <<>> \in Seq(Record(Nat))
    OBVIOUS
  <2>5. sc.held = <<>> /\ sc.sendable = <<>> /\ sc.received = <<>> /\ ~sc.up
    BY <2>1
  <2>6. sc \in Conn
    BY <2>1, <2>2, <2>3, <2>4 DEF Conn
  <2> QED
    BY <2>5, <2>6
<1>4. int.ib = ib /\ int.out = <<>> /\ int.out_eof = FALSE /\ int.inp_eof = FALSE
  BY DEF TlsInit
<1>5. app.taken = <<>> /\ app.put = 0 /\ taken = <<>> /\ written = 0 /\ out = <<>> /\ wire = <<>>
      /\ recs = <<>> /\ peer_recs = <<>> /\ nodelay = FALSE
  BY DEF TlsInit
<1>6. engine \in EngineType /\ app \in AppType
  BY DEF TlsInit, EngineType, AppType
<1>7. int \in IntType
  BY <1>1 DEF TlsInit, IntType, Good
<1>8. Units(0, 0) = <<>> /\ <<>> \o <<>> = <<>>
  BY DEF Units
<1>9. Pending = <<>>
  BY <1>1, <1>2, <1>8 DEF Pending
<1>10. Contents(<<>>, <<>>) = <<>>
  BY DEF Contents
<1>11. TlsTypeOK
  <2>1. out \in Seq(Nat) /\ wire \in Seq(Nat) /\ written \in Nat
    BY <1>5
  <2>2. taken \in Seq(Byte)
    BY <1>5
  <2>6. nodelay \in BOOLEAN
    BY <1>5
  <2>3. recs \in Seq(Record(Nat))
    BY <1>5
  <2>4. peer_recs \in Seq(PeerRecord)
    BY <1>5
  <2>5. Good(int.ib)
    BY <1>1, <1>4
  <2> QED
    BY <1>1, <1>2, <1>3, <1>6, <1>7, <2>1, <2>2, <2>3, <2>4, <2>5, <2>6
       DEF TlsTypeOK, EngineType, AppType, IntType
<1>12. UnitsOK
  <2>1. Len(<<>>) = 0 /\ 0 - 0 = 0
    OBVIOUS
  <2> QED
    BY <1>2, <1>5, <1>8, <1>9, <2>1, PlainEmpty DEF UnitsOK
<1>13. ConnOK
  <2>1. tpc = "idle" /\ Len(<<>>) <= Limit
    BY LimitAssumption DEF TlsInit
  <2> QED
    BY <1>3, <1>5, <2>1 DEF ConnOK
<1>14. PlainOutOK
  BY <1>3, <1>4, <1>5, <1>8, PlainEmpty DEF PlainOutOK, Carried
<1>15. PlainInOK
  BY <1>1, <1>3, <1>4, <1>5, <1>8, <1>9, <1>10, PlainEmpty DEF PlainInOK
<1> QED
  BY <1>11, <1>12, <1>13, <1>14, <1>15 DEF TlsInv

LEMMA QuietStepsInv ==
  ASSUME TlsInv,
         \/ (MoveOut \/ PeerEof \/ FlushStep) /\ UNCHANGED tlsVars
         \/ unpause \/ extFlush \/ (\E max \in Maxes, spare \in Spare : extRead(max, spare))
         \/ processEnter \/ processReturn \/ tlsError \/ readerEof \/ readerWouldBlock \/ appEof
         \/ UNCHANGED allVars
  PROVE  TlsInv' /\ QuietExt
<1>0. TlsTypeOK
  BY DEF TlsInv
<1>1. QuietExt
  <2>1. CASE MoveOut \/ PeerEof \/ FlushStep \/ unpause \/ extFlush
    <3>1. MoveOut \/ PeerEof \/ FlushStep \/ flush \/ pause_writes(FALSE)
      BY <2>1 DEF unpause, extFlush
    <3> QED
      BY <1>0, <3>1, QuietOthers, QuietWrite DEF FlushStep
  <2>2. CASE \E max \in Maxes, spare \in Spare : extRead(max, spare)
    BY <1>0, <2>2, QuietRead DEF extRead
  <2>3. CASE tlsError
    <3>1. UNCHANGED <<wire, out, written, taken, nodelay, ib, out_eof, k>>
      BY <2>3 DEF tlsError
    <3>2. Pending' = Pending
      BY <3>1 DEF Pending, Unread
    <3>3. Good(ib')
      BY <1>0, <3>1 DEF TlsTypeOK
    <3> QED
      BY <1>0, <3>1, <3>2, <3>3 DEF QuietExt, TlsTypeOK
  <2>4. CASE processEnter \/ processReturn \/ readerEof \/ readerWouldBlock \/ appEof
             \/ UNCHANGED allVars
    <3>1. UNCHANGED vars
      BY <2>4 DEF processEnter, processReturn, readerEof, readerWouldBlock, appEof
    <3> QED
      BY <1>0, <3>1, QuietVars
  <2> QED
    BY <2>1, <2>2, <2>3, <2>4
<1>2. UNCHANGED <<recs, peer_recs, sc, app>>
  BY DEF unpause, extFlush, extRead, processEnter, processReturn, tlsError, readerEof,
     readerWouldBlock, appEof
<1>3. engine \in EngineType /\ int \in IntType
  BY <1>0 DEF TlsTypeOK, EngineType, IntType
<1>4. engine' \in EngineType
  <2>1. UNCHANGED engine \/ engine' = [engine EXCEPT !.inp_eof = "Close"]
    BY DEF unpause, extFlush, extRead, processEnter, processReturn, tlsError, readerEof,
       readerWouldBlock, appEof
  <2> QED
    BY <1>3, <2>1 DEF EngineType
<1>5. int' \in IntType /\ int'.out = int.out /\ int'.ib = int.ib
  <2>1. UNCHANGED int \/ int' = [int EXCEPT !.out_eof = TRUE]
    BY DEF unpause, extFlush, extRead, processEnter, processReturn, tlsError, readerEof,
       readerWouldBlock, appEof
  <2> QED
    BY <1>3, <2>1 DEF IntType
<1>6. sc.tls \/ UNCHANGED tpc
  <2>1. sc.tls \/ tpc = "idle"
    BY DEF TlsInv, ConnOK
  <2> QED
    BY <2>1 DEF unpause, extFlush, extRead, processEnter, processReturn, tlsError, readerEof,
       readerWouldBlock, appEof, Looping
<1>7. TlsInv'
  BY <1>1, <1>2, <1>4, <1>5, <1>6, QuietInv
<1> QED
  BY <1>1, <1>7

(* sc.writer().write: the front of int.out goes to the ServerConnection. *)
LEMMA WritePlainInv == ASSUME TlsInv, writePlain PROVE TlsInv'
<1>0. TlsTypeOK /\ ConnOK /\ PlainOutOK
  BY DEF TlsInv
<1>1. sc \in Conn /\ int \in IntType /\ engine \in EngineType /\ app \in AppType /\ Good(int.ib)
  BY <1>0 DEF TlsTypeOK, IntType, EngineType, AppType
<1>2. int.out \in Seq(Nat) /\ Len(int.out) \in Nat
  BY <1>1 DEF IntType
<1>3. sc.held \in Seq(Nat) /\ Len(sc.held) \in Nat /\ sc.sendable \in Seq(Record(Nat))
      /\ Plain(sc.sendable) \in Seq(Nat) /\ Carried(sc) \in Seq(Nat)
  BY <1>1, CarriedTyped
<1> DEFINE room == IF sc.up THEN Limit ELSE Limit - Len(sc.held)
           len == Smaller(room, Len(int.out))
           bytes == SubSeq(int.out, 1, len)
           left == SubSeq(int.out, len + 1, Len(int.out))
<1>4. /\ sc' = IF sc.up THEN [sc EXCEPT !.sendable = Append(@, Data(bytes))]
                        ELSE [sc EXCEPT !.held = @ \o bytes]
      /\ int' = [int EXCEPT !.out = left]
  BY DEF writePlain, DrainedOut, From
<1>5. /\ bytes \in Seq(Nat) /\ left \in Seq(Nat) /\ bytes \o left = int.out /\ Len(bytes) = len
      /\ len \in Nat /\ (~sc.up => Len(sc.held) + len <= Limit)
  <2>1. room \in Nat /\ (~sc.up => Len(sc.held) + room = Limit)
    <3>1. Len(sc.held) <= Limit /\ Limit \in Nat
      BY <1>0, LimitAssumption DEF ConnOK
    <3>2. Limit - Len(sc.held) \in Nat /\ Len(sc.held) + (Limit - Len(sc.held)) = Limit
      BY <1>3, <3>1
    <3> QED
      BY <3>1, <3>2
  <2> HIDE DEF room
  <2>2. len \in Nat /\ len <= Len(int.out) /\ len <= room
    BY <1>2, <2>1 DEF Smaller
  <2> HIDE DEF len
  <2>3. len \in 0..Len(int.out) /\ (~sc.up => Len(sc.held) + len <= Limit)
    BY <1>2, <1>3, <2>1, <2>2, LimitAssumption
  <2> QED
    BY <1>2, <2>2, <2>3, Moved
<1> HIDE DEF room, len, bytes, left
<1>6. UNCHANGED <<vars, engine, recs, peer_recs, app>>
  BY DEF writePlain
<1>7. sc.tls
  BY <1>0 DEF ConnOK, writePlain, Looping
<1>8. sc' \in Conn /\ Carried(sc') = Carried(sc) \o bytes /\ ConnOK' /\ sc'.received = sc.received
  <2>1. CASE sc.up
    <3> DEFINE d == Data(bytes)
               s == Append(sc.sendable, d)
    <3>1. d \in Record(Nat) /\ d.bytes = bytes
      BY <1>5 DEF Data, Record, Kind
    <3>2. s \in Seq(Record(Nat))
      <4> DEFINE R == Record(Nat)
      <4>1. sc.sendable \in Seq(R) /\ d \in R
        BY <1>3, <3>1
      <4> HIDE DEF R, d
      <4>2. s \in Seq(R)
        BY <4>1
      <4> QED
        BY <4>2 DEF R
    <3>3. Plain(s) = Plain(sc.sendable) \o bytes
      BY <1>3, <3>1, PlainAppend
    <3>4. sc' = [sc EXCEPT !.sendable = s]
      BY <1>4, <2>1
    <3> HIDE DEF s, d
    <3>5. /\ sc' \in Conn /\ sc'.sendable = s /\ sc'.held = sc.held /\ sc'.received = sc.received
          /\ sc'.tls = sc.tls /\ sc'.up = sc.up
      BY <1>1, <3>2, <3>4 DEF Conn
    <3>6. sc.held = <<>>
      BY <1>0, <2>1 DEF ConnOK
    <3>7. Carried(sc') = Plain(s) \o <<>> /\ Carried(sc) = Plain(sc.sendable) \o <<>>
      BY <3>5, <3>6 DEF Carried
    <3>8. Plain(sc.sendable) \o <<>> = Plain(sc.sendable)
      BY <1>3, NothingAdded
    <3>9. Plain(s) \o <<>> = Plain(s)
      <4>1. Plain(s) \in Seq(Nat)
        BY <3>2, PlainTyped
      <4> QED
        BY <4>1, NothingAdded
    <3>10. Carried(sc') = Carried(sc) \o bytes
      BY <3>3, <3>7, <3>8, <3>9
    <3>11. ConnOK'
      BY <1>0, <1>6, <1>7, <3>5 DEF ConnOK
    <3> QED
      BY <3>5, <3>10, <3>11
  <2>2. CASE ~sc.up
    <3> DEFINE h == sc.held \o bytes
    <3>1. h \in Seq(Nat) /\ Len(h) = Len(sc.held) + Len(bytes)
      BY <1>3, <1>5, ConcatProperties
    <3>2. sc' = [sc EXCEPT !.held = h]
      BY <1>4, <2>2
    <3>3. Len(h) <= Limit
      BY <1>3, <1>5, <2>2, <3>1
    <3>4. (Plain(sc.sendable) \o sc.held) \o bytes = Plain(sc.sendable) \o h
      <4> DEFINE p == Plain(sc.sendable)
                 q == sc.held
      <4>1. p \in Seq(Nat) /\ q \in Seq(Nat)
        BY <1>3
      <4> HIDE DEF p, q
      <4>2. Assoc(p, q, bytes)
        BY <1>5, <4>1, Reassociate
      <4> QED
        BY <4>2 DEF Assoc, p, q
    <3> HIDE DEF h
    <3>5. /\ sc' \in Conn /\ sc'.sendable = sc.sendable /\ sc'.held = h /\ sc'.received = sc.received
          /\ sc'.tls = sc.tls /\ sc'.up = sc.up
      BY <1>1, <3>1, <3>2 DEF Conn
    <3>6. Carried(sc') = Carried(sc) \o bytes
      BY <3>4, <3>5 DEF Carried
    <3>7. ConnOK'
      BY <1>0, <1>6, <1>7, <2>2, <3>3, <3>5 DEF ConnOK
    <3> QED
      BY <3>5, <3>6, <3>7
  <2> QED
    BY <2>1, <2>2
<1>9. int' \in IntType /\ int'.out = left /\ int'.ib = int.ib
  BY <1>1, <1>4, <1>5 DEF IntType
<1>10. (Plain(recs) \o Carried(sc')) \o int'.out = Units(0, app'.put)
  <2>1. Plain(recs) \in Seq(Nat)
    BY <1>0, PlainTyped DEF TlsTypeOK
  <2> DEFINE r == Plain(recs)
             c == Carried(sc)
  <2>2. r \in Seq(Nat) /\ c \in Seq(Nat)
    BY <1>3, <2>1
  <2> HIDE DEF r, c
  <2>3. (r \o (c \o bytes)) \o left = (r \o c) \o (bytes \o left)
    <3>1. Regroup(r, c, bytes, left)
      BY <1>5, <2>2, FourPieces
    <3> QED
      BY <3>1 DEF Regroup
  <2> QED
    BY <1>0, <1>5, <1>6, <1>8, <1>9, <2>3 DEF r, c, PlainOutOK
<1>11. (app'.taken \o Unread(int'.ib)) \o sc'.received
        = (app.taken \o Unread(int.ib)) \o sc.received
  BY <1>6, <1>8, <1>9
<1>12. QuietExt
  BY <1>0, <1>6, QuietVars
<1> QED
  BY <1>1, <1>6, <1>8, <1>9, <1>10, <1>11, <1>12, EngineInv

LEMMA SendCloseNotifyInv == ASSUME TlsInv, sendCloseNotify PROVE TlsInv'
<1>0. TlsTypeOK /\ ConnOK /\ PlainOutOK
  BY DEF TlsInv
<1>1. sc \in Conn /\ int \in IntType /\ engine \in EngineType /\ app \in AppType /\ Good(int.ib)
  BY <1>0 DEF TlsTypeOK, IntType, EngineType, AppType
<1>2. sc.sendable \in Seq(Record(Nat)) /\ Plain(sc.sendable) \in Seq(Nat)
  BY <1>1, CarriedTyped
<1> DEFINE d == Rec("close")
           s == Append(sc.sendable, d)
<1>3. sc' = [sc EXCEPT !.sendable = s] /\ engine' = [engine EXCEPT !.sent_out_eof = TRUE]
  BY DEF sendCloseNotify
<1>4. d \in Record(Nat) /\ d.bytes = <<>>
  <2>1. <<>> \in Seq(Nat)
    OBVIOUS
  <2> QED
    BY <2>1 DEF Rec, Record, Kind
<1>5. s \in Seq(Record(Nat))
  <2> DEFINE R == Record(Nat)
  <2>1. sc.sendable \in Seq(R) /\ d \in R
    BY <1>2, <1>4
  <2> HIDE DEF R, d
  <2>2. s \in Seq(R)
    BY <2>1
  <2> QED
    BY <2>2 DEF R
<1>6. Plain(s) = Plain(sc.sendable)
  <2>1. Plain(s) = Plain(sc.sendable) \o <<>>
    BY <1>2, <1>4, PlainAppend
  <2>2. Plain(sc.sendable) \o <<>> = Plain(sc.sendable)
    BY <1>2, NothingAdded
  <2> QED
    BY <2>1, <2>2
<1> HIDE DEF s, d
<1>7. /\ sc' \in Conn /\ sc'.sendable = s /\ sc'.held = sc.held /\ sc'.received = sc.received
      /\ sc'.tls = sc.tls /\ sc'.up = sc.up
  BY <1>1, <1>3, <1>5 DEF Conn
<1>8. Carried(sc') = Carried(sc)
  BY <1>6, <1>7 DEF Carried
<1>9. UNCHANGED <<vars, int, tpc, recs, peer_recs, app>>
  BY DEF sendCloseNotify
<1>10. sc.tls
  BY <1>0 DEF ConnOK, sendCloseNotify, Looping
<1>11. ConnOK'
  BY <1>0, <1>7, <1>9, <1>10 DEF ConnOK
<1>12. engine' \in EngineType
  BY <1>1, <1>3 DEF EngineType
<1>13. QuietExt
  BY <1>0, <1>9, QuietVars
<1>14. (Plain(recs) \o Carried(sc')) \o int'.out = Units(0, app'.put)
  BY <1>0, <1>8, <1>9 DEF PlainOutOK
<1>15. (app'.taken \o Unread(int'.ib)) \o sc'.received
        = (app.taken \o Unread(int.ib)) \o sc.received
  BY <1>7, <1>9
<1> QED
  BY <1>1, <1>7, <1>9, <1>11, <1>12, <1>13, <1>14, <1>15, EngineInv

(* The reader's bytes go to int.inp. *)
LEMMA ReaderDataInv == ASSUME TlsInv, readerData PROVE TlsInv'
<1>0. TlsTypeOK /\ ConnOK /\ PlainOutOK
  BY DEF TlsInv
<1>1. sc \in Conn /\ int \in IntType /\ engine \in EngineType /\ app \in AppType /\ Good(int.ib)
  BY <1>0 DEF TlsTypeOK, IntType, EngineType, AppType
<1>2. sc.received \in Seq(Byte) /\ Len(sc.received) \in Nat
  BY <1>1, CarriedTyped
<1> DEFINE b == int.ib
           len == Smaller(Room, Len(sc.received))
           bytes == SubSeq(sc.received, 1, len)
           left == SubSeq(sc.received, len + 1, Len(sc.received))
           c == [b EXCEPT !.inp = CopyTo(b, b.wr, bytes), !.wr = @ + Len(bytes)]
<1>3. b.wr \in Nat /\ Len(b.inp) \in Nat /\ b.wr <= Len(b.inp) /\ b \in Buffer
  BY <1>1 DEF Good, Buffer
<1>4. len \in Nat /\ len <= Len(sc.received) /\ b.wr + len <= Len(b.inp)
  <2>1. Room \in Nat /\ b.wr + Room = Len(b.inp)
    BY <1>3 DEF Room
  <2> QED
    BY <1>2, <1>3, <2>1 DEF Smaller
<1>5. /\ int' = [int EXCEPT !.ib.inp = CopyTo(int.ib, int.ib.wr, bytes), !.ib.wr = @ + len]
      /\ sc' = [sc EXCEPT !.received = left]
  BY DEF readerData, From
<1> HIDE DEF len
<1>6. bytes \in Seq(Byte) /\ left \in Seq(Byte) /\ bytes \o left = sc.received /\ Len(bytes) = len
  <2> DEFINE S == Byte
  <2>1. sc.received \in Seq(S) /\ len \in 0..Len(sc.received)
    BY <1>2, <1>4
  <2> HIDE DEF S
  <2>2. bytes \in Seq(S) /\ left \in Seq(S) /\ bytes \o left = sc.received /\ Len(bytes) = len
    BY <2>1, Moved
  <2> QED
    BY <2>2 DEF S
<1> HIDE DEF bytes, left
<1>7. int' = [int EXCEPT !.ib = c]
  BY <1>1, <1>3, <1>5, <1>6 DEF IntType, Buffer
<1>8. Good(c) /\ Unread(c) = Unread(b) \o bytes
  <2>1. b.wr + Len(bytes) <= Len(b.inp)
    BY <1>4, <1>6
  <2> HIDE DEF b
  <2> QED
    BY <1>1, <1>6, <2>1, FillGood DEF b
<1> HIDE DEF c
<1>9. int' \in IntType /\ int'.out = int.out /\ int'.ib = c
  BY <1>1, <1>7, <1>8 DEF IntType, Good
<1>10. /\ sc' \in Conn /\ sc'.sendable = sc.sendable /\ sc'.held = sc.held /\ sc'.received = left
       /\ sc'.tls = sc.tls /\ sc'.up = sc.up
  BY <1>1, <1>5, <1>6 DEF Conn
<1>11. UNCHANGED <<vars, engine, tpc, recs, peer_recs, app>>
  BY DEF readerData
<1>12. sc.tls
  BY <1>0 DEF ConnOK, readerData
<1>13. ConnOK'
  BY <1>0, <1>10, <1>11, <1>12 DEF ConnOK
<1>14. (Plain(recs) \o Carried(sc')) \o int'.out = Units(0, app'.put)
  <2>1. Carried(sc') = Carried(sc)
    BY <1>10 DEF Carried
  <2> QED
    BY <1>0, <1>9, <1>11, <2>1 DEF PlainOutOK
<1>15. (app'.taken \o Unread(int'.ib)) \o sc'.received
        = (app.taken \o Unread(int.ib)) \o sc.received
  <2> DEFINE t == app.taken
             u == Unread(b)
  <2>1. t \in Seq(Byte)
    BY <1>1 DEF AppType
  <2>2. u \in Seq(Byte)
    BY <1>1, UnreadFacts
  <2> HIDE DEF t, u
  <2>3. (t \o (u \o bytes)) \o left = (t \o u) \o (bytes \o left)
    <3>1. Regroup(t, u, bytes, left)
      BY <1>6, <2>1, <2>2, FourPieces
    <3> QED
      BY <3>1 DEF Regroup
  <2> QED
    BY <1>6, <1>8, <1>9, <1>10, <1>11, <2>3 DEF t, u
<1>16. QuietExt
  BY <1>0, <1>11, QuietVars
<1>17. Good(int'.ib)
  BY <1>8, <1>9
<1> QED
  BY <1>1, <1>9, <1>10, <1>11, <1>13, <1>14, <1>15, <1>16, <1>17, EngineInv

(* The application writes a byte. *)
LEMMA AppWriteInv == ASSUME TlsInv, appWrite PROVE TlsInv'
<1>0. TlsTypeOK /\ ConnOK /\ PlainOutOK
  BY DEF TlsInv
<1>1. sc \in Conn /\ int \in IntType /\ engine \in EngineType /\ app \in AppType /\ Good(int.ib)
  BY <1>0 DEF TlsTypeOK, IntType, EngineType, AppType
<1>2. int.out \in Seq(Nat) /\ app.put \in Nat
  BY <1>1 DEF IntType, AppType
<1> DEFINE o == Append(int.out, app.put + 1)
           one == <<app.put + 1>>
<1>3. o \in Seq(Nat) /\ o = int.out \o one /\ one \in Seq(Nat)
  BY <1>2, AppendIsConcat
<1>4. int' = [int EXCEPT !.out = o] /\ app' = [app EXCEPT !.put = @ + 1]
  BY DEF appWrite
<1>5. UNCHANGED <<vars, sc, engine, tpc, recs, peer_recs>>
  BY DEF appWrite
<1>6. one = Units(0 + app.put, 1)
  BY <1>2 DEF Units
<1> HIDE DEF o, one
<1>7. int' \in IntType /\ int'.out = o /\ int'.ib = int.ib
  BY <1>1, <1>3, <1>4 DEF IntType
<1>8. app' \in AppType /\ app'.put = app.put + 1 /\ app'.taken = app.taken
  BY <1>1, <1>2, <1>4 DEF AppType
<1>9. (Plain(recs) \o Carried(sc')) \o int'.out = Units(0, app'.put)
  <2> DEFINE r == Plain(recs)
             c == Carried(sc)
             rc == r \o c
             i == int.out
  <2>1. r \in Seq(Nat)
    BY <1>0, PlainTyped DEF TlsTypeOK
  <2>2. c \in Seq(Nat)
    BY <1>1, CarriedTyped
  <2> HIDE DEF r, c
  <2>3. rc \in Seq(Nat)
    BY <2>1, <2>2, ConcatProperties
  <2> HIDE DEF rc
  <2>4. (rc \o int.out) \o one = rc \o (int.out \o one)
    <3>1. Assoc(rc, i, one)
      BY <1>2, <1>3, <2>3, Reassociate
    <3> QED
      BY <3>1 DEF Assoc
  <2>5. rc \o int.out = Units(0, app.put)
    BY <1>0 DEF PlainOutOK, rc, r, c
  <2>6. Units(0, app.put) \o Units(0 + app.put, 1) = Units(0, app.put + 1)
    BY <1>2, UnitsJoin
  <2> QED
    BY <1>3, <1>5, <1>6, <1>7, <1>8, <2>4, <2>5, <2>6 DEF rc, r, c
<1>10. (app'.taken \o Unread(int'.ib)) \o sc'.received
        = (app.taken \o Unread(int.ib)) \o sc.received
  BY <1>5, <1>7, <1>8
<1>11. QuietExt
  BY <1>0, <1>5, QuietVars
<1>12. ConnOK'
  BY <1>0, <1>5 DEF ConnOK
<1> QED
  BY <1>1, <1>5, <1>7, <1>8, <1>9, <1>10, <1>11, <1>12, EngineInv

(* The application takes what is in int.inp. *)
LEMMA AppTakeInv == ASSUME TlsInv, appTake PROVE TlsInv'
<1>0. TlsTypeOK /\ ConnOK /\ PlainOutOK
  BY DEF TlsInv
<1>1. sc \in Conn /\ int \in IntType /\ engine \in EngineType /\ app \in AppType /\ Good(int.ib)
  BY <1>0 DEF TlsTypeOK, IntType, EngineType, AppType
<1> DEFINE b == int.ib
           u == Unread(b)
           c == [b EXCEPT !.rd = b.wr]
<1>2. app' = [app EXCEPT !.taken = @ \o u] /\ int' = [int EXCEPT !.ib.rd = b.wr]
  BY DEF appTake
<1>3. UNCHANGED <<vars, sc, engine, tpc, recs, peer_recs>>
  BY DEF appTake
<1>4. u \in Seq(Byte)
  BY <1>1, UnreadFacts
<1>5. Good(c) /\ Unread(c) = <<>>
  BY <1>1, EmptiedGood
<1>6. int' = [int EXCEPT !.ib = c]
  BY <1>1, <1>2 DEF IntType, Buffer
<1> HIDE DEF c
<1>7. int' \in IntType /\ int'.out = int.out /\ int'.ib = c
  BY <1>1, <1>5, <1>6 DEF IntType, Good
<1> HIDE DEF u
<1>8. app.taken \in Seq(Byte)
  BY <1>1 DEF AppType
<1>9. app.taken \o u \in Seq(Byte)
  BY <1>4, <1>8, ConcatProperties
<1>10. app' \in AppType /\ app'.put = app.put /\ app'.taken = app.taken \o u
  BY <1>1, <1>2, <1>9 DEF AppType
<1>11. (Plain(recs) \o Carried(sc')) \o int'.out = Units(0, app'.put)
  BY <1>0, <1>3, <1>7, <1>10 DEF PlainOutOK
<1>12. (app'.taken \o Unread(int'.ib)) \o sc'.received
        = (app.taken \o Unread(int.ib)) \o sc.received
  <2>1. (app.taken \o u) \o <<>> = app.taken \o u
    BY <1>9, NothingAdded
  <2> QED
    BY <1>3, <1>5, <1>7, <1>10, <2>1 DEF u
<1>13. QuietExt
  BY <1>0, <1>3, QuietVars
<1>14. ConnOK'
  BY <1>0, <1>3 DEF ConnOK
<1>15. Good(int'.ib)
  BY <1>5, <1>7
<1> QED
  BY <1>1, <1>3, <1>7, <1>10, <1>11, <1>12, <1>13, <1>14, <1>15, EngineInv

(* sc.write_tls: a record becomes a unit of `ext`. *)
LEMMA WriteTlsInv == ASSUME TlsInv, writeTls PROVE TlsInv'
<1>0. TlsTypeOK /\ UnitsOK /\ ConnOK /\ PlainOutOK /\ PlainInOK
  BY DEF TlsInv
<1>1. sc \in Conn /\ recs \in Seq(Record(Nat)) /\ out \in Seq(Nat) /\ wire \in Seq(Nat) /\ written \in Nat
  BY <1>0 DEF TlsTypeOK
<1> DEFINE h == Head(sc.sendable)
           t == Tail(sc.sendable)
           rs == Append(recs, h)
<1>2. /\ sc.sendable \in Seq(Record(Nat)) /\ sc.held \in Seq(Nat) /\ Plain(sc.sendable) \in Seq(Nat)
  BY <1>1, CarriedTyped
<1>3. /\ h \in Record(Nat) /\ t \in Seq(Record(Nat)) /\ Plain(sc.sendable) = h.bytes \o Plain(t)
  BY <1>2, PlainTail DEF writeTls, WantsWrite
<1>4. recs' = rs /\ sc' = [sc EXCEPT !.sendable = t] /\ out' = Append(out, written + 1)
      /\ written' = written + 1
  BY DEF writeTls
<1>5. UNCHANGED <<wire, ib, k, taken, nodelay, engine, int, tpc, peer_recs, app>>
  BY DEF writeTls
<1> HIDE DEF h, t
<1>6. /\ sc' \in Conn /\ sc'.sendable = t /\ sc'.held = sc.held /\ sc'.received = sc.received
      /\ sc'.tls = sc.tls /\ sc'.up = sc.up
  BY <1>1, <1>3, <1>4 DEF Conn
<1>7. rs \in Seq(Record(Nat)) /\ Len(rs) = Len(recs) + 1
  <2> DEFINE R == Record(Nat)
  <2>1. recs \in Seq(R) /\ h \in R
    BY <1>1, <1>3
  <2> HIDE DEF R
  <2>2. rs \in Seq(R) /\ Len(rs) = Len(recs) + 1
    BY <2>1, AppendProperties
  <2> QED
    BY <2>2 DEF R
<1>8. Plain(rs) = Plain(recs) \o h.bytes
  BY <1>1, <1>3, PlainAppend
<1> HIDE DEF rs
<1>9. out' \in Seq(Nat) /\ wire \o out' = Units(0, written + 1)
  <2> DEFINE one == <<written + 1>>
  <2>0. Append(out, written + 1) = out \o one /\ one \in Seq(Nat)
    BY <1>1, AppendIsConcat
  <2>1. out' = out \o one /\ one \in Seq(Nat)
    BY <1>4, <2>0
  <2>2. one = Units(0 + written, 1)
    BY <1>1 DEF Units
  <2> HIDE DEF one
  <2>3. out' \in Seq(Nat)
    BY <1>1, <2>1, ConcatProperties
  <2>4. wire \o (out \o one) = (wire \o out) \o one
    <3>1. Assoc(wire, out, one)
      BY <1>1, <2>1, Reassociate
    <3> QED
      BY <3>1 DEF Assoc
  <2>5. Units(0, written) \o Units(0 + written, 1) = Units(0, written + 1)
    BY <1>1, UnitsJoin
  <2>6. wire \o out = Units(0, written)
    BY <1>0 DEF UnitsOK
  <2> QED
    BY <2>1, <2>2, <2>3, <2>4, <2>5, <2>6
<1>10. Pending' = Pending
  BY <1>5 DEF Pending, Unread
<1>11. UnitsOK'
  <2>1. Len(rs) = written + 1
    BY <1>0, <1>7 DEF UnitsOK
  <2>2. Len(Plain(peer_recs')) <= Len(peer_recs')
    BY <1>0, <1>5 DEF UnitsOK
  <2>3. (wire \o out)' = Units(0, written')
    BY <1>4, <1>5, <1>9
  <2>4. Pending' = Units(Len(taken'), k'.peer - Len(taken'))
    BY <1>0, <1>5, <1>10 DEF UnitsOK
  <2>5. Len(recs') = written' /\ Len(peer_recs') = k'.peer /\ Len(taken') <= k'.peer
    BY <1>0, <1>4, <1>5, <2>1 DEF UnitsOK
  <2> QED
    BY <2>2, <2>3, <2>4, <2>5 DEF UnitsOK, Units, Plain
<1>12. TlsTypeOK'
  <2>1. Good(ib') /\ Good((int.ib)')
    BY <1>0, <1>5 DEF TlsTypeOK
  <2>2. out' \in Seq(Nat) /\ wire' \in Seq(Nat) /\ written' \in Nat
    BY <1>1, <1>4, <1>5, <1>9
  <2>3. sc' \in Conn /\ recs' \in Seq(Record(Nat))
    BY <1>4, <1>6, <1>7
  <2> QED
    BY <1>0, <1>5, <2>1, <2>2, <2>3 DEF TlsTypeOK
<1>13. ConnOK'
  <2>1. sc.tls
    BY <1>0 DEF ConnOK, writeTls, Looping
  <2> QED
    BY <1>0, <1>5, <1>6, <2>1 DEF ConnOK
<1>14. Plain(rs) \o Carried(sc') = Plain(recs) \o Carried(sc)
  <2> DEFINE r == Plain(recs)
             b == h.bytes
             p == Plain(t)
             d == sc.held
  <2>1. r \in Seq(Nat)
    BY <1>1, PlainTyped
  <2>2. b \in Seq(Nat)
    BY <1>3 DEF Record
  <2>3. p \in Seq(Nat)
    BY <1>3, PlainTyped
  <2>4. d \in Seq(Nat)
    BY <1>2
  <2>5. Carried(sc') = p \o d /\ Carried(sc) = (b \o p) \o d /\ Plain(rs) = r \o b
    BY <1>3, <1>6, <1>8 DEF Carried
  <2> HIDE DEF r, b, p, d
  <2>6. p \o d \in Seq(Nat)
    BY <2>3, <2>4, ConcatProperties
  <2>7. (r \o b) \o (p \o d) = r \o (b \o (p \o d))
    <3> DEFINE e == p \o d
    <3>1. e \in Seq(Nat)
      BY <2>6
    <3> HIDE DEF e
    <3>2. Assoc(r, b, e)
      BY <2>1, <2>2, <3>1, Reassociate
    <3> QED
      BY <3>2 DEF Assoc, e
  <2>8. (b \o p) \o d = b \o (p \o d)
    BY <2>2, <2>3, <2>4, ThreePieces
  <2> QED
    BY <2>5, <2>7, <2>8 DEF r
<1>15. PlainOutOK'
  <2>1. (Plain(recs') \o Carried(sc')) \o int'.out = Units(0, app'.put)
    BY <1>0, <1>4, <1>5, <1>14 DEF PlainOutOK
  <2> QED
    BY <2>1 DEF PlainOutOK, Carried, Plain, Units
<1>16. PlainInOK'
  <2>1. ((app'.taken \o Unread(int'.ib)) \o sc'.received) \o Plain(Contents(peer_recs', Pending'))
          = Plain(peer_recs')
    BY <1>0, <1>5, <1>6, <1>10 DEF PlainInOK
  <2> QED
    BY <2>1 DEF PlainInOK, Plain, Contents, Unread
<1> QED
  BY <1>11, <1>12, <1>13, <1>15, <1>16 DEF TlsInv

(* What a peer may send next *)
LEMMA PeerRecordsOK ==
  ASSUME TlsTypeOK, UnitsOK, k.peer < MaxIn, NEW rec \in PeerRecords
  PROVE  /\ rec \in PeerRecord /\ Len(rec.bytes) <= 1
         /\ sc.tls /\ peer_recs # <<>> => rec.t # "hello"
<1> DEFINE n == Len(Plain(peer_recs))
<1>1. \/ rec = Data(<<n + 1>>)
      \/ rec = Rec("hello") /\ peer_recs = <<>>
      \/ rec = Rec("finished") \/ rec = Rec("close")
  BY DEF PeerRecords
<1>2. n + 1 \in Byte
  <2>1. peer_recs \in Seq(Record(Byte))
    BY PeerRecordsTyped DEF TlsTypeOK
  <2>2. Plain(peer_recs) \in Seq(Byte)
    BY <2>1, PlainTyped
  <2>3. n \in Nat
    BY <2>2
  <2> HIDE DEF n
  <2>4. n <= k.peer /\ k.peer \in Nat /\ MaxIn \in Nat
    BY BoundsAssumption DEF UnitsOK, TlsTypeOK, Stream, n
  <2> QED
    BY <2>3, <2>4 DEF Byte
<1> HIDE DEF n
<1>3. CASE rec = Data(<<n + 1>>)
  <2> DEFINE b == n + 1
  <2>1. b \in Byte
    BY <1>2
  <2> HIDE DEF b
  <2>2. <<b>> \in Seq(Byte) /\ Len(<<b>>) <= 1
    BY <2>1
  <2>3. rec = Data(<<b>>)
    BY <1>3 DEF b
  <2> QED
    BY <2>2, <2>3 DEF Data, PeerRecord, Record, Kind
<1>4. ASSUME NEW t \in {"hello", "finished", "close"}, rec = Rec(t)
      PROVE  rec \in PeerRecord /\ Len(rec.bytes) <= 1 /\ rec.t = t
  <2>1. <<>> \in Seq(Byte) /\ Len(<<>>) <= 1
    OBVIOUS
  <2> QED
    BY <1>4, <2>1 DEF Rec, PeerRecord, Record, Kind
<1> QED
  BY <1>1, <1>3, <1>4

(* The records behind the units that wait *)
LEMMA WaitingTyped ==
  ASSUME TlsTypeOK, UnitsOK
  PROVE  Contents(peer_recs, Pending) \in Seq(Record(Byte))
<1> DEFINE T == Len(taken)
           m == Len(Unread(ib)) + Len(k.rbuf)
<1>1. T \in Nat /\ m \in Nat /\ T + m = k.peer /\ Pending = Units(T, m)
  BY PendingFacts
<1> HIDE DEF T, m
<1>2. T + m <= Len(peer_recs)
  BY <1>1 DEF UnitsOK
<1>3. peer_recs \in Seq(Record(Byte))
  BY PeerRecordsTyped DEF TlsTypeOK
<1> DEFINE R == Record(Byte)
<1>4. peer_recs \in Seq(R)
  BY <1>3
<1> HIDE DEF R
<1>5. Contents(peer_recs, Units(T, m)) \in Seq(R)
  BY <1>1, <1>2, <1>4, ContentsUnits
<1> QED
  BY <1>1, <1>5 DEF R

(* The peer sends a record. *)
LEMMA ArriveInv == ASSUME TlsInv, TlsArrive PROVE TlsInv'
<1>0. TlsTypeOK /\ UnitsOK /\ ConnOK /\ PlainOutOK /\ PlainInOK
  BY DEF TlsInv
<1>1. PICK rec \in PeerRecords : peer_recs' = Append(peer_recs, rec)
  BY DEF TlsArrive
<1>2. k.peer < MaxIn
  BY DEF TlsArrive, Arrive
<1>3. /\ rec \in PeerRecord /\ Len(rec.bytes) <= 1
      /\ sc.tls /\ peer_recs # <<>> => rec.t # "hello"
  BY <1>0, <1>2, PeerRecordsOK
<1>4. k \in Stream /\ k.peer \in Nat
  BY <1>0, BoundsAssumption DEF TlsTypeOK, Stream
<1>5. k' \in Stream
  BY <1>4, OtherSideStream DEF TlsArrive
<1>6. k'.peer = k.peer + 1 /\ k'.rbuf = Append(k.rbuf, k.peer + 1)
  BY <1>4 DEF TlsArrive, Arrive, Stream
<1>7. UNCHANGED <<outVars, flagVars, inVars>> /\ UNCHANGED <<sc, engine, int, tpc, recs, app>>
  BY DEF TlsArrive, Arrive
<1> DEFINE T == Len(taken)
           m == Len(Unread(ib)) + Len(k.rbuf)
           prs == Append(peer_recs, rec)
<1>8. T \in Nat /\ m \in Nat /\ T + m = k.peer /\ Pending = Units(T, m)
  BY <1>0, PendingFacts
<1> HIDE DEF T, m
<1>9. peer_recs \in Seq(PeerRecord) /\ Len(peer_recs) = k.peer
  BY <1>0 DEF TlsTypeOK, UnitsOK
<1>10. /\ prs \in Seq(PeerRecord) /\ Len(prs) = k.peer + 1 /\ prs[k.peer + 1] = rec
       /\ \A i \in 1..k.peer : prs[i] = peer_recs[i]
  <2> DEFINE P == PeerRecord
  <2>1. peer_recs \in Seq(P) /\ rec \in P
    BY <1>3, <1>9
  <2> HIDE DEF P
  <2>2. prs \in Seq(P) /\ Len(prs) = Len(peer_recs) + 1 /\ prs[Len(peer_recs) + 1] = rec
        /\ \A i \in 1..Len(peer_recs) : prs[i] = peer_recs[i]
    BY <2>1, AppendProperties
  <2> QED
    BY <1>9, <2>2 DEF P
<1>11. Pending' = Units(T, m + 1)
  <2> DEFINE u == Unread(ib)
             r == k.rbuf
             one == <<k.peer + 1>>
  <2>1. u \in Seq(Byte)
    BY <1>0, UnreadFacts DEF TlsTypeOK
  <2>2. r \in Seq(1..MaxIn)
    BY <1>4 DEF Stream
  <2>3. r \in Seq(Byte)
    BY <2>2, BytesTyped
  <2>4. k.peer + 1 \in Byte
    BY <1>2, <1>4, BoundsAssumption DEF Byte
  <2>5. Append(r, k.peer + 1) = r \o one /\ one \in Seq(Byte)
    <3> DEFINE x == k.peer + 1
    <3>1. x \in Byte
      BY <2>4
    <3> HIDE DEF x, r
    <3>2. Append(r, x) = r \o <<x>> /\ <<x>> \in Seq(Byte)
      BY <2>3, <3>1, AppendIsConcat
    <3> QED
      BY <3>2 DEF x
  <2>6. one = Units(T + m, 1)
    BY <1>4, <1>8 DEF Units
  <2>7. Pending' = u \o (r \o one)
    <3>1. Pending' = Unread(ib') \o k'.rbuf
      BY DEF Pending, Unread
    <3> QED
      BY <1>6, <1>7, <2>5, <3>1
  <2>8. u \o r = Units(T, m)
    BY <1>8 DEF Pending
  <2> HIDE DEF u, r, one
  <2>9. Assoc(u, r, one)
    BY <2>1, <2>3, <2>5, Reassociate
  <2>10. Units(T, m) \o Units(T + m, 1) = Units(T, m + 1)
    BY <1>8, UnitsJoin
  <2> QED
    BY <2>6, <2>7, <2>8, <2>9, <2>10 DEF Assoc
<1>12. peer_recs \in Seq(Record(Byte)) /\ rec \in Record(Byte)
  BY <1>3, <1>9, PeerRecordsTyped DEF PeerRecord
<1>13. Contents(prs, Units(T, m + 1)) = Append(Contents(peer_recs, Units(T, m)), rec)
  <2> DEFINE R == Record(Byte)
  <2>1. peer_recs \in Seq(R) /\ rec \in R
    BY <1>12
  <2>2. T + m = Len(peer_recs)
    BY <1>8, <1>9
  <2> HIDE DEF R
  <2>3. Grown(peer_recs, rec, T, m)
    BY <1>8, <2>1, <2>2, ContentsAppend
  <2> QED
    BY <2>3 DEF Grown
<1>14. Plain(prs) = Plain(peer_recs) \o rec.bytes
  BY <1>12, PlainAppend
<1>15. Plain(peer_recs) \in Seq(Byte)
  BY <1>12, PlainTyped
<1>16. rec.bytes \in Seq(Byte)
  BY <1>12 DEF Record
<1> HIDE DEF prs
<1>17. UnitsOK'
  <2>1. Len(Plain(prs)) <= Len(prs)
    <3> DEFINE p == Plain(peer_recs)
               b == rec.bytes
    <3>1. p \in Seq(Byte) /\ b \in Seq(Byte)
      BY <1>15, <1>16
    <3>2. Len(p) <= k.peer /\ Len(b) <= 1
      BY <1>0, <1>3, <1>9 DEF UnitsOK
    <3> HIDE DEF p, b
    <3>3. Len(p \o b) = Len(p) + Len(b) /\ Len(p) \in Nat
      BY <3>1, ConcatProperties
    <3>4. Len(p \o b) <= k.peer + 1
      <4>1. Len(b) \in Nat /\ Len(b) <= 1
        BY <3>1, <3>2
      <4> QED
        BY <1>4, <3>2, <3>3, <4>1
    <3> QED
      BY <1>10, <1>14, <3>4 DEF p, b
  <2>2. peer_recs' = prs
    BY <1>1 DEF prs
  <2>3. Len(recs') = written' /\ (wire \o out)' = Units(0, written')
    BY <1>0, <1>7 DEF UnitsOK
  <2>4. Len(peer_recs') = k'.peer
    BY <1>6, <1>10, <2>2
  <2>5. k'.peer - Len(taken') = m + 1 /\ Len(taken') = T /\ Len(taken') <= k'.peer
    <3>1. Len(taken') = T
      BY <1>7 DEF T
    <3>2. k'.peer - T = m + 1 /\ T <= k'.peer
      BY <1>6, <1>8
    <3> QED
      BY <3>1, <3>2
  <2>6. Pending' = Units(Len(taken'), k'.peer - Len(taken'))
    BY <1>11, <2>5
  <2>7. Len(Plain(peer_recs')) <= Len(peer_recs')
    BY <2>1, <2>2
  <2> QED
    BY <2>3, <2>4, <2>5, <2>6, <2>7 DEF UnitsOK, Units, Plain
<1>18. TlsTypeOK'
  <2>1. Good(ib') /\ Good((int.ib)')
    BY <1>0, <1>7 DEF TlsTypeOK
  <2>2. peer_recs' \in Seq(PeerRecord)
    BY <1>1, <1>10 DEF prs
  <2> QED
    BY <1>0, <1>5, <1>7, <2>1, <2>2 DEF TlsTypeOK
<1>19. ConnOK'
  <2>1. sc.tls => \A i \in 2..Len(prs) : prs[i].t # "hello"
    <3> SUFFICES ASSUME sc.tls, NEW i \in 2..Len(prs) PROVE prs[i].t # "hello"
      OBVIOUS
    <3>1. CASE i = k.peer + 1
      <4>1. peer_recs # <<>>
        BY <1>4, <1>9, <3>1
      <4> QED
        BY <1>3, <1>10, <3>1, <4>1
    <3>2. CASE i # k.peer + 1
      <4>1. i \in 1..k.peer /\ i \in 2..Len(peer_recs)
        BY <1>4, <1>9, <1>10, <3>2
      <4> QED
        BY <1>0, <1>10, <4>1 DEF ConnOK
    <3> QED
      BY <3>1, <3>2
  <2>2. peer_recs' = prs
    BY <1>1 DEF prs
  <2> QED
    BY <1>0, <1>7, <2>1, <2>2 DEF ConnOK
<1>20. PlainOutOK'
  BY <1>0, <1>7 DEF PlainOutOK, Carried, Plain, Units
<1>21. PlainInOK'
  <2> DEFINE t == app.taken
             u == Unread(int.ib)
             r == sc.received
             a == (t \o u) \o r
             w == Contents(peer_recs, Pending)
             p == Plain(w)
             b == rec.bytes
  <2>1. t \in Seq(Byte)
    BY <1>0 DEF TlsTypeOK
  <2>2. u \in Seq(Byte)
    BY <1>0, UnreadFacts DEF TlsTypeOK
  <2>3. r \in Seq(Byte)
    BY <1>0, CarriedTyped DEF TlsTypeOK
  <2>4. w \in Seq(Record(Byte))
    BY <1>0, WaitingTyped
  <2>5. a \in Seq(Byte)
    <3> HIDE DEF t, u, r
    <3>1. t \o u \in Seq(Byte)
      BY <2>1, <2>2, ConcatProperties
    <3> QED
      BY <2>3, <3>1, ConcatProperties
  <2> HIDE DEF w
  <2>6. p \in Seq(Byte) /\ Plain(Append(w, rec)) = p \o b
    BY <1>12, <2>4, PlainTyped, PlainAppend
  <2>7. a \o p = Plain(peer_recs)
    BY <1>0 DEF PlainInOK, w
  <2>8. Contents(prs, Pending') = Append(w, rec)
    BY <1>8, <1>11, <1>13 DEF w
  <2> HIDE DEF a, p, b
  <2>9. Assoc(a, p, b)
    BY <1>16, <2>5, <2>6, Reassociate DEF b
  <2>10. a \o Plain(Contents(prs, Pending')) = Plain(prs)
    BY <1>14, <2>6, <2>7, <2>8, <2>9 DEF Assoc, b
  <2>11. peer_recs' = prs
    BY <1>1 DEF prs
  <2>12. ((app'.taken \o Unread(int'.ib)) \o sc'.received) \o Plain(Contents(peer_recs', Pending'))
          = Plain(peer_recs')
    BY <1>7, <2>10, <2>11 DEF a
  <2> QED
    BY <2>12 DEF PlainInOK, Plain, Contents, Unread
<1> QED
  BY <1>17, <1>18, <1>19, <1>20, <1>21 DEF TlsInv

(* The units in `ext` are taken out, all at once. *)
LEMMA TakenUnits ==
  ASSUME TlsTypeOK, UnitsOK, taken' = taken \o Unread(ib), Unread(ib') = <<>>,
         UNCHANGED <<k, peer_recs>>
  PROVE  LET cu == Contents(peer_recs, Unread(ib))
             T == Len(taken)
             L == Len(Unread(ib))
         IN /\ taken' \in Seq(Byte) /\ Len(taken') = T + L /\ Len(taken') <= k'.peer
            /\ Pending' = Units(Len(taken'), k'.peer - Len(taken'))
            /\ cu \in Seq(PeerRecord) /\ Len(cu) = L /\ T + L <= Len(peer_recs)
            /\ \A i \in 1..L : cu[i] = peer_recs[T + i]
            /\ Plain(cu) \in Seq(Byte) /\ Plain(Contents(peer_recs, Pending')) \in Seq(Byte)
            /\ Plain(Contents(peer_recs, Pending)) = Plain(cu) \o Plain(Contents(peer_recs, Pending'))
<1> DEFINE U == Unread(ib)
           cu == Contents(peer_recs, U)
           T == Len(taken)
           L == Len(U)
           M == Len(k.rbuf)
           cr == Contents(peer_recs, Units(T + L, M))
<1>1. /\ T \in Nat /\ L \in Nat /\ M \in Nat /\ T + (L + M) = k.peer
      /\ U = Units(T, L) /\ k.rbuf = Units(T + L, M) /\ Pending = Units(T, L + M)
  BY PendingFacts
<1>2. taken \in Seq(Byte) /\ U \in Seq(Byte)
  BY UnreadFacts DEF TlsTypeOK
<1>3. taken' = taken \o U
  OBVIOUS
<1> HIDE DEF U
<1>4. taken' \in Seq(Byte) /\ Len(taken') = T + L
  BY <1>2, <1>3, ConcatProperties
<1>5. Pending' = Units(T + L, M)
  <2>1. Pending' = Unread(ib') \o k'.rbuf
    BY DEF Pending, Unread
  <2>2. k.rbuf \in Seq(1..MaxIn)
    BY DEF TlsTypeOK, Stream
  <2> DEFINE S == 1..MaxIn
             b == k.rbuf
  <2>3. b \in Seq(S)
    BY <2>2
  <2> HIDE DEF S, b
  <2>4. <<>> \o b = b
    BY <2>3, NothingAdded
  <2> QED
    BY <1>1, <2>1, <2>4 DEF b
<1> HIDE DEF T, L, M
<1>6. Len(taken') <= k'.peer /\ k'.peer - Len(taken') = M
  <2>1. k'.peer = T + (L + M)
    BY <1>1
  <2> QED
    BY <1>1, <1>4, <2>1
<1>7. Len(peer_recs) = T + (L + M)
  BY <1>1 DEF UnitsOK
<1>8. T + L <= Len(peer_recs) /\ T + (L + M) <= Len(peer_recs) /\ (T + L) + M <= Len(peer_recs)
      /\ T + L \in Nat
  BY <1>1, <1>7
<1>9. cu \in Seq(PeerRecord) /\ Len(cu) = L /\ \A i \in 1..L : cu[i] = peer_recs[T + i]
  <2> DEFINE P == PeerRecord
  <2>1. peer_recs \in Seq(P)
    BY DEF TlsTypeOK
  <2> HIDE DEF P
  <2>2. /\ Contents(peer_recs, Units(T, L)) \in Seq(P) /\ Len(Contents(peer_recs, Units(T, L))) = L
        /\ \A i \in 1..L : Contents(peer_recs, Units(T, L))[i] = peer_recs[T + i]
    BY <1>1, <1>8, <2>1, ContentsUnits
  <2> QED
    BY <1>1, <2>2 DEF P
<1>10. cu \in Seq(Record(Byte))
  BY <1>9, PeerRecordsTyped
<1>11. peer_recs \in Seq(Record(Byte))
  BY PeerRecordsTyped DEF TlsTypeOK
<1> DEFINE R == Record(Byte)
           cp == Contents(peer_recs, Units(T, L + M))
<1>12. peer_recs \in Seq(R) /\ cu \in Seq(R)
  BY <1>10, <1>11
<1>13. Contents(peer_recs, Units(T, L)) = cu
  BY <1>1
<1> HIDE DEF R, cu
<1>14. cr \in Seq(R)
  BY <1>1, <1>8, <1>12, ContentsUnits
<1>15. cp = cu \o cr
  <2>1. InTwo(peer_recs, T, L, M)
    BY <1>1, <1>8, <1>12, ContentsSplit
  <2> QED
    BY <1>13, <2>1 DEF InTwo
<1> HIDE DEF cr
<1>16. Plain(cu) \in Seq(Byte) /\ Plain(cr) \in Seq(Byte)
  BY <1>12, <1>14, PlainTyped DEF R
<1>17. Plain(cu \o cr) = Plain(cu) \o Plain(cr)
  BY <1>12, <1>14, PlainConcat DEF R
<1>18. Pending' = Units(Len(taken'), k'.peer - Len(taken'))
  BY <1>4, <1>5, <1>6
<1>19. Plain(Contents(peer_recs, Pending)) = Plain(cu) \o Plain(cr)
  BY <1>1, <1>15, <1>17
<1> QED
  BY <1>4, <1>5, <1>6, <1>8, <1>9, <1>16, <1>18, <1>19 DEF cu, cr, U, T, L

(* sc.read_tls, process_new_packets and inp_makespace *)
LEMMA ReadTlsInv == ASSUME TlsInv, NEW spare \in Spare, readTls(spare) PROVE TlsInv'
<1>0. TlsTypeOK /\ UnitsOK /\ ConnOK /\ PlainOutOK /\ PlainInOK
  BY DEF TlsInv
<1>1. sc \in Conn /\ int \in IntType /\ app \in AppType /\ Good(int.ib) /\ Good(ib)
  BY <1>0 DEF TlsTypeOK, IntType, AppType
<1> DEFINE U == Unread(ib)
           cu == Contents(peer_recs, U)
           T == Len(taken)
           L == Len(U)
           p == Plain(cu)
           q == Plain(Contents(peer_recs, Pending'))
<1>2. ib' = [ib EXCEPT !.rd = ib.wr] /\ taken' = taken \o U /\ sc' = ReceiveAll(sc, cu)
  BY DEF readTls
<1>3. \/ UNCHANGED int
      \/ int' = [int EXCEPT !.ib = MakeSpace(@, Len(sc'.received), spare)]
  BY DEF readTls
<1>4. UNCHANGED <<outVars, flagVars, k, engine, recs, peer_recs, app>>
  BY DEF readTls
<1>5. Good(ib') /\ Unread(ib') = <<>>
  BY <1>1, <1>2, EmptiedGood
<1>6. /\ taken' \in Seq(Byte) /\ Len(taken') = T + L /\ Len(taken') <= k'.peer
      /\ Pending' = Units(Len(taken'), k'.peer - Len(taken'))
      /\ cu \in Seq(PeerRecord)
      /\ p \in Seq(Byte) /\ q \in Seq(Byte)
      /\ Plain(Contents(peer_recs, Pending)) = p \o q
  BY <1>0, <1>2, <1>4, <1>5, TakenUnits
<1>7. L \in Nat /\ L # 0 /\ T \in Nat
  <2>1. ib.rd # ib.wr
    BY DEF readTls, WantsRead
  <2>2. L = ib.wr - ib.rd /\ ib.wr \in Nat /\ ib.rd \in Nat
    BY <1>1, UnreadFacts DEF Good, Buffer
  <2>3. T \in Nat /\ L \in Nat
    BY <1>0, PendingFacts
  <2> HIDE DEF L
  <2> QED
    BY <2>1, <2>2, <2>3
<1> HIDE DEF U, cu, T, L, p, q
<1>8. Onward(sc, sc') /\ sc'.received = sc.received \o p
  <2>1. sc.up => sc.held = <<>>
    BY <1>0 DEF ConnOK
  <2> QED
    BY <1>1, <1>2, <1>6, <2>1, ReceiveAllOnward DEF p
<1>9. sc' \in Conn /\ sc'.tls = sc.tls /\ (sc'.up => sc'.held = <<>>) /\ Carried(sc') = Carried(sc)
      /\ sc'.held \in {sc.held, <<>>}
  BY <1>8 DEF Onward, Carried
<1>10. sc.tls
  BY <1>0 DEF ConnOK, readTls, Looping
<1>11. int' \in IntType /\ Good(int'.ib) /\ int'.out = int.out /\ Unread(int'.ib) = Unread(int.ib)
  <2>1. CASE UNCHANGED int
    BY <1>1, <2>1
  <2>2. CASE int' = [int EXCEPT !.ib = MakeSpace(@, Len(sc'.received), spare)]
    <3> DEFINE n == Len(sc'.received)
               c == MakeSpace(int.ib, n, spare)
    <3>1. n \in Nat
      BY <1>9, CarriedTyped
    <3>2. spare \in Nat
      BY ArgsAssumption
    <3> HIDE DEF n
    <3>3. Good(c) /\ Unread(c) = Unread(int.ib)
      BY <1>1, <3>1, <3>2, MakeSpaceGood
    <3>4. int' = [int EXCEPT !.ib = c]
      BY <2>2 DEF n
    <3> HIDE DEF c
    <3>5. int' \in IntType /\ int'.out = int.out /\ int'.ib = c
      BY <1>1, <3>3, <3>4 DEF IntType, Good
    <3> QED
      BY <3>3, <3>5
  <2> QED
    BY <1>3, <2>1, <2>2
<1>12. UnitsOK'
  <2>1. Len(recs') = written' /\ (wire \o out)' = Units(0, written') /\ Len(peer_recs') = k'.peer
    BY <1>0, <1>4 DEF UnitsOK
  <2>2. Len(Plain(peer_recs')) <= Len(peer_recs')
    BY <1>0, <1>4 DEF UnitsOK
  <2> QED
    BY <1>6, <2>1, <2>2 DEF UnitsOK, Units, Plain
<1>13. TlsTypeOK'
  <2>1. Good((int.ib)')
    BY <1>11
  <2> QED
    BY <1>0, <1>4, <1>5, <1>6, <1>9, <1>11, <2>1 DEF TlsTypeOK, IntType
<1>14. ConnOK'
  <2>1. Len(<<>>) = 0
    OBVIOUS
  <2>2. taken' # <<>>
    BY <1>6, <1>7, <2>1
  <2>3. Len(sc'.held) <= Limit
    <3>1. Len(<<>>) <= Limit
      BY LimitAssumption
    <3> QED
      BY <1>0, <1>9, <3>1 DEF ConnOK
  <2> QED
    BY <1>0, <1>4, <1>9, <1>10, <2>2, <2>3 DEF ConnOK
<1>15. PlainOutOK'
  <2>1. (Plain(recs') \o Carried(sc')) \o int'.out = Units(0, app'.put)
    BY <1>0, <1>4, <1>9, <1>11 DEF PlainOutOK
  <2> QED
    BY <2>1 DEF PlainOutOK, Carried, Plain, Units
<1>16. PlainInOK'
  <2> DEFINE t == app.taken
             u == Unread(int.ib)
             a == t \o u
             r == sc.received
  <2>1. t \in Seq(Byte)
    BY <1>1 DEF AppType
  <2>2. u \in Seq(Byte)
    BY <1>1, UnreadFacts
  <2>3. r \in Seq(Byte)
    BY <1>1, CarriedTyped
  <2> HIDE DEF t, u, r
  <2>4. a \in Seq(Byte)
    BY <2>1, <2>2, ConcatProperties
  <2> HIDE DEF a
  <2>5. Regroup(a, r, p, q)
    BY <1>6, <2>3, <2>4, FourPieces
  <2>6. (a \o r) \o (p \o q) = Plain(peer_recs)
    BY <1>0, <1>6 DEF PlainInOK, a, t, u, r
  <2>7. (a \o (r \o p)) \o q = Plain(peer_recs)
    BY <2>5, <2>6 DEF Regroup
  <2>8. ((app'.taken \o Unread(int'.ib)) \o sc'.received) \o Plain(Contents(peer_recs', Pending'))
          = Plain(peer_recs')
    BY <1>4, <1>8, <1>11, <2>7 DEF a, t, u, r, q
  <2> QED
    BY <2>8 DEF PlainInOK, Plain, Contents, Unread
<1> QED
  BY <1>12, <1>13, <1>14, <1>15, <1>16 DEF TlsInv

(* exchange, without TLS *)
LEMMA ProcessPassInv == ASSUME TlsInv, NEW spare \in Spare, processPass(spare) PROVE TlsInv'
<1>0. TlsTypeOK /\ UnitsOK /\ ConnOK /\ PlainOutOK /\ PlainInOK
  BY DEF TlsInv
<1>1. sc \in Conn /\ int \in IntType /\ app \in AppType /\ engine \in EngineType /\ Good(int.ib)
      /\ Good(ib)
  BY <1>0 DEF TlsTypeOK, IntType, AppType, EngineType
<1>2. int.out \in Seq(Nat) /\ recs \in Seq(Record(Nat)) /\ written \in Nat /\ out \in Seq(Nat)
      /\ wire \in Seq(Nat)
  BY <1>0 DEF TlsTypeOK
<1> DEFINE io == int.out
           n == Len(io)
           U == Unread(ib)
           cu == Contents(peer_recs, U)
           p == Plain(cu)
           q == Plain(Contents(peer_recs, Pending'))
           b == MakeSpace(int.ib, Len(p), spare)
           c == [b EXCEPT !.inp = CopyTo(b, b.wr, p), !.wr = @ + Len(p)]
           d == IF p = <<>> THEN int.ib ELSE c
           rs == [i \in DOMAIN io |-> Data(<<io[i]>>)]
           us == [i \in DOMAIN io |-> written + i]
<1>3. out' = out \o us /\ recs' = recs \o rs /\ written' = written + n
  BY DEF processPass, exchange
<1>4. taken' = taken \o U /\ ib' = OffsetsReset
  BY DEF processPass, exchange
<1>5. int' = [int EXCEPT !.out = <<>>, !.inp_eof = InpEofExchanged, !.ib = d]
  BY DEF processPass, exchange
<1>6. UNCHANGED <<wire, nodelay, k, sc, tpc, peer_recs, app>> /\ ~sc.tls
  BY DEF processPass
<1>7. engine' \in EngineType
  <2>1. engine' = [engine EXCEPT !.inp_eof = "Close"] \/ engine' = engine
    BY DEF processPass
  <2> QED
    BY <1>1, <2>1 DEF EngineType
<1>8. Good(ib') /\ Unread(ib') = <<>>
  <2>1. CASE ib.rd # ib.wr
    <3>1. ib' = [ib EXCEPT !.rd = 0, !.wr = 0]
      BY <1>4, <2>1 DEF OffsetsReset
    <3>2. ib \in Buffer /\ ib.inp \in Seq(Byte) /\ Len(ib.inp) \in Nat
      BY <1>1 DEF Good, Buffer
    <3>3. ib' \in Buffer /\ ib'.rd = 0 /\ ib'.wr = 0 /\ ib'.inp = ib.inp
      BY <3>1, <3>2 DEF Buffer
    <3>4. Good(ib')
      BY <3>2, <3>3 DEF Good
    <3>5. Unread(ib') \in Seq(Byte) /\ Len(Unread(ib')) = 0
      <4> DEFINE e == ib'
      <4>1. Good(e) /\ e.wr - e.rd = 0
        BY <3>3, <3>4
      <4> HIDE DEF e
      <4>2. Unread(e) \in Seq(Byte) /\ Len(Unread(e)) = e.wr - e.rd
        BY <4>1, UnreadFacts
      <4>3. Unread(e) \in Seq(Byte) /\ Len(Unread(e)) = 0
        BY <4>1, <4>2
      <4> QED
        BY <4>3 DEF e, Unread
    <3> DEFINE v == Unread(ib')
    <3>6. v \in Seq(Byte) /\ Len(v) = 0
      BY <3>5
    <3> HIDE DEF v
    <3>7. v = <<>>
      BY <3>6
    <3> QED
      BY <3>4, <3>7 DEF v
  <2>2. CASE ib.rd = ib.wr
    <3>1. ib' = ib
      BY <1>4, <2>2 DEF OffsetsReset
    <3>2. Unread(ib) \in Seq(Byte) /\ Len(Unread(ib)) = ib.wr - ib.rd /\ ib.wr \in Nat
      BY <1>1, UnreadFacts DEF Good, Buffer
    <3>3. Len(Unread(ib)) = 0
      BY <2>2, <3>2
    <3> DEFINE v == Unread(ib)
    <3>4. v \in Seq(Byte) /\ Len(v) = 0
      BY <3>2, <3>3
    <3> HIDE DEF v
    <3>5. v = <<>>
      BY <3>4
    <3>6. Unread(ib) = <<>>
      BY <3>5 DEF v
    <3> QED
      BY <1>1, <3>1, <3>6
  <2> QED
    BY <2>1, <2>2
<1>9. /\ taken' \in Seq(Byte) /\ Len(taken') <= k'.peer
      /\ Pending' = Units(Len(taken'), k'.peer - Len(taken'))
      /\ p \in Seq(Byte) /\ q \in Seq(Byte)
      /\ Plain(Contents(peer_recs, Pending)) = p \o q
  BY <1>0, <1>4, <1>6, <1>8, TakenUnits
<1> HIDE DEF U, cu, p, q
<1>10. Good(d) /\ Unread(d) = Unread(int.ib) \o p
  <2>1. CASE p = <<>>
    <3>1. Unread(int.ib) \in Seq(Byte)
      BY <1>1, UnreadFacts
    <3>2. Unread(int.ib) \o <<>> = Unread(int.ib)
      BY <3>1, NothingAdded
    <3> QED
      BY <1>1, <2>1, <3>2
  <2>2. CASE p # <<>>
    <3>1. Len(p) \in Nat /\ spare \in Nat
      BY <1>9, ArgsAssumption
    <3>2. Good(b) /\ Fits(b, Len(p)) /\ Unread(b) = Unread(int.ib)
      BY <1>1, <3>1, MakeSpaceGood
    <3> HIDE DEF b
    <3>3. b.wr + Len(p) <= Len(b.inp)
      BY <3>2 DEF Fits
    <3>4. Good(c) /\ Unread(c) = Unread(b) \o p
      BY <1>9, <3>2, <3>3, FillGood
    <3> QED
      BY <2>2, <3>2, <3>4
  <2> QED
    BY <2>1, <2>2
<1> HIDE DEF b, c, d
<1>11. int' \in IntType /\ int'.out = <<>> /\ int'.ib = d
  <2>1. d \in Buffer
    BY <1>10 DEF Good
  <2>2. <<>> \in Seq(Nat) /\ InpEofExchanged \in BOOLEAN
    BY DEF InpEofExchanged
  <2> QED
    BY <1>1, <1>5, <2>1, <2>2 DEF IntType
<1>12. n \in Nat /\ DOMAIN io = 1..n /\ \A i \in 1..n : io[i] \in Nat
  BY <1>2
<1>13. us = Units(0 + written, n)
  BY <1>2, <1>12 DEF Units
<1>14. rs \in Seq(Record(Nat)) /\ Len(rs) = n /\ Plain(rs) = io
  <2>1. rs = [i \in 1..n |-> Data(<<io[i]>>)]
    BY <1>12
  <2>2. \A i \in 1..n : Data(<<io[i]>>) \in Record(Nat) /\ Data(<<io[i]>>).bytes = <<io[i]>>
    <3>1. ASSUME NEW x \in Nat PROVE Data(<<x>>) \in Record(Nat) /\ Data(<<x>>).bytes = <<x>>
      <4>1. <<x>> \in Seq(Nat)
        OBVIOUS
      <4> QED
        BY <4>1 DEF Data, Record, Kind
    <3> QED
      BY <1>12, <3>1
  <2> DEFINE R == Record(Nat)
  <2>3. \A i \in 1..n : Data(<<io[i]>>) \in R
    BY <2>2
  <2> HIDE DEF R, rs, io
  <2>4. rs \in [1..n -> R]
    BY <2>1, <2>3
  <2> HIDE DEF n
  <2>5. rs \in Seq(R) /\ Len(rs) = n /\ DOMAIN rs = 1..n
    BY <1>12, <2>4
  <2>6. [i \in DOMAIN rs |-> rs[i].bytes] = [i \in 1..n |-> <<io[i]>>]
    BY <2>1, <2>2, <2>5
  <2>7. FlattenSeq([i \in 1..n |-> <<io[i]>>]) = io
    <3>1. io \in Seq(Nat)
      BY <1>2 DEF io
    <3> QED
      BY <3>1, FlattenSeqSingles DEF n
  <2>8. Plain(rs) = io
    BY <2>6, <2>7 DEF Plain
  <2> QED
    BY <2>5, <2>8 DEF R
<1> HIDE DEF rs, us, io
<1>15. recs' \in Seq(Record(Nat)) /\ Len(recs') = Len(recs) + n
  <2> DEFINE R == Record(Nat)
  <2>1. recs \in Seq(R) /\ rs \in Seq(R)
    BY <1>2, <1>14
  <2> HIDE DEF R
  <2>2. recs \o rs \in Seq(R) /\ Len(recs \o rs) = Len(recs) + Len(rs)
    BY <2>1, ConcatProperties
  <2> QED
    BY <1>3, <1>14, <2>2 DEF R
<1>16. Plain(recs') = Plain(recs) \o io
  <2>1. Plain(recs \o rs) = Plain(recs) \o Plain(rs)
    BY <1>2, <1>14, PlainConcat
  <2> QED
    BY <1>3, <1>14, <2>1
<1> HIDE DEF n
<1>17. out' \in Seq(Nat) /\ wire \o out' = Units(0, written + n)
  <2>1. us \in Seq(Nat)
    BY <1>2, <1>12, <1>13, UnitsTyped
  <2>2. Assoc(wire, out, us)
    BY <1>2, <2>1, Reassociate
  <2>3. out \o us \in Seq(Nat)
    BY <1>2, <2>1, ConcatProperties
  <2>4. Units(0, written) \o Units(0 + written, n) = Units(0, written + n)
    BY <1>2, <1>12, UnitsJoin
  <2>5. wire \o out = Units(0, written)
    BY <1>0 DEF UnitsOK
  <2> QED
    BY <1>3, <1>13, <2>2, <2>3, <2>4, <2>5 DEF Assoc
<1>18. UnitsOK'
  <2>1. Len(recs') = written'
    BY <1>0, <1>3, <1>15 DEF UnitsOK
  <2>2. (wire \o out)' = Units(0, written')
    BY <1>3, <1>6, <1>17
  <2>3. Len(peer_recs') = k'.peer /\ Len(Plain(peer_recs')) <= Len(peer_recs')
    BY <1>0, <1>6 DEF UnitsOK
  <2> QED
    BY <1>9, <2>1, <2>2, <2>3 DEF UnitsOK, Units, Plain
<1>19. TlsTypeOK'
  <2>1. Good((int.ib)')
    BY <1>10, <1>11
  <2>2. written' \in Nat
    BY <1>2, <1>3, <1>12
  <2> QED
    BY <1>0, <1>6, <1>7, <1>8, <1>9, <1>11, <1>15, <1>17, <2>1, <2>2
       DEF TlsTypeOK, IntType, EngineType
<1>20. sc.held = <<>> /\ sc.sendable = <<>> /\ sc.received = <<>>
  BY <1>0, <1>6 DEF ConnOK
<1>21. ConnOK'
  <2>1. sc.up => taken' # <<>>
    <3> SUFFICES ASSUME sc.up PROVE taken' # <<>>
      OBVIOUS
    <3>1. taken # <<>> /\ taken \in Seq(Byte) /\ U \in Seq(Byte)
      BY <1>0, <1>1, UnreadFacts DEF ConnOK, TlsTypeOK, U
    <3> QED
      BY <1>4, <3>1
  <2> QED
    BY <1>0, <1>6, <2>1 DEF ConnOK
<1>22. PlainOutOK'
  <2>1. Carried(sc) = <<>>
    <3>1. <<>> \o <<>> = <<>>
      OBVIOUS
    <3> QED
      BY <1>20, <3>1, PlainEmpty DEF Carried
  <2> DEFINE r == Plain(recs)
             s == r \o io
  <2>2. r \in Seq(Nat) /\ io \in Seq(Nat)
    BY <1>2, PlainTyped DEF io
  <2> HIDE DEF r
  <2>3. s \in Seq(Nat) /\ r \o <<>> = r
    BY <2>2, ConcatProperties, NothingAdded
  <2>4. (r \o <<>>) \o io = Units(0, app.put)
    BY <1>0, <2>1 DEF PlainOutOK, r, io
  <2> HIDE DEF s
  <2>5. (s \o <<>>) \o <<>> = s
    BY <2>3, NothingAdded
  <2>6. (Plain(recs') \o Carried(sc')) \o int'.out = Units(0, app'.put)
    BY <1>6, <1>11, <1>16, <2>1, <2>3, <2>4, <2>5 DEF s, r
  <2> QED
    BY <2>6 DEF PlainOutOK, Carried, Plain, Units
<1>23. PlainInOK'
  <2> DEFINE t == app.taken
             u == Unread(int.ib)
             a == t \o u
             up == u \o p
             e == t \o up
  <2>1. t \in Seq(Byte)
    BY <1>1 DEF AppType
  <2>2. u \in Seq(Byte)
    BY <1>1, UnreadFacts
  <2> HIDE DEF t, u
  <2>3. a \in Seq(Byte)
    BY <2>1, <2>2, ConcatProperties
  <2>4. up \in Seq(Byte)
    BY <1>9, <2>2, ConcatProperties
  <2> HIDE DEF up
  <2>5. e \in Seq(Byte)
    BY <2>1, <2>4, ConcatProperties
  <2> HIDE DEF a, e
  <2>6. a \o <<>> = a /\ e \o <<>> = e
    BY <2>3, <2>5, NothingAdded
  <2>7. Regroup(t, u, p, q)
    BY <1>9, <2>1, <2>2, FourPieces
  <2>8. e \o q = a \o (p \o q)
    BY <2>7 DEF Regroup, a, e, up
  <2>9. (a \o <<>>) \o (p \o q) = Plain(peer_recs)
    BY <1>0, <1>9, <1>20 DEF PlainInOK, a, t, u
  <2>10. (e \o <<>>) \o q = Plain(peer_recs)
    BY <2>6, <2>8, <2>9
  <2>11. ((app'.taken \o Unread(int'.ib)) \o sc'.received) \o Plain(Contents(peer_recs', Pending'))
          = Plain(peer_recs')
    BY <1>6, <1>10, <1>11, <1>20, <2>10 DEF e, up, t, u, q
  <2> QED
    BY <2>11 DEF PlainInOK, Plain, Contents, Unread
<1> QED
  BY <1>18, <1>19, <1>21, <1>22, <1>23 DEF TlsInv

LEMMA TlsNextInv == ASSUME TlsInv, [TlsNext]_allVars PROVE TlsInv'
<1>1. CASE World
  BY <1>1, ArriveInv, QuietStepsInv DEF World
<1>2. CASE FlushStep /\ UNCHANGED tlsVars
  BY <1>2, QuietStepsInv
<1>3. CASE process
  BY <1>3, ProcessPassInv, QuietStepsInv DEF process
<1>4. CASE ProcessStep
  BY <1>4, WriteTlsInv, WritePlainInv, SendCloseNotifyInv, ReadTlsInv, ReaderDataInv, QuietStepsInv
     DEF ProcessStep
<1>5. CASE appWrite \/ appEof \/ appTake
  BY <1>5, AppWriteInv, AppTakeInv, QuietStepsInv
<1>6. CASE unpause \/ extFlush \/ \E max \in Maxes, spare \in Spare : extRead(max, spare)
  BY <1>6, QuietStepsInv
<1>7. CASE UNCHANGED allVars
  BY <1>7, QuietStepsInv
<1> QED
  BY <1>1, <1>2, <1>3, <1>4, <1>5, <1>6, <1>7 DEF TlsNext

THEOREM TlsInvariance == TlsSpec => []TlsInv
<1>1. TlsInit => TlsInv
  BY TlsInitInv
<1>2. TlsInv /\ [TlsNext]_allVars => TlsInv'
  BY TlsNextInv
<1> QED
  BY <1>1, <1>2, PTL DEF TlsSpec

(* The units in `ext` and on the wire stand for the records, each in its place. *)
LEMMA WrittenRecords ==
  ASSUME TlsInv
  PROVE  Contents(recs, wire \o out) = recs
<1>1. recs \in Seq(Record(Nat)) /\ Len(recs) = written /\ wire \o out = Units(0, written)
  BY DEF TlsInv, TlsTypeOK, UnitsOK
<1>2. Units(0, Len(recs)) = [i \in 1..Len(recs) |-> i]
  <2>1. \A i \in 1..Len(recs) : 0 + i = i
    OBVIOUS
  <2> QED
    BY <2>1 DEF Units
<1> DEFINE R == Record(Nat)
<1>3. recs \in Seq(R)
  BY <1>1
<1> HIDE DEF R
<1>4. Contents(recs, [i \in 1..Len(recs) |-> i]) = recs
  BY <1>3, ContentsAll
<1> QED
  BY <1>1, <1>2, <1>4

(* process loses, repeats and reorders no plain byte, with TLS or without,
   before, during and after the handshake, whatever the writer accepts and
   however the buffers grow (tls_rustls.rs, TlsServerEngine::process, and
   TcpStreamBuf::exchange). *)
THEOREM PlainKept == TlsSpec => []PlainIntact
<1>1. TlsInv => PlainIntact
  <2> SUFFICES ASSUME TlsInv PROVE PlainIntact
    OBVIOUS
  <2>0. TlsTypeOK /\ PlainOutOK /\ PlainInOK /\ UnitsOK
    BY DEF TlsInv
  <2>1. Plain(Contents(recs, wire \o out)) \o Plain(sc.sendable) \o sc.held \o int.out
          = [i \in 1..app.put |-> i]
    <3> DEFINE r == Plain(recs)
               s == Plain(sc.sendable)
               h == sc.held
    <3>1. r \in Seq(Nat)
      BY <2>0, PlainTyped DEF TlsTypeOK
    <3>2. s \in Seq(Nat) /\ h \in Seq(Nat)
      BY <2>0, CarriedTyped DEF TlsTypeOK
    <3> HIDE DEF r, s, h
    <3>3. Assoc(r, s, h)
      BY <3>1, <3>2, Reassociate
    <3>4. (r \o (s \o h)) \o int.out = Units(0, app.put)
      BY <2>0 DEF PlainOutOK, Carried, r, s, h
    <3>5. Units(0, app.put) = [i \in 1..app.put |-> i]
      <4>1. \A i \in 1..app.put : 0 + i = i
        OBVIOUS
      <4> QED
        BY <4>1 DEF Units
    <3>6. ((r \o s) \o h) \o int.out = [i \in 1..app.put |-> i]
      BY <3>3, <3>4, <3>5 DEF Assoc
    <3> QED
      BY <3>6, WrittenRecords DEF r, s, h
  <2>2. ((app.taken \o Unread(int.ib)) \o sc.received)
            \o Plain(Contents(peer_recs, Unread(ib) \o k.rbuf))
          = Plain(peer_recs)
    BY <2>0 DEF PlainInOK, Pending
  <2> QED
    BY <2>1, <2>2 DEF PlainIntact
<1> QED
  BY <1>1, TlsInvariance, PTL

-----------------------------------------------------------------------------
(* close_notify.  That the application sets out_eof only once the handshake is
   over is needed: MCTlsEarlyEof.cfg shows what happens otherwise. *)

(* Only the last record is a close_notify. *)
Closing(s) ==
  /\ Len(s) # 0 /\ s[Len(s)].t = "close"
  /\ \A i \in 1..Len(s) : s[i].t = "close" => i = Len(s)

CloseOK ==
  sc.tls =>
    /\ int.out_eof => sc.up
    /\ out_eof => engine.sent_out_eof
    /\ k.shut => out_eof
    /\ engine.sent_out_eof =>
         /\ int.out_eof /\ int.out = <<>>
         /\ \/ sc.sendable = <<>> /\ Closing(recs)
            \/ NoClose(recs) /\ Closing(sc.sendable)
    /\ ~engine.sent_out_eof => NoClose(recs) /\ NoClose(sc.sendable)

LEMMA TlsInitClose == TlsInit => CloseOK
<1>1. TlsInit => sc.sendable = <<>> /\ recs = <<>>
  BY DEF TlsInit
<1>2. NoClose(<<>>)
  <2>1. 1..Len(<<>>) = {}
    OBVIOUS
  <2> QED
    BY <2>1 DEF NoClose
<1>3. TlsInit => ~int.out_eof /\ ~out_eof /\ ~k.shut /\ ~engine.sent_out_eof
  BY DEF TlsInit, NewStream
<1> QED
  BY <1>1, <1>2, <1>3 DEF CloseOK

(* Steps that leave the records alone *)
LEMMA QuietClose ==
  ASSUME CloseOK, QuietExt, UNCHANGED recs, int'.out = int.out, int'.out_eof = int.out_eof,
         engine'.sent_out_eof = engine.sent_out_eof, sc'.tls = sc.tls,
         sc'.up = sc.up, sc'.sendable = sc.sendable
  PROVE  CloseOK'
<1>1. out_eof' = out_eof /\ (k'.shut => k.shut \/ out_eof)
  BY DEF QuietExt
<1>2. (NoClose(recs))' <=> NoClose(recs)
  BY DEF NoClose
<1>3. (NoClose(sc.sendable))' <=> NoClose(sc.sendable)
  BY DEF NoClose
<1>4. (Closing(recs))' <=> Closing(recs)
  BY DEF Closing
<1>5. (Closing(sc.sendable))' <=> Closing(sc.sendable)
  BY DEF Closing
<1> QED
  BY <1>1, <1>2, <1>3, <1>4, <1>5 DEF CloseOK

LEMMA QuietCloseSteps ==
  ASSUME TlsInv, CloseOK,
         \/ (MoveOut \/ PeerEof \/ FlushStep) /\ UNCHANGED tlsVars
         \/ unpause \/ extFlush \/ (\E max \in Maxes, spare \in Spare : extRead(max, spare))
         \/ processEnter \/ processReturn \/ tlsError \/ readerEof \/ readerWouldBlock
         \/ readerData \/ appTake
         \/ UNCHANGED allVars
  PROVE  CloseOK'
<1>0. TlsTypeOK
  BY DEF TlsInv
<1>1. QuietExt
  <2>1. CASE readerData \/ appTake
    <3>1. UNCHANGED vars
      BY <2>1 DEF readerData, appTake
    <3> QED
      BY <1>0, <3>1, QuietVars
  <2> QED
    BY <2>1, QuietStepsInv
<1>2. UNCHANGED recs
  BY DEF unpause, extFlush, extRead, processEnter, processReturn, tlsError, readerEof,
     readerWouldBlock, readerData, appTake
<1>3. sc \in Conn /\ int \in IntType /\ engine \in EngineType
  BY <1>0 DEF TlsTypeOK, IntType, EngineType
<1>4. engine'.sent_out_eof = engine.sent_out_eof
  <2>1. UNCHANGED engine \/ engine' = [engine EXCEPT !.inp_eof = "Close"]
    BY DEF unpause, extFlush, extRead, processEnter, processReturn, tlsError, readerEof,
       readerWouldBlock, readerData, appTake
  <2> QED
    BY <1>3, <2>1 DEF EngineType
<1>5. int'.out = int.out /\ int'.out_eof = int.out_eof
  <2>1. CASE readerData \/ appTake
    BY <1>3, <2>1 DEF readerData, appTake, IntType
  <2>2. CASE ~(readerData \/ appTake)
    BY <2>2 DEF unpause, extFlush, extRead, processEnter, processReturn, tlsError, readerEof,
       readerWouldBlock
  <2> QED
    BY <2>1, <2>2
<1>6. sc'.tls = sc.tls /\ sc'.up = sc.up /\ sc'.sendable = sc.sendable
  <2>1. CASE readerData
    BY <1>3, <2>1 DEF readerData, Conn
  <2>2. CASE ~readerData
    BY <2>2 DEF unpause, extFlush, extRead, processEnter, processReturn, tlsError, readerEof,
       readerWouldBlock, appTake
  <2> QED
    BY <2>1, <2>2
<1> QED
  BY <1>1, <1>2, <1>4, <1>5, <1>6, QuietClose

(* Steps that concern the peer, or the application before its EOF *)
LEMMA OtherClose ==
  ASSUME ~EarlyEof, TlsInv, CloseOK,
         TlsArrive \/ appWrite \/ appEof \/ \E spare \in Spare : processPass(spare)
  PROVE  CloseOK'
<1>1. UNCHANGED sc
  BY DEF TlsArrive, appWrite, appEof, processPass
<1> SUFFICES ASSUME sc.tls PROVE CloseOK'
  BY <1>1 DEF CloseOK
<1>2. ~(\E spare \in Spare : processPass(spare))
  BY DEF processPass
<1>3. UNCHANGED <<recs, engine, out_eof>>
  BY <1>2 DEF TlsArrive, Arrive, appWrite, appEof
<1>4. k'.shut = k.shut
  <2>1. k \in Stream
    BY DEF TlsInv, TlsTypeOK
  <2> QED
    BY <1>2, <2>1 DEF TlsArrive, Arrive, appWrite, appEof, Stream
<1>5. int \in IntType
  BY DEF TlsInv, TlsTypeOK, IntType
<1>6. CASE TlsArrive
  <2>1. UNCHANGED int
    BY <1>6 DEF TlsArrive
  <2> QED
    BY <1>1, <1>3, <1>4, <2>1 DEF CloseOK, NoClose, Closing
<1>7. CASE appWrite
  <2>1. ~int.out_eof /\ int'.out_eof = int.out_eof
    BY <1>5, <1>7 DEF appWrite, IntType
  <2> QED
    BY <1>1, <1>3, <1>4, <2>1 DEF CloseOK, NoClose, Closing
<1>8. CASE appEof
  <2>1. ~int.out_eof /\ sc.up
    BY <1>8 DEF appEof
  <2> QED
    BY <1>1, <1>3, <1>4, <2>1 DEF CloseOK, NoClose, Closing
<1> QED
  BY <1>2, <1>6, <1>7, <1>8

(* A record moves from the ServerConnection to `ext`. *)
LEMMA HeadMoves ==
  ASSUME NEW r \in Seq(Record(Nat)), NEW s \in Seq(Record(Nat)), s # <<>>, NoClose(r)
  PROVE  LET rh == Append(r, Head(s))
             t == Tail(s)
         IN /\ NoClose(s) => NoClose(rh) /\ NoClose(t)
            /\ Closing(s) => \/ t = <<>> /\ Closing(rh)
                             \/ NoClose(rh) /\ Closing(t)
<1> DEFINE R == Record(Nat)
           h == Head(s)
           rh == Append(r, h)
           t == Tail(s)
           m == Len(r)
           n == Len(s)
<1>0. r \in Seq(R) /\ s \in Seq(R)
  OBVIOUS
<1> HIDE DEF R
<1>1. n \in Nat /\ n # 0 /\ m \in Nat
  BY <1>0
<1>2. h = s[1] /\ h \in R
  BY <1>0
<1>3. t \in Seq(R) /\ Len(t) = n - 1 /\ \A i \in 1..Len(t) : t[i] = s[i + 1]
  BY <1>0, HeadTailProperties
<1> HIDE DEF h
<1>4. Len(rh) = m + 1 /\ rh[m + 1] = h /\ \A i \in 1..m : rh[i] = r[i]
  BY <1>0, <1>2, AppendProperties
<1> HIDE DEF rh, t, m, n
<1>5. \A i \in 1..m : rh[i].t # "close"
  BY <1>4 DEF NoClose, m
<1>6. ASSUME h.t # "close" PROVE NoClose(rh)
  <2>1. \A i \in 1..(m + 1) : i = m + 1 \/ i \in 1..m
    BY <1>1
  <2> QED
    BY <1>4, <1>5, <1>6, <2>1 DEF NoClose
<1>7. ASSUME h.t = "close" PROVE Closing(rh)
  <2>1. \A i \in 1..(m + 1) : i = m + 1 \/ i \in 1..m
    BY <1>1
  <2>2. m + 1 # 0
    BY <1>1
  <2> QED
    BY <1>4, <1>5, <1>7, <2>1, <2>2 DEF Closing
<1>8. \A i \in 1..(n - 1) : i + 1 \in 1..n /\ t[i] = s[i + 1]
  BY <1>1, <1>3
<1>9. 1 \in 1..n
  BY <1>1
<1>10. NoClose(s) => NoClose(rh) /\ NoClose(t)
  <2> SUFFICES ASSUME NoClose(s) PROVE NoClose(rh) /\ NoClose(t)
    OBVIOUS
  <2>1. \A i \in 1..n : s[i].t # "close"
    BY DEF NoClose, n
  <2>2. h.t # "close"
    BY <1>2, <1>9, <2>1
  <2>3. NoClose(t)
    BY <1>3, <1>8, <2>1 DEF NoClose
  <2> QED
    BY <1>6, <2>2, <2>3
<1>11. Closing(s) => (t = <<>> /\ Closing(rh)) \/ (NoClose(rh) /\ Closing(t))
  <2> SUFFICES ASSUME Closing(s)
               PROVE  (t = <<>> /\ Closing(rh)) \/ (NoClose(rh) /\ Closing(t))
    OBVIOUS
  <2>1. s[n].t = "close" /\ \A i \in 1..n : s[i].t = "close" => i = n
    BY DEF Closing, n
  <2>2. CASE n = 1
    <3>1. t = <<>>
      BY <1>3, <2>2
    <3>2. h.t = "close"
      BY <1>2, <2>1, <2>2
    <3> QED
      BY <1>7, <3>1, <3>2
  <2>3. CASE n # 1
    <3>1. h.t # "close"
      BY <1>2, <1>9, <2>1, <2>3
    <3>2. n - 1 \in 1..(n - 1) /\ (n - 1) + 1 = n /\ n - 1 # 0
      BY <1>1, <2>3
    <3>3. t[n - 1].t = "close"
      BY <1>8, <2>1, <3>2
    <3>4. ASSUME NEW i \in 1..(n - 1), t[i].t = "close" PROVE i = n - 1
      <4>1. i + 1 \in 1..n /\ s[i + 1].t = "close"
        BY <1>8, <3>4
      <4>2. i + 1 = n
        BY <2>1, <4>1
      <4> QED
        BY <1>1, <4>2
    <3>5. Closing(t)
      BY <1>3, <3>2, <3>3, <3>4 DEF Closing
    <3> QED
      BY <1>6, <3>1, <3>5
  <2> QED
    BY <2>2, <2>3
<1> QED
  BY <1>10, <1>11 DEF rh, h, t

LEMMA WriteTlsClose == ASSUME TlsInv, CloseOK, writeTls PROVE CloseOK'
<1>0. TlsTypeOK /\ ConnOK
  BY DEF TlsInv
<1>1. sc \in Conn /\ recs \in Seq(Record(Nat)) /\ engine \in EngineType
  BY <1>0 DEF TlsTypeOK, EngineType
<1>2. sc.sendable \in Seq(Record(Nat)) /\ sc.sendable # <<>>
  BY <1>1, CarriedTyped DEF writeTls, WantsWrite
<1> DEFINE s == sc.sendable
           rh == Append(recs, Head(s))
           t == Tail(s)
<1>3. recs' = rh /\ sc' = [sc EXCEPT !.sendable = t]
      /\ out_eof' = (out_eof \/ (engine.sent_out_eof /\ Len(sc.sendable) = 1))
  BY DEF writeTls
<1>4. UNCHANGED <<k, engine, int>>
  BY DEF writeTls
<1>5. NoClose(recs) =>
        /\ NoClose(s) => NoClose(rh) /\ NoClose(t)
        /\ Closing(s) => \/ t = <<>> /\ Closing(rh)
                         \/ NoClose(rh) /\ Closing(t)
  BY <1>1, <1>2, HeadMoves
<1>6. sc.tls
  BY <1>0 DEF ConnOK, writeTls, Looping
<1>7. t \in Seq(Record(Nat))
  BY <1>2, PlainTail
<1> HIDE DEF rh, t
<1>8. sc'.tls = sc.tls /\ sc'.up = sc.up /\ sc'.sendable = t
  BY <1>1, <1>3 DEF Conn
<1>9. ((NoClose(recs))' <=> NoClose(rh)) /\ ((NoClose(sc.sendable))' <=> NoClose(t))
  BY <1>3, <1>8 DEF NoClose
<1>10. ((Closing(recs))' <=> Closing(rh)) /\ ((Closing(sc.sendable))' <=> Closing(t))
  BY <1>3, <1>8 DEF Closing
<1>11. CASE engine.sent_out_eof
  <2>1. NoClose(recs) /\ Closing(s) /\ int.out_eof /\ int.out = <<>> /\ sc.up
    BY <1>2, <1>6, <1>11 DEF CloseOK
  <2>2. (k.shut => out_eof) /\ (out_eof' <=> out_eof \/ Len(sc.sendable) = 1)
    BY <1>3, <1>6, <1>11 DEF CloseOK
  <2> QED
    BY <1>4, <1>5, <1>8, <1>9, <1>10, <1>11, <2>1, <2>2 DEF CloseOK
<1>12. CASE ~engine.sent_out_eof
  <2>1. NoClose(recs) /\ NoClose(s) /\ ~out_eof /\ ~k.shut /\ (int.out_eof => sc.up)
    BY <1>6, <1>12 DEF CloseOK
  <2>2. ~out_eof'
    BY <1>3, <1>12, <2>1
  <2> QED
    BY <1>4, <1>5, <1>8, <1>9, <1>12, <2>1, <2>2 DEF CloseOK
<1> QED
  BY <1>11, <1>12

LEMMA WritePlainClose == ASSUME TlsInv, CloseOK, writePlain PROVE CloseOK'
<1>0. TlsTypeOK /\ ConnOK
  BY DEF TlsInv
<1>1. sc \in Conn /\ int \in IntType
  BY <1>0 DEF TlsTypeOK, IntType
<1>2. sc.tls /\ int.out # <<>>
  BY <1>0 DEF ConnOK, writePlain, Looping
<1>3. UNCHANGED <<recs, engine, out_eof, k>>
  BY DEF writePlain
<1>4. ~engine.sent_out_eof /\ NoClose(recs) /\ NoClose(sc.sendable) /\ ~out_eof /\ ~k.shut
      /\ (int.out_eof => sc.up)
  BY <1>2 DEF CloseOK
<1>5. int'.out_eof = int.out_eof
  BY <1>1 DEF writePlain, IntType
<1>6. sc'.tls = sc.tls /\ sc'.up = sc.up /\ NoClose(sc'.sendable)
  <2> DEFINE room == IF sc.up THEN Limit ELSE Limit - Len(sc.held)
             len == Smaller(room, Len(int.out))
             bytes == SubSeq(int.out, 1, len)
  <2>1. sc' = IF sc.up THEN [sc EXCEPT !.sendable = Append(@, Data(bytes))]
                       ELSE [sc EXCEPT !.held = @ \o bytes]
    BY DEF writePlain
  <2>2. sc.sendable \in Seq(Record(Nat))
    BY <1>1, CarriedTyped
  <2>3. bytes \in Seq(Nat)
    <3>1. int.out \in Seq(Nat) /\ Len(int.out) \in Nat
      BY <1>1 DEF IntType
    <3>2. sc.held \in Seq(Nat) /\ Len(sc.held) <= Limit /\ Limit \in Nat
      BY <1>0, <1>1, CarriedTyped, LimitAssumption DEF ConnOK
    <3>3. Len(sc.held) \in Nat
      BY <3>2
    <3>4. Limit - Len(sc.held) \in Nat
      BY <3>2, <3>3
    <3>5. room \in Nat
      BY <3>2, <3>4
    <3> HIDE DEF room
    <3>6. len \in 0..Len(int.out)
      BY <3>1, <3>5 DEF Smaller
    <3> HIDE DEF len
    <3> QED
      BY <3>1, <3>6, Moved
  <2> DEFINE d == Data(bytes)
             s == Append(sc.sendable, d)
  <2> HIDE DEF bytes
  <2>4. d \in Record(Nat) /\ d.t # "close"
    BY <2>3 DEF Data, Record, Kind
  <2>5. NoClose(s)
    BY <1>4, <2>2, <2>4, NoCloseAppend
  <2> HIDE DEF s, d
  <2>6. CASE sc.up
    <3>1. sc' = [sc EXCEPT !.sendable = s]
      BY <2>1, <2>6 DEF s, d
    <3> QED
      BY <1>1, <2>5, <3>1 DEF Conn
  <2>7. CASE ~sc.up
    <3>1. sc' = [sc EXCEPT !.held = @ \o bytes]
      BY <2>1, <2>7
    <3>2. sc'.tls = sc.tls /\ sc'.up = sc.up /\ sc'.sendable = sc.sendable
      BY <1>1, <3>1 DEF Conn
    <3> QED
      BY <1>4, <3>2
  <2> QED
    BY <2>6, <2>7
<1>7. (NoClose(recs))' /\ (NoClose(sc.sendable))'
  BY <1>3, <1>4, <1>6 DEF NoClose
<1> QED
  BY <1>3, <1>4, <1>5, <1>6, <1>7 DEF CloseOK

LEMMA SendCloseNotifyClose == ASSUME TlsInv, CloseOK, sendCloseNotify PROVE CloseOK'
<1>0. TlsTypeOK /\ ConnOK
  BY DEF TlsInv
<1>1. sc \in Conn /\ engine \in EngineType
  BY <1>0 DEF TlsTypeOK, EngineType
<1>2. sc.tls /\ sc.sendable = <<>> /\ int.out_eof /\ int.out = <<>> /\ ~engine.sent_out_eof
  BY <1>0 DEF ConnOK, sendCloseNotify, Looping, WantsWrite, WantsNotify
<1>3. UNCHANGED <<recs, int, out_eof, k>>
  BY DEF sendCloseNotify
<1>4. NoClose(recs) /\ ~out_eof /\ ~k.shut /\ sc.up
  BY <1>2 DEF CloseOK
<1> DEFINE d == Rec("close")
           s == <<d>>
<1>5. sc' = [sc EXCEPT !.sendable = Append(<<>>, d)] /\ engine' = [engine EXCEPT !.sent_out_eof = TRUE]
  BY <1>2 DEF sendCloseNotify
<1>6. d.t = "close"
  BY DEF Rec
<1> HIDE DEF d
<1>7. Append(<<>>, d) = s /\ Len(s) = 1 /\ s[1] = d
  OBVIOUS
<1>8. Closing(s)
  BY <1>6, <1>7 DEF Closing
<1> HIDE DEF s
<1>9. sc'.tls = sc.tls /\ sc'.up = sc.up /\ sc'.sendable = s /\ engine'.sent_out_eof
  BY <1>1, <1>5, <1>7 DEF Conn, EngineType
<1>10. (NoClose(recs))' /\ (Closing(sc.sendable))'
  <2>1. (NoClose(recs))'
    BY <1>3, <1>4 DEF NoClose
  <2>2. (Closing(sc.sendable))'
    BY <1>8, <1>9 DEF Closing
  <2> QED
    BY <2>1, <2>2
<1> QED
  BY <1>2, <1>3, <1>4, <1>9, <1>10 DEF CloseOK

LEMMA ReadTlsClose == ASSUME TlsInv, CloseOK, NEW spare \in Spare, readTls(spare) PROVE CloseOK'
<1>0. TlsTypeOK /\ UnitsOK /\ ConnOK
  BY DEF TlsInv
<1>1. sc \in Conn /\ int \in IntType /\ Good(ib)
  BY <1>0 DEF TlsTypeOK, IntType
<1>2. sc.tls
  BY <1>0 DEF ConnOK, readTls, Looping
<1>3. UNCHANGED <<recs, engine, out_eof, k, peer_recs>>
  BY DEF readTls
<1>4. int'.out = int.out /\ int'.out_eof = int.out_eof
  BY <1>1 DEF readTls, IntType
<1> DEFINE U == Unread(ib)
           cu == Contents(peer_recs, U)
           T == Len(taken)
           L == Len(U)
<1>5. ib' = [ib EXCEPT !.rd = ib.wr] /\ taken' = taken \o U /\ sc' = ReceiveAll(sc, cu)
  BY DEF readTls
<1>6. Unread(ib') = <<>>
  BY <1>1, <1>5, EmptiedGood
<1>7. /\ cu \in Seq(PeerRecord) /\ Len(cu) = L /\ T + L <= Len(peer_recs)
      /\ \A i \in 1..L : cu[i] = peer_recs[T + i]
  BY <1>0, <1>3, <1>5, <1>6, TakenUnits
<1>8. T \in Nat /\ L \in Nat
  BY <1>0, PendingFacts
<1> HIDE DEF U, cu, L
<1>9. sc.up => sc.held = <<>> /\ T # 0
  <2>1. sc.up => sc.held = <<>> /\ taken # <<>> /\ taken \in Seq(Byte)
    BY <1>0 DEF ConnOK, TlsTypeOK
  <2> QED
    BY <2>1
<1> HIDE DEF T
<1>10. /\ Onward(sc, sc')
       /\ sc.up /\ (\A i \in 1..Len(cu) : cu[i].t # "hello") => sc'.sendable = sc.sendable
  BY <1>1, <1>5, <1>7, <1>9, ReceiveAllOnward
<1>11. sc.up => \A i \in 1..Len(cu) : cu[i].t # "hello"
  <2> SUFFICES ASSUME sc.up, NEW i \in 1..L PROVE cu[i].t # "hello"
    BY <1>7
  <2>1. Len(peer_recs) \in Nat
    BY <1>0 DEF TlsTypeOK
  <2>2. T + i \in 2..Len(peer_recs)
    BY <1>7, <1>8, <1>9, <2>1
  <2>3. peer_recs[T + i].t # "hello"
    BY <1>0, <1>2, <2>2 DEF ConnOK
  <2> QED
    BY <1>7, <2>3
<1>12. sc'.tls = sc.tls /\ (sc.up => sc'.up /\ sc'.sendable = sc.sendable)
       /\ (NoClose(sc.sendable) => NoClose(sc'.sendable))
  BY <1>10, <1>11 DEF Onward
<1>13. ((NoClose(recs))' <=> NoClose(recs)) /\ ((Closing(recs))' <=> Closing(recs))
  BY <1>3 DEF NoClose, Closing
<1>14. ((NoClose(sc.sendable))' <=> NoClose(sc'.sendable))
       /\ ((Closing(sc.sendable))' <=> Closing(sc'.sendable))
  BY DEF NoClose, Closing
<1>15. CASE engine.sent_out_eof
  <2>1. sc.up
    BY <1>2, <1>15 DEF CloseOK
  <2> QED
    BY <1>2, <1>3, <1>4, <1>12, <1>13, <1>14, <1>15, <2>1 DEF CloseOK
<1>16. CASE ~engine.sent_out_eof
  BY <1>2, <1>3, <1>4, <1>12, <1>13, <1>14, <1>16 DEF CloseOK
<1> QED
  BY <1>15, <1>16

LEMMA TlsNextClose ==
  ASSUME ~EarlyEof, TlsInv, CloseOK, [TlsNext]_allVars
  PROVE  CloseOK'
<1>1. CASE World
  BY <1>1, OtherClose, QuietCloseSteps DEF World
<1>2. CASE FlushStep /\ UNCHANGED tlsVars
  BY <1>2, QuietCloseSteps
<1>3. CASE process
  BY <1>3, OtherClose, QuietCloseSteps DEF process
<1>4. CASE ProcessStep
  BY <1>4, WriteTlsClose, WritePlainClose, SendCloseNotifyClose, ReadTlsClose, QuietCloseSteps
     DEF ProcessStep
<1>5. CASE appWrite \/ appEof \/ appTake
  BY <1>5, OtherClose, QuietCloseSteps
<1>6. CASE unpause \/ extFlush \/ \E max \in Maxes, spare \in Spare : extRead(max, spare)
  BY <1>6, QuietCloseSteps
<1>7. CASE UNCHANGED allVars
  BY <1>7, QuietCloseSteps
<1> QED
  BY <1>1, <1>2, <1>3, <1>4, <1>5, <1>6, <1>7 DEF TlsNext

(* The records before the end and the one at the end *)
LEMMA ClosesLast ==
  ASSUME NEW r \in Seq(Record(Nat)), NEW s \in Seq(Record(Nat)),
         (s = <<>> /\ Closing(r)) \/ (NoClose(r) /\ Closing(s))
  PROVE  Closing(r \o s)
<1> DEFINE R == Record(Nat)
           c == r \o s
           m == Len(r)
           n == Len(s)
<1>0. r \in Seq(R) /\ s \in Seq(R)
  OBVIOUS
<1> HIDE DEF R
<1>1. m \in Nat /\ n \in Nat
  BY <1>0
<1>2. Len(c) = m + n /\ \A i \in 1..(m + n) : c[i] = IF i <= m THEN r[i] ELSE s[i - m]
  BY <1>0, ConcatProperties
<1>3. CASE s = <<>> /\ Closing(r)
  <2>1. r \o <<>> = r
    BY <1>0, NothingAdded
  <2> QED
    BY <1>3, <2>1
<1>4. CASE NoClose(r) /\ Closing(s)
  <2> HIDE DEF c
  <2>1. \A i \in 1..m : r[i].t # "close"
    BY <1>4 DEF NoClose
  <2>2. n # 0 /\ s[n].t = "close" /\ \A i \in 1..n : s[i].t = "close" => i = n
    BY <1>4 DEF Closing
  <2> HIDE DEF m, n
  <2>3. m + n \in 1..(m + n) /\ ~(m + n <= m) /\ (m + n) - m = n /\ m + n # 0
    BY <1>1, <2>2
  <2>4. c[m + n].t = "close"
    BY <1>2, <2>2, <2>3
  <2>5. ASSUME NEW i \in 1..(m + n), c[i].t = "close" PROVE i = m + n
    <3>1. ~(i <= m)
      <4> SUFFICES ASSUME i <= m PROVE FALSE
        OBVIOUS
      <4>1. i \in 1..m
        BY <1>1
      <4> QED
        BY <1>2, <2>1, <2>5, <4>1
    <3>2. i - m \in 1..n /\ c[i] = s[i - m]
      BY <1>1, <1>2, <3>1
    <3>3. i - m = n
      BY <2>2, <2>5, <3>2
    <3> QED
      BY <1>1, <3>3
  <2>6. Closing(c)
    BY <1>2, <2>3, <2>4, <2>5 DEF Closing
  <2> QED
    BY <2>6 DEF c
<1> QED
  BY <1>3, <1>4

LEMMA NoneCloses ==
  ASSUME NEW r \in Seq(Record(Nat)), NEW s \in Seq(Record(Nat)), NoClose(r), NoClose(s)
  PROVE  NoClose(r \o s)
<1> DEFINE R == Record(Nat)
           c == r \o s
           m == Len(r)
           n == Len(s)
<1>0. r \in Seq(R) /\ s \in Seq(R)
  OBVIOUS
<1> HIDE DEF R
<1>1. m \in Nat /\ n \in Nat
  BY <1>0
<1>2. Len(c) = m + n /\ \A i \in 1..(m + n) : c[i] = IF i <= m THEN r[i] ELSE s[i - m]
  BY <1>0, ConcatProperties
<1> HIDE DEF c
<1>3. (\A i \in 1..m : r[i].t # "close") /\ (\A i \in 1..n : s[i].t # "close")
  BY DEF NoClose
<1> HIDE DEF m, n
<1>4. ASSUME NEW i \in 1..(m + n) PROVE c[i].t # "close"
  <2>1. CASE i <= m
    <3>1. i \in 1..m
      BY <1>1, <2>1
    <3> QED
      BY <1>2, <1>3, <2>1, <3>1
  <2>2. CASE ~(i <= m)
    <3>1. i - m \in 1..n
      BY <1>1, <2>2
    <3> QED
      BY <1>2, <1>3, <2>2, <3>1
  <2> QED
    BY <2>1, <2>2
<1> QED
  BY <1>2, <1>4 DEF NoClose, c

(* close_notify comes after all that the application wrote, no record follows
   it, and shutdown of TCP comes after it (tls_rustls.rs, the order of the
   conditions in the loop of process).  Only an application that sets out_eof
   before the handshake is over breaks it, since plaintext and handshake
   records that rustls still holds then follow (MCTlsEarlyEof.cfg). *)
THEOREM CloseIsLast ==
  ASSUME ~EarlyEof
  PROVE  TlsSpec => []CloseLast
<1>1. TlsInit => CloseOK
  BY TlsInitClose
<1>2. TlsInv /\ CloseOK /\ [TlsNext]_allVars => CloseOK'
  BY TlsNextClose
<1>3. TlsInv /\ CloseOK => CloseLast
  <2> SUFFICES ASSUME TlsInv, CloseOK, sc.tls PROVE CloseLast
    BY DEF CloseLast
  <2> DEFINE sent == recs \o sc.sendable
  <2>1. recs \in Seq(Record(Nat)) /\ sc \in Conn
    BY DEF TlsInv, TlsTypeOK
  <2>2. sc.sendable \in Seq(Record(Nat))
    BY <2>1, CarriedTyped
  <2>3. Contents(recs, wire \o out) = recs
    BY WrittenRecords
  <2>4. sent \in Seq(Record(Nat))
    <3> DEFINE R == Record(Nat)
    <3>1. recs \in Seq(R) /\ sc.sendable \in Seq(R)
      BY <2>1, <2>2
    <3> HIDE DEF R
    <3>2. sent \in Seq(R)
      BY <3>1, ConcatProperties
    <3> QED
      BY <3>2 DEF R
  <2>5. engine.sent_out_eof => Closing(sent)
    BY <2>1, <2>2, ClosesLast DEF CloseOK
  <2>6. ~engine.sent_out_eof => NoClose(sent)
    BY <2>1, <2>2, NoneCloses DEF CloseOK
  <2> HIDE DEF sent
  <2>7. Len(sent) \in Nat /\ DOMAIN sent = 1..Len(sent)
    <3> DEFINE R == Record(Nat)
    <3>1. sent \in Seq(R)
      BY <2>4
    <3> HIDE DEF R
    <3> QED
      BY <3>1
  <2>8. \A i \in DOMAIN sent : sent[i].t = "close" =>
          i = Len(sent) /\ int.out = <<>> /\ sc.held = <<>>
    <3> SUFFICES ASSUME NEW i \in 1..Len(sent), sent[i].t = "close"
                 PROVE  i = Len(sent) /\ int.out = <<>> /\ sc.held = <<>>
      BY <2>7
    <3>1. engine.sent_out_eof
      BY <2>6 DEF NoClose
    <3>2. i = Len(sent)
      BY <2>5, <3>1 DEF Closing
    <3>3. int.out = <<>> /\ sc.up
      BY <3>1 DEF CloseOK
    <3>4. sc.held = <<>>
      BY <3>3 DEF TlsInv, ConnOK
    <3> QED
      BY <3>2, <3>3, <3>4
  <2>9. k.shut => sent # <<>> /\ Last(sent).t = "close"
    <3> SUFFICES ASSUME k.shut PROVE sent # <<>> /\ Last(sent).t = "close"
      OBVIOUS
    <3>1. Closing(sent)
      BY <2>5 DEF CloseOK
    <3>2. Len(sent) # 0 /\ sent[Len(sent)].t = "close"
      BY <3>1 DEF Closing
    <3>3. Len(<<>>) = 0
      OBVIOUS
    <3> QED
      BY <3>2, <3>3 DEF Last
  <2> QED
    BY <2>3, <2>8, <2>9 DEF CloseLast, sent
<1> QED
  BY <1>1, <1>2, <1>3, TlsInvariance, PTL DEF TlsSpec

-----------------------------------------------------------------------------
(***************************************************************************)
(* The end of the input.  With TLS the peer's close_notify is its last     *)
(* record, so when rustls has got it nothing waits in front of rustls, and *)
(* the reader says Ok(0) only once it has given all away; without TLS it   *)
(* is the EOF of the stream, passed on together with the last bytes.       *)
(***************************************************************************)

(* The reader is not in front of a full int.inp *)
RoomLeft == ~(tpc = "reader" /\ Room = 0)

(* The peer's close_notify is its last record; when rustls has it, there is
   nothing more to read. *)
PeerCloseOK ==
  sc.tls =>
    /\ \A i \in 1..Len(peer_recs) : peer_recs[i].t = "close" => i = Len(peer_recs)
    /\ PeerSent("close") => PeerSent("finished")
    /\ sc.closed => PeerSent("close") /\ Pending = <<>>

TlsEofOK ==
  /\ sc.tls /\ engine.inp_eof = "Close" => sc.closed /\ sc.received = <<>>
  /\ ~sc.tls =>
       /\ inp_eof => k.fin /\ k.rbuf = <<>>
       /\ int.inp_eof => inp_eof
       /\ engine.inp_eof = "Close" => inp_eof /\ Pending = <<>>

LEMMA TlsInitEof == TlsInit => PeerCloseOK /\ TlsEofOK
<1> SUFFICES ASSUME TlsInit PROVE PeerCloseOK /\ TlsEofOK
  OBVIOUS
<1>1. ~sc.closed /\ engine.inp_eof = "None" /\ ~inp_eof /\ ~int.inp_eof /\ peer_recs = <<>>
  BY DEF TlsInit
<1>2. ~PeerSent("close")
  BY <1>1 DEF PeerSent
<1> QED
  BY <1>1, <1>2 DEF PeerCloseOK, TlsEofOK

(* Steps that leave the input alone, or move units from the socket to `ext` *)
LEMMA QuietEof ==
  ASSUME Pending' = Pending, UNCHANGED <<peer_recs, inp_eof>>,
         k.fin => k'.fin, k.rbuf = <<>> => k'.rbuf = <<>>,
         sc'.tls = sc.tls, sc'.closed = sc.closed, sc'.received = sc.received,
         engine'.inp_eof = engine.inp_eof, int'.inp_eof = int.inp_eof
  PROVE  (PeerCloseOK => PeerCloseOK') /\ (TlsEofOK => TlsEofOK')
<1>1. \A t : PeerSent(t)' <=> PeerSent(t)
  BY DEF PeerSent
<1> HIDE DEF Pending
<1> QED
  BY <1>1 DEF PeerCloseOK, TlsEofOK

LEMMA QuietEofSteps ==
  ASSUME TlsInv,
         \/ (MoveOut \/ PeerEof \/ FlushStep) /\ UNCHANGED tlsVars
         \/ unpause \/ extFlush
         \/ processEnter \/ processReturn \/ tlsError \/ readerWouldBlock
         \/ appEof \/ appWrite \/ appTake
         \/ writeTls \/ writePlain \/ sendCloseNotify
         \/ UNCHANGED allVars
  PROVE  (PeerCloseOK => PeerCloseOK') /\ (TlsEofOK => TlsEofOK')
<1>0. sc \in Conn /\ int \in IntType /\ engine \in EngineType /\ k \in Stream
  BY DEF TlsInv, TlsTypeOK, IntType, EngineType
<1>1. UNCHANGED <<peer_recs, inp_eof, ib>>
  BY DEF MoveOut, PeerEof, FlushStep, flushNodelay, flushError, flushWrite, flushShutdown, flushReturn,
         unpause, pause_writes, extFlush, flush, processEnter, processReturn, tlsError, readerWouldBlock,
         appEof, appWrite, appTake, writeTls, writePlain, sendCloseNotify
<1>2. k'.rbuf = k.rbuf /\ (k.fin => k'.fin)
  <2>1. CASE MoveOut \/ PeerEof
    BY <1>0, <2>1 DEF MoveOut, PeerEof, Stream
  <2>2. CASE FlushStep
    BY <1>0, <2>2 DEF FlushStep, flushNodelay, flushError, flushWrite, flushShutdown, flushReturn, Stream
  <2>3. CASE extFlush
    BY <1>0, <2>3 DEF extFlush, flush, Stream
  <2>4. CASE UNCHANGED k
    BY <2>4
  <2> QED
    BY <2>1, <2>2, <2>3, <2>4
       DEF unpause, pause_writes, processEnter, processReturn, tlsError, readerWouldBlock,
           appEof, appWrite, appTake, writeTls, writePlain, sendCloseNotify
<1>3. Pending' = Pending
  BY <1>1, <1>2 DEF Pending, Unread
<1>4. sc'.tls = sc.tls /\ sc'.closed = sc.closed /\ sc'.received = sc.received
  <2>1. CASE writeTls
    BY <1>0, <2>1 DEF writeTls, Conn
  <2>2. CASE writePlain
    BY <1>0, <2>2 DEF writePlain, Conn
  <2>3. CASE sendCloseNotify
    BY <1>0, <2>3 DEF sendCloseNotify, Conn
  <2>4. CASE UNCHANGED sc
    BY <2>4
  <2> QED
    BY <2>1, <2>2, <2>3, <2>4
       DEF unpause, extFlush, processEnter, processReturn, tlsError, readerWouldBlock,
           appEof, appWrite, appTake
<1>5. engine'.inp_eof = engine.inp_eof
  <2>1. UNCHANGED engine \/ engine' = [engine EXCEPT !.sent_out_eof = TRUE]
    BY DEF unpause, extFlush, processEnter, processReturn, tlsError, readerWouldBlock,
           appEof, appWrite, appTake, writeTls, writePlain, sendCloseNotify
  <2> QED
    BY <1>0, <2>1 DEF EngineType
<1>6. int'.inp_eof = int.inp_eof
  <2>1. CASE writePlain
    BY <1>0, <2>1 DEF writePlain, IntType
  <2>2. CASE appEof \/ appWrite \/ appTake
    BY <1>0, <2>2 DEF appEof, appWrite, appTake, IntType
  <2>3. CASE UNCHANGED int
    BY <2>3
  <2> QED
    BY <2>1, <2>2, <2>3
       DEF unpause, extFlush, processEnter, processReturn, tlsError, readerWouldBlock,
           writeTls, sendCloseNotify
<1> QED
  BY <1>1, <1>2, <1>3, <1>4, <1>5, <1>6, QuietEof

(* The reader *)
LEMMA ReaderEofStep ==
  ASSUME TlsInv, readerData \/ readerEof
  PROVE  (PeerCloseOK => PeerCloseOK') /\ (TlsEofOK /\ RoomLeft => TlsEofOK')
<1>0. sc \in Conn /\ int \in IntType /\ engine \in EngineType /\ ConnOK
  BY DEF TlsInv, TlsTypeOK, IntType, EngineType
<1>1. UNCHANGED <<peer_recs, inp_eof, ib, k>> /\ sc.tls
  BY <1>0 DEF readerData, readerEof, ConnOK
<1>2. /\ Pending' = Pending /\ \A t : PeerSent(t)' <=> PeerSent(t)
  BY <1>1 DEF Pending, Unread, PeerSent
<1>3. sc'.tls = sc.tls /\ sc'.closed = sc.closed
  BY <1>0 DEF readerData, readerEof, Conn
<1>4. ASSUME TlsEofOK, RoomLeft PROVE engine'.inp_eof = "Close" => sc'.closed /\ sc'.received = <<>>
  <2>1. CASE readerData
    <3>1. sc.received # <<>> /\ UNCHANGED engine
      BY <2>1 DEF readerData
    <3> QED
      BY <1>1, <1>4, <3>1 DEF TlsEofOK
  <2>2. CASE readerEof
    <3>1. tpc = "reader" /\ ReaderZero /\ UNCHANGED sc
      BY <2>2 DEF readerEof
    <3>2. Room # 0
      BY <1>4, <3>1 DEF RoomLeft
    <3> QED
      BY <3>1, <3>2 DEF ReaderZero
  <2> QED
    BY <2>1, <2>2
<1> HIDE DEF Pending
<1> QED
  BY <1>1, <1>2, <1>3, <1>4 DEF PeerCloseOK, TlsEofOK

(* The stream is read.  Its end comes when nothing is left in it. *)
LEMMA ExtReadEof ==
  ASSUME TlsInv, NEW max \in Maxes, NEW spare \in Spare, extRead(max, spare)
  PROVE  (PeerCloseOK => PeerCloseOK') /\ (TlsEofOK /\ 0 \notin Maxes => TlsEofOK')
<1>0. k \in Stream
  BY DEF TlsInv, TlsTypeOK
<1>1. UNCHANGED <<sc, engine, int, peer_recs>> /\ ReadStep(max, spare)
  BY DEF extRead
<1>2. Pending' = Pending
  BY QuietStepsInv DEF QuietExt
<1>3. \A t : PeerSent(t)' <=> PeerSent(t)
  BY <1>1 DEF PeerSent
<1>4. k'.fin = k.fin
  BY <1>0, <1>1 DEF ReadStep, readData, readEof, readWouldBlock, readError, Stream
<1>5. k.rbuf = <<>> => k'.rbuf = <<>>
  <2>1. CASE readData(max, spare)
    BY <2>1 DEF readData
  <2>2. CASE ~readData(max, spare)
    BY <1>0, <1>1, <2>2 DEF ReadStep, readEof, readWouldBlock, readError, Stream
  <2> QED
    BY <2>1, <2>2
<1>6. 0 \notin Maxes => UNCHANGED inp_eof \/ (inp_eof' /\ k.fin /\ k.rbuf = <<>>)
  BY <1>1 DEF ReadStep, readData, readEof, readWouldBlock, readError, ReadsNothing
<1> HIDE DEF Pending
<1> QED
  BY <1>1, <1>2, <1>3, <1>4, <1>5, <1>6 DEF PeerCloseOK, TlsEofOK

(* Without TLS the bytes and the EOF are passed together. *)
LEMMA PassEof ==
  ASSUME TlsInv, NEW spare \in Spare, processPass(spare)
  PROVE  PeerCloseOK' /\ Unread(ib') = <<>> /\ (TlsEofOK => TlsEofOK')
<1>0. int \in IntType /\ engine \in EngineType /\ Good(ib) /\ k \in Stream
  BY DEF TlsInv, TlsTypeOK, IntType, EngineType
<1>1. ~sc.tls /\ UNCHANGED <<sc, inp_eof, k, peer_recs>>
  BY DEF processPass
<1>2. int'.inp_eof = (int.inp_eof \/ inp_eof)
  BY <1>0 DEF processPass, exchange, InpEofExchanged, IntType
<1>3. engine'.inp_eof = "Close" => engine.inp_eof = "Close" \/ int.inp_eof \/ inp_eof
  BY <1>0 DEF processPass, InpEofExchanged, EngineType
<1>4. Unread(ib') = <<>>
  <2>1. ib' = OffsetsReset
    BY DEF processPass, exchange
  <2>2. ib'.rd = ib'.wr
    BY <1>0, <2>1 DEF OffsetsReset, Good, Buffer
  <2>3. Good(ib')
    BY ProcessPassInv DEF TlsInv, TlsTypeOK
  <2>4. Unread(ib') \in Seq(Byte) /\ Len(Unread(ib')) = ib'.wr - ib'.rd /\ ib'.wr \in Nat
    BY <2>3, UnreadFacts DEF Good, Buffer
  <2>5. Len(Unread(ib')) = 0
    BY <2>2, <2>4
  <2> QED
    BY <2>4, <2>5
<1>5. k.rbuf = <<>> => Pending' = <<>>
  BY <1>1, <1>4 DEF Pending, Unread
<1> HIDE DEF Pending
<1> QED
  BY <1>1, <1>2, <1>3, <1>4, <1>5 DEF PeerCloseOK, TlsEofOK

(* A peer that has said close_notify sends nothing more. *)
LEMMA ArriveEof ==
  ASSUME TlsInv, PeerCloseOK, TlsArrive
  PROVE  PeerCloseOK' /\ (TlsEofOK => TlsEofOK')
<1>0. UNCHANGED <<sc, engine, int, inp_eof>> /\ ~k.fin
  BY DEF TlsArrive, Arrive
<1>1. CASE ~sc.tls
  BY <1>0, <1>1 DEF PeerCloseOK, TlsEofOK
<1>2. CASE sc.tls
  <2>1. PICK rec \in PeerRecords : peer_recs' = Append(peer_recs, rec)
    BY DEF TlsArrive
  <2>2. ~PeerSent("close") /\ (rec.t = "close" => PeerSent("finished"))
    <3>1. ASSUME PeerSent("close") PROVE FALSE
      <4>1. PeerSent("finished") /\ peer_recs # <<>>
        BY <1>2, <3>1 DEF PeerCloseOK, PeerSent
      <4> QED
        BY <1>2, <2>1, <3>1, <4>1 DEF PeerRecords
    <3>2. ASSUME ~PeerSent("finished") PROVE rec.t # "close"
      <4>1. rec = Rec("hello") \/ rec = Rec("finished")
        BY <1>2, <2>1, <3>2 DEF PeerRecords
      <4> QED
        BY <4>1 DEF Rec
    <3> QED
      BY <3>1, <3>2
  <2>3. /\ Len(peer_recs) \in Nat /\ DOMAIN peer_recs = 1..Len(peer_recs)
        /\ Len(peer_recs') = Len(peer_recs) + 1 /\ DOMAIN peer_recs' = 1..(Len(peer_recs) + 1)
        /\ \A i \in 1..Len(peer_recs) : peer_recs'[i] = peer_recs[i]
        /\ peer_recs'[Len(peer_recs) + 1] = rec
    <3> DEFINE S == PeerRecord
    <3>1. peer_recs \in Seq(S) /\ rec \in S
      <4>1. TlsTypeOK /\ UnitsOK /\ k.peer < MaxIn
        BY DEF TlsInv, TlsArrive, Arrive
      <4> QED
        BY <4>1, <2>1, PeerRecordsOK DEF TlsTypeOK
    <3> HIDE DEF S
    <3>2. peer_recs' \in Seq(S) /\ Len(peer_recs') = Len(peer_recs) + 1
      BY <2>1, <3>1, AppendProperties
    <3>3. /\ \A i \in 1..Len(peer_recs) : peer_recs'[i] = peer_recs[i]
          /\ peer_recs'[Len(peer_recs) + 1] = rec
      BY <2>1, <3>1, AppendProperties
    <3> QED
      BY <3>1, <3>2, <3>3
  <2>4. \A i \in 1..Len(peer_recs') : peer_recs'[i].t = "close" => i = Len(peer_recs')
    BY <2>2, <2>3 DEF PeerSent
  <2>5. PeerSent("finished") => PeerSent("finished")'
    BY <2>3 DEF PeerSent
  <2>6. PeerSent("close")' => PeerSent("finished")'
    <3>1. PeerSent("close")' => rec.t = "close"
      BY <2>2, <2>3 DEF PeerSent
    <3> QED
      BY <2>2, <2>5, <3>1
  <2>7. ~sc.closed
    BY <1>2, <2>2 DEF PeerCloseOK
  <2> QED
    BY <1>0, <1>2, <2>4, <2>6, <2>7 DEF PeerCloseOK, TlsEofOK
<1> QED
  BY <1>1, <1>2

(* close_notify is the last unit there is. *)
LEMMA ReadTlsEof ==
  ASSUME TlsInv, PeerCloseOK, NEW spare \in Spare, readTls(spare)
  PROVE  PeerCloseOK' /\ (TlsEofOK => TlsEofOK')
<1>0. TlsTypeOK /\ UnitsOK /\ ConnOK
  BY DEF TlsInv
<1>1. sc \in Conn /\ Good(ib) /\ sc.tls /\ ~sc.closed
  BY <1>0 DEF TlsTypeOK, ConnOK, readTls, Looping, WantsRead
<1>2. UNCHANGED <<engine, k, peer_recs>>
  BY DEF readTls
<1> DEFINE U == Unread(ib)
           cu == Contents(peer_recs, U)
           T == Len(taken)
           L == Len(U)
           M == Len(k.rbuf)
<1>3. ib' = [ib EXCEPT !.rd = ib.wr] /\ taken' = taken \o U /\ sc' = ReceiveAll(sc, cu)
  BY DEF readTls
<1>4. Unread(ib') = <<>>
  BY <1>1, <1>3, EmptiedGood
<1>5. /\ cu \in Seq(PeerRecord) /\ Len(cu) = L
      /\ \A i \in 1..L : cu[i] = peer_recs[T + i]
  BY <1>0, <1>2, <1>3, <1>4, TakenUnits
<1>6. T \in Nat /\ L \in Nat /\ M \in Nat /\ T + (L + M) = k.peer /\ Len(peer_recs) = k.peer
  BY <1>0, PendingFacts DEF UnitsOK
<1>7. k.rbuf \in Seq(1..MaxIn)
  BY <1>0 DEF TlsTypeOK, Stream
<1> HIDE DEF U, cu, T, L
<1>8. Onward(sc, sc') /\ (sc'.closed => sc.closed \/ \E i \in 1..Len(cu) : cu[i].t = "close")
  <2>1. sc.up => sc.held = <<>>
    BY <1>0 DEF ConnOK
  <2> QED
    BY <1>1, <1>3, <1>5, <2>1, ReceiveAllOnward
<1>9. sc'.tls /\ (TlsEofOK => engine'.inp_eof # "Close")
  BY <1>1, <1>2, <1>8 DEF Onward, TlsEofOK
<1>10. ASSUME sc'.closed PROVE PeerSent("close") /\ k.rbuf = <<>>
  <2>1. PICK i \in 1..L : peer_recs[T + i].t = "close"
    BY <1>1, <1>5, <1>8, <1>10
  <2> HIDE DEF M
  <2>2. T + i \in 1..Len(peer_recs)
    BY <1>6, <2>1
  <2>3. T + i = Len(peer_recs)
    BY <1>1, <2>1, <2>2 DEF PeerCloseOK
  <2>4. M = 0
    BY <1>6, <2>1, <2>3
  <2>5. peer_recs \in Seq(PeerRecord)
    BY <1>0 DEF TlsTypeOK
  <2>6. PeerSent("close")
    BY <2>1, <2>2, <2>5 DEF PeerSent
  <2> QED
    BY <1>7, <2>4, <2>6 DEF M
<1>11. sc'.closed => PeerSent("close")' /\ Pending' = <<>>
  BY <1>2, <1>4, <1>10 DEF Pending, Unread, PeerSent
<1>12. PeerSent("close")' <=> PeerSent("close")
  BY <1>2 DEF PeerSent
<1>13. PeerSent("finished")' <=> PeerSent("finished")
  BY <1>2 DEF PeerSent
<1> HIDE DEF Pending
<1> QED
  BY <1>1, <1>2, <1>9, <1>11, <1>12, <1>13 DEF PeerCloseOK, TlsEofOK

LEMMA TlsNextEof ==
  ASSUME TlsInv, PeerCloseOK, [TlsNext]_allVars
  PROVE  PeerCloseOK' /\ (0 \notin Maxes /\ TlsEofOK /\ RoomLeft => TlsEofOK')
<1>1. CASE World
  BY <1>1, ArriveEof, QuietEofSteps DEF World
<1>2. CASE FlushStep /\ UNCHANGED tlsVars
  BY <1>2, QuietEofSteps
<1>3. CASE process
  BY <1>3, PassEof, QuietEofSteps DEF process
<1>4. CASE ProcessStep
  BY <1>4, ReadTlsEof, ReaderEofStep, QuietEofSteps DEF ProcessStep
<1>5. CASE appWrite \/ appEof \/ appTake
  BY <1>5, QuietEofSteps
<1>6. CASE unpause \/ extFlush
  BY <1>6, QuietEofSteps
<1>7. CASE \E max \in Maxes, spare \in Spare : extRead(max, spare)
  BY <1>7, ExtReadEof
<1>8. CASE UNCHANGED allVars
  BY <1>8, QuietEofSteps
<1> QED
  BY <1>1, <1>2, <1>3, <1>4, <1>5, <1>6, <1>7, <1>8 DEF TlsNext

LEMMA PeerCloseInvariance == TlsSpec => []PeerCloseOK
<1>1. TlsInv /\ PeerCloseOK /\ [TlsNext]_allVars => PeerCloseOK'
  BY TlsNextEof
<1> QED
  BY <1>1, TlsInitEof, TlsInvariance, PTL DEF TlsSpec

(* The steps that are possible inside process while nothing is flushed *)
LEMMA InsideSteps ==
  ASSUME tpc # "idle", [TlsNext]_allVars
  PROVE  \/ UNCHANGED <<sc, int, tpc>> /\ (pc = "idle" => pc' = "idle")
         \/ ProcessStep
<1>1. CASE World
  BY <1>1 DEF World, TlsArrive, Arrive, MoveOut, PeerEof, tlsVars
<1>2. CASE FlushStep /\ UNCHANGED tlsVars
  BY <1>2 DEF FlushStep, flushNodelay, flushError, flushWrite, flushShutdown, flushReturn, tlsVars
<1>3. CASE UNCHANGED allVars
  BY <1>3 DEF allVars, vars, tlsVars
<1> QED
  BY <1>1, <1>2, <1>3 DEF TlsNext, process, processEnter, processPass, Idle, appWrite, appEof,
     appTake, unpause, extFlush, extRead

(* The inner loop in front of a full buffer, and after the last byte before a
   close_notify *)
LEMMA FullStays ==
  ASSUME [TlsNext]_allVars, tpc = "reader", Room = 0
  PROVE  (tpc = "reader" /\ Room = 0)'
<1>1. CASE UNCHANGED <<sc, int, tpc>>
  BY <1>1 DEF Room
<1>2. CASE ProcessStep
  <2>1. readerEof
    BY <1>2 DEF ProcessStep, Looping, writeTls, writePlain, sendCloseNotify, readTls, tlsError,
       processReturn, readerData, readerWouldBlock
  <2> QED
    BY <2>1 DEF readerEof, Room
<1> QED
  BY <1>1, <1>2, InsideSteps

LEMMA ClosedStays ==
  ASSUME [TlsNext]_allVars, tpc = "reader", sc.received = <<>>, sc.closed
  PROVE  (tpc = "reader" /\ sc.received = <<>> /\ sc.closed)'
<1>1. CASE UNCHANGED <<sc, int, tpc>>
  BY <1>1
<1>2. CASE ProcessStep
  <2>1. readerEof
    BY <1>2 DEF ProcessStep, Looping, writeTls, writePlain, sendCloseNotify, readTls, tlsError,
       processReturn, readerData, readerWouldBlock
  <2> QED
    BY <2>1 DEF readerEof
<1> QED
  BY <1>1, <1>2, InsideSteps

(* The outer loop with a writer that accepts nothing *)
HeldFull == Looping /\ ~WantsWrite /\ int.out # <<>> /\ ~sc.up /\ Len(sc.held) = Limit

LEMMA HeldStays ==
  ASSUME TlsInv, [TlsNext]_allVars, HeldFull
  PROVE  HeldFull'
<1>0. sc \in Conn /\ int \in IntType /\ tpc = "loop" /\ pc = "idle"
  BY DEF HeldFull, Looping, TlsInv, TlsTypeOK, IntType
<1>1. CASE UNCHANGED <<sc, int, tpc>> /\ pc' = "idle"
  BY <1>1 DEF HeldFull, Looping, WantsWrite
<1>2. CASE ProcessStep
  <2>1. writePlain
    BY <1>0, <1>2 DEF HeldFull, ProcessStep, writeTls, sendCloseNotify, WantsNotify, readTls, tlsError,
       processReturn, readerData, readerEof, readerWouldBlock
  <2> DEFINE len == Smaller(Limit - Len(sc.held), Len(int.out))
             bytes == SubSeq(int.out, 1, len)
  <2>2. /\ sc' = [sc EXCEPT !.held = @ \o bytes] /\ int' = [int EXCEPT !.out = DrainedOut(len)]
        /\ UNCHANGED <<tpc, pc>>
    BY <2>1 DEF writePlain, HeldFull, vars
  <2>3. sc.held \in Seq(Nat) /\ int.out \in Seq(Nat) /\ Len(sc.held) = Limit
    BY <1>0 DEF Conn, IntType, HeldFull
  <2>4. len = 0
    BY <2>3, LimitAssumption DEF Smaller
  <2>5. bytes = <<>> /\ DrainedOut(len) = int.out
    BY <2>3, <2>4 DEF DrainedOut, From
  <2>6. sc'.held = sc.held
    BY <1>0, <2>2, <2>3, <2>5, NothingAdded DEF Conn
  <2>7. int'.out = int.out /\ sc'.up = sc.up /\ sc'.sendable = sc.sendable
    BY <1>0, <2>2, <2>5 DEF Conn, IntType
  <2> QED
    BY <2>2, <2>6, <2>7 DEF HeldFull, Looping, WantsWrite
<1> QED
  BY <1>0, <1>1, <1>2, InsideSteps

(* Once a call of process spins it never ends: the three places of Spinning are
   final, whatever the peer, the application and the timing. *)
THEOREM SpinsForEver == TlsSpec => [][Spinning => Spinning']_allVars
<1>1. TlsInv /\ [TlsNext]_allVars => (Spinning => Spinning')
  BY FullStays, ClosedStays, HeldStays DEF Spinning, HeldFull
<1> QED
  BY <1>1, TlsInvariance, PTL DEF TlsSpec

LEMMA EofOKHonest ==
  ASSUME TlsInv, PeerCloseOK, TlsEofOK
  PROVE  TlsEofHonest
<1> SUFFICES ASSUME engine.inp_eof = "Close"
             PROVE  /\ IF sc.tls THEN sc.closed ELSE k.fin
                    /\ app.taken \o Unread(int.ib) = Plain(peer_recs)
  BY DEF TlsEofHonest
<1>1. Pending = <<>> /\ sc.received = <<>> /\ IF sc.tls THEN sc.closed ELSE k.fin
  BY DEF PeerCloseOK, TlsEofOK, TlsInv, ConnOK
<1> DEFINE a == app.taken
           u == Unread(int.ib)
           S == Byte
<1>2. a \in Seq(S) /\ u \in Seq(S)
  BY UnreadFacts DEF TlsInv, TlsTypeOK
<1>3. Contents(peer_recs, <<>>) = <<>>
  BY DEF Contents
<1>4. ((a \o u) \o <<>>) \o <<>> = Plain(peer_recs)
  BY <1>1, <1>3, PlainEmpty DEF TlsInv, PlainInOK
<1> HIDE DEF a, u, S
<1>5. a \o u \in Seq(S)
  BY <1>2, ConcatProperties
<1>6. (a \o u) \o <<>> = a \o u
  BY <1>5, NothingAdded
<1>7. a \o u = Plain(peer_recs)
  BY <1>4, <1>6
<1> QED
  BY <1>1, <1>7 DEF a, u

(* TlsEof::Close means what it says, with and without TLS, for reads of one
   byte or more.  The argument needs RoomLeft: the Ok(0) that the reader gives
   for an empty slice is taken for the EOF.  From there the inner loop never
   comes back (FullStays), so that every state with RoomLeft was reached
   through such states only. *)
THEOREM CleanEofHonest ==
  ASSUME 0 \notin Maxes
  PROVE  TlsSpec => []TlsEofHonest
<1>1. TlsInit => (RoomLeft => TlsEofOK)
  BY TlsInitEof
<1>2. TlsInv /\ PeerCloseOK /\ (RoomLeft => TlsEofOK) /\ [TlsNext]_allVars => (RoomLeft => TlsEofOK)'
  BY TlsNextEof, FullStays DEF RoomLeft
<1>3. TlsInv /\ PeerCloseOK /\ (RoomLeft => TlsEofOK) => TlsEofHonest
  <2>1. CASE RoomLeft
    BY <2>1, EofOKHonest
  <2>2. CASE ~RoomLeft
    BY <2>2 DEF RoomLeft, TlsEofHonest
  <2> QED
    BY <2>1, <2>2
<1> QED
  BY <1>1, <1>2, <1>3, TlsInvariance, PeerCloseInvariance, PTL DEF TlsSpec

-----------------------------------------------------------------------------
(* Nothing gets stuck between the application and the network. *)

(* What process leaves when it returns, and that only the steps that ask for
   another call of it undo this. *)
ProcessDone ==
  /\ int.out = <<>> /\ sc.sendable = <<>> /\ (int.out_eof => out_eof)
  /\ Unread(ib) = <<>>
  /\ ~sc.tls /\ inp_eof => engine.inp_eof = "Close"

DrainOK ==
  /\ tpc # "reader" => sc.received = <<>>
  /\ engine.sent_out_eof /\ sc.sendable = <<>> => out_eof
  /\ tpc = "idle" /\ ~must_process => ProcessDone

LEMMA TlsInitDrain == TlsInit => DrainOK
<1> SUFFICES ASSUME TlsInit PROVE DrainOK
  OBVIOUS
<1>1. /\ sc.received = <<>> /\ sc.sendable = <<>> /\ int.out = <<>> /\ ~int.out_eof /\ ~inp_eof
      /\ ~engine.sent_out_eof
  BY DEF TlsInit
<1>2. Unread(ib) = <<>>
  BY DEF TlsInit, Unread
<1> QED
  BY <1>1, <1>2 DEF DrainOK, ProcessDone

(* Steps outside of process that leave its data alone, and steps of the
   application that ask for a call of it *)
LEMMA OutsideDrain ==
  ASSUME TlsInv, DrainOK,
         \/ TlsArrive \/ ((MoveOut \/ PeerEof \/ FlushStep) /\ UNCHANGED tlsVars)
         \/ unpause \/ extFlush \/ (\E max \in Maxes, spare \in Spare : extRead(max, spare))
         \/ appEof \/ appWrite \/ appTake \/ UNCHANGED allVars
  PROVE  DrainOK'
<1>0. int \in IntType
  BY DEF TlsInv, TlsTypeOK, IntType
<1>1. UNCHANGED <<sc, engine, tpc, out_eof>>
  BY DEF TlsArrive, Arrive, MoveOut, PeerEof, FlushStep, flushNodelay, flushError, flushWrite,
         flushShutdown, flushReturn, unpause, pause_writes, extFlush, flush, extRead, ReadStep,
         readData, readEof, readWouldBlock, readError, appEof, appWrite, appTake
<1>2. CASE must_process'
  BY <1>1, <1>2 DEF DrainOK
<1>3. CASE ~must_process'
  <2>1. ~(\E max \in Maxes, spare \in Spare : extRead(max, spare)) /\ ~appEof /\ ~appWrite
    BY <1>3 DEF extRead, appEof, appWrite
  <2>2. UNCHANGED <<must_process, ib, inp_eof>>
    BY <2>1 DEF TlsArrive, Arrive, MoveOut, PeerEof, FlushStep, flushNodelay, flushError, flushWrite,
         flushShutdown, flushReturn, unpause, pause_writes, extFlush, flush, appTake
  <2>3. int'.out = int.out /\ int'.out_eof = int.out_eof
    <3>1. CASE appTake
      BY <1>0, <3>1 DEF appTake, IntType
    <3>2. CASE UNCHANGED int
      BY <3>2
    <3> QED
      BY <2>1, <3>1, <3>2 DEF TlsArrive, unpause, extFlush
  <2>4. Unread(ib') = Unread(ib)
    BY <2>2
  <2>5. ProcessDone => ProcessDone'
    BY <1>1, <2>2, <2>3, <2>4 DEF ProcessDone, Unread
  <2> QED
    BY <1>1, <2>2, <2>5 DEF DrainOK
<1> QED
  BY <1>2, <1>3

(* Steps inside process, up to its return *)
LEMMA InsideDrain ==
  ASSUME TlsInv, DrainOK,
         \/ processEnter \/ writeTls \/ writePlain \/ sendCloseNotify \/ tlsError
         \/ (\E spare \in Spare : readTls(spare)) \/ readerData \/ readerEof \/ readerWouldBlock
  PROVE  DrainOK'
<1>0. TlsTypeOK /\ ConnOK /\ sc \in Conn /\ engine \in EngineType
  BY DEF TlsInv, TlsTypeOK, EngineType
<1>1. tpc' # "idle"
  BY DEF processEnter, Looping, writeTls, writePlain, sendCloseNotify, tlsError, readTls, readerData,
         readerEof, readerWouldBlock, AfterWouldBlock
<1>2. tpc' # "reader" => sc'.received = <<>>
  <2>1. CASE writeTls \/ writePlain \/ sendCloseNotify
    <3>1. tpc = "loop" /\ sc'.received = sc.received
      BY <1>0, <2>1 DEF Looping, writeTls, writePlain, sendCloseNotify, Conn
    <3> QED
      BY <3>1 DEF DrainOK
  <2>2. ASSUME NEW spare \in Spare, readTls(spare) PROVE tpc' # "reader" => sc'.received = <<>>
    <3>1. Len(sc'.received) > 0 => tpc' = "reader"
      BY <2>2 DEF readTls
    <3>2. sc'.received \in Seq(Byte)
      <4>1. TlsInv'
        BY <2>2, ReadTlsInv
      <4> QED
        BY <4>1 DEF TlsInv, TlsTypeOK, Conn
    <3> QED
      BY <3>1, <3>2
  <2>3. CASE processEnter \/ tlsError
    BY <2>3 DEF processEnter, tlsError, Looping, DrainOK
  <2>4. CASE readerData \/ readerEof \/ readerWouldBlock
    BY <2>4 DEF readerData, readerEof, readerWouldBlock
  <2> QED
    BY <2>1, <2>2, <2>3, <2>4
<1>3. engine'.sent_out_eof /\ sc'.sendable = <<>> => out_eof'
  <2>1. CASE writeTls
    <3>1. /\ sc'.sendable = Tail(sc.sendable) /\ sc.sendable # <<>> /\ UNCHANGED engine
          /\ out_eof' = (out_eof \/ (engine.sent_out_eof /\ Len(sc.sendable) = 1))
      BY <1>0, <2>1 DEF writeTls, WantsWrite, Conn
    <3> DEFINE R == Record(Nat)
               s == sc.sendable
    <3>2. s \in Seq(R)
      BY <1>0 DEF Conn
    <3> HIDE DEF R, s
    <3>3. ASSUME s # <<>>, Tail(s) = <<>> PROVE Len(s) = 1
      <4>1. Len(s) \in Nat /\ Len(Tail(s)) = Len(s) - 1
        BY <3>2, <3>3
      <4>2. Len(Tail(s)) = 0
        BY <3>3
      <4> QED
        BY <4>1, <4>2
    <3> QED
      BY <3>1, <3>3 DEF s
  <2>2. CASE sendCloseNotify
    <3> DEFINE R == Record(Nat)
               s == sc.sendable
               c == Rec("close")
    <3>1. s \in Seq(R)
      BY <1>0 DEF Conn
    <3>2. sc'.sendable = Append(s, c)
      BY <1>0, <2>2 DEF sendCloseNotify, Conn
    <3> HIDE DEF R, s, c
    <3>3. Append(s, c) # <<>>
      BY <3>1
    <3> QED
      BY <3>2, <3>3
  <2>3. CASE writePlain
    <3>1. UNCHANGED <<engine, out_eof>> /\ sc.sendable = <<>>
      BY <2>3 DEF writePlain, WantsWrite
    <3> QED
      BY <3>1 DEF DrainOK
  <2>4. ASSUME NEW spare \in Spare, readTls(spare) PROVE engine'.sent_out_eof => out_eof'
    BY <2>4 DEF readTls, WantsWrite, DrainOK
  <2>5. CASE processEnter \/ tlsError \/ readerData \/ readerEof \/ readerWouldBlock
    <3>1. UNCHANGED out_eof /\ sc'.sendable = sc.sendable /\ engine'.sent_out_eof = engine.sent_out_eof
      BY <1>0, <2>5
         DEF processEnter, tlsError, readerData, readerEof, readerWouldBlock, Conn, EngineType
    <3> QED
      BY <3>1 DEF DrainOK
  <2> QED
    BY <2>1, <2>2, <2>3, <2>4, <2>5
<1> QED
  BY <1>1, <1>2, <1>3 DEF DrainOK

(* process returns: with TLS when none of the conditions of its loop holds *)
LEMMA ReturnDrain ==
  ASSUME TlsInv, PeerCloseOK, DrainOK, processReturn
  PROVE  DrainOK'
<1>0. TlsTypeOK /\ UnitsOK /\ ConnOK
  BY DEF TlsInv
<1>1. /\ tpc = "loop" /\ sc.sendable = <<>> /\ int.out = <<>> /\ ~WantsNotify /\ ~WantsRead
      /\ UNCHANGED <<vars, sc, engine, int, must_process>>
  BY DEF processReturn, Looping, WantsWrite
<1>2. sc.tls /\ sc.received = <<>>
  BY <1>0, <1>1 DEF ConnOK, DrainOK
<1>3. int.out_eof => out_eof
  BY <1>1 DEF WantsNotify, DrainOK
<1>4. Good(ib) /\ Unread(ib) \in Seq(Byte) /\ Len(Unread(ib)) = ib.wr - ib.rd /\ ib.wr \in Nat
  BY <1>0, UnreadFacts DEF TlsTypeOK, Good, Buffer
<1>5. Unread(ib) = <<>>
  <2>1. CASE sc.closed
    <3>1. Pending = <<>>
      BY <1>2, <2>1 DEF PeerCloseOK
    <3>2. k.rbuf \in Seq(1..MaxIn)
      BY <1>0 DEF TlsTypeOK, Stream
    <3>3. k.rbuf \in Seq(Byte)
      BY <3>2, BytesTyped
    <3> DEFINE u == Unread(ib)
               b == k.rbuf
               S == Byte
    <3>4. u \in Seq(S) /\ b \in Seq(S) /\ u \o b = <<>>
      BY <1>4, <3>1, <3>3 DEF Pending
    <3> HIDE DEF u, b, S
    <3>5. Len(u \o b) = Len(u) + Len(b) /\ Len(u) \in Nat /\ Len(b) \in Nat
      BY <3>4, ConcatProperties
    <3>6. Len(u) = 0
      BY <3>4, <3>5
    <3> QED
      BY <3>4, <3>6 DEF u
  <2>2. CASE ~sc.closed
    <3>1. ib.rd = ib.wr
      BY <1>1, <1>2, <2>2 DEF WantsRead
    <3>2. Len(Unread(ib)) = 0
      BY <1>4, <3>1
    <3> QED
      BY <1>4, <3>2
  <2> QED
    BY <2>1, <2>2
<1>6. ProcessDone'
  BY <1>1, <1>2, <1>3, <1>5 DEF ProcessDone, Unread
<1>7. sc'.received = <<>> /\ UNCHANGED <<engine, sc, out_eof>>
  BY <1>1, <1>2
<1> QED
  BY <1>6, <1>7 DEF DrainOK

(* Without TLS one exchange passes everything. *)
LEMMA PassDrain ==
  ASSUME TlsInv, DrainOK, NEW spare \in Spare, processPass(spare)
  PROVE  DrainOK'
<1>0. int \in IntType /\ engine \in EngineType /\ ConnOK
  BY DEF TlsInv, TlsTypeOK, IntType, EngineType
<1>1. UNCHANGED <<sc, tpc, inp_eof>> /\ ~sc.tls
  BY DEF processPass
<1>2. /\ int'.out = <<>> /\ int'.out_eof = int.out_eof
      /\ out_eof' = (out_eof \/ int.out_eof)
  BY <1>0 DEF processPass, exchange, OutEofExchanged, IntType
<1>3. engine'.sent_out_eof = engine.sent_out_eof /\ (inp_eof => engine'.inp_eof = "Close")
  BY <1>0 DEF processPass, InpEofExchanged, EngineType
<1>4. Unread(ib') = <<>>
  BY PassEof
<1>5. sc.sendable = <<>>
  BY <1>0, <1>1 DEF ConnOK
<1>6. ProcessDone'
  BY <1>1, <1>2, <1>3, <1>4, <1>5 DEF ProcessDone, Unread
<1> QED
  BY <1>1, <1>2, <1>3, <1>5, <1>6 DEF DrainOK

LEMMA TlsNextDrain ==
  ASSUME TlsInv, PeerCloseOK, DrainOK, [TlsNext]_allVars
  PROVE  DrainOK'
<1>1. CASE World
  <2>1. CASE TlsArrive
    BY <2>1, OutsideDrain
  <2>2. CASE (MoveOut \/ PeerEof \/ FlushStep) /\ UNCHANGED tlsVars
    BY <2>2, OutsideDrain
  <2> QED
    BY <1>1, <2>1, <2>2 DEF World
<1>2. CASE FlushStep /\ UNCHANGED tlsVars
  BY <1>2, OutsideDrain
<1>3. CASE process
  BY <1>3, PassDrain, InsideDrain DEF process
<1>4. CASE ProcessStep
  BY <1>4, InsideDrain, ReturnDrain DEF ProcessStep
<1>5. CASE appWrite \/ appEof \/ appTake
  BY <1>5, OutsideDrain
<1>6. CASE unpause \/ extFlush \/ \E max \in Maxes, spare \in Spare : extRead(max, spare)
  BY <1>6, OutsideDrain
<1>7. CASE UNCHANGED allVars
  BY <1>7, OutsideDrain
<1> QED
  BY <1>1, <1>2, <1>3, <1>4, <1>5, <1>6, <1>7 DEF TlsNext

(* `ext` by itself: its output, as NextOutput has it for the actor that writes
   and flushes in steps of their own *)
ExtOK == stream /\ EofOK /\ NoStrandedOutput /\ InputOK

LEMMA TlsNextExt ==
  ASSUME TlsInv, ExtOK, [TlsNext]_allVars
  PROVE  ExtOK'
<1> USE DEF NoStrandedOutput, Unsent, EofOK, InputOK
<1>0. /\ k \in Stream /\ SndCap > 0 /\ SndCap \in Nat /\ k.nbuf \in 0..SndCap
      /\ stream /\ (sent_out_eof <=> k.shut) /\ NoStrandedOutput /\ InputOK
  BY CapsAssumption DEF TlsInv, TlsTypeOK, Stream, ExtOK
<1>1. CASE MoveOut
  <2>1. /\ k'.shut = k.shut /\ UNCHANGED <<pc, stream, pause, out, out_eof, sent_out_eof, must_flush, inp_eof, must_read>>
        /\ k'.writable = (k.writable \/ k.warm)
        /\ k'.readable = k.readable /\ k'.rarm = k.rarm /\ k'.rbuf = k.rbuf /\ k'.fin = k.fin
    BY <1>0, <1>1 DEF MoveOut, Stream
  <2> QED
    BY <1>0, <2>1 DEF ExtOK
<1>2. CASE Arrive \/ PeerEof
  <2>1. /\ k'.shut = k.shut /\ UNCHANGED <<pc, stream, pause, out, out_eof, sent_out_eof, must_flush, inp_eof, must_read>>
        /\ k'.writable = k.writable /\ k'.warm = k.warm /\ k'.nbuf = k.nbuf
        /\ k'.readable = (k.readable \/ k.rarm)
    BY <1>0, <1>2 DEF Arrive, PeerEof, Stream
  <2> QED
    BY <1>0, <2>1 DEF ExtOK
<1>3. CASE pause_writes(FALSE)
  BY <1>0, <1>3 DEF pause_writes, ExtOK
<1>4. CASE flushError
  BY <1>0, <1>4 DEF flushError, ExtOK
<1>5. CASE flush \/ flushNodelay \/ flushWrite \/ flushShutdown
  <2>1. /\ k'.readable = k.readable /\ k'.rarm = k.rarm /\ k'.rbuf = k.rbuf /\ k'.fin = k.fin
        /\ UNCHANGED <<stream, inp_eof, must_read, pause>> /\ pc # "failed"
    BY <1>0, <1>5 DEF flush, flushNodelay, flushWrite, flushShutdown, Stream
  <2>3. sent_out_eof' <=> k'.shut
    <3>1. CASE flush \/ flushNodelay \/ flushWrite
      <4>1. k'.shut = k.shut /\ UNCHANGED sent_out_eof
        BY <1>0, <3>1 DEF flush, flushNodelay, flushWrite, Stream
      <4> QED
        BY <1>0, <4>1
    <3>2. CASE flushShutdown
      <4>1. k'.shut = TRUE /\ sent_out_eof' = TRUE
        BY <1>0, <3>2 DEF flushShutdown, Stream
      <4> QED
        BY <4>1
    <3> QED
      BY <1>5, <3>1, <3>2
  <2>2. pc' = "idle" => pause
    BY <1>0, <1>5 DEF flush, FlushEntry, flushNodelay, flushWrite, flushShutdown
  <2> QED
    BY <1>0, <2>1, <2>2, <2>3 DEF ExtOK
<1>6. CASE flushReturn
  <2>1. /\ k'.shut = k.shut /\ UNCHANGED <<stream, pause, out, out_eof, sent_out_eof, must_flush, inp_eof, must_read>>
        /\ (out # <<>> /\ k.nbuf = SndCap => k'.warm) /\ k'.nbuf = k.nbuf
        /\ k'.readable = k.readable /\ k'.rarm = k.rarm /\ k'.rbuf = k.rbuf /\ k'.fin = k.fin
        /\ pc # "failed"
    BY <1>0, <1>6 DEF flushReturn, Stream
  <2>2. CASE out # <<>>
    <3>1. k.nbuf = SndCap
      BY <1>6, <2>2 DEF flushReturn, FlushOver
    <3> QED
      BY <1>0, <2>1, <2>2, <3>1 DEF ExtOK
  <2>3. CASE out = <<>>
    <3>1. out_eof => sent_out_eof
      BY <1>6, <2>3 DEF flushReturn, FlushOver
    <3> QED
      BY <1>0, <2>1, <2>3, <3>1 DEF ExtOK
  <2> QED
    BY <2>2, <2>3
<1>7. ASSUME NEW max \in Maxes, NEW spare \in Spare, ReadStep(max, spare) PROVE ExtOK'
  <2>1. /\ k'.shut = k.shut /\ k'.writable = k.writable /\ k'.warm = k.warm /\ k'.nbuf = k.nbuf
        /\ UNCHANGED <<stream, pause, out, out_eof, sent_out_eof, must_flush>> /\ (pc' = pc \/ pc' = "failed")
    BY <1>0, <1>7 DEF ReadStep, readData, readEof, readWouldBlock, readError, Stream
  <2>2. InputOK'
    <3>1. CASE readData(max, spare) \/ readEof(max, spare) \/ readError(max, spare)
      BY <3>1 DEF readData, readEof, readError
    <3>2. CASE readWouldBlock(max, spare)
      BY <1>0, <3>2 DEF readWouldBlock, NothingToRead, Stream
    <3> QED
      BY <1>7, <3>1, <3>2 DEF ReadStep
  <2> QED
    BY <1>0, <2>1, <2>2 DEF ExtOK
<1>8. CASE writeTls \/ \E spare \in Spare : processPass(spare)
  <2>1. /\ UNCHANGED <<k, stream, sent_out_eof, inp_eof, must_read, pause>>
        /\ pc = "idle" /\ pc' = IF pause \/ ~stream THEN "idle" ELSE "nodelay"
    BY <1>8 DEF writeTls, Looping, processPass, FlushEntry
  <2> QED
    BY <1>0, <2>1 DEF ExtOK
<1>9. CASE UNCHANGED vars
  BY <1>0, <1>9 DEF ExtOK
<1>10. CASE \E spare \in Spare : readTls(spare)
  <2>1. UNCHANGED <<k, outVars, flagVars, inp_eof, must_read, pc, must_flush>>
    BY <1>10 DEF readTls
  <2> QED
    BY <1>0, <2>1 DEF ExtOK
<1>11. CASE tlsError
  <2>1. UNCHANGED <<k, outVars, flagVars, inp_eof, must_read, must_flush>> /\ pc' = "failed"
    BY <1>11 DEF tlsError
  <2> QED
    BY <1>0, <2>1 DEF ExtOK
<1>12. CASE unpause \/ extFlush \/ \E max \in Maxes, spare \in Spare : extRead(max, spare)
  BY <1>3, <1>5, <1>7, <1>12 DEF unpause, extFlush, extRead
<1>13. CASE World \/ FlushStep
  BY <1>1, <1>2, <1>4, <1>5, <1>6, <1>13 DEF World, TlsArrive, FlushStep
<1>14. CASE process \/ ProcessStep
  BY <1>8, <1>9, <1>10, <1>11, <1>14 DEF process, processEnter, ProcessStep, writePlain, sendCloseNotify,
     processReturn, readerData, readerEof, readerWouldBlock
<1>15. CASE appWrite \/ appEof \/ appTake
  BY <1>9, <1>15 DEF appWrite, appEof, appTake
<1> QED
  BY <1>9, <1>12, <1>13, <1>14, <1>15 DEF TlsNext

(* When no call of process is running or due, all that the application wrote
   has gone to `ext` with its EOF, except what rustls holds until the handshake
   is over, and all that `ext` received has gone to the application; what `ext`
   has left to send, and the socket to give, has a call or an event on its way. *)
NothingLeftBehind ==
  Idle /\ ~must_process =>
    /\ ProcessDone /\ sc.received = <<>>
    /\ NoStrandedOutput /\ NoStrandedInput

(* process and flush leave nothing stranded, with TLS and without, whatever is
   written, received, closed or blocked in between (tls_rustls.rs, the loop of
   process and its conditions; TcpStreamBuf::exchange). *)
THEOREM TlsNeverStranded == TlsSpec => []NothingLeftBehind
<1>1. TlsInit => ExtOK
  BY DEF TlsInit, ExtOK, EofOK, NoStrandedOutput, InputOK, NewStream
<1>2. TlsInv /\ PeerCloseOK /\ DrainOK /\ ExtOK /\ [TlsNext]_allVars => DrainOK' /\ ExtOK'
  BY TlsNextDrain, TlsNextExt
<1>3. DrainOK /\ ExtOK => NothingLeftBehind
  BY DEF DrainOK, ExtOK, InputOK, NoStrandedInput, NothingLeftBehind, Idle
<1> QED
  BY <1>1, <1>2, <1>3, TlsInitDrain, TlsInvariance, PeerCloseInvariance, PTL DEF TlsSpec
=============================================================================
