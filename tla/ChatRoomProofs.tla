--------------------------- MODULE ChatRoomProofs ---------------------------
(***************************************************************************)
(* Proofs about ChatRoom for every set of channels, events, peers and      *)
(* texts and for every Cap and MaxKept.                                    *)
(***************************************************************************)
EXTENDS ChatRoom, SequenceTheorems, TLAPS

Has(s, x) == \E i \in DOMAIN s : s[i] = x
Arrived == seen \ {o.ev : o \in opening}
Logs(h) == h \in [Channels -> Seq(Lines)] /\ \A c \in Channels : Len(h[c]) <= Cap

\* OncePerEvent of the histories h, with what makes it inductive: only an event whose
\* decryption is over is shown.
ShownOnce(h, A) ==
  \A e \in Events, c \in Channels : \A i \in DOMAIN h[c] : Shows(h[c][i], e) =>
    c = ChanOf[e] /\ e \in A /\ \A j \in DOMAIN h[c] : Shows(h[c][j], e) => i = j

\* The room, by itself
RoomInv ==
  /\ channel \in Channels /\ list \in Seq(Channels) /\ messages \in Seq(Lines)
  /\ Logs(hist) /\ unread \in [Channels -> Nat]
  /\ ViewIsHistory /\ UnreadIsReachable /\ ShownOnce(hist, Arrived)

\* An event is with dm_decrypt once, and was seen.
OpenInv ==
  /\ seen \subseteq Events /\ opening \subseteq [ev : Events, with : Peers]
  /\ \A o \in opening : o.ev \in seen /\ \A p \in opening : p.ev = o.ev => p = o

\* What send has under way was entered so, and so was what went out.
SendInv ==
  /\ named \in BOOLEAN /\ asks \in Nat /\ moves \in Nat
  /\ sending \subseteq [text : Texts, seal : Whom, step : {"seal", "nick"}]
  /\ typed \subseteq [text : Texts, seal : Whom]
  /\ wire \subseteq [text : Texts, to : Channels, seal : Whom]
  /\ \A s \in sending : [text |-> s.text, seal |-> s.seal] \in typed
  /\ SealedAsTyped

DmInv ==
  /\ dmMode \in BOOLEAN /\ keys \in BOOLEAN /\ peer \in Whom
  /\ book \in Seq(Peers) /\ kept \in Seq(Peers) /\ BookIsKept

IInv == RoomInv /\ OpenInv /\ SendInv /\ DmInv
-----------------------------------------------------------------------------
\* A log grows by one line at its end and loses lines at its head, down to Cap.
Follows(t, s, l) ==
  /\ t \in Seq(Lines) /\ Len(t) <= Cap
  /\ \E k \in Nat : \A i \in DOMAIN t :
       /\ i + k \in 1..(Len(s) + 1)
       /\ t[i] = IF i + k = Len(s) + 1 THEN l ELSE s[i + k]

LEMMA NewestIsTail ==
  ASSUME NEW s \in Seq(Lines), NEW l \in Lines, Len(s) <= Cap
  PROVE  Follows(R!Newest(Append(s, l)), s, l)
<1> DEFINE a == Append(s, l)
           n == Len(s) + 1
           t == R!Newest(a)
<1>1. /\ a \in Seq(Lines) /\ Len(a) = n /\ n \in Nat /\ DOMAIN a = 1..n
      /\ \A i \in 1..Len(s) : a[i] = s[i]
      /\ a[n] = l
  BY AppendProperties, LenProperties
<1>2. \A i \in 1..n : a[i] \in Lines /\ a[i] = IF i = n THEN l ELSE s[i]
  BY <1>1, ElementOfSeq, LenProperties
<1>. HIDE DEF a, n, t
<1>3. CASE n > Cap
  <2> DEFINE k == n - Cap
  <2>1. k \in Nat /\ t = SubSeq(a, k + 1, n)
    <3>1. n - Cap \in Nat
      BY <1>1, <1>3, RoomAssumption
    <3>2. Len(a) > Cap
      BY <1>1, <1>3
    <3>3. R!Newest(a) = SubSeq(a, n - Cap + 1, n)
      BY <1>1, <3>2, Zenon DEF R!Newest
    <3>. QED
      BY <3>1, <3>3 DEF t
  <2>2. \A i \in k + 1 .. n : a[i] \in Lines
    BY <1>1, <1>2, <2>1
  <2>3. /\ t \in Seq(Lines)
        /\ Len(t) = IF k + 1 <= n THEN n - (k + 1) + 1 ELSE 0
        /\ \A i \in 1 .. n - (k + 1) + 1 : t[i] = a[k + 1 + i - 1]
    BY <1>1, <2>1, <2>2, SubSeqProperties
  <2>4. Len(t) = Cap /\ DOMAIN t = 1..Cap /\ \A i \in 1..Cap : t[i] = a[i + k]
    BY <1>1, <2>1, <2>3, LenProperties, RoomAssumption
  <2>5. \A i \in 1..Cap : i + k \in 1..n
    BY <1>1, <2>1, RoomAssumption
  <2>6. \A i \in DOMAIN t : i + k \in 1..n /\ t[i] = IF i + k = n THEN l ELSE s[i + k]
    BY <1>2, <2>4, <2>5
  <2>7. Len(t) <= Cap
    BY <2>4, RoomAssumption
  <2>8. Follows(t, s, l)
    BY <2>1, <2>3, <2>6, <2>7 DEF Follows, n
  <2>. QED
    BY <2>8 DEF t, a
<1>4. CASE ~(n > Cap)
  <2>1. t = a
    BY <1>1, <1>4 DEF R!Newest, t
  <2>2. \A i \in DOMAIN a : i + 0 \in 1..n /\ a[i] = (IF i + 0 = n THEN l ELSE s[i + 0])
    BY <1>1, <1>2
  <2>3. Len(a) <= Cap
    BY <1>1, <1>4, RoomAssumption
  <2>4. Follows(t, s, l)
    BY <1>1, <2>1, <2>2, <2>3 DEF Follows, n
  <2>. QED
    BY <2>4 DEF t, a
<1>. QED
  BY <1>3, <1>4

\* A line put into one channel leaves the others, the types and the limit.
LEMMA PutType ==
  ASSUME NEW h, Logs(h), NEW c \in Channels, NEW l \in Lines
  PROVE  /\ Logs(R!Put(h, c, l))
         /\ R!Put(h, c, l)[c] = R!Newest(Append(h[c], l))
         /\ \A d \in Channels \ {c} : R!Put(h, c, l)[d] = h[d]
<1>1. R!Newest(Append(h[c], l)) \in Seq(Lines) /\ Len(R!Newest(Append(h[c], l))) <= Cap
  BY NewestIsTail DEF Logs, Follows
<1>. QED
  BY <1>1 DEF Logs, R!Put

\* A new line shows no event twice when it shows none that arrived before.
LEMMA PutShown ==
  ASSUME NEW h, Logs(h), NEW c \in Channels, NEW l \in Lines, NEW A, NEW B, A \subseteq B,
         ShownOnce(h, A), \A e \in Events : Shows(l, e) => c = ChanOf[e] /\ e \in B \ A
  PROVE  ShownOnce(R!Put(h, c, l), B)
<1> DEFINE g == R!Put(h, c, l)
<1> SUFFICES ASSUME NEW e \in Events, NEW d \in Channels, NEW i \in DOMAIN g[d], Shows(g[d][i], e)
             PROVE  d = ChanOf[e] /\ e \in B /\ \A j \in DOMAIN g[d] : Shows(g[d][j], e) => i = j
  BY DEF ShownOnce
<1>1. CASE d # c
  BY <1>1, PutType DEF ShownOnce
<1>2. CASE d = c
  <2> DEFINE n == Len(h[c]) + 1
  <2> HIDE DEF g
  <2>1. h[c] \in Seq(Lines) /\ Len(h[c]) <= Cap
    BY DEF Logs
  <2>2. Follows(g[c], h[c], l)
    BY <2>1, NewestIsTail, PutType DEF g
  <2>3. PICK k \in Nat : \A j \in DOMAIN g[c] :
             j + k \in 1..n /\ g[c][j] = (IF j + k = n THEN l ELSE h[c][j + k])
    BY <2>2 DEF Follows
  <2>4. /\ DOMAIN h[c] = 1..Len(h[c]) /\ Len(h[c]) \in Nat
        /\ DOMAIN g[c] = 1..Len(g[c]) /\ Len(g[c]) \in Nat
    BY <2>1, <2>2, LenProperties DEF Follows
  <2>5. \A j \in DOMAIN g[c] :
          \/ j + k = n /\ g[c][j] = l
          \/ j + k \in DOMAIN h[c] /\ g[c][j] = h[c][j + k]
    BY <2>3, <2>4
  <2> HIDE DEF n
  <2>6. CASE Shows(l, e)
    <3>1. \A m \in DOMAIN h[c] : ~Shows(h[c][m], e)
      BY <2>6 DEF ShownOnce
    <3>2. \A j \in DOMAIN g[c] : Shows(g[c][j], e) => j + k = n
      BY <2>5, <3>1
    <3>3. \A j \in DOMAIN g[c] : Shows(g[c][j], e) => i = j
      BY <1>2, <2>3, <2>4, <3>2 DEF n
    <3>. QED
      BY <1>2, <2>6, <3>3
  <2>7. CASE ~Shows(l, e)
    <3>1. \A j \in DOMAIN g[c] : Shows(g[c][j], e) =>
            j + k \in DOMAIN h[c] /\ Shows(h[c][j + k], e)
      BY <2>5, <2>7
    <3>2. i + k \in DOMAIN h[c] /\ Shows(h[c][i + k], e)
      BY <1>2, <3>1
    <3>3. /\ c = ChanOf[e] /\ e \in A
          /\ \A m \in DOMAIN h[c] : Shows(h[c][m], e) => i + k = m
      BY <3>2 DEF ShownOnce
    <3>4. \A j \in DOMAIN g[c] : Shows(g[c][j], e) => i + k = j + k
      BY <3>1, <3>3
    <3>5. \A j \in DOMAIN g[c] : Shows(g[c][j], e) => i = j
      BY <1>2, <2>4, <3>4
    <3>. QED
      BY <1>2, <3>3, <3>5
  <2>. QED
    BY <2>6, <2>7
<1>. QED
  BY <1>1, <1>2

\* Neither does emptying a channel.
LEMMA EmptyShown ==
  ASSUME NEW h, Logs(h), NEW c \in Channels, NEW A, ShownOnce(h, A)
  PROVE  /\ Logs([h EXCEPT ![c] = <<>>]) /\ ShownOnce([h EXCEPT ![c] = <<>>], A)
<1> DEFINE g == [h EXCEPT ![c] = <<>>]
<1>1. <<>> \in Seq(Lines) /\ Len(<<>>) = 0 /\ Len(<<>>) <= Cap /\ DOMAIN <<>> = {}
  BY EmptySeq, RoomAssumption
<1>2. /\ g \in [Channels -> Seq(Lines)] /\ g[c] = <<>>
      /\ \A d \in Channels \ {c} : g[d] = h[d]
  BY <1>1 DEF Logs
<1>3. Logs(g)
  BY <1>1, <1>2 DEF Logs
<1>4. ShownOnce(g, A)
  BY <1>1, <1>2 DEF ShownOnce
<1>. QED
  BY <1>3, <1>4

\* Own lines and notes show no event.
LEMMA OtherLines ==
  /\ R!System \in Lines /\ \A e \in Events : ~Shows(R!System, e)
  /\ \A t \in Texts : R!Own(t) \in Lines /\ \A e \in Events : ~Shows(R!Own(t), e)
  /\ \A e \in Events : /\ R!Raw(e) \in Lines /\ R!Plain(e) \in Lines
                       /\ \A f \in Events : Shows(R!Raw(e), f) \/ Shows(R!Plain(e), f) => f = e
<1>1. R!System \in Lines /\ \A e \in Events : ~Shows(R!System, e)
  BY DEF Lines, Shows, R!System, R!Raw, R!Plain
<1>2. \A t \in Texts : R!Own(t) \in Lines /\ \A e \in Events : ~Shows(R!Own(t), e)
  BY DEF Lines, Shows, R!Own, R!Raw, R!Plain
<1>3. \A e \in Events : R!Raw(e) \in Lines /\ R!Plain(e) \in Lines
  BY DEF Lines, R!Raw, R!Plain
<1>4. \A e, f \in Events : Shows(R!Raw(e), f) \/ Shows(R!Plain(e), f) => f = e
  BY DEF Shows, R!Raw, R!Plain
<1>. QED
  BY <1>1, <1>2, <1>3, <1>4

-----------------------------------------------------------------------------
\* A list without repetition that grows at its end, or at its head, by something new
LEMMA Appended ==
  ASSUME NEW S, NEW s \in Seq(S), Once(s), NEW x \in S, ~Has(s, x)
  PROVE  /\ Append(s, x) \in Seq(S) /\ Once(Append(s, x))
         /\ \A y : Has(Append(s, x), y) <=> y = x \/ Has(s, y)
<1> DEFINE a == Append(s, x)
<1>1. /\ a \in Seq(S) /\ Len(a) = Len(s) + 1 /\ Len(s) \in Nat
      /\ DOMAIN a = 1..(Len(s) + 1) /\ DOMAIN s = 1..Len(s)
      /\ \A i \in 1..Len(s) : a[i] = s[i]
      /\ a[Len(s) + 1] = x
  BY AppendProperties, LenProperties
<1>2. /\ DOMAIN a = DOMAIN s \cup {Len(s) + 1} /\ Len(s) + 1 \notin DOMAIN s
  BY <1>1
<1> HIDE DEF a
<1>3. Once(a)
  BY <1>1, <1>2 DEF Once, Has
<1>4. \A y : Has(a, y) <=> y = x \/ Has(s, y)
  BY <1>1, <1>2 DEF Has
<1>. QED
  BY <1>1, <1>3, <1>4 DEF a

LEMMA Prepended ==
  ASSUME NEW S, NEW s \in Seq(S), Once(s), NEW x \in S, ~Has(s, x)
  PROVE  <<x>> \o s \in Seq(S) /\ Once(<<x>> \o s)
<1> DEFINE a == <<x>> \o s
<1>1. <<x>> \in Seq(S) /\ Len(<<x>>) = 1 /\ <<x>>[1] = x
  OBVIOUS
<1>2. /\ a \in Seq(S) /\ Len(a) = 1 + Len(s) /\ Len(s) \in Nat
      /\ DOMAIN a = 1..(1 + Len(s)) /\ DOMAIN s = 1..Len(s)
      /\ \A i \in 1..(1 + Len(s)) : a[i] = IF i <= 1 THEN <<x>>[i] ELSE s[i - 1]
  BY <1>1, ConcatProperties, LenProperties
<1>3. \A i \in DOMAIN a : \/ i = 1 /\ a[i] = x
                          \/ i - 1 \in DOMAIN s /\ a[i] = s[i - 1]
  BY <1>1, <1>2
<1> HIDE DEF a
<1>4. Once(a)
  <2> SUFFICES ASSUME NEW i \in DOMAIN a, NEW j \in DOMAIN a, a[i] = a[j] PROVE i = j
    BY DEF Once
  <2>1. \/ i = 1 /\ j = 1
        \/ i - 1 \in DOMAIN s /\ j - 1 \in DOMAIN s /\ s[i - 1] = s[j - 1]
    BY <1>3 DEF Has
  <2>. QED
    BY <1>2, <2>1 DEF Once
<1>. QED
  BY <1>2, <1>4 DEF a

\* Without takes x, and only x, out of such a list.
LEMMA WithoutTakes ==
  ASSUME NEW S, NEW s \in Seq(S), Once(s), NEW x
  PROVE  /\ Without(s, x) \in Seq(S) /\ Once(Without(s, x))
         /\ \A y : Has(Without(s, x), y) <=> y # x /\ Has(s, y)
<1>1. CASE ~Has(s, x)
  <2>1. Without(s, x) = s
    BY <1>1 DEF Without, Has
  <2>. QED
    BY <1>1, <2>1 DEF Has
<1>2. CASE Has(s, x)
  <2> DEFINE k == CHOOSE k \in DOMAIN s : s[k] = x
             b == SubSeq(s, 1, k - 1)
             c == SubSeq(s, k + 1, Len(s))
  <2>1. k \in DOMAIN s /\ s[k] = x
    BY <1>2 DEF Has
  <2>2. Without(s, x) = b \o c
    BY <1>2 DEF Without, Has
  <2> HIDE DEF k
  <2>3. /\ DOMAIN s = 1..Len(s) /\ Len(s) \in Nat /\ k \in 1..Len(s)
        /\ \A i \in 1..Len(s) : s[i] \in S
    BY <2>1, LenProperties, ElementOfSeq
  <2>4. /\ \A i \in 1 .. k - 1 : s[i] \in S
        /\ \A i \in k + 1 .. Len(s) : s[i] \in S
    BY <2>3
  <2>5. /\ b \in Seq(S)
        /\ Len(b) = IF 1 <= k - 1 THEN k - 1 - 1 + 1 ELSE 0
        /\ \A i \in 1 .. k - 1 - 1 + 1 : b[i] = s[1 + i - 1]
    BY <2>3, <2>4, SubSeqProperties
  <2>6. /\ c \in Seq(S)
        /\ Len(c) = IF k + 1 <= Len(s) THEN Len(s) - (k + 1) + 1 ELSE 0
        /\ \A i \in 1 .. Len(s) - (k + 1) + 1 : c[i] = s[k + 1 + i - 1]
    BY <2>3, <2>4, SubSeqProperties
  <2> HIDE DEF b, c
  <2>7. /\ Len(b) = k - 1 /\ \A i \in 1 .. k - 1 : b[i] = s[i]
        /\ Len(c) = Len(s) - k /\ \A i \in 1 .. Len(s) - k : c[i] = s[k + i]
    <3>1. Len(b) = k - 1 /\ Len(c) = Len(s) - k
      <4>1. k \in Int /\ Len(s) \in Int /\ 1 <= k /\ k <= Len(s)
        BY <2>3
      <4>2. Len(b) = k - 1
        BY <2>5, <4>1
      <4>3. Len(c) = Len(s) - k
        BY <2>6, <4>1
      <4>. QED
        BY <4>2, <4>3
    <3>2. \A i \in 1 .. k - 1 : b[i] = s[i]
      BY <2>3, <2>5
    <3>3. ASSUME NEW i \in 1 .. Len(s) - k PROVE c[i] = s[k + i]
      <4>1. i \in 1 .. Len(s) - (k + 1) + 1 /\ k + 1 + i - 1 = k + i
        BY <2>3
      <4>. QED
        BY <2>6, <4>1
    <3>. QED
      BY <3>1, <3>2, <3>3
  <2> DEFINE w == b \o c
  <2>8. /\ w \in Seq(S) /\ Len(w) = Len(b) + Len(c)
        /\ \A i \in 1 .. Len(b) + Len(c) : w[i] = IF i <= Len(b) THEN b[i] ELSE c[i - Len(b)]
    BY <2>5, <2>6, ConcatProperties
  <2>9. DOMAIN w = 1 .. Len(s) - 1
    <3>1. DOMAIN w = 1 .. Len(w)
      BY <2>8, LenProperties
    <3>. QED
      BY <2>3, <2>7, <2>8, <3>1
  <2> HIDE DEF w
  <2>10. \A i \in 1 .. Len(s) - 1 : w[i] = IF i < k THEN s[i] ELSE s[i + 1]
    <3> SUFFICES ASSUME NEW i \in 1 .. Len(s) - 1
                 PROVE  w[i] = IF i < k THEN s[i] ELSE s[i + 1]
      OBVIOUS
    <3>1. w[i] = IF i <= k - 1 THEN b[i] ELSE c[i - (k - 1)]
      BY <2>3, <2>7, <2>8
    <3>2. CASE i < k
      BY <2>3, <2>7, <3>1, <3>2
    <3>3. CASE ~(i < k)
      <4>1. i - (k - 1) \in 1 .. Len(s) - k /\ k + (i - (k - 1)) = i + 1
        BY <2>3, <3>3
      <4>. QED
        BY <2>3, <2>7, <3>1, <3>3, <4>1
    <3>. QED
      BY <3>2, <3>3
  <2> DEFINE up(i) == IF i < k THEN i ELSE i + 1
  <2>11. \A i \in DOMAIN w : up(i) \in DOMAIN s \ {k} /\ w[i] = s[up(i)]
    BY <2>3, <2>9, <2>10
  <2>12. \A i, j \in DOMAIN w : up(i) = up(j) => i = j
    BY <2>3, <2>9
  <2>13. \A m \in DOMAIN s \ {k} : \E i \in DOMAIN w : up(i) = m
    <3> SUFFICES ASSUME NEW m \in DOMAIN s \ {k} PROVE \E i \in DOMAIN w : up(i) = m
      OBVIOUS
    <3>1. CASE m < k
      BY <2>3, <2>9, <3>1
    <3>2. CASE ~(m < k)
      <4>1. m - 1 \in DOMAIN w /\ up(m - 1) = m
        BY <2>3, <2>9, <3>2
      <4>. QED
        BY <4>1
    <3>. QED
      BY <3>1, <3>2
  <2> HIDE DEF up
  <2>14. Once(w)
    BY <2>11, <2>12 DEF Once
  <2>15. ASSUME NEW y PROVE Has(w, y) <=> y # x /\ Has(s, y)
    <3>1. Has(w, y) => y # x /\ Has(s, y)
      BY <2>1, <2>11 DEF Has, Once
    <3>2. y # x /\ Has(s, y) => Has(w, y)
      BY <2>1, <2>11, <2>13 DEF Has
    <3>. QED
      BY <3>1, <3>2
  <2>. QED
    BY <2>2, <2>8, <2>14, <2>15 DEF w
<1>. QED
  BY <1>1, <1>2

\* What is stored is a prefix, and storing it again changes nothing.
LEMMA FirstKeptIsPrefix ==
  ASSUME NEW s \in Seq(Peers), Once(s)
  PROVE  /\ FirstKept(s) \in Seq(Peers) /\ Once(FirstKept(s))
         /\ FirstKept(FirstKept(s)) = FirstKept(s)
<1> DEFINE m == IF Len(s) < MaxKept THEN Len(s) ELSE MaxKept
           t == FirstKept(s)
<1>1. Len(s) \in Nat /\ DOMAIN s = 1..Len(s) /\ m \in 0..Len(s) /\ m <= MaxKept
  BY LenProperties, RoomAssumption
<1>2. \A i \in 1 .. m : s[i] \in Peers
  BY <1>1, ElementOfSeq
<1>3. t = SubSeq(s, 1, m)
  BY DEF FirstKept
<1> HIDE DEF m, t
<1>4. /\ t \in Seq(Peers)
      /\ Len(t) = IF 1 <= m THEN m - 1 + 1 ELSE 0
      /\ \A i \in 1 .. m - 1 + 1 : t[i] = s[1 + i - 1]
  BY <1>1, <1>2, <1>3, SubSeqProperties
<1>5. Len(t) = m /\ DOMAIN t = 1..m /\ \A i \in 1..m : t[i] = s[i]
  BY <1>1, <1>4, LenProperties
<1>6. Once(t)
  BY <1>1, <1>5 DEF Once
<1>7. (IF Len(t) < MaxKept THEN Len(t) ELSE MaxKept) = Len(t)
  BY <1>1, <1>5, RoomAssumption
<1>8. FirstKept(t) = SubSeq(t, 1, Len(t))
  BY <1>7 DEF FirstKept
<1>9. FirstKept(t) = t
  BY <1>4, <1>8, SubSeqFull
<1>. QED
  BY <1>4, <1>6, <1>9 DEF t

-----------------------------------------------------------------------------
\* The effects on the room, each with the step of the abstract room it is

\* The end of ingestMessage
LEMMA ShowStep ==
  ASSUME RoomInv, NEW e \in Events, NEW l \in {R!Raw(e), R!Plain(e)}, e \notin Arrived,
         Arrived' = Arrived \cup {e}, wire' = wire, Show(ChanOf[e], l)
  PROVE  RoomInv' /\ R!Arrive(e)
<1> DEFINE c == ChanOf[e]
<1> USE DEF RoomInv
<1>1. c \in Channels
  BY RoomAssumption
<1>2. l \in Lines /\ \A f \in Events : Shows(l, f) => f = e
  BY OtherLines
<1>3. hist' = R!Put(hist, c, l) /\ channel' = channel
  BY DEF Show
<1>4. Logs(hist')
  BY <1>1, <1>2, <1>3, PutType
<1>5. ShownOnce(R!Put(hist, c, l), Arrived \cup {e})
  <2>1. \A f \in Events : Shows(l, f) => c = ChanOf[f] /\ f \in (Arrived \cup {e}) \ Arrived
    BY <1>2
  <2>2. Logs(hist) /\ ShownOnce(hist, Arrived) /\ Arrived \subseteq Arrived \cup {e}
    OBVIOUS
  <2>. QED
    BY <1>1, <1>2, <2>1, <2>2, PutShown
<1>6. ShownOnce(hist, Arrived)'
  BY <1>3, <1>5 DEF ShownOnce
<1>7. messages' = hist'[channel]
  <2>1. CASE c = channel
    BY <2>1 DEF Show
  <2>2. CASE c # channel
    BY <1>1, <1>2, <1>3, <2>2, PutType DEF Show, ViewIsHistory
  <2>. QED
    BY <2>1, <2>2
<1>8. ViewIsHistory' /\ messages' \in Seq(Lines)
  BY <1>3, <1>4, <1>7 DEF ViewIsHistory, Logs
<1>9. /\ unread' = IF c = channel THEN unread ELSE [unread EXCEPT ![c] = @ + 1]
      /\ unread' \in [Channels -> Nat]
  BY <1>1 DEF Show
<1>10. list' \in Seq(Channels) /\ UnreadIsReachable'
  <2>1. CASE c = channel \/ Listed(c)
    BY <1>1, <1>3, <1>9, <2>1 DEF Show, UnreadIsReachable, Listed
  <2>2. CASE c # channel /\ ~Listed(c)
    <3>1. list' = Append(list, c)
      BY <2>2 DEF Show
    <3>2. /\ list' \in Seq(Channels) /\ Once(list')
          /\ \A d : Has(list', d) <=> d = c \/ Has(list, d)
      <4>1. list \in Seq(Channels) /\ Once(list) /\ ~Has(list, c)
        BY <2>2 DEF Listed, Has, UnreadIsReachable
      <4>. QED
        BY <1>1, <3>1, <4>1, Appended
    <3>3. Listed(channel)' /\ \A d \in Channels : unread'[d] > 0 => Has(list', d)
      BY <1>1, <1>3, <1>9, <2>2, <3>2 DEF Listed, Has, UnreadIsReachable
    <3>. QED
      BY <1>1, <1>3, <1>9, <2>2, <3>2, <3>3 DEF Listed, Has, UnreadIsReachable
  <2>. QED
    BY <2>1, <2>2
<1>11. R!Arrive(e)
  BY <1>3, <1>9 DEF R!Arrive, Arrived
<1>. QED
  BY <1>3, <1>4, <1>6, <1>8, <1>9, <1>10, <1>11

\* A line of the user's own, or a note, in the active channel
LEMMA OwnLine ==
  ASSUME RoomInv, NEW l \in Lines, \A e \in Events : ~Shows(l, e),
         hist' = R!Put(hist, channel, l), messages' = hist'[channel],
         UNCHANGED <<channel, list, unread>>, Arrived' = Arrived
  PROVE  RoomInv'
<1> USE DEF RoomInv
<1>1. Logs(hist')
  BY PutType
<1>2. ShownOnce(hist, Arrived)'
  <2>1. ShownOnce(R!Put(hist, channel, l), Arrived)
    BY PutShown
  <2>. QED
    BY <2>1 DEF ShownOnce
<1>3. ViewIsHistory' /\ messages' \in Seq(Lines)
  BY <1>1 DEF ViewIsHistory, Logs
<1>4. UnreadIsReachable'
  BY DEF UnreadIsReachable, Listed
<1>. QED
  BY <1>1, <1>2, <1>3, <1>4

LEMMA TellStep ==
  ASSUME RoomInv, Tell, Arrived' = Arrived, wire' = wire
  PROVE  RoomInv' /\ R!Note
<1>1. RoomInv'
  BY OtherLines, OwnLine DEF Tell
<1>2. R!Note
  BY DEF Tell, R!Note, Arrived
<1>. QED
  BY <1>1, <1>2

LEMMA PostStep ==
  ASSUME RoomInv, NEW t \in Texts, NEW seal, Post(t, seal), Arrived' = Arrived
  PROVE  RoomInv' /\ R!Say(t)
<1>1. RoomInv'
  BY OtherLines, OwnLine DEF Post
<1>2. {[text |-> w.text, to |-> w.to] : w \in wire'}
        = {[text |-> w.text, to |-> w.to] : w \in wire} \cup {[text |-> t, to |-> channel]}
  <2> DEFINE new == [text |-> t, to |-> channel, seal |-> seal]
  <2>1. wire' = wire \cup {new} /\ new.text = t /\ new.to = channel
    BY DEF Post
  <2> HIDE DEF new
  <2>. QED
    BY <2>1
<1>3. R!Say(t)
  BY <1>2 DEF Post, R!Say, Arrived
<1>. QED
  BY <1>1, <1>3

\* loadChannel, on the histories as they are or with the active one emptied
LEMMA LoadStep ==
  ASSUME RoomInv, NEW g, Logs(g), ShownOnce(g, Arrived), NEW c \in Channels,
         NEW h \in {g, R!Put(g, c, R!System)}, Load(h, c),
         list' \in Seq(Channels), Once(list'), Has(list', c),
         \A d \in Channels \ {c} : unread[d] > 0 => Has(list', d),
         Arrived' = Arrived, wire' = wire
  PROVE  RoomInv' /\ R!Read(g, c)
<1> USE DEF RoomInv
<1>1. Logs(h)
  BY OtherLines, PutType
<1>2. ShownOnce(h, Arrived)
  <2>1. ShownOnce(R!Put(g, c, R!System), Arrived)
    BY OtherLines, PutShown
  <2>. QED
    BY <2>1
<1>3. /\ channel' = c /\ hist' = h /\ messages' = h[c]
      /\ unread' = [unread EXCEPT ![c] = 0]
  BY DEF Load
<1>4. ViewIsHistory' /\ messages' \in Seq(Lines) /\ Logs(hist') /\ ShownOnce(hist, Arrived)'
  BY <1>1, <1>2, <1>3 DEF ViewIsHistory, Logs, ShownOnce
<1>5. UnreadIsReachable' /\ unread' \in [Channels -> Nat]
  BY <1>3 DEF UnreadIsReachable, Listed, Has
<1>6. R!Read(g, c)
  BY <1>3 DEF R!Read, Arrived
<1>. QED
  BY <1>3, <1>4, <1>5, <1>6

\* The active history is already what is shown.
LEMMA PersistedIsHist ==
  ASSUME RoomInv
  PROVE  Persisted = hist
BY DEF Persisted, RoomInv, ViewIsHistory, Logs

\* The empty room
LEMMA EmptyRoom ==
  /\ Defaults[1] \in Channels /\ Has(Defaults, Defaults[1])
  /\ <<>> \in Seq(Lines) /\ Logs([c \in Channels |-> <<>>])
  /\ \A A : ShownOnce([c \in Channels |-> <<>>], A)
<1>1. Len(Defaults) \in Nat \ {0} /\ DOMAIN Defaults = 1..Len(Defaults)
  BY RoomAssumption, EmptySeq, LenProperties
<1>2. 1 \in 1..Len(Defaults)
  BY <1>1
<1>3. Defaults[1] \in Channels /\ Has(Defaults, Defaults[1])
  BY <1>1, <1>2, RoomAssumption, ElementOfSeq DEF Has
<1>4. <<>> \in Seq(Lines) /\ Len(<<>>) = 0 /\ Len(<<>>) <= Cap /\ DOMAIN <<>> = {}
  BY EmptySeq, RoomAssumption
<1>. QED
  BY <1>3, <1>4 DEF Logs, ShownOnce

Empty ==
  /\ channel = Defaults[1] /\ list = Defaults /\ messages = <<>>
  /\ hist = [c \in Channels |-> <<>>] /\ unread = [c \in Channels |-> 0]

LEMMA EmptyRoomInv == Empty => RoomInv
<1> SUFFICES ASSUME Empty PROVE RoomInv
  OBVIOUS
<1> USE DEF Empty
<1>1. ViewIsHistory
  BY EmptyRoom DEF ViewIsHistory
<1>2. UnreadIsReachable
  BY EmptyRoom, RoomAssumption DEF UnreadIsReachable, Listed, Has, Once
<1>. QED
  BY <1>1, <1>2, EmptyRoom, RoomAssumption DEF RoomInv

-----------------------------------------------------------------------------
\* One lemma for each group of actions: the invariant stays, and the abstract room
\* does a step or none.
RoomStep == IInv' /\ [R!Next]_(R!vars)

LEMMA RoomStays ==
  ASSUME RoomInv, UNCHANGED <<room, wire>>, Arrived' = Arrived
  PROVE  RoomInv' /\ UNCHANGED R!vars
<1>1. RoomInv'
  BY DEF room, RoomInv, ViewIsHistory, UnreadIsReachable, Listed, ShownOnce, Logs
<1>. QED
  BY <1>1 DEF room, R!vars, Arrived

LEMMA SendStays ==
  ASSUME SendInv, UNCHANGED <<named, asks, sending, typed, wire>>, moves' \in Nat
  PROVE  SendInv'
BY DEF SendInv, SealedAsTyped

LEMMA DmStays ==
  ASSUME DmInv, UNCHANGED dm
  PROVE  DmInv'
BY DEF dm, DmInv, BookIsKept

LEMMA OpenStays ==
  ASSUME OpenInv, UNCHANGED <<seen, opening>>
  PROVE  OpenInv' /\ Arrived' = Arrived
BY DEF OpenInv, Arrived

\* Messages from the daemon
LEMMA IngestStep ==
  ASSUME IInv, NEW e \in Events, Ingest(e)
  PROVE  RoomStep
<1> USE DEF IInv
<1>1. SendInv' /\ DmInv'
  BY SendStays, DmStays DEF Ingest, SendInv, Show
<1>2. e \notin Arrived /\ e \notin seen /\ seen' = seen \cup {e} /\ wire' = wire
  BY DEF Ingest, Arrived
<1>3. CASE dmMode /\ keys /\ peer # None
  <2> DEFINE new == [ev |-> e, with |-> peer]
  <2>1. opening' = opening \cup {new} /\ UNCHANGED room
    BY <1>3 DEF Ingest
  <2>2. new \in [ev : Events, with : Peers] /\ new.ev = e
    BY <1>3 DEF DmInv, Whom
  <2> HIDE DEF new
  <2>3. OpenInv'
    BY <1>2, <2>1, <2>2 DEF OpenInv
  <2>4. Arrived' = Arrived
    BY <1>2, <2>1, <2>2 DEF Arrived
  <2>. QED
    BY <1>1, <1>2, <2>1, <2>3, <2>4, RoomStays DEF RoomStep
<1>4. CASE ~(dmMode /\ keys /\ peer # None)
  <2>1. Show(ChanOf[e], R!Raw(e)) /\ opening' = opening
    BY <1>4 DEF Ingest
  <2>2. OpenInv' /\ Arrived' = Arrived \cup {e}
    BY <1>2, <2>1 DEF OpenInv, Arrived
  <2>3. RoomInv' /\ R!Arrive(e)
    BY <1>2, <2>1, <2>2, ShowStep
  <2>. QED
    BY <1>1, <2>2, <2>3 DEF RoomStep, R!Next
<1>. QED
  BY <1>3, <1>4

LEMMA DecryptedStep ==
  ASSUME IInv, NEW o \in opening, Decrypted(o)
  PROVE  RoomStep
<1> USE DEF IInv
<1>1. SendInv' /\ DmInv'
  BY SendStays, DmStays DEF Decrypted, SendInv, Show
<1>2. /\ opening' = opening \ {o} /\ seen' = seen /\ wire' = wire
      /\ o.ev \in Events /\ o.ev \in seen /\ o.ev \notin Arrived
      /\ \A p \in opening : p.ev = o.ev => p = o
  BY DEF Decrypted, OpenInv, Arrived
<1>3. OpenInv' /\ Arrived' = Arrived \cup {o.ev}
  BY <1>2 DEF OpenInv, Arrived
<1>4. \E l \in {R!Raw(o.ev), R!Plain(o.ev)} : Show(ChanOf[o.ev], l)
  BY DEF Decrypted
<1>5. RoomInv' /\ R!Arrive(o.ev)
  BY <1>2, <1>3, <1>4, ShowStep
<1>. QED
  BY <1>1, <1>2, <1>3, <1>5 DEF RoomStep, R!Next

\* The channels and the commands
LEMMA MoveStep ==
  ASSUME IInv, \/ \E c \in Channels : Switch(c) \/ Join(c)
               \/ Part \/ Clear \/ Help
  PROVE  RoomStep
<1> USE DEF IInv
<1>1. /\ SendInv' /\ DmInv' /\ OpenInv' /\ Arrived' = Arrived /\ wire' = wire
  BY SendStays, DmStays, OpenStays
     DEF Switch, Join, Part, Clear, Help, Moved, calls, SendInv
<1>2. /\ channel \in Channels /\ Logs(hist) /\ ShownOnce(hist, Arrived) /\ list \in Seq(Channels)
      /\ Once(list) /\ Persisted = hist /\ unread \in [Channels -> Nat] /\ unread[channel] = 0
      /\ \A d \in Channels : unread[d] > 0 => Has(list, d)
  BY PersistedIsHist DEF RoomInv, UnreadIsReachable, Listed, Has
<1>3. ASSUME NEW c \in Channels, Switch(c) PROVE RoomInv' /\ R!Read(hist, c)
  BY <1>1, <1>2, <1>3, LoadStep DEF Switch, Listed, Has
<1>4. ASSUME NEW c \in Channels, Join(c) PROVE RoomInv' /\ R!Read(hist, c)
  <2>1. /\ list' \in Seq(Channels) /\ Once(list') /\ Has(list', c)
        /\ \A d \in Channels : Has(list, d) => Has(list', d)
    <3>1. CASE Has(list, c)
      BY <1>2, <1>4, <3>1 DEF Join, Listed, Has
    <3>2. CASE ~Has(list, c)
      BY <1>2, <1>4, <3>2, Appended DEF Join, Listed, Has
    <3>. QED
      BY <3>1, <3>2
  <2>2. Load(R!Put(hist, c, R!System), c)
    BY <1>2, <1>4 DEF Join
  <2>. QED
    BY <1>1, <1>2, <2>1, <2>2, LoadStep
<1>5. ASSUME Part PROVE RoomInv' /\ \E c \in Channels : R!Read(R!Forgotten, c)
  <2> DEFINE rest == Without(list, channel)
  <2>1. /\ list' = IF rest = <<>> THEN <<Defaults[1]>> ELSE rest
        /\ Load(R!Put(R!Forgotten, list'[1], R!System), list'[1])
    BY <1>5 DEF Part, R!Forgotten
  <2>2. /\ rest \in Seq(Channels) /\ Once(rest)
        /\ \A y : Has(rest, y) <=> y # channel /\ Has(list, y)
    BY <1>2, WithoutTakes
  <2> HIDE DEF rest
  <2>3. /\ list' \in Seq(Channels) /\ Once(list') /\ list'[1] \in Channels /\ Has(list', list'[1])
        /\ \A d \in Channels : unread[d] > 0 => Has(list', d)
    <3>1. CASE rest = <<>>
      <4>1. list' = <<Defaults[1]>> /\ Len(list') = 1 /\ DOMAIN list' = {1} /\ list'[1] = Defaults[1]
        BY <2>1, <3>1
      <4>2. \A y : ~Has(rest, y)
        BY <3>1 DEF Has
      <4>3. \A d \in Channels : ~(unread[d] > 0)
        BY <1>2, <2>2, <4>2
      <4>. QED
        BY <4>1, <4>3, EmptyRoom DEF Once, Has
    <3>2. CASE rest # <<>>
      <4>1. list' = rest
        BY <2>1, <3>2
      <4>2. Len(rest) \in Nat \ {0} /\ DOMAIN rest = 1..Len(rest)
        BY <2>2, <3>2, EmptySeq, LenProperties
      <4>3. 1 \in 1..Len(rest)
        BY <4>2
      <4>4. rest[1] \in Channels /\ Has(rest, rest[1])
        BY <2>2, <4>2, <4>3, ElementOfSeq DEF Has
      <4>5. \A d \in Channels : unread[d] > 0 => Has(rest, d)
        BY <1>2, <2>2
      <4>. QED
        BY <2>2, <4>1, <4>4, <4>5
    <3>. QED
      BY <3>1, <3>2
  <2>4. Logs(R!Forgotten) /\ ShownOnce(R!Forgotten, Arrived)
    BY <1>2, EmptyShown DEF R!Forgotten
  <2>5. RoomInv' /\ R!Read(R!Forgotten, list'[1])
    BY <1>1, <1>2, <2>1, <2>3, <2>4, LoadStep
  <2>. QED
    BY <2>3, <2>5
<1>6. ASSUME Clear PROVE RoomInv' /\ R!Clear
  <2>1. /\ messages' = <<>> /\ hist' = [hist EXCEPT ![channel] = <<>>]
        /\ UNCHANGED <<channel, list, unread>>
    BY <1>6 DEF Clear
  <2>2. Logs(hist') /\ ShownOnce(hist', Arrived) /\ hist'[channel] = <<>> /\ messages' \in Seq(Lines)
    BY <1>2, <2>1, EmptyShown, EmptySeq DEF Logs
  <2>3. RoomInv'
    BY <1>1, <2>1, <2>2 DEF RoomInv, ViewIsHistory, UnreadIsReachable, Listed, ShownOnce
  <2>. QED
    BY <1>1, <2>1, <2>3 DEF R!Clear, R!Forgotten, Arrived
<1>7. ASSUME Help PROVE RoomInv' /\ R!Note
  BY <1>1, <1>7, TellStep DEF Help
<1>. QED
  BY <1>1, <1>3, <1>4, <1>5, <1>6, <1>7 DEF RoomStep, R!Next

\* The commands that ask the host
LEMMA AskStep ==
  ASSUME IInv, Ask \/ Answered
  PROVE  RoomStep
<1> USE DEF IInv
<1>1. /\ DmInv' /\ OpenInv' /\ Arrived' = Arrived /\ wire' = wire
  BY DmStays, OpenStays DEF Ask, Answered
<1>2. SendInv'
  <2>1. named' \in BOOLEAN
    BY Zenon DEF Ask, Answered, SendInv
  <2>2. asks \in Nat /\ moves \in Nat
    BY DEF SendInv
  <2>3. asks' \in Nat /\ moves' \in Nat
    <3>1. CASE Ask
      BY <2>2, <3>1 DEF Ask, Moved
    <3>2. CASE Answered
      <4>1. asks > 0 /\ asks' = asks - 1 /\ moves' = moves
        BY <3>2, Zenon DEF Answered
      <4>. QED
        BY <2>2, <4>1
    <3>. QED
      BY <3>1, <3>2
  <2>4. UNCHANGED <<sending, typed, wire>>
    BY DEF Ask, Answered
  <2>. QED
    BY <2>1, <2>3, <2>4 DEF SendInv, SealedAsTyped
<1>3. UNCHANGED room \/ Tell
  BY DEF Ask, Answered
<1>. QED
  BY <1>1, <1>2, <1>3, RoomStays, TellStep DEF RoomStep, R!Next

\* The texts: what Sign does with one that was entered for this seal
LEMMA SignStep ==
  ASSUME IInv, NEW t \in Texts, NEW seal \in Whom, NEW rest, rest \subseteq sending,
         Sign(t, seal, rest),
         typed' \subseteq [text : Texts, seal : Whom], typed \subseteq typed',
         [text |-> t, seal |-> seal] \in typed',
         UNCHANGED <<seen, opening, asks, dm, named, moves>>
  PROVE  RoomStep
<1> USE DEF IInv
<1>1. /\ DmInv' /\ OpenInv' /\ Arrived' = Arrived
  BY DmStays, OpenStays
<1>2. \/ Post(t, seal) /\ sending' = rest
      \/ /\ sending' = rest \cup {[text |-> t, seal |-> seal, step |-> "nick"]}
         /\ UNCHANGED <<room, wire>>
  BY DEF Sign
<1>3. SendInv'
  <2>1. /\ sending' \subseteq [text : Texts, seal : Whom, step : {"seal", "nick"}]
        /\ \A s \in sending' : [text |-> s.text, seal |-> s.seal] \in typed'
    BY <1>2 DEF SendInv
  <2>2. /\ wire' \subseteq [text : Texts, to : Channels, seal : Whom]
        /\ \A w \in wire' : [text |-> w.text, seal |-> w.seal] \in typed'
    BY <1>2 DEF SendInv, SealedAsTyped, Post, RoomInv
  <2>. QED
    BY <2>1, <2>2 DEF SendInv, SealedAsTyped
<1>4. RoomInv' /\ [R!Next]_(R!vars)
  BY <1>1, <1>2, RoomStays, PostStep DEF R!Next
<1>. QED
  BY <1>1, <1>3, <1>4 DEF RoomStep

LEMMA EnterStep ==
  ASSUME IInv, NEW t \in Texts, NEW me \in BOOLEAN, Enter(t, me)
  PROVE  RoomStep
<1> USE DEF IInv
<1> DEFINE seal == IF dmMode /\ ~me THEN peer ELSE None
<1>1. /\ typed' = typed \cup {[text |-> t, seal |-> seal]} /\ seal \in Whom
      /\ UNCHANGED <<seen, opening, asks, dm, named, moves>>
  BY DEF Enter, DmInv, Whom
<1>2. typed' \subseteq [text : Texts, seal : Whom]
  BY <1>1 DEF SendInv
<1>3. CASE ~dmMode \/ me
  <2>1. seal = None /\ Sign(t, None, sending) /\ None \in Whom
    BY <1>3 DEF Enter, Whom
  <2>. QED
    BY <1>1, <1>2, <2>1, SignStep
<1>4. CASE ~(~dmMode \/ me)
  <2> DEFINE new == [text |-> t, seal |-> peer, step |-> "seal"]
  <2>1. sending' = sending \cup {new} /\ UNCHANGED <<room, wire>> /\ seal = peer
    BY <1>4 DEF Enter
  <2>2. DmInv' /\ OpenInv' /\ Arrived' = Arrived
    BY <1>1, DmStays, OpenStays
  <2>3. SendInv'
    BY <1>1, <1>2, <2>1 DEF SendInv, SealedAsTyped
  <2>. QED
    BY <2>1, <2>2, <2>3, RoomStays DEF RoomStep
<1>. QED
  BY <1>3, <1>4

LEMMA SendingStep ==
  ASSUME IInv, NEW s \in sending, Sealed(s) \/ Signed(s) \/ Lost(s)
  PROVE  RoomStep
<1> USE DEF IInv
<1>1. /\ s.text \in Texts /\ s.seal \in Whom /\ [text |-> s.text, seal |-> s.seal] \in typed
      /\ typed \subseteq [text : Texts, seal : Whom] /\ typed' = typed
      /\ UNCHANGED <<seen, opening, asks, dm, named, moves>>
  BY DEF SendInv, Sealed, Signed, Lost
<1>2. CASE Sealed(s)
  BY <1>1, <1>2, SignStep DEF Sealed
<1>3. CASE Signed(s) \/ Lost(s)
  <2>1. DmInv' /\ OpenInv' /\ Arrived' = Arrived
    BY <1>1, DmStays, OpenStays
  <2>2. sending' \subseteq sending /\ (Post(s.text, s.seal) \/ UNCHANGED <<room, wire>>)
    BY <1>3 DEF Signed, Lost
  <2>3. SendInv'
    <3>1. /\ wire' \subseteq [text : Texts, to : Channels, seal : Whom]
          /\ \A w \in wire' : [text |-> w.text, seal |-> w.seal] \in typed
      BY <1>1, <2>2 DEF SendInv, SealedAsTyped, Post, RoomInv
    <3>. QED
      BY <1>1, <2>2, <3>1 DEF SendInv, SealedAsTyped
  <2>4. RoomInv' /\ [R!Next]_(R!vars)
    BY <1>1, <2>1, <2>2, RoomStays, PostStep DEF R!Next
  <2>. QED
    BY <2>1, <2>3, <2>4 DEF RoomStep
<1>. QED
  BY <1>2, <1>3

\* The keys, the peer and the contacts
LEMMA DmStep ==
  ASSUME IInv, Dm
  PROVE  RoomStep
<1> USE DEF IInv
<1>1. SendInv' /\ OpenInv' /\ Arrived' = Arrived /\ UNCHANGED <<room, wire>>
  BY SendStays, OpenStays DEF Dm, calls, SendInv
<1>2. ASSUME NEW b \in Seq(Peers), Once(b), Keep(b)
      PROVE  book' \in Seq(Peers) /\ kept' \in Seq(Peers) /\ BookIsKept'
  BY <1>2, FirstKeptIsPrefix DEF Keep, BookIsKept, FirstKept, Once
<1>3. /\ book \in Seq(Peers) /\ Once(book) /\ peer \in Whom
      /\ dmMode \in BOOLEAN /\ keys \in BOOLEAN /\ DOMAIN book = 1..Len(book)
  BY LenProperties DEF DmInv, BookIsKept
<1>4. ASSUME SetMode \/ SetPeer \/ GenKeys PROVE DmInv'
  BY <1>3, <1>4 DEF DmInv, BookIsKept, SetMode, SetPeer, GenKeys
<1>5. ASSUME SaveContact PROVE DmInv'
  <2>1. peer \in Peers /\ UNCHANGED <<dmMode, keys, peer>>
    BY <1>3, <1>5 DEF SaveContact, Whom
  <2>2. CASE Has(book, peer)
    <3>1. Keep(book)
      BY <1>5, <2>2 DEF SaveContact, Has
    <3>. QED
      BY <1>2, <1>3, <2>1, <3>1 DEF DmInv
  <2>3. CASE ~Has(book, peer)
    <3>1. Keep(<<peer>> \o book)
      BY <1>5, <2>3 DEF SaveContact, Has
    <3>. QED
      BY <1>2, <1>3, <2>1, <2>3, <3>1, Prepended DEF DmInv
  <2>. QED
    BY <2>2, <2>3
<1>6. ASSUME NEW i \in DOMAIN book, SelectContact(i) \/ DeleteContact(i) PROVE DmInv'
  <2>1. CASE SelectContact(i)
    <3>1. peer' \in Whom /\ UNCHANGED <<dmMode, keys>>
      BY <1>3, <2>1, ElementOfSeq DEF SelectContact, Whom
    <3>. QED
      BY <1>2, <1>3, <2>1, <3>1 DEF SelectContact, DmInv
  <2>2. CASE DeleteContact(i)
    <3>1. Without(book, book[i]) \in Seq(Peers) /\ Once(Without(book, book[i]))
      BY <1>3, WithoutTakes
    <3>. QED
      BY <1>2, <1>3, <2>2, <3>1 DEF DeleteContact, DmInv
  <2>. QED
    BY <1>6, <2>1, <2>2
<1>7. DmInv'
  BY <1>4, <1>5, <1>6 DEF Dm
<1>. QED
  BY <1>1, <1>7, RoomStays DEF RoomStep

LEMMA RevisitStep ==
  ASSUME IInv, Revisit
  PROVE  RoomStep
<1> USE DEF IInv
<1>1. /\ channel' = Defaults[1] /\ list' = Defaults /\ messages' = <<>>
      /\ hist' = [c \in Channels |-> <<>>] /\ unread' = [c \in Channels |-> 0]
      /\ seen' = {} /\ opening' = {} /\ wire' = wire /\ Arrived' = {}
      /\ UNCHANGED <<asks, sending, named, typed>> /\ moves' \in Nat
  BY DEF Revisit, calls, Moved, Arrived, SendInv
<1>2. RoomInv'
  <2>1. Empty'
    BY <1>1 DEF Empty
  <2>. QED
    BY <2>1, EmptyRoomInv, PTL
<1>3. OpenInv' /\ SendInv'
  BY <1>1, SendStays DEF OpenInv
<1>4. DmInv'
  <2>1. Once(kept) /\ FirstKept(kept) = kept /\ kept \in Seq(Peers)
    BY FirstKeptIsPrefix DEF DmInv, BookIsKept
  <2>2. book' = kept /\ kept' = kept /\ keys' = keys /\ dmMode' = FALSE /\ peer' = None
    BY DEF Revisit
  <2>. QED
    BY <2>1, <2>2 DEF DmInv, BookIsKept, Whom
<1>5. R!Leave
  BY <1>1 DEF R!Leave, Arrived
<1>. QED
  BY <1>2, <1>3, <1>4, <1>5 DEF RoomStep, R!Next

-----------------------------------------------------------------------------
LEMMA RoomInit == Init => IInv /\ R!Init
<1> SUFFICES ASSUME Init PROVE IInv /\ R!Init
  OBVIOUS
<1>1. RoomInv
  BY EmptyRoomInv DEF Init, Empty
<1>2. OpenInv /\ SendInv
  BY DEF Init, OpenInv, SendInv, SealedAsTyped
<1>3. DmInv
  <2>1. <<>> \in Seq(Peers) /\ Len(<<>>) = 0 /\ DOMAIN <<>> = {}
    BY EmptySeq
  <2>2. FirstKept(<<>>) = SubSeq(<<>>, 1, 0)
    BY <2>1, RoomAssumption DEF FirstKept
  <2>3. SubSeq(<<>>, 1, 0) = <<>>
    BY SubSeqEmpty
  <2>. QED
    BY <2>1, <2>2, <2>3 DEF Init, DmInv, BookIsKept, Once, Whom
<1>4. R!Init
  BY DEF Init, R!Init
<1>. QED
  BY <1>1, <1>2, <1>3, <1>4 DEF IInv

LEMMA RoomNext == IInv /\ [Next]_vars => RoomStep
<1> SUFFICES ASSUME IInv, [Next]_vars PROVE RoomStep
  OBVIOUS
<1>1. CASE Next
  BY <1>1, IngestStep, DecryptedStep, MoveStep, AskStep, EnterStep, SendingStep, DmStep, RevisitStep
     DEF Next
<1>2. CASE UNCHANGED vars
  <2>1. /\ UNCHANGED <<room, wire>> /\ Arrived' = Arrived /\ OpenInv' /\ SendInv' /\ DmInv' /\ RoomInv
    BY <1>2, OpenStays, SendStays, DmStays DEF vars, calls, IInv, SendInv
  <2>. QED
    BY <2>1, RoomStays DEF RoomStep, IInv
<1>. QED
  BY <1>1, <1>2

LEMMA IInvImplies ==
  IInv => /\ TypeOK /\ ViewIsHistory /\ UnreadIsReachable /\ OncePerEvent /\ SealedAsTyped
          /\ BookIsKept
<1> SUFFICES ASSUME IInv
             PROVE  /\ TypeOK /\ ViewIsHistory /\ UnreadIsReachable /\ OncePerEvent
                    /\ SealedAsTyped /\ BookIsKept
  OBVIOUS
<1>1. TypeOK
  BY DEF IInv, RoomInv, OpenInv, SendInv, DmInv, Logs, TypeOK
<1>2. OncePerEvent
  BY DEF IInv, RoomInv, ShownOnce, OncePerEvent
<1>. QED
  BY <1>1, <1>2 DEF IInv, RoomInv, SendInv, DmInv

\* The types, and no log ever holds more than Cap lines.
THEOREM RoomTypeCorrect == Spec => []TypeOK
<1>1. RoomStep => IInv'
  BY DEF RoomStep
<1>. QED
  BY <1>1, RoomInit, RoomNext, IInvImplies, PTL DEF Spec

\* What is shown is the active channel's history, for any interleaving of the
\* answers, the daemon's messages and the user's clicks.
THEOREM RoomViewIsHistory == Spec => []ViewIsHistory
<1>1. RoomStep => IInv'
  BY DEF RoomStep
<1>. QED
  BY <1>1, RoomInit, RoomNext, IInvImplies, PTL DEF Spec

\* Every channel with unread lines can be opened.
THEOREM RoomUnreadIsReachable == Spec => []UnreadIsReachable
<1>1. RoomStep => IInv'
  BY DEF RoomStep
<1>. QED
  BY <1>1, RoomInit, RoomNext, IInvImplies, PTL DEF Spec

\* No event is shown twice, nor in another channel.
THEOREM RoomOncePerEvent == Spec => []OncePerEvent
<1>1. RoomStep => IInv'
  BY DEF RoomStep
<1>. QED
  BY <1>1, RoomInit, RoomNext, IInvImplies, PTL DEF Spec

\* What goes out is sealed for whom it was entered for.
THEOREM RoomSealedAsTyped == Spec => []SealedAsTyped
<1>1. RoomStep => IInv'
  BY DEF RoomStep
<1>. QED
  BY <1>1, RoomInit, RoomNext, IInvImplies, PTL DEF Spec

\* The stored contacts are those of the page, for every limit.
THEOREM RoomBookIsKept == Spec => []BookIsKept
<1>1. RoomStep => IInv'
  BY DEF RoomStep
<1>. QED
  BY <1>1, RoomInit, RoomNext, IInvImplies, PTL DEF Spec

\* The chat screen implements the abstract room, step by step.
THEOREM ChatRoomIsRoom == Spec => RoomHolds
<1>1. RoomStep => IInv' /\ [R!Next]_(R!vars)
  BY DEF RoomStep
<1>. QED
  BY <1>1, RoomInit, RoomNext, PTL DEF Spec, RoomHolds, R!Spec
=============================================================================
