--------------------------- MODULE LogStreamProofs ---------------------------
(***************************************************************************)
(* Proofs about LogStream, for any number of clients, instances and lines  *)
(* and every size of the buffer.  The invariant ties the three places a    *)
(* line can be to one another: whatever has been logged is older than what *)
(* its reader thread holds and than what is in the pipe behind it; the     *)
(* buffer is the end of what was logged; and what a subscriber was sent,   *)
(* is being sent and will be sent is a stretch of it, up to its end as     *)
(* long as the state it subscribed to is the one that is registered.       *)
(***************************************************************************)
EXTENDS LogStream, SequenceTheorems, TLAPS

(* The lines of an instance are in the order of their numbers.             *)
Ordered(lines) ==
    \A i, j \in 1 .. Len(lines) :
        i < j /\ lines[i].from = lines[j].from => lines[i].no < lines[j].no

(* What a client was sent, is being sent and will be sent.                 *)
Sent(r) == (r.got \o r.backlog) \o r.chan

-----------------------------------------------------------------------------
(* Sequences                                                               *)

LEMMA AppendToConcat ==
  ASSUME NEW S, NEW s \in Seq(S), NEW t \in Seq(S), NEW e \in S
  PROVE  s \o Append(t, e) = Append(s \o t, e)
<1>1. <<e>> \in Seq(S) /\ s \o t \in Seq(S)
  BY ConcatProperties
<1>2. Append(t, e) = t \o <<e>> /\ Append(s \o t, e) = (s \o t) \o <<e>>
  BY <1>1, AppendIsConcat
<1> QED BY <1>1, <1>2, ConcatAssociative

LEMMA LineToConcat ==
  ASSUME NEW s \in Seq(Line), NEW t \in Seq(Line), NEW e \in Line
  PROVE  s \o Append(t, e) = Append(s \o t, e)
  BY AppendToConcat

LEMMA SplitHead ==
  ASSUME NEW S, NEW t \in Seq(S), t # << >>
  PROVE  << Head(t) >> \o Tail(t) = t
<1>1. Len(t) \in Nat \ {0} /\ t[1] \in S
  BY EmptySeq, ElementOfSeq
<1>2. SubSeq(t, 1, Len(t)) = << t[1] >> \o SubSeq(t, 1 + 1, Len(t))
  BY <1>1, SubSeqRecursiveFirst
<1>3. SubSeq(t, 1, Len(t)) = t /\ Tail(t) = SubSeq(t, 2, Len(t))
  BY SubSeqFull, TailIsSubSeq
<1>4. Head(t) = t[1]
  BY <1>1
<1> QED BY <1>2, <1>3, <1>4

LEMMA MoveHead ==
  ASSUME NEW S, NEW s \in Seq(S), NEW t \in Seq(S), t # << >>
  PROVE  Append(s, Head(t)) \o Tail(t) = s \o t
<1>1. Head(t) \in S /\ Tail(t) \in Seq(S) /\ << Head(t) >> \in Seq(S)
  BY HeadTailProperties
<1>2. Append(s, Head(t)) = s \o << Head(t) >>
  BY <1>1, AppendIsConcat
<1>3. (s \o << Head(t) >>) \o Tail(t) = s \o (<< Head(t) >> \o Tail(t))
  BY <1>1, ConcatAssociative
<1> QED BY <1>2, <1>3, SplitHead

LEMMA SuffixOfAppend ==
  ASSUME NEW S, NEW s \in Seq(S), NEW e \in S, NEW m \in 1 .. Len(s) + 1
  PROVE  /\ Len(Append(s, e)) = Len(s) + 1
         /\ SubSeq(Append(s, e), m, Len(Append(s, e))) = Append(SubSeq(s, m, Len(s)), e)
<1> DEFINE a == Append(s, e)
           n == Len(s)
<1>1. a \in Seq(S) /\ Len(a) = n + 1 /\ (\A i \in 1 .. n : a[i] = s[i]) /\ a[n + 1] = e
  BY AppendProperties
<1>2. n \in Nat /\ \A i \in 1 .. n : s[i] \in S
  BY LenProperties, ElementOfSeq
<1>3. m \in 1 .. Len(a) /\ n + 1 \in m .. Len(a)
  BY <1>1, <1>2
<1>4. SubSeq(a, m, n + 1) = SubSeq(a, m, n + 1 - 1) \o << a[n + 1] >>
  BY <1>1, <1>3, SubSeqRecursiveSecond
<1>5. SubSeq(a, m, n) = SubSeq(s, m, n) /\ SubSeq(s, m, n) \in Seq(S)
  <2> HIDE DEF a
  <2>1. \A i \in m .. n : i \in 1 .. n /\ a[i] = s[i] /\ s[i] \in S
    BY <1>1, <1>2
  <2>2. m \in Int /\ n \in Int
    BY <1>2
  <2> HIDE DEF n
  <2>3. /\ SubSeq(a, m, n) \in Seq(S) /\ SubSeq(s, m, n) \in Seq(S)
        /\ Len(SubSeq(a, m, n)) = IF m <= n THEN n - m + 1 ELSE 0
        /\ Len(SubSeq(s, m, n)) = IF m <= n THEN n - m + 1 ELSE 0
        /\ \A i \in 1 .. n - m + 1 : SubSeq(a, m, n)[i] = a[m + i - 1]
        /\ \A i \in 1 .. n - m + 1 : SubSeq(s, m, n)[i] = s[m + i - 1]
    BY <2>1, <2>2, SubSeqProperties
  <2>4. \A i \in 1 .. Len(SubSeq(a, m, n)) : SubSeq(a, m, n)[i] = SubSeq(s, m, n)[i]
    <3> SUFFICES ASSUME NEW i \in 1 .. Len(SubSeq(a, m, n))
                 PROVE  SubSeq(a, m, n)[i] = SubSeq(s, m, n)[i]
      OBVIOUS
    <3>1. i \in 1 .. n - m + 1 /\ m + i - 1 \in m .. n
      BY <2>2, <2>3
    <3> QED BY <3>1, <2>1, <2>3
  <2> QED BY <2>3, <2>4, SeqEqual
<1>6. n + 1 - 1 = n
  BY <1>2
<1>7. SubSeq(a, m, n + 1) = Append(SubSeq(s, m, n), e)
  BY <1>1, <1>4, <1>5, <1>6, AppendIsConcat
<1> QED BY <1>1, <1>7

LEMMA OrderedEmpty == Ordered(<< >>)
  BY EmptySeq DEF Ordered

LEMMA OrderedAppend ==
  ASSUME NEW s \in Seq(Line), NEW e \in Line, Ordered(s),
         \A i \in 1 .. Len(s) : s[i].from = e.from => s[i].no < e.no
  PROVE  Ordered(Append(s, e))
<1>1. Len(s) \in Nat
  BY LenProperties
<1>2. /\ Len(Append(s, e)) = Len(s) + 1
      /\ \A i \in 1 .. Len(s) : Append(s, e)[i] = s[i]
      /\ Append(s, e)[Len(s) + 1] = e
  BY AppendProperties
<1> QED BY <1>1, <1>2 DEF Ordered

LEMMA OrderedTail ==
  ASSUME NEW s \in Seq(Line), s # << >>, Ordered(s)
  PROVE  Ordered(Tail(s))
<1>1. Len(s) \in Nat \ {0} /\ Len(Tail(s)) = Len(s) - 1
      /\ \A i \in 1 .. Len(Tail(s)) : Tail(s)[i] = s[i + 1]
  BY EmptySeq, HeadTailProperties
<1> DEFINE n == Len(s)
<1>2. \A i \in 1 .. n - 1 : i + 1 \in 1 .. n
  BY <1>1
<1> QED BY <1>1, <1>2 DEF Ordered

(* A later end does not change what was there before.                      *)
LEMMA InnerOfAppend ==
  ASSUME NEW S, NEW s \in Seq(S), NEW e \in S, NEW n \in 0 .. Len(s), NEW m \in 1 .. n + 1
  PROVE  SubSeq(Append(s, e), m, n) = SubSeq(s, m, n)
<1> DEFINE a == Append(s, e)
<1>1. (\A i \in 1 .. Len(s) : a[i] = s[i]) /\ \A i \in 1 .. Len(s) : s[i] \in S
  BY AppendProperties, ElementOfSeq
<1>2. Len(s) \in Nat
  BY LenProperties
<1> HIDE DEF a
<1>3. \A i \in m .. n : a[i] = s[i] /\ s[i] \in S
  BY <1>1, <1>2
<1>4. m \in Int /\ n \in Int
  BY <1>2
<1>5. /\ SubSeq(a, m, n) \in Seq(S) /\ SubSeq(s, m, n) \in Seq(S)
      /\ Len(SubSeq(a, m, n)) = IF m <= n THEN n - m + 1 ELSE 0
      /\ Len(SubSeq(s, m, n)) = IF m <= n THEN n - m + 1 ELSE 0
      /\ \A i \in 1 .. n - m + 1 : SubSeq(a, m, n)[i] = a[m + i - 1]
      /\ \A i \in 1 .. n - m + 1 : SubSeq(s, m, n)[i] = s[m + i - 1]
  BY <1>3, <1>4, SubSeqProperties
<1>6. \A i \in 1 .. Len(SubSeq(a, m, n)) : SubSeq(a, m, n)[i] = SubSeq(s, m, n)[i]
  <2> SUFFICES ASSUME NEW i \in 1 .. Len(SubSeq(a, m, n))
               PROVE  SubSeq(a, m, n)[i] = SubSeq(s, m, n)[i]
    OBVIOUS
  <2>1. i \in 1 .. n - m + 1 /\ m + i - 1 \in m .. n
    BY <1>4, <1>5
  <2> QED BY <2>1, <1>3, <1>5
<1> QED BY <1>5, <1>6, SeqEqual DEF a

(* The buffer holds what Recent says: the last LOG_BUF_SIZE lines.         *)
Beginning(n) == IF n > LOG_BUF_SIZE THEN n - LOG_BUF_SIZE + 1 ELSE 1
Recent(s) == SubSeq(s, Beginning(Len(s)), Len(s))

LEMMA BeginningInRange ==
  ASSUME NEW n \in Nat
  PROVE  Beginning(n) \in 1 .. n + 1
  BY BufSizeAssumption DEF Beginning

LEMMA BufferedIsRecent ==
  ASSUME NEW s \in Seq(Line), NEW e \in Line
  PROVE  Buffered(Recent(s), e) = Recent(Append(s, e))
<1> DEFINE n == Len(s)
           a == Append(s, e)
           m == Beginning(n)
<1>1. n \in Nat /\ a \in Seq(Line) /\ Len(a) = n + 1
  BY LenProperties, AppendProperties
<1>2. m \in 1 .. n + 1
  BY <1>1, BeginningInRange
<1>3. SubSeq(a, m, n + 1) = Append(Recent(s), e)
  BY <1>1, <1>2, SuffixOfAppend DEF Recent
<1>4. Len(SubSeq(a, m, n + 1)) = n + 1 - m + 1
  <2> DEFINE k == n + 1
  <2>1. \A i \in m .. k : a[i] \in Line
    BY <1>1, <1>2, ElementOfSeq
  <2>2. m \in Int /\ k \in Int /\ m <= k + 1
    BY <1>1, <1>2
  <2> HIDE DEF m, a, k
  <2>3. Len(SubSeq(a, m, k)) = IF m <= k THEN k - m + 1 ELSE 0
    BY <2>1, <2>2, SubSeqProperties
  <2>4. Len(SubSeq(a, m, k)) = k - m + 1
    BY <2>2, <2>3
  <2>5. k = n + 1
    BY DEF k
  <2> HIDE DEF n
  <2> QED BY <1>1, <2>2, <2>4, <2>5
<1>5. Buffered(Recent(s), e) = IF n + 1 - m + 1 > LOG_BUF_SIZE
                               THEN Tail(SubSeq(a, m, n + 1)) ELSE SubSeq(a, m, n + 1)
  BY <1>3, <1>4 DEF Buffered
<1>6. Tail(SubSeq(a, m, n + 1)) = SubSeq(a, m + 1, n + 1)
  <2>1. m \in 1 .. Len(a) /\ n + 1 \in m .. Len(a)
    BY <1>1, <1>2
  <2> QED BY <1>1, <2>1, HeadTailOfSubSeq
<1> HIDE DEF a, n
<1>7. CASE n < LOG_BUF_SIZE
  <2>1. m = 1 /\ Beginning(n + 1) = 1 /\ ~(n + 1 - m + 1 > LOG_BUF_SIZE)
    BY <1>1, <1>7, BufSizeAssumption DEF Beginning
  <2> QED BY <1>1, <1>5, <2>1 DEF Recent, a
<1>8. CASE ~(n < LOG_BUF_SIZE)
  <2>1. m + 1 = Beginning(n + 1) /\ n + 1 - m + 1 > LOG_BUF_SIZE
    BY <1>1, <1>8, BufSizeAssumption DEF Beginning
  <2> HIDE DEF m
  <2>2. Buffered(Recent(s), e) = SubSeq(a, m + 1, n + 1)
    BY <1>5, <1>6, <2>1
  <2> QED BY <1>1, <2>1, <2>2 DEF Recent, a
<1> QED BY <1>7, <1>8

-----------------------------------------------------------------------------
(* The inductive invariant                                                 *)

Phase == {"idle", "refused", "backlog", "live", "ended", "failed"}
ClientRecord == [pc : Phase, backlog : Seq(Line), got : Seq(Line), of : 0 .. MaxInstance,
                 chan : Seq(Line), present : BOOLEAN, asked : Nat \X Nat,
                 since : Nat, live : Seq(Line)]
Registered == [of : Instance, buf : Seq(Line), subscribers : SUBSET Client]

AppInv ==
    /\ latest \in 0 .. MaxInstance /\ alive \in BOOLEAN
    /\ waiter \in {"spawn", "start_threads", "wait", "done"}
    /\ latest = 0 => ~alive /\ waiter = "spawn" /\ state = None
    /\ latest # 0 => state \in Registered /\ state.of = latest
    /\ waiter = "start_threads" => latest # 0 /\ reader[latest] = "none"

(* The number of the last line that has left the pipe of instance g: the   *)
(* pipe holds the lines after it and the reader, if it logs, this one.     *)
Taken(g) == printed[g] - Len(pipe[g])

ReaderOK(g) ==
    /\ reader[g] # "none" => g <= latest
    /\ IF reader[g] = "logs" THEN held[g] = [from |-> g, no |-> Taken(g)] /\ held[g] \in Line
                             ELSE held[g] = None
    /\ printed[g] \in 0 .. MaxLine /\ Len(pipe[g]) <= printed[g]
    /\ \A i \in 1 .. Len(pipe[g]) : pipe[g][i] = [from |-> g, no |-> Taken(g) + i]

ReaderInv ==
    /\ reader \in [Instance -> {"none", "reads", "logs", "broken", "ended"}]
    /\ pipe \in [Instance -> Seq(Line)] /\ logged \in [Instance -> Seq(Line)]
    /\ printed \in [Instance -> Nat]
    /\ held \in [Instance -> Line \cup {None}]
    /\ \A g \in Instance : ReaderOK(g)

(* A line that was logged is older than the one its reader holds.          *)
Old(line) == IF reader[line.from] = "logs" THEN line.no < Taken(line.from)
                                           ELSE line.no <= Taken(line.from)
AllOld(lines) == \A i \in 1 .. Len(lines) : Old(lines[i])

BufferInv ==
    /\ latest # 0 => /\ Ordered(state.buf) /\ AllOld(state.buf)
                     /\ state.buf = Recent(logged[latest])
    /\ \A g \in Instance : g > latest => logged[g] = << >>

PhaseOK(c, r) ==
    /\ r.pc \in {"idle", "refused"} => r.got = << >> /\ r.backlog = << >>
    /\ r.pc \in {"idle", "refused", "backlog"} => r.chan = << >> /\ r.live = << >>
    /\ r.pc \in {"live", "ended"} => r.backlog = << >>
    /\ r.pc \in {"backlog", "live", "ended"} => latest # 0
    /\ latest # 0 /\ c \in state.subscribers => r.pc \in {"live", "failed"}

OrderOK(r) == Ordered(Sent(r)) /\ AllOld(Sent(r))

Since(r) == SubSeq(logged[r.of], r.since + 1, Len(logged[r.of]))

LiveOK(c, r) ==
    /\ r.pc \in {"live", "ended"} =>
          /\ r.of \in 1 .. latest /\ r.since <= Len(logged[r.of])
          /\ r.live \o r.chan = Since(r)
    /\ r.pc = "live" => (c \in state.subscribers <=> r.of = latest)
    /\ r.pc = "ended" => r.of # latest

(* What was in the buffer when it was read.                                *)
Asked(r) == SubSeq(logged[r.asked[1]], Beginning(r.asked[2]), r.asked[2])

GapOK(r) ==
    /\ r.pc = "backlog" =>
          /\ r.asked[1] \in 1 .. latest /\ r.asked[2] <= Len(logged[r.asked[1]])
          /\ r.got \o r.backlog = Asked(r)
    /\ r.pc = "live" /\ r.asked = <<r.of, r.since>> =>
          r.got \o r.chan = SubSeq(logged[r.of], Beginning(r.since), Len(logged[r.of]))

ClientOK(c, r) == PhaseOK(c, r) /\ OrderOK(r) /\ LiveOK(c, r) /\ GapOK(r)

ClientsInv == /\ client \in [Client -> ClientRecord]
              /\ \A c \in Client : ClientOK(c, client[c])

IInv == AppInv /\ ReaderInv /\ BufferInv /\ ClientsInv


-----------------------------------------------------------------------------
(* A part of what is ordered is ordered.                                   *)
LEMMA OrderedParts ==
  ASSUME NEW s \in Seq(Line), NEW t \in Seq(Line), NEW u \in Seq(Line),
         Ordered((s \o t) \o u)
  PROVE  Ordered(s \o u) /\ Ordered(s \o t)
<1> DEFINE st == s \o t
           su == s \o u
           all == st \o u
           a == Len(s)
           b == Len(t)
           c == Len(u)
<1>1. a \in Nat /\ b \in Nat /\ c \in Nat
  BY LenProperties
<1>2. st \in Seq(Line) /\ Len(st) = a + b
      /\ \A i \in 1 .. a + b : st[i] = IF i <= a THEN s[i] ELSE t[i - a]
  BY ConcatProperties
<1>3. Len(su) = a + c /\ \A i \in 1 .. a + c : su[i] = IF i <= a THEN s[i] ELSE u[i - a]
  BY ConcatProperties
<1>4. Len(all) = Len(st) + c
      /\ \A i \in 1 .. Len(st) + c : all[i] = IF i <= Len(st) THEN st[i] ELSE u[i - Len(st)]
  BY <1>2, ConcatProperties
<1>5. Ordered(all)
  OBVIOUS
<1> HIDE DEF st, su, all, a, b, c
<1>6. Len(all) = a + b + c
      /\ \A i \in 1 .. a + b + c : all[i] = IF i <= a + b THEN st[i] ELSE u[i - (a + b)]
  BY <1>1, <1>2, <1>4
<1>7. Ordered(st)
  <2>1. \A i \in 1 .. a + b : i \in 1 .. a + b + c /\ all[i] = st[i]
    BY <1>1, <1>6
  <2> QED BY <2>1, <1>2, <1>5, <1>6 DEF Ordered
<1>8. Ordered(su)
  <2> DEFINE f(i) == IF i <= a THEN i ELSE i + b
  <2>1. \A i \in 1 .. a + c : f(i) \in 1 .. a + b + c /\ all[f(i)] = su[i]
    <3> SUFFICES ASSUME NEW i \in 1 .. a + c
                 PROVE  f(i) \in 1 .. a + b + c /\ all[f(i)] = su[i]
      OBVIOUS
    <3>1. CASE i <= a
      <4>1. f(i) = i /\ i \in 1 .. a + b + c /\ i \in 1 .. a + b /\ i <= a + b
        BY <1>1, <3>1
      <4> QED BY <4>1, <3>1, <1>2, <1>3, <1>6
    <3>2. CASE ~(i <= a)
      <4>1. f(i) = i + b /\ i + b \in 1 .. a + b + c /\ ~(i + b <= a + b)
            /\ (i + b) - (a + b) = i - a
        BY <1>1, <3>2
      <4> QED BY <4>1, <3>2, <1>3, <1>6
    <3> QED BY <3>1, <3>2
  <2>2. \A i, j \in 1 .. a + c : i < j => f(i) < f(j)
    BY <1>1
  <2> HIDE DEF f
  <2>3. SUFFICES ASSUME NEW i \in 1 .. a + c, NEW j \in 1 .. a + c,
                        i < j, su[i].from = su[j].from
                 PROVE  su[i].no < su[j].no
    BY <1>3 DEF Ordered
  <2> QED BY <2>1, <2>2, <2>3, <1>5, <1>6 DEF Ordered
<1> QED BY <1>7, <1>8 DEF st, su

LEMMA RecentBounded ==
  ASSUME NEW s \in Seq(Line)
  PROVE  Recent(s) \in Seq(Line) /\ Len(Recent(s)) <= LOG_BUF_SIZE
<1> DEFINE n == Len(s)
           m == Beginning(n)
<1>1. n \in Nat /\ m \in 1 .. n + 1
  BY LenProperties, BeginningInRange
<1>2. \A i \in m .. n : s[i] \in Line
  BY <1>1, ElementOfSeq
<1>3. n - m + 1 <= LOG_BUF_SIZE
  BY <1>1, BufSizeAssumption DEF Beginning
<1> HIDE DEF m, n
<1>4. SubSeq(s, m, n) \in Seq(Line) /\ Len(SubSeq(s, m, n)) = IF m <= n THEN n - m + 1 ELSE 0
  BY <1>1, <1>2, SubSeqProperties
<1>5. Len(SubSeq(s, m, n)) <= LOG_BUF_SIZE
  BY <1>1, <1>3, <1>4, BufSizeAssumption
<1> QED BY <1>4, <1>5 DEF Recent, m, n

LEMMA RecordParts ==
  ASSUME NEW r \in ClientRecord
  PROVE  /\ r.pc \in Phase /\ r.backlog \in Seq(Line) /\ r.got \in Seq(Line)
         /\ r.chan \in Seq(Line) /\ r.live \in Seq(Line) /\ r.since \in Nat
         /\ r.asked \in Nat \X Nat /\ r.of \in 0 .. MaxInstance /\ r.present \in BOOLEAN
  BY DEF ClientRecord

LEMMA InvImplies == IInv => TypeOK /\ NoLineTwice /\ LiveComplete /\ NothingSkipped
<1> SUFFICES ASSUME IInv PROVE TypeOK /\ NoLineTwice /\ LiveComplete /\ NothingSkipped
  OBVIOUS
<1>1. TypeOK
  <2>1. \A g \in Instance :
          /\ reader[g] \in {"none", "reads", "logs", "broken", "ended"}
          /\ pipe[g] \in Seq(Line) /\ logged[g] \in Seq(Line)
          /\ IF reader[g] = "logs" THEN held[g] \in Line /\ held[g].from = g
                                   ELSE held[g] = None
    BY DEF IInv, ReaderInv, ReaderOK
  <2>2. latest # 0 => /\ state.of = latest
                      /\ state.buf \in Seq(Line) /\ Len(state.buf) <= LOG_BUF_SIZE
                      /\ \A c \in state.subscribers : client[c].pc \in {"live", "failed"}
    <3> SUFFICES ASSUME latest # 0
                 PROVE  /\ state.of = latest
                        /\ state.buf \in Seq(Line) /\ Len(state.buf) <= LOG_BUF_SIZE
                        /\ \A c \in state.subscribers : client[c].pc \in {"live", "failed"}
      OBVIOUS
    <3>1. latest \in Instance /\ logged[latest] \in Seq(Line)
      BY BoundAssumption DEF IInv, AppInv, ReaderInv, Instance
    <3>2. state.of = latest /\ state.buf \in Seq(Line) /\ state.subscribers \subseteq Client
      BY DEF IInv, AppInv, Registered
    <3>3. Len(state.buf) <= LOG_BUF_SIZE
      BY <3>1, RecentBounded DEF IInv, BufferInv
    <3> QED BY <3>2, <3>3 DEF IInv, ClientsInv, ClientOK, PhaseOK
  <2> QED BY <2>1, <2>2 DEF IInv, AppInv, TypeOK
<1>2. NoLineTwice
  <2> SUFFICES ASSUME NEW c \in Client
               PROVE  Ordered(client[c].got \o client[c].chan)
                      /\ DOMAIN (client[c].got \o client[c].chan)
                         = 1 .. Len(client[c].got \o client[c].chan)
    BY DEF NoLineTwice, Ordered
  <2>1. client[c] \in ClientRecord /\ Ordered(Sent(client[c]))
    BY DEF IInv, ClientsInv, ClientOK, OrderOK
  <2>2. client[c].got \o client[c].chan \in Seq(Line)
    BY <2>1, RecordParts, ConcatProperties
  <2> QED BY <2>1, <2>2, RecordParts, OrderedParts, LenProperties DEF Sent
<1>3. LiveComplete
  BY DEF IInv, ClientsInv, ClientOK, LiveOK, Since, LiveComplete
<1>4. NothingSkipped
  BY DEF IInv, ClientsInv, ClientOK, GapOK, NothingSkipped, Beginning
<1> QED BY <1>1, <1>2, <1>3, <1>4

LEMMA InitInv == Init => IInv
<1> SUFFICES ASSUME Init PROVE IInv
  OBVIOUS
<1>1. << >> \in Seq(Line) /\ Len(<< >>) = 0 /\ << >> \o << >> = << >>
  BY EmptySeq, ConcatEmptySeq
<1>2. AppInv
  <2>1. 0 \in 0 .. MaxInstance
    BY BoundAssumption
  <2> QED BY <2>1 DEF Init, AppInv
<1>3. ReaderInv
  BY <1>1, BoundAssumption DEF Init, ReaderInv, ReaderOK, Taken
<1>4. BufferInv
  BY DEF Init, BufferInv
<1>5. Connected \in ClientRecord
  BY <1>1, BoundAssumption DEF Connected, ClientRecord, Phase
<1>6. ASSUME NEW c \in Client PROVE ClientOK(c, Connected)
  <2>1. PhaseOK(c, Connected)
    BY DEF PhaseOK, Connected, Init
  <2>2. OrderOK(Connected)
    BY <1>1, OrderedEmpty DEF OrderOK, Connected, Sent, AllOld
  <2>3. LiveOK(c, Connected) /\ GapOK(Connected)
    BY DEF LiveOK, GapOK, Connected
  <2> QED BY <2>1, <2>2, <2>3 DEF ClientOK
<1>7. ClientsInv
  BY <1>5, <1>6 DEF Init, ClientsInv
<1> QED BY <1>2, <1>3, <1>4, <1>7 DEF IInv

-----------------------------------------------------------------------------
(* The threads of the application                                          *)

LEMMA SentIsLines ==
  ASSUME NEW r \in ClientRecord
  PROVE  Sent(r) \in Seq(Line) /\ \A i \in 1 .. Len(Sent(r)) : Sent(r)[i] \in Line
<1>1. Sent(r) \in Seq(Line)
  BY RecordParts, ConcatProperties DEF Sent
<1> QED BY <1>1, ElementOfSeq

(* What a client was sent stays in order, and complete, if it is sent      *)
(* nothing and nothing is logged.                                          *)
LEMMA OrderKept ==
  ASSUME NEW c \in Client, client[c] \in ClientRecord, OrderOK(client[c]),
         client'[c] = client[c], \A l \in Line : Old(l) => Old(l)'
  PROVE  OrderOK(client[c])'
<1>1. Sent(client[c])' = Sent(client[c])
  BY DEF Sent
<1>2. \A i \in 1 .. Len(Sent(client[c])) : Old(Sent(client[c])[i])'
  BY SentIsLines DEF OrderOK, AllOld
<1> QED BY <1>1, <1>2 DEF OrderOK, AllOld, Ordered

LEMMA GapKept ==
  ASSUME NEW c \in Client, client[c] \in ClientRecord, GapOK(client[c]),
         client'[c] = client[c], logged' = logged, latest \in Nat, latest' \in Nat,
         latest' >= latest
  PROVE  GapOK(client[c])'
<1>1. \A k \in 1 .. latest : k \in 1 .. latest'
  OBVIOUS
<1> QED BY <1>1 DEF GapOK, Asked, Beginning

(* As long as nothing is logged and the state stays registered, buffer and *)
(* clients are right, provided that no logged line becomes young.          *)
LEMMA AppMoves ==
  ASSUME IInv, UNCHANGED <<latest, state, client, logged>>,
         \A l \in Line : Old(l) => Old(l)'
  PROVE  BufferInv' /\ ClientsInv'
<1>1. BufferInv'
  <2> SUFFICES ASSUME latest # 0 PROVE AllOld(state.buf)'
    BY DEF IInv, BufferInv, Ordered, Recent, Beginning
  <2>1. AllOld(state.buf) /\ \A i \in 1 .. Len(state.buf) : state.buf[i] \in Line
    BY ElementOfSeq DEF IInv, BufferInv, AppInv, Registered
  <2> QED BY <2>1 DEF AllOld
<1>2. ASSUME NEW c \in Client PROVE ClientOK(c, client[c])'
  <2>1. client[c] \in ClientRecord /\ ClientOK(c, client[c])
    BY DEF IInv, ClientsInv
  <2>2. OrderOK(client[c])'
    BY <2>1, OrderKept DEF ClientOK
  <2>3. (PhaseOK(c, client[c]) /\ LiveOK(c, client[c]) /\ GapOK(client[c]))'
    BY <2>1 DEF ClientOK, PhaseOK, LiveOK, GapOK, Since, Asked, Beginning
  <2> QED BY <2>2, <2>3 DEF ClientOK
<1>3. ClientsInv'
  BY <1>2 DEF IInv, ClientsInv
<1> QED BY <1>1, <1>3

LEMMA OldKept ==
  ASSUME UNCHANGED <<reader, pipe, printed>>
  PROVE  \A l \in Line : Old(l) => Old(l)'
  BY DEF Old, Taken

LEMMA ReaderKept ==
  ASSUME IInv, UNCHANGED <<reader, pipe, printed, held, logged>>, latest' >= latest,
         latest' \in Nat
  PROVE  ReaderInv'
<1>1. \A g \in Instance : ReaderOK(g)'
  BY DEF IInv, ReaderInv, ReaderOK, Taken, Instance, AppInv
<1> QED BY <1>1 DEF IInv, ReaderInv

LEMMA SpawnKeeps == IInv /\ Spawn => IInv'
<1> SUFFICES ASSUME IInv, Spawn PROVE IInv'
  OBVIOUS
<1>1. /\ latest < MaxInstance /\ latest' = latest + 1 /\ alive' = TRUE
      /\ state' = [of |-> latest + 1, buf |-> << >>, subscribers |-> {}]
      /\ waiter' = "start_threads" /\ client' = client
      /\ UNCHANGED <<pipe, printed, reader, held, logged>>
  BY DEF Spawn, reading
<1>2. latest \in Nat /\ latest + 1 \in 0 .. MaxInstance /\ latest + 1 \in Instance /\ latest + 1 # 0
  BY <1>1, BoundAssumption DEF IInv, AppInv, Instance
<1>3. AppInv'
  <2>1. << >> \in Seq(Line)
    BY EmptySeq
  <2>2. reader[latest + 1] = "none"
    BY <1>2 DEF IInv, ReaderInv, ReaderOK
  <2> QED BY <1>1, <1>2, <2>1, <2>2 DEF AppInv, Registered
<1>4. ReaderInv'
  BY <1>1, <1>2, ReaderKept
<1>5. \A l \in Line : Old(l) => Old(l)'
  BY <1>1, OldKept
<1>6. \A c \in Client : /\ client[c] \in ClientRecord /\ ClientOK(c, client[c])
                        /\ client[c].pc \in {"backlog", "live", "ended"} => latest # 0
  BY DEF IInv, ClientsInv, ClientOK, PhaseOK
<1>7. BufferInv'
  <2>1. logged[latest + 1] = << >>
    BY <1>2 DEF IInv, BufferInv, Instance
  <2>2. Recent(<< >>) = << >>
    <3>1. Beginning(0) = 1 /\ Len(<< >>) = 0
      BY EmptySeq, BufSizeAssumption DEF Beginning
    <3> QED BY <3>1, SubSeqEmpty DEF Recent
  <2>3. state'.buf = << >> /\ logged'[latest'] = << >>
    BY <1>1, <2>1
  <2>4. (Ordered(state.buf) /\ AllOld(state.buf))'
    BY <2>3, EmptySeq DEF Ordered, AllOld
  <2>5. \A g \in Instance : g > latest' => logged'[g] = << >>
    BY <1>1, <1>2 DEF IInv, BufferInv, Instance
  <2>6. state'.buf = Recent(logged[latest])'
    BY <2>2, <2>3 DEF Recent, Beginning
  <2> QED BY <2>4, <2>5, <2>6 DEF BufferInv
<1>8. ASSUME NEW c \in Client PROVE ClientOK(c, client[c])'
  <2>0. client'[c] = client[c] /\ client[c] \in ClientRecord /\ ClientOK(c, client[c])
    BY <1>1, <1>6
  <2>1. PhaseOK(c, client[c])'
    BY <1>1, <1>2, <1>6 DEF ClientOK, PhaseOK
  <2>2. OrderOK(client[c])'
    BY <1>5, <2>0, OrderKept DEF ClientOK
  <2>3. LiveOK(c, client[c])'
    <3>1. Since(client[c])' = Since(client[c])
      BY <1>1, <2>0 DEF Since
    <3>2. \A k \in 1 .. latest : k \in 1 .. latest' /\ k # latest'
      BY <1>1, <1>2
    <3> QED BY <1>1, <2>0, <3>1, <3>2 DEF ClientOK, LiveOK
  <2>4. GapOK(client[c])'
    BY <1>1, <1>2, <2>0, GapKept DEF ClientOK
  <2> QED BY <2>1, <2>2, <2>3, <2>4 DEF ClientOK
<1>9. ClientsInv'
  BY <1>1, <1>6, <1>8 DEF IInv, ClientsInv
<1> QED BY <1>3, <1>4, <1>7, <1>9 DEF IInv

(* Steps of the process and of its waiter that leave the state registered. *)
LEMMA ProcessKeeps ==
  ASSUME IInv, StartReader \/ PrintLine \/ Exit \/ Restart \/ GiveUp
  PROVE  IInv'
<1>0. latest \in Nat /\ UNCHANGED <<latest, state, client, logged>>
  BY DEF IInv, AppInv, StartReader, PrintLine, Exit, Restart, GiveUp, reading
<1>1. CASE StartReader
  <2>1. latest \in Instance /\ reader' = [reader EXCEPT ![latest] = "reads"]
        /\ UNCHANGED <<alive, pipe, printed, held>> /\ waiter' = "wait" /\ latest # 0
        /\ reader[latest] = "none"
    BY <1>1, BoundAssumption DEF StartReader, IInv, AppInv, Instance
  <2>2. AppInv'
    BY <1>0, <2>1 DEF IInv, AppInv
  <2>3. ReaderInv'
    <3>1. ASSUME NEW g \in Instance PROVE ReaderOK(g)'
      <4>1. ReaderOK(g) /\ Taken(g)' = Taken(g)
        BY <2>1 DEF IInv, ReaderInv, Taken
      <4>2. reader'[g] = IF g = latest THEN "reads" ELSE reader[g]
        BY <2>1 DEF IInv, ReaderInv
      <4>3. reader'[g] # "none" => g <= latest
        BY <1>0, <4>1, <4>2 DEF ReaderOK
      <4>4. reader'[g] # "logs" \/ reader'[g] = reader[g]
        BY <4>2
      <4>5. reader[g] = "logs" => reader'[g] = reader[g]
        BY <2>1, <4>2
      <4>6. held' = held /\ pipe' = pipe /\ printed' = printed /\ latest' = latest
        BY <1>0, <2>1
      <4> QED BY <4>1, <4>3, <4>4, <4>5, <4>6 DEF ReaderOK
    <3> QED BY <1>0, <2>1, <3>1 DEF IInv, ReaderInv
  <2>4. \A l \in Line : Old(l) => Old(l)'
    BY <2>1 DEF Old, Taken, IInv, ReaderInv, Line
  <2> QED BY <1>0, <2>2, <2>3, <2>4, AppMoves DEF IInv
<1>2. CASE PrintLine
  <2> DEFINE g == latest
             line == [from |-> latest, no |-> printed[latest] + 1]
  <2>1. /\ g \in Instance /\ printed[g] < MaxLine /\ latest # 0
        /\ printed' = [printed EXCEPT ![g] = @ + 1]
        /\ pipe' = [pipe EXCEPT ![g] = Append(@, line)]
        /\ UNCHANGED <<alive, waiter, reader, held>>
    BY <1>2, BoundAssumption DEF PrintLine, IInv, AppInv, Instance, reading
  <2>2. /\ ReaderOK(g) /\ pipe[g] \in Seq(Line) /\ printed[g] \in Nat /\ MaxLine \in Nat
        /\ Len(pipe[g]) \in Nat
    BY <2>1, BoundAssumption, LenProperties DEF IInv, ReaderInv
  <2>3. line \in Line /\ line.no = printed[g] + 1 /\ line.from = g
    BY <2>1, <2>2 DEF Line
  <2>4. /\ Append(pipe[g], line) \in Seq(Line)
        /\ Len(Append(pipe[g], line)) = Len(pipe[g]) + 1
        /\ \A i \in 1 .. Len(pipe[g]) : Append(pipe[g], line)[i] = pipe[g][i]
        /\ Append(pipe[g], line)[Len(pipe[g]) + 1] = line
    BY <2>2, <2>3, AppendProperties
  <2>5. printed'[g] = printed[g] + 1 /\ pipe'[g] = Append(pipe[g], line)
        /\ \A h \in Instance \ {g} : printed'[h] = printed[h] /\ pipe'[h] = pipe[h]
    BY <2>1 DEF IInv, ReaderInv
  <2>6. \A h \in Instance : Taken(h)' = Taken(h)
    <3>1. printed'[g] - Len(pipe'[g]) = printed[g] - Len(pipe[g])
      BY <2>2, <2>4, <2>5
    <3> HIDE DEF g
    <3> QED BY <2>5, <3>1 DEF Taken
  <2>7. ReaderOK(g)'
    <3>1. \A i \in 1 .. Len(pipe'[g]) : pipe'[g][i] = [from |-> g, no |-> Taken(g) + i]
      <4> SUFFICES ASSUME NEW i \in 1 .. Len(pipe[g]) + 1
                   PROVE  pipe'[g][i] = [from |-> g, no |-> Taken(g) + i]
        BY <2>4, <2>5
      <4>1. CASE i = Len(pipe[g]) + 1
        <5>1. Taken(g) + i = printed[g] + 1
          BY <2>2, <4>1 DEF Taken
        <5> QED BY <2>4, <2>5, <4>1, <5>1
      <4>2. CASE i # Len(pipe[g]) + 1
        <5>1. i \in 1 .. Len(pipe[g])
          BY <2>2, <4>2
        <5> QED BY <2>2, <2>4, <2>5, <5>1 DEF ReaderOK
      <4> QED BY <4>1, <4>2
    <3>2. printed'[g] \in 0 .. MaxLine /\ Len(pipe'[g]) <= printed'[g]
      BY <2>1, <2>2, <2>4, <2>5 DEF ReaderOK
    <3>3. g' = g
      BY <1>0
    <3>4. Taken(g)' = Taken(g)
      BY <2>1, <2>6, <3>3
    <3> HIDE DEF g
    <3> QED BY <1>0, <2>1, <2>2, <3>1, <3>2, <3>3, <3>4 DEF ReaderOK
  <2>8. \A h \in Instance \ {g} : ReaderOK(h)'
    BY <1>0, <2>1, <2>5, <2>6 DEF IInv, ReaderInv, ReaderOK
  <2>9. ReaderInv'
    BY <1>0, <2>1, <2>2, <2>4, <2>7, <2>8 DEF IInv, ReaderInv
  <2>10. \A l \in Line : Old(l) => Old(l)'
    BY <2>1, <2>6 DEF Old, Line
  <2>11. AppInv'
    BY <1>0, <2>1 DEF IInv, AppInv
  <2> QED BY <1>0, <2>9, <2>10, <2>11, AppMoves DEF IInv
<1>3. CASE Exit \/ Restart \/ GiveUp
  <2>1. UNCHANGED <<reader, pipe, printed, held>>
    BY <1>3 DEF Exit, Restart, GiveUp, reading
  <2>2. AppInv'
    BY <1>0, <1>3, <2>1 DEF Exit, Restart, GiveUp, IInv, AppInv
  <2> QED BY <1>0, <2>1, <2>2, AppMoves, ReaderKept, OldKept DEF IInv
<1> QED BY <1>1, <1>2, <1>3

(* Steps of a reader that log nothing.                                     *)
LEMMA ReadKeeps ==
  ASSUME IInv, NEW g \in Instance, ReadLine(g) \/ ReaderBreaks(g) \/ EndOfOutput(g)
  PROVE  IInv'
<1>0. /\ latest \in Nat /\ UNCHANGED <<latest, alive, waiter, printed, state, client, logged>>
      /\ reader[g] = "reads" /\ ReaderOK(g)
  BY DEF IInv, AppInv, ReaderInv, ReadLine, ReaderBreaks, EndOfOutput, app
<1>1. CASE ReadLine(g)
  <2>1. /\ pipe[g] # << >> /\ held' = [held EXCEPT ![g] = Head(pipe[g])]
        /\ pipe' = [pipe EXCEPT ![g] = Tail(@)] /\ reader' = [reader EXCEPT ![g] = "logs"]
    BY <1>1 DEF ReadLine
  <2>2. /\ Head(pipe[g]) \in Line /\ Tail(pipe[g]) \in Seq(Line)
        /\ Len(Tail(pipe[g])) = Len(pipe[g]) - 1 /\ Head(pipe[g]) = pipe[g][1]
        /\ \A i \in 1 .. Len(Tail(pipe[g])) : Tail(pipe[g])[i] = pipe[g][i + 1]
        /\ Len(pipe[g]) \in Nat \ {0} /\ printed[g] \in Nat
    <3>1. pipe[g] \in Seq(Line) /\ printed[g] \in Nat
      BY DEF IInv, ReaderInv
    <3> QED BY <2>1, <3>1, HeadTailProperties, EmptySeq
  <2>3. /\ pipe'[g] = Tail(pipe[g]) /\ held'[g] = Head(pipe[g]) /\ reader'[g] = "logs"
        /\ \A h \in Instance \ {g} : /\ pipe'[h] = pipe[h] /\ held'[h] = held[h]
                                     /\ reader'[h] = reader[h]
    BY <2>1 DEF IInv, ReaderInv
  <2>4. Taken(g)' = Taken(g) + 1
    BY <1>0, <2>2, <2>3 DEF Taken
  <2>5. ReaderOK(g)'
    <3>1. held'[g] = [from |-> g, no |-> Taken(g)'] /\ held'[g] \in Line
      BY <1>0, <2>2, <2>3, <2>4 DEF ReaderOK
    <3>2. \A i \in 1 .. Len(pipe'[g]) : pipe'[g][i] = [from |-> g, no |-> Taken(g)' + i]
      <4> SUFFICES ASSUME NEW i \in 1 .. Len(pipe[g]) - 1
                   PROVE  pipe'[g][i] = [from |-> g, no |-> Taken(g)' + i]
        BY <2>2, <2>3
      <4>1. i + 1 \in 1 .. Len(pipe[g])
        BY <2>2
      <4>2. pipe[g][i + 1] = [from |-> g, no |-> Taken(g) + (i + 1)]
        BY <1>0, <4>1 DEF ReaderOK
      <4>3. Taken(g) \in Int
        BY <2>2 DEF Taken
      <4>4. Taken(g) + (i + 1) = Taken(g)' + i
        BY <2>2, <2>4, <4>3
      <4> QED BY <2>2, <2>3, <4>2, <4>4
    <3> QED BY <1>0, <2>2, <2>3, <3>1, <3>2 DEF ReaderOK
  <2>6. \A h \in Instance \ {g} : ReaderOK(h)'
    BY <1>0, <2>3 DEF IInv, ReaderInv, ReaderOK, Taken
  <2>7. ReaderInv'
    BY <1>0, <2>1, <2>2, <2>5, <2>6 DEF IInv, ReaderInv
  <2>8. \A l \in Line : Old(l) => Old(l)'
    <3> SUFFICES ASSUME NEW l \in Line, Old(l) PROVE Old(l)'
      OBVIOUS
    <3>1. l.from \in Instance /\ l.no \in Nat
      BY DEF Line
    <3>2. CASE l.from = g
      <4>1. Len(pipe'[g]) = Len(pipe[g]) - 1 /\ printed' = printed
        BY <1>0, <2>2, <2>3
      <4>2. l.no <= printed[g] - Len(pipe[g])
        BY <1>0, <3>2 DEF Old, Taken
      <4>3. l.no < printed'[g] - Len(pipe'[g])
        BY <2>2, <3>1, <4>1, <4>2
      <4> QED BY <2>3, <3>2, <4>3 DEF Old, Taken
    <3>3. CASE l.from # g
      BY <1>0, <2>3, <3>1, <3>3 DEF Old, Taken
    <3> QED BY <3>2, <3>3
  <2>9. AppInv'
    BY <1>0, <2>3, BoundAssumption DEF IInv, AppInv, Instance
  <2> QED BY <1>0, <2>7, <2>8, <2>9, AppMoves DEF IInv
<1>2. CASE ReaderBreaks(g) \/ EndOfOutput(g)
  <2>1. PICK s \in {"broken", "ended"} :
          reader' = [reader EXCEPT ![g] = s] /\ UNCHANGED <<pipe, held>>
    BY <1>2 DEF ReaderBreaks, EndOfOutput, app
  <2>2. ReaderInv'
    <3>1. ASSUME NEW h \in Instance PROVE ReaderOK(h)'
      <4>1. ReaderOK(h) /\ Taken(h)' = Taken(h)
        BY <1>0, <2>1 DEF IInv, ReaderInv, Taken
      <4>2. reader'[h] = IF h = g THEN s ELSE reader[h]
        BY <2>1 DEF IInv, ReaderInv
      <4> QED BY <1>0, <2>1, <4>1, <4>2 DEF ReaderOK
    <3> QED BY <1>0, <2>1, <3>1 DEF IInv, ReaderInv
  <2>3. \A l \in Line : Old(l) => Old(l)'
    BY <1>0, <2>1 DEF Old, Taken, IInv, ReaderInv, Line
  <2>4. AppInv'
    <3>1. latest # 0 => latest \in Instance
      BY BoundAssumption DEF IInv, AppInv, Instance
    <3> QED BY <1>0, <2>1, <3>1 DEF IInv, AppInv, ReaderInv
  <2> QED BY <1>0, <2>2, <2>3, <2>4, AppMoves DEF IInv
<1> QED BY <1>1, <1>2

-----------------------------------------------------------------------------
(* The connections                                                         *)

(* A step of one client leaves the others right, whether or not it         *)
(* subscribes.                                                             *)
LEMMA ClientMoves ==
  ASSUME IInv, NEW c \in Client, UNCHANGED <<app, reading>>,
         client' \in [Client -> ClientRecord],
         \A d \in Client \ {c} : client'[d] = client[d],
         ClientOK(c, client[c])',
         \/ state' = state
         \/ latest # 0 /\ state' = [state EXCEPT !.subscribers = @ \cup {c}]
  PROVE  IInv'
<1>1. UNCHANGED <<latest, alive, waiter, pipe, printed, reader, held, logged>>
      /\ latest \in Nat
  BY DEF app, reading, IInv, AppInv
<1>2. latest # 0 => /\ state \in Registered /\ state' \in Registered
                    /\ state'.of = state.of /\ state'.buf = state.buf
                    /\ \A d \in Client \ {c} : d \in state'.subscribers <=> d \in state.subscribers
  BY DEF IInv, AppInv, Registered
<1>3. latest = 0 => state' = state
  OBVIOUS
<1>4. AppInv'
  BY <1>1, <1>2, <1>3 DEF IInv, AppInv
<1>5. ReaderInv'
  BY <1>1, ReaderKept
<1>6. \A l \in Line : Old(l) => Old(l)'
  BY <1>1, OldKept
<1>7. BufferInv'
  <2>1. latest # 0 => (Ordered(state.buf) /\ AllOld(state.buf))'
    <3> SUFFICES ASSUME latest # 0 PROVE (Ordered(state.buf) /\ AllOld(state.buf))'
      OBVIOUS
    <3>1. state'.buf = state.buf /\ Ordered(state.buf) /\ AllOld(state.buf)
          /\ \A i \in 1 .. Len(state.buf) : state.buf[i] \in Line
      BY <1>2, ElementOfSeq DEF IInv, BufferInv, Registered
    <3> QED BY <3>1, <1>6 DEF Ordered, AllOld
  <2>2. latest # 0 => state'.buf = Recent(logged[latest])'
    BY <1>1, <1>2 DEF IInv, BufferInv, Recent, Beginning
  <2> QED BY <1>1, <2>1, <2>2 DEF IInv, BufferInv
<1>8. ASSUME NEW d \in Client \ {c} PROVE ClientOK(d, client[d])'
  <2>1. client'[d] = client[d] /\ client[d] \in ClientRecord /\ ClientOK(d, client[d])
    BY DEF IInv, ClientsInv
  <2>2. PhaseOK(d, client[d])'
    BY <1>1, <1>2, <2>1 DEF ClientOK, PhaseOK
  <2>3. OrderOK(client[d])'
    BY <1>6, <2>1, OrderKept DEF ClientOK
  <2>4. LiveOK(d, client[d])'
    <3>1. Since(client[d])' = Since(client[d])
      BY <1>1, <2>1 DEF Since
    <3> QED BY <1>1, <1>2, <2>1, <3>1 DEF ClientOK, LiveOK, PhaseOK
  <2>5. GapOK(client[d])'
    BY <1>1, <2>1, GapKept DEF ClientOK
  <2> QED BY <2>2, <2>3, <2>4, <2>5 DEF ClientOK
<1>9. ClientsInv'
  BY <1>8 DEF ClientsInv
<1> QED BY <1>4, <1>5, <1>7, <1>9 DEF IInv

(* What the invariant says of one client.                                  *)
LEMMA ClientFacts ==
  ASSUME IInv, NEW c \in Client
  PROVE  /\ client[c] \in ClientRecord /\ ClientOK(c, client[c])
         /\ client \in [Client -> ClientRecord]
         /\ Sent(client[c]) \in Seq(Line)
  BY SentIsLines DEF IInv, ClientsInv

(* If what a client was sent and will be sent is the same, so is its order. *)
LEMMA SentKept ==
  ASSUME IInv, NEW c \in Client, UNCHANGED reading, UNCHANGED app,
         Sent(client[c])' = Sent(client[c])
  PROVE  OrderOK(client[c])'
<1>1. \A l \in Line : Old(l) => Old(l)'
  BY OldKept DEF app, reading
<1>2. OrderOK(client[c]) /\ \A i \in 1 .. Len(Sent(client[c])) : Sent(client[c])[i] \in Line
  BY ClientFacts, SentIsLines DEF ClientOK
<1>3. \A i \in 1 .. Len(Sent(client[c])) : Old(Sent(client[c])[i])'
  BY <1>1, <1>2 DEF OrderOK, AllOld
<1> QED BY <1>2, <1>3 DEF OrderOK, AllOld, Ordered

LEMMA LeaveKeeps ==
  ASSUME IInv, NEW c \in Client, NotFound(c) \/ Leave(c)
  PROVE  IInv'
<1>0. UNCHANGED <<app, reading, state>> /\ client[c] \in ClientRecord /\ ClientOK(c, client[c])
      /\ client \in [Client -> ClientRecord]
  BY ClientFacts DEF NotFound, Leave
<1>1. \/ client[c].pc = "idle" /\ client' = [client EXCEPT ![c] = [@ EXCEPT !.pc = "refused"]]
      \/ client' = [client EXCEPT ![c] = [@ EXCEPT !.present = FALSE]]
  BY <1>0 DEF NotFound, Leave
<1>2. /\ client'[c] \in ClientRecord
      /\ \/ client[c].pc = "idle" /\ client'[c].pc = "refused"
         \/ client'[c].pc = client[c].pc
      /\ client'[c].got = client[c].got /\ client'[c].backlog = client[c].backlog
      /\ client'[c].chan = client[c].chan /\ client'[c].live = client[c].live
      /\ client'[c].of = client[c].of /\ client'[c].since = client[c].since
      /\ client'[c].asked = client[c].asked
  <2>1. CASE client[c].pc = "idle" /\ client' = [client EXCEPT ![c] = [@ EXCEPT !.pc = "refused"]]
    <3>1. client'[c] = [client[c] EXCEPT !.pc = "refused"]
      BY <1>0, <2>1
    <3> QED BY <1>0, <2>1, <3>1 DEF ClientRecord, Phase
  <2>2. CASE client' = [client EXCEPT ![c] = [@ EXCEPT !.present = FALSE]]
    <3>1. client'[c] = [client[c] EXCEPT !.present = FALSE]
      BY <1>0, <2>2
    <3> QED BY <1>0, <3>1 DEF ClientRecord, Phase
  <2> QED BY <1>1, <2>1, <2>2
<1>3. client' \in [Client -> ClientRecord] /\ \A d \in Client \ {c} : client'[d] = client[d]
  BY <1>0, <1>1, <1>2
<1>4. UNCHANGED <<latest, logged, state>>
  BY <1>0 DEF app, reading
<1>5. PhaseOK(c, client[c])'
  BY <1>0, <1>2, <1>4 DEF ClientOK, PhaseOK
<1>6. OrderOK(client[c])'
  BY <1>0, <1>2, SentKept DEF Sent
<1>7. LiveOK(c, client[c])'
  BY <1>0, <1>2, <1>4 DEF ClientOK, LiveOK, Since
<1>8. GapOK(client[c])'
  BY <1>0, <1>2, <1>4 DEF ClientOK, GapOK, Asked, Beginning
<1> QED BY <1>0, <1>3, <1>5, <1>6, <1>7, <1>8, ClientMoves DEF ClientOK

LEMMA SnapshotKeeps ==
  ASSUME IInv, NEW c \in Client, Snapshot(c)
  PROVE  IInv'
<1> DEFINE r == client[c]
           new == [r EXCEPT !.pc = "backlog", !.backlog = state.buf,
                            !.asked = <<state.of, Len(logged[state.of])>>]
<1>0. UNCHANGED <<app, reading, state>> /\ r \in ClientRecord /\ ClientOK(c, r)
      /\ client \in [Client -> ClientRecord] /\ r.pc = "idle" /\ state # None
      /\ client' = [client EXCEPT ![c] = new]
  BY ClientFacts DEF Snapshot
<1>1. latest # 0 /\ state \in Registered /\ state.of = latest /\ latest \in Instance
      /\ latest \in 1 .. latest /\ latest \in Nat
  BY <1>0, BoundAssumption DEF IInv, AppInv, Instance
<1>2. state.buf \in Seq(Line) /\ logged[latest] \in Seq(Line) /\ Len(logged[latest]) \in Nat
      /\ state.buf = Recent(logged[latest])
  BY <1>1, LenProperties DEF Registered, IInv, ReaderInv, BufferInv
<1>3. <<state.of, Len(logged[state.of])>> \in Nat \X Nat
  BY <1>1, <1>2
<1>4. /\ new \in ClientRecord /\ new.pc = "backlog" /\ new.backlog = state.buf
      /\ new.asked = <<latest, Len(logged[latest])>>
      /\ new.got = r.got /\ new.chan = r.chan /\ new.live = r.live
  BY <1>0, <1>1, <1>2, <1>3 DEF ClientRecord, Phase
<1>5. client'[c] = new /\ client' \in [Client -> ClientRecord]
      /\ \A d \in Client \ {c} : client'[d] = client[d]
  BY <1>0, <1>4
<1>6. r.got = << >> /\ r.chan = << >> /\ r.live = << >> /\ c \notin state.subscribers
  BY <1>0, <1>1 DEF ClientOK, PhaseOK
<1>7. UNCHANGED <<latest, logged, state, reader, pipe, printed>>
  BY <1>0 DEF app, reading
<1> HIDE DEF new, r
<1>8. PhaseOK(c, client[c])'
  BY <1>1, <1>4, <1>5, <1>6, <1>7 DEF PhaseOK
<1>9. OrderOK(client[c])'
  <2>1. Sent(client[c])' = state.buf
    <3>1. (<< >> \o state.buf) \o << >> = state.buf
      BY <1>2, ConcatEmptySeq
    <3> QED BY <1>4, <1>5, <1>6, <3>1 DEF Sent
  <2>2. Ordered(state.buf) /\ \A i \in 1 .. Len(state.buf) : Old(state.buf[i])
    BY <1>1 DEF IInv, BufferInv, AllOld
  <2>3. \A i \in 1 .. Len(Sent(client[c])') : Old(Sent(client[c])[i])'
    BY <1>7, <2>1, <2>2 DEF Old, Taken
  <2> QED BY <2>1, <2>2, <2>3 DEF OrderOK, AllOld, Ordered
<1>10. LiveOK(c, client[c])'
  BY <1>4, <1>5 DEF LiveOK
<1>11. GapOK(client[c])'
  <2>1. << >> \o state.buf = state.buf
    BY <1>2, ConcatEmptySeq
  <2>2. /\ client'[c].asked[1] = latest /\ client'[c].asked[2] = Len(logged[latest])
        /\ client'[c].pc = "backlog" /\ client'[c].got = << >> /\ client'[c].backlog = state.buf
    BY <1>4, <1>5, <1>6
  <2>3. state.buf = Asked(client[c])'
    BY <1>2, <1>7, <2>2 DEF Asked, Recent, Beginning
  <2>4. (client[c].asked[1] \in 1 .. latest
         /\ client[c].asked[2] <= Len(logged[client[c].asked[1]]))'
    BY <1>1, <1>2, <1>7, <2>2
  <2> QED BY <2>1, <2>2, <2>3, <2>4 DEF GapOK
<1> QED BY <1>0, <1>5, <1>8, <1>9, <1>10, <1>11, ClientMoves DEF ClientOK

LEMMA SendBacklogKeeps ==
  ASSUME IInv, NEW c \in Client, SendBacklog(c)
  PROVE  IInv'
<1> DEFINE r == client[c]
           new == [r EXCEPT !.backlog = Tail(@), !.got = Append(@, Head(r.backlog))]
<1>0. UNCHANGED <<app, reading, state>> /\ r \in ClientRecord /\ ClientOK(c, r)
      /\ client \in [Client -> ClientRecord] /\ r.pc = "backlog" /\ r.backlog # << >>
      /\ client' = [client EXCEPT ![c] = new]
  BY ClientFacts DEF SendBacklog
<1>1. r.backlog \in Seq(Line) /\ r.got \in Seq(Line)
  BY <1>0, RecordParts
<1>2. /\ Head(r.backlog) \in Line /\ Tail(r.backlog) \in Seq(Line)
      /\ Append(r.got, Head(r.backlog)) \in Seq(Line)
      /\ Append(r.got, Head(r.backlog)) \o Tail(r.backlog) = r.got \o r.backlog
  BY <1>0, <1>1, HeadTailProperties, AppendProperties, MoveHead
<1>3. /\ new \in ClientRecord /\ new.pc = r.pc /\ new.backlog = Tail(r.backlog)
      /\ new.got = Append(r.got, Head(r.backlog)) /\ new.asked = r.asked
      /\ new.chan = r.chan /\ new.live = r.live
  BY <1>0, <1>2 DEF ClientRecord
<1>4. client'[c] = new /\ client' \in [Client -> ClientRecord]
      /\ \A d \in Client \ {c} : client'[d] = client[d]
  BY <1>0, <1>3
<1>5. UNCHANGED <<latest, logged, state>>
  BY <1>0 DEF app, reading
<1>6. client[c] = r /\ new.got \o new.backlog = r.got \o r.backlog
  BY <1>2, <1>3
<1> HIDE DEF new, r
<1>7. PhaseOK(c, client[c])'
  BY <1>0, <1>3, <1>4, <1>5 DEF ClientOK, PhaseOK
<1>8. OrderOK(client[c])'
  BY <1>0, <1>3, <1>4, <1>6, SentKept DEF Sent
<1>9. LiveOK(c, client[c])'
  BY <1>0, <1>3, <1>4 DEF LiveOK
<1>10. GapOK(client[c])'
  BY <1>0, <1>3, <1>4, <1>5, <1>6 DEF ClientOK, GapOK, Asked, Beginning
<1> QED BY <1>0, <1>4, <1>7, <1>8, <1>9, <1>10, ClientMoves DEF ClientOK

LEMMA SendLiveKeeps ==
  ASSUME IInv, NEW c \in Client, SendLive(c)
  PROVE  IInv'
<1> DEFINE r == client[c]
           h == Head(r.chan)
           new == [r EXCEPT !.chan = Tail(@), !.got = Append(@, h), !.live = Append(@, h)]
<1>0. UNCHANGED <<app, reading, state>> /\ r \in ClientRecord /\ ClientOK(c, r)
      /\ client \in [Client -> ClientRecord] /\ r.pc = "live" /\ r.chan # << >>
      /\ client' = [client EXCEPT ![c] = new]
  BY ClientFacts DEF SendLive
<1>1. r.chan \in Seq(Line) /\ r.got \in Seq(Line) /\ r.live \in Seq(Line)
      /\ r.backlog = << >> 
  BY <1>0, RecordParts DEF ClientOK, PhaseOK
<1>2. /\ h \in Line /\ Tail(r.chan) \in Seq(Line)
      /\ Append(r.got, h) \in Seq(Line) /\ Append(r.live, h) \in Seq(Line)
      /\ Append(r.got, h) \o Tail(r.chan) = r.got \o r.chan
      /\ Append(r.live, h) \o Tail(r.chan) = r.live \o r.chan
  BY <1>0, <1>1, HeadTailProperties, AppendProperties, MoveHead
<1>3. /\ new \in ClientRecord /\ new.pc = r.pc /\ new.chan = Tail(r.chan)
      /\ new.got = Append(r.got, h) /\ new.live = Append(r.live, h)
      /\ new.asked = r.asked /\ new.backlog = r.backlog
      /\ new.of = r.of /\ new.since = r.since
  BY <1>0, <1>2 DEF ClientRecord
<1>4. client'[c] = new /\ client' \in [Client -> ClientRecord]
      /\ \A d \in Client \ {c} : client'[d] = client[d]
  BY <1>0, <1>3
<1>5. UNCHANGED <<latest, logged, state>>
  BY <1>0 DEF app, reading
<1>6. client[c] = r /\ new.got \o new.chan = r.got \o r.chan
      /\ new.live \o new.chan = r.live \o r.chan
      /\ new.got \o << >> = new.got /\ r.got \o << >> = r.got
  BY <1>1, <1>2, <1>3, ConcatEmptySeq
<1> HIDE DEF new, r
<1>7. PhaseOK(c, client[c])'
  BY <1>0, <1>3, <1>4, <1>5 DEF ClientOK, PhaseOK
<1>8. OrderOK(client[c])'
  <2>1. client'[c].got \o client'[c].backlog = new.got /\ client'[c].chan = new.chan
    BY <1>1, <1>3, <1>4, <1>6
  <2>2. Sent(client[c]) = r.got \o r.chan
    BY <1>1, <1>6 DEF Sent
  <2>3. Sent(client[c])' = Sent(client[c])
    BY <1>6, <2>1, <2>2 DEF Sent
  <2> QED BY <1>0, <2>3, SentKept
<1>9. LiveOK(c, client[c])'
  BY <1>0, <1>3, <1>4, <1>5, <1>6 DEF ClientOK, LiveOK, Since
<1>10. GapOK(client[c])'
  BY <1>0, <1>3, <1>4, <1>5, <1>6 DEF ClientOK, GapOK, Asked, Beginning
<1> QED BY <1>0, <1>4, <1>7, <1>8, <1>9, <1>10, ClientMoves DEF ClientOK

LEMMA SubscribeKeeps ==
  ASSUME IInv, NEW c \in Client, Subscribe(c)
  PROVE  IInv'
<1> DEFINE r == client[c]
           n == Len(logged[state.of])
           new == [r EXCEPT !.pc = "live", !.of = state.of, !.since = n]
<1>0. UNCHANGED <<app, reading>> /\ r \in ClientRecord /\ ClientOK(c, r)
      /\ client \in [Client -> ClientRecord] /\ r.pc = "backlog" /\ r.backlog = << >>
      /\ client' = [client EXCEPT ![c] = new]
      /\ state' = [state EXCEPT !.subscribers = @ \cup {c}]
  BY ClientFacts DEF Subscribe
<1>1. latest # 0 /\ state \in Registered /\ state.of = latest /\ latest \in Instance
      /\ latest \in Nat /\ latest \in 0 .. MaxInstance /\ latest \in 1 .. latest
  BY <1>0, BoundAssumption DEF IInv, AppInv, Instance, ClientOK, PhaseOK
<1>2. logged[latest] \in Seq(Line) /\ n \in Nat /\ n = Len(logged[latest])
  BY <1>1, LenProperties DEF IInv, ReaderInv
<1> HIDE DEF n
<1>3. /\ new \in ClientRecord /\ new.pc = "live" /\ new.of = latest /\ new.since = n
      /\ new.backlog = << >> /\ new.got = r.got /\ new.chan = r.chan
      /\ new.live = r.live /\ new.asked = r.asked
  BY <1>0, <1>1, <1>2 DEF ClientRecord, Phase
<1>4. client'[c] = new /\ client' \in [Client -> ClientRecord]
      /\ \A d \in Client \ {c} : client'[d] = client[d]
  BY <1>0, <1>3
<1>5. UNCHANGED <<latest, logged>> /\ c \in state'.subscribers
  BY <1>0, <1>1 DEF app, reading, Registered
<1>6. client[c] = r /\ r.chan = << >> /\ r.live = << >> /\ r.got \in Seq(Line)
  BY <1>0, RecordParts DEF ClientOK, PhaseOK
<1> HIDE DEF new, r
<1>7. PhaseOK(c, client[c])'
  BY <1>1, <1>3, <1>4, <1>5 DEF PhaseOK
<1>8. OrderOK(client[c])'
  <2>1. Sent(client[c])' = Sent(client[c])
    BY <1>0, <1>3, <1>4, <1>6 DEF Sent
  <2> QED BY <1>0, <2>1, SentKept
<1>9. LiveOK(c, client[c])'
  <2>1. << >> \o << >> = << >> /\ SubSeq(logged[latest], n + 1, n) = << >>
    BY <1>2, SubSeqEmpty
  <2>2. Since(client[c])' = << >>
    BY <1>2, <1>3, <1>4, <1>5, <2>1 DEF Since
  <2>3. client'[c].live \o client'[c].chan = << >>
    BY <1>3, <1>4, <1>6, <2>1
  <2> QED BY <1>1, <1>2, <1>3, <1>4, <1>5, <2>2, <2>3 DEF LiveOK
<1>10. GapOK(client[c])'
  <2> SUFFICES ASSUME r.asked = <<latest, n>>
               PROVE  r.got \o r.chan = SubSeq(logged[latest], Beginning(n), n)
    BY <1>2, <1>3, <1>4, <1>5 DEF GapOK, Beginning
  <2>1. r.asked[1] = latest /\ r.asked[2] = n
    OBVIOUS
  <2> QED BY <1>0, <1>6, <2>1 DEF ClientOK, GapOK, Asked
<1> QED BY <1>0, <1>1, <1>4, <1>7, <1>8, <1>9, <1>10, ClientMoves DEF ClientOK

(* What was sent and did not arrive: a part of what is in order.           *)
LEMMA StopKeeps ==
  ASSUME IInv, NEW c \in Client, EndOfStream(c) \/ WriteFails(c)
  PROVE  IInv'
<1> DEFINE r == client[c]
<1>0. UNCHANGED <<app, reading, state>> /\ r \in ClientRecord /\ ClientOK(c, r)
      /\ client \in [Client -> ClientRecord]
  BY ClientFacts DEF EndOfStream, WriteFails
<1>1. UNCHANGED <<latest, logged, state, reader, pipe, printed>>
  BY <1>0 DEF app, reading
<1>2. r.got \in Seq(Line) /\ r.backlog \in Seq(Line) /\ r.chan \in Seq(Line)
      /\ r.got \o r.backlog \in Seq(Line)
  BY <1>0, RecordParts, ConcatProperties
<1>3. CASE EndOfStream(c)
  <2> DEFINE new == [r EXCEPT !.pc = "ended"]
  <2>1. r.pc = "live" /\ r.chan = << >> /\ c \notin state.subscribers
        /\ client' = [client EXCEPT ![c] = new]
    BY <1>3 DEF EndOfStream
  <2>2. /\ new \in ClientRecord /\ new.pc = "ended" /\ new.got = r.got
        /\ new.backlog = r.backlog /\ new.chan = r.chan /\ new.live = r.live
        /\ new.of = r.of /\ new.since = r.since
    BY <1>0 DEF ClientRecord, Phase
  <2>3. client'[c] = new /\ client' \in [Client -> ClientRecord]
        /\ \A d \in Client \ {c} : client'[d] = client[d]
    BY <1>0, <2>1, <2>2
  <2>4. client[c] = r
    OBVIOUS
  <2> HIDE DEF new, r
  <2>5. PhaseOK(c, client[c])'
    BY <1>0, <1>1, <2>1, <2>2, <2>3 DEF ClientOK, PhaseOK
  <2>6. OrderOK(client[c])'
    BY <1>0, <2>2, <2>3, <2>4, SentKept DEF Sent
  <2>7. LiveOK(c, client[c])'
    BY <1>0, <1>1, <2>1, <2>2, <2>3 DEF ClientOK, LiveOK, Since
  <2>8. GapOK(client[c])'
    BY <2>2, <2>3 DEF GapOK
  <2> QED BY <1>0, <2>3, <2>5, <2>6, <2>7, <2>8, ClientMoves DEF ClientOK
<1>4. CASE WriteFails(c)
  <2> DEFINE new == [r EXCEPT !.pc = "failed", !.chan = << >>]
  <2>1. r.pc \in {"backlog", "live"} /\ client' = [client EXCEPT ![c] = new]
    BY <1>4 DEF WriteFails
  <2>2. /\ new \in ClientRecord /\ new.pc = "failed" /\ new.got = r.got
        /\ new.backlog = r.backlog /\ new.chan = << >>
    <3>1. << >> \in Seq(Line)
      BY EmptySeq
    <3> QED BY <1>0, <3>1 DEF ClientRecord, Phase
  <2>3. client'[c] = new /\ client' \in [Client -> ClientRecord]
        /\ \A d \in Client \ {c} : client'[d] = client[d]
    BY <1>0, <2>1, <2>2
  <2>4. client[c] = r
    OBVIOUS
  <2> DEFINE gb == r.got \o r.backlog
  <2>5. /\ Sent(client[c])' = gb /\ Sent(client[c]) = gb \o r.chan
        /\ gb \in Seq(Line) /\ r.chan \in Seq(Line)
    <3>1. (r.got \o r.backlog) \o << >> = r.got \o r.backlog
      BY <1>2, ConcatEmptySeq
    <3> QED BY <1>2, <2>2, <2>3, <3>1 DEF Sent
  <2>6. Ordered(gb)
    BY <1>0, <1>2, OrderedParts DEF ClientOK, OrderOK, Sent
  <2>7. \A i \in 1 .. Len(gb) : Old(gb[i])
    <3>1. Len(gb) \in Nat /\ Len(r.chan) \in Nat
      BY <2>5, LenProperties
    <3>2. Len(gb \o r.chan) = Len(gb) + Len(r.chan)
          /\ \A i \in 1 .. Len(gb) + Len(r.chan) :
                (gb \o r.chan)[i] = IF i <= Len(gb) THEN gb[i] ELSE r.chan[i - Len(gb)]
      BY <2>5, ConcatProperties
    <3>3. AllOld(gb \o r.chan)
      BY <1>0, <2>5 DEF ClientOK, OrderOK
    <3> HIDE DEF gb, r
    <3>4. \A i \in 1 .. Len(gb) : i \in 1 .. Len(gb \o r.chan) /\ (gb \o r.chan)[i] = gb[i]
      BY <3>1, <3>2
    <3> QED BY <3>3, <3>4 DEF AllOld
  <2> HIDE DEF new, r, gb
  <2>8. OrderOK(client[c])'
    <3>1. \A i \in 1 .. Len(Sent(client[c])') : Old(Sent(client[c])[i])'
      BY <1>1, <2>5, <2>7 DEF Old, Taken
    <3> QED BY <2>5, <2>6, <3>1 DEF OrderOK, AllOld, Ordered
  <2>9. PhaseOK(c, client[c])'
    BY <1>0, <1>1, <2>1, <2>2, <2>3 DEF ClientOK, PhaseOK
  <2>10. LiveOK(c, client[c])' /\ GapOK(client[c])'
    BY <2>2, <2>3 DEF LiveOK, GapOK
  <2> QED BY <1>0, <2>3, <2>8, <2>9, <2>10, ClientMoves DEF ClientOK
<1> QED BY <1>3, <1>4

-----------------------------------------------------------------------------
(* A line is logged                                                        *)

LEMMA BufferedKeeps ==
  ASSUME NEW b \in Seq(Line), NEW e \in Line, Ordered(b),
         \A i \in 1 .. Len(b) : b[i].from = e.from => b[i].no < e.no
  PROVE  /\ Ordered(Buffered(b, e)) /\ Buffered(b, e) \in Seq(Line)
         /\ \A i \in 1 .. Len(Buffered(b, e)) :
               Buffered(b, e)[i] = e \/ \E j \in 1 .. Len(b) : Buffered(b, e)[i] = b[j]
<1> DEFINE a == Append(b, e)
<1>1. /\ a \in Seq(Line) /\ a # << >> /\ Len(a) = Len(b) + 1 /\ Len(b) \in Nat
      /\ (\A i \in 1 .. Len(b) : a[i] = b[i]) /\ a[Len(b) + 1] = e
  BY AppendProperties, LenProperties
<1>2. Ordered(a)
  BY OrderedAppend
<1>3. /\ Tail(a) \in Seq(Line) /\ Ordered(Tail(a)) /\ Len(Tail(a)) = Len(a) - 1
      /\ \A i \in 1 .. Len(Tail(a)) : Tail(a)[i] = a[i + 1]
  BY <1>1, <1>2, OrderedTail, HeadTailProperties
<1>4. \A i \in 1 .. Len(a) : a[i] = e \/ \E j \in 1 .. Len(b) : a[i] = b[j]
  BY <1>1
<1>5. Buffered(b, e) = IF Len(a) > LOG_BUF_SIZE THEN Tail(a) ELSE a
  BY DEF Buffered
<1> HIDE DEF a
<1>6. \A i \in 1 .. Len(Tail(a)) : i + 1 \in 1 .. Len(a)
  BY <1>1, <1>3
<1> QED BY <1>1, <1>2, <1>3, <1>4, <1>5, <1>6

LEMMA LogKeeps ==
  ASSUME IInv, NEW g \in Instance, LogLine(g)
  PROVE  IInv'
<1> DEFINE told == {c \in state.subscribers : Receiving(c)}
<1>a. held[g] \in Line
  BY DEF LogLine, IInv, ReaderInv, ReaderOK
<1>b. PICK e \in Line : e = held[g]
  BY <1>a
<1>0. /\ reader[g] = "logs"
      /\ state' = [state EXCEPT !.buf = Buffered(@, e), !.subscribers = told]
      /\ client' = [c \in Client |->
            IF c \in told THEN [client[c] EXCEPT !.chan = Append(@, e)] ELSE client[c]]
      /\ logged' = [logged EXCEPT ![state.of] = Append(@, e)]
      /\ held' = [held EXCEPT ![g] = None]
      /\ reader' = [reader EXCEPT ![g] = "reads"]
      /\ UNCHANGED <<latest, alive, waiter, pipe, printed>>
  BY <1>b DEF LogLine, app
<1>1. /\ ReaderOK(g) /\ g \in 1 .. MaxInstance
      /\ pipe[g] \in Seq(Line) /\ Len(pipe[g]) \in Nat /\ printed[g] \in Nat
  BY LenProperties DEF IInv, ReaderInv, Instance
<1>2. e \in Line /\ e.from = g /\ e.no = Taken(g) /\ Taken(g) \in Nat
  <2>1. e = [from |-> g, no |-> Taken(g)] /\ e \in Line /\ Len(pipe[g]) <= printed[g]
    BY <1>0, <1>1, <1>b DEF ReaderOK
  <2>2. Taken(g) \in Nat
    BY <1>1, <2>1 DEF Taken
  <2> QED BY <2>1, <2>2
<1>3. latest # 0 /\ latest \in Instance /\ latest \in Nat /\ state \in Registered
      /\ state.of = latest /\ latest \in 1 .. latest
  BY <1>0, <1>1, BoundAssumption DEF ReaderOK, IInv, AppInv, Instance
<1>c. \A k \in 1 .. latest : k \in Instance
  BY <1>3, BoundAssumption DEF Instance
<1> DEFINE all == logged[latest]
<1>4. /\ all \in Seq(Line) /\ Len(all) \in Nat
      /\ logged'[latest] = Append(all, e) /\ Append(all, e) \in Seq(Line)
      /\ \A h \in Instance : h # latest => logged'[h] = logged[h]
      /\ logged' \in [Instance -> Seq(Line)]
  <2>1. all \in Seq(Line) /\ logged \in [Instance -> Seq(Line)]
    BY <1>3 DEF IInv, ReaderInv
  <2>2. Append(all, e) \in Seq(Line) /\ Len(all) \in Nat
    BY <1>2, <2>1, AppendProperties, LenProperties
  <2> QED BY <1>0, <1>3, <2>1, <2>2
<1> HIDE DEF all, told
<1>5. ReaderInv'
  <2>1. ASSUME NEW h \in Instance PROVE ReaderOK(h)'
    <3>1. ReaderOK(h) /\ Taken(h)' = Taken(h)
      BY <1>0 DEF IInv, ReaderInv, Taken
    <3>2. /\ reader'[h] = IF h = g THEN "reads" ELSE reader[h]
          /\ held'[h] = IF h = g THEN None ELSE held[h]
      BY <1>0 DEF IInv, ReaderInv
    <3> QED BY <1>0, <3>1, <3>2 DEF ReaderOK
  <2> QED BY <1>0, <1>4, <2>1 DEF IInv, ReaderInv
<1>6. \A l \in Line : Old(l) => Old(l)' /\ (l.from = e.from => l.no < e.no)
  <2> SUFFICES ASSUME NEW l \in Line, Old(l)
               PROVE  Old(l)' /\ (l.from = e.from => l.no < e.no)
    OBVIOUS
  <2>1. l.from \in Instance /\ l.no \in Nat
    BY DEF Line
  <2>2. CASE l.from = g
    <3>1. l.no < printed[g] - Len(pipe[g]) /\ printed[g] - Len(pipe[g]) = e.no
      BY <1>0, <1>2, <2>2 DEF Old, Taken
    <3>2. l.no <= printed'[g] - Len(pipe'[g])
      BY <1>0, <1>1, <2>1, <3>1
    <3>3. reader'[g] = "reads"
      BY <1>0 DEF IInv, ReaderInv
    <3> QED BY <1>2, <2>2, <3>1, <3>2, <3>3 DEF Old, Taken
  <2>3. CASE l.from # g
    <3>1. reader'[l.from] = reader[l.from]
      BY <1>0, <2>1, <2>3 DEF IInv, ReaderInv
    <3> QED BY <1>0, <1>2, <2>3, <3>1 DEF Old, Taken
  <2> QED BY <2>2, <2>3
<1>7. Old(e)'
  <2>1. reader'[g] = "reads" /\ e.no = printed'[g] - Len(pipe'[g]) /\ e.no \in Nat
    BY <1>0, <1>2 DEF IInv, ReaderInv, Taken
  <2>2. e.no <= printed'[g] - Len(pipe'[g])
    BY <2>1
  <2> QED BY <1>2, <2>1, <2>2 DEF Old, Taken
<1>8. /\ Ordered(state.buf) /\ AllOld(state.buf) /\ state.buf = Recent(all)
      /\ state.buf \in Seq(Line) /\ \A i \in 1 .. Len(state.buf) : state.buf[i] \in Line
  BY <1>3, ElementOfSeq DEF IInv, BufferInv, Registered, all
<1>9. /\ Ordered(Buffered(state.buf, e)) /\ Buffered(state.buf, e) \in Seq(Line)
      /\ \A i \in 1 .. Len(Buffered(state.buf, e)) :
            \/ Buffered(state.buf, e)[i] = e
            \/ \E j \in 1 .. Len(state.buf) : Buffered(state.buf, e)[i] = state.buf[j]
      /\ Buffered(state.buf, e) = Recent(Append(all, e))
  <2>1. \A i \in 1 .. Len(state.buf) : state.buf[i].from = e.from => state.buf[i].no < e.no
    BY <1>6, <1>8 DEF AllOld
  <2> QED BY <1>2, <1>4, <1>8, <2>1, BufferedKeeps, BufferedIsRecent
<1>10. /\ state'.buf = Buffered(state.buf, e) /\ state'.subscribers = told
       /\ state'.of = latest /\ state' \in Registered /\ told \subseteq state.subscribers
  <2>1. told \subseteq state.subscribers /\ told \subseteq Client
    BY <1>3 DEF told, Registered
  <2> QED BY <1>0, <1>3, <1>9, <2>1 DEF Registered
<1>11. AppInv'
  BY <1>0, <1>3, <1>10 DEF IInv, AppInv, ReaderInv
<1>12. BufferInv'
  <2>1. Ordered(state.buf)'
    BY <1>9, <1>10 DEF Ordered
  <2>2. AllOld(state.buf)'
    <3> SUFFICES ASSUME NEW i \in 1 .. Len(state'.buf) PROVE Old(state.buf[i])'
      BY DEF AllOld
    <3> DEFINE l == Buffered(state.buf, e)[i]
    <3>1. state'.buf[i] = l
      BY <1>10
    <3>2. CASE l = e
      BY <1>7, <3>1, <3>2 DEF Old, Taken
    <3>3. CASE \E j \in 1 .. Len(state.buf) : l = state.buf[j]
      <4>1. l \in Line /\ Old(l)
        BY <1>8, <3>3 DEF AllOld
      <4> QED BY <1>6, <3>1, <4>1 DEF Old, Taken
    <3> QED BY <1>9, <1>10, <3>2, <3>3
  <2>3. state'.buf = Recent(logged[latest])'
    BY <1>0, <1>4, <1>9, <1>10 DEF Recent, Beginning
  <2>4. \A h \in Instance : h > latest' => logged'[h] = << >>
    BY <1>0, <1>3, <1>4 DEF IInv, BufferInv, Instance
  <2> QED BY <2>1, <2>2, <2>3, <2>4 DEF BufferInv
<1>13. ASSUME NEW c \in Client PROVE ClientOK(c, client[c])' /\ client'[c] \in ClientRecord
  <2> DEFINE r == client[c]
  <2>1. r \in ClientRecord /\ ClientOK(c, r) /\ Sent(r) \in Seq(Line)
        /\ \A i \in 1 .. Len(Sent(r)) : Sent(r)[i] \in Line /\ Old(Sent(r)[i])
    BY ClientFacts, SentIsLines DEF ClientOK, OrderOK, AllOld
  <2>2. /\ r.got \in Seq(Line) /\ r.chan \in Seq(Line) /\ r.live \in Seq(Line)
        /\ r.backlog \in Seq(Line) /\ r.got \o r.backlog \in Seq(Line) /\ r.since \in Nat
    BY <2>1, RecordParts, ConcatProperties
  <2>3. CASE c \in told
    <3> DEFINE new == [r EXCEPT !.chan = Append(@, e)]
    <3>1. client'[c] = new /\ r.pc = "live" /\ c \in state.subscribers /\ c \in state'.subscribers
      BY <1>0, <1>10, <2>3 DEF told, Receiving
    <3>2. Append(r.chan, e) \in Seq(Line)
      BY <2>2, AppendProperties
    <3>3. /\ new \in ClientRecord /\ new.pc = "live" /\ new.chan = Append(r.chan, e)
          /\ new.got = r.got /\ new.live = r.live /\ new.backlog = r.backlog
          /\ new.of = r.of /\ new.since = r.since /\ new.asked = r.asked
      BY <2>1, <3>1, <3>2 DEF ClientRecord
    <3>4. r.of = latest /\ r.since <= Len(all) /\ r.since \in Nat /\ r.backlog = << >>
          /\ r.live \o r.chan = SubSeq(all, r.since + 1, Len(all))
      BY <2>1, <2>2, <3>1 DEF ClientOK, LiveOK, PhaseOK, Since, all
    <3>5. /\ r.live \o Append(r.chan, e) = Append(r.live \o r.chan, e)
          /\ r.got \o Append(r.chan, e) = Append(r.got \o r.chan, e)
          /\ (r.got \o r.backlog) \o Append(r.chan, e) = Append(Sent(r), e)
      <4> DEFINE gb == r.got \o r.backlog
      <4>1. gb \in Seq(Line) /\ Sent(r) = gb \o r.chan
        BY <2>2 DEF Sent
      <4>2. /\ r.live \o Append(r.chan, e) = Append(r.live \o r.chan, e)
            /\ r.got \o Append(r.chan, e) = Append(r.got \o r.chan, e)
        BY <1>2, <2>2, LineToConcat
      <4> HIDE DEF gb
      <4>3. gb \o Append(r.chan, e) = Append(gb \o r.chan, e)
        BY <1>2, <2>2, <4>1, LineToConcat
      <4> QED BY <4>1, <4>2, <4>3 DEF gb
    <3> HIDE DEF new
    <3>6. PhaseOK(c, client[c])'
      BY <1>0, <1>3, <3>1, <3>3, <3>4 DEF PhaseOK
    <3>7. OrderOK(client[c])'
      <4>1. Sent(client[c])' = Append(Sent(r), e)
        BY <3>1, <3>3, <3>5 DEF Sent
      <4>2. /\ Len(Append(Sent(r), e)) = Len(Sent(r)) + 1 /\ Len(Sent(r)) \in Nat
            /\ \A i \in 1 .. Len(Sent(r)) : Append(Sent(r), e)[i] = Sent(r)[i]
            /\ Append(Sent(r), e)[Len(Sent(r)) + 1] = e
        BY <2>1, AppendProperties, LenProperties
      <4>3. Ordered(Append(Sent(r), e))
        BY <1>6, <2>1, OrderedAppend DEF ClientOK, OrderOK
      <4>4. AllOld(Sent(client[c]))'
        <5> SUFFICES ASSUME NEW i \in 1 .. Len(Sent(client[c])')
                     PROVE  Old(Sent(client[c])[i])'
          BY DEF AllOld
        <5>1. CASE i = Len(Sent(r)) + 1
          <6>1. Sent(client[c])'[i] = e
            BY <4>1, <4>2, <5>1
          <6> QED BY <1>7, <6>1 DEF Old, Taken
        <5>2. CASE i # Len(Sent(r)) + 1
          <6>1. i \in 1 .. Len(Sent(r))
            BY <4>1, <4>2, <5>2
          <6>2. Sent(client[c])'[i] = Sent(r)[i]
            BY <4>1, <4>2, <6>1
          <6> QED BY <1>6, <2>1, <6>1, <6>2 DEF Old, Taken
        <5> QED BY <5>1, <5>2
      <4> QED BY <4>1, <4>3, <4>4 DEF OrderOK, Ordered
    <3>8. LiveOK(c, client[c])'
      <4>1. r.since + 1 \in 1 .. Len(all) + 1
        BY <1>4, <3>4
      <4>2. /\ Len(Append(all, e)) = Len(all) + 1
            /\ SubSeq(Append(all, e), r.since + 1, Len(Append(all, e)))
               = Append(SubSeq(all, r.since + 1, Len(all)), e)
        BY <1>2, <1>4, <4>1, SuffixOfAppend
      <4>3. Since(client[c])' = client'[c].live \o client'[c].chan
        BY <1>4, <3>1, <3>3, <3>4, <3>5, <4>2 DEF Since
      <4>4. r.since <= Len(Append(all, e))
        BY <1>4, <3>4, <4>2
      <4> QED BY <1>0, <1>3, <1>4, <1>10, <3>1, <3>3, <3>4, <4>3, <4>4 DEF LiveOK
    <3>9. GapOK(client[c])'
      <4> DEFINE m == Beginning(r.since)
      <4> SUFFICES ASSUME r.asked = <<latest, r.since>>
                   PROVE  r.got \o Append(r.chan, e) = SubSeq(Append(all, e), m, Len(Append(all, e)))
        BY <1>4, <3>1, <3>3, <3>4 DEF GapOK, Beginning
      <4>1. m \in 1 .. Len(all) + 1
        <5>1. m \in 1 .. r.since + 1
          BY <3>4, BeginningInRange
        <5> HIDE DEF m
        <5> QED BY <1>4, <3>4, <5>1
      <4>2. r.got \o r.chan = SubSeq(all, m, Len(all))
        BY <2>1, <3>1, <3>4 DEF ClientOK, GapOK, all
      <4> HIDE DEF m
      <4> QED BY <1>2, <1>4, <3>5, <4>1, <4>2, SuffixOfAppend
    <3> QED BY <3>1, <3>3, <3>6, <3>7, <3>8, <3>9 DEF ClientOK
  <2>4. CASE c \notin told
    <3>1. client'[c] = r
      BY <1>0, <2>4
    <3>2. client[c] = r
      OBVIOUS
    <3>3. r.pc = "live" => c \notin state.subscribers
      BY <2>4 DEF told, Receiving
    <3> HIDE DEF r
    <3>4. PhaseOK(c, client[c])'
      BY <1>0, <1>3, <1>10, <2>1, <3>1 DEF ClientOK, PhaseOK
    <3>5. OrderOK(client[c])'
      <4>1. \A l \in Line : Old(l) => Old(l)'
        BY <1>6
      <4> QED BY <2>1, <3>1, <3>2, <4>1, OrderKept DEF ClientOK
    <3>6. r.pc \in {"live", "ended"} => r.of # latest /\ r.of \in Instance
      BY <1>c, <2>1, <3>3 DEF ClientOK, LiveOK
    <3>7. LiveOK(c, client[c])'
      <4>1. r.pc \in {"live", "ended"} => Since(client[c])' = Since(r)
        BY <1>4, <3>1, <3>6 DEF Since
      <4> QED BY <1>0, <1>4, <1>10, <2>1, <2>4, <3>1, <3>6, <4>1 DEF ClientOK, LiveOK
    <3>8. GapOK(client[c])'
      <4>1. ASSUME r.pc = "backlog"
            PROVE  /\ r.asked[2] <= Len(logged'[r.asked[1]])
                   /\ Asked(client[c])' = Asked(r)
        <5> DEFINE k == r.asked[1]
                   n == r.asked[2]
                   m == Beginning(n)
        <5>1. k \in 1 .. latest /\ n <= Len(logged[k]) /\ n \in Nat /\ k \in Instance
          <6>1. r.asked \in Nat \X Nat
            BY <2>1, RecordParts
          <6>2. n \in Nat
            BY <6>1
          <6>3. k \in 1 .. latest /\ n <= Len(logged[k])
            BY <2>1, <4>1 DEF ClientOK, GapOK
          <6> QED BY <1>c, <6>2, <6>3
        <5>2. m \in 1 .. n + 1
          BY <5>1, BeginningInRange
        <5>3. Asked(r) = SubSeq(logged[k], m, n) /\ Asked(client[c])' = SubSeq(logged'[k], m, n)
          BY <3>1 DEF Asked, Beginning
        <5>4. CASE k = latest
          <6>1. n \in 0 .. Len(all) /\ n <= Len(Append(all, e)) /\ logged[k] = all
            <7>1. Len(Append(all, e)) = Len(all) + 1
              BY <1>4, AppendProperties
            <7> QED BY <1>4, <5>1, <5>4, <7>1 DEF all
          <6> HIDE DEF k, n, m
          <6>2. SubSeq(Append(all, e), m, n) = SubSeq(all, m, n)
            BY <1>4, <5>2, <6>1, InnerOfAppend
          <6> QED BY <1>4, <5>3, <5>4, <6>1, <6>2 DEF k, n
        <5>5. CASE k # latest
          BY <1>4, <5>1, <5>3, <5>5
        <5> QED BY <5>4, <5>5
      <4>2. r.pc = "live" => logged'[r.of] = logged[r.of]
        BY <1>4, <3>6
      <4>3. GapOK(r)
        BY <2>1 DEF ClientOK
      <4>4. r.pc = "backlog" => /\ r.asked[1] \in 1 .. latest'
                                /\ r.asked[2] <= Len(logged'[r.asked[1]])
                                /\ r.got \o r.backlog = Asked(client[c])'
        BY <1>0, <4>1, <4>3 DEF GapOK
      <4>5. r.pc = "live" /\ r.asked = <<r.of, r.since>> =>
              r.got \o r.chan = SubSeq(logged'[r.of], Beginning(r.since), Len(logged'[r.of]))
        BY <4>2, <4>3 DEF GapOK
      <4> QED BY <3>1, <4>4, <4>5 DEF GapOK, Beginning
    <3> QED BY <2>1, <3>1, <3>4, <3>5, <3>7, <3>8 DEF ClientOK
  <2> QED BY <2>3, <2>4
<1>14. ClientsInv'
  BY <1>0, <1>13 DEF ClientsInv
<1> QED BY <1>5, <1>11, <1>12, <1>14 DEF IInv

-----------------------------------------------------------------------------
LEMMA StepKeeps == IInv /\ [Next]_vars => IInv'
<1> SUFFICES ASSUME IInv, [Next]_vars PROVE IInv'
  OBVIOUS
<1>1. CASE Spawn
  BY <1>1, SpawnKeeps
<1>2. CASE StartReader \/ PrintLine \/ Exit \/ Restart \/ GiveUp
  BY <1>2, ProcessKeeps
<1>3. ASSUME NEW g \in Instance, Read(g) PROVE IInv'
  BY <1>3, ReadKeeps, LogKeeps DEF Read
<1>4. ASSUME NEW c \in Client, NotFound(c) \/ Snapshot(c) \/ Leave(c) \/ Serve(c) PROVE IInv'
  BY <1>4, LeaveKeeps, SnapshotKeeps, SendBacklogKeeps, SubscribeKeeps, SendLiveKeeps,
     StopKeeps DEF Serve
<1>5. CASE UNCHANGED vars
  <2>1. UNCHANGED <<latest, alive, waiter, reader, pipe, printed, held, state, client, logged>>
    BY <1>5 DEF vars
  <2>2. AppInv'
    BY <2>1 DEF IInv, AppInv
  <2>3. latest' >= latest /\ latest' \in Nat
    BY <2>1 DEF IInv, AppInv
  <2> QED BY <2>1, <2>2, <2>3, AppMoves, ReaderKept, OldKept DEF IInv
<1> QED BY <1>1, <1>2, <1>3, <1>4, <1>5 DEF Next

LEMMA Inductive == Spec => []IInv
  BY InitInv, StepKeeps, PTL DEF Spec

(* TypeOK always holds: in particular the buffer never holds more lines    *)
(* than it may, and only connections that were accepted are subscribed.    *)
THEOREM TypeCorrect == Spec => []TypeOK
  BY Inductive, InvImplies, PTL

(* NoLineTwice always holds: no client of handle_logs is sent a line       *)
(* twice, or the lines of an instance in another order.                    *)
THEOREM LinesInOrder == Spec => []NoLineTwice
  BY Inductive, InvImplies, PTL

(* LiveComplete always holds: a subscriber is sent every line that is      *)
(* logged after it subscribed, until a restart replaces the state.         *)
THEOREM SubscribersMissNothing == Spec => []LiveComplete
  BY Inductive, InvImplies, PTL

(* NothingSkipped always holds: only what is logged between the two        *)
(* acquisitions of the registry can be missing.                            *)
THEOREM OnlyTheGapIsLost == Spec => []NothingSkipped
  BY Inductive, InvImplies, PTL
=============================================================================
