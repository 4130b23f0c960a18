---------------------------- MODULE MgmtExecProofs ----------------------------
(***************************************************************************)
(* Proofs about MgmtExec, for any number of clients, of other applications *)
(* and of messages.  Two things are followed through every step: that each *)
(* reply is in one place (in the inbox as a message, on its way, in one    *)
(* client's channel or told to one client), and what an exec that nothing  *)
(* has overlapped finds in the places it shares with others.               *)
(***************************************************************************)
EXTENDS MgmtExec, SequenceTheorems, TLAPS

(* What is in a sequence, and that it is there once.                       *)
Of(s)   == {s[i] : i \in 1 .. Len(s)}
Once(s) == \A i, j \in 1 .. Len(s) : s[i] = s[j] => i = j

(* Who holds the reply o: at most one of the four places.                  *)
Unread(o)  == o \in Of(queue)
Written(o) == o \in Of(lines) \/ routing = o
Held(c, o) == chan[c] = o \/ answer[c] = o

(* A message that was sent: by a sender who has got further since.         *)
Begun(o) == o[2] <= n[o[1]]
Sent(o)  == Begun(o) /\ (o = Request(o[1]) => pc[o[1]] \notin {"install", "track", "send"})

(* A sender who is not idle has a number; other applications do not wait;  *)
(* a client's channel is empty until it is in the map; and the map does    *)
(* not hold a channel that is still to be made.                            *)
ControlInv ==
  /\ \A s \in Sender : pc[s] # "idle" => n[s] >= 1
  /\ \A c \in Client : pc[c] \in {"idle", "install"} => chan[c] = None
  /\ slot # None => Begun(slot) /\ (slot = Request(slot[1]) => pc[slot[1]] # "install")

OnePlace(o) ==
  /\ Unread(o) \/ Written(o) \/ (\E c \in Client : Held(c, o)) => Sent(o)
  /\ Unread(o) => ~Written(o)
  /\ o \in Of(lines) => routing # o
  /\ \A c \in Client : Held(c, o) => /\ ~Unread(o) /\ ~Written(o)
                                     /\ \A d \in Client : Held(d, o) => c = d

OnceInv ==
  /\ Once(queue) /\ Once(lines)
  /\ \A o \in Origin : OnePlace(o)

(* What an exec that nothing has overlapped shares with no one.            *)
AloneInv ==
  \A c \in Client : alone[c] =>
    /\ up /\ ~forget
    /\ \A s \in Sender : s # c => pc[s] = "idle"
    /\ Of(queue) \union Of(lines) \subseteq {Request(c)}
    /\ routing \in {None, Request(c)} /\ chan[c] \in {None, Request(c)}
    /\ pc[c] \in {"track", "send", "await", "clean"} => slot = Request(c)
    /\ pc[c] \in {"send", "await", "clean"} => last = "__mgmt__"
    /\ answer[c] \in {None, Request(c), <<"timeout", 0>>}

IInv == TypeOK /\ ControlInv /\ OnceInv /\ AloneInv

-------------------------------------------------------------------------------
(* Origins and sequences                                                   *)

LEMMA OriginParts ==
  ASSUME NEW o \in Origin
  PROVE  o[1] \in Sender /\ o[2] \in 1 .. MaxSend[o[1]] /\ o = <<o[1], o[2]>>
  BY DEF Origin

LEMMA IsOrigin ==
  ASSUME NEW s \in Sender, NEW k \in 1 .. MaxSend[s]
  PROVE  <<s, k>> \in Origin
  BY DEF Origin

LEMMA FailureIsNoOrigin ==
  ASSUME NEW f \in Failure
  PROVE  f \notin Origin /\ f # None
<1>1. f[2] = 0
  BY DEF Failure
<1>2. ASSUME f \in Origin PROVE FALSE
  <2>1. f[1] \in Sender /\ f[2] \in 1 .. MaxSend[f[1]]
    BY <1>2, OriginParts
  <2> QED BY <1>1, <2>1, BoundAssumption
<1> QED BY <1>2, NoneAssumption

LEMMA NoneIsNoOrigin == None \notin Origin
  BY NoneAssumption

LEMMA OfEmpty == Of(<< >>) = {} /\ Once(<< >>)
<1>1. Len(<< >>) = 0
  BY EmptySeq
<1> QED BY <1>1 DEF Of, Once

LEMMA OfAppend ==
  ASSUME NEW s \in Seq(Origin), NEW e \in Origin
  PROVE  /\ Append(s, e) \in Seq(Origin)
         /\ Of(Append(s, e)) = Of(s) \union {e}
         /\ Once(s) /\ e \notin Of(s) => Once(Append(s, e))
<1> DEFINE t == Append(s, e)
<1>1. /\ t \in Seq(Origin) /\ Len(s) \in Nat /\ Len(t) = Len(s) + 1
      /\ \A i \in 1 .. Len(s) : t[i] = s[i]
      /\ t[Len(s) + 1] = e
  BY AppendProperties, LenProperties
<1> HIDE DEF t
<1>2. Of(t) = Of(s) \union {e}
  BY <1>1 DEF Of
<1>3. ASSUME Once(s), e \notin Of(s) PROVE Once(t)
  BY <1>1, <1>3 DEF Once, Of
<1> QED BY <1>1, <1>2, <1>3 DEF t

LEMMA OfTail ==
  ASSUME NEW s \in Seq(Origin), s # << >>
  PROVE  /\ Tail(s) \in Seq(Origin) /\ Head(s) \in Origin /\ Head(s) \in Of(s)
         /\ Of(s) = Of(Tail(s)) \union {Head(s)}
         /\ Once(s) => Once(Tail(s)) /\ Head(s) \notin Of(Tail(s))
<1> DEFINE t == Tail(s)
<1>1. /\ t \in Seq(Origin) /\ Len(s) \in Nat /\ Len(s) > 0 /\ Len(t) = Len(s) - 1
      /\ \A i \in 1 .. Len(t) : t[i] = s[i + 1]
      /\ Head(s) = s[1] /\ s[1] \in Origin
  BY HeadTailProperties, LenProperties, EmptySeq, ElementOfSeq
<1> HIDE DEF t
<1>2. Head(s) \in Of(s)
  BY <1>1 DEF Of
<1>3. Of(s) = Of(t) \union {Head(s)}
  <2>1. ASSUME NEW x \in Of(s) PROVE x \in Of(t) \union {Head(s)}
    <3>1. PICK i \in 1 .. Len(s) : x = s[i]
      BY <2>1 DEF Of
    <3>2. CASE i = 1
      BY <1>1, <3>1, <3>2
    <3>3. CASE i # 1
      <4>1. i - 1 \in 1 .. Len(t) /\ t[i - 1] = s[i - 1 + 1] /\ i - 1 + 1 = i
        BY <1>1, <3>3
      <4> QED BY <3>1, <4>1 DEF Of
    <3> QED BY <3>2, <3>3
  <2>2. ASSUME NEW x \in Of(t) PROVE x \in Of(s)
    <3>1. PICK i \in 1 .. Len(t) : x = t[i]
      BY <2>2 DEF Of
    <3>2. i + 1 \in 1 .. Len(s) /\ x = s[i + 1]
      BY <1>1, <3>1
    <3> QED BY <3>2 DEF Of
  <2> QED BY <1>2, <2>1, <2>2
<1>4. ASSUME Once(s) PROVE Once(t)
  BY <1>1, <1>4 DEF Once
<1>5. ASSUME Once(s) PROVE Head(s) \notin Of(t)
  BY <1>1, <1>5 DEF Once, Of
<1> QED BY <1>1, <1>2, <1>3, <1>4, <1>5 DEF t

(* What is in an inbox of origins is an origin.                            *)
LEMMA OfSeq ==
  ASSUME NEW s \in Seq(Origin)
  PROVE  Of(s) \subseteq Origin
  BY ElementOfSeq DEF Of

(* A sender who is not idle is about a message it may send.                *)
LEMMA RequestIsOrigin ==
  ASSUME TypeOK, ControlInv, NEW s \in Sender, pc[s] # "idle"
  PROVE  Request(s) \in Origin
<1>1. n[s] \in 1 .. MaxSend[s]
  BY BoundAssumption DEF TypeOK, ControlInv
<1> QED BY <1>1, IsOrigin DEF Request

-------------------------------------------------------------------------------
LEMMA InitInv == Init => IInv
<1> SUFFICES ASSUME Init PROVE IInv
  OBVIOUS
<1>1. TypeOK
  <2>1. << >> \in Seq(Origin)
    BY EmptySeq
  <2>2. \A s \in Sender : MaxSend[s] \in Nat
    BY BoundAssumption
  <2>3. n \in [Sender -> Nat] /\ \A s \in Sender : n[s] <= MaxSend[s]
    BY <2>2 DEF Init
  <2> QED BY <2>1, <2>3 DEF Init, TypeOK
<1>2. ControlInv
  BY DEF Init, ControlInv
<1>3. OnceInv
  BY OfEmpty, NoneIsNoOrigin DEF Init, OnceInv, OnePlace, Unread, Written, Held
<1>4. AloneInv
  BY DEF Init, AloneInv
<1> QED BY <1>1, <1>2, <1>3, <1>4 DEF IInv

(* Types and control                                                       *)

LEMMA TypeStep ==
  ASSUME IInv, [Next]_vars
  PROVE  TypeOK'
<1> USE DEF IInv, TypeOK, app, router
<1>s. Client \subseteq Sender /\ Peer \subseteq Sender /\ Sender = Client \union Peer
  BY DEF Sender
<1>1. ASSUME NEW c \in Client, Exec(c) PROVE TypeOK'
  <2>1. n' \in [Sender -> Nat] /\ \A s \in Sender : n'[s] <= MaxSend[s]
    <3>1. n[c] < MaxSend[c] /\ n' = [n EXCEPT ![c] = n[c] + 1] /\ c \in Sender
      BY <1>1, <1>s DEF Exec, Begin
    <3>2. \A s \in Sender : MaxSend[s] \in Nat
      BY BoundAssumption
    <3> HIDE DEF IInv
    <3> QED BY <3>1, <3>2 DEF IInv
  <2>2. alone' \in [Client -> BOOLEAN]
    <3>1. Quiet \in BOOLEAN
      BY DEF Quiet
    <3>2. NobodyAlone \in [Client -> BOOLEAN]
      BY DEF NobodyAlone
    <3> QED BY <1>1, <3>1, <3>2, Zenon DEF Exec
  <2>3. pc' = [pc EXCEPT ![c] = "install"] /\ answer' = [answer EXCEPT ![c] = None]
        /\ UNCHANGED <<verb, up, forget, queue, lines, routing, slot, last, chan>>
    BY <1>1 DEF Exec, Begin
  <2> QED BY <2>1, <2>2, <2>3, <1>s
<1>2. ASSUME NEW p \in Peer, PeerMessage(p) PROVE TypeOK'
  BY <1>2, <1>s, BoundAssumption DEF PeerMessage, Begin, NobodyAlone
<1>3. ASSUME NEW c \in Client, Install(c) PROVE TypeOK'
  BY <1>3, <1>s, RequestIsOrigin DEF Install
<1>4. ASSUME NEW s \in Sender, Track(s) PROVE TypeOK'
  BY <1>4, <1>s DEF Track
<1>5. ASSUME NEW s \in Sender, Send(s) PROVE TypeOK'
  <2>1. Append(queue, Request(s)) \in Seq(Origin)
    BY <1>5, RequestIsOrigin, OfAppend DEF Send
  <2> QED BY <1>5, <2>1, <1>s DEF Send
<1>6. ASSUME NEW s \in Sender, SendFails(s) PROVE TypeOK'
  BY <1>6, <1>s DEF SendFails, Failure
<1>7. ASSUME NEW c \in Client, NEW what \in Origin \union Failure, Told(c, what) PROVE TypeOK'
  BY <1>7, <1>s DEF Told
<1>8. ASSUME NEW c \in Client, Receive(c) \/ Timeout(c) \/ Disconnected(c) PROVE TypeOK'
  <2>1. chan[c] \in Origin \union {None}
    OBVIOUS
  <2>2. <<"timeout", 0>> \in Failure /\ <<"internal", 0>> \in Failure
    BY DEF Failure
  <2> HIDE DEF TypeOK
  <2> QED BY <1>7, <1>8, <2>1, <2>2 DEF Receive, Timeout, Disconnected
<1>9. ASSUME NEW c \in Client, CleanUp(c) PROVE TypeOK'
  BY <1>9, <1>s DEF CleanUp
<1>10. CASE Answer \/ Ignore
  <2>1. Tail(queue) \in Seq(Origin) /\ Append(lines, Head(queue)) \in Seq(Origin)
    BY <1>10, OfTail, OfAppend DEF Answer, Ignore
  <2> QED BY <1>10, <2>1 DEF Answer, Ignore
<1>11. CASE RouteReply \/ RouteMgmt \/ RouteToMgmt
  <2>1. lines # << >> => Tail(lines) \in Seq(Origin) /\ Head(lines) \in Origin
    BY OfTail
  <2>2. ASSUME NEW o \in Origin PROVE Delivered(o) \in [Client -> Origin \union {None}]
    BY <2>2 DEF Delivered
  <2>3. CASE RouteReply
    BY <2>1, <2>3 DEF RouteReply
  <2>4. CASE RouteMgmt
    BY <2>1, <2>2, <2>4 DEF RouteMgmt
  <2>5. CASE RouteToMgmt
    BY <2>2, <2>5 DEF RouteToMgmt
  <2> QED BY <1>11, <2>3, <2>4, <2>5
<1>12. CASE Die \/ Forget \/ Start
  BY <1>12, EmptySeq DEF Die, Forget, Start, NobodyAlone
<1>13. CASE UNCHANGED vars
  BY <1>13 DEF vars
<1> HIDE DEF IInv, TypeOK, app, router
<1> QED
  BY <1>1, <1>2, <1>3, <1>4, <1>5, <1>6, <1>8, <1>9, <1>10, <1>11, <1>12, <1>13, <1>s
     DEF Next, ClientStep

LEMMA ControlStep ==
  ASSUME IInv, [Next]_vars
  PROVE  ControlInv'
<1> USE DEF IInv, TypeOK, app, router, ControlInv, Begun, Request
<1>s. Client \subseteq Sender /\ Peer \subseteq Sender /\ Sender = Client \union Peer
  BY DEF Sender
<1>o. slot # None => slot[1] \in Sender /\ slot[2] \in Nat
  BY OriginParts, BoundAssumption
<1>1. ASSUME NEW c \in Client, Exec(c) PROVE ControlInv'
  BY <1>1, <1>s, <1>o DEF Exec, Begin
<1>2. ASSUME NEW p \in Peer, PeerMessage(p) PROVE ControlInv'
  BY <1>2, <1>s, <1>o DEF PeerMessage, Begin
<1>3. ASSUME NEW c \in Client, Install(c) PROVE ControlInv'
  BY <1>3, <1>s, <1>o DEF Install
<1>4. ASSUME NEW s \in Sender, Track(s) PROVE ControlInv'
  BY <1>4, <1>s, <1>o DEF Track
<1>5. ASSUME NEW s \in Sender, Send(s) PROVE ControlInv'
  BY <1>5, <1>s, <1>o DEF Send
<1>6. ASSUME NEW s \in Sender, SendFails(s) PROVE ControlInv'
  BY <1>6, <1>s, <1>o DEF SendFails
<1>7. ASSUME NEW c \in Client, Receive(c) \/ Timeout(c) \/ Disconnected(c) PROVE ControlInv'
  BY <1>7, <1>s, <1>o DEF Receive, Timeout, Disconnected, Told
<1>8. ASSUME NEW c \in Client, CleanUp(c) PROVE ControlInv'
  BY <1>8, <1>s DEF CleanUp
<1>9. CASE Answer \/ Ignore \/ RouteReply
  BY <1>9 DEF Answer, Ignore, RouteReply
<1>10. ASSUME NEW o, chan' = Delivered(o), UNCHANGED <<pc, n, slot>> PROVE ControlInv'
  <2>1. ASSUME NEW c \in Client, pc[c] = "install" PROVE slot # Request(c)
    <3>1. Request(c) # None /\ Request(c)[1] = c
      BY <2>1, <1>s, RequestIsOrigin, NoneIsNoOrigin
    <3> QED BY <2>1, <3>1
  <2>2. \A c \in Client : pc[c] \in {"idle", "install"} => chan'[c] = None
    BY <1>10, <2>1 DEF Delivered
  <2> QED BY <1>10, <2>2
<1>11. CASE RouteMgmt \/ RouteToMgmt
  BY <1>10, <1>11 DEF RouteMgmt, RouteToMgmt
<1>12. CASE Die \/ Forget \/ Start
  BY <1>12 DEF Die, Forget, Start
<1>13. CASE UNCHANGED vars
  BY <1>13 DEF vars
<1> HIDE DEF IInv, TypeOK, app, router, ControlInv, Begun, Request
<1> QED
  BY <1>1, <1>2, <1>3, <1>4, <1>5, <1>6, <1>7, <1>8, <1>9, <1>11, <1>12, <1>13, <1>s
     DEF Next, ClientStep

-------------------------------------------------------------------------------
(* Each reply is in one place                                              *)

(* What has been sent stays so: a new message has a new number.            *)
LEMMA SentStep ==
  ASSUME IInv, [Next]_vars, NEW o \in Origin, Sent(o)
  PROVE  Sent(o)'
<1> USE DEF Sent, Begun, Request
<1>t. n \in [Sender -> Nat] /\ pc \in [Sender -> {"idle", "install", "track", "send", "await", "clean"}]
  BY DEF IInv, TypeOK
<1>o. o[1] \in Sender /\ o[2] \in Nat
  BY OriginParts, BoundAssumption
<1>s. Client \subseteq Sender /\ Peer \subseteq Sender
  BY DEF Sender
<1>1. ASSUME NEW s \in Sender, NEW next, Begin(s, next) PROVE Sent(o)'
  BY <1>1, <1>t, <1>o DEF Begin
<1>2. ASSUME NEW s \in Sender, NEW p, pc' = [pc EXCEPT ![s] = p], n' = n,
             p \in {"install", "track", "send"} => pc[s] \in {"install", "track", "send"}
      PROVE  Sent(o)'
  BY <1>2, <1>t, <1>o
<1>3. ASSUME UNCHANGED <<pc, n>> PROVE Sent(o)'
  BY <1>3
<1>4. ASSUME NEW c \in Client, Exec(c) \/ ClientStep(c) PROVE Sent(o)'
  BY <1>1, <1>2, <1>4, <1>s
     DEF Exec, ClientStep, Install, Track, Send, SendFails, Receive, Timeout, Disconnected, Told, CleanUp
<1>5. ASSUME NEW p \in Peer, PeerMessage(p) \/ Track(p) \/ Send(p) \/ SendFails(p) PROVE Sent(o)'
  BY <1>1, <1>2, <1>5, <1>s DEF PeerMessage, Track, Send, SendFails
<1>6. CASE Answer \/ Ignore \/ RouteReply \/ RouteToMgmt \/ RouteMgmt \/ Die \/ Forget \/ Start
  BY <1>3, <1>6 DEF Answer, Ignore, RouteReply, RouteToMgmt, RouteMgmt, Die, Forget, Start
<1>7. CASE UNCHANGED vars
  BY <1>3, <1>7 DEF vars
<1> QED BY <1>4, <1>5, <1>6, <1>7 DEF Next

LEMMA OnceStep ==
  ASSUME IInv, [Next]_vars
  PROVE  OnceInv'
<1>t. /\ queue \in Seq(Origin) /\ lines \in Seq(Origin)
      /\ routing \in Origin \union {None}
      /\ chan \in [Client -> Origin \union {None}]
      /\ answer \in [Client -> Origin \union Failure \union {None}]
      /\ pc \in [Sender -> {"idle", "install", "track", "send", "await", "clean"}]
      /\ Once(queue) /\ Once(lines)
  BY DEF IInv, TypeOK, OnceInv
<1>p. \A o \in Origin : OnePlace(o)
  BY DEF IInv, OnceInv
<1>n. None \notin Origin /\ \A f \in Failure : f \notin Origin
  BY NoneIsNoOrigin, FailureIsNoOrigin
<1>e. \A o \in Origin : Sent(o) => Sent(o)'
  BY SentStep
<1>s. Client \subseteq Sender /\ Peer \subseteq Sender
  BY DEF Sender
(* Nothing moves: every place keeps what it has, or loses it. *)
<1>1. ASSUME Of(queue') \subseteq Of(queue), Once(queue'), UNCHANGED <<lines, routing>>,
             \A c \in Client, o \in Origin : Held(c, o)' => Held(c, o)
      PROVE  OnceInv'
  <2>1. ASSUME NEW o \in Origin PROVE OnePlace(o)'
    BY <1>1, <1>p, <1>e DEF OnePlace, Unread, Written
  <2> QED BY <1>1, <1>t, <2>1 DEF OnceInv
<1>2. ASSUME NEW s \in Sender, Send(s) PROVE OnceInv'
  <2>1. CASE up
    <3> DEFINE r == Request(s)
    <3>1. r \in Origin /\ r[1] = s /\ ~Sent(r)
      BY <1>2, RequestIsOrigin DEF IInv, Send, Request, Sent
    <3>2. ~Unread(r) /\ ~Written(r) /\ \A c \in Client : ~Held(c, r)
      BY <1>p, <3>1 DEF OnePlace
    <3>3. queue' = Append(queue, r) /\ Of(queue') = Of(queue) \union {r} /\ Once(queue')
      BY <1>2, <1>t, <2>1, <3>1, <3>2, OfAppend DEF Send, Unread
    <3>4. ASSUME NEW o \in Origin, o = r PROVE Sent(o)'
      BY <3>4, <1>2, <1>t, <3>1, BoundAssumption DEF Send, Sent, Begun, Request, IInv, TypeOK
    <3>5. UNCHANGED <<lines, routing, chan, answer>>
      BY <1>2 DEF Send, router
    <3> HIDE DEF r
    <3>6. ASSUME NEW o \in Origin PROVE OnePlace(o)'
      <4>1. /\ Unread(o)' <=> Unread(o) \/ o = r
            /\ Written(o)' <=> Written(o)
            /\ \A c \in Client : Held(c, o)' <=> Held(c, o)
            /\ o \in Of(lines)' <=> o \in Of(lines)
        BY <3>3, <3>5 DEF Unread, Written, Held
      <4>2. CASE o = r
        <5>1. /\ ~Unread(o) /\ ~Written(o) /\ o \notin Of(lines)
              /\ \A c \in Client : ~Held(c, o)
          BY <3>2, <4>2 DEF Unread, Written, Held
        <5> QED BY <3>4, <4>1, <4>2, <5>1 DEF OnePlace
      <4>3. CASE o # r
        BY <1>p, <1>e, <4>1, <4>3, <3>5 DEF OnePlace
      <4> QED BY <4>2, <4>3
    <3> QED BY <1>t, <3>3, <3>5, <3>6 DEF OnceInv
  <2>2. CASE ~up
    BY <1>1, <1>2, <1>t, <2>2 DEF Send, router, Held
  <2> QED BY <2>1, <2>2
(* A client is told what its channel holds, or that something failed. *)
<1>3. ASSUME NEW c \in Client, NEW what \in {chan[c]} \union Failure, Told(c, what)
      PROVE  OnceInv'
  <2>1. ASSUME NEW d \in Client, NEW o \in Origin, Held(d, o)' PROVE Held(d, o)
    BY <1>3, <1>t, <1>n, <2>1 DEF Told, Held
  <2> QED BY <1>1, <1>3, <1>t, <2>1 DEF Told, app, router
<1>4. ASSUME NEW c \in Client, Receive(c) \/ Timeout(c) \/ Disconnected(c) PROVE OnceInv'
  <2>1. <<"timeout", 0>> \in Failure /\ <<"internal", 0>> \in Failure
    BY DEF Failure
  <2> QED BY <1>3, <1>4, <2>1 DEF Receive, Timeout, Disconnected
<1>5. ASSUME NEW s \in Sender, SendFails(s) PROVE OnceInv'
  <2>1. <<"not_found", 0>> \in Failure
    BY DEF Failure
  <2>2. ASSUME NEW d \in Client, NEW o \in Origin, Held(d, o)' PROVE Held(d, o)
    BY <1>5, <1>n, <2>1, <2>2 DEF SendFails, Held
  <2> QED BY <1>1, <1>5, <1>t, <2>2 DEF SendFails, app, router
<1>6. ASSUME NEW c \in Client, Exec(c) PROVE OnceInv'
  <2>1. ASSUME NEW d \in Client, NEW o \in Origin, Held(d, o)' PROVE Held(d, o)
    BY <1>6, <1>t, <1>n, <2>1 DEF Exec, Begin, Held
  <2> QED BY <1>1, <1>6, <1>t, <2>1 DEF Exec, Begin, app, router
<1>7. ASSUME NEW c \in Client, CleanUp(c) PROVE OnceInv'
  <2>1. ASSUME NEW d \in Client, NEW o \in Origin, Held(d, o)' PROVE Held(d, o)
    BY <1>7, <1>t, <1>n, <2>1 DEF CleanUp, Held
  <2> QED BY <1>1, <1>7, <1>t, <2>1 DEF CleanUp, app, router
<1>8. ASSUME UNCHANGED <<queue, lines, routing, chan, answer>> PROVE OnceInv'
  BY <1>1, <1>8, <1>t DEF Held
<1>9. CASE Die
  <2>1. Of(queue') = {} /\ Once(queue')
    BY <1>9, OfEmpty DEF Die
  <2> QED BY <1>1, <1>9, <2>1 DEF Die, router, Held
<1>10. CASE Answer
  <2> DEFINE h == Head(queue)
  <2>1. /\ h \in Origin /\ Of(queue) = Of(queue') \union {h}
        /\ h \in Of(queue) /\ h \notin Of(queue') /\ Once(queue')
    BY <1>10, <1>t, OfTail DEF Answer
  <2>2. ~Written(h) /\ \A c \in Client : ~Held(c, h)
    BY <1>p, <2>1 DEF OnePlace, Unread
  <2>3. Of(lines') = Of(lines) \union {h} /\ Once(lines')
    BY <1>10, <1>t, <2>1, <2>2, OfAppend DEF Answer, Written
  <2>4. UNCHANGED <<routing, chan, answer>>
    BY <1>10 DEF Answer
  <2> HIDE DEF h
  <2>5. ASSUME NEW o \in Origin PROVE OnePlace(o)'
    BY <1>p, <1>e, <2>1, <2>2, <2>3, <2>4 DEF OnePlace, Unread, Written, Held
  <2> QED BY <2>1, <2>3, <2>5 DEF OnceInv
<1>11. CASE Ignore
  <2>1. Of(queue') \subseteq Of(queue) /\ Once(queue')
    BY <1>11, <1>t, OfTail DEF Ignore
  <2> QED BY <1>1, <1>11, <2>1 DEF Ignore, router, Held
(* A line leaves lines for routing, or for nowhere. *)
<1>12. CASE RouteReply
  <2> DEFINE h == Head(lines)
  <2>1. /\ h \in Origin /\ Of(lines) = Of(lines') \union {h}
        /\ h \notin Of(lines') /\ Once(lines')
    BY <1>12, <1>t, OfTail DEF RouteReply
  <2>2. routing = None /\ routing' \in {h, None} /\ UNCHANGED <<queue, chan, answer>>
    BY <1>12 DEF RouteReply, app
  <2> HIDE DEF h
  <2>3. ASSUME NEW o \in Origin PROVE OnePlace(o)'
    BY <1>n, <1>p, <1>e, <2>1, <2>2 DEF OnePlace, Unread, Written, Held
  <2> QED BY <1>t, <2>1, <2>2, <2>3 DEF OnceInv
(* A line that is given to the channel in the map is given to one client. *)
<1>13. ASSUME NEW h \in Origin, Written(h), ~Written(h)', chan' = Delivered(h), Once(lines'),
              \A o \in Origin : Written(o)' => Written(o),
              Of(lines') \subseteq Of(lines), routing' \in {routing, None},
              UNCHANGED <<queue, slot, pc, n, answer>>
       PROVE  OnceInv'
  <2>1. ~Unread(h) /\ (\A c \in Client : ~Held(c, h)) /\ Sent(h)
    BY <1>13, <1>p DEF OnePlace
  <2>2. ASSUME NEW c \in Client, NEW o \in Origin, Held(c, o)'
        PROVE  Held(c, o) \/ (o = h /\ slot = Request(c))
    BY <1>13, <2>2 DEF Held, Delivered
  <2>3. ASSUME NEW c \in Client, NEW d \in Client, slot = Request(c), slot = Request(d) PROVE c = d
    BY <2>3 DEF Request
  <2>4. ASSUME NEW o \in Origin PROVE OnePlace(o)'
    <3>1. Unread(o)' <=> Unread(o)
      BY <1>13 DEF Unread
    <3>2. o \in Of(lines') => routing' # o
      BY <1>13, <1>n, <1>p DEF OnePlace
    <3>3. Unread(o)' \/ Written(o)' \/ (\E c \in Client : Held(c, o)') => Sent(o)'
      BY <1>13, <1>p, <1>e, <2>1, <2>2, <3>1 DEF OnePlace
    <3>4. ASSUME NEW c \in Client, Held(c, o)' PROVE ~Unread(o)' /\ ~Written(o)'
      BY <1>13, <1>p, <2>1, <2>2, <3>1, <3>4 DEF OnePlace
    <3>5. ASSUME NEW c \in Client, NEW d \in Client, Held(c, o)', Held(d, o)' PROVE c = d
      BY <1>p, <2>1, <2>2, <2>3, <3>5 DEF OnePlace
    <3>6. Unread(o)' => ~Written(o)'
      BY <1>13, <1>p, <3>1 DEF OnePlace
    <3> QED BY <3>2, <3>3, <3>4, <3>5, <3>6 DEF OnePlace
  <2> QED BY <1>13, <1>t, <2>4 DEF OnceInv
<1>14. CASE RouteMgmt
  <2>1. /\ Head(lines) \in Origin /\ Of(lines) = Of(lines') \union {Head(lines)}
        /\ Head(lines) \in Of(lines) /\ Head(lines) \notin Of(lines') /\ Once(lines')
    BY <1>14, <1>t, OfTail DEF RouteMgmt
  <2>2. routing = None /\ UNCHANGED <<routing, queue, slot, pc, n, answer>>
        /\ chan' = Delivered(Head(lines))
    BY <1>14 DEF RouteMgmt, app
  <2>3. Written(Head(lines)) /\ ~(Head(lines) \in Of(lines') \/ routing' = Head(lines))
    BY <1>n, <2>1, <2>2 DEF Written
  <2>4. \A o \in Origin : Written(o)' => Written(o)
    BY <2>1, <2>2 DEF Written
  <2> DEFINE h == Head(lines)
  <2>5. h \in Origin /\ Written(h) /\ chan' = Delivered(h) /\ ~(h \in Of(lines') \/ routing' = h)
    BY <2>1, <2>2, <2>3
  <2> HIDE DEF h
  <2> QED
    <3>1. PICK g \in Origin : Written(g) /\ chan' = Delivered(g) /\ ~Written(g)'
      BY <2>5 DEF Written
    <3> QED BY <1>13, <2>1, <2>2, <2>4, <3>1
<1>15. CASE RouteToMgmt
  <2>1. /\ routing \in Origin /\ routing' = None /\ chan' = Delivered(routing)
        /\ UNCHANGED <<lines, queue, slot, pc, n, answer>>
    BY <1>15, <1>t DEF RouteToMgmt, app
  <2>2. PICK h \in Origin : routing = h
    BY <2>1
  <2>3. routing \notin Of(lines)
    BY <1>p, <2>1 DEF OnePlace
  <2>4. Written(h) /\ ~Written(h)' /\ \A o \in Origin : Written(o)' => Written(o)
    BY <1>n, <2>1, <2>2, <2>3 DEF Written
  <2>5. chan' = Delivered(h) /\ Once(lines') /\ Of(lines') \subseteq Of(lines)
    BY <1>t, <2>1, <2>2
  <2> QED BY <1>13, <2>1, <2>4, <2>5
<1>16. ASSUME NEW c \in Client, Exec(c) \/ ClientStep(c) PROVE OnceInv'
  <2>1. CASE Install(c) \/ Track(c)
    BY <1>8, <2>1 DEF Install, Track, app, router
  <2> QED BY <1>2, <1>4, <1>5, <1>6, <1>7, <1>16, <1>s, <2>1 DEF ClientStep
<1>17. ASSUME NEW p \in Peer, PeerMessage(p) \/ Track(p) \/ Send(p) \/ SendFails(p) PROVE OnceInv'
  <2>1. CASE PeerMessage(p) \/ Track(p)
    BY <1>8, <2>1 DEF PeerMessage, Begin, Track, app, router
  <2> QED BY <1>2, <1>5, <1>17, <1>s, <2>1
<1>18. CASE Forget \/ Start \/ UNCHANGED vars
  BY <1>8, <1>18 DEF Forget, Start, vars, router
<1> QED BY <1>9, <1>10, <1>11, <1>12, <1>14, <1>15, <1>16, <1>17, <1>18 DEF Next

-------------------------------------------------------------------------------
(* An exec that nothing has overlapped                                     *)

LEMMA AloneStep ==
  ASSUME IInv, [Next]_vars
  PROVE  AloneInv'
<1> USE DEF app, router, Request
<1>t. /\ queue \in Seq(Origin) /\ lines \in Seq(Origin)
      /\ routing \in Origin \union {None}
      /\ pc \in [Sender -> {"idle", "install", "track", "send", "await", "clean"}]
      /\ n \in [Sender -> Nat]
      /\ chan \in [Client -> Origin \union {None}]
      /\ answer \in [Client -> Origin \union Failure \union {None}]
      /\ alone \in [Client -> BOOLEAN]
  BY DEF IInv, TypeOK
<1>a. AloneInv
  BY DEF IInv
<1>s. Client \subseteq Sender /\ Peer \subseteq Sender /\ Client \intersect Peer = {}
  BY SenderAssumption DEF Sender
<1>n. None \notin Origin
  BY NoneIsNoOrigin
(* The step of another sender takes an exec out of what is alone. *)
<1>i. ASSUME NEW s \in Sender, pc[s] # "idle", NEW d \in Client, d # s PROVE ~alone[d]
  BY <1>a, <1>i DEF AloneInv
<1>1. ASSUME NEW c \in Client, Exec(c) PROVE AloneInv'
  <2>1. ASSUME NEW d \in Client, alone'[d] PROVE d = c /\ Quiet
    BY <1>1, <2>1 DEF Exec, NobodyAlone
  <2>2. ASSUME Quiet PROVE chan[c] = None
    BY <1>s, <2>2 DEF Quiet, IInv, ControlInv
  <2>3. ASSUME Quiet PROVE Of(queue) = {} /\ Of(lines) = {}
    BY <2>3, OfEmpty DEF Quiet
  <2>4. /\ pc' = [pc EXCEPT ![c] = "install"] /\ answer' = [answer EXCEPT ![c] = None]
        /\ UNCHANGED <<up, forget, queue, lines, routing, chan>>
    BY <1>1 DEF Exec, Begin
  <2>5. ASSUME NEW d \in Client, alone'[d] PROVE d = c /\ up /\ ~forget /\ routing = None
        /\ chan[c] = None /\ Of(queue) = {} /\ Of(lines) = {}
        /\ \A s \in Sender : pc[s] = "idle"
    BY <2>1, <2>2, <2>3, <2>5 DEF Quiet
  <2> QED BY <1>t, <1>s, <2>4, <2>5 DEF AloneInv
<1>2. ASSUME NEW c \in Client, Install(c) PROVE AloneInv'
  BY <1>2, <1>t, <1>a, <1>i, <1>s DEF Install, AloneInv
<1>3. ASSUME NEW s \in Sender, Track(s) PROVE AloneInv'
  BY <1>3, <1>t, <1>a, <1>i, <1>s DEF Track, AloneInv
<1>4. ASSUME NEW s \in Sender, Send(s) PROVE AloneInv'
  <2>1. Request(s) \in Origin
    BY <1>4, RequestIsOrigin DEF IInv, Send
  <2>2. Of(queue') \subseteq Of(queue) \union {Request(s)}
    BY <1>4, <1>t, <2>1, OfAppend DEF Send
  <2> QED BY <1>4, <1>t, <1>a, <1>i, <1>s, <2>2 DEF Send, AloneInv
<1>5. ASSUME NEW s \in Sender, SendFails(s) PROVE AloneInv'
  <2>1. \A d \in Client : ~alone[d]
    BY <1>5, <1>a DEF SendFails, AloneInv
  <2> QED BY <1>5, <2>1 DEF SendFails, AloneInv
<1>6. ASSUME NEW c \in Client, NEW what, Told(c, what),
             alone[c] => what \in {Request(c), <<"timeout", 0>>}
      PROVE  AloneInv'
  BY <1>6, <1>t, <1>a, <1>i, <1>s DEF Told, AloneInv
<1>7. ASSUME NEW c \in Client, Receive(c) PROVE AloneInv'
  BY <1>6, <1>7, <1>a DEF Receive, AloneInv
<1>8. ASSUME NEW c \in Client, Timeout(c) PROVE AloneInv'
  BY <1>6, <1>8 DEF Timeout
<1>9. ASSUME NEW c \in Client, Disconnected(c) PROVE AloneInv'
  <2>1. ~alone[c]
    BY <1>9, <1>a DEF Disconnected, Told, AloneInv
  <2> QED BY <1>6, <1>9, <2>1 DEF Disconnected
<1>10. ASSUME NEW c \in Client, CleanUp(c) PROVE AloneInv'
  BY <1>10, <1>t, <1>a, <1>i, <1>s DEF CleanUp, AloneInv
<1>11. ASSUME NEW p \in Peer, PeerMessage(p) PROVE AloneInv'
  BY <1>11 DEF PeerMessage, NobodyAlone, AloneInv
<1>12. CASE Answer
  <2>1. Of(lines') = Of(lines) \union {Head(queue)} /\ Of(queue) = Of(queue') \union {Head(queue)}
    BY <1>12, <1>t, OfTail, OfAppend DEF Answer
  <2>2. UNCHANGED <<up, forget, routing, slot, last, pc, n, chan, answer, alone>>
    BY <1>12 DEF Answer
  <2> QED BY <1>a, <2>1, <2>2 DEF AloneInv
<1>13. CASE Ignore
  <2>1. Of(queue') \subseteq Of(queue)
    BY <1>13, <1>t, OfTail DEF Ignore
  <2> QED BY <1>13, <1>a, <2>1 DEF Ignore, AloneInv
<1>14. CASE RouteReply
  <2>1. Of(lines') \subseteq Of(lines) /\ Head(lines) \in Of(lines)
    BY <1>14, <1>t, OfTail DEF RouteReply
  <2> QED BY <1>14, <1>a, <2>1 DEF RouteReply, AloneInv
<1>15. ASSUME NEW h, chan' = Delivered(h), \A c \in Client : alone[c] => h = Request(c),
              Of(lines') \subseteq Of(lines), routing' \in {routing, None},
              UNCHANGED <<app, slot, last, pc, n, answer, alone>>
       PROVE  AloneInv'
  <2>1. \A c \in Client : alone[c] => chan'[c] \in {None, Request(c)}
    BY <1>15, <1>a DEF AloneInv, Delivered
  <2> QED BY <1>15, <1>a, <2>1 DEF AloneInv
<1>16. CASE RouteMgmt
  <2>1. Of(lines') \subseteq Of(lines) /\ Head(lines) \in Of(lines)
    BY <1>16, <1>t, OfTail DEF RouteMgmt
  <2>2. \A c \in Client : alone[c] => Head(lines) = Request(c)
    BY <1>a, <2>1 DEF AloneInv
  <2> QED BY <1>15, <1>16, <2>1, <2>2 DEF RouteMgmt
<1>17. CASE RouteToMgmt
  <2>1. \A c \in Client : alone[c] => routing = Request(c)
    BY <1>17, <1>a DEF RouteToMgmt, AloneInv
  <2> QED BY <1>15, <1>17, <2>1 DEF RouteToMgmt
<1>18. CASE Die
  BY <1>18 DEF Die, NobodyAlone, AloneInv
<1>19. CASE Forget \/ Start
  BY <1>19, <1>a DEF Forget, Start, AloneInv
<1>20. CASE UNCHANGED vars
  BY <1>20, <1>a DEF vars, AloneInv
<1> HIDE DEF app, router, Request
<1> QED
  BY <1>1, <1>2, <1>3, <1>4, <1>5, <1>7, <1>8, <1>9, <1>10, <1>11, <1>12, <1>13, <1>14,
     <1>16, <1>17, <1>18, <1>19, <1>20, <1>s DEF Next, ClientStep

LEMMA NextInv == IInv /\ [Next]_vars => IInv'
  BY TypeStep, ControlStep, OnceStep, AloneStep DEF IInv

LEMMA InvHolds == Spec => []IInv
  BY InitInv, NextInv, PTL DEF Spec

-------------------------------------------------------------------------------
(* Every map, inbox and channel holds what its type says it does.          *)
THEOREM TypeCorrect == Spec => []TypeOK
<1>1. IInv => TypeOK
  BY DEF IInv
<1> QED BY InvHolds, <1>1, PTL

(* The client of an exec that nothing overlaps is told the application's   *)
(* reply to its own message, or that none came in time (handle_exec); it   *)
(* is not told an earlier reply, or that the channel was lost.             *)
THEOREM AloneIsAnswered == Spec => []AloneGetsOwnReply
<1>1. IInv => AloneGetsOwnReply
  BY DEF IInv, AloneInv, AloneGetsOwnReply
<1> QED BY InvHolds, <1>1, PTL

(* While that client waits, both of the words with which an application    *)
(* may answer (route_or_print) lead to its channel.                        *)
THEOREM AloneIsOnTheMap == Spec => []AloneIsReachable
<1>1. IInv => AloneIsReachable
  BY DEF IInv, AloneInv, AloneIsReachable
<1> QED BY InvHolds, <1>1, PTL

(* However execs overlap, whichever channel each reply reaches: no two     *)
(* clients are told the same one.                                          *)
THEOREM RepliesGoToOne == Spec => []ReplyGoesToOne
<1>1. IInv => ReplyGoesToOne
  BY DEF IInv, OnceInv, OnePlace, Held, ReplyGoesToOne
<1> QED BY InvHolds, <1>1, PTL
===============================================================================
