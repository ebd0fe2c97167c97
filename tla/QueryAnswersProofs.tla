------------------------- MODULE QueryAnswersProofs -------------------------
(***************************************************************************)
(* A peer gets the answers to its queries in their order, for any number   *)
(* of connections, queries and failures.                                   *)
(***************************************************************************)
EXTENDS IntraMeshQueryClientProofs

----------------------------------------------------------------------------
(* The inductive invariant, of a connection with record c, queued handlers *)
(* E, answers g received and messages n sent by its peer.                  *)

EventsOf(q, x) == {e \in Events : e.client = x /\ \E i \in 1..Len(q) : q[i] = e}

HasAnswer(ms, id) == \E i \in 1..Len(ms) : IsAnswer(ms[i]) /\ ms[i].id = id

ReadOf(E, id) == \E e \in E : e.run = "read" /\ e.res = id

\* The connection will close when the handler runs, and gets no answer out
\* before.
Failing(E) ==
  \E e \in E : /\ e.res = "fail"
               /\ e.run = "read" \/ (e.run = "send" /\ IsAnswer(e.msg))

\* A message for id that was read and whose answer is not with the peer.
Unanswered(c, E, id) ==
  HasAnswer(c.pendingSends, id) \/ HasAnswer(c.sending, id) \/ ReadOf(E, id)

\* All but o of the messages that got no answer have yet to be read.
Unread(c, g, n, o) ==
  /\ Len(n) = Len(g) + o + Len(c.inbox)
  /\ \A i \in 1..Len(c.inbox) : c.inbox[i] = n[Len(g) + o + i]

InStep(c, E, g, n) ==
  \/ Unread(c, g, n, 0) /\ \A id \in Results : ~Unanswered(c, E, id)
  \/ /\ Unread(c, g, n, 1) /\ \E id \in Results : Unanswered(c, E, id)
     /\ \A id \in Results : Unanswered(c, E, id) => id = n[Len(g) + 1]

Answered(g, n) == Len(g) <= Len(n) /\ \A i \in 1..Len(g) : g[i].id = n[i]

\* Nothing is outstanding on a closed socket.
Quiet(c) == ~c.open => ~c.reading /\ c.sending = <<>>

Ordered(c, E, g, n) ==
  /\ Quiet(c)
  /\ ~c.torn => Answered(g, n)
  /\ ~c.torn /\ c.open /\ ~Failing(E) => InStep(c, E, g, n)

OrderInv ==
  /\ got \in [Clients -> Seq(Messages)] /\ sent \in [Clients -> Seq(Results)]
  /\ \A x \in Clients : Ordered(client[x], EventsOf(io, x), got[x], sent[x])

----------------------------------------------------------------------------
(* Queues of handlers and of messages.                                     *)

\* A queued handler is one more of its connection; the one in front was one.
LEMMA EventsChange ==
  ASSUME NEW q \in Seq(Events), NEW x
  PROVE  /\ \A e \in Events : EventsOf(Append(q, e), x)
                                = EventsOf(q, x) \cup (IF e.client = x THEN {e} ELSE {})
         /\ q # <<>> => EventsOf(q, x) = EventsOf(Tail(q), x)
                          \cup (IF Head(q).client = x THEN {Head(q)} ELSE {})
<1>1. ASSUME NEW e \in Events
      PROVE  EventsOf(Append(q, e), x)
               = EventsOf(q, x) \cup (IF e.client = x THEN {e} ELSE {})
  <2> DEFINE p == Append(q, e)
  <2>1. /\ Len(p) = Len(q) + 1 /\ Len(q) \in Nat
        /\ \A i \in 1..Len(q) : p[i] = q[i]
        /\ p[Len(q) + 1] = e
    OBVIOUS
  <2>2. 1..Len(p) = 1..Len(q) \cup {Len(q) + 1}
    BY <2>1
  <2> HIDE DEF p
  <2>3. \A d : (\E i \in 1..Len(p) : p[i] = d)
                 <=> d = e \/ \E i \in 1..Len(q) : q[i] = d
    BY <2>1, <2>2
  <2>4. EventsOf(p, x) = EventsOf(q, x) \cup (IF e.client = x THEN {e} ELSE {})
    BY <2>3, ZenonT(30) DEF EventsOf
  <2>5. QED
    BY <2>4 DEF p
<1>2. ASSUME q # <<>>
      PROVE  EventsOf(q, x) = EventsOf(Tail(q), x)
                                \cup (IF Head(q).client = x THEN {Head(q)} ELSE {})
  <2> DEFINE p == Tail(q)
  <2>1. /\ Len(q) \in Nat \ {0} /\ Len(p) = Len(q) - 1 /\ Head(q) = q[1]
        /\ Head(q) \in Events /\ \A i \in 1..Len(p) : p[i] = q[i + 1]
    BY <1>2
  <2>2. /\ \A i \in 1..Len(p) : i + 1 \in 1..Len(q)
        /\ 1 \in 1..Len(q)
    BY <2>1
  <2>3. \A j \in 1..Len(q) : j = 1 \/ \E i \in 1..Len(p) : i + 1 = j
    <3> SUFFICES ASSUME NEW j \in 1..Len(q), j # 1
                 PROVE  j - 1 \in 1..Len(p) /\ (j - 1) + 1 = j
      OBVIOUS
    <3> QED BY <2>1
  <2> HIDE DEF p
  <2>4. \A d : (\E i \in 1..Len(q) : q[i] = d)
                 <=> d = Head(q) \/ \E i \in 1..Len(p) : p[i] = d
    BY <2>1, <2>2, <2>3, ZenonT(60)
  <2>5. EventsOf(q, x) = EventsOf(p, x) \cup (IF Head(q).client = x THEN {Head(q)} ELSE {})
    BY <2>1, <2>4, ZenonT(30) DEF EventsOf
  <2>6. QED
    BY <2>5 DEF p
<1>3. QED
  BY <1>1, <1>2

\* Messages that are queued to be sent, and the first of them.
LEMMA AnswersChange ==
  ASSUME NEW ms \in Seq(Messages), NEW id
  PROVE  /\ \A m \in Messages : HasAnswer(Append(ms, m), id)
                                  <=> HasAnswer(ms, id) \/ (IsAnswer(m) /\ m.id = id)
         /\ ms # <<>> => (HasAnswer(ms, id) <=>
                            \/ HasAnswer(Tail(ms), id)
                            \/ IsAnswer(Head(ms)) /\ Head(ms).id = id)
         /\ \A m \in Messages : HasAnswer(<<m>>, id) <=> IsAnswer(m) /\ m.id = id
         /\ ~HasAnswer(<<>>, id)
<1>1. ASSUME NEW m \in Messages
      PROVE  HasAnswer(Append(ms, m), id)
               <=> HasAnswer(ms, id) \/ (IsAnswer(m) /\ m.id = id)
  <2> DEFINE p == Append(ms, m)
  <2>1. /\ Len(p) = Len(ms) + 1 /\ Len(ms) \in Nat
        /\ \A i \in 1..Len(ms) : p[i] = ms[i]
        /\ p[Len(ms) + 1] = m
    OBVIOUS
  <2>2. 1..Len(p) = 1..Len(ms) \cup {Len(ms) + 1}
    BY <2>1
  <2> HIDE DEF p
  <2>3. HasAnswer(p, id) <=> HasAnswer(ms, id) \/ (IsAnswer(m) /\ m.id = id)
    BY <2>1, <2>2 DEF HasAnswer
  <2>4. QED
    BY <2>3 DEF p
<1>2. ASSUME ms # <<>>
      PROVE  HasAnswer(ms, id) <=> \/ HasAnswer(Tail(ms), id)
                                   \/ IsAnswer(Head(ms)) /\ Head(ms).id = id
  <2> DEFINE p == Tail(ms)
  <2>1. /\ Len(ms) \in Nat \ {0} /\ Len(p) = Len(ms) - 1 /\ Head(ms) = ms[1]
        /\ \A i \in 1..Len(p) : p[i] = ms[i + 1]
    BY <1>2
  <2>2. /\ \A i \in 1..Len(p) : i + 1 \in 1..Len(ms)
        /\ 1 \in 1..Len(ms)
    BY <2>1
  <2>3. \A j \in 1..Len(ms) : j = 1 \/ \E i \in 1..Len(p) : i + 1 = j
    <3> SUFFICES ASSUME NEW j \in 1..Len(ms), j # 1
                 PROVE  j - 1 \in 1..Len(p) /\ (j - 1) + 1 = j
      OBVIOUS
    <3> QED BY <2>1
  <2> HIDE DEF p
  <2>4. HasAnswer(ms, id) <=> HasAnswer(p, id) \/ (IsAnswer(Head(ms)) /\ Head(ms).id = id)
    <3>1. ASSUME HasAnswer(ms, id), ~(IsAnswer(Head(ms)) /\ Head(ms).id = id)
          PROVE  HasAnswer(p, id)
      <4>1. PICK j \in 1..Len(ms) : IsAnswer(ms[j]) /\ ms[j].id = id
        BY <3>1 DEF HasAnswer
      <4>2. PICK i \in 1..Len(p) : i + 1 = j
        BY <2>1, <2>3, <3>1, <4>1
      <4>3. p[i] = ms[j]
        BY <2>1, <4>2
      <4>4. QED
        BY <4>1, <4>3 DEF HasAnswer
    <3>2. HasAnswer(p, id) => HasAnswer(ms, id)
      BY <2>1, <2>2 DEF HasAnswer
    <3>3. IsAnswer(Head(ms)) /\ Head(ms).id = id => HasAnswer(ms, id)
      BY <2>1, <2>2 DEF HasAnswer
    <3>4. QED
      BY <3>1, <3>2, <3>3
  <2>5. QED
    BY <2>4 DEF p
<1>3. \A m \in Messages : HasAnswer(<<m>>, id) <=> IsAnswer(m) /\ m.id = id
  BY DEF HasAnswer
<1>4. ~HasAnswer(<<>>, id)
  BY DEF HasAnswer
<1>5. QED
  BY <1>1, <1>2, <1>3, <1>4

----------------------------------------------------------------------------
(* The operations of a connection.                                         *)

\* An answer for id that the server is to send.
ToSend(c, id) == HasAnswer(c.pendingSends, id) \/ HasAnswer(c.sending, id)

OthersSame(x, q, q2) == \A y \in Clients \ {x} : EventsOf(q2, y) = EventsOf(q, y)

\* From s, an operation of an open socket leads to t and queues no handler.
Goes(x, s, t) ==
  /\ t \in StateType /\ Quiet(t.c) /\ OthersSame(x, s.io, t.io)
  /\ t.c.open = s.c.open /\ t.c.inbox = s.c.inbox /\ t.c.torn = s.c.torn
  /\ s.c.open => t.io = s.io

SameToSend(s, t) == s.c.open => \A id \in Results : ToSend(t.c, id) <=> ToSend(s.c, id)

OneMoreToSend(s, t, m) ==
  s.c.open => \A id \in Results :
    ToSend(t.c, id) <=> ToSend(s.c, id) \/ (IsAnswer(m) /\ m.id = id)

\* Queueing a handler of x.
LEMMA OneMoreEvent ==
  ASSUME NEW x \in Clients, NEW q \in Seq(Events), NEW e \in Events, e.client = x
  PROVE  /\ EventsOf(Append(q, e), x) = EventsOf(q, x) \cup {e}
         /\ OthersSame(x, q, Append(q, e))
<1>1. EventsOf(Append(q, e), x) = EventsOf(q, x) \cup {e}
  BY EventsChange
<1>2. ASSUME NEW y \in Clients \ {x}
      PROVE  EventsOf(Append(q, e), y) = EventsOf(q, y)
  <2>1. EventsOf(Append(q, e), y) = EventsOf(q, y) \cup {}
    BY EventsChange, ZenonT(30)
  <2>2. QED
    BY <2>1
<1>3. QED
  BY <1>1, <1>2 DEF OthersSame

\* A handler queued for x is no handler of another connection.
LEMMA BeginGoes ==
  ASSUME NEW x \in Clients, NEW s \in StateType, NEW e \in Events, e.client = x
  PROVE  /\ Begin(s, e) \in StateType /\ Begin(s, e).c = s.c
         /\ OthersSame(x, s.io, Begin(s, e).io)
<1>1. s.io \in Seq(Events)
  BY DEF StateType
<1>2. /\ Begin(s, e) \in StateType /\ Begin(s, e).c = s.c
      /\ Begin(s, e).io = Append(s.io, e)
  BY BeginFields
<1>3. QED
  BY <1>1, <1>2, OneMoreEvent

\* listenForMeshMessage starts a read, or queues one that failed.
LEMMA ListenGoes ==
  ASSUME NEW x \in Clients, NEW s \in StateType, Quiet(s.c)
  PROVE  /\ Goes(x, s, listenForMeshMessage(s, x))
         /\ SameToSend(s, listenForMeshMessage(s, x))
         /\ listenForMeshMessage(s, x).c.sending = s.c.sending
         /\ listenForMeshMessage(s, x).c.sendActive = s.c.sendActive
<1> DEFINE t == listenForMeshMessage(s, x)
<1>1. CASE s.c.open
  <2>1. /\ t.c = [s.c EXCEPT !.recvActive = TRUE, !.reading = TRUE]
        /\ t.io = s.io /\ t \in StateType
    BY <1>1, ZenonT(30) DEF listenForMeshMessage, StateType, ClientType
  <2>2. /\ t.c.open = s.c.open /\ t.c.inbox = s.c.inbox /\ t.c.torn = s.c.torn
        /\ t.c.pendingSends = s.c.pendingSends /\ t.c.sending = s.c.sending
        /\ t.c.sendActive = s.c.sendActive
    BY <2>1 DEF StateType, ClientType
  <2> HIDE DEF t
  <2>3. Goes(x, s, t) /\ SameToSend(s, t)
    BY <1>1, <2>1, <2>2, ZenonT(30) DEF Goes, SameToSend, ToSend, Quiet, OthersSame
  <2>4. QED
    BY <2>2, <2>3 DEF t
<1>2. CASE ~s.c.open
  <2> DEFINE r == [s EXCEPT !.c.recvActive = TRUE]
  <2>1. /\ r \in StateType /\ r.io = s.io /\ r.c = [s.c EXCEPT !.recvActive = TRUE]
    BY ZenonT(30) DEF StateType, ClientType
  <2>2. /\ t = Begin(r, ReadFailed(x)) /\ ReadFailed(x) \in Events
        /\ ReadFailed(x).client = x
    BY <1>2, FailureEvents DEF listenForMeshMessage, Messages
  <2> HIDE DEF t, r
  <2>3. t \in StateType /\ t.c = r.c /\ OthersSame(x, s.io, t.io)
    BY <2>1, <2>2, BeginGoes
  <2>4. /\ t.c.open = s.c.open /\ t.c.inbox = s.c.inbox /\ t.c.torn = s.c.torn
        /\ t.c.sending = s.c.sending /\ t.c.reading = s.c.reading
        /\ t.c.sendActive = s.c.sendActive
    BY <2>1, <2>3 DEF StateType, ClientType
  <2>5. Goes(x, s, t) /\ SameToSend(s, t)
    BY <1>2, <2>3, <2>4 DEF Goes, SameToSend, Quiet
  <2>6. QED
    BY <2>4, <2>5 DEF t
<1>3. QED
  BY <1>1, <1>2

\* startSend hands m to the socket, or queues a send that failed.
LEMMA StartSendGoes ==
  ASSUME NEW x \in Clients, NEW s \in StateType, NEW m \in Messages,
         Quiet(s.c), s.c.sending = <<>>
  PROVE  Goes(x, s, startSend(s, x, m)) /\ OneMoreToSend(s, startSend(s, x, m), m)
<1> DEFINE t == startSend(s, x, m)
<1>1. CASE s.c.open
  <2> DEFINE one == <<m>>
  <2>1. one \in Seq(Messages) /\ \A id : HasAnswer(one, id) <=> IsAnswer(m) /\ m.id = id
    BY DEF HasAnswer
  <2>2. t = [s EXCEPT !.c.sendActive = TRUE, !.c.sending = one]
    BY <1>1 DEF startSend
  <2> HIDE DEF one, t
  <2>3. /\ t \in StateType /\ t.io = s.io
        /\ t.c = [s.c EXCEPT !.sendActive = TRUE, !.sending = one]
    BY <2>1, <2>2, ZenonT(30) DEF StateType, ClientType
  <2>4. /\ t.c.open = s.c.open /\ t.c.inbox = s.c.inbox /\ t.c.torn = s.c.torn
        /\ t.c.pendingSends = s.c.pendingSends /\ t.c.sending = one
    BY <2>3 DEF StateType, ClientType
  <2>5. \A id : ~HasAnswer(s.c.sending, id)
    BY DEF HasAnswer
  <2>6. Goes(x, s, t) /\ OneMoreToSend(s, t, m)
    BY <1>1, <2>1, <2>3, <2>4, <2>5, ZenonT(30) DEF Goes, OneMoreToSend, ToSend, Quiet, OthersSame
  <2>7. QED
    BY <2>6 DEF t
<1>2. CASE ~s.c.open
  <2> DEFINE r == [s EXCEPT !.c.sendActive = TRUE]
  <2>1. /\ r \in StateType /\ r.io = s.io /\ r.c = [s.c EXCEPT !.sendActive = TRUE]
    BY ZenonT(30) DEF StateType, ClientType
  <2>2. /\ t = Begin(r, SendFailed(x, m)) /\ SendFailed(x, m) \in Events
        /\ SendFailed(x, m).client = x
    BY <1>2, FailureEvents DEF startSend
  <2> HIDE DEF t, r
  <2>3. t \in StateType /\ t.c = r.c /\ OthersSame(x, s.io, t.io)
    BY <2>1, <2>2, BeginGoes
  <2>4. /\ t.c.open = s.c.open /\ t.c.inbox = s.c.inbox /\ t.c.torn = s.c.torn
        /\ t.c.sending = s.c.sending /\ t.c.reading = s.c.reading
    BY <2>1, <2>3 DEF StateType, ClientType
  <2>5. Goes(x, s, t) /\ OneMoreToSend(s, t, m)
    BY <1>2, <2>3, <2>4 DEF Goes, OneMoreToSend, Quiet
  <2>6. QED
    BY <2>5 DEF t
<1>3. QED
  BY <1>1, <1>2

\* send has one more message to send, at once or in the queue.
LEMMA SendGoes ==
  ASSUME NEW x \in Clients, NEW s \in StateType, NEW m \in Messages,
         Quiet(s.c), ~s.c.sendActive => s.c.sending = <<>>
  PROVE  Goes(x, s, send(s, x, m)) /\ OneMoreToSend(s, send(s, x, m), m)
<1> DEFINE t == send(s, x, m)
<1>1. CASE s.c.sendActive
  <2> DEFINE more == Append(s.c.pendingSends, m)
  <2>1. s.c.pendingSends \in Seq(Messages)
    BY DEF StateType, ClientType
  <2>2. /\ more \in Seq(Messages)
        /\ \A id : HasAnswer(more, id)
                    <=> HasAnswer(s.c.pendingSends, id) \/ (IsAnswer(m) /\ m.id = id)
    BY <2>1, AnswersChange
  <2>3. t = [s EXCEPT !.c.pendingSends = more]
    BY <1>1 DEF send
  <2> HIDE DEF more, t
  <2>4. /\ t \in StateType /\ t.io = s.io
        /\ t.c = [s.c EXCEPT !.pendingSends = more]
    BY <2>2, <2>3, ZenonT(30) DEF StateType, ClientType
  <2>5. /\ t.c.open = s.c.open /\ t.c.inbox = s.c.inbox /\ t.c.torn = s.c.torn
        /\ t.c.pendingSends = more /\ t.c.sending = s.c.sending
        /\ t.c.reading = s.c.reading
    BY <2>4 DEF StateType, ClientType
  <2>6. Goes(x, s, t) /\ OneMoreToSend(s, t, m)
    BY <2>2, <2>4, <2>5 DEF Goes, OneMoreToSend, ToSend, Quiet, OthersSame
  <2>7. QED
    BY <2>6 DEF t
<1>2. CASE ~s.c.sendActive
  BY <1>2, StartSendGoes DEF send
<1>3. QED
  BY <1>1, <1>2

\* processQueuedSend moves the first waiting message on, if there is one.
LEMMA ProcessQueuedGoes ==
  ASSUME NEW x \in Clients, NEW s \in StateType, Quiet(s.c), s.c.sending = <<>>
  PROVE  Goes(x, s, processQueuedSend(s, x)) /\ SameToSend(s, processQueuedSend(s, x))
<1>1. CASE s.c.pendingSends = <<>>
  BY <1>1 DEF processQueuedSend, Goes, SameToSend, OthersSame
<1>2. CASE s.c.pendingSends # <<>>
  <2> DEFINE ms == s.c.pendingSends
             rest == Tail(ms)
             m == Head(ms)
             r == [s EXCEPT !.c.pendingSends = rest]
             t == startSend(r, x, m)
  <2>1. ms \in Seq(Messages) /\ ms # <<>>
    BY <1>2 DEF StateType, ClientType
  <2>2. processQueuedSend(s, x) = t
    BY <1>2 DEF processQueuedSend
  <2>3. rest \in Seq(Messages) /\ m \in Messages
    BY <2>1, TailAnswers
  <2>4. \A id : HasAnswer(ms, id) <=> HasAnswer(rest, id) \/ (IsAnswer(m) /\ m.id = id)
    BY <2>1, AnswersChange
  <2> HIDE DEF rest, m
  <2>5. /\ r \in StateType /\ r.io = s.io
        /\ r.c = [s.c EXCEPT !.pendingSends = rest]
    BY <2>3, ZenonT(30) DEF StateType, ClientType
  <2> HIDE DEF r
  <2>6. /\ r.c.open = s.c.open /\ r.c.inbox = s.c.inbox /\ r.c.torn = s.c.torn
        /\ r.c.pendingSends = rest /\ r.c.sending = s.c.sending
        /\ r.c.reading = s.c.reading
    BY <2>5 DEF StateType, ClientType
  <2>7. Quiet(r.c)
    BY <2>6 DEF Quiet
  <2>8. Goes(x, r, t) /\ OneMoreToSend(r, t, m)
    BY <2>3, <2>5, <2>6, <2>7, StartSendGoes, ZenonT(30)
  <2> HIDE DEF t
  <2>9. Goes(x, s, t)
    BY <2>5, <2>6, <2>8 DEF Goes
  <2>10. \A id : ToSend(s.c, id) <=> ToSend(r.c, id) \/ (IsAnswer(m) /\ m.id = id)
    BY <2>4, <2>6 DEF ToSend
  <2>11. SameToSend(s, t)
    BY <2>6, <2>8, <2>10 DEF SameToSend, OneMoreToSend
  <2>12. QED
    BY <2>2, <2>9, <2>11
<1>3. QED
  BY <1>1, <1>2

\* close leaves nothing outstanding, and tears no message.
LEMMA CloseGoes ==
  ASSUME NEW x \in Clients, NEW s \in StateType
  PROVE  LET v == close(s, x)
         IN /\ ~v.c.open /\ Quiet(v.c) /\ OthersSame(x, s.io, v.io)
            /\ v.c.torn = s.c.torn
<1> DEFINE t == IF s.c.reading THEN Begin(s, ReadFailed(x)) ELSE s
           m == Head(s.c.sending)
           u == IF s.c.sending # <<>> THEN Begin(t, SendFailed(x, m)) ELSE t
           v == close(s, x)
<1>1. t \in StateType /\ t.c = s.c /\ OthersSame(x, s.io, t.io)
  BY BeginGoes, FailureEvents DEF Messages, OthersSame
<1>2. s.c.sending # <<>> => m \in Messages
  BY DEF StateType, ClientType
<1> HIDE DEF t, m
<1>3. u \in StateType /\ u.c = s.c /\ OthersSame(x, t.io, u.io)
  <2>1. CASE s.c.sending = <<>>
    BY <1>1, <2>1 DEF OthersSame
  <2>2. CASE s.c.sending # <<>>
    <3>1. /\ SendFailed(x, m) \in Events /\ SendFailed(x, m).client = x
          /\ u = Begin(t, SendFailed(x, m))
      BY <1>2, <2>2, FailureEvents
    <3>2. QED
      BY <1>1, <3>1, BeginGoes
  <2>3. QED
    BY <2>1, <2>2
<1>4. v = [u EXCEPT !.c.open = FALSE, !.c.reading = FALSE, !.c.sending = <<>>,
                    !.gone = u.gone \/ ~connectionActive(s.c)]
  BY DEF close, t, m
<1> HIDE DEF u, v
<1>5. /\ v.io = u.io
      /\ v.c = [u.c EXCEPT !.open = FALSE, !.reading = FALSE, !.sending = <<>>]
  BY <1>3, <1>4 DEF StateType
<1>6. /\ ~v.c.open /\ ~v.c.reading /\ v.c.sending = <<>>
      /\ v.c.torn = s.c.torn
  BY <1>3, <1>5 DEF StateType, ClientType
<1>7. QED
  BY <1>1, <1>3, <1>5, <1>6 DEF Quiet, OthersSame, v

----------------------------------------------------------------------------
(* The handlers.                                                           *)

\* A connection that closes, or keeps what it has to answer, stays in order.
LEMMA StaysOrdered ==
  ASSUME NEW c, NEW E, NEW g, NEW n, Ordered(c, E, g, n),
         NEW c2, NEW E2, Quiet(c2), c2.torn = c.torn,
         c2.open => /\ c.open /\ c2.inbox = c.inbox
                    /\ \A id \in Results : Unanswered(c2, E2, id) <=> Unanswered(c, E, id)
                    /\ Failing(E) => Failing(E2)
  PROVE  Ordered(c2, E2, g, n)
BY ZenonT(30) DEF Ordered, InStep, Unread

\* A step of one connection leaves the order of the others alone.
LEMMA OrderChange ==
  ASSUME TypeInv, OrderInv, NEW x \in Clients, NEW c \in ClientType, NEW q,
         client' = [client EXCEPT ![x] = c], io' = q, OthersSame(x, io, q),
         NEW g \in Seq(Messages), NEW n \in Seq(Results),
         got' = [got EXCEPT ![x] = g], sent' = [sent EXCEPT ![x] = n],
         Ordered(c, EventsOf(q, x), g, n)
  PROVE  OrderInv'
<1>1. /\ got' \in [Clients -> Seq(Messages)] /\ sent' \in [Clients -> Seq(Results)]
      /\ got'[x] = g /\ sent'[x] = n /\ client'[x] = c
  BY DEF OrderInv, TypeInv
<1>2. ASSUME NEW y \in Clients
      PROVE  Ordered(client'[y], EventsOf(io', y), got'[y], sent'[y])
  <2>1. CASE y = x
    BY <1>1, <2>1
  <2>2. CASE y # x
    <3>1. /\ client'[y] = client[y] /\ got'[y] = got[y] /\ sent'[y] = sent[y]
          /\ EventsOf(io', y) = EventsOf(io, y)
      BY <2>2 DEF OrderInv, TypeInv, OthersSame
    <3>2. Ordered(client[y], EventsOf(io, y), got[y], sent[y])
      BY DEF OrderInv
    <3>3. QED
      BY <3>1, <3>2
  <2>3. QED
    BY <2>1, <2>2
<1>3. QED
  BY <1>1, <1>2 DEF OrderInv

\* A handler of x.
LEMMA OrderEffect ==
  ASSUME TypeInv, OrderInv, NEW x \in Clients, NEW s \in StateType, Effect(x, s),
         UNCHANGED <<got, sent>>, OthersSame(x, io, s.io),
         Ordered(s.c, EventsOf(s.io, x), got[x], sent[x])
  PROVE  OrderInv'
<1>1. /\ s.c \in ClientType /\ client' = [client EXCEPT ![x] = s.c] /\ io' = s.io
      /\ got[x] \in Seq(Messages) /\ sent[x] \in Seq(Results)
      /\ got' = [got EXCEPT ![x] = got[x]] /\ sent' = [sent EXCEPT ![x] = sent[x]]
  BY DEF StateType, Effect, OrderInv
<1>2. QED
  BY <1>1, OrderChange, ZenonT(30)

\* The handler in front is one of its connection's, and none of the others'.
LEMMA FrontEvent ==
  ASSUME IInv, io # <<>>
  PROVE  LET x == Head(io).client
         IN /\ EventsOf(io, x) = EventsOf(Tail(io), x) \cup {Head(io)}
            /\ OthersSame(x, io, Tail(io))
<1> DEFINE x == Head(io).client
<1>1. io \in Seq(Events)
  BY DEF IInv, TypeInv
<1>2. EventsOf(io, x) = EventsOf(Tail(io), x) \cup {Head(io)}
  BY <1>1, EventsChange
<1>3. ASSUME NEW y \in Clients \ {x}
      PROVE  EventsOf(Tail(io), y) = EventsOf(io, y)
  <2>1. EventsOf(io, y) = EventsOf(Tail(io), y) \cup {}
    BY <1>1, EventsChange, ZenonT(30)
  <2>2. QED
    BY <2>1
<1>4. QED
  BY <1>2, <1>3 DEF OthersSame

\* A handler clears the flag of its operation, and nothing else of the connection.
LEMMA FlagCleared ==
  ASSUME NEW c \in ClientType, NEW d,
         \/ d = [c EXCEPT !.recvActive = FALSE] \/ d = [c EXCEPT !.sendActive = FALSE]
  PROVE  /\ d.open = c.open /\ d.inbox = c.inbox /\ d.torn = c.torn
         /\ d.pendingSends = c.pendingSends /\ d.sending = c.sending
         /\ d.reading = c.reading
         /\ d = [c EXCEPT !.recvActive = FALSE] => d.sendActive = c.sendActive
         /\ d = [c EXCEPT !.sendActive = FALSE] => d.sendActive = FALSE
BY DEF ClientType

\* The query that was read becomes the answer to send.
LEMMA ReadDoneOrder ==
  ASSUME IInv, OrderInv, ReadDone
  PROVE  OrderInv'
<1> DEFINE x == Head(io).client
           res == Head(io).res
           c == client[x]
           t == [Taken(x) EXCEPT !.c.recvActive = FALSE]
           E == EventsOf(io, x)
           rest == EventsOf(Tail(io), x)
<1>1. PICK error \in BOOLEAN :
        Effect(x, onMeshMessageReceived(Taken(x), x, res, error))
  BY DEF ReadDone
<1>2. /\ io # <<>> /\ Head(io).run = "read" /\ UNCHANGED <<got, sent>> /\ TypeInv
      /\ x \in Clients /\ client[x] \in ClientType /\ io \in Seq(Events)
      /\ Good(x, client[x], io) /\ Ordered(c, E, got[x], sent[x])
  BY TakenFields, ZenonT(30) DEF ReadDone, IInv, TypeInv, OrderInv
<1>3. /\ t \in StateType /\ t.c = [client[x] EXCEPT !.recvActive = FALSE]
      /\ t.io = Tail(io)
  BY <1>2, TakenFields, ZenonT(30) DEF StateType, ClientType
<1>4. /\ t.c.open = c.open /\ t.c.inbox = c.inbox /\ t.c.torn = c.torn
      /\ t.c.pendingSends = c.pendingSends /\ t.c.sending = c.sending
      /\ t.c.reading = c.reading /\ t.c.sendActive = c.sendActive
  BY <1>2, <1>3, FlagCleared, ZenonT(30)
<1>5. E = rest \cup {Head(io)} /\ OthersSame(x, io, t.io)
  BY <1>2, <1>3, FrontEvent, ZenonT(30)
<1>6. \A id : ~ReadOf(rest, id)
  <2>1. NoRun(Tail(io), x, "read")
    BY <1>2, TailRuns DEF Good, FlagsInv, Is
  <2>2. QED
    BY <2>1 DEF ReadOf, EventsOf, NoRun, Is
<1>7. Quiet(t.c) /\ (~t.c.sendActive => t.c.sending = <<>>)
  BY <1>2, <1>4, ZenonT(30) DEF Quiet, Ordered, Good, FlagsInv
<1> DEFINE m == [kind |-> IF error THEN "error"
                          ELSE IF res \in exists THEN "found" ELSE "notFound",
                 id |-> res]
<1>8. onMeshMessageReceived(Taken(x), x, res, error)
        = IF res \in Ids THEN send(t, x, m) ELSE close(t, x)
  BY DEF onMeshMessageReceived, processMeshQuery
<1>9. res \in Ids => m \in Messages /\ IsAnswer(m) /\ m.id = res
  BY DEF Messages, IsAnswer
<1>10. CASE res \in Ids
  <2> DEFINE u == send(t, x, m)
  <2> HIDE DEF x, t, m, c, E, rest
  <2>1. Goes(x, t, u) /\ OneMoreToSend(t, u, m)
    BY <1>2, <1>3, <1>7, <1>9, <1>10, SendGoes, ZenonT(30)
  <2>2. Effect(x, u)
    BY <1>1, <1>8, <1>10
  <2> HIDE DEF u, res
  <2>3. /\ u \in StateType /\ Quiet(u.c) /\ u.c.torn = c.torn /\ OthersSame(x, io, u.io)
        /\ u.c.open => c.open /\ u.c.inbox = c.inbox /\ u.io = Tail(io)
    BY <1>3, <1>4, <1>5, <2>1 DEF Goes, OthersSame
  <2>4. ASSUME u.c.open, NEW id \in Results
        PROVE  Unanswered(u.c, rest, id) <=> Unanswered(c, E, id)
    <3>1. ToSend(u.c, id) <=> ToSend(c, id) \/ id = res
      BY <1>4, <1>9, <1>10, <2>1, <2>3, <2>4 DEF OneMoreToSend, ToSend
    <3>2. ReadOf(E, id) <=> id = res
      BY <1>2, <1>5, <1>6, ZenonT(30) DEF ReadOf, res
    <3>3. QED
      BY <1>6, <3>1, <3>2 DEF Unanswered, ToSend
  <2>5. Failing(E) => Failing(rest)
    BY <1>5, <1>10, QueryAssumption DEF Failing, QueryAssumption, res
  <2>6. u.c.open => EventsOf(u.io, x) = rest
    BY <2>3, ZenonT(30) DEF rest
  <2>7. Ordered(u.c, EventsOf(u.io, x), got[x], sent[x])
    BY <1>2, <2>3, <2>4, <2>5, <2>6, StaysOrdered
  <2>8. QED
    BY <1>2, <2>2, <2>3, <2>7, OrderEffect
<1>11. CASE res \notin Ids
  <2> DEFINE u == close(t, x)
  <2> HIDE DEF x, t, c, E
  <2>1. /\ ~u.c.open /\ Quiet(u.c) /\ OthersSame(x, t.io, u.io) /\ u.c.torn = t.c.torn
    BY <1>2, <1>3, CloseGoes, ZenonT(30)
  <2>2. Effect(x, u)
    BY <1>1, <1>8, <1>11
  <2>3. u \in StateType
    BY <1>2, <1>3, ReadTaken, CloseGood, ZenonT(30) DEF x, t
  <2> HIDE DEF u
  <2>4. Ordered(u.c, EventsOf(u.io, x), got[x], sent[x]) /\ OthersSame(x, io, u.io)
    BY <1>2, <1>4, <1>5, <2>1, StaysOrdered DEF OthersSame
  <2>5. QED
    BY <1>2, <2>2, <2>3, <2>4, OrderEffect
<1>12. QED
  BY <1>10, <1>11

\* A send that ended well was of nothing that is still to be answered; a failed
\* one closes.
LEMMA SendDoneOrder ==
  ASSUME IInv, OrderInv, SendDone
  PROVE  OrderInv'
<1> DEFINE x == Head(io).client
           m == Head(io).msg
           ok == Head(io).res = "ok"
           c == client[x]
           t == [Taken(x) EXCEPT !.c.sendActive = FALSE]
           E == EventsOf(io, x)
           rest == EventsOf(Tail(io), x)
           u == IF ~ok THEN close(t, x)
                ELSE IF IsAnswer(m)
                     THEN processQueuedSend(listenForMeshMessage(t, x), x)
                     ELSE processQueuedSend(t, x)
<1>1. Effect(x, u)
  BY DEF SendDone, onAfterSendHeartbeat, onAfterSendQueryResponse, IsAnswer
<1>2. /\ io # <<>> /\ Head(io).run = "send" /\ UNCHANGED <<got, sent>> /\ TypeInv
      /\ x \in Clients /\ client[x] \in ClientType /\ io \in Seq(Events)
      /\ Good(x, client[x], io) /\ Ordered(c, E, got[x], sent[x])
  BY TakenFields, ZenonT(30) DEF SendDone, IInv, TypeInv, OrderInv
<1>3. /\ t \in StateType /\ t.c = [client[x] EXCEPT !.sendActive = FALSE]
      /\ t.io = Tail(io) /\ Good(x, t.c, t.io)
  BY <1>2, TakenFields, SendTaken, ZenonT(30) DEF StateType, ClientType
<1>4. /\ t.c.open = c.open /\ t.c.inbox = c.inbox /\ t.c.torn = c.torn
      /\ t.c.pendingSends = c.pendingSends /\ t.c.sending = c.sending
      /\ t.c.reading = c.reading /\ t.c.sendActive = FALSE
  BY <1>2, <1>3, FlagCleared, ZenonT(30)
<1>5. E = rest \cup {Head(io)} /\ OthersSame(x, io, t.io)
  BY <1>2, <1>3, FrontEvent, ZenonT(30)
<1>6. Quiet(t.c) /\ t.c.sending = <<>>
  BY <1>2, <1>3, <1>4, ZenonT(30) DEF Quiet, Ordered, Good, FlagsInv
<1>7. /\ \A id : ReadOf(E, id) <=> ReadOf(rest, id)
      /\ ok /\ Failing(E) => Failing(rest)
  BY <1>2, <1>5 DEF ReadOf, Failing
<1>8. CASE ok
  <2> HIDE DEF x, m, ok, t, c, E, rest
  <2>1. Goes(x, t, u) /\ SameToSend(t, u)
    <3>1. CASE IsAnswer(m)
      <4> DEFINE l == listenForMeshMessage(t, x)
      <4>1. Goes(x, t, l) /\ SameToSend(t, l) /\ l.c.sending = <<>>
        BY <1>2, <1>3, <1>6, ListenGoes, ZenonT(30)
      <4>2. u = processQueuedSend(l, x)
        BY <1>8, <3>1
      <4> HIDE DEF l, u
      <4>3. Goes(x, l, u) /\ SameToSend(l, u)
        BY <1>2, <4>1, <4>2, ProcessQueuedGoes DEF Goes
      <4>4. QED
        BY <4>1, <4>3 DEF Goes, SameToSend, OthersSame
    <3>2. CASE ~IsAnswer(m)
      BY <1>2, <1>3, <1>6, <1>8, <3>2, ProcessQueuedGoes, ZenonT(30)
    <3>3. QED
      BY <3>1, <3>2
  <2> HIDE DEF u
  <2>2. /\ u \in StateType /\ Quiet(u.c) /\ u.c.torn = c.torn /\ OthersSame(x, io, u.io)
        /\ u.c.open => c.open /\ u.c.inbox = c.inbox /\ u.io = Tail(io)
    BY <1>3, <1>4, <1>5, <2>1 DEF Goes, OthersSame
  <2>3. ASSUME u.c.open, NEW id \in Results
        PROVE  Unanswered(u.c, rest, id) <=> Unanswered(c, E, id)
    <3>1. ToSend(u.c, id) <=> ToSend(c, id)
      BY <1>4, <2>1, <2>2, <2>3 DEF SameToSend, ToSend
    <3>2. QED
      BY <1>7, <3>1 DEF Unanswered, ToSend
  <2>4. u.c.open => EventsOf(u.io, x) = rest
    BY <2>2, ZenonT(30) DEF rest
  <2>5. Ordered(u.c, EventsOf(u.io, x), got[x], sent[x])
    BY <1>2, <1>7, <1>8, <2>2, <2>3, <2>4, StaysOrdered
  <2>6. QED
    BY <1>1, <1>2, <2>2, <2>5, OrderEffect
<1>9. CASE ~ok
  <2> HIDE DEF x, m, ok, t, c, E
  <2>1. u = close(t, x)
    BY <1>9
  <2>2. /\ ~u.c.open /\ Quiet(u.c) /\ OthersSame(x, t.io, u.io) /\ u.c.torn = t.c.torn
        /\ u \in StateType
    BY <1>2, <1>3, <2>1, CloseGoes, CloseGood, ZenonT(60)
  <2> HIDE DEF u
  <2>3. Ordered(u.c, EventsOf(u.io, x), got[x], sent[x]) /\ OthersSame(x, io, u.io)
    BY <1>2, <1>4, <1>5, <2>2, StaysOrdered DEF OthersSame
  <2>4. QED
    BY <1>1, <1>2, <2>2, <2>3, OrderEffect
<1>10. QED
  BY <1>8, <1>9

\* A new connection has read nothing and owes no answer.
LEMMA AcceptOrder ==
  ASSUME IInv, OrderInv, NEW x \in Clients, handleAfterAccept(x)
  PROVE  OrderInv'
<1> DEFINE s == State(x)
           E == EventsOf(io, x)
<1>1. /\ s \in StateType /\ s.c = client[x] /\ s.io = io
      /\ Ordered(client[x], E, got[x], sent[x]) /\ TypeInv /\ Good(x, client[x], io)
      /\ client[x] \in ClientType /\ UNCHANGED <<got, sent>>
      /\ got[x] \in Seq(Messages) /\ sent[x] \in Seq(Results)
      /\ got' = [got EXCEPT ![x] = got[x]] /\ sent' = [sent EXCEPT ![x] = sent[x]]
  BY StateFields, ZenonT(30) DEF IInv, TypeInv, OrderInv, handleAfterAccept
<1>2. Quiet(s.c)
  BY <1>1 DEF Ordered
<1> HIDE DEF s, E
<1>3. CASE /\ client' = [client EXCEPT ![x] = listenForMeshMessage(s, x).c]
           /\ io' = io
  <2> DEFINE t == listenForMeshMessage(s, x)
  <2>1. Goes(x, s, t) /\ SameToSend(s, t)
    BY <1>1, <1>2, ListenGoes
  <2>2. client' = [client EXCEPT ![x] = t.c]
    BY <1>3
  <2> HIDE DEF t
  <2>3. /\ t.c \in ClientType /\ Quiet(t.c) /\ t.c.torn = client[x].torn
        /\ t.c.open = client[x].open /\ t.c.inbox = client[x].inbox
    BY <1>1, <2>1 DEF Goes, StateType
  <2>4. t.c.open => \A id \in Results : Unanswered(t.c, E, id) <=> Unanswered(client[x], E, id)
    BY <1>1, <2>1, <2>3 DEF SameToSend, Unanswered, ToSend
  <2>5. Ordered(t.c, E, got[x], sent[x]) /\ OthersSame(x, io, io)
    BY <1>1, <2>3, <2>4, StaysOrdered DEF OthersSame
  <2>6. QED
    BY <1>1, <1>3, <2>2, <2>3, <2>5, OrderChange, ZenonT(30) DEF E
<1>4. CASE Effect(x, close(s, x))
  <2> DEFINE v == close(s, x)
  <2>1. /\ ~v.c.open /\ Quiet(v.c) /\ OthersSame(x, io, v.io)
        /\ v.c.torn = client[x].torn /\ v \in StateType
    BY <1>1, CloseGoes, CloseGood
  <2> HIDE DEF v
  <2>2. Ordered(v.c, EventsOf(v.io, x), got[x], sent[x])
    BY <1>1, <2>1, StaysOrdered
  <2>3. Effect(x, v)
    BY <1>4 DEF v
  <2>4. QED
    BY <1>1, <2>1, <2>2, <2>3, OrderEffect
<1>5. CASE UNCHANGED <<client, io>>
  BY <1>1, <1>5 DEF OrderInv
<1>6. QED
  BY <1>3, <1>4, <1>5 DEF handleAfterAccept, s

\* Heartbeats are no answers.
LEMMA HeartbeatOrder ==
  ASSUME IInv, OrderInv, doHeartBeat
  PROVE  OrderInv'
<1> DEFINE n == Cardinality(FindClosed)
           t(x) == send(State(x), x, Heartbeat)
<1>1. FindClosed \in SUBSET Clients /\ n \in Nat
  <2>1. FindClosed \in SUBSET Clients
    BY DEF FindClosed, HeartbeatTo, IInv, TypeInv
  <2>2. QED
    BY <2>1, QueryAssumption, FS_Subset, FS_CardinalityType DEF QueryAssumption
<1>2. PICK order \in Bijection(1..n, FindClosed) :
        io' = io \o [i \in 1..n |-> SendFailed(order[i], Heartbeat)]
  BY ZenonT(30) DEF doHeartBeat
<1>3. /\ client' = [x \in Clients |-> IF x \in connected THEN t(x).c ELSE client[x]]
      /\ UNCHANGED <<got, sent>>
  BY DEF doHeartBeat, HeartbeatTo
<1>4. Heartbeat \in Messages /\ ~IsAnswer(Heartbeat) /\ io \in Seq(Events)
  BY DEF Messages, IsAnswer, Heartbeat, IInv, TypeInv
<1> HIDE DEF n
<1>5. ASSUME NEW x \in Clients
      PROVE  /\ \A id : ReadOf(EventsOf(io', x), id) <=> ReadOf(EventsOf(io, x), id)
             /\ Failing(EventsOf(io, x)) => Failing(EventsOf(io', x))
  <2> DEFINE b == [i \in 1..n |-> SendFailed(order[i], Heartbeat)]
  <2>1. \A i \in 1..n : /\ SendFailed(order[i], Heartbeat) \in Events
                        /\ SendFailed(order[i], Heartbeat).run = "send"
    BY <1>1, <1>4, FailureEvents DEF Bijection, Injection, Is
  <2>2. /\ b \in Seq(Events) /\ Len(b) = n
        /\ \A i \in 1..n : b[i].run = "send"
    BY <1>1, <2>1
  <2>3. io' = io \o b
    BY <1>2
  <2> HIDE DEF b
  <2> DEFINE p == io \o b
  <2>4. /\ Len(p) = Len(io) + n /\ Len(io) \in Nat
        /\ \A i \in 1..Len(p) : p[i] = IF i <= Len(io) THEN io[i] ELSE b[i - Len(io)]
    BY <1>1, <1>4, <2>2
  <2>5. /\ \A i \in 1..Len(io) : i \in 1..Len(p) /\ p[i] = io[i]
        /\ \A i \in 1..Len(p) : i \in 1..Len(io) \/ p[i].run = "send"
    <3>1. \A i \in 1..Len(io) : i \in 1..Len(p) /\ p[i] = io[i]
      BY <1>1, <2>4
    <3>2. ASSUME NEW i \in 1..Len(p), i \notin 1..Len(io)
          PROVE  p[i].run = "send"
      <4>1. i - Len(io) \in 1..n /\ ~(i <= Len(io))
        BY <1>1, <2>4, <3>2
      <4>2. QED
        BY <2>2, <2>4, <4>1
    <3>3. QED
      BY <3>1, <3>2
  <2> HIDE DEF p
  <2>6. \A e \in EventsOf(io, x) : e \in EventsOf(p, x)
    BY <2>5 DEF EventsOf
  <2>7. \A e \in EventsOf(p, x) : e \in EventsOf(io, x) \/ e.run = "send"
    BY <2>5 DEF EventsOf
  <2>8. io' = p
    BY <2>3 DEF p
  <2>9. QED
    BY <2>6, <2>7, <2>8 DEF ReadOf, Failing
<1>6. ASSUME NEW x \in Clients
      PROVE  Ordered(client'[x], EventsOf(io', x), got'[x], sent'[x])
  <2>1. /\ Ordered(client[x], EventsOf(io, x), got[x], sent[x])
        /\ Good(x, client[x], io)
    BY DEF IInv, OrderInv
  <2>2. Quiet(client[x]) /\ (~client[x].sendActive => client[x].sending = <<>>)
    BY <2>1 DEF Ordered, Good, FlagsInv
  <2>3. /\ Quiet(client'[x]) /\ client'[x].torn = client[x].torn
        /\ client'[x].open = client[x].open /\ client'[x].inbox = client[x].inbox
        /\ client[x].open =>
             \A id \in Results : ToSend(client'[x], id) <=> ToSend(client[x], id)
    <3>1. CASE x \notin connected
      BY <1>3, <2>2, <3>1
    <3>2. CASE x \in connected
      <4>1. State(x) \in StateType /\ State(x).c = client[x]
        BY StateFields, ZenonT(30)
      <4>2. Goes(x, State(x), t(x)) /\ OneMoreToSend(State(x), t(x), Heartbeat)
        BY <1>4, <2>2, <4>1, SendGoes
      <4>3. client'[x] = t(x).c
        BY <1>3, <3>2
      <4> HIDE DEF t
      <4>4. QED
        BY <1>4, <4>1, <4>2, <4>3 DEF Goes, OneMoreToSend
    <3>3. QED
      BY <3>1, <3>2
  <2>4. client'[x].open => \A id \in Results :
          Unanswered(client'[x], EventsOf(io', x), id)
            <=> Unanswered(client[x], EventsOf(io, x), id)
    BY <1>5, <2>3 DEF Unanswered, ToSend
  <2>5. Ordered(client'[x], EventsOf(io', x), got[x], sent[x])
    BY <1>5, <2>1, <2>3, <2>4, StaysOrdered, ZenonT(30)
  <2>6. QED
    BY <1>3, <2>5
<1>7. QED
  BY <1>3, <1>6 DEF OrderInv

----------------------------------------------------------------------------
(* The network and the peers.                                              *)

\* One more message from the peer.
LEMMA OneMoreMessage ==
  ASSUME NEW c \in ClientType, NEW E, NEW g \in Seq(Messages), NEW n \in Seq(Results),
         Ordered(c, E, g, n), NEW m \in Results, NEW c2,
         c2.inbox = Append(c.inbox, m), c2.open = c.open, c2.torn = c.torn,
         c2.reading = c.reading, c2.sending = c.sending,
         c2.pendingSends = c.pendingSends
  PROVE  Ordered(c2, E, g, Append(n, m))
<1> DEFINE n2 == Append(n, m)
<1>1. /\ Len(n2) = Len(n) + 1 /\ Len(n) \in Nat /\ Len(g) \in Nat
      /\ n2[Len(n) + 1] = m /\ \A i \in 1..Len(n) : n2[i] = n[i]
  OBVIOUS
<1>2. /\ Len(c2.inbox) = Len(c.inbox) + 1 /\ Len(c.inbox) \in Nat
      /\ c2.inbox[Len(c.inbox) + 1] = m
      /\ \A i \in 1..Len(c.inbox) : c2.inbox[i] = c.inbox[i]
  BY DEF ClientType
<1> HIDE DEF n2
<1>3. Answered(g, n) => Answered(g, n2)
  BY <1>1 DEF Answered
<1>4. ASSUME NEW o \in Nat, Unread(c, g, n, o)
      PROVE  Unread(c2, g, n2, o)
  <2> DEFINE a == Len(g)
             k == Len(c.inbox)
  <2>1. Len(n) = a + o + k /\ a \in Nat /\ k \in Nat
    BY <1>1, <1>2, <1>4 DEF Unread
  <2>2. /\ Len(n2) = (a + o + k) + 1 /\ n2[(a + o + k) + 1] = m
        /\ \A i \in 1..(a + o + k) : n2[i] = n[i]
        /\ Len(c2.inbox) = k + 1 /\ c2.inbox[k + 1] = m
        /\ \A i \in 1..k : c2.inbox[i] = c.inbox[i]
        /\ \A i \in 1..k : c.inbox[i] = n[a + o + i]
    BY <1>1, <1>2, <1>4, <2>1, ZenonT(30) DEF Unread
  <2> HIDE DEF a, k
  <2>3. Len(n2) = a + o + Len(c2.inbox)
    BY <2>1, <2>2
  <2>4. ASSUME NEW i \in 1..(k + 1)
        PROVE  c2.inbox[i] = n2[a + o + i]
    <3>1. CASE i = k + 1
      <4>1. a + o + i = (a + o + k) + 1
        BY <2>1, <3>1
      <4>2. QED
        BY <2>2, <3>1, <4>1
    <3>2. CASE i # k + 1
      <4>1. i \in 1..k /\ a + o + i \in 1..(a + o + k)
        BY <2>1, <3>2
      <4>2. QED
        BY <2>2, <4>1
    <3>3. QED
      BY <3>1, <3>2, ZenonT(30)
  <2>5. QED
    BY <2>2, <2>3, <2>4 DEF Unread, a
<1>5. Unread(c, g, n, 1) => n2[Len(g) + 1] = n[Len(g) + 1]
  <2> SUFFICES ASSUME Unread(c, g, n, 1) PROVE n2[Len(g) + 1] = n[Len(g) + 1]
    OBVIOUS
  <2>1. Len(n) = Len(g) + 1 + Len(c.inbox)
    BY DEF Unread
  <2>2. Len(g) + 1 \in 1..Len(n)
    <3> DEFINE a == Len(g)
               k == Len(c.inbox)
    <3>1. a \in Nat /\ k \in Nat /\ Len(n) = a + 1 + k
      BY <1>1, <1>2, <2>1
    <3> HIDE DEF a, k
    <3>2. a + 1 \in 1..(a + 1 + k)
      BY <3>1
    <3>3. QED
      BY <3>1, <3>2 DEF a
  <2>3. QED
    BY <1>1, <2>2
<1>6. \A id : Unanswered(c2, E, id) <=> Unanswered(c, E, id)
  BY DEF Unanswered
<1>7. InStep(c, E, g, n) => InStep(c2, E, g, n2)
  BY <1>4, <1>5, <1>6 DEF InStep
<1>8. Ordered(c2, E, g, n2)
  BY <1>3, <1>7 DEF Ordered, Quiet
<1>9. QED
  BY <1>8 DEF n2

\* A query of the peer waits to be read.
LEMMA PeerSendsOrder ==
  ASSUME IInv, OrderInv, NEW x \in Clients, PeerSends(x)
  PROVE  OrderInv'
<1>1. PICK m \in Ids \cup {"invalid"} :
        /\ client' = [client EXCEPT ![x].inbox = Append(@, m)]
        /\ sent' = [sent EXCEPT ![x] = Append(@, m)]
  BY ZenonT(30) DEF PeerSends
<1> DEFINE more == Append(client[x].inbox, m)
           c == [client[x] EXCEPT !.inbox = more]
           n == Append(sent[x], m)
<1>2. /\ client[x] \in ClientType /\ TypeInv /\ io' = io /\ m \in Results
      /\ client \in [Clients -> ClientType]
      /\ got[x] \in Seq(Messages) /\ sent[x] \in Seq(Results)
      /\ got' = [got EXCEPT ![x] = got[x]]
      /\ Ordered(client[x], EventsOf(io, x), got[x], sent[x])
  BY DEF IInv, TypeInv, PeerSends, OrderInv, Results
<1>3. more \in Seq(Results) /\ n \in Seq(Results)
  BY <1>2 DEF ClientType
<1>4. client' = [client EXCEPT ![x] = c] /\ sent' = [sent EXCEPT ![x] = n]
  BY <1>1, <1>2
<1> HIDE DEF more
<1>5. /\ c \in ClientType /\ c.inbox = more
      /\ c.open = client[x].open /\ c.torn = client[x].torn
      /\ c.reading = client[x].reading /\ c.sending = client[x].sending
      /\ c.pendingSends = client[x].pendingSends
  BY <1>2, <1>3, ZenonT(30) DEF ClientType
<1> HIDE DEF c
<1>6. Ordered(c, EventsOf(io, x), got[x], n) /\ OthersSame(x, io, io)
  BY <1>2, <1>5, OneMoreMessage DEF more, OthersSame
<1> HIDE DEF n
<1>7. QED
  BY <1>2, <1>3, <1>4, <1>5, <1>6, OrderChange, ZenonT(30)

\* A connection that reads owes no answer, and has not read what the peer sent
\* after the queries it answered.
LEMMA ReadingInStep ==
  ASSUME IInv, OrderInv, NEW x \in Clients, client[x].reading
  PROVE  /\ client[x].open
         /\ \A id : ~Unanswered(client[x], EventsOf(io, x), id)
         /\ ~client[x].torn => Unread(client[x], got[x], sent[x], 0)
<1> DEFINE c == client[x]
           E == EventsOf(io, x)
<1>1. Good(x, c, io) /\ Ordered(c, E, got[x], sent[x])
  BY DEF IInv, OrderInv
<1>2. /\ NoRun(io, x, "read") /\ NoAnswer(c.pendingSends) /\ NoAnswer(c.sending)
      /\ NoAnswerSent(io, x)
  BY <1>1 DEF Good, FlagsInv, TurnInv, NothingToSend
<1>3. c.open
  BY <1>1 DEF Ordered, Quiet
<1>4. ~Failing(E) /\ \A id : ~ReadOf(E, id)
  BY <1>2 DEF Failing, ReadOf, EventsOf, NoRun, NoAnswerSent, Is
<1>5. \A id : ~Unanswered(c, E, id)
  BY <1>2, <1>4 DEF Unanswered, HasAnswer, NoAnswer
<1>6. ~c.torn => Unread(c, got[x], sent[x], 0)
  BY <1>1, <1>3, <1>4, <1>5, ZenonT(30) DEF Ordered, InStep
<1>7. QED
  BY <1>3, <1>5, <1>6

\* A read that ends of itself: a handler of what is first in the socket, or of a
\* failure.
LEMMA ReadCompletesOrder ==
  ASSUME IInv, OrderInv, NEW x \in Clients, ReadCompletes(x)
  PROVE  OrderInv'
<1> DEFINE inbox == client[x].inbox
           rest == Tail(inbox)
           c == [client[x] EXCEPT !.reading = FALSE, !.inbox = rest]
           e == [run |-> "read", client |-> x, res |-> Head(inbox)]
           E == EventsOf(io, x)
           g == got[x]
           n == sent[x]
<1>1. /\ client[x] \in ClientType /\ client \in [Clients -> ClientType] /\ TypeInv
      /\ io \in Seq(Events) /\ client[x].reading /\ inbox # <<>>
      /\ g \in Seq(Messages) /\ n \in Seq(Results)
      /\ got' = [got EXCEPT ![x] = g] /\ sent' = [sent EXCEPT ![x] = n]
      /\ Ordered(client[x], E, g, n)
  BY DEF IInv, TypeInv, OrderInv, ReadCompletes
<1>2. /\ inbox \in Seq(Results) /\ rest \in Seq(Results) /\ Head(inbox) \in Results
      /\ Len(inbox) \in Nat \ {0} /\ Len(rest) = Len(inbox) - 1
      /\ Head(inbox) = inbox[1] /\ \A i \in 1..Len(rest) : rest[i] = inbox[i + 1]
  BY <1>1 DEF ClientType
<1>3. client' = [client EXCEPT ![x] = c] /\ io' = Append(io, e)
  BY <1>1, ZenonT(30) DEF ReadCompletes
<1>4. e \in Events /\ e.client = x /\ e.run = "read" /\ e.res = Head(inbox)
  BY <1>2, ZenonT(30) DEF Events, ReadEvents
<1>5. /\ client[x].open /\ \A id : ~Unanswered(client[x], E, id)
      /\ ~client[x].torn => Unread(client[x], g, n, 0)
  BY <1>1, ReadingInStep
<1> HIDE DEF rest, e
<1>6. /\ c \in ClientType /\ c.inbox = rest /\ ~c.reading
      /\ c.open = client[x].open /\ c.torn = client[x].torn
      /\ c.sending = client[x].sending /\ c.pendingSends = client[x].pendingSends
  BY <1>1, <1>2, ZenonT(30) DEF ClientType
<1>7. EventsOf(Append(io, e), x) = E \cup {e} /\ OthersSame(x, io, Append(io, e))
  BY <1>1, <1>4, OneMoreEvent
<1> HIDE DEF c, E
<1>8. \A id : Unanswered(c, E \cup {e}, id) <=> id = Head(inbox)
  BY <1>4, <1>5, <1>6 DEF Unanswered, ReadOf
<1>9. ASSUME ~c.torn
      PROVE  Unread(c, g, n, 1) /\ Head(inbox) = n[Len(g) + 1]
  <2> DEFINE a == Len(g)
             k == Len(inbox)
  <2>1. /\ Len(n) = a + 0 + k /\ a \in Nat /\ k \in Nat \ {0}
        /\ \A i \in 1..k : inbox[i] = n[a + 0 + i]
    <3>1. Unread(client[x], g, n, 0)
      BY <1>5, <1>6, <1>9
    <3>2. a \in Nat /\ k \in Nat \ {0}
      BY <1>1, <1>2
    <3>3. QED
      BY <3>1, <3>2 DEF Unread
  <2>2. /\ Len(c.inbox) = k - 1 /\ Head(inbox) = inbox[1]
        /\ \A i \in 1..(k - 1) : c.inbox[i] = inbox[i + 1]
    BY <1>2, <1>6
  <2> HIDE DEF a, k, inbox
  <2>3. Len(n) = a + 1 + Len(c.inbox)
    BY <2>1, <2>2
  <2>4. ASSUME NEW i \in 1..(k - 1)
        PROVE  c.inbox[i] = n[a + 1 + i]
    <3>1. i + 1 \in 1..k /\ a + 0 + (i + 1) = a + 1 + i
      BY <2>1
    <3>2. QED
      BY <2>1, <2>2, <3>1
  <2>5. 1 \in 1..k /\ a + 0 + 1 = a + 1
    BY <2>1
  <2>6. Head(inbox) = n[a + 1]
    BY <2>1, <2>2, <2>5
  <2>7. QED
    BY <2>2, <2>3, <2>4, <2>6 DEF Unread, a
<1>10. Ordered(c, E \cup {e}, g, n)
  BY <1>1, <1>2, <1>5, <1>6, <1>8, <1>9, ZenonT(30) DEF Ordered, Quiet, InStep
<1>11. Ordered(c, EventsOf(Append(io, e), x), g, n)
  BY <1>7, <1>10
<1> HIDE DEF g, n, inbox
<1>12. QED
  BY <1>1, <1>3, <1>6, <1>7, <1>11, OrderChange, ZenonT(30)

\* A read that fails dooms the connection, whose answers stay as they are.
LEMMA ReadFailsOrder ==
  ASSUME IInv, OrderInv, NEW x \in Clients, ReadFails(x)
  PROVE  OrderInv'
<1> DEFINE c == [client[x] EXCEPT !.reading = FALSE]
           e == [run |-> "read", client |-> x, res |-> "fail"]
           E == EventsOf(io, x)
<1>1. /\ client[x] \in ClientType /\ client \in [Clients -> ClientType] /\ TypeInv
      /\ io \in Seq(Events)
      /\ got[x] \in Seq(Messages) /\ sent[x] \in Seq(Results)
      /\ got' = [got EXCEPT ![x] = got[x]] /\ sent' = [sent EXCEPT ![x] = sent[x]]
      /\ Ordered(client[x], E, got[x], sent[x])
  BY DEF IInv, TypeInv, OrderInv, ReadFails
<1>2. client' = [client EXCEPT ![x] = c] /\ io' = Append(io, e)
  BY <1>1 DEF ReadFails
<1>3. e \in Events /\ e.client = x /\ e.run = "read" /\ e.res = "fail"
  BY DEF Events, ReadEvents, Results
<1> HIDE DEF e
<1>4. /\ c \in ClientType /\ ~c.reading /\ c.sending = client[x].sending
      /\ c.open = client[x].open /\ c.torn = client[x].torn
  BY <1>1, ZenonT(30) DEF ClientType
<1>5. EventsOf(Append(io, e), x) = E \cup {e} /\ OthersSame(x, io, Append(io, e))
  BY <1>1, <1>3, OneMoreEvent
<1> HIDE DEF c, E
<1>6. Failing(E \cup {e})
  <2>1. e \in E \cup {e}
    OBVIOUS
  <2>2. QED
    BY <1>3, <2>1 DEF Failing
<1>7. Ordered(c, E \cup {e}, got[x], sent[x])
  BY <1>1, <1>4, <1>6 DEF Ordered, Quiet
<1>8. QED
  BY <1>1, <1>2, <1>4, <1>5, <1>7, OrderChange, ZenonT(60)

\* The peer gets the answer to the first message it has no answer to.
LEMMA AnswerReceived ==
  ASSUME NEW c \in ClientType, NEW g \in Seq(Messages), NEW n \in Seq(Results),
         NEW m \in Messages, Answered(g, n), Unread(c, g, n, 1), m.id = n[Len(g) + 1],
         NEW c2, c2.inbox = c.inbox
  PROVE  Answered(Append(g, m), n) /\ Unread(c2, Append(g, m), n, 0)
<1> DEFINE a == Len(g)
           k == Len(c.inbox)
           g2 == Append(g, m)
<1>1. /\ a \in Nat /\ k \in Nat /\ Len(g2) = a + 1 /\ g2[a + 1] = m
      /\ \A i \in 1..a : g2[i] = g[i]
  BY DEF ClientType
<1>2. /\ Len(n) = a + 1 + k /\ \A i \in 1..k : c.inbox[i] = n[a + 1 + i]
      /\ \A i \in 1..a : g[i].id = n[i]
  BY ZenonT(30) DEF Answered, Unread
<1>3. Len(c2.inbox) = k
  OBVIOUS
<1> HIDE DEF g2, k
<1>4. Answered(g2, n)
  <2>1. a + 1 <= Len(n)
    BY <1>1, <1>2
  <2>2. ASSUME NEW i \in 1..(a + 1)
        PROVE  g2[i].id = n[i]
    <3>1. CASE i = a + 1
      BY <1>1, <3>1
    <3>2. CASE i # a + 1
      <4>1. i \in 1..a
        BY <1>1, <3>2
      <4>2. QED
        BY <1>1, <1>2, <4>1
    <3>3. QED
      BY <3>1, <3>2
  <2>3. QED
    BY <1>1, <2>1, <2>2 DEF Answered
<1>5. Unread(c2, g2, n, 0)
  <2>1. (a + 1) + 0 = a + 1 /\ Len(n) = (a + 1) + 0 + k
    BY <1>1, <1>2
  <2>2. \A i \in 1..k : c2.inbox[i] = n[(a + 1) + 0 + i]
    BY <1>2, <2>1
  <2>3. QED
    BY <1>1, <1>3, <2>1, <2>2 DEF Unread
<1>6. QED
  BY <1>4, <1>5 DEF g2

\* A send that ends gives the peer the answer it is waiting for, or fails.
LEMMA SendCompletesOrder ==
  ASSUME IInv, OrderInv, NEW x \in Clients, SendCompletes(x)
  PROVE  OrderInv'
<1> DEFINE m == Head(client[x].sending)
           E == EventsOf(io, x)
<1>1. PICK r \in {"ok", "short", "fail"} :
        /\ client' = [client EXCEPT ![x].sending = <<>>, ![x].torn = @ \/ r = "short"]
        /\ io' = Append(io, [run |-> "send", client |-> x, msg |-> m,
                             res |-> IF r = "fail" THEN r ELSE "ok"])
        /\ got' = IF r = "ok" /\ m.kind # "heartbeat"
                  THEN [got EXCEPT ![x] = Append(@, m)] ELSE got
  BY ZenonT(30) DEF SendCompletes
<1>2. /\ client[x] \in ClientType /\ client \in [Clients -> ClientType] /\ TypeInv
      /\ io \in Seq(Events) /\ client[x].sending # <<>>
      /\ got[x] \in Seq(Messages) /\ sent[x] \in Seq(Results)
      /\ got \in [Clients -> Seq(Messages)]
      /\ sent' = [sent EXCEPT ![x] = sent[x]]
      /\ Ordered(client[x], E, got[x], sent[x]) /\ Good(x, client[x], io)
  BY DEF IInv, TypeInv, OrderInv, SendCompletes
<1>3. /\ m \in Messages /\ (IsAnswer(m) => m.id \in Results)
      /\ IsAnswer(m) => ~NoAnswer(client[x].sending)
      /\ \A id : HasAnswer(client[x].sending, id) <=> IsAnswer(m) /\ m.id = id
  <2>1. client[x].sending \in Seq(Messages) /\ Len(client[x].sending) <= 1
    BY <1>2 DEF ClientType, Good, FlagsInv
  <2>2. Len(client[x].sending) = 1 /\ m = client[x].sending[1] /\ m \in Messages
    <3> DEFINE w == client[x].sending
    <3>1. w \in Seq(Messages) /\ Len(w) <= 1 /\ w # <<>> /\ m = Head(w)
      BY <1>2, <2>1
    <3> HIDE DEF w, m
    <3>2. Len(w) \in Nat /\ Len(w) # 0
      BY <3>1
    <3>3. Len(w) = 1
      <4> DEFINE a == Len(w)
      <4>1. a \in Nat /\ a # 0 /\ a <= 1
        BY <3>1, <3>2
      <4> HIDE DEF a
      <4>2. a = 1
        BY <4>1
      <4>3. QED
        BY <4>2 DEF a
    <3>4. w[1] \in Messages
      BY <3>1, <3>3
    <3>5. Head(w) = w[1]
      BY <3>1
    <3>6. Len(w) = 1 /\ m = w[1] /\ m \in Messages
      BY <3>1, <3>3, <3>4, <3>5
    <3>7. QED
      BY <3>6 DEF w
  <2> HIDE DEF m
  <2>3. IsAnswer(m) => m.id \in Results
    BY <2>2 DEF Messages, IsAnswer, Heartbeat, Results
  <2>4. QED
    BY <2>2, <2>3 DEF NoAnswer, HasAnswer
<1> HIDE DEF m
<1> DEFINE none == <<>>
           tear == client[x].torn \/ r = "short"
           c == [client[x] EXCEPT !.sending = none, !.torn = tear]
           e == [run |-> "send", client |-> x, msg |-> m,
                 res |-> IF r = "fail" THEN r ELSE "ok"]
           g == IF r = "ok" /\ IsAnswer(m) THEN Append(got[x], m) ELSE got[x]
<1>4. /\ e \in Events /\ e.client = x /\ e.msg = m /\ e.run = "send"
      /\ e.res = (IF r = "fail" THEN r ELSE "ok")
  BY <1>3 DEF Events, SendEvents
<1>5. /\ client' = [client EXCEPT ![x] = c] /\ io' = Append(io, e)
      /\ got' = [got EXCEPT ![x] = g] /\ g \in Seq(Messages)
  <2>1. client' = [client EXCEPT ![x] = c] /\ io' = Append(io, e)
    BY <1>1, ZenonT(30)
  <2>2. CASE r = "ok" /\ IsAnswer(m)
    <3>1. g = Append(got[x], m) /\ g \in Seq(Messages)
      BY <1>2, <1>3, <2>2
    <3>2. got' = [got EXCEPT ![x] = Append(@, m)]
      BY <1>1, <2>2 DEF IsAnswer
    <3>3. QED
      BY <2>1, <3>1, <3>2, ZenonT(30)
  <2>3. CASE ~(r = "ok" /\ IsAnswer(m))
    <3>1. g = got[x] /\ got' = got
      BY <1>1, <2>3 DEF IsAnswer
    <3> HIDE DEF g
    <3>2. got' = [got EXCEPT ![x] = g] /\ g \in Seq(Messages)
      BY <1>2, <3>1
    <3>3. QED
      BY <2>1, <3>2
  <2>4. QED
    BY <2>2, <2>3
<1>6. /\ none \in Seq(Messages) /\ tear \in BOOLEAN /\ none = <<>>
      /\ \A id : ~HasAnswer(none, id)
  BY DEF HasAnswer
<1> HIDE DEF none, e
<1>7. /\ c \in ClientType /\ c.sending = none /\ c.torn = tear
      /\ c.open = client[x].open /\ c.inbox = client[x].inbox
      /\ c.reading = client[x].reading /\ c.pendingSends = client[x].pendingSends
  <2> HIDE DEF tear
  <2>1. QED
    BY <1>2, <1>6, ZenonT(30) DEF ClientType
<1>8. EventsOf(Append(io, e), x) = E \cup {e} /\ OthersSame(x, io, Append(io, e))
  BY <1>2, <1>4, OneMoreEvent
<1> HIDE DEF c
<1>9. client[x].open /\ Quiet(c)
  BY <1>2, <1>7 DEF Ordered, Quiet
<1>10. /\ \A id : ReadOf(E \cup {e}, id) <=> ReadOf(E, id)
       /\ Failing(E) => Failing(E \cup {e})
       /\ r = "fail" /\ IsAnswer(m) => Failing(E \cup {e})
  BY <1>4 DEF ReadOf, Failing
<1>11. Ordered(c, E \cup {e}, g, sent[x])
  <2>1. CASE r = "short"
    BY <1>7, <1>9, <2>1, ZenonT(30) DEF Ordered
  <2>2. CASE r # "short" /\ ~IsAnswer(m)
    <3>1. c.torn = client[x].torn /\ g = got[x]
      BY <1>2, <1>7, <2>2 DEF ClientType
    <3>2. \A id \in Results :
            Unanswered(c, E \cup {e}, id) <=> Unanswered(client[x], E, id)
      BY <1>3, <1>6, <1>7, <1>10, <2>2, ZenonT(30) DEF Unanswered
    <3> HIDE DEF E, g
    <3>3. QED
      BY <1>2, <1>7, <1>9, <1>10, <3>1, <3>2, StaysOrdered, ZenonT(30)
  <2>3. CASE r = "fail" /\ IsAnswer(m)
    <3>1. (~c.torn => ~client[x].torn) /\ g = got[x]
      BY <1>7, <2>3, ZenonT(30)
    <3>2. QED
      BY <1>2, <1>9, <1>10, <2>3, <3>1 DEF Ordered
  <2>4. CASE r = "ok" /\ IsAnswer(m)
    <3>1. /\ NoRun(io, x, "read") /\ NoRun(io, x, "send")
          /\ NoAnswer(client[x].pendingSends)
      BY <1>2, <1>3, <2>4 DEF Good, FlagsInv, TurnInv, NothingToSend
    <3>2. ~Failing(E) /\ \A id : ~ReadOf(E, id)
      BY <3>1 DEF Failing, ReadOf, EventsOf, NoRun, Is
    <3>3. \A id : ~Unanswered(c, E \cup {e}, id)
      BY <1>6, <1>7, <1>10, <3>1, <3>2, ZenonT(30) DEF Unanswered, HasAnswer, NoAnswer
    <3>4. Unanswered(client[x], E, m.id) /\ m.id \in Results
      BY <1>3, <2>4 DEF Unanswered
    <3>5. CASE c.torn
      BY <1>9, <3>5 DEF Ordered
    <3>6. CASE ~c.torn
      <4>1. /\ Answered(got[x], sent[x]) /\ InStep(client[x], E, got[x], sent[x])
        BY <1>2, <1>7, <1>9, <3>2, <3>6, ZenonT(30) DEF Ordered
      <4>2. Unread(client[x], got[x], sent[x], 1) /\ m.id = sent[x][Len(got[x]) + 1]
        BY <3>4, <4>1 DEF InStep
      <4>3. Answered(g, sent[x]) /\ Unread(c, g, sent[x], 0)
        BY <1>2, <1>3, <1>7, <2>4, <4>1, <4>2, AnswerReceived, ZenonT(30)
      <4>4. QED
        BY <1>9, <3>3, <4>3, ZenonT(30) DEF Ordered, InStep
    <3>7. QED
      BY <3>5, <3>6
  <2>5. QED
    BY <2>1, <2>2, <2>3, <2>4
<1>12. Ordered(c, EventsOf(Append(io, e), x), g, sent[x])
  BY <1>8, <1>11
<1> HIDE DEF g, E
<1>13. QED
  BY <1>2, <1>5, <1>7, <1>8, <1>12, OrderChange, ZenonT(30)

----------------------------------------------------------------------------
(* The theorem.                                                            *)

\* No peer has sent or received anything at the start.
LEMMA InitOrder == Init => OrderInv
<1> SUFFICES ASSUME Init PROVE OrderInv
  OBVIOUS
<1>1. /\ got \in [Clients -> Seq(Messages)] /\ sent \in [Clients -> Seq(Results)]
  BY DEF Init
<1>2. ASSUME NEW x \in Clients
      PROVE  Ordered(client[x], EventsOf(io, x), got[x], sent[x])
  <2>1. /\ client[x].open /\ client[x].inbox = <<>> /\ got[x] = <<>> /\ sent[x] = <<>>
        /\ client[x].pendingSends = <<>> /\ client[x].sending = <<>> /\ io = <<>>
    BY DEF Init, NewClient
  <2>2. EventsOf(io, x) = {}
    BY <2>1 DEF EventsOf
  <2>3. \A id : ~Unanswered(client[x], EventsOf(io, x), id)
    BY <2>1, <2>2 DEF Unanswered, HasAnswer, ReadOf
  <2>4. Unread(client[x], got[x], sent[x], 0) /\ Answered(got[x], sent[x])
    BY <2>1 DEF Unread, Answered
  <2>5. QED
    BY <2>1, <2>3, <2>4 DEF Ordered, Quiet, InStep
<1>3. QED
  BY <1>1, <1>2 DEF OrderInv

\* Every step keeps the order of the answers.
LEMMA NextOrder == IInv /\ OrderInv /\ [Next]_vars => OrderInv'
<1> SUFFICES ASSUME IInv, OrderInv, [Next]_vars PROVE OrderInv'
  OBVIOUS
<1>1. CASE ReadDone
  BY <1>1, ReadDoneOrder
<1>2. CASE SendDone
  BY <1>2, SendDoneOrder
<1>3. CASE doHeartBeat
  BY <1>3, HeartbeatOrder
<1>4. CASE Stored \/ UNCHANGED vars
  BY <1>4 DEF Stored, vars, OrderInv
<1>5. ASSUME NEW x \in Clients, handleAfterAccept(x)
      PROVE  OrderInv'
  BY <1>5, AcceptOrder
<1>6. ASSUME NEW x \in Clients, PeerSends(x)
      PROVE  OrderInv'
  BY <1>6, PeerSendsOrder
<1>7. ASSUME NEW x \in Clients, ReadCompletes(x)
      PROVE  OrderInv'
  BY <1>7, ReadCompletesOrder
<1>8. ASSUME NEW x \in Clients, ReadFails(x)
      PROVE  OrderInv'
  BY <1>8, ReadFailsOrder
<1>9. ASSUME NEW x \in Clients, SendCompletes(x)
      PROVE  OrderInv'
  BY <1>9, SendCompletesOrder
<1>10. QED
  BY <1>1, <1>2, <1>3, <1>4, <1>5, <1>6, <1>7, <1>8, <1>9 DEF Next

\* For any number of connections, queries, heartbeats and failures: the answers a
\* peer receives are those to its queries, in their order, and a connection reads
\* the next query only when all it has read are answered.
THEOREM AnswersAreInOrder == Spec => []AnswersInOrder
<1>1. IInv /\ OrderInv => AnswersInOrder
  <2> SUFFICES ASSUME IInv, OrderInv, NEW x \in Clients, ~client[x].torn
               PROVE  /\ Answered(got[x], sent[x])
                      /\ client[x].open /\ client[x].reading
                           => Len(got[x]) + Len(client[x].inbox) = Len(sent[x])
    BY ZenonT(30) DEF AnswersInOrder, Answered
  <2>1. Answered(got[x], sent[x]) /\ got[x] \in Seq(Messages)
        /\ client[x] \in ClientType
    BY DEF OrderInv, Ordered, IInv, TypeInv
  <2>2. ASSUME client[x].reading
        PROVE  Len(got[x]) + Len(client[x].inbox) = Len(sent[x])
    <3> DEFINE a == Len(got[x])
               k == Len(client[x].inbox)
    <3>1. Len(sent[x]) = a + 0 + k
      BY <2>2, ReadingInStep, ZenonT(30) DEF Unread
    <3>2. a \in Nat /\ k \in Nat
      BY <2>1 DEF ClientType
    <3> HIDE DEF a, k
    <3>3. a + 0 + k = a + k
      BY <3>2
    <3>4. QED
      BY <3>1, <3>3 DEF a, k
  <2>3. QED
    BY <2>1, <2>2, ZenonT(30)
<1>2. QED
  BY <1>1, InitIInv, NextIInv, InitOrder, NextOrder, PTL DEF Spec
=============================================================================
