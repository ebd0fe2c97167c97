--------------------- MODULE IntraMeshQueryClientProofs ---------------------
(***************************************************************************)
(* The flags of a query connection count its outstanding operations, for   *)
(* any number of connections, queries and failures.                        *)
(***************************************************************************)
EXTENDS IntraMeshQueryClient, FiniteSetTheorems, TLAPS

----------------------------------------------------------------------------
(* Types.                                                                  *)

Results == Ids \cup {"invalid", "fail"}

Messages == {Heartbeat} \cup [kind : {"found", "notFound", "error"}, id : Ids]

ReadEvents == [run : {"read"}, client : Clients, res : Results]

SendEvents == [run : {"send"}, client : Clients, msg : Messages, res : {"ok", "fail"}]

Events == ReadEvents \cup SendEvents

ClientType ==
  [open : BOOLEAN, sendActive : BOOLEAN, recvActive : BOOLEAN,
   pendingSends : Seq(Messages), reading : BOOLEAN, sending : Seq(Messages),
   inbox : Seq(Results), torn : BOOLEAN]

StateType == [c : ClientType, io : Seq(Events), gone : BOOLEAN]

TypeInv ==
  /\ client \in [Clients -> ClientType]
  /\ connected \in SUBSET Clients
  /\ io \in Seq(Events)

----------------------------------------------------------------------------
(* What a queue q of handlers holds for connection x.                      *)

Is(e, x, run) == e.run = run /\ e.client = x

NoRun(q, x, run) == \A i \in 1..Len(q) : ~Is(q[i], x, run)

OneRun(q, x, run) ==
  \A i, j \in 1..Len(q) : Is(q[i], x, run) /\ Is(q[j], x, run) => i = j

IsAnswer(m) == m.kind # "heartbeat"

NoAnswer(ms) == \A i \in 1..Len(ms) : ~IsAnswer(ms[i])

OneAnswer(ms) == \A i, j \in 1..Len(ms) : IsAnswer(ms[i]) /\ IsAnswer(ms[j]) => i = j

NoAnswerSent(q, x) == \A i \in 1..Len(q) : Is(q[i], x, "send") => ~IsAnswer(q[i].msg)

----------------------------------------------------------------------------
(* The inductive invariant.  That no second read is started needs to know  *)
(* whose turn it is: a connection reads, or one answer waits, is being     *)
(* sent or has been sent.                                                  *)

FlagsInv(x, c, q) ==
  /\ OneRun(q, x, "read") /\ OneRun(q, x, "send") /\ Len(c.sending) <= 1
  /\ c.reading => NoRun(q, x, "read")
  /\ c.sending # <<>> => NoRun(q, x, "send")
  /\ c.recvActive <=> c.reading \/ ~NoRun(q, x, "read")
  /\ c.sendActive <=> c.sending # <<>> \/ ~NoRun(q, x, "send")

NothingToSend(x, c, q) == NoAnswer(c.sending) /\ NoAnswerSent(q, x)

TurnInv(x, c, q) ==
  /\ c.recvActive => NoAnswer(c.pendingSends) /\ NothingToSend(x, c, q)
  /\ ~NoAnswer(c.pendingSends) => NothingToSend(x, c, q)
  /\ OneAnswer(c.pendingSends)

Good(x, c, q) == FlagsInv(x, c, q) /\ TurnInv(x, c, q)

Idle(c) == ~c.recvActive /\ ~c.sendActive

IInv ==
  /\ TypeInv
  /\ \A x \in Clients : Good(x, client[x], io)
  /\ \A x \in Clients \ connected : Idle(client[x])

----------------------------------------------------------------------------
(* Queues that grow at the end and shrink at the front.                    *)

\* q2 holds for the connections other than x what q holds for them.
SameForOthers(x, q, q2) ==
  \A y \in Clients \ {x} :
    /\ \A run \in {"read", "send"} :
         /\ NoRun(q2, y, run) <=> NoRun(q, y, run)
         /\ OneRun(q, y, run) => OneRun(q2, y, run)
    /\ NoAnswerSent(q, y) => NoAnswerSent(q2, y)

\* A handler that is queued (Append) is one more for its own connection only.
LEMMA AppendRuns ==
  ASSUME NEW q \in Seq(Events), NEW e \in Events, NEW x, NEW run
  PROVE  /\ NoRun(Append(q, e), x, run) <=> NoRun(q, x, run) /\ ~Is(e, x, run)
         /\ OneRun(q, x, run) /\ (~Is(e, x, run) \/ NoRun(q, x, run))
              => OneRun(Append(q, e), x, run)
         /\ NoAnswerSent(Append(q, e), x)
              <=> NoAnswerSent(q, x) /\ (Is(e, x, "send") => ~IsAnswer(e.msg))
<1> DEFINE p == Append(q, e)
<1>1. /\ Len(p) = Len(q) + 1 /\ Len(q) \in Nat
      /\ \A i \in 1..Len(q) : p[i] = q[i]
      /\ p[Len(q) + 1] = e
  OBVIOUS
<1>2. 1..Len(p) = 1..Len(q) \cup {Len(q) + 1}
  BY <1>1
<1> HIDE DEF p
<1>3. NoRun(p, x, run) <=> NoRun(q, x, run) /\ ~Is(e, x, run)
  BY <1>1, <1>2 DEF NoRun
<1>4. OneRun(q, x, run) /\ (~Is(e, x, run) \/ NoRun(q, x, run)) => OneRun(p, x, run)
  BY <1>1, <1>2 DEF NoRun, OneRun
<1>5. NoAnswerSent(p, x)
        <=> NoAnswerSent(q, x) /\ (Is(e, x, "send") => ~IsAnswer(e.msg))
  BY <1>1, <1>2 DEF NoAnswerSent
<1>6. QED
  BY <1>3, <1>4, <1>5 DEF p

\* Running the handler in front (Tail) takes it away; it was the only one of
\* its kind for its connection.
LEMMA TailRuns ==
  ASSUME NEW q \in Seq(Events), q # <<>>, NEW x, NEW run
  PROVE  /\ ~Is(Head(q), x, run) => (NoRun(Tail(q), x, run) <=> NoRun(q, x, run))
         /\ OneRun(q, x, run) => OneRun(Tail(q), x, run)
         /\ Is(Head(q), x, run) /\ OneRun(q, x, run) => NoRun(Tail(q), x, run)
         /\ NoAnswerSent(q, x) => NoAnswerSent(Tail(q), x)
<1> DEFINE p == Tail(q)
<1>1. /\ Len(q) \in Nat \ {0} /\ Len(p) = Len(q) - 1 /\ Head(q) = q[1]
      /\ \A i \in 1..Len(p) : p[i] = q[i + 1]
  OBVIOUS
<1>2. /\ \A i \in 1..Len(p) : i + 1 \in 1..Len(q) /\ i + 1 # 1
      /\ 1 \in 1..Len(q)
  BY <1>1
<1>3. \A j \in 1..Len(q) : j = 1 \/ \E i \in 1..Len(p) : i + 1 = j
  <2> SUFFICES ASSUME NEW j \in 1..Len(q), j # 1
               PROVE  j - 1 \in 1..Len(p) /\ (j - 1) + 1 = j
    OBVIOUS
  <2> QED BY <1>1
<1> HIDE DEF p
<1>4. ~Is(Head(q), x, run) => (NoRun(p, x, run) <=> NoRun(q, x, run))
  BY <1>1, <1>2, <1>3, ZenonT(30) DEF NoRun
<1>5. OneRun(q, x, run) => OneRun(p, x, run)
  <2> SUFFICES ASSUME OneRun(q, x, run), NEW i \in 1..Len(p), NEW j \in 1..Len(p),
                      Is(p[i], x, run), Is(p[j], x, run)
               PROVE  i = j
    BY DEF OneRun
  <2>1. i + 1 = j + 1
    BY <1>1, <1>2 DEF OneRun
  <2> QED BY <2>1, <1>1
<1>6. Is(Head(q), x, run) /\ OneRun(q, x, run) => NoRun(p, x, run)
  BY <1>1, <1>2 DEF NoRun, OneRun
<1>7. NoAnswerSent(q, x) => NoAnswerSent(p, x)
  BY <1>1, <1>2 DEF NoAnswerSent
<1>8. QED
  BY <1>4, <1>5, <1>6, <1>7 DEF p

\* A handler queued for x, or one of x that runs, is none of the others'.
LEMMA OthersKeep ==
  ASSUME NEW q \in Seq(Events), NEW x \in Clients
  PROVE  /\ \A e \in Events : e.client = x => SameForOthers(x, q, Append(q, e))
         /\ q # <<>> /\ Head(q).client = x => SameForOthers(x, q, Tail(q))
         /\ SameForOthers(x, q, q)
<1>1. ASSUME NEW e \in Events, e.client = x
      PROVE  SameForOthers(x, q, Append(q, e))
  BY <1>1, AppendRuns DEF SameForOthers, Is
<1>2. ASSUME q # <<>>, Head(q).client = x
      PROVE  SameForOthers(x, q, Tail(q))
  BY <1>2, TailRuns DEF SameForOthers, Is
<1>3. QED
  BY <1>1, <1>2 DEF SameForOthers

\* The outstanding read of a connection becomes a handler of it: q is the queue,
\* c the connection before and d after.
LEMMA ReadQueued ==
  ASSUME NEW q \in Seq(Events), NEW e \in Events, NEW x, NEW c, NEW d,
         Is(e, x, "read"), ~Is(e, x, "send"), Good(x, c, q), c.reading, ~d.reading,
         d.recvActive = c.recvActive, d.sendActive = c.sendActive,
         d.sending = c.sending, d.pendingSends = c.pendingSends
  PROVE  Good(x, d, Append(q, e))
<1> DEFINE p == Append(q, e)
<1>1. /\ ~NoRun(p, x, "read") /\ (NoRun(p, x, "send") <=> NoRun(q, x, "send"))
      /\ OneRun(q, x, "read") /\ NoRun(q, x, "read") => OneRun(p, x, "read")
      /\ OneRun(q, x, "send") => OneRun(p, x, "send")
      /\ NoAnswerSent(p, x) <=> NoAnswerSent(q, x)
  BY AppendRuns
<1> HIDE DEF p
<1>2. Good(x, d, p)
  BY <1>1, ZenonT(30) DEF Good, FlagsInv, TurnInv, NothingToSend
<1>3. QED
  BY <1>2 DEF p

\* The same for the outstanding send.
LEMMA SendQueued ==
  ASSUME NEW q \in Seq(Events), NEW e \in Events, NEW x, NEW c, NEW d,
         Is(e, x, "send"), ~Is(e, x, "read"), Good(x, c, q),
         c.sending # <<>>, d.sending = <<>>, NoAnswer(c.sending) => ~IsAnswer(e.msg),
         d.recvActive = c.recvActive, d.sendActive = c.sendActive,
         d.reading = c.reading, d.pendingSends = c.pendingSends
  PROVE  Good(x, d, Append(q, e))
<1> DEFINE p == Append(q, e)
<1>1. /\ ~NoRun(p, x, "send") /\ (NoRun(p, x, "read") <=> NoRun(q, x, "read"))
      /\ OneRun(q, x, "send") /\ NoRun(q, x, "send") => OneRun(p, x, "send")
      /\ OneRun(q, x, "read") => OneRun(p, x, "read")
      /\ NoAnswerSent(p, x) <=> NoAnswerSent(q, x) /\ ~IsAnswer(e.msg)
  BY AppendRuns
<1>2. Len(d.sending) <= 1 /\ NoAnswer(d.sending)
  BY DEF NoAnswer
<1> HIDE DEF p
<1>3. Good(x, d, p)
  BY <1>1, <1>2, ZenonT(30) DEF Good, FlagsInv, TurnInv, NothingToSend
<1>4. QED
  BY <1>3 DEF p

\* What one connection does keeps the invariant of the others.
LEMMA OthersGood ==
  ASSUME NEW x \in Clients, NEW y \in Clients \ {x}, NEW c, NEW q, NEW q2,
         SameForOthers(x, q, q2), Good(y, c, q)
  PROVE  Good(y, c, q2)
BY DEF SameForOthers, Good, FlagsInv, TurnInv, NothingToSend

----------------------------------------------------------------------------
(* The operations of a connection.                                         *)

\* What s leads to for connection x: t, with no word about leaving the table.
Leads(x, s, t) ==
  /\ t \in StateType /\ Good(x, t.c, t.io) /\ t.gone = s.gone
  /\ SameForOthers(x, s.io, t.io)

\* Nothing of x waits to be read or answered.
NoTurn(x, s) ==
  /\ ~s.c.recvActive /\ NoAnswer(s.c.pendingSends) /\ NothingToSend(x, s.c, s.io)

\* The failures that close() and a closed socket queue are handlers of x.
LEMMA FailureEvents ==
  ASSUME NEW x \in Clients, NEW m \in Messages
  PROVE  /\ ReadFailed(x) \in Events /\ ReadFailed(x).client = x
         /\ Is(ReadFailed(x), x, "read") /\ ~Is(ReadFailed(x), x, "send")
         /\ SendFailed(x, m) \in Events /\ SendFailed(x, m).client = x
         /\ Is(SendFailed(x, m), x, "send") /\ ~Is(SendFailed(x, m), x, "read")
         /\ SendFailed(x, m).msg = m
BY DEF ReadFailed, SendFailed, Events, ReadEvents, SendEvents, Results, Is

\* A send that failed at once is one more handler of its connection.
LEMMA FailedSendRuns ==
  ASSUME NEW q \in Seq(Events), NEW x \in Clients, NEW m \in Messages,
         NEW p, p = Append(q, SendFailed(x, m))
  PROVE  /\ NoRun(p, x, "read") <=> NoRun(q, x, "read")
         /\ ~NoRun(p, x, "send")
         /\ NoAnswerSent(p, x) => NoAnswerSent(q, x)
<1> DEFINE e == SendFailed(x, m)
<1>1. e \in Events /\ Is(e, x, "send") /\ ~Is(e, x, "read") /\ p = Append(q, e)
  BY FailureEvents
<1> HIDE DEF e
<1>2. QED
  BY <1>1, AppendRuns

\* Queueing a handler changes the queue only.
LEMMA BeginFields ==
  ASSUME NEW s \in StateType, NEW e \in Events
  PROVE  /\ Begin(s, e) \in StateType /\ Begin(s, e).io = Append(s.io, e)
         /\ Begin(s, e).c = s.c /\ Begin(s, e).gone = s.gone
BY DEF Begin, StateType

\* listenForMeshMessage starts the only read.
LEMMA ListenGood ==
  ASSUME NEW x \in Clients, NEW s \in StateType, Good(x, s.c, s.io), NoTurn(x, s)
  PROVE  LET t == listenForMeshMessage(s, x)
         IN /\ Leads(x, s, t) /\ t.c.sendActive = s.c.sendActive
            /\ t.c.pendingSends = s.c.pendingSends
<1> DEFINE t == listenForMeshMessage(s, x)
<1>1. CASE s.c.open
  <2>1. /\ t.c = [s.c EXCEPT !.recvActive = TRUE, !.reading = TRUE]
        /\ t.io = s.io /\ t.gone = s.gone /\ t \in StateType
    BY <1>1, ZenonT(30) DEF listenForMeshMessage, StateType, ClientType
  <2>2. /\ t.c.recvActive /\ t.c.reading /\ t.c.sendActive = s.c.sendActive
        /\ t.c.pendingSends = s.c.pendingSends /\ t.c.sending = s.c.sending
    BY <2>1 DEF StateType, ClientType
  <2> HIDE DEF t
  <2>3. Good(x, t.c, t.io)
    BY <2>1, <2>2 DEF Good, FlagsInv, TurnInv, NothingToSend, NoTurn
  <2>4. QED
    BY <2>1, <2>2, <2>3, OthersKeep DEF Leads, StateType, t
<1>2. CASE ~s.c.open
  <2> DEFINE r == [s EXCEPT !.c.recvActive = TRUE]
  <2>0. /\ r \in StateType /\ r.c = [s.c EXCEPT !.recvActive = TRUE]
        /\ r.io = s.io /\ r.gone = s.gone
    BY ZenonT(30) DEF StateType, ClientType
  <2>1. t = Begin(r, ReadFailed(x)) /\ ReadFailed(x) \in Events
    BY <1>2, FailureEvents DEF listenForMeshMessage, Messages
  <2> HIDE DEF t, r
  <2>2. /\ t \in StateType /\ t.c = [s.c EXCEPT !.recvActive = TRUE]
        /\ t.io = Append(s.io, ReadFailed(x)) /\ t.gone = s.gone
    BY <2>0, <2>1, BeginFields, SMTT(30)
  <2>3. /\ t.c.recvActive /\ t.c.sendActive = s.c.sendActive
        /\ t.c.pendingSends = s.c.pendingSends /\ t.c.sending = s.c.sending
        /\ t.c.reading = s.c.reading
    BY <2>2 DEF StateType, ClientType
  <2>4. s.io \in Seq(Events) /\ Heartbeat \in Messages
    BY DEF StateType, Messages
  <2>5. Good(x, t.c, t.io)
    BY <2>2, <2>3, <2>4, FailureEvents, AppendRuns
       DEF Good, FlagsInv, TurnInv, NothingToSend, NoTurn
  <2>6. QED
    BY <2>2, <2>3, <2>4, <2>5, OthersKeep, FailureEvents DEF Leads, t
<1>3. QED
  BY <1>1, <1>2

\* async_send on an idle socket starts the only send; an answer is sent only in
\* the turn of the answer.
LEMMA StartSendGood ==
  ASSUME NEW x \in Clients, NEW s \in StateType, NEW m \in Messages,
         Good(x, s.c, s.io), ~s.c.sendActive,
         IsAnswer(m) => ~s.c.recvActive /\ NoAnswer(s.c.pendingSends)
  PROVE  Leads(x, s, startSend(s, x, m))
<1> DEFINE t == startSend(s, x, m)
<1>1. s.c.sending = <<>> /\ NoRun(s.io, x, "send") /\ NothingToSend(x, s.c, s.io)
  BY DEF Good, FlagsInv, NothingToSend, NoAnswer, NoAnswerSent, NoRun
<1>2. CASE s.c.open
  <2>1. /\ t.c = [s.c EXCEPT !.sendActive = TRUE, !.sending = <<m>>]
        /\ t.io = s.io /\ t.gone = s.gone /\ t \in StateType
    <3> DEFINE one == <<m>>
    <3>0. one \in Seq(Messages)
      OBVIOUS
    <3> HIDE DEF one
    <3>1. LET u == [s EXCEPT !.c.sendActive = TRUE, !.c.sending = one]
          IN /\ u.c = [s.c EXCEPT !.sendActive = TRUE, !.sending = one]
             /\ u.io = s.io /\ u.gone = s.gone /\ u \in StateType
      BY <3>0, ZenonT(30) DEF StateType, ClientType
    <3>2. QED
      BY <1>2, <3>1 DEF startSend, one
  <2>2. /\ t.c.sendActive /\ t.c.sending = <<m>> /\ t.c.recvActive = s.c.recvActive
        /\ t.c.pendingSends = s.c.pendingSends /\ t.c.reading = s.c.reading
    BY <2>1 DEF StateType, ClientType
  <2> HIDE DEF t
  <2>3. /\ Len(t.c.sending) = 1 /\ t.c.sending # <<>>
        /\ NoAnswer(t.c.sending) <=> ~IsAnswer(m)
    BY <2>2 DEF NoAnswer
  <2>4. Good(x, t.c, t.io)
    BY <1>1, <2>1, <2>2, <2>3 DEF Good, FlagsInv, TurnInv, NothingToSend
  <2>5. QED
    BY <2>1, <2>4, OthersKeep DEF Leads, StateType, t
<1>3. CASE ~s.c.open
  <2> DEFINE r == [s EXCEPT !.c.sendActive = TRUE]
  <2>1. /\ r \in StateType /\ r.c = [s.c EXCEPT !.sendActive = TRUE]
        /\ r.io = s.io /\ r.gone = s.gone
    BY ZenonT(30) DEF StateType, ClientType
  <2>2. t = Begin(r, SendFailed(x, m)) /\ SendFailed(x, m) \in Events
    BY <1>3, FailureEvents DEF startSend
  <2> HIDE DEF t, r
  <2>3. /\ t \in StateType /\ t.c = [s.c EXCEPT !.sendActive = TRUE]
        /\ t.io = Append(s.io, SendFailed(x, m)) /\ t.gone = s.gone
    BY <2>1, <2>2, BeginFields
  <2>4. /\ t.c.sendActive /\ t.c.sending = s.c.sending
        /\ t.c.recvActive = s.c.recvActive
        /\ t.c.pendingSends = s.c.pendingSends /\ t.c.reading = s.c.reading
    BY <2>3 DEF StateType, ClientType
  <2>5. s.io \in Seq(Events)
    BY DEF StateType
  <2>6. Good(x, t.c, t.io)
    BY <1>1, <2>3, <2>4, <2>5, FailureEvents, AppendRuns
       DEF Good, FlagsInv, TurnInv, NothingToSend
  <2>7. QED
    BY <2>3, <2>5, <2>6, OthersKeep, FailureEvents DEF Leads, t
<1>4. QED
  BY <1>2, <1>3

\* One more message in _pendingSends.
LEMMA AppendAnswers ==
  ASSUME NEW ms \in Seq(Messages), NEW m \in Messages
  PROVE  /\ NoAnswer(Append(ms, m)) <=> NoAnswer(ms) /\ ~IsAnswer(m)
         /\ OneAnswer(ms) /\ (IsAnswer(m) => NoAnswer(ms)) => OneAnswer(Append(ms, m))
<1> DEFINE p == Append(ms, m)
<1>1. /\ Len(p) = Len(ms) + 1 /\ Len(ms) \in Nat
      /\ \A i \in 1..Len(ms) : p[i] = ms[i]
      /\ p[Len(ms) + 1] = m
  OBVIOUS
<1>2. 1..Len(p) = 1..Len(ms) \cup {Len(ms) + 1}
  BY <1>1
<1> HIDE DEF p
<1>3. NoAnswer(p) <=> NoAnswer(ms) /\ ~IsAnswer(m)
  BY <1>1, <1>2 DEF NoAnswer
<1>4. OneAnswer(ms) /\ (IsAnswer(m) => NoAnswer(ms)) => OneAnswer(p)
  BY <1>1, <1>2 DEF NoAnswer, OneAnswer
<1>5. QED
  BY <1>3, <1>4 DEF p

\* sendQueryResponse in the turn of the answer, and sendHeartbeat at any time.
LEMMA SendGood ==
  ASSUME NEW x \in Clients, NEW s \in StateType, NEW m \in Messages,
         Good(x, s.c, s.io), IsAnswer(m) => NoTurn(x, s)
  PROVE  Leads(x, s, send(s, x, m))
<1> DEFINE t == send(s, x, m)
<1>1. CASE s.c.sendActive
  <2>1. /\ t.c = [s.c EXCEPT !.pendingSends = Append(s.c.pendingSends, m)]
        /\ t.io = s.io /\ t.gone = s.gone /\ t \in StateType
    <3> DEFINE more == Append(s.c.pendingSends, m)
    <3>1. more \in Seq(Messages)
      BY DEF StateType, ClientType
    <3>2. t = [s EXCEPT !.c.pendingSends = more]
      BY <1>1 DEF send
    <3> HIDE DEF more, t
    <3>3. /\ t.c = [s.c EXCEPT !.pendingSends = more]
          /\ t.io = s.io /\ t.gone = s.gone /\ t \in StateType
      BY <3>1, <3>2, ZenonT(30) DEF StateType, ClientType
    <3>4. QED
      BY <3>3 DEF more
  <2>2. /\ t.c.sendActive = s.c.sendActive /\ t.c.sending = s.c.sending
        /\ t.c.recvActive = s.c.recvActive /\ t.c.reading = s.c.reading
        /\ t.c.pendingSends = Append(s.c.pendingSends, m)
        /\ s.c.pendingSends \in Seq(Messages)
    BY <2>1 DEF StateType, ClientType
  <2> HIDE DEF t
  <2>3. Good(x, t.c, t.io)
    BY <2>1, <2>2, AppendAnswers
       DEF Good, FlagsInv, TurnInv, NothingToSend, NoTurn
  <2>4. QED
    BY <2>1, <2>3, OthersKeep DEF Leads, StateType, t
<1>2. CASE ~s.c.sendActive
  BY <1>2, StartSendGood DEF send, NoTurn
<1>3. QED
  BY <1>1, <1>2

\* One message less in _pendingSends; if it was the answer, none is left.
LEMMA TailAnswers ==
  ASSUME NEW ms \in Seq(Messages), ms # <<>>
  PROVE  /\ Head(ms) \in Messages /\ Tail(ms) \in Seq(Messages)
         /\ NoAnswer(ms) => NoAnswer(Tail(ms)) /\ ~IsAnswer(Head(ms))
         /\ OneAnswer(ms) => OneAnswer(Tail(ms))
         /\ OneAnswer(ms) /\ IsAnswer(Head(ms)) => NoAnswer(Tail(ms))
<1> DEFINE p == Tail(ms)
<1>1. /\ Len(ms) \in Nat \ {0} /\ Len(p) = Len(ms) - 1 /\ Head(ms) = ms[1]
      /\ \A i \in 1..Len(p) : p[i] = ms[i + 1]
      /\ Head(ms) \in Messages /\ p \in Seq(Messages)
  OBVIOUS
<1>2. /\ \A i \in 1..Len(p) : i + 1 \in 1..Len(ms) /\ i + 1 # 1
      /\ 1 \in 1..Len(ms)
  BY <1>1
<1> HIDE DEF p
<1>3. NoAnswer(ms) => NoAnswer(p) /\ ~IsAnswer(Head(ms))
  BY <1>1, <1>2 DEF NoAnswer
<1>4. OneAnswer(ms) => OneAnswer(p)
  <2> SUFFICES ASSUME OneAnswer(ms), NEW i \in 1..Len(p), NEW j \in 1..Len(p),
                      IsAnswer(p[i]), IsAnswer(p[j])
               PROVE  i = j
    BY DEF OneAnswer
  <2>1. i + 1 = j + 1
    BY <1>1, <1>2 DEF OneAnswer
  <2>2. QED
    BY <2>1, <1>1
<1>5. OneAnswer(ms) /\ IsAnswer(Head(ms)) => NoAnswer(p)
  BY <1>1, <1>2 DEF NoAnswer, OneAnswer
<1>6. QED
  BY <1>1, <1>3, <1>4, <1>5 DEF p

\* processQueuedSend, with no send under way, starts at most one.
LEMMA ProcessQueuedGood ==
  ASSUME NEW x \in Clients, NEW s \in StateType, Good(x, s.c, s.io), ~s.c.sendActive
  PROVE  Leads(x, s, processQueuedSend(s, x))
<1>1. CASE s.c.pendingSends = <<>>
  BY <1>1, OthersKeep DEF processQueuedSend, Leads, StateType
<1>2. CASE s.c.pendingSends # <<>>
  <2> DEFINE ms == s.c.pendingSends
             r == [s EXCEPT !.c.pendingSends = Tail(ms)]
  <2>1. ms \in Seq(Messages) /\ ms # <<>>
    BY <1>2 DEF StateType, ClientType
  <2>2. processQueuedSend(s, x) = startSend(r, x, Head(ms))
    BY <1>2 DEF processQueuedSend
  <2> DEFINE rest == Tail(ms)
  <2>3. rest \in Seq(Messages) /\ Head(ms) \in Messages
    BY <2>1, TailAnswers
  <2> HIDE DEF rest
  <2>4. LET u == [s EXCEPT !.c.pendingSends = rest]
        IN /\ u \in StateType /\ u.io = s.io /\ u.gone = s.gone
           /\ u.c = [s.c EXCEPT !.pendingSends = rest]
    BY <2>3, ZenonT(30) DEF StateType, ClientType
  <2>5. /\ r \in StateType /\ r.io = s.io /\ r.gone = s.gone
        /\ r.c = [s.c EXCEPT !.pendingSends = rest]
    BY <2>4 DEF rest
  <2> HIDE DEF r
  <2>6. /\ r.c.sendActive = s.c.sendActive /\ r.c.sending = s.c.sending
        /\ r.c.recvActive = s.c.recvActive /\ r.c.reading = s.c.reading
        /\ r.c.pendingSends = rest
    BY <2>5 DEF StateType, ClientType
  <2>7. /\ NoAnswer(ms) => NoAnswer(rest) /\ ~IsAnswer(Head(ms))
        /\ OneAnswer(ms) => OneAnswer(rest)
        /\ OneAnswer(ms) /\ IsAnswer(Head(ms)) => NoAnswer(rest)
    BY <2>1, TailAnswers DEF rest
  <2>8. Good(x, r.c, r.io)
    BY <2>5, <2>6, <2>7 DEF Good, FlagsInv, TurnInv, NothingToSend
  <2>9. IsAnswer(Head(ms)) => ~r.c.recvActive /\ NoAnswer(r.c.pendingSends)
    BY <2>6, <2>7 DEF Good, TurnInv
  <2>10. Leads(x, r, startSend(r, x, Head(ms)))
    BY <2>3, <2>5, <2>6, <2>8, <2>9, StartSendGood, ZenonT(30)
  <2>11. QED
    BY <2>2, <2>5, <2>10 DEF Leads
<1>3. QED
  BY <1>1, <1>2

\* close(): what was outstanding becomes a failed handler, the flags stay, and
\* the connection asks to leave the table when they are down.
LEMMA CloseGood ==
  ASSUME NEW x \in Clients, NEW s \in StateType, Good(x, s.c, s.io)
  PROVE  LET v == close(s, x)
         IN /\ v \in StateType /\ Good(x, v.c, v.io) /\ SameForOthers(x, s.io, v.io)
            /\ v.gone = (s.gone \/ Idle(s.c)) /\ Idle(v.c) = Idle(s.c)
<1> DEFINE t == IF s.c.reading THEN Begin(s, ReadFailed(x)) ELSE s
           m == Head(s.c.sending)
           u == IF s.c.sending # <<>> THEN Begin(t, SendFailed(x, m)) ELSE t
           v == close(s, x)
<1>1. /\ t \in StateType /\ t.c = s.c /\ t.gone = s.gone
      /\ t.io = IF s.c.reading THEN Append(s.io, ReadFailed(x)) ELSE s.io
  BY BeginFields, FailureEvents, ZenonT(60) DEF Messages
<1>2. s.c.sending # <<>> => m \in Messages
  BY DEF StateType, ClientType
<1> HIDE DEF t
<1>3. /\ u \in StateType /\ u.c = s.c /\ u.gone = s.gone
      /\ u.io = IF s.c.sending # <<>> THEN Append(t.io, SendFailed(x, m)) ELSE t.io
  <2> HIDE DEF m
  <2>1. CASE s.c.sending = <<>>
    BY <1>1, <2>1
  <2>2. CASE s.c.sending # <<>>
    <3>1. SendFailed(x, m) \in Events /\ u = Begin(t, SendFailed(x, m))
      BY <1>2, <2>2, FailureEvents
    <3>2. QED
      BY <1>1, <2>2, <3>1, BeginFields, ZenonT(30)
  <2>3. QED
    BY <2>1, <2>2
<1>4. v = [u EXCEPT !.c.open = FALSE, !.c.reading = FALSE, !.c.sending = <<>>,
                    !.gone = u.gone \/ ~connectionActive(s.c)]
  BY DEF close, t
<1> HIDE DEF u, v
<1>5. /\ v \in StateType /\ v.io = u.io
      /\ v.c = [s.c EXCEPT !.open = FALSE, !.reading = FALSE, !.sending = <<>>]
      /\ v.gone = (s.gone \/ Idle(s.c))
  <2> DEFINE none == <<>>
             g == u.gone \/ ~connectionActive(s.c)
  <2>1. none \in Seq(Messages)
    OBVIOUS
  <2>2. g \in BOOLEAN /\ g = (s.gone \/ Idle(s.c))
    BY <1>3 DEF connectionActive, Idle
  <2> HIDE DEF none, g
  <2>3. v = [u EXCEPT !.c.open = FALSE, !.c.reading = FALSE, !.c.sending = none,
                      !.gone = g]
    BY <1>4 DEF none, g
  <2>4. /\ v \in StateType /\ v.io = u.io /\ v.gone = g
        /\ v.c = [u.c EXCEPT !.open = FALSE, !.reading = FALSE, !.sending = none]
    BY <1>3, <2>1, <2>2, <2>3, ZenonT(30) DEF StateType, ClientType
  <2>5. QED
    BY <1>3, <2>2, <2>4 DEF none
<1>6. /\ ~v.c.reading /\ v.c.sending = <<>>
      /\ v.c.recvActive = s.c.recvActive /\ v.c.sendActive = s.c.sendActive
      /\ v.c.pendingSends = s.c.pendingSends
  BY <1>5 DEF StateType, ClientType
<1>7. s.io \in Seq(Events) /\ t.io \in Seq(Events) /\ Heartbeat \in Messages
  BY <1>1 DEF StateType, Messages
<1>8. /\ NoRun(t.io, x, "read") <=> ~s.c.recvActive
      /\ NoRun(t.io, x, "send") <=> NoRun(s.io, x, "send")
      /\ OneRun(t.io, x, "read") /\ OneRun(t.io, x, "send")
      /\ NoAnswerSent(t.io, x) <=> NoAnswerSent(s.io, x)
      /\ SameForOthers(x, s.io, t.io)
  BY <1>1, <1>7, FailureEvents, AppendRuns, OthersKeep DEF Good, FlagsInv
<1>9. s.c.sending # <<>> /\ NoAnswer(s.c.sending) => ~IsAnswer(m)
  <2>1. s.c.sending \in Seq(Messages)
    BY DEF StateType, ClientType
  <2>2. QED
    BY <2>1 DEF NoAnswer
<1>10. /\ NoRun(u.io, x, "read") <=> ~s.c.recvActive
       /\ NoRun(u.io, x, "send") <=> ~s.c.sendActive
       /\ OneRun(u.io, x, "read") /\ OneRun(u.io, x, "send")
       /\ NothingToSend(x, s.c, s.io) => NoAnswerSent(u.io, x)
       /\ SameForOthers(x, t.io, u.io)
  <2> HIDE DEF m
  <2>1. CASE s.c.sending = <<>>
    BY <1>3, <1>7, <1>8, <2>1, OthersKeep DEF Good, FlagsInv, NothingToSend
  <2>2. CASE s.c.sending # <<>>
    BY <1>2, <1>3, <1>7, <1>8, <1>9, <2>2, FailureEvents, AppendRuns, OthersKeep
       DEF Good, FlagsInv, NothingToSend
  <2>3. QED
    BY <2>1, <2>2
<1>11. NoAnswer(v.c.sending) /\ Len(v.c.sending) = 0
  BY <1>6 DEF NoAnswer
<1>12. Good(x, v.c, v.io)
  BY <1>5, <1>6, <1>10, <1>11 DEF Good, FlagsInv, TurnInv, NothingToSend
<1>13. SameForOthers(x, s.io, v.io)
  BY <1>5, <1>8, <1>10 DEF SameForOthers
<1>14. Idle(v.c) = Idle(s.c)
  BY <1>6 DEF Idle
<1>15. QED
  BY <1>5, <1>12, <1>13, <1>14 DEF v

----------------------------------------------------------------------------
(* The steps.                                                              *)

\* A step of x that leaves record c and queue q keeps the invariant, if the table
\* holds x unless its flags are down.
LEMMA ChangeKeeps ==
  ASSUME IInv, NEW x \in Clients, NEW c \in ClientType, NEW q \in Seq(Events),
         Good(x, c, q), SameForOthers(x, io, q),
         client' = [client EXCEPT ![x] = c], io' = q,
         connected' \in {connected, connected \ {x}, connected \cup {x}},
         x \notin connected' => Idle(c)
  PROVE  IInv'
<1>1. client \in [Clients -> ClientType] /\ connected \in SUBSET Clients
  BY DEF IInv, TypeInv
<1>2. TypeInv'
  BY <1>1 DEF TypeInv
<1>3. ASSUME NEW y \in Clients
      PROVE  Good(y, client'[y], io') /\ (y \notin connected' => Idle(client'[y]))
  <2>1. CASE y = x
    BY <1>1, <2>1
  <2>2. CASE y # x
    <3>1. client'[y] = client[y] /\ (y \in connected' <=> y \in connected)
      BY <1>1, <2>2
    <3>2. Good(y, client[y], io) /\ (y \notin connected => Idle(client[y]))
      BY DEF IInv
    <3>3. Good(y, client[y], q)
      BY <2>2, <3>2, OthersGood
    <3>4. QED
      BY <3>1, <3>2, <3>3
  <2>3. QED
    BY <2>1, <2>2
<1>4. QED
  BY <1>2, <1>3 DEF IInv

\* What a handler of x leaves behind: the table lets x go only when its flags
\* are down.
LEMMA EffectKeeps ==
  ASSUME IInv, NEW x \in Clients, NEW s \in StateType, Good(x, s.c, s.io),
         SameForOthers(x, io, s.io), s.gone \/ x \notin connected => Idle(s.c),
         Effect(x, s)
  PROVE  IInv'
<1>1. s.c \in ClientType /\ s.io \in Seq(Events)
  BY DEF StateType
<1>2. /\ client' = [client EXCEPT ![x] = s.c] /\ io' = s.io
      /\ connected' = IF s.gone THEN connected \ {x} ELSE connected
  BY DEF Effect
<1>3. /\ connected' \in {connected, connected \ {x}, connected \cup {x}}
      /\ x \notin connected' => Idle(s.c)
  BY <1>2
<1>4. QED
  BY <1>1, <1>2, <1>3, ChangeKeeps, ZenonT(30)

\* The state of connection x when a step starts.
LEMMA StateFields ==
  ASSUME IInv, NEW x \in Clients
  PROVE  /\ State(x) \in StateType /\ State(x).c = client[x]
         /\ State(x).io = io /\ State(x).gone = FALSE
<1>1. client[x] \in ClientType /\ io \in Seq(Events)
  BY DEF IInv, TypeInv
<1>2. QED
  BY <1>1 DEF State, StateType

\* The same, less the handler in front of the queue, which is one of x.
LEMMA TakenFields ==
  ASSUME IInv, io # <<>>
  PROVE  LET x == Head(io).client
         IN /\ x \in Clients /\ Head(io) \in Events
            /\ Taken(x) \in StateType /\ Taken(x).c = client[x]
            /\ Taken(x).io = Tail(io) /\ Taken(x).gone = FALSE
            /\ SameForOthers(x, io, Tail(io))
<1> DEFINE x == Head(io).client
           rest == Tail(io)
<1>1. io \in Seq(Events) /\ Head(io) \in Events /\ rest \in Seq(Events)
  BY DEF IInv, TypeInv
<1>2. x \in Clients
  BY <1>1 DEF Events, ReadEvents, SendEvents
<1> HIDE DEF x, rest
<1>3. /\ State(x) \in StateType /\ State(x).c = client[x]
      /\ State(x).io = io /\ State(x).gone = FALSE
  BY <1>2, StateFields, ZenonT(30)
<1>4. Taken(x) = [State(x) EXCEPT !.io = rest]
  BY <1>3 DEF Taken, rest
<1>5. /\ Taken(x) \in StateType /\ Taken(x).c = client[x]
      /\ Taken(x).io = rest /\ Taken(x).gone = FALSE
  BY <1>1, <1>3, <1>4 DEF StateType
<1>6. QED
  BY <1>1, <1>2, <1>5, OthersKeep DEF rest, x

\* A read that ends: it was the only one, no answer is on its way, and the
\* connection is in the table.
LEMMA ReadTaken ==
  ASSUME IInv, io # <<>>, Head(io).run = "read"
  PROVE  LET x == Head(io).client
             t == [Taken(x) EXCEPT !.c.recvActive = FALSE]
         IN /\ x \in Clients /\ x \in connected /\ t \in StateType
            /\ Good(x, t.c, t.io) /\ NoTurn(x, t) /\ t.gone = FALSE
            /\ SameForOthers(x, io, t.io)
<1> DEFINE x == Head(io).client
           t == [Taken(x) EXCEPT !.c.recvActive = FALSE]
<1>1. /\ t \in StateType /\ t.c = [client[x] EXCEPT !.recvActive = FALSE]
      /\ t.io = Tail(io) /\ t.gone = FALSE
  BY TakenFields, ZenonT(30) DEF StateType, ClientType
<1>2. x \in Clients /\ client[x] \in ClientType /\ io \in Seq(Events)
  BY TakenFields, ZenonT(30) DEF IInv, TypeInv
<1>3. Is(Head(io), x, "read") /\ ~Is(Head(io), x, "send") /\ ~NoRun(io, x, "read")
  BY <1>2 DEF Is, NoRun
<1>4. Good(x, client[x], io) /\ (x \notin connected => Idle(client[x]))
  BY <1>2 DEF IInv
<1> HIDE DEF x, t
<1>5. /\ ~t.c.recvActive /\ t.c.sendActive = client[x].sendActive
      /\ t.c.reading = client[x].reading /\ t.c.sending = client[x].sending
      /\ t.c.pendingSends = client[x].pendingSends
  BY <1>1, <1>2 DEF ClientType
<1>6. client[x].recvActive /\ ~client[x].reading /\ x \in connected
  BY <1>3, <1>4 DEF Good, FlagsInv, Idle
<1>7. /\ NoRun(t.io, x, "read") /\ OneRun(t.io, x, "read") /\ OneRun(t.io, x, "send")
      /\ NoRun(t.io, x, "send") <=> NoRun(io, x, "send")
      /\ NoAnswerSent(io, x) => NoAnswerSent(t.io, x)
  BY <1>1, <1>2, <1>3, <1>4, TailRuns DEF Good, FlagsInv
<1>8. Good(x, t.c, t.io) /\ NoTurn(x, t)
  BY <1>4, <1>5, <1>6, <1>7 DEF Good, FlagsInv, TurnInv, NoTurn, NothingToSend
<1>9. QED
  BY <1>1, <1>2, <1>6, <1>8, TakenFields, ZenonT(30) DEF x, t

\* A send that ends: it was the only one, and if it was of an answer it is the
\* connection's turn to read.
LEMMA SendTaken ==
  ASSUME IInv, io # <<>>, Head(io).run = "send"
  PROVE  LET x == Head(io).client
             t == [Taken(x) EXCEPT !.c.sendActive = FALSE]
         IN /\ x \in Clients /\ x \in connected /\ t \in StateType
            /\ Good(x, t.c, t.io) /\ ~t.c.sendActive /\ t.gone = FALSE
            /\ IsAnswer(Head(io).msg) => NoTurn(x, t)
            /\ SameForOthers(x, io, t.io)
<1> DEFINE x == Head(io).client
           t == [Taken(x) EXCEPT !.c.sendActive = FALSE]
<1>1. /\ t \in StateType /\ t.c = [client[x] EXCEPT !.sendActive = FALSE]
      /\ t.io = Tail(io) /\ t.gone = FALSE
  BY TakenFields, ZenonT(30) DEF StateType, ClientType
<1>2. x \in Clients /\ client[x] \in ClientType /\ io \in Seq(Events)
  BY TakenFields, ZenonT(30) DEF IInv, TypeInv
<1>3. /\ Is(Head(io), x, "send") /\ ~Is(Head(io), x, "read") /\ ~NoRun(io, x, "send")
      /\ IsAnswer(Head(io).msg) => ~NoAnswerSent(io, x)
  BY <1>2 DEF Is, NoRun, NoAnswerSent
<1>4. Good(x, client[x], io) /\ (x \notin connected => Idle(client[x]))
  BY <1>2 DEF IInv
<1> HIDE DEF x, t
<1>5. /\ ~t.c.sendActive /\ t.c.recvActive = client[x].recvActive
      /\ t.c.reading = client[x].reading /\ t.c.sending = client[x].sending
      /\ t.c.pendingSends = client[x].pendingSends
  BY <1>1, <1>2 DEF ClientType
<1>6. client[x].sendActive /\ client[x].sending = <<>> /\ x \in connected
  BY <1>3, <1>4 DEF Good, FlagsInv, Idle
<1>7. /\ NoRun(t.io, x, "send") /\ OneRun(t.io, x, "read") /\ OneRun(t.io, x, "send")
      /\ NoRun(t.io, x, "read") <=> NoRun(io, x, "read")
  BY <1>1, <1>2, <1>3, <1>4, TailRuns DEF Good, FlagsInv
<1>8. NothingToSend(x, t.c, t.io)
  BY <1>5, <1>6, <1>7 DEF NothingToSend, NoAnswer, NoAnswerSent, NoRun
<1>9. Good(x, t.c, t.io)
  BY <1>4, <1>5, <1>6, <1>7, <1>8 DEF Good, FlagsInv, TurnInv
<1>10. IsAnswer(Head(io).msg) => NoTurn(x, t)
  BY <1>3, <1>4, <1>5, <1>8 DEF Good, TurnInv, NoTurn, NothingToSend
<1>11. QED
  BY <1>1, <1>2, <1>5, <1>6, <1>9, <1>10, TakenFields, ZenonT(30) DEF x, t

\* onMeshMessageReceived: an answer is sent or the connection closes.
LEMMA ReadDoneKeeps ==
  ASSUME IInv, ReadDone
  PROVE  IInv'
<1> DEFINE x == Head(io).client
           res == Head(io).res
           t == [Taken(x) EXCEPT !.c.recvActive = FALSE]
<1>1. PICK error \in BOOLEAN :
        Effect(x, onMeshMessageReceived(Taken(x), x, res, error))
  BY DEF ReadDone
<1>2. /\ x \in Clients /\ x \in connected /\ t \in StateType
      /\ Good(x, t.c, t.io) /\ NoTurn(x, t) /\ t.gone = FALSE
      /\ SameForOthers(x, io, t.io)
  BY ReadTaken, ZenonT(30) DEF ReadDone
<1> DEFINE m == [kind |-> IF error THEN "error"
                          ELSE IF res \in exists THEN "found" ELSE "notFound",
                 id |-> res]
<1>3. onMeshMessageReceived(Taken(x), x, res, error)
        = IF res \in Ids THEN send(t, x, m) ELSE close(t, x)
  BY DEF onMeshMessageReceived, processMeshQuery
<1>4. res \in Ids => m \in Messages /\ IsAnswer(m)
  BY DEF Messages, IsAnswer
<1> HIDE DEF x, res, t, m
<1>5. CASE res \in Ids
  <2> DEFINE u == send(t, x, m)
  <2>1. Leads(x, t, u)
    BY <1>2, <1>4, <1>5, SendGood
  <2> HIDE DEF u
  <2>2. /\ u \in StateType /\ Good(x, u.c, u.io) /\ u.gone = FALSE
        /\ SameForOthers(x, io, u.io)
    BY <1>2, <2>1 DEF Leads, SameForOthers
  <2>3. Effect(x, u)
    BY <1>1, <1>3, <1>5 DEF u
  <2>4. QED
    BY <1>2, <2>2, <2>3, EffectKeeps
<1>6. CASE res \notin Ids
  <2> DEFINE u == close(t, x)
  <2>1. /\ u \in StateType /\ Good(x, u.c, u.io) /\ SameForOthers(x, t.io, u.io)
        /\ u.gone => Idle(u.c)
    BY <1>2, CloseGood, ZenonT(30)
  <2>2. Effect(x, u)
    BY <1>1, <1>3, <1>6
  <2> HIDE DEF u
  <2>3. SameForOthers(x, io, u.io)
    BY <1>2, <2>1 DEF SameForOthers
  <2>4. QED
    BY <1>2, <2>1, <2>2, <2>3, EffectKeeps
<1>7. QED
  BY <1>5, <1>6

\* onAfterSendQueryResponse listens for the next query and sends what waits;
\* onAfterSendHeartbeat only sends what waits; a failed send closes.
LEMMA SendDoneKeeps ==
  ASSUME IInv, SendDone
  PROVE  IInv'
<1> DEFINE x == Head(io).client
           m == Head(io).msg
           ok == Head(io).res = "ok"
           t == [Taken(x) EXCEPT !.c.sendActive = FALSE]
           u == IF ~ok THEN close(t, x)
                ELSE IF IsAnswer(m)
                     THEN processQueuedSend(listenForMeshMessage(t, x), x)
                     ELSE processQueuedSend(t, x)
<1>1. Effect(x, u)
  BY DEF SendDone, onAfterSendHeartbeat, onAfterSendQueryResponse, IsAnswer
<1>2. /\ x \in Clients /\ x \in connected /\ t \in StateType
      /\ Good(x, t.c, t.io) /\ ~t.c.sendActive /\ t.gone = FALSE
      /\ IsAnswer(m) => NoTurn(x, t)
      /\ SameForOthers(x, io, t.io)
  BY SendTaken, ZenonT(30) DEF SendDone
<1> HIDE DEF x, m, ok, t
<1>3. /\ u \in StateType /\ Good(x, u.c, u.io) /\ SameForOthers(x, io, u.io)
      /\ u.gone => Idle(u.c)
  <2>1. CASE ~ok
    <3>1. /\ u \in StateType /\ Good(x, u.c, u.io) /\ SameForOthers(x, t.io, u.io)
          /\ u.gone => Idle(u.c)
      BY <1>2, <2>1, CloseGood, ZenonT(30)
    <3>2. QED
      BY <1>2, <3>1 DEF SameForOthers
  <2>2. CASE ok /\ IsAnswer(m)
    <3> DEFINE l == listenForMeshMessage(t, x)
    <3>1. Leads(x, t, l) /\ ~l.c.sendActive
      BY <1>2, <2>2, ListenGood
    <3> HIDE DEF l
    <3>2. Leads(x, l, processQueuedSend(l, x))
      BY <1>2, <3>1, ProcessQueuedGood DEF Leads
    <3>3. u = processQueuedSend(l, x)
      BY <2>2 DEF l
    <3> HIDE DEF u
    <3>4. QED
      BY <1>2, <3>1, <3>2, <3>3 DEF Leads, SameForOthers
  <2>3. CASE ok /\ ~IsAnswer(m)
    <3>1. Leads(x, t, u)
      BY <1>2, <2>3, ProcessQueuedGood
    <3> HIDE DEF u
    <3>2. QED
      BY <1>2, <3>1 DEF Leads, SameForOthers
  <2>4. QED
    BY <2>1, <2>2, <2>3
<1> HIDE DEF u
<1>4. QED
  BY <1>1, <1>2, <1>3, EffectKeeps

\* Failed heartbeats queued for the connections of S, one for each.
LEMMA BeatsQueued ==
  ASSUME NEW q \in Seq(Events), NEW n \in Nat, NEW S \in SUBSET Clients,
         NEW order \in Bijection(1..n, S), NEW x \in Clients, NEW b \in Seq(Events),
         Len(b) = n, \A i \in 1..n : b[i] = SendFailed(order[i], Heartbeat)
  PROVE  LET p == q \o b
         IN /\ p \in Seq(Events)
            /\ NoRun(p, x, "read") <=> NoRun(q, x, "read")
            /\ OneRun(q, x, "read") => OneRun(p, x, "read")
            /\ NoRun(p, x, "send") <=> NoRun(q, x, "send") /\ x \notin S
            /\ OneRun(q, x, "send") /\ (x \in S => NoRun(q, x, "send"))
                 => OneRun(p, x, "send")
            /\ NoAnswerSent(q, x) => NoAnswerSent(p, x)
<1> DEFINE p == q \o b
<1>1. /\ order \in [1..n -> S]
      /\ \A i, j \in 1..n : order[i] = order[j] => i = j
      /\ \A y \in S : \E i \in 1..n : order[i] = y
  BY DEF Bijection, Injection, Surjection, IsInjective
<1>4. \A i \in 1..n : /\ Is(b[i], x, "send") <=> order[i] = x
                      /\ ~Is(b[i], x, "read") /\ ~IsAnswer(b[i].msg)
  BY <1>1 DEF SendFailed, Is, IsAnswer, Heartbeat
<1>5. /\ p \in Seq(Events) /\ Len(p) = Len(q) + n /\ Len(q) \in Nat
      /\ \A i \in 1..Len(p) : p[i] = IF i <= Len(q) THEN q[i] ELSE b[i - Len(q)]
  OBVIOUS
<1>6. /\ \A i \in 1..Len(q) : i \in 1..Len(p) /\ p[i] = q[i]
      /\ \A i \in 1..n : Len(q) + i \in 1..Len(p) /\ p[Len(q) + i] = b[i]
  <2>1. \A i \in 1..n : (Len(q) + i) - Len(q) = i /\ ~(Len(q) + i <= Len(q))
    BY <1>5
  <2>2. QED
    BY <1>5, <2>1
<1>7. \A i \in 1..Len(p) : i \in 1..Len(q) \/ \E k \in 1..n : i = Len(q) + k
  <2> SUFFICES ASSUME NEW i \in 1..Len(p), i \notin 1..Len(q)
               PROVE  i - Len(q) \in 1..n /\ i = Len(q) + (i - Len(q))
    OBVIOUS
  <2> QED BY <1>5
<1> HIDE DEF p
<1>8. NoRun(p, x, "read") <=> NoRun(q, x, "read")
  BY <1>4, <1>6, <1>7, ZenonT(60) DEF NoRun
<1>9. OneRun(q, x, "read") => OneRun(p, x, "read")
  <2>1. \A i \in 1..Len(p) : Is(p[i], x, "read") => i \in 1..Len(q) /\ p[i] = q[i]
    BY <1>4, <1>6, <1>7, ZenonT(30)
  <2>2. QED
    BY <2>1 DEF OneRun
<1>10. NoRun(p, x, "send") <=> NoRun(q, x, "send") /\ x \notin S
  <2>1. x \in S => \E k \in 1..n : Is(p[Len(q) + k], x, "send")
    BY <1>1, <1>4, <1>6, ZenonT(30)
  <2>2. ASSUME NEW k \in 1..n, Is(p[Len(q) + k], x, "send")
        PROVE  x \in S
    <3>1. order[k] = x /\ order[k] \in S
      BY <1>1, <1>4, <1>6, <2>2
    <3>2. QED
      BY <3>1
  <2>3. \A k \in 1..n : Len(q) + k \in 1..Len(p)
    BY <1>6
  <2>4. \A i \in 1..Len(q) : i \in 1..Len(p) /\ p[i] = q[i]
    BY <1>6
  <2>5. NoRun(p, x, "send") => NoRun(q, x, "send") /\ x \notin S
    BY <2>1, <2>3, <2>4 DEF NoRun
  <2>6. ASSUME NoRun(q, x, "send"), x \notin S, NEW i \in 1..Len(p)
        PROVE  ~Is(p[i], x, "send")
    BY <1>7, <2>2, <2>4, <2>6, ZenonT(30) DEF NoRun
  <2>7. QED
    BY <2>5, <2>6 DEF NoRun
<1>11. OneRun(q, x, "send") /\ (x \in S => NoRun(q, x, "send")) => OneRun(p, x, "send")
  <2> SUFFICES ASSUME OneRun(q, x, "send"), x \in S => NoRun(q, x, "send"),
                      NEW i \in 1..Len(p), NEW j \in 1..Len(p),
                      Is(p[i], x, "send"), Is(p[j], x, "send")
               PROVE  i = j
    BY DEF OneRun
  <2>1. \A k \in 1..n : Is(p[Len(q) + k], x, "send") => x \in S /\ order[k] = x
    BY <1>1, <1>4, <1>6
  <2>2. CASE x \in S
    <3>1. i \notin 1..Len(q) /\ j \notin 1..Len(q)
      BY <1>6, <2>2 DEF NoRun
    <3>2. PICK k \in 1..n : i = Len(q) + k
      BY <1>7, <3>1, ZenonT(30)
    <3>3. PICK l \in 1..n : j = Len(q) + l
      BY <1>7, <3>1, ZenonT(30)
    <3>4. order[k] = x /\ order[l] = x
      BY <2>1, <3>2, <3>3
    <3>5. QED
      BY <1>1, <3>2, <3>3, <3>4
  <2>3. CASE x \notin S
    <3>1. i \in 1..Len(q) /\ j \in 1..Len(q)
      BY <1>7, <2>1, <2>3, ZenonT(30)
    <3>2. QED
      BY <1>6, <3>1, ZenonT(30) DEF OneRun
  <2>4. QED
    BY <2>2, <2>3
<1>12. NoAnswerSent(q, x) => NoAnswerSent(p, x)
  BY <1>4, <1>6, <1>7, ZenonT(60) DEF NoAnswerSent
<1>13. QED
  BY <1>5, <1>8, <1>9, <1>10, <1>11, <1>12 DEF p

\* Every connection in the table is sent a heartbeat, or has one more waiting.
LEMMA HeartbeatKeeps ==
  ASSUME IInv, doHeartBeat
  PROVE  IInv'
<1> DEFINE n == Cardinality(FindClosed)
           t(x) == send(State(x), x, Heartbeat)
<1>1. FindClosed \in SUBSET Clients /\ n \in Nat
  <2>1. FindClosed \in SUBSET Clients
    BY DEF FindClosed, HeartbeatTo, IInv, TypeInv
  <2>2. QED
    BY <2>1, QueryAssumption, FS_Subset, FS_CardinalityType DEF QueryAssumption
<1>2. PICK order \in Bijection(1..n, FindClosed) :
        io' = io \o [i \in 1..n |-> SendFailed(order[i], Heartbeat)]
  BY ZenonT(30) DEF doHeartBeat
<1>3. /\ client' = [x \in Clients |-> IF x \in connected THEN t(x).c ELSE client[x]]
      /\ connected' = connected
  BY DEF doHeartBeat, HeartbeatTo
<1>4. Heartbeat \in Messages /\ ~IsAnswer(Heartbeat) /\ io \in Seq(Events)
  BY DEF Messages, IsAnswer, Heartbeat, IInv, TypeInv
<1> HIDE DEF n
<1>5. ASSUME NEW x \in Clients
      PROVE  /\ io' \in Seq(Events)
             /\ NoRun(io', x, "read") <=> NoRun(io, x, "read")
             /\ OneRun(io, x, "read") => OneRun(io', x, "read")
             /\ NoRun(io', x, "send") <=> NoRun(io, x, "send") /\ x \notin FindClosed
             /\ OneRun(io, x, "send") /\ (x \in FindClosed => NoRun(io, x, "send"))
                  => OneRun(io', x, "send")
             /\ NoAnswerSent(io, x) => NoAnswerSent(io', x)
  <2> DEFINE b == [i \in 1..n |-> SendFailed(order[i], Heartbeat)]
  <2>1. \A i \in 1..n : SendFailed(order[i], Heartbeat) \in Events
    BY <1>1, <1>4, FailureEvents DEF Bijection, Injection
  <2>2. /\ b \in Seq(Events) /\ Len(b) = n
        /\ \A i \in 1..n : b[i] = SendFailed(order[i], Heartbeat)
    BY <1>1, <2>1
  <2>3. io' = io \o b
    BY <1>2
  <2> HIDE DEF b
  <2>4. QED
    BY <1>1, <1>4, <2>2, <2>3, BeatsQueued, SMTT(60)
<1>6. ASSUME NEW x \in Clients
      PROVE  /\ client'[x] \in ClientType /\ Good(x, client'[x], io')
             /\ x \notin connected' => Idle(client'[x])
  <2>1. Good(x, client[x], io) /\ client[x] \in ClientType
        /\ (x \notin connected => Idle(client[x]))
    BY DEF IInv, TypeInv
  <2>2. CASE x \notin connected
    <3>1. client'[x] = client[x] /\ x \notin FindClosed
      BY <1>3, <2>2 DEF FindClosed, HeartbeatTo
    <3>2. Good(x, client[x], io')
      BY <1>5, <2>1, <3>1, ZenonT(30) DEF Good, FlagsInv, TurnInv, NothingToSend
    <3>3. QED
      BY <1>3, <2>1, <3>1, <3>2
  <2>3. CASE x \in connected
    <3>1. /\ State(x) \in StateType /\ State(x).c = client[x]
          /\ State(x).io = io /\ State(x).gone = FALSE
      BY StateFields, ZenonT(30)
    <3>2. Leads(x, State(x), t(x))
      BY <1>4, <2>1, <3>1, SendGood
    <3>3. t(x).io = IF x \in FindClosed THEN Append(io, SendFailed(x, Heartbeat)) ELSE io
      BY <2>3, <3>1 DEF send, startSend, Begin, FindClosed, HeartbeatTo, StateType
    <3>4. client'[x] = t(x).c
      BY <1>3, <2>3
    <3> HIDE DEF t
    <3>5. t(x).c \in ClientType /\ Good(x, t(x).c, t(x).io)
      BY <3>2 DEF Leads, StateType
    <3>6. x \in FindClosed => NoRun(io, x, "send")
      BY <2>1 DEF FindClosed, Good, FlagsInv
    <3>7. /\ \A run \in {"read", "send"} :
               /\ NoRun(io', x, run) <=> NoRun(t(x).io, x, run)
               /\ OneRun(io', x, run)
          /\ NoAnswerSent(t(x).io, x) => NoAnswerSent(io', x)
      <4>1. OneRun(io, x, "read") /\ OneRun(io, x, "send")
        BY <2>1, ZenonT(30) DEF Good, FlagsInv
      <4>2. CASE x \in FindClosed
        <5>1. t(x).io = Append(io, SendFailed(x, Heartbeat))
          BY <3>3, <4>2
        <5>2. /\ NoRun(t(x).io, x, "read") <=> NoRun(io, x, "read")
              /\ ~NoRun(t(x).io, x, "send")
              /\ NoAnswerSent(t(x).io, x) => NoAnswerSent(io, x)
          BY <1>4, <5>1, FailedSendRuns, ZenonT(30)
        <5>3. QED
          BY <1>5, <3>6, <4>1, <4>2, <5>2, ZenonT(30)
      <4>3. CASE x \notin FindClosed
        <5>1. t(x).io = io
          BY <3>3, <4>3
        <5>2. QED
          BY <1>5, <4>1, <4>3, <5>1, ZenonT(30)
      <4>4. QED
        BY <4>2, <4>3
    <3>8. Good(x, t(x).c, io')
      BY <3>5, <3>7, ZenonT(30) DEF Good, FlagsInv, TurnInv, NothingToSend
    <3>9. QED
      BY <1>3, <2>3, <3>4, <3>5, <3>8
  <2>4. QED
    BY <2>2, <2>3
<1>7. TypeInv'
  <2>1. io' \in Seq(Events)
    <3>1. \A x \in Clients : io' \in Seq(Events)
      BY <1>5
    <3>2. PICK x \in Clients : TRUE
      BY DEF doHeartBeat, HeartbeatTo, IInv, TypeInv
    <3>3. QED
      BY <3>1, <3>2
  <2>2. client' \in [Clients -> ClientType]
    BY <1>3, <1>6
  <2>3. QED
    BY <1>3, <2>1, <2>2 DEF TypeInv, IInv
<1>8. QED
  BY <1>6, <1>7 DEF IInv

\* The connection of a new peer is read from; that of a stranger is closed.
LEMMA AcceptKeeps ==
  ASSUME IInv, NEW x \in Clients, handleAfterAccept(x)
  PROVE  IInv'
<1> DEFINE s == State(x)
<1>1. /\ s \in StateType /\ s.c = client[x] /\ s.io = io /\ s.gone = FALSE
      /\ Good(x, client[x], io) /\ client[x] \in ClientType /\ io \in Seq(Events)
  BY StateFields, ZenonT(30) DEF IInv, TypeInv
<1>2. client[x] = NewClient /\ x \notin connected
  BY DEF handleAfterAccept, Unaccepted
<1> HIDE DEF s
<1>3. CASE /\ client' = [client EXCEPT ![x] = listenForMeshMessage(s, x).c]
           /\ connected' = connected \cup {x} /\ io' = io
  <2> DEFINE t == listenForMeshMessage(s, x)
  <2>1. /\ client[x].open /\ ~client[x].recvActive /\ ~client[x].sendActive
        /\ client[x].pendingSends = <<>> /\ client[x].sending = <<>>
    BY <1>2 DEF NewClient
  <2>2. NoRun(io, x, "send")
    BY <1>1, <2>1 DEF Good, FlagsInv
  <2>3. NoTurn(x, s)
    BY <1>1, <2>1, <2>2 DEF NoTurn, NothingToSend, NoAnswer, NoAnswerSent, NoRun
  <2>4. Leads(x, s, t)
    BY <1>1, <2>3, ListenGood
  <2>5. t.io = io
    BY <1>1, <2>1 DEF listenForMeshMessage, StateType
  <2> HIDE DEF t
  <2>6. t.c \in ClientType /\ Good(x, t.c, io) /\ SameForOthers(x, io, io)
    BY <1>1, <2>4, <2>5, OthersKeep DEF Leads, StateType
  <2>7. client' = [client EXCEPT ![x] = t.c]
    BY <1>3 DEF t
  <2>8. QED
    BY <1>1, <1>3, <2>6, <2>7, ChangeKeeps, ZenonT(30)
<1>4. CASE Effect(x, close(s, x))
  <2> DEFINE v == close(s, x)
  <2>1. /\ v \in StateType /\ Good(x, v.c, v.io) /\ SameForOthers(x, io, v.io)
        /\ Idle(v.c) = Idle(s.c)
    BY <1>1, CloseGood
  <2>2. Idle(s.c)
    BY <1>1, <1>2 DEF IInv
  <2> HIDE DEF v
  <2>3. Effect(x, v)
    BY <1>4 DEF v
  <2>4. QED
    BY <2>1, <2>2, <2>3, EffectKeeps, ZenonT(30)
<1>5. CASE UNCHANGED <<client, connected, io>>
  BY <1>5 DEF IInv, TypeInv
<1>6. QED
  BY <1>3, <1>4, <1>5 DEF handleAfterAccept, s

\* What a peer sends waits in the socket.
LEMMA PeerSendsKeeps ==
  ASSUME IInv, NEW x \in Clients, PeerSends(x)
  PROVE  IInv'
<1>1. PICK m \in Ids \cup {"invalid"} :
        client' = [client EXCEPT ![x].inbox = Append(@, m)]
  BY ZenonT(30) DEF PeerSends
<1> DEFINE more == Append(client[x].inbox, m)
           c == [client[x] EXCEPT !.inbox = more]
<1>2. /\ client[x] \in ClientType /\ io \in Seq(Events) /\ Good(x, client[x], io)
      /\ client \in [Clients -> ClientType]
      /\ x \in connected /\ connected' = connected /\ io' = io
  BY DEF IInv, TypeInv, PeerSends
<1>3. more \in Seq(Results)
  BY <1>2, SMTT(60) DEF ClientType, Results
<1>4. client' = [client EXCEPT ![x] = c]
  BY <1>1, <1>2
<1> HIDE DEF more
<1>5. /\ c \in ClientType
      /\ c.recvActive = client[x].recvActive /\ c.sendActive = client[x].sendActive
      /\ c.reading = client[x].reading /\ c.sending = client[x].sending
      /\ c.pendingSends = client[x].pendingSends
  BY <1>2, <1>3, ZenonT(30) DEF ClientType
<1> HIDE DEF c
<1>6. Good(x, c, io)
  BY <1>2, <1>5, ZenonT(30) DEF Good, FlagsInv, TurnInv, NothingToSend
<1>7. QED
  BY <1>2, <1>4, <1>5, <1>6, OthersKeep, ChangeKeeps, ZenonT(30)

\* The outstanding read becomes a handler, of what was read or of a failure.
LEMMA ReadEndsKeeps ==
  ASSUME IInv, NEW x \in Clients, client[x].reading, NEW res \in Results,
         NEW c \in ClientType, ~c.reading,
         c.recvActive = client[x].recvActive, c.sendActive = client[x].sendActive,
         c.sending = client[x].sending, c.pendingSends = client[x].pendingSends,
         client' = [client EXCEPT ![x] = c], connected' = connected,
         io' = Append(io, [run |-> "read", client |-> x, res |-> res])
  PROVE  IInv'
<1> DEFINE e == [run |-> "read", client |-> x, res |-> res]
<1>1. /\ e \in Events /\ e.client = x
      /\ Is(e, x, "read") /\ ~Is(e, x, "send")
  BY DEF Events, ReadEvents, Is
<1>2. /\ Good(x, client[x], io) /\ io \in Seq(Events)
      /\ x \notin connected => Idle(client[x])
  BY DEF IInv, TypeInv
<1> HIDE DEF e
<1>3. io' = Append(io, e) /\ Append(io, e) \in Seq(Events)
  BY <1>1, <1>2 DEF e
<1>4. Good(x, c, Append(io, e))
  BY <1>1, <1>2, ReadQueued, ZenonT(30)
<1>5. x \in connected
  BY <1>2, ZenonT(30) DEF Good, FlagsInv, Idle
<1>6. QED
  BY <1>1, <1>2, <1>3, <1>4, <1>5, OthersKeep, ChangeKeeps, ZenonT(30)

\* A read that ends leaves its handler in the queue in its place.
LEMMA ReadKeeps ==
  ASSUME IInv, NEW x \in Clients, ReadCompletes(x) \/ ReadFails(x)
  PROVE  IInv'
<1>1. client[x] \in ClientType /\ client \in [Clients -> ClientType]
  BY DEF IInv, TypeInv
<1>2. CASE ReadCompletes(x)
  <2> DEFINE rest == Tail(client[x].inbox)
             c == [client[x] EXCEPT !.reading = FALSE, !.inbox = rest]
  <2>1. rest \in Seq(Results) /\ Head(client[x].inbox) \in Results
    BY <1>1, <1>2 DEF ReadCompletes, ClientType
  <2>2. client' = [client EXCEPT ![x] = c]
    BY <1>1, <1>2, ZenonT(30) DEF ReadCompletes
  <2> HIDE DEF rest
  <2>3. /\ c \in ClientType /\ ~c.reading
        /\ c.recvActive = client[x].recvActive /\ c.sendActive = client[x].sendActive
        /\ c.sending = client[x].sending /\ c.pendingSends = client[x].pendingSends
    BY <1>1, <2>1, ZenonT(30) DEF ClientType
  <2> HIDE DEF c
  <2>4. QED
    BY <1>2, <2>1, <2>2, <2>3, ReadEndsKeeps, ZenonT(30) DEF ReadCompletes
<1>3. CASE ReadFails(x)
  <2> DEFINE c == [client[x] EXCEPT !.reading = FALSE]
  <2>1. client' = [client EXCEPT ![x] = c] /\ "fail" \in Results
    BY <1>1, <1>3 DEF ReadFails, Results
  <2>2. /\ c \in ClientType /\ ~c.reading
        /\ c.recvActive = client[x].recvActive /\ c.sendActive = client[x].sendActive
        /\ c.sending = client[x].sending /\ c.pendingSends = client[x].pendingSends
    BY <1>1, ZenonT(30) DEF ClientType
  <2> HIDE DEF c
  <2>3. QED
    BY <1>3, <2>1, <2>2, ReadEndsKeeps, ZenonT(30) DEF ReadFails
<1>4. QED
  BY <1>2, <1>3

\* The outstanding send becomes a handler, whole, short or failed.
LEMMA SendCompletesKeeps ==
  ASSUME IInv, NEW x \in Clients, SendCompletes(x)
  PROVE  IInv'
<1> DEFINE m == Head(client[x].sending)
<1>1. PICK r \in {"ok", "short", "fail"} :
        /\ client' = [client EXCEPT ![x].sending = <<>>, ![x].torn = @ \/ r = "short"]
        /\ io' = Append(io, [run |-> "send", client |-> x, msg |-> m,
                             res |-> IF r = "fail" THEN r ELSE "ok"])
  BY ZenonT(30) DEF SendCompletes
<1>2. /\ client[x] \in ClientType /\ io \in Seq(Events) /\ Good(x, client[x], io)
      /\ client \in [Clients -> ClientType] /\ client[x].sending # <<>>
      /\ connected' = connected /\ (x \notin connected => Idle(client[x]))
  BY DEF IInv, TypeInv, SendCompletes
<1>3. m \in Messages /\ (NoAnswer(client[x].sending) => ~IsAnswer(m))
  <2>1. client[x].sending \in Seq(Messages)
    BY <1>2 DEF ClientType
  <2>2. QED
    BY <1>2, <2>1 DEF NoAnswer
<1> HIDE DEF m
<1> DEFINE none == <<>>
           tear == client[x].torn \/ r = "short"
           c == [client[x] EXCEPT !.sending = none, !.torn = tear]
           e == [run |-> "send", client |-> x, msg |-> m,
                 res |-> IF r = "fail" THEN r ELSE "ok"]
<1>4. /\ e \in Events /\ e.client = x /\ e.msg = m
      /\ Is(e, x, "send") /\ ~Is(e, x, "read")
  BY <1>3 DEF Events, SendEvents, Is
<1>5. client' = [client EXCEPT ![x] = c] /\ io' = Append(io, e)
  BY <1>1, <1>2, ZenonT(30)
<1>6. /\ none \in Seq(Messages) /\ tear \in BOOLEAN
      /\ none = <<>> /\ Len(none) = 0 /\ NoAnswer(none)
  BY DEF NoAnswer
<1> HIDE DEF none, tear, e
<1>7. /\ c \in ClientType /\ c.sending = none
      /\ c.recvActive = client[x].recvActive /\ c.sendActive = client[x].sendActive
      /\ c.reading = client[x].reading /\ c.pendingSends = client[x].pendingSends
  BY <1>2, <1>6, ZenonT(30) DEF ClientType
<1> HIDE DEF c
<1>8. Good(x, c, Append(io, e))
  BY <1>2, <1>3, <1>4, <1>6, <1>7, SendQueued, ZenonT(30)
<1>9. x \in connected /\ Append(io, e) \in Seq(Events)
  <2>1. x \in connected
    BY <1>2, ZenonT(30) DEF Good, FlagsInv, Idle
  <2>2. Append(io, e) \in Seq(Events)
    BY <1>2, <1>4
  <2>3. QED
    BY <2>1, <2>2
<1>10. QED
  BY <1>2, <1>4, <1>5, <1>7, <1>8, <1>9, OthersKeep, ChangeKeeps, ZenonT(30)

----------------------------------------------------------------------------
(* The theorem.                                                            *)

\* The invariant holds when nobody has connected.
LEMMA InitIInv == Init => IInv
<1> SUFFICES ASSUME Init PROVE IInv
  OBVIOUS
<1>1. NewClient \in ClientType
  BY DEF NewClient, ClientType
<1>2. TypeInv
  BY <1>1 DEF Init, TypeInv
<1>3. ASSUME NEW x \in Clients
      PROVE  Good(x, client[x], io) /\ Idle(client[x])
  <2>1. /\ ~client[x].recvActive /\ ~client[x].sendActive /\ ~client[x].reading
        /\ client[x].pendingSends = <<>> /\ client[x].sending = <<>>
    BY DEF Init, NewClient
  <2>2. io = <<>> /\ Len(io) = 0
    BY DEF Init
  <2>3. QED
    BY <2>1, <2>2, SMTT(60) DEF Good, FlagsInv, TurnInv, NothingToSend, NoRun, OneRun,
                      NoAnswer, OneAnswer, NoAnswerSent, Idle
<1>4. QED
  BY <1>2, <1>3 DEF IInv

\* Every step keeps the invariant.
LEMMA NextIInv == IInv /\ [Next]_vars => IInv'
<1> SUFFICES ASSUME IInv, [Next]_vars PROVE IInv'
  OBVIOUS
<1>1. CASE ReadDone
  BY <1>1, ReadDoneKeeps
<1>2. CASE SendDone
  BY <1>2, SendDoneKeeps
<1>3. CASE doHeartBeat
  BY <1>3, HeartbeatKeeps
<1>4. CASE Stored \/ UNCHANGED vars
  BY <1>4 DEF Stored, vars, IInv, TypeInv
<1>5. ASSUME NEW x \in Clients, handleAfterAccept(x)
      PROVE  IInv'
  BY <1>5, AcceptKeeps
<1>6. ASSUME NEW x \in Clients, PeerSends(x)
      PROVE  IInv'
  BY <1>6, PeerSendsKeeps
<1>7. ASSUME NEW x \in Clients, ReadCompletes(x) \/ ReadFails(x)
      PROVE  IInv'
  BY <1>7, ReadKeeps
<1>8. ASSUME NEW x \in Clients, SendCompletes(x)
      PROVE  IInv'
  BY <1>8, SendCompletesKeeps
<1>9. QED
  BY <1>1, <1>2, <1>3, <1>4, <1>5, <1>6, <1>7, <1>8 DEF Next

\* The sets of queued handlers that FlagsCountOperations speaks of.
LEMMA HandlersRuns ==
  ASSUME NEW x, NEW run
  PROVE  /\ OneRun(io, x, run) => AtMostOne(Handlers(x, run))
         /\ NoRun(io, x, run) <=> Handlers(x, run) = {}
BY DEF OneRun, NoRun, Is, Handlers, AtMostOne

\* For any number of connections, queries, waiting sends and failures: the two
\* flags by which close() decides whether the table may let a connection go say
\* what is outstanding, never more than one read and one send, and nothing is
\* outstanding for a connection that has left the table.
THEOREM FlagsAreExact == Spec => []FlagsCountOperations
<1>1. IInv => FlagsCountOperations
  <2> SUFFICES ASSUME IInv, NEW x \in Clients
               PROVE  LET c == client[x]
                          read == Handlers(x, "read")
                          sends == Handlers(x, "send")
                      IN /\ AtMostOne(read) /\ AtMostOne(sends) /\ Len(c.sending) <= 1
                         /\ ~(c.reading /\ read # {}) /\ ~(c.sending # <<>> /\ sends # {})
                         /\ c.recvActive <=> c.reading \/ read # {}
                         /\ c.sendActive <=> c.sending # <<>> \/ sends # {}
                         /\ x \notin connected => ~c.recvActive /\ ~c.sendActive
    BY ZenonT(30) DEF FlagsCountOperations
  <2>1. FlagsInv(x, client[x], io) /\ (x \notin connected => Idle(client[x]))
    BY ZenonT(30) DEF IInv, Good
  <2>2. QED
    BY <2>1, HandlersRuns, ZenonT(30) DEF FlagsInv, Idle
<1>2. QED
  BY <1>1, InitIInv, NextIInv, PTL DEF Spec
=============================================================================
