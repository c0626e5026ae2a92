--------------------------- MODULE ServiceProofs ---------------------------
(***************************************************************************)
(* A Service's handle is its own (HandleIsItsOwn of Service), for any      *)
(* number of threads, Services and handles.                                *)
(*                                                                         *)
(* By itself that is not inductive.  A handle is closed by the end of an   *)
(* owner's destructor: nobody else may have the session then, so nobody    *)
(* may come to have it while the destructor runs.  Those who could are     *)
(* calls on the same Service, which ChangersAreAlone rules out, and        *)
(* replies that bring a handle: these bring one of a session that no       *)
(* Service has (DeliveryFresh), each another one (DeliveriesDiffer).  That *)
(* a reply brings a handle and not the number of an object depends on the  *)
(* request, so RequestWritten keeps what is in the message buffer.         *)
(*                                                                         *)
(* That requests and replies fit and that objects are held takes more: who *)
(* may be for all of a session, which sessions are domains, and which      *)
(* reply brings which object.  JInv adds that.                             *)
(***************************************************************************)
EXTENDS Service, TLAPS, FiniteSetTheorems

(* A call in flight has a live subject, which is used by nobody else when  *)
(* it is converted or released, and is no domain when it is asked for the  *)
(* logger's session.                                                       *)
Busy(t) == call[t].step # "idle"
SubjectsLive == \A t \in Threads : Busy(t) => call[t].slot \in Slots /\ Subject(t).live
ChangersAreAlone ==
  \A t, u \in Threads :
    Busy(t) /\ Busy(u) /\ t # u /\ call[t].slot = call[u].slot => call[t].op \notin {"convert", "release"}
LoggerByHandle == \A t \in Threads : Busy(t) /\ call[t].op = "logger" => Subject(t).object = None
Calls == SubjectsLive /\ ChangersAreAlone /\ LoggerByHandle

(* What is known of a call by how far it is, and of the pointer buffer:    *)
(* what was put there and what is left.                                    *)
Steps ==
  \A t \in Threads : /\ call[t].used + call[t].room <= Unknown
                     /\ call[t].step = "new" \/ call[t].query => call[t].used = 0
                     /\ call[t].step \in {"new", "built"} => ~call[t].query
                     /\ call[t].step = "again" => call[t].op = "release"

(* Sessions and those who hold them. *)
HandlesStand ==
  \A s \in Slots : svc[s].session # None => svc[s].of # None /\ table[svc[s].session] = svc[s].of
OwnersHold == \A s \in Slots : svc[s].owned => svc[s].session # None /\ svc[s].root
OneHandleEach == \A g, h \in Handles : table[g] = table[h] /\ table[g] # None => g = h
ReleasersAreLast ==
  \A t \in Threads : Busy(t) /\ call[t].op = "release" /\ Subject(t).owned => LastOfSession(call[t].slot)
Owners == HandlesStand /\ OwnersHold /\ OneHandleEach /\ ReleasersAreLast

(* What is in the message buffers: a request as it was written, a reply    *)
(* with a value of the right type, or with a handle that nobody holds yet. *)
RequestWritten(t) == call[t].step = "written" => tls[t] = Message(call[t], Subject(t))
HasReply(t) == call[t].step = "sent" /\ call[t].sent /\ tls[t].ok
ReplyTyped(t) ==
  HasReply(t) =>
    /\ call[t].query => tls[t].value \in Sizes \union {0}
    /\ ~call[t].query /\ call[t].op = "convert" => tls[t].value \in Ids
    /\ ~call[t].query /\ call[t].op \in {"get", "logger"} =>
         tls[t].value \in IF Subject(t).object # None THEN Ids ELSE Handles
Delivers(t) == HasReply(t) /\ ~call[t].query /\ call[t].op = "get" /\ Subject(t).object = None
DeliveryFresh(t) ==
  Delivers(t) => /\ table[tls[t].value] # None
                 /\ \A s \in Slots : svc[s].of # table[tls[t].value]
DeliveriesDiffer ==
  \A t, u \in Threads : Delivers(t) /\ Delivers(u) /\ t # u => tls[t].value # tls[u].value
Mail ==
  /\ \A t \in Threads : RequestWritten(t) /\ ReplyTyped(t) /\ DeliveryFresh(t)
  /\ DeliveriesDiffer

(* Types, of the message buffers only that there is one for each thread. *)
Serv == [session : Handles \union {None}, object : Ids \union {None}, owned : BOOLEAN,
         ptr : 0 .. Unknown, of : Sessions \union {None}, root : BOOLEAN, live : BOOLEAN]
CallRec == [op : {"plain", "get", "logger", "convert", "release"}, slot : Slots \union {None},
            step : {"idle", "new", "built", "written", "sent", "again"},
            query : BOOLEAN, room : 0 .. Unknown, used : 0 .. Unknown, sent : BOOLEAN]
ServerRec == [open : BOOLEAN, domain : BOOLEAN, objects : SUBSET Ids, size : Sizes \union {0}]

Typed ==
  /\ svc \in [Slots -> Serv]
  /\ call \in [Threads -> CallRec]
  /\ logger \in Handles \union {None}
  /\ table \in [Handles -> Sessions \union {None}]
  /\ server \in [Sessions -> ServerRec]
  /\ halted \in BOOLEAN
  /\ tls = [t \in Threads |-> tls[t]]

IInv == Typed /\ Calls /\ Steps /\ Owners /\ Mail

-----------------------------------------------------------------------------
(* What is left of a buffer that is large enough, as the u16 it is. *)
LEMMA RoomLeft ==
  ASSUME NEW room \in 0 .. Unknown, NEW n \in 0 .. room
  PROVE  (room + Unknown + 1 - n) % (Unknown + 1) = room - n
<1> DEFINE x == room - n
           m == Unknown + 1
<1>1. x \in 0 .. m - 1 /\ m \in Nat \ {0} /\ room + Unknown + 1 - n = x + m
  BY ServiceAssumption
<1> HIDE DEF x, m
<1>2. (x + m) % m = x
  BY <1>1, Z3
<1> QED BY <1>1, <1>2 DEF x, m

-----------------------------------------------------------------------------
(* Types *)
LEMMA TypedIsTypeOK == Typed <=> TypeOK /\ tls = [t \in Threads |-> tls[t]]
  BY DEF Typed, TypeOK, Serv, CallRec, ServerRec

LEMMA GoneIs ==
  Gone = [session |-> None, object |-> None, owned |-> FALSE, ptr |-> Unknown,
          of |-> None, root |-> FALSE, live |-> FALSE]
<1> DEFINE v == Holder(None, None, FALSE, Unknown, None, FALSE)
<1>1. v = [session |-> None, object |-> None, owned |-> FALSE, ptr |-> Unknown,
           of |-> None, root |-> FALSE, live |-> TRUE]
  BY DEF Holder
<1>2. Gone = [v EXCEPT !.live = FALSE]
  BY DEF Gone
<1> HIDE DEF v
<1> QED BY <1>1, <1>2

LEMMA RestingIs ==
  Resting = [op |-> "plain", slot |-> None, step |-> "idle", query |-> FALSE,
             room |-> 0, used |-> 0, sent |-> FALSE]
<1> DEFINE c == Doing("plain", None)
<1>1. c = [op |-> "plain", slot |-> None, step |-> "new", query |-> FALSE,
           room |-> 0, used |-> 0, sent |-> FALSE]
  BY DEF Doing
<1>2. Resting = [c EXCEPT !.step = "idle"]
  BY DEF Resting
<1> HIDE DEF c
<1> QED BY <1>1, <1>2

LEMMA RecordTypes ==
  /\ Gone \in Serv
  /\ Resting \in CallRec
  /\ \A v \in Serv : MovedFrom(v) \in Serv
  /\ \A s \in Slots, op \in {"plain", "get", "logger", "convert", "release"} : Doing(op, s) \in CallRec
  /\ \A h \in Handles, x \in Sessions \union {None} : FromHandle(h, x) \in Serv
  /\ \A v \in Serv, id \in Ids : DomainSubservice(v, id) \in Serv
<1> USE ServiceAssumption
<1>1. Gone \in Serv
  BY GoneIs DEF Serv
<1>2. Resting \in CallRec
  BY RestingIs DEF CallRec
<1>3. \A v \in Serv : MovedFrom(v) \in Serv
  BY DEF MovedFrom, Serv
<1>4. \A s \in Slots, op \in {"plain", "get", "logger", "convert", "release"} : Doing(op, s) \in CallRec
  BY DEF Doing, CallRec
<1>5. \A h \in Handles, x \in Sessions \union {None} : FromHandle(h, x) \in Serv
  BY DEF FromHandle, Holder, Serv
<1>6. \A v \in Serv, id \in Ids : DomainSubservice(v, id) \in Serv
  BY DEF DomainSubservice, Holder, Serv
<1> QED BY <1>1, <1>2, <1>3, <1>4, <1>5, <1>6

-----------------------------------------------------------------------------
(* A call goes on: it is about the same Service, for the same purpose. *)
Stepped(t, step, query, room, used, sent) ==
  /\ call' \in [Threads -> CallRec]
  /\ call'[t].op = call[t].op /\ call'[t].slot = call[t].slot
  /\ call'[t].step = step /\ call'[t].query = query
  /\ call'[t].room = room /\ call'[t].used = used /\ call'[t].sent = sent
  /\ \A u \in Threads \ {t} : call'[u] = call[u]

LEMMA SteppedTo ==
  ASSUME Typed, NEW t \in Threads, NEW c \in CallRec,
         c.op = call[t].op, c.slot = call[t].slot, call' = [call EXCEPT ![t] = c]
  PROVE  Stepped(t, c.step, c.query, c.room, c.used, c.sent)
  BY DEF Typed, Stepped

LEMMA ConstructDoes ==
  ASSUME Typed, NEW t \in Threads, call[t].slot \in Slots, Construct(t)
  PROVE  /\ \/ /\ Stepped(t, "built", call[t].query, Subject(t).ptr, call[t].used, call[t].sent)
               /\ UNCHANGED tls
            \/ /\ Stepped(t, "written", TRUE, call[t].room, call[t].used, call[t].sent)
               /\ tls' = [tls EXCEPT ![t] = Message(call'[t], Subject(t))]
         /\ call[t].step = "new"
         /\ UNCHANGED <<svc, logger, table, server, halted>>
<1>1. call[t] \in CallRec /\ Subject(t).ptr \in 0 .. Unknown
  BY DEF Typed, Subject, Serv
<1>2. CASE Subject(t).ptr # Unknown
  <2> DEFINE c == [call[t] EXCEPT !.step = "built", !.room = Subject(t).ptr]
  <2>1. call' = [call EXCEPT ![t] = c] /\ UNCHANGED tls
    BY <1>2 DEF Construct, Typed
  <2>2. /\ c \in CallRec /\ c.op = call[t].op /\ c.slot = call[t].slot /\ c.step = "built"
        /\ c.query = call[t].query /\ c.room = Subject(t).ptr /\ c.used = call[t].used /\ c.sent = call[t].sent
    BY <1>1 DEF CallRec
  <2> HIDE DEF c
  <2>3. Stepped(t, "built", call[t].query, Subject(t).ptr, call[t].used, call[t].sent)
    BY <2>1, <2>2, SteppedTo
  <2> QED BY <2>1, <2>3 DEF Construct, At
<1>3. CASE ~(Subject(t).ptr # Unknown)
  <2> DEFINE c == [call[t] EXCEPT !.step = "written", !.query = TRUE]
  <2>1. call' = [call EXCEPT ![t] = c] /\ tls' = [tls EXCEPT ![t] = Message(c, Subject(t))]
    BY <1>3 DEF Construct
  <2>2. /\ c \in CallRec /\ c.op = call[t].op /\ c.slot = call[t].slot /\ c.step = "written"
        /\ c.query = TRUE /\ c.room = call[t].room /\ c.used = call[t].used /\ c.sent = call[t].sent
    BY <1>1 DEF CallRec
  <2> HIDE DEF c
  <2>3. Stepped(t, "written", TRUE, call[t].room, call[t].used, call[t].sent)
    BY <2>1, <2>2, SteppedTo
  <2>4. call'[t] = c
    BY <2>1 DEF Typed
  <2> QED BY <2>1, <2>3, <2>4 DEF Construct, At
<1> QED BY <1>2, <1>3

LEMMA WriteDoes ==
  ASSUME Typed, NEW t \in Threads, WriteToTls(t)
  PROVE  /\ Stepped(t, "written", call[t].query, call[t].room, call[t].used, call[t].sent)
         /\ tls' = [tls EXCEPT ![t] = Message(call[t], Subject(t))]
         /\ call[t].step = "built"
         /\ UNCHANGED <<svc, logger, table, server, halted>>
<1> DEFINE c == [call[t] EXCEPT !.step = "written"]
<1>1. call[t] \in CallRec
  BY DEF Typed
<1>2. call' = [call EXCEPT ![t] = c]
  BY DEF WriteToTls, Go, Typed
<1>3. /\ c \in CallRec /\ c.op = call[t].op /\ c.slot = call[t].slot /\ c.step = "written"
      /\ c.query = call[t].query /\ c.room = call[t].room /\ c.used = call[t].used /\ c.sent = call[t].sent
  BY <1>1 DEF CallRec
<1> HIDE DEF c
<1>4. Stepped(t, "written", call[t].query, call[t].room, call[t].used, call[t].sent)
  BY <1>2, <1>3, SteppedTo
<1> QED BY <1>4 DEF WriteToTls, At

LEMMA AddDoes ==
  ASSUME Typed, Steps, NEW t \in Threads, NEW n \in Lengths, AddInPointer(t, n) \/ AddInAutoselect(t, n)
  PROVE  /\ Stepped(t, "built", call[t].query, call[t].room - n, call[t].used + n, call[t].sent)
         /\ call[t].step = "built"
         /\ n \in 0 .. call[t].room
         /\ UNCHANGED <<svc, tls, logger, table, server, halted>>
<1> DEFINE c == [call[t] EXCEPT !.used = call[t].used + n, !.room = call[t].room - n]
<1>1. call[t] \in CallRec /\ call[t].room \in 0 .. Unknown /\ call[t].used \in 0 .. Unknown /\ n \in Nat
  BY ServiceAssumption DEF Typed, CallRec
<1>2. n \in 0 .. call[t].room
  BY <1>1 DEF AddInPointer, AddInAutoselect
<1>3. (call[t].room + Unknown + 1 - n) % (Unknown + 1) = call[t].room - n
  BY <1>1, <1>2, RoomLeft
<1>4. call[t].step = "built"
  BY DEF AddInPointer, AddInAutoselect, At
<1>5. call' = [call EXCEPT ![t].used = call[t].used + n, ![t].room = call[t].room - n]
  BY <1>3 DEF AddInPointer, AddInAutoselect, Typed
<1>6. call' = [call EXCEPT ![t] = c]
  BY <1>5 DEF Typed
<1>7. call[t].used + n \in 0 .. Unknown /\ call[t].room - n \in 0 .. Unknown
  BY <1>1, <1>2, ServiceAssumption DEF Steps
<1>8. /\ c \in CallRec /\ c.op = call[t].op /\ c.slot = call[t].slot /\ c.step = call[t].step
      /\ c.query = call[t].query /\ c.room = call[t].room - n /\ c.used = call[t].used + n /\ c.sent = call[t].sent
  BY <1>1, <1>7 DEF CallRec
<1> HIDE DEF c
<1>9. Stepped(t, "built", call[t].query, call[t].room - n, call[t].used + n, call[t].sent)
  BY <1>4, <1>6, <1>8, SteppedTo
<1> QED BY <1>2, <1>4, <1>9 DEF AddInPointer, AddInAutoselect

LEMMA QueryDoes ==
  ASSUME Typed, NEW t \in Threads, ReadPointerBufferSize(t)
  PROVE  /\ call[t].step = "sent" /\ call[t].query
         /\ \/ /\ HasReply(t)
               /\ svc' = [svc EXCEPT ![call[t].slot].ptr = tls[t].value]
               /\ Stepped(t, "new", FALSE, call[t].room, call[t].used, call[t].sent)
               /\ UNCHANGED halted
            \/ halted' = TRUE /\ UNCHANGED <<svc, call>>
         /\ UNCHANGED <<tls, logger, table, server>>
<1> DEFINE c == AfterQuery(call[t])
<1>1. call[t] \in CallRec
  BY DEF Typed
<1>2. /\ c \in CallRec /\ c.op = call[t].op /\ c.slot = call[t].slot /\ c.step = "new"
      /\ c.query = FALSE /\ c.room = call[t].room /\ c.used = call[t].used /\ c.sent = call[t].sent
  BY <1>1 DEF AfterQuery, CallRec
<1>3. ASSUME call' = [call EXCEPT ![t] = c]
      PROVE  Stepped(t, "new", FALSE, call[t].room, call[t].used, call[t].sent)
  <2> HIDE DEF c
  <2> QED BY <1>2, <1>3, SteppedTo
<1> QED BY <1>3 DEF ReadPointerBufferSize, At, HasReply

-----------------------------------------------------------------------------
(* What the kernel and a server make of a message. *)
Opened == \E h \in Handles, x \in Sessions : OpenSession(h, x)

(* The reply to a message m to session x, as far as callers rely on it. *)
Replied(t, m, x) ==
  /\ m.command = "query" => tls'[t].value \in Sizes \union {0}
  /\ m.command = "convert" => tls'[t].value \in Ids
  /\ m.command \in {"get", "logger"} /\ server[x].domain => tls'[t].value \in Ids
  /\ m.command \in {"get", "logger"} /\ ~server[x].domain =>
       \E h \in Handles, y \in Sessions : OpenSession(h, y) /\ tls'[t].value = h

LEMMA OpenSessionTypes ==
  ASSUME Typed, NEW h \in Handles, NEW x \in Sessions, OpenSession(h, x)
  PROVE  table' \in [Handles -> Sessions \union {None}] /\ server' \in [Sessions -> ServerRec]
<1>1. table' \in [Handles -> Sessions \union {None}]
  BY DEF OpenSession, Typed
<1>2. PICK size \in Sizes :
        server' = [server EXCEPT ![x] = [open |-> TRUE, domain |-> FALSE, objects |-> {}, size |-> size]]
  BY DEF OpenSession
<1> DEFINE v == [open |-> TRUE, domain |-> FALSE, objects |-> {}, size |-> size]
<1>3. v \in ServerRec
  BY DEF ServerRec
<1> HIDE DEF v
<1>4. server' = [server EXCEPT ![x] = v]
  BY <1>2 DEF v
<1> QED BY <1>1, <1>3, <1>4 DEF Typed

LEMMA AnswerDoes ==
  ASSUME Typed, NEW t \in Threads, NEW x \in Sessions, Answer(t, x)
  PROVE  /\ tls' = [u \in Threads |-> tls'[u]] /\ \A u \in Threads \ {t} : tls'[u] = tls[u]
         /\ table' \in [Handles -> Sessions \union {None}] /\ server' \in [Sessions -> ServerRec]
         /\ UNCHANGED table \/ Opened
         /\ tls'[t].ok => Replied(t, tls[t], x)
<1> DEFINE m == tls[t]
           reply(ok, value) == Reply(m.command, IsDomain(m), ok, value)
           object == \/ m.command = "convert"
                     \/ m.command \in {"get", "logger"} /\ server[x].domain
           Goal == /\ tls' = [u \in Threads |-> tls'[u]] /\ \A u \in Threads \ {t} : tls'[u] = tls[u]
                   /\ table' \in [Handles -> Sessions \union {None}] /\ server' \in [Sessions -> ServerRec]
                   /\ UNCHANGED table \/ Opened
                   /\ tls'[t].ok => Replied(t, m, x)
<1>0. \A ok, value : reply(ok, value).ok = ok /\ reply(ok, value).value = value
  BY DEF Reply
<1> HIDE DEF reply
<1>1. ASSUME NEW ok, NEW value, tls' = [tls EXCEPT ![t] = reply(ok, value)]
      PROVE  /\ tls' = [u \in Threads |-> tls'[u]] /\ \A u \in Threads \ {t} : tls'[u] = tls[u]
             /\ tls'[t].ok = ok /\ tls'[t].value = value
  BY <1>0, <1>1 DEF Typed
<1>2. ASSUME m.command # "release", tls' = [tls EXCEPT ![t] = reply(FALSE, None)], UNCHANGED <<table, server>>
      PROVE  Goal
  BY <1>1, <1>2 DEF Typed
<1>3. ASSUME m.command = "query", tls' = [tls EXCEPT ![t] = reply(TRUE, server[x].size)], UNCHANGED <<table, server>>
      PROVE  Goal
  <2>1. server[x].size \in Sizes \union {0}
    BY DEF Typed, ServerRec
  <2> QED BY <1>1, <1>3, <2>1 DEF Typed, Replied
<1>4. ASSUME m.command = "plain", tls' = [tls EXCEPT ![t] = reply(TRUE, None)], UNCHANGED <<table, server>>
      PROVE  Goal
  BY <1>1, <1>4 DEF Typed, Replied
<1>5. ASSUME object, UNCHANGED table, NEW id \in Ids, tls' = [tls EXCEPT ![t] = reply(TRUE, id)],
             server' = [server EXCEPT ![x].domain = TRUE, ![x].objects = @ \union {id}]
      PROVE  Goal
  <2> DEFINE v == [server[x] EXCEPT !.domain = TRUE, !.objects = @ \union {id}]
  <2>1. server' = [server EXCEPT ![x] = v]
    BY <1>5 DEF Typed
  <2>2. v \in ServerRec
    BY DEF Typed, ServerRec
  <2> HIDE DEF v
  <2>3. server' \in [Sessions -> ServerRec]
    BY <2>1, <2>2 DEF Typed
  <2> QED BY <1>1, <1>5, <2>3, ZenonT(60) DEF Typed, Replied
<1>6. ASSUME m.command \in {"get", "logger"}, ~object,
             NEW h \in Handles, NEW y \in Sessions, OpenSession(h, y), tls' = [tls EXCEPT ![t] = reply(TRUE, h)]
      PROVE  Goal
  BY <1>1, <1>6, OpenSessionTypes DEF Opened, Replied
<1>7. ASSUME m.command = "release", tls' = [tls EXCEPT ![t] = reply(TRUE, None)], UNCHANGED table,
             server' = [server EXCEPT ![x].objects = @ \ {m.object}]
      PROVE  Goal
  <2> DEFINE v == [server[x] EXCEPT !.objects = @ \ {m.object}]
  <2>1. server' = [server EXCEPT ![x] = v]
    BY <1>7 DEF Typed
  <2>2. v \in ServerRec
    BY DEF Typed, ServerRec
  <2> HIDE DEF v
  <2>3. server' \in [Sessions -> ServerRec]
    BY <2>1, <2>2 DEF Typed
  <2> QED BY <1>1, <1>7, <2>3 DEF Typed, Replied
<1> QED BY <1>2, <1>3, <1>4, <1>5, <1>6, <1>7 DEF Answer, reply

LEMMA SendDoes ==
  ASSUME Typed, NEW t \in Threads, NEW h \in Handles \union {None}, NEW next \in {"sent", "again"},
         SendSyncRequest(t, h, next)
  PROVE  /\ \E ok \in BOOLEAN :
              /\ Stepped(t, next, call[t].query, call[t].room, call[t].used, ok)
              /\ ok /\ tls'[t].ok =>
                   /\ h # None /\ table[h] \in Sessions /\ Fits(table[h], tls[t])
                   /\ Replied(t, tls[t], table[h])
         /\ tls' = [u \in Threads |-> tls'[u]] /\ \A u \in Threads \ {t} : tls'[u] = tls[u]
         /\ table' \in [Handles -> Sessions \union {None}] /\ server' \in [Sessions -> ServerRec]
         /\ UNCHANGED table \/ Opened
<1> DEFINE m == tls[t]
           done(ok) == call' = [call EXCEPT ![t].step = next, ![t].sent = ok]
           Reads == h # None /\ Open(h) /\ Fits(table[h], m)
           Kept == /\ tls' = [u \in Threads |-> tls'[u]] /\ \A u \in Threads \ {t} : tls'[u] = tls[u]
                   /\ table' \in [Handles -> Sessions \union {None}] /\ server' \in [Sessions -> ServerRec]
                   /\ UNCHANGED table \/ Opened
           Goes(ok) == Stepped(t, next, call[t].query, call[t].room, call[t].used, ok)
           Fine(ok) == ok /\ tls'[t].ok =>
                         /\ h # None /\ table[h] \in Sessions /\ Fits(table[h], m)
                         /\ Replied(t, m, table[h])
<1>1. ASSUME NEW ok \in BOOLEAN, done(ok) PROVE Goes(ok)
  <2> DEFINE c == [call[t] EXCEPT !.step = next, !.sent = ok]
  <2>1. call[t] \in CallRec
    BY DEF Typed
  <2>2. call' = [call EXCEPT ![t] = c]
    BY <1>1 DEF Typed
  <2>3. /\ c \in CallRec /\ c.op = call[t].op /\ c.slot = call[t].slot /\ c.step = next
        /\ c.query = call[t].query /\ c.room = call[t].room /\ c.used = call[t].used /\ c.sent = ok
    BY <2>1 DEF CallRec
  <2> HIDE DEF c
  <2> QED BY <2>2, <2>3, SteppedTo
<1>2. ASSUME h # None, Open(h) PROVE h \in Handles /\ table[h] \in Sessions
  BY <1>2 DEF Open, Typed
<1>3. ASSUME UNCHANGED <<tls, table, server>> PROVE Kept
  BY <1>3 DEF Typed
<1>4. ASSUME Reads, server' = [server EXCEPT ![table[h]].open = FALSE], UNCHANGED <<tls, table>> PROVE Kept
  <2> DEFINE x == table[h]
             v == [server[x] EXCEPT !.open = FALSE]
  <2>1. x \in Sessions
    BY <1>2, <1>4
  <2> HIDE DEF x
  <2>2. server' = [server EXCEPT ![x] = v]
    BY <1>4, <2>1 DEF Typed, x
  <2>3. v \in ServerRec
    BY <2>1 DEF Typed, ServerRec
  <2> HIDE DEF v
  <2>4. server' \in [Sessions -> ServerRec]
    BY <2>1, <2>2, <2>3 DEF Typed
  <2> QED BY <1>4, <2>4 DEF Typed
<1>5. ASSUME Reads, Answer(t, table[h]) PROVE Kept /\ Fine(TRUE)
  <2>1. table[h] \in Sessions
    BY <1>2, <1>5
  <2> QED BY <1>5, <2>1, AnswerDoes
<1>6. ASSUME tls' = [tls EXCEPT ![t] = Reply("unread", FALSE, FALSE, None)], UNCHANGED <<table, server>>
      PROVE  Kept /\ Fine(TRUE)
  <2>1. tls'[t].ok = FALSE
    BY <1>6 DEF Typed, Reply
  <2>2. tls' = [u \in Threads |-> tls'[u]] /\ \A u \in Threads \ {t} : tls'[u] = tls[u]
    BY <1>6 DEF Typed
  <2> QED BY <1>6, <2>1, <2>2 DEF Typed
<1>7. \/ done(FALSE) /\ UNCHANGED <<tls, table, server>>
      \/ Reads /\ server' = [server EXCEPT ![table[h]].open = FALSE] /\ done(FALSE) /\ UNCHANGED <<tls, table>>
      \/ Reads /\ Answer(t, table[h]) /\ done(TRUE)
      \/ tls' = [tls EXCEPT ![t] = Reply("unread", FALSE, FALSE, None)] /\ done(TRUE) /\ UNCHANGED <<table, server>>
  BY DEF SendSyncRequest
<1> HIDE DEF done, Reads, Kept, Goes
<1>8. Kept /\ \E ok \in BOOLEAN : Goes(ok) /\ Fine(ok)
  BY <1>1, <1>3, <1>4, <1>5, <1>6, <1>7
<1> QED BY <1>8 DEF Kept, Goes

-----------------------------------------------------------------------------
LEMMA ReturnDoes ==
  ASSUME Typed, NEW t \in Threads, Return(t)
  PROVE  /\ call' \in [Threads -> CallRec] /\ call'[t].step = "idle" /\ call'[t].used = 0
         /\ call'[t].room = 0 /\ \A u \in Threads \ {t} : call'[u] = call[u]
         /\ tls' = [u \in Threads |-> tls'[u]] /\ \A u \in Threads \ {t} : tls'[u] = tls[u]
<1>1. Resting \in CallRec /\ Resting.step = "idle" /\ Resting.used = 0 /\ Resting.room = 0
  BY RecordTypes, RestingIs
<1> QED BY <1>1 DEF Return, Typed

LEMMA DoingIs ==
  ASSUME Typed, NEW t \in Threads, NEW s \in Slots,
         NEW op \in {"plain", "get", "logger", "convert", "release"},
         call' = [call EXCEPT ![t] = Doing(op, s)]
  PROVE  /\ call' \in [Threads -> CallRec] /\ call'[t].op = op /\ call'[t].slot = s
         /\ call'[t].step = "new" /\ call'[t].used = 0 /\ call'[t].room = 0 /\ call'[t].query = FALSE
         /\ \A u \in Threads \ {t} : call'[u] = call[u]
<1> DEFINE c == Doing(op, s)
<1>1. /\ c \in CallRec /\ c.op = op /\ c.slot = s
      /\ c.step = "new" /\ c.used = 0 /\ c.room = 0 /\ c.query = FALSE
  BY RecordTypes DEF Doing
<1>2. call' = [call EXCEPT ![t] = c]
  OBVIOUS
<1> HIDE DEF c
<1> QED BY <1>1, <1>2 DEF Typed

(* A thread that reads a reply is busy with a Service that exists. *)
LEMMA SubjectTyped ==
  ASSUME Typed, Calls, NEW t \in Threads, call[t].step # "idle"
  PROVE  /\ call[t].slot \in Slots /\ Subject(t) = svc[call[t].slot] /\ Subject(t) \in Serv
         /\ Subject(t).live /\ Subject(t).session \in Handles \union {None}
  BY DEF Typed, Calls, SubjectsLive, Busy, Subject, Serv

LEMMA TypedRead ==
  ASSUME IInv, NEW t \in Threads, ReadFromTls(t)
  PROVE  Typed'
<1> DEFINE s == call[t].slot
           value == tls[t].value
<1>1. Typed /\ s \in Slots /\ Subject(t) = svc[s] /\ svc[s] \in Serv /\ ReplyTyped(t) /\ call[t] \in CallRec
  <2>1. call[t].step # "idle"
    BY DEF ReadFromTls, At
  <2> QED BY <2>1, SubjectTyped DEF IInv, Mail, Typed
<1>2. call' \in [Threads -> CallRec] /\ tls' = [u \in Threads |-> tls'[u]] /\ UNCHANGED <<table, server, halted>>
  BY <1>1, ReturnDoes DEF ReadFromTls
<1>3. svc' \in [Slots -> Serv] /\ logger' \in Handles \union {None}
  <2>1. ASSUME HasReply(t), ~call[t].query, call[t].op = "convert", svc' = [svc EXCEPT ![s].object = value], UNCHANGED logger
        PROVE  svc' \in [Slots -> Serv] /\ logger' \in Handles \union {None}
    <3> DEFINE v == [svc[s] EXCEPT !.object = value]
    <3>0. value \in Ids
      BY <1>1, <2>1 DEF ReplyTyped
    <3>1. v \in Serv
      BY <1>1, <3>0 DEF Serv
    <3>2. svc' = [svc EXCEPT ![s] = v]
      BY <1>1, <2>1 DEF Typed
    <3> HIDE DEF v
    <3> QED BY <1>1, <2>1, <3>1, <3>2 DEF Typed
  <2>2. ASSUME HasReply(t), ~call[t].query, call[t].op = "get", UNCHANGED logger,
               NEW d \in Slots, svc' = [svc EXCEPT ![d] = NextSubservice(svc[s], value)]
        PROVE  svc' \in [Slots -> Serv] /\ logger' \in Handles \union {None}
    <3>1. NextSubservice(svc[s], value) \in Serv
      <4>1. CASE svc[s].object # None
        <5>1. value \in Ids
          BY <1>1, <2>2, <4>1 DEF ReplyTyped
        <5> QED BY <1>1, <4>1, <5>1, RecordTypes DEF NextSubservice, IsDomain
      <4>2. CASE svc[s].object = None
        <5>1. value \in Handles
          BY <1>1, <2>2, <4>2 DEF ReplyTyped
        <5>2. table[value] \in Sessions \union {None}
          BY <1>1, <5>1 DEF Typed
        <5> QED BY <4>2, <5>1, <5>2, RecordTypes DEF NextSubservice, IsDomain
      <4> QED BY <4>1, <4>2
    <3> QED BY <1>1, <2>2, <3>1 DEF Typed
  <2>3. ASSUME HasReply(t), ~call[t].query, call[t].op = "logger", UNCHANGED svc, logger' = value
        PROVE  svc' \in [Slots -> Serv] /\ logger' \in Handles \union {None}
    <3>1. Subject(t).object = None
      BY <2>3 DEF IInv, Calls, LoggerByHandle, Busy, HasReply
    <3> QED BY <1>1, <2>3, <3>1 DEF ReplyTyped, Typed
  <2>4. CASE UNCHANGED <<svc, logger>>
    BY <1>1, <2>4 DEF Typed
  <2> QED BY <2>1, <2>2, <2>3, <2>4 DEF ReadFromTls, HasReply, At
<1> QED BY <1>1, <1>2, <1>3 DEF Typed

LEMMA TypedEnd ==
  ASSUME IInv, NEW t \in Threads, EndOfDestructor(t)
  PROVE  Typed'
<1> DEFINE h == Subject(t).session
<1>1. Typed /\ call[t].slot \in Slots
  <2>1. call[t].step # "idle"
    BY DEF EndOfDestructor, At
  <2> QED BY <2>1, SubjectTyped DEF IInv
<1>2. call' \in [Threads -> CallRec] /\ tls' = [u \in Threads |-> tls'[u]]
  BY <1>1, ReturnDoes DEF EndOfDestructor
<1>3. svc' \in [Slots -> Serv]
  BY <1>1, RecordTypes DEF EndOfDestructor, Typed
<1>4. table' \in [Handles -> Sessions \union {None}] /\ server' \in [Sessions -> ServerRec]
  <2>1. CASE CloseHandle(h)
    <3>1. table' \in [Handles -> Sessions \union {None}]
      BY <1>1, <2>1 DEF CloseHandle, Typed
    <3>2. \A x \in Sessions : server[x] \in ServerRec /\ [server[x] EXCEPT !.open = FALSE] \in ServerRec
      BY <1>1 DEF Typed, ServerRec
    <3>3. server' \in [Sessions -> ServerRec]
      BY <2>1, <3>2 DEF CloseHandle
    <3> QED BY <3>1, <3>3
  <2>2. CASE UNCHANGED <<table, server>>
    BY <1>1, <2>2 DEF Typed
  <2> QED BY <2>1, <2>2 DEF EndOfDestructor
<1> QED BY <1>1, <1>2, <1>3, <1>4 DEF EndOfDestructor, Typed

(* What an action does to the state, with the types that come of it. *)
LEMMA TypedStep ==
  ASSUME IInv, [Next]_vars
  PROVE  Typed'
<1>0. Typed /\ Calls /\ Steps
  BY DEF IInv
<1>1. ASSUME NEW t \in Threads, NEW s \in Slots, Connect(t, s) PROVE Typed'
  <2>1. PICK h \in Handles, x \in Sessions : OpenSession(h, x) /\ svc' = [svc EXCEPT ![s] = OwnerOf(h)']
    BY <1>1 DEF Connect
  <2>2. table' \in [Handles -> Sessions \union {None}] /\ server' \in [Sessions -> ServerRec]
    BY <1>0, <2>1, OpenSessionTypes
  <2>3. OwnerOf(h)' \in Serv
    <3>1. table'[h] \in Sessions \union {None}
      BY <2>2
    <3> QED BY <3>1, ServiceAssumption DEF OwnerOf, Holder, Serv
  <2> QED BY <1>0, <1>1, <2>1, <2>2, <2>3 DEF Connect, Typed
<1>2. ASSUME NEW t \in Threads, NEW s \in Slots, Destroy(t, s) PROVE Typed'
  <2>1. CASE call' = [call EXCEPT ![t] = Doing("release", s)] /\ UNCHANGED svc
    BY <1>0, <1>2, <2>1, DoingIs DEF Destroy, Typed
  <2>2. CASE svc' = [svc EXCEPT ![s] = Gone] /\ UNCHANGED call
    BY <1>0, <1>2, <2>2, RecordTypes DEF Destroy, Typed
  <2> QED BY <1>2, <2>1, <2>2 DEF Destroy
<1>3. ASSUME NEW t \in Threads, NEW s \in Slots, InitializeLogger(t, s) PROVE Typed'
  BY <1>0, <1>3, DoingIs DEF InitializeLogger, Typed
<1>4. ASSUME NEW t \in Threads, NEW s \in Slots, NEW d \in Slots, Move(t, s, d) PROVE Typed'
  <2>1. svc[s] \in Serv /\ MovedFrom(svc[s]) \in Serv
    BY <1>0, RecordTypes DEF Typed
  <2> QED BY <1>0, <1>4, <2>1 DEF Move, Typed
<1>5. ASSUME NEW t \in Threads, NEW s \in Slots, NEW op \in {"plain", "get", "convert"}, Begin(t, s, op) PROVE Typed'
  BY <1>0, <1>5, DoingIs DEF Begin, Typed
<1>6. ASSUME NEW t \in Threads, Construct(t) PROVE Typed'
  <2>1. call[t].slot \in Slots
    BY <1>0, <1>6, SubjectTyped DEF Construct, At
  <2>2. call' \in [Threads -> CallRec] /\ tls' = [u \in Threads |-> tls'[u]] /\ UNCHANGED <<svc, logger, table, server, halted>>
    BY <1>0, <1>6, <2>1, ConstructDoes, ZenonT(60) DEF Stepped, Typed
  <2> QED BY <1>0, <2>2 DEF Typed
<1>7. ASSUME NEW t \in Threads, WriteToTls(t) PROVE Typed'
  <2>1. call' \in [Threads -> CallRec] /\ tls' = [u \in Threads |-> tls'[u]] /\ UNCHANGED <<svc, logger, table, server, halted>>
    BY <1>0, <1>7, WriteDoes DEF Stepped, Typed
  <2> QED BY <1>0, <2>1 DEF Typed
<1>8. ASSUME NEW t \in Threads, NEW n \in Lengths, AddInPointer(t, n) \/ AddInAutoselect(t, n) PROVE Typed'
  <2>1. call' \in [Threads -> CallRec] /\ UNCHANGED <<svc, tls, logger, table, server, halted>>
    BY <1>0, <1>8, AddDoes DEF Stepped
  <2> QED BY <1>0, <2>1 DEF Typed
<1>9. ASSUME NEW t \in Threads, NEW next \in {"sent", "again"}, call[t].step # "idle",
             SendSyncRequest(t, Subject(t).session, next), UNCHANGED <<svc, logger, halted>>
      PROVE  Typed'
  <2>1. Subject(t).session \in Handles \union {None}
    BY <1>0, <1>9, SubjectTyped
  <2>2. call' \in [Threads -> CallRec] /\ tls' = [u \in Threads |-> tls'[u]]
    BY <1>0, <1>9, <2>1, SendDoes DEF Stepped
  <2>3. table' \in [Handles -> Sessions \union {None}] /\ server' \in [Sessions -> ServerRec]
    BY <1>0, <1>9, <2>1, SendDoes
  <2> QED BY <1>0, <1>9, <2>2, <2>3 DEF Typed
<1>10. ASSUME NEW t \in Threads, ReadPointerBufferSize(t) PROVE Typed'
  <2> DEFINE s == call[t].slot
             v == [svc[s] EXCEPT !.ptr = tls[t].value]
  <2>1. s \in Slots /\ svc[s] \in Serv
    BY <1>0, <1>10, SubjectTyped DEF ReadPointerBufferSize, At
  <2>2. CASE HasReply(t) /\ svc' = [svc EXCEPT ![s].ptr = tls[t].value] /\ call' \in [Threads -> CallRec] /\ UNCHANGED halted
    <3>1. tls[t].value \in 0 .. Unknown
      <4>1. tls[t].value \in Sizes \union {0}
        BY <1>0, <1>10, <2>2, QueryDoes DEF IInv, Mail, ReplyTyped
      <4>2. \A n \in 0 .. Unknown - 1 : n \in 0 .. Unknown
        BY ServiceAssumption
      <4>3. Sizes \subseteq 0 .. Unknown - 1 /\ 0 \in 0 .. Unknown
        BY ServiceAssumption
      <4> QED BY <4>1, <4>2, <4>3
    <3>2. v \in Serv
      BY <2>1, <3>1 DEF Serv
    <3>3. svc' = [svc EXCEPT ![s] = v]
      BY <1>0, <2>1, <2>2 DEF Typed
    <3> HIDE DEF v, s
    <3> QED BY <1>0, <1>10, <2>1, <2>2, <3>2, <3>3 DEF Typed, ReadPointerBufferSize
  <2>3. CASE halted' = TRUE /\ UNCHANGED <<svc, call>>
    BY <1>0, <1>10, <2>3 DEF Typed, ReadPointerBufferSize
  <2> QED BY <1>0, <1>10, <2>2, <2>3, QueryDoes DEF Stepped
<1>11. ASSUME NEW t \in Threads, ReadFromTls(t) PROVE Typed'
  BY <1>11, TypedRead
<1>12. ASSUME NEW t \in Threads, EndOfDestructor(t) PROVE Typed'
  BY <1>12, TypedEnd
<1>13. ASSUME NEW t \in Threads, Log(t) PROVE Typed'
  BY <1>0, <1>13 DEF Log, Typed
<1>14. ASSUME NEW x \in Sessions, ServerCloses(x) PROVE Typed'
  <2> DEFINE v == [server[x] EXCEPT !.open = FALSE]
  <2>1. v \in ServerRec /\ server' = [server EXCEPT ![x] = v]
    BY <1>0, <1>14 DEF Typed, ServerRec, ServerCloses
  <2> HIDE DEF v
  <2> QED BY <1>0, <1>14, <2>1 DEF ServerCloses, Typed
<1>15. CASE UNCHANGED vars
  BY <1>0, <1>15 DEF vars, Typed
<1>16. ASSUME NEW t \in Threads, Send(t) \/ SendAgain(t) PROVE Typed'
  BY <1>9, <1>16 DEF Send, SendAgain, At
<1> QED BY <1>1, <1>2, <1>3, <1>4, <1>5, <1>6, <1>7, <1>8, <1>10, <1>11, <1>12, <1>13, <1>14, <1>15, <1>16 DEF Next

-----------------------------------------------------------------------------
(* How far a call is *)
StepOf(t) ==
  /\ call[t].used + call[t].room <= Unknown
  /\ call[t].step = "new" \/ call[t].query => call[t].used = 0
  /\ call[t].step \in {"new", "built"} => ~call[t].query
  /\ call[t].step = "again" => call[t].op = "release"

LEMMA StepsKept ==
  ASSUME Steps, NEW t \in Threads, \A u \in Threads \ {t} : call'[u] = call[u], StepOf(t)'
  PROVE  Steps'
  BY DEF Steps, StepOf

LEMMA StepsStep ==
  ASSUME IInv, [Next]_vars
  PROVE  Steps'
<1>0. Typed /\ Calls /\ Steps /\ Unknown \in Nat
  BY ServiceAssumption DEF IInv
<1>1. \A t \in Threads : /\ StepOf(t) /\ call[t].room \in 0 .. Unknown /\ call[t].used \in 0 .. Unknown
                         /\ call[t].query \in BOOLEAN
  BY <1>0 DEF Steps, StepOf, Typed, CallRec
<1>2. CASE UNCHANGED call
  BY <1>0, <1>2 DEF Steps
<1>3. ASSUME NEW t \in Threads, NEW s \in Slots, NEW op \in {"plain", "get", "logger", "convert", "release"},
             call' = [call EXCEPT ![t] = Doing(op, s)]
      PROVE  Steps'
  <2>1. /\ call'[t].step = "new" /\ call'[t].used = 0 /\ call'[t].room = 0 /\ call'[t].query = FALSE
        /\ \A u \in Threads \ {t} : call'[u] = call[u]
    BY <1>0, <1>3, DoingIs
  <2>2. StepOf(t)'
    BY <1>0, <2>1 DEF StepOf
  <2> QED BY <1>0, <2>1, <2>2, StepsKept
<1>4. ASSUME NEW t \in Threads, Return(t) PROVE Steps'
  BY <1>0, <1>4, ReturnDoes, StepsKept DEF StepOf
<1>5. ASSUME NEW t \in Threads, Construct(t) PROVE Steps'
  <2>1. call[t].slot \in Slots /\ Subject(t).ptr \in 0 .. Unknown
    BY <1>0, <1>5, SubjectTyped DEF Construct, At, Serv
  <2>2. StepOf(t)' /\ \A u \in Threads \ {t} : call'[u] = call[u]
    <3>1. call[t].used = 0 /\ call[t].query = FALSE /\ call[t].room \in 0 .. Unknown
      BY <1>0, <1>1, <1>5 DEF Construct, At, StepOf
    <3>2. CASE Stepped(t, "built", call[t].query, Subject(t).ptr, call[t].used, call[t].sent)
      BY <1>0, <2>1, <3>1, <3>2 DEF Stepped, StepOf
    <3>3. CASE Stepped(t, "written", TRUE, call[t].room, call[t].used, call[t].sent)
      BY <1>0, <3>1, <3>3 DEF Stepped, StepOf
    <3> QED BY <1>0, <1>5, <2>1, <3>2, <3>3, ConstructDoes
  <2> QED BY <1>0, <2>2, StepsKept
<1>6. ASSUME NEW t \in Threads, WriteToTls(t) PROVE Steps'
  <2>1. StepOf(t)' /\ \A u \in Threads \ {t} : call'[u] = call[u]
    BY <1>0, <1>1, <1>6, WriteDoes DEF Stepped, StepOf
  <2> QED BY <1>0, <2>1, StepsKept
<1>7. ASSUME NEW t \in Threads, NEW n \in Lengths, AddInPointer(t, n) \/ AddInAutoselect(t, n) PROVE Steps'
  <2>1. StepOf(t)' /\ \A u \in Threads \ {t} : call'[u] = call[u]
    BY <1>0, <1>1, <1>7, AddDoes DEF Stepped, StepOf
  <2> QED BY <1>0, <2>1, StepsKept
<1>8. ASSUME NEW t \in Threads, NEW next \in {"sent", "again"}, call[t].step # "idle",
             SendSyncRequest(t, Subject(t).session, next), next = "again" => call[t].op = "release"
      PROVE  Steps'
  <2>1. Subject(t).session \in Handles \union {None}
    BY <1>0, <1>8, SubjectTyped
  <2>2. PICK ok \in BOOLEAN : Stepped(t, next, call[t].query, call[t].room, call[t].used, ok)
    BY <1>0, <1>8, <2>1, SendDoes
  <2>3. StepOf(t)' /\ \A u \in Threads \ {t} : call'[u] = call[u]
    BY <1>1, <1>8, <2>2 DEF Stepped, StepOf
  <2> QED BY <1>0, <2>3, StepsKept
<1>9. ASSUME NEW t \in Threads, ReadPointerBufferSize(t) PROVE Steps'
  <2>1. CASE Stepped(t, "new", FALSE, call[t].room, call[t].used, call[t].sent)
    <3>1. StepOf(t)' /\ \A u \in Threads \ {t} : call'[u] = call[u]
      BY <1>0, <1>1, <1>9, <2>1, QueryDoes DEF Stepped, StepOf
    <3> QED BY <1>0, <3>1, StepsKept
  <2> QED BY <1>0, <1>2, <1>9, <2>1, QueryDoes
<1>10. ASSUME NEW t \in Threads, NEW s \in Slots,
              \/ Connect(t, s) \/ Destroy(t, s) \/ InitializeLogger(t, s)
              \/ \E d \in Slots \ {s} : Move(t, s, d)
              \/ \E op \in {"plain", "get", "convert"} : Begin(t, s, op)
       PROVE  Steps'
  BY <1>2, <1>3, <1>10 DEF Connect, Destroy, InitializeLogger, Move, Begin
<1>11. ASSUME NEW t \in Threads, ReadFromTls(t) \/ EndOfDestructor(t) PROVE Steps'
  BY <1>4, <1>11 DEF ReadFromTls, EndOfDestructor
<1>12. ASSUME NEW t \in Threads, Send(t) \/ SendAgain(t) PROVE Steps'
  BY <1>8, <1>12 DEF Send, SendAgain, At
<1>13. ASSUME NEW t \in Threads, Log(t) PROVE Steps'
  BY <1>2, <1>13 DEF Log
<1>14. ASSUME NEW x \in Sessions, ServerCloses(x) PROVE Steps'
  BY <1>2, <1>14 DEF ServerCloses
<1> QED BY <1>2, <1>5, <1>6, <1>7, <1>9, <1>10, <1>11, <1>12, <1>13, <1>14 DEF Next, vars

-----------------------------------------------------------------------------
(* Steps that neither begin nor end a call, and change of Services at most *)
(* what is known of the pointer buffer.                                    *)
Continues ==
  /\ \A s \in Slots :
       /\ svc'[s].session = svc[s].session /\ svc'[s].object = svc[s].object /\ svc'[s].of = svc[s].of
       /\ svc'[s].owned = svc[s].owned /\ svc'[s].root = svc[s].root /\ svc'[s].live = svc[s].live
  /\ \A u \in Threads :
       /\ call'[u].op = call[u].op /\ call'[u].slot = call[u].slot
       /\ call'[u].step = "idle" <=> call[u].step = "idle"

LEMMA SteppedContinues ==
  ASSUME Typed, NEW t \in Threads, call[t].step # "idle",
         NEW step \in {"new", "built", "written", "sent", "again"}, NEW query, NEW room, NEW used, NEW sent,
         Stepped(t, step, query, room, used, sent), UNCHANGED svc
  PROVE  Continues
  BY DEF Continues, Stepped

LEMMA ContinuesKeepsCalls ==
  ASSUME Typed, Calls, Continues
  PROVE  Calls'
<1>1. SubjectsLive'
  BY DEF Calls, SubjectsLive, Busy, Subject, Continues
<1>2. ChangersAreAlone'
  BY DEF Calls, ChangersAreAlone, Busy, Continues
<1>3. LoggerByHandle'
  BY DEF Calls, SubjectsLive, LoggerByHandle, Busy, Subject, Continues
<1> QED BY <1>1, <1>2, <1>3 DEF Calls

(* A session that is opened has a handle that was free. *)
LEMMA OpenedFacts ==
  ASSUME Typed, NEW h \in Handles, NEW x \in Sessions, OpenSession(h, x)
  PROVE  /\ table[h] = None /\ table'[h] = x /\ x # None
         /\ \A g \in Handles : g # h => table'[g] = table[g]
         /\ \A g \in Handles : table[g] # x
         /\ \A s \in Slots : svc[s].of # x
  BY ServiceAssumption DEF OpenSession, Typed

LEMMA TableKept ==
  ASSUME Typed, UNCHANGED table \/ Opened
  PROVE  \A g \in Handles : table[g] # None => table'[g] = table[g]
  BY OpenedFacts DEF Opened

LEMMA OneHandleEachKept ==
  ASSUME Typed, OneHandleEach, UNCHANGED table \/ Opened
  PROVE  OneHandleEach'
  BY OpenedFacts DEF Opened, OneHandleEach

LEMMA ContinuesKeepsOwners ==
  ASSUME Typed, Calls, Owners, Continues, UNCHANGED table \/ Opened
  PROVE  Owners'
<1>1. HandlesStand'
  <2>1. ASSUME NEW s \in Slots, svc[s].session # None PROVE svc[s].of # None /\ table'[svc[s].session] = svc[s].of
    <3>1. svc[s].session \in Handles /\ table[svc[s].session] = svc[s].of /\ svc[s].of # None
      BY <2>1 DEF Typed, Serv, Owners, HandlesStand
    <3> QED BY <3>1, TableKept
  <2> QED BY <2>1 DEF HandlesStand, Continues
<1>2. OwnersHold'
  BY DEF Owners, OwnersHold, Continues
<1>3. OneHandleEach'
  BY OneHandleEachKept DEF Owners
<1>4. ReleasersAreLast'
  BY DEF Owners, ReleasersAreLast, Calls, SubjectsLive, Continues, Busy, Subject, LastOfSession
<1> QED BY <1>1, <1>2, <1>3, <1>4 DEF Owners

(* The actions that do no more than that. *)
Quiet(t) ==
  \/ Construct(t) \/ WriteToTls(t) \/ Send(t) \/ SendAgain(t) \/ ReadPointerBufferSize(t) \/ Log(t)
  \/ \E n \in Lengths : AddInPointer(t, n) \/ AddInAutoselect(t, n)

LEMMA QuietContinues ==
  ASSUME IInv, NEW t \in Threads, Quiet(t)
  PROVE  Continues /\ (UNCHANGED table \/ Opened)
<1>0. Typed /\ Calls /\ Steps
  BY DEF IInv
<1>1. CASE Construct(t)
  <2>1. call[t].slot \in Slots
    BY <1>0, <1>1, SubjectTyped DEF Construct, At
  <2> QED BY <1>0, <1>1, <2>1, ConstructDoes, SteppedContinues
<1>2. CASE WriteToTls(t)
  BY <1>0, <1>2, WriteDoes, SteppedContinues
<1>3. CASE \E n \in Lengths : AddInPointer(t, n) \/ AddInAutoselect(t, n)
  BY <1>0, <1>3, AddDoes, SteppedContinues
<1>4. CASE Send(t) \/ SendAgain(t)
  <2>1. PICK next \in {"sent", "again"} : SendSyncRequest(t, Subject(t).session, next)
    BY <1>4 DEF Send, SendAgain
  <2>2. call[t].step # "idle" /\ UNCHANGED svc
    BY <1>4 DEF Send, SendAgain, At
  <2>3. Subject(t).session \in Handles \union {None}
    BY <1>0, <2>2, SubjectTyped
  <2>4. PICK ok \in BOOLEAN : Stepped(t, next, call[t].query, call[t].room, call[t].used, ok)
    BY <1>0, <2>1, <2>3, SendDoes
  <2>5. Continues
    BY <1>0, <2>2, <2>4, SteppedContinues
  <2> QED BY <1>0, <2>1, <2>3, <2>5, SendDoes
<1>5. CASE ReadPointerBufferSize(t)
  <2> DEFINE s == call[t].slot
  <2>1. s \in Slots /\ call[t].step = "sent"
    BY <1>0, <1>5, SubjectTyped DEF ReadPointerBufferSize, At
  <2>2. CASE /\ svc' = [svc EXCEPT ![s].ptr = tls[t].value]
             /\ Stepped(t, "new", FALSE, call[t].room, call[t].used, call[t].sent)
    <3>1. Continues
      BY <1>0, <2>1, <2>2 DEF Continues, Stepped, Typed, Serv
    <3> QED BY <1>5, <3>1 DEF ReadPointerBufferSize
  <2>3. CASE UNCHANGED <<svc, call>>
    BY <1>5, <2>3 DEF Continues, ReadPointerBufferSize
  <2> QED BY <1>0, <1>5, <2>2, <2>3, QueryDoes
<1>6. CASE Log(t)
  BY <1>6 DEF Log, Continues
<1> QED BY <1>1, <1>2, <1>3, <1>4, <1>5, <1>6 DEF Quiet

-----------------------------------------------------------------------------
(* A call begins. *)
Free(s) == \A u \in Threads : ~(Busy(u) /\ call[u].slot = s)

LEMMA UsersFacts ==
  ASSUME NEW s \in Slots
  PROVE  /\ Users(s) = {} => Free(s)
         /\ Usable(s) => svc[s].live /\ \A u \in Threads : Busy(u) /\ call[u].slot = s => call[u].op \notin {"convert", "release"}
  BY DEF Users, Usable, Changing, Free, Busy, Idle

LEMMA Starts ==
  ASSUME Typed, Calls, Owners, NEW t \in Threads, NEW s \in Slots,
         NEW op \in {"plain", "get", "logger", "convert", "release"},
         call' = [call EXCEPT ![t] = Doing(op, s)], UNCHANGED <<svc, table>>,
         svc[s].live,
         \A u \in Threads : Busy(u) /\ call[u].slot = s => call[u].op \notin {"convert", "release"},
         op \in {"convert", "release"} => Free(s),
         op = "logger" => svc[s].object = None,
         op = "release" /\ svc[s].owned => LastOfSession(s)
  PROVE  Calls' /\ Owners'
<1>1. /\ call'[t].op = op /\ call'[t].slot = s /\ call'[t].step = "new"
      /\ \A u \in Threads \ {t} : call'[u] = call[u]
  BY DoingIs
<1>2. SubjectsLive'
  BY <1>1 DEF Calls, SubjectsLive, Busy, Subject
<1>3. ChangersAreAlone'
  BY <1>1 DEF Calls, ChangersAreAlone, Busy, Free
<1>4. LoggerByHandle'
  BY <1>1 DEF Calls, LoggerByHandle, Busy, Subject
<1>5. HandlesStand' /\ OwnersHold' /\ OneHandleEach'
  BY DEF Owners, HandlesStand, OwnersHold, OneHandleEach
<1>6. ReleasersAreLast'
  BY <1>1 DEF Owners, ReleasersAreLast, Busy, Subject, LastOfSession
<1> QED BY <1>2, <1>3, <1>4, <1>5, <1>6 DEF Calls, Owners

LEMMA BeginKeeps ==
  ASSUME IInv, NEW t \in Threads, NEW s \in Slots,
         \/ \E op \in {"plain", "get", "convert"} : Begin(t, s, op)
         \/ InitializeLogger(t, s)
         \/ Destroy(t, s) /\ UNCHANGED svc /\ call' = [call EXCEPT ![t] = Doing("release", s)]
  PROVE  Calls' /\ Owners'
<1>0. Typed /\ Calls /\ Owners
  BY DEF IInv
<1>1. ASSUME NEW op \in {"plain", "get", "convert"}, Begin(t, s, op) PROVE Calls' /\ Owners'
  <2>1. /\ Usable(s) /\ (op = "convert" => Users(s) = {})
        /\ call' = [call EXCEPT ![t] = Doing(op, s)] /\ UNCHANGED <<svc, table>>
    BY <1>1 DEF Begin
  <2>2. /\ svc[s].live
        /\ \A u \in Threads : Busy(u) /\ call[u].slot = s => call[u].op \notin {"convert", "release"}
        /\ op \in {"convert", "release"} => Free(s)
    BY <2>1, UsersFacts
  <2>3. op \in {"plain", "get", "logger", "convert", "release"} /\ op # "logger" /\ op # "release"
    OBVIOUS
  <2> QED BY <1>0, <2>1, <2>2, <2>3, Starts
<1>2. CASE InitializeLogger(t, s)
  <2>1. /\ Usable(s) /\ svc[s].object = None
        /\ call' = [call EXCEPT ![t] = Doing("logger", s)] /\ UNCHANGED <<svc, table>>
    BY <1>2 DEF InitializeLogger, IsDomain
  <2> QED BY <1>0, <2>1, UsersFacts, Starts
<1>3. CASE Destroy(t, s) /\ UNCHANGED svc /\ call' = [call EXCEPT ![t] = Doing("release", s)]
  <2>1. Users(s) = {} /\ svc[s].live /\ (svc[s].root /\ svc[s].owned => LastOfSession(s)) /\ UNCHANGED <<svc, table>>
    BY <1>3 DEF Destroy
  <2>2. Free(s)
    BY <2>1, UsersFacts
  <2>3. svc[s].owned => LastOfSession(s)
    BY <1>0, <2>1 DEF Owners, OwnersHold
  <2> QED BY <1>0, <1>3, <2>1, <2>2, <2>3, Starts DEF Free
<1> QED BY <1>1, <1>2, <1>3

-----------------------------------------------------------------------------
(* Services come and go, when nobody else uses them. *)
LEMMA CallsKept ==
  ASSUME Typed, Calls,
         \A u \in Threads : call'[u].step = "idle" \/ call'[u] = call[u],
         \A u \in Threads : call'[u].step # "idle" => /\ svc'[call[u].slot].live = svc[call[u].slot].live
                                                    /\ svc'[call[u].slot].object = svc[call[u].slot].object
  PROVE  Calls'
<1>1. SubjectsLive'
  BY DEF Calls, SubjectsLive, Busy, Subject
<1>2. ChangersAreAlone'
  BY DEF Calls, ChangersAreAlone, Busy
<1>3. LoggerByHandle'
  BY DEF Calls, LoggerByHandle, Busy, Subject
<1> QED BY <1>1, <1>2, <1>3 DEF Calls

LEMMA ReleasersKept ==
  ASSUME Typed, Calls, Owners,
         \A u \in Threads : call'[u].step = "idle" \/ call'[u] = call[u],
         \A u \in Threads : call'[u].step # "idle" => svc'[call[u].slot] = svc[call[u].slot],
         \A u \in Threads : call'[u].step # "idle" /\ call[u].op = "release" /\ Subject(u).owned =>
           \A o \in Slots \ {call[u].slot} : svc'[o].of # Subject(u).of
  PROVE  ReleasersAreLast'
  BY DEF ReleasersAreLast, Busy, Subject, LastOfSession

(* An owner that is released is known to its session. *)
LEMMA ReleaserHasSession ==
  ASSUME Typed, Calls, Owners, NEW u \in Threads, Busy(u), call[u].op = "release", Subject(u).owned
  PROVE  /\ call[u].slot \in Slots /\ Subject(u).of # None
         /\ \A o \in Slots \ {call[u].slot} : svc[o].of # Subject(u).of
  BY DEF Calls, SubjectsLive, Owners, OwnersHold, HandlesStand, ReleasersAreLast, LastOfSession, Subject

LEMMA ConnectKeeps ==
  ASSUME IInv, NEW t \in Threads, NEW s \in Slots, Connect(t, s)
  PROVE  Calls' /\ Owners'
<1>0. Typed /\ Calls /\ Owners /\ ~svc[s].live /\ UNCHANGED call
  BY DEF IInv, Connect
<1>1. PICK h \in Handles, x \in Sessions : OpenSession(h, x) /\ svc' = [svc EXCEPT ![s] = OwnerOf(h)']
  BY DEF Connect
<1>2. /\ table[h] = None /\ table'[h] = x /\ x # None
      /\ \A g \in Handles : g # h => table'[g] = table[g]
      /\ \A o \in Slots : svc[o].of # x
  BY <1>0, <1>1, OpenedFacts
<1> DEFINE v == OwnerOf(h)'
<1>3. v.session = h /\ v.owned = TRUE /\ v.of = x /\ v.root = TRUE /\ v.live = TRUE
  BY <1>2 DEF OwnerOf, Holder
<1> HIDE DEF v
<1>4. svc'[s] = v /\ \A o \in Slots \ {s} : svc'[o] = svc[o]
  BY <1>0, <1>1 DEF Typed, v
<1>5. \A u \in Threads : Busy(u) => call[u].slot \in Slots \ {s}
  BY <1>0 DEF Calls, SubjectsLive, Subject
<1>6. Calls'
  BY <1>0, <1>4, <1>5, CallsKept DEF Busy
<1>7. HandlesStand'
  <2>1. ASSUME NEW o \in Slots \ {s}, svc[o].session # None
        PROVE  svc[o].of # None /\ table'[svc[o].session] = svc[o].of
    <3>1. svc[o].session \in Handles /\ svc[o].of # None /\ table[svc[o].session] = svc[o].of
      BY <1>0, <2>1 DEF Typed, Serv, Owners, HandlesStand
    <3> QED BY <1>2, <3>1
  <2> QED BY <1>2, <1>3, <1>4, <2>1 DEF HandlesStand
<1>8. OwnersHold'
  BY <1>0, <1>3, <1>4, ServiceAssumption DEF Owners, OwnersHold
<1>9. OneHandleEach'
  BY <1>0, <1>1, OneHandleEachKept DEF Owners, Opened
<1>10. ReleasersAreLast'
  <2>1. \A u \in Threads : Busy(u) /\ call[u].op = "release" /\ Subject(u).owned =>
          \A o \in Slots \ {call[u].slot} : svc'[o].of # Subject(u).of
    BY <1>0, <1>2, <1>3, <1>4, ReleaserHasSession DEF Subject
  <2> QED BY <1>0, <1>4, <1>5, <2>1, ReleasersKept DEF Busy
<1> QED BY <1>6, <1>7, <1>8, <1>9, <1>10 DEF Owners

LEMMA MoveKeeps ==
  ASSUME IInv, NEW t \in Threads, NEW s \in Slots, NEW d \in Slots \ {s}, Move(t, s, d)
  PROVE  Calls' /\ Owners'
<1>0. Typed /\ Calls /\ Owners /\ ~svc[d].live /\ Free(s) /\ UNCHANGED <<call, table>>
  BY UsersFacts DEF IInv, Move
<1> DEFINE v == MovedFrom(svc[s])
<1>1. v.session = None /\ v.owned = FALSE /\ v.of = None
  BY <1>0 DEF MovedFrom, Typed, Serv
<1>2. svc'[s] = v /\ svc'[d] = svc[s] /\ \A o \in Slots \ {s, d} : svc'[o] = svc[o]
  BY <1>0 DEF Move, Typed
<1> HIDE DEF v
<1>3. \A u \in Threads : Busy(u) => call[u].slot \in Slots \ {s, d}
  BY <1>0 DEF Calls, SubjectsLive, Subject, Free
<1>4. Calls'
  BY <1>0, <1>2, <1>3, CallsKept DEF Busy
<1>5. HandlesStand' /\ OwnersHold' /\ OneHandleEach'
  BY <1>0, <1>1, <1>2 DEF Owners, HandlesStand, OwnersHold, OneHandleEach
<1>6. ReleasersAreLast'
  <2>1. ASSUME NEW u \in Threads, Busy(u), call[u].op = "release", Subject(u).owned, NEW o \in Slots \ {call[u].slot}
        PROVE  svc'[o].of # Subject(u).of
    <3>1. Subject(u).of # None /\ \A p \in Slots \ {call[u].slot} : svc[p].of # Subject(u).of
      BY <1>0, <2>1, ReleaserHasSession
    <3> QED BY <1>1, <1>2, <1>3, <2>1, <3>1
  <2> QED BY <1>0, <1>2, <1>3, <2>1, ReleasersKept DEF Busy
<1> QED BY <1>4, <1>5, <1>6 DEF Owners

(* A Service goes, which nobody uses but perhaps the thread t that ends. *)
LEMMA GoneKeeps ==
  ASSUME Typed, Calls, Owners, NEW s \in Slots, svc' = [svc EXCEPT ![s] = Gone],
         \A u \in Threads : call'[u].step = "idle" \/ call'[u] = call[u],
         \A u \in Threads : call'[u].step # "idle" => call[u].slot # s
  PROVE  Calls' /\ OwnersHold' /\ ReleasersAreLast'
<1>1. svc'[s] = Gone /\ Gone.owned = FALSE /\ Gone.of = None /\ \A o \in Slots \ {s} : svc'[o] = svc[o]
  BY GoneIs DEF Typed
<1>2. \A u \in Threads : call'[u].step # "idle" => call[u].slot \in Slots \ {s} /\ Busy(u)
  BY DEF Calls, SubjectsLive, Busy
<1>3. Calls'
  BY <1>1, <1>2, CallsKept
<1>4. OwnersHold'
  BY <1>1 DEF Owners, OwnersHold
<1>5. ReleasersAreLast'
  <2>1. ASSUME NEW u \in Threads, call'[u].step # "idle", call[u].op = "release", Subject(u).owned,
               NEW o \in Slots \ {call[u].slot}
        PROVE  svc'[o].of # Subject(u).of
    <3>1. Subject(u).of # None /\ \A p \in Slots \ {call[u].slot} : svc[p].of # Subject(u).of
      BY <1>2, <2>1, ReleaserHasSession
    <3> QED BY <1>1, <2>1, <3>1
  <2> QED BY <1>1, <1>2, <2>1, ReleasersKept
<1> QED BY <1>3, <1>4, <1>5

LEMMA DestroyKeeps ==
  ASSUME IInv, NEW t \in Threads, NEW s \in Slots, Destroy(t, s), svc' = [svc EXCEPT ![s] = Gone], UNCHANGED call
  PROVE  Calls' /\ Owners'
<1>0. Typed /\ Calls /\ Owners /\ Free(s) /\ UNCHANGED table
  BY UsersFacts DEF IInv, Destroy
<1>1. Calls' /\ OwnersHold' /\ ReleasersAreLast'
  BY <1>0, GoneKeeps DEF Free, Busy
<1>2. svc'[s].session = None /\ \A o \in Slots \ {s} : svc'[o] = svc[o]
  BY <1>0, GoneIs DEF Typed
<1>3. HandlesStand' /\ OneHandleEach'
  BY <1>0, <1>2 DEF Owners, HandlesStand, OneHandleEach
<1> QED BY <1>1, <1>3 DEF Owners

(* Closing a handle harms nobody: an owner goes last. *)
LEMMA EndKeeps ==
  ASSUME IInv, NEW t \in Threads, EndOfDestructor(t), call[t].op = "release"
  PROVE  Calls' /\ Owners'
<1> DEFINE s == call[t].slot
           h == svc[s].session
<1>0. Typed /\ Calls /\ Owners /\ Busy(t) /\ s \in Slots /\ Subject(t) = svc[s] /\ svc[s] \in Serv
  BY SubjectTyped DEF IInv, EndOfDestructor, At, Busy
<1>1. svc' = [svc EXCEPT ![s] = Gone] /\ call'[t].step = "idle" /\ \A u \in Threads \ {t} : call'[u] = call[u]
  BY <1>0, ReturnDoes DEF EndOfDestructor
<1>2. \A u \in Threads : call'[u].step # "idle" => call[u].slot # s
  BY <1>0, <1>1 DEF Calls, ChangersAreAlone, Busy
<1>3. Calls' /\ OwnersHold' /\ ReleasersAreLast'
  BY <1>0, <1>1, <1>2, GoneKeeps
<1>4. svc'[s].session = None /\ \A o \in Slots \ {s} : svc'[o] = svc[o]
  BY <1>0, <1>1, GoneIs DEF Typed
<1>5. CASE ~svc[s].owned
  <2>1. UNCHANGED table
    BY <1>0, <1>5 DEF EndOfDestructor
  <2>2. HandlesStand' /\ OneHandleEach'
    BY <1>0, <1>4, <2>1 DEF Owners, HandlesStand, OneHandleEach
  <2> QED BY <1>3, <2>2 DEF Owners
<1>6. CASE svc[s].owned
  <2>1. h \in Handles /\ table[h] = svc[s].of
    BY <1>0, <1>6 DEF Owners, OwnersHold, HandlesStand, Serv
  <2>2. table' = [g \in Handles |-> IF g = h THEN None ELSE table[g]]
    BY <1>0, <1>6 DEF EndOfDestructor, CloseHandle
  <2>3. \A o \in Slots \ {s} : svc[o].of # svc[s].of
    BY <1>0, <1>6, ReleaserHasSession
  <2>4. HandlesStand'
    <3>1. ASSUME NEW o \in Slots \ {s}, svc[o].session # None
          PROVE  svc[o].of # None /\ table'[svc[o].session] = svc[o].of
      <4>1. svc[o].session \in Handles /\ svc[o].of # None /\ table[svc[o].session] = svc[o].of
        BY <1>0, <3>1 DEF Typed, Serv, Owners, HandlesStand
      <4>2. svc[o].session # h
        BY <2>1, <2>3, <4>1
      <4> QED BY <2>2, <4>1, <4>2
    <3> QED BY <1>4, <3>1 DEF HandlesStand
  <2>5. OneHandleEach'
    BY <1>0, <2>2 DEF Owners, OneHandleEach
  <2> QED BY <1>3, <2>4, <2>5 DEF Owners
<1> QED BY <1>5, <1>6

(* A Service is made of a reply, or becomes a domain. *)
LEMMA ReadKeeps ==
  ASSUME IInv, NEW t \in Threads, ReadFromTls(t)
  PROVE  Calls' /\ Owners'
<1> DEFINE s == call[t].slot
           value == tls[t].value
<1>0. /\ Typed /\ Calls /\ Owners /\ Busy(t) /\ s \in Slots /\ Subject(t) = svc[s] /\ svc[s] \in Serv
      /\ svc[s].live /\ call[t].op # "release" /\ ~call[t].query /\ UNCHANGED table
  BY SubjectTyped DEF IInv, ReadFromTls, At, Busy
<1>1. call'[t].step = "idle" /\ \A u \in Threads \ {t} : call'[u] = call[u]
  BY <1>0, ReturnDoes DEF ReadFromTls
<1>2. \A u \in Threads : call'[u].step # "idle" => Busy(u) /\ u # t /\ call'[u] = call[u] /\ call[u].slot \in Slots
  BY <1>0, <1>1 DEF Busy, Calls, SubjectsLive
<1>3. OneHandleEach'
  BY <1>0 DEF Owners, OneHandleEach
<1>4. ASSUME HasReply(t), call[t].op = "convert", svc' = [svc EXCEPT ![s].object = value]
      PROVE  Calls' /\ Owners'
  <2>1. /\ \A o \in Slots : /\ svc'[o].session = svc[o].session /\ svc'[o].of = svc[o].of
                            /\ svc'[o].owned = svc[o].owned /\ svc'[o].root = svc[o].root
        /\ \A o \in Slots \ {s} : svc'[o] = svc[o]
    BY <1>0, <1>4 DEF Typed, Serv
  <2>2. \A u \in Threads : call'[u].step # "idle" => call[u].slot # s
    BY <1>0, <1>2, <1>4 DEF Calls, ChangersAreAlone
  <2>3. Calls'
    BY <1>0, <1>1, <1>2, <2>1, <2>2, CallsKept
  <2>4. HandlesStand' /\ OwnersHold'
    BY <1>0, <2>1 DEF Owners, HandlesStand, OwnersHold
  <2>5. ReleasersAreLast'
    <3>1. \A u \in Threads : call'[u].step # "idle" /\ call[u].op = "release" /\ Subject(u).owned =>
            \A o \in Slots \ {call[u].slot} : svc'[o].of # Subject(u).of
      BY <1>0, <1>2, <2>1, ReleaserHasSession
    <3> QED BY <1>0, <1>1, <1>2, <2>1, <2>2, <3>1, ReleasersKept
  <2> QED BY <1>3, <2>3, <2>4, <2>5 DEF Owners
<1>5. ASSUME HasReply(t), call[t].op = "get",
             NEW d \in Slots, ~svc[d].live, svc' = [svc EXCEPT ![d] = NextSubservice(svc[s], value)]
      PROVE  Calls' /\ Owners'
  <2> DEFINE v == NextSubservice(svc[s], value)
  <2>1. /\ v.owned = FALSE
        /\ v.session # None => v.of # None /\ table[v.session] = v.of
        /\ v.of = svc[s].of \/ \A o \in Slots : svc[o].of # v.of
    <3>1. CASE svc[s].object # None
      <4>1. v = Holder(svc[s].session, value, FALSE, svc[s].ptr, svc[s].of, FALSE)
        BY <3>1 DEF NextSubservice, IsDomain, DomainSubservice
      <4>2. v.owned = FALSE /\ v.session = svc[s].session /\ v.of = svc[s].of
        BY <4>1 DEF Holder
      <4> QED BY <1>0, <4>2 DEF Owners, HandlesStand
    <3>2. CASE svc[s].object = None
      <4>1. v = Holder(value, None, FALSE, Unknown, table[value], TRUE)
        BY <3>2 DEF NextSubservice, IsDomain, FromHandle
      <4>2. v.owned = FALSE /\ v.session = value /\ v.of = table[value]
        BY <4>1 DEF Holder
      <4>3. Delivers(t) /\ DeliveryFresh(t)
        BY <1>0, <1>5, <3>2 DEF IInv, Mail, Delivers
      <4>4. table[value] # None /\ \A o \in Slots : svc[o].of # table[value]
        BY <4>3 DEF DeliveryFresh
      <4> QED BY <4>2, <4>4
    <3> QED BY <3>1, <3>2
  <2>2. svc'[d] = v /\ \A o \in Slots \ {d} : svc'[o] = svc[o]
    BY <1>0, <1>5 DEF Typed
  <2> HIDE DEF v
  <2>3. \A u \in Threads : call'[u].step # "idle" => call[u].slot # d
    BY <1>2, <1>0, <1>5 DEF Calls, SubjectsLive, Subject
  <2>4. Calls'
    BY <1>0, <1>1, <1>2, <2>2, <2>3, CallsKept
  <2>5. HandlesStand' /\ OwnersHold'
    BY <1>0, <2>1, <2>2 DEF Owners, HandlesStand, OwnersHold
  <2>6. ReleasersAreLast'
    <3>1. ASSUME NEW u \in Threads, call'[u].step # "idle", call[u].op = "release", Subject(u).owned,
                 NEW o \in Slots \ {call[u].slot}
          PROVE  svc'[o].of # Subject(u).of
      <4>1. \A p \in Slots \ {call[u].slot} : svc[p].of # Subject(u).of
        BY <1>0, <1>2, <3>1, ReleaserHasSession
      <4>2. call[u].slot # s
        BY <1>0, <1>2, <3>1 DEF Calls, ChangersAreAlone
      <4>3. v.of # Subject(u).of
        BY <1>0, <1>2, <2>1, <3>1, <4>1, <4>2 DEF Subject
      <4> QED BY <2>2, <3>1, <4>1, <4>3
    <3> QED BY <1>0, <1>1, <1>2, <2>2, <2>3, <3>1, ReleasersKept
  <2> QED BY <1>3, <2>4, <2>5, <2>6 DEF Owners
<1>6. CASE UNCHANGED svc
  <2>1. Calls'
    BY <1>0, <1>1, <1>6, CallsKept
  <2>2. HandlesStand' /\ OwnersHold'
    BY <1>0, <1>6 DEF Owners, HandlesStand, OwnersHold
  <2>3. ReleasersAreLast'
    <3>1. \A u \in Threads : call'[u].step # "idle" /\ call[u].op = "release" /\ Subject(u).owned =>
            \A o \in Slots \ {call[u].slot} : svc'[o].of # Subject(u).of
      BY <1>0, <1>2, <1>6, ReleaserHasSession
    <3> QED BY <1>0, <1>1, <1>6, <3>1, ReleasersKept
  <2> QED BY <1>3, <2>1, <2>2, <2>3 DEF Owners
<1> QED BY <1>0, <1>4, <1>5, <1>6 DEF ReadFromTls, HasReply, At

LEMMA CallsOwnersStep ==
  ASSUME IInv, [Next]_vars
  PROVE  Calls' /\ Owners'
<1>0. Typed /\ Calls /\ Steps /\ Owners
  BY DEF IInv
<1>1. ASSUME NEW t \in Threads, Quiet(t) PROVE Calls' /\ Owners'
  BY <1>0, <1>1, QuietContinues, ContinuesKeepsCalls, ContinuesKeepsOwners
<1>2. ASSUME NEW t \in Threads, NEW s \in Slots, Destroy(t, s) PROVE Calls' /\ Owners'
  BY <1>2, BeginKeeps, DestroyKeeps DEF Destroy
<1>3. ASSUME NEW t \in Threads, EndOfDestructor(t) PROVE Calls' /\ Owners'
  BY <1>0, <1>3, EndKeeps DEF EndOfDestructor, At, Steps
<1>4. CASE UNCHANGED <<svc, call, table>>
  BY <1>0, <1>4, ContinuesKeepsCalls, ContinuesKeepsOwners DEF Continues
<1>5. ASSUME NEW x \in Sessions, ServerCloses(x) PROVE Calls' /\ Owners'
  BY <1>4, <1>5 DEF ServerCloses
<1>6. CASE UNCHANGED vars
  BY <1>4, <1>6 DEF vars
<1> QED BY <1>1, <1>2, <1>3, <1>5, <1>6, ConnectKeeps, MoveKeeps, BeginKeeps, ReadKeeps DEF Next, Quiet

-----------------------------------------------------------------------------
(* What a thread has in its buffer stays valid, or is of no more interest. *)
Keeps(u) ==
  /\ call'[u] = call[u] /\ tls'[u] = tls[u]
  /\ Busy(u) => svc'[call[u].slot].object = svc[call[u].slot].object
  /\ Delivers(u) => /\ table'[tls[u].value] = table[tls[u].value]
                    /\ \A s \in Slots : svc'[s].of # table[tls[u].value]
Silent(u) == RequestWritten(u)' /\ ~HasReply(u)'
MailOf(u) == RequestWritten(u) /\ ReplyTyped(u) /\ DeliveryFresh(u)

LEMMA MailOfKept ==
  ASSUME NEW u \in Threads, MailOf(u), Keeps(u)
  PROVE  MailOf(u)' /\ (Delivers(u)' => Delivers(u) /\ tls'[u].value = tls[u].value)
<1>1. call[u].step # "idle" => svc'[call'[u].slot].object = svc[call[u].slot].object
  BY DEF Keeps, Busy
<1>2. RequestWritten(u)'
  BY <1>1 DEF MailOf, Keeps, RequestWritten, Subject, Message, TagOf, Command, IsDomain
<1>3. ReplyTyped(u)'
  BY <1>1 DEF MailOf, Keeps, ReplyTyped, HasReply, Subject
<1>4. Delivers(u)' => Delivers(u) /\ tls'[u].value = tls[u].value
  BY <1>1 DEF Keeps, Delivers, HasReply, Subject
<1>5. DeliveryFresh(u)'
  BY <1>4 DEF MailOf, Keeps, DeliveryFresh
<1> QED BY <1>2, <1>3, <1>4, <1>5 DEF MailOf

LEMMA SilentMail ==
  ASSUME NEW u \in Threads, Silent(u)
  PROVE  MailOf(u)' /\ ~Delivers(u)'
  BY DEF Silent, MailOf, ReplyTyped, DeliveryFresh, Delivers

LEMMA MailKept ==
  ASSUME Mail, \A u \in Threads : Keeps(u) \/ Silent(u)
  PROVE  Mail'
<1>1. \A u \in Threads : MailOf(u)' /\ (Delivers(u)' => Delivers(u) /\ tls'[u].value = tls[u].value)
  BY MailOfKept, SilentMail DEF Mail, MailOf
<1>2. DeliveriesDiffer'
  BY <1>1 DEF Mail, DeliveriesDiffer
<1> QED BY <1>1, <1>2 DEF Mail, MailOf

(* If no Service gets another session and no handle is closed. *)
LEMMA KeepsIfSessionsStand ==
  ASSUME Typed, Mail, NEW u \in Threads, call'[u] = call[u], tls'[u] = tls[u],
         Busy(u) => svc'[call[u].slot].object = svc[call[u].slot].object,
         \A g \in Handles : table[g] # None => table'[g] = table[g],
         \A s \in Slots : svc'[s].of = None \/ \E o \in Slots : svc'[s].of = svc[o].of
  PROVE  Keeps(u)
<1>1. ASSUME Delivers(u)
      PROVE  /\ table'[tls[u].value] = table[tls[u].value]
             /\ \A s \in Slots : svc'[s].of # table[tls[u].value]
  <2>1. tls[u].value \in Handles
    BY <1>1 DEF Mail, ReplyTyped, Delivers
  <2>2. table[tls[u].value] # None /\ \A s \in Slots : svc[s].of # table[tls[u].value]
    BY <1>1 DEF Mail, DeliveryFresh
  <2> QED BY <2>1, <2>2
<1> QED BY <1>1 DEF Keeps

LEMMA ContinuesMail ==
  ASSUME Typed, Mail, Calls, Continues, UNCHANGED table \/ Opened, NEW u \in Threads,
         call'[u] = call[u], tls'[u] = tls[u]
  PROVE  Keeps(u)
<1>1. \A g \in Handles : table[g] # None => table'[g] = table[g]
  BY TableKept
<1>2. Busy(u) => svc'[call[u].slot].object = svc[call[u].slot].object
  BY DEF Calls, SubjectsLive, Continues
<1>3. \A s \in Slots : svc'[s].of = None \/ \E o \in Slots : svc'[s].of = svc[o].of
  BY DEF Continues
<1> QED BY <1>1, <1>2, <1>3, KeepsIfSessionsStand

LEMMA QuietMail ==
  ASSUME IInv, NEW t \in Threads, Quiet(t), ~Send(t)
  PROVE  Mail'
<1>0. Typed /\ Calls /\ Steps /\ Mail /\ Continues /\ (UNCHANGED table \/ Opened)
  BY QuietContinues DEF IInv
<1>1. ASSUME \A u \in Threads \ {t} : call'[u] = call[u] /\ tls'[u] = tls[u], Keeps(t) \/ Silent(t)
      PROVE  Mail'
  BY <1>0, <1>1, ContinuesMail, MailKept
<1>2. CASE Construct(t)
  <2>1. call[t].slot \in Slots
    BY <1>0, <1>2, SubjectTyped DEF Construct, At
  <2>2. CASE Stepped(t, "built", call[t].query, Subject(t).ptr, call[t].used, call[t].sent) /\ UNCHANGED tls
    BY <1>1, <2>2 DEF Stepped, Silent, RequestWritten, HasReply
  <2>3. CASE /\ Stepped(t, "written", TRUE, call[t].room, call[t].used, call[t].sent)
             /\ tls' = [tls EXCEPT ![t] = Message(call'[t], Subject(t))] /\ UNCHANGED svc
    <3>1. tls'[t] = Message(call'[t], Subject(t)) /\ \A u \in Threads \ {t} : tls'[u] = tls[u]
      BY <1>0, <2>3 DEF Typed
    <3>2. Silent(t)
      BY <2>3, <3>1 DEF Stepped, Silent, RequestWritten, HasReply, Subject
    <3> QED BY <1>1, <2>3, <3>1, <3>2 DEF Stepped
  <2> QED BY <1>0, <1>2, <2>1, <2>2, <2>3, ConstructDoes
<1>3. CASE WriteToTls(t)
  <2>1. /\ Stepped(t, "written", call[t].query, call[t].room, call[t].used, call[t].sent)
        /\ tls' = [tls EXCEPT ![t] = Message(call[t], Subject(t))] /\ UNCHANGED svc
    BY <1>0, <1>3, WriteDoes
  <2>2. tls'[t] = Message(call[t], Subject(t)) /\ \A u \in Threads \ {t} : tls'[u] = tls[u]
    BY <1>0, <2>1 DEF Typed
  <2>3. Message(call'[t], Subject(t)') = Message(call[t], Subject(t))
    BY <2>1 DEF Stepped, Message, TagOf, Command, Subject
  <2>4. Silent(t)
    BY <2>1, <2>2, <2>3 DEF Stepped, Silent, RequestWritten, HasReply, Subject
  <2> QED BY <1>1, <2>1, <2>2, <2>4 DEF Stepped
<1>4. CASE \E n \in Lengths : AddInPointer(t, n) \/ AddInAutoselect(t, n)
  <2>1. PICK n \in Lengths : AddInPointer(t, n) \/ AddInAutoselect(t, n)
    BY <1>4
  <2>2. Stepped(t, "built", call[t].query, call[t].room - n, call[t].used + n, call[t].sent) /\ UNCHANGED tls
    BY <1>0, <2>1, AddDoes
  <2> QED BY <1>1, <2>2 DEF Stepped, Silent, RequestWritten, HasReply
<1>5. CASE SendAgain(t)
  <2>1. Subject(t).session \in Handles \union {None}
    BY <1>0, <1>5, SubjectTyped DEF SendAgain, At
  <2>2. PICK ok \in BOOLEAN : Stepped(t, "again", call[t].query, call[t].room, call[t].used, ok)
    BY <1>0, <1>5, <2>1, SendDoes DEF SendAgain
  <2>3. \A u \in Threads \ {t} : tls'[u] = tls[u]
    BY <1>0, <1>5, <2>1, SendDoes DEF SendAgain
  <2> QED BY <1>1, <2>2, <2>3 DEF Stepped, Silent, RequestWritten, HasReply
<1>6. CASE ReadPointerBufferSize(t)
  <2>1. CASE Stepped(t, "new", FALSE, call[t].room, call[t].used, call[t].sent) /\ UNCHANGED tls
    BY <1>1, <2>1 DEF Stepped, Silent, RequestWritten, HasReply
  <2>2. CASE UNCHANGED <<call, tls>>
    BY <1>0, <1>1, <2>2, ContinuesMail
  <2> QED BY <1>0, <1>6, <2>1, <2>2, QueryDoes
<1>7. CASE Log(t)
  <2>1. call[t].step \in {"idle", "built"} /\ UNCHANGED call /\ \A u \in Threads \ {t} : tls'[u] = tls[u]
    BY <1>0, <1>7 DEF Log, At, Typed
  <2> QED BY <1>1, <2>1 DEF Silent, RequestWritten, HasReply
<1> QED BY <1>2, <1>3, <1>4, <1>5, <1>6, <1>7 DEF Quiet

(* A server that reads a request knows whether it is for an object, so a   *)
(* Service that is no domain gets a handle, and one that nobody has.       *)
LEMMA SendMail ==
  ASSUME IInv, NEW t \in Threads, Send(t)
  PROVE  Mail'
<1> DEFINE h == Subject(t).session
           m == tls[t]
           x == table[h]
<1>0. /\ Typed /\ Calls /\ Mail /\ Continues /\ (UNCHANGED table \/ Opened) /\ UNCHANGED svc
      /\ call[t].step = "written" /\ h \in Handles \union {None}
  BY QuietContinues, SubjectTyped DEF IInv, Quiet, Send, At
<1>1. PICK ok \in BOOLEAN :
        /\ Stepped(t, "sent", call[t].query, call[t].room, call[t].used, ok)
        /\ ok /\ tls'[t].ok => h # None /\ x \in Sessions /\ Fits(x, m) /\ Replied(t, m, x)
  BY <1>0, SendDoes DEF Send
<1>2. \A u \in Threads \ {t} : call'[u] = call[u] /\ tls'[u] = tls[u]
  BY <1>0, <1>1, SendDoes DEF Send, Stepped
<1>3. \A u \in Threads \ {t} : Keeps(u)
  BY <1>0, <1>2, ContinuesMail
<1>4. CASE ~(ok /\ tls'[t].ok)
  <2>1. Silent(t)
    BY <1>1, <1>4 DEF Stepped, Silent, RequestWritten, HasReply
  <2> QED BY <1>0, <1>3, <2>1, MailKept
<1>5. CASE ok /\ tls'[t].ok
  <2>1. /\ m.command = Command(call[t]) /\ m.object = Subject(t).object
        /\ m.tag = TagOf(call[t], Subject(t)) /\ x \in Sessions /\ Fits(x, m) /\ Replied(t, m, x)
    <3>1. m = Message(call[t], Subject(t))
      BY <1>0 DEF Mail, RequestWritten
    <3>2. \A c, v : /\ Message(c, v).command = Command(c) /\ Message(c, v).object = v.object
                   /\ Message(c, v).tag = TagOf(c, v)
      BY DEF Message
    <3> QED BY <1>1, <1>5, <3>1, <3>2
  <2>2. ASSUME ~call[t].query, call[t].op \in {"get", "logger"}
        PROVE  /\ m.command \in {"get", "logger"}
               /\ server[x].domain <=> Subject(t).object # None
    <3>1. m.command = call[t].op /\ m.tag = "Request"
      BY <2>1, <2>2 DEF Command, TagOf
    <3>2. server[x].objects \subseteq Ids
      BY <1>0, <2>1 DEF Typed, ServerRec
    <3> QED BY <2>1, <2>2, <3>1, <3>2, ServiceAssumption DEF Fits
  <2>3. call'[t].op = call[t].op /\ call'[t].query = call[t].query /\ call'[t].step = "sent" /\ Subject(t)' = Subject(t)
    BY <1>0, <1>1 DEF Stepped, Subject
  <2>4. ReplyTyped(t)'
    <3>1. call[t].query => tls'[t].value \in Sizes \union {0}
      BY <2>1 DEF Command, Replied
    <3>2. ~call[t].query /\ call[t].op = "convert" => tls'[t].value \in Ids
      BY <2>1 DEF Command, Replied
    <3>3. ~call[t].query /\ call[t].op \in {"get", "logger"} =>
            tls'[t].value \in IF Subject(t).object # None THEN Ids ELSE Handles
      BY <2>1, <2>2 DEF Replied
    <3> QED BY <2>3, <3>1, <3>2, <3>3 DEF ReplyTyped
  <2>5. RequestWritten(t)'
    BY <2>3 DEF RequestWritten
  <2>6. ASSUME Delivers(t)'
        PROVE  /\ table[tls'[t].value] = None /\ table'[tls'[t].value] # None
               /\ \A s \in Slots : svc'[s].of # table'[tls'[t].value]
    <3>1. ~call[t].query /\ call[t].op = "get" /\ Subject(t).object = None
      BY <2>3, <2>6 DEF Delivers
    <3>2. PICK g \in Handles, y \in Sessions : OpenSession(g, y) /\ tls'[t].value = g
      BY <2>1, <2>2, <3>1 DEF Replied
    <3> QED BY <1>0, <3>2, OpenedFacts
  <2>7. MailOf(t)'
    BY <2>4, <2>5, <2>6 DEF MailOf, DeliveryFresh
  <2>8. \A u \in Threads \ {t} : MailOf(u)' /\ (Delivers(u)' => Delivers(u) /\ tls'[u].value = tls[u].value)
    BY <1>0, <1>3, MailOfKept DEF Mail, MailOf
  <2>9. \A u \in Threads \ {t} : Delivers(t)' /\ Delivers(u)' => tls'[t].value # tls'[u].value
    BY <1>0, <2>6, <2>8 DEF Mail, DeliveryFresh
  <2>10. DeliveriesDiffer'
    BY <1>0, <2>8, <2>9 DEF Mail, DeliveriesDiffer
  <2> QED BY <2>7, <2>8, <2>10 DEF Mail, MailOf
<1> QED BY <1>4, <1>5

(* A thread that does nothing has nothing in its buffer. *)
LEMMA IdleIsSilent ==
  ASSUME NEW u \in Threads, call'[u].step \in {"idle", "new"}
  PROVE  Silent(u)
  BY DEF Silent, RequestWritten, HasReply

LEMMA ConnectKept ==
  ASSUME IInv, NEW t \in Threads, NEW s \in Slots, Connect(t, s)
  PROVE  Mail' /\ \A u \in Threads : Keeps(u)
<1>0. Typed /\ Calls /\ Mail /\ ~svc[s].live /\ UNCHANGED <<call, tls>>
  BY DEF IInv, Connect
<1>1. PICK h \in Handles, x \in Sessions : OpenSession(h, x) /\ svc' = [svc EXCEPT ![s] = OwnerOf(h)']
  BY DEF Connect
<1>2. svc'[s].of = x /\ \A o \in Slots \ {s} : svc'[o] = svc[o]
  <2>1. OwnerOf(h)'.of = x
    BY <1>0, <1>1, OpenedFacts DEF OwnerOf, Holder
  <2> QED BY <1>0, <1>1, <2>1 DEF Typed
<1>3. ASSUME NEW u \in Threads PROVE Keeps(u)
  <2>1. Busy(u) => svc'[call[u].slot].object = svc[call[u].slot].object
    BY <1>0, <1>2 DEF Calls, SubjectsLive, Subject
  <2>2. ASSUME Delivers(u)
        PROVE  /\ table'[tls[u].value] = table[tls[u].value]
               /\ \A o \in Slots : svc'[o].of # table[tls[u].value]
    <3>1. tls[u].value \in Handles
      BY <1>0, <2>2 DEF Mail, ReplyTyped, Delivers
    <3>2. table[tls[u].value] # None /\ \A o \in Slots : svc[o].of # table[tls[u].value]
      BY <1>0, <2>2 DEF Mail, DeliveryFresh
    <3> QED BY <1>0, <1>1, <1>2, <3>1, <3>2, OpenedFacts
  <2> QED BY <1>0, <2>1, <2>2 DEF Keeps
<1> QED BY <1>0, <1>3, MailKept

LEMMA BeginKept ==
  ASSUME IInv, NEW t \in Threads, NEW s \in Slots, NEW op \in {"plain", "get", "logger", "convert", "release"},
         call' = [call EXCEPT ![t] = Doing(op, s)], UNCHANGED <<svc, tls, table>>
  PROVE  Mail' /\ \A u \in Threads \ {t} : Keeps(u)
<1>0. Typed /\ Mail
  BY DEF IInv
<1>1. call'[t].step = "new" /\ \A u \in Threads \ {t} : call'[u] = call[u]
  BY <1>0, DoingIs
<1>2. \A u \in Threads \ {t} : Keeps(u)
  BY <1>0, <1>1, KeepsIfSessionsStand
<1> QED BY <1>0, <1>1, <1>2, IdleIsSilent, MailKept

LEMMA MoveKept ==
  ASSUME IInv, NEW t \in Threads, NEW s \in Slots, NEW d \in Slots \ {s}, Move(t, s, d)
  PROVE  Mail' /\ \A u \in Threads : Keeps(u)
<1>0. Typed /\ Calls /\ Mail /\ ~svc[d].live /\ Free(s) /\ UNCHANGED <<call, tls, table>>
  BY UsersFacts DEF IInv, Move
<1>1. MovedFrom(svc[s]).of = None
  BY <1>0 DEF MovedFrom, Typed, Serv
<1>2. svc'[s].of = None /\ svc'[d] = svc[s] /\ \A o \in Slots \ {s, d} : svc'[o] = svc[o]
  BY <1>0, <1>1 DEF Move, Typed
<1>3. \A u \in Threads : Busy(u) => svc'[call[u].slot].object = svc[call[u].slot].object
  BY <1>0, <1>2 DEF Calls, SubjectsLive, Subject, Free
<1>4. \A o \in Slots : svc'[o].of = None \/ \E p \in Slots : svc'[o].of = svc[p].of
  BY <1>2
<1>5. \A u \in Threads : Keeps(u)
  BY <1>0, <1>3, <1>4, KeepsIfSessionsStand
<1> QED BY <1>0, <1>5, MailKept

LEMMA DestroyKept ==
  ASSUME IInv, NEW t \in Threads, NEW s \in Slots, Destroy(t, s), svc' = [svc EXCEPT ![s] = Gone], UNCHANGED call
  PROVE  Mail' /\ \A u \in Threads : Keeps(u)
<1>0. Typed /\ Calls /\ Mail /\ Free(s) /\ UNCHANGED <<call, tls, table>>
  BY UsersFacts DEF IInv, Destroy
<1>1. svc'[s].of = None /\ \A o \in Slots \ {s} : svc'[o] = svc[o]
  BY <1>0, GoneIs DEF Typed
<1>2. \A u \in Threads : Busy(u) => svc'[call[u].slot].object = svc[call[u].slot].object
  BY <1>0, <1>1 DEF Calls, SubjectsLive, Free
<1>3. \A o \in Slots : svc'[o].of = None \/ \E p \in Slots : svc'[o].of = svc[p].of
  BY <1>1
<1>4. \A u \in Threads : Keeps(u)
  BY <1>0, <1>2, <1>3, KeepsIfSessionsStand
<1> QED BY <1>0, <1>4, MailKept

(* Two replies never bring the same handle, so that who reads one leaves   *)
(* the other fresh.                                                        *)
LEMMA ReadKept ==
  ASSUME IInv, NEW t \in Threads, ReadFromTls(t)
  PROVE  Mail' /\ \A u \in Threads \ {t} : Keeps(u)
<1> DEFINE s == call[t].slot
           value == tls[t].value
<1>0. /\ Typed /\ Calls /\ Owners /\ Mail /\ Busy(t) /\ s \in Slots /\ Subject(t) = svc[s] /\ svc[s] \in Serv
      /\ ~call[t].query /\ UNCHANGED table
  BY SubjectTyped DEF IInv, ReadFromTls, At, Busy
<1>1. call'[t].step = "idle" /\ \A u \in Threads \ {t} : call'[u] = call[u] /\ tls'[u] = tls[u]
  BY <1>0, ReturnDoes DEF ReadFromTls
<1>2. SUFFICES ASSUME NEW u \in Threads \ {t} PROVE Keeps(u)
  BY <1>0, <1>1, IdleIsSilent, MailKept
<1>3. ASSUME HasReply(t), call[t].op = "convert", svc' = [svc EXCEPT ![s].object = value]
      PROVE  Keeps(u)
  <2>1. (\A o \in Slots : svc'[o].of = svc[o].of) /\ \A o \in Slots \ {s} : svc'[o] = svc[o]
    BY <1>0, <1>3 DEF Typed, Serv
  <2>2. Busy(u) => call[u].slot \in Slots \ {s}
    BY <1>0, <1>2, <1>3 DEF Calls, ChangersAreAlone, SubjectsLive
  <2> QED BY <1>0, <1>1, <1>2, <2>1, <2>2, KeepsIfSessionsStand
<1>4. ASSUME HasReply(t), call[t].op = "get",
             NEW d \in Slots, ~svc[d].live, svc' = [svc EXCEPT ![d] = NextSubservice(svc[s], value)]
      PROVE  Keeps(u)
  <2> DEFINE v == NextSubservice(svc[s], value)
  <2>1. svc'[d] = v /\ \A o \in Slots \ {d} : svc'[o] = svc[o]
    BY <1>0, <1>4 DEF Typed
  <2>2. Busy(u) => svc'[call[u].slot].object = svc[call[u].slot].object
    BY <1>0, <1>4, <2>1 DEF Calls, SubjectsLive, Subject
  <2>3. CASE svc[s].object # None
    <3>1. v = Holder(svc[s].session, value, FALSE, svc[s].ptr, svc[s].of, FALSE)
      BY <2>3 DEF NextSubservice, IsDomain, DomainSubservice
    <3>2. v.of = svc[s].of
      BY <3>1 DEF Holder
    <3> HIDE DEF v
    <3>3. \A o \in Slots : \E p \in Slots : svc'[o].of = svc[p].of
      BY <1>0, <2>1, <3>2
    <3> QED BY <1>0, <1>1, <1>2, <2>2, <3>3, KeepsIfSessionsStand
  <2>4. CASE svc[s].object = None
    <3>1. v = Holder(value, None, FALSE, Unknown, table[value], TRUE)
      BY <2>4 DEF NextSubservice, IsDomain, FromHandle
    <3>2. v.of = table[value]
      BY <3>1 DEF Holder
    <3> HIDE DEF v
    <3>3. Delivers(t) /\ value \in Handles
      BY <1>0, <1>4, <2>4 DEF Delivers, Mail, ReplyTyped
    <3>4. ASSUME Delivers(u), NEW o \in Slots PROVE svc'[o].of # table[tls[u].value]
      <4>1. tls[u].value \in Handles /\ tls[u].value # value
        BY <1>0, <1>2, <3>3, <3>4 DEF Mail, ReplyTyped, Delivers, DeliveriesDiffer
      <4>2. table[tls[u].value] # None /\ svc[o].of # table[tls[u].value]
        BY <1>0, <1>2, <3>4 DEF Mail, DeliveryFresh
      <4>3. table[value] # table[tls[u].value]
        BY <1>0, <3>3, <4>1, <4>2 DEF Owners, OneHandleEach
      <4> QED BY <2>1, <3>2, <4>2, <4>3
    <3> QED BY <1>0, <1>1, <1>2, <2>2, <3>4 DEF Keeps
  <2> QED BY <2>3, <2>4
<1>5. CASE UNCHANGED svc
  BY <1>0, <1>1, <1>2, <1>5, KeepsIfSessionsStand
<1> QED BY <1>0, <1>3, <1>4, <1>5 DEF ReadFromTls, HasReply, At

(* A handle that is closed is in nobody's reply: its session is known. *)
LEMMA EndKept ==
  ASSUME IInv, NEW t \in Threads, EndOfDestructor(t)
  PROVE  Mail' /\ \A u \in Threads \ {t} : Keeps(u)
<1> DEFINE s == call[t].slot
           h == svc[s].session
<1>0. /\ Typed /\ Calls /\ Owners /\ Mail /\ Busy(t) /\ call[t].op = "release"
      /\ s \in Slots /\ Subject(t) = svc[s] /\ svc[s] \in Serv
  BY SubjectTyped DEF IInv, EndOfDestructor, At, Busy, Steps
<1>1. call'[t].step = "idle" /\ \A u \in Threads \ {t} : call'[u] = call[u] /\ tls'[u] = tls[u]
  BY <1>0, ReturnDoes DEF EndOfDestructor
<1>2. svc'[s].of = None /\ \A o \in Slots \ {s} : svc'[o] = svc[o]
  BY <1>0, GoneIs DEF EndOfDestructor, Typed
<1>3. SUFFICES ASSUME NEW u \in Threads \ {t} PROVE Keeps(u)
  BY <1>0, <1>1, IdleIsSilent, MailKept
<1>4. Busy(u) => svc'[call[u].slot].object = svc[call[u].slot].object
  BY <1>0, <1>2, <1>3 DEF Calls, ChangersAreAlone, SubjectsLive
<1>5. ASSUME Delivers(u)
      PROVE  /\ table'[tls[u].value] = table[tls[u].value]
             /\ \A o \in Slots : svc'[o].of # table[tls[u].value]
  <2>1. tls[u].value \in Handles
    BY <1>0, <1>3, <1>5 DEF Mail, ReplyTyped, Delivers
  <2>2. table[tls[u].value] # None /\ \A o \in Slots : svc[o].of # table[tls[u].value]
    BY <1>0, <1>3, <1>5 DEF Mail, DeliveryFresh
  <2>3. table'[tls[u].value] = table[tls[u].value]
    <3>1. CASE svc[s].owned
      <4>1. table[h] = svc[s].of
        BY <1>0, <3>1 DEF Owners, OwnersHold, HandlesStand
      <4>2. table' = [g \in Handles |-> IF g = h THEN None ELSE table[g]]
        BY <1>0, <3>1 DEF EndOfDestructor, CloseHandle
      <4> QED BY <1>0, <2>1, <2>2, <4>1, <4>2
    <3>2. CASE ~svc[s].owned
      BY <1>0, <3>2 DEF EndOfDestructor
    <3> QED BY <3>1, <3>2
  <2> QED BY <1>2, <2>2, <2>3
<1> QED BY <1>1, <1>3, <1>4, <1>5 DEF Keeps

LEMMA MailStep ==
  ASSUME IInv, [Next]_vars
  PROVE  Mail'
<1>0. Typed /\ Mail /\ Calls
  BY DEF IInv
<1>1. ASSUME NEW t \in Threads, Quiet(t) PROVE Mail'
  BY <1>1, QuietMail, SendMail
<1>2. ASSUME NEW t \in Threads, NEW s \in Slots, Destroy(t, s) PROVE Mail'
  BY <1>2, BeginKept, DestroyKept DEF Destroy
<1>3. ASSUME NEW t \in Threads, NEW s \in Slots, InitializeLogger(t, s) PROVE Mail'
  BY <1>3, BeginKept DEF InitializeLogger
<1>4. ASSUME NEW t \in Threads, NEW s \in Slots, NEW op \in {"plain", "get", "convert"}, Begin(t, s, op) PROVE Mail'
  BY <1>4, BeginKept DEF Begin
<1>5. CASE UNCHANGED <<svc, call, tls, table>>
  BY <1>0, <1>5, KeepsIfSessionsStand, MailKept
<1>6. ASSUME NEW x \in Sessions, ServerCloses(x) PROVE Mail'
  BY <1>5, <1>6 DEF ServerCloses
<1>7. CASE UNCHANGED vars
  BY <1>5, <1>7 DEF vars
<1> QED BY <1>1, <1>2, <1>3, <1>4, <1>6, <1>7, ConnectKept, MoveKept, ReadKept, EndKept DEF Next, Quiet

-----------------------------------------------------------------------------
LEMMA InitIInv == Init => IInv
<1> SUFFICES ASSUME Init PROVE IInv
  OBVIOUS
<1>1. Typed
  <2>1. svc \in [Slots -> Serv] /\ call \in [Threads -> CallRec]
    BY RecordTypes DEF Init
  <2>2. server \in [Sessions -> ServerRec]
    BY DEF Init, ServerRec
  <2> QED BY <2>1, <2>2 DEF Init, Typed
<1>2. \A t \in Threads : /\ call[t].step = "idle" /\ call[t].used = 0 /\ call[t].room = 0 /\ call[t].query = FALSE
  BY RestingIs DEF Init
<1>3. \A s \in Slots : svc[s].session = None /\ svc[s].owned = FALSE
  BY GoneIs DEF Init
<1>4. Calls
  BY <1>2 DEF Calls, SubjectsLive, ChangersAreAlone, LoggerByHandle, Busy
<1>5. Steps
  BY <1>2, ServiceAssumption DEF Steps
<1>6. Owners
  BY <1>2, <1>3 DEF Owners, HandlesStand, OwnersHold, OneHandleEach, ReleasersAreLast, Busy, Init
<1>7. Mail
  BY <1>2 DEF Mail, RequestWritten, ReplyTyped, DeliveryFresh, DeliveriesDiffer, Delivers, HasReply
<1> QED BY <1>1, <1>4, <1>5, <1>6, <1>7 DEF IInv

LEMMA NextIInv == IInv /\ [Next]_vars => IInv'
  BY TypedStep, StepsStep, CallsOwnersStep, MailStep DEF IInv

(* Whatever servers answer or refuse, Services, requests and the logger    *)
(* keep their types, and the rest of the pointer buffer that sf.h counts   *)
(* in a u16 never wraps round.                                             *)
THEOREM ServiceTypeCorrect == Spec => []TypeOK
<1>1. IInv => TypeOK
  BY TypedIsTypeOK DEF IInv
<1> QED BY <1>1, InitIInv, NextIInv, PTL DEF Spec

(* For any number of threads, Services and handles: if callers let the     *)
(* owner of a session go last, no Service is left with a handle that was   *)
(* closed, or that the kernel gave to another session since (sf.h, the     *)
(* constructors, the move and the destructor of Service).                  *)
THEOREM ServiceHandleIsItsOwn == Spec => []HandleIsItsOwn
<1>1. IInv => HandleIsItsOwn
  BY DEF IInv, Owners, HandlesStand, HandleIsItsOwn
<1> QED BY <1>1, InitIInv, NextIInv, PTL DEF Spec
-----------------------------------------------------------------------------
(* What RequestsFit, RepliesFit and ObjectsAreHeld rest on. *)

(* Services of a session, of which one at most is for all of it. *)
Shapes ==
  \A s \in Slots : /\ svc[s].of # None => svc[s].session # None
                   /\ svc[s].of = None => svc[s].object = None
                   /\ ~svc[s].live => svc[s].of = None
Alone ==
  \A s, r \in Slots : svc[s].of = svc[r].of /\ svc[s].of # None /\ svc[s].object = None => s = r

(* A session is a domain when its Services have objects, but for the one   *)
(* Service of a session that was converted just now.                       *)
Converted(t) == HasReply(t) /\ ~call[t].query /\ call[t].op = "convert"
DomainOf(s) ==
  svc[s].of # None =>
    /\ svc[s].object # None => server[svc[s].of].domain /\ svc[s].ptr # Unknown
    /\ svc[s].object = None /\ server[svc[s].of].domain => \E t \in Threads : call[t].slot = s /\ Converted(t)
    /\ svc[s].ptr # Unknown => svc[s].ptr = server[svc[s].of].size
Domains == \A s \in Slots : DomainOf(s)
SizesStand == \A g \in Handles : table[g] # None => server[table[g]].size \in Sizes

(* What a call has found out of its session, and what a reply says of it. *)
Asked(t) ==
  /\ Busy(t) => Subject(t).of # None
  /\ Busy(t) /\ (call[t].query \/ call[t].op = "convert") => Subject(t).object = None
  /\ Busy(t) /\ call[t].step # "new" /\ ~call[t].query => Subject(t).ptr # Unknown
  /\ call[t].step = "again" => ~call[t].query
  /\ call[t].step \in {"built", "written"} /\ ~call[t].query =>
       call[t].used + call[t].room = server[Subject(t).of].size
Answered(t) ==
  /\ call[t].step = "sent" /\ call[t].sent =>
       tls[t].kind = "reply" /\ tls[t].command = Command(call[t]) /\ tls[t].domain = IsDomain(Subject(t))
  /\ HasReply(t) /\ call[t].query => tls[t].value = server[Subject(t).of].size
  /\ Converted(t) => server[Subject(t).of].domain
  /\ Delivers(t) => ~server[table[tls[t].value]].domain
  /\ call[t].step = "sent" /\ ~call[t].sent /\ call[t].op = "release" /\ ~call[t].query =>
       ~server[Subject(t).of].open
Requests == \A t \in Threads : Asked(t) /\ Answered(t)

(* An object has a holder or a reply that brings it, and only one. *)
HeldOnce(x, id) ==
  /\ \A s, r \in Holders(x, id) : s = r
  /\ \A t, u \in Arriving(x, id) : t = u
  /\ Holders(x, id) = {} \/ Arriving(x, id) = {}
  /\ id \in server[x].objects <=> Holders(x, id) # {} \/ Arriving(x, id) # {}
Objects == \A x \in Sessions : server[x].open => \A id \in Ids : HeldOnce(x, id)

JInv == IInv /\ Shapes /\ Alone /\ Domains /\ SizesStand /\ Requests /\ Objects
-----------------------------------------------------------------------------
LEMMA SizesAreSmall == \A n \in Sizes \union {0} : n \in Nat /\ (n \in Sizes => n # Unknown)
<1>1. Unknown \in Nat /\ \A n \in Sizes : n \in 0 .. Unknown - 1
  BY ServiceAssumption
<1> QED BY <1>1

(* The subject of a call. *)
LEMMA SubjectKnown ==
  ASSUME JInv, NEW t \in Threads, call[t].step # "idle"
  PROVE  /\ call[t].slot \in Slots /\ Subject(t) = svc[call[t].slot] /\ Subject(t) \in Serv /\ Subject(t).live
         /\ Subject(t).session \in Handles /\ Subject(t).session # None
         /\ Subject(t).of \in Sessions /\ Subject(t).of # None
         /\ table[Subject(t).session] = Subject(t).of
         /\ server[Subject(t).of] \in ServerRec /\ call[t] \in CallRec
<1>0. IInv /\ Typed /\ Calls /\ Owners /\ Shapes /\ Asked(t)
  BY DEF JInv, IInv, Requests
<1>1. /\ call[t].slot \in Slots /\ Subject(t) = svc[call[t].slot] /\ Subject(t) \in Serv /\ Subject(t).live
      /\ Subject(t).session \in Handles \union {None}
  BY <1>0, SubjectTyped
<1>2. Subject(t).of # None /\ Subject(t).of \in Sessions
  BY <1>0, <1>1 DEF Asked, Busy, Serv
<1>3. Subject(t).session # None /\ table[Subject(t).session] = Subject(t).of
  BY <1>0, <1>1, <1>2 DEF Shapes, Owners, HandlesStand
<1>4. server[Subject(t).of] \in ServerRec /\ call[t] \in CallRec
  BY <1>0, <1>2 DEF Typed
<1> QED BY <1>1, <1>2, <1>3, <1>4

(* Whoever converts or releases a Service is its only user. *)
LEMMA OnlyUser ==
  ASSUME JInv, NEW t \in Threads, Busy(t), NEW u \in Threads, Busy(u), call[t].slot = call[u].slot,
         call[u].op \in {"convert", "release"}
  PROVE  u = t
  BY DEF JInv, IInv, Calls, ChangersAreAlone

(* A call knows whether its session is a domain. *)
LEMMA DomainKnown ==
  ASSUME JInv, NEW t \in Threads, Busy(t), ~Converted(t)
  PROVE  server[Subject(t).of].domain <=> Subject(t).object # None
<1> DEFINE s == call[t].slot
<1>1. s \in Slots /\ Subject(t) = svc[s] /\ svc[s].of # None
  BY SubjectKnown DEF Busy
<1>2. DomainOf(s)
  BY <1>1 DEF JInv, Domains
<1>3. CASE svc[s].object = None /\ server[svc[s].of].domain
  <2>1. PICK u \in Threads : call[u].slot = s /\ Converted(u)
    BY <1>1, <1>2, <1>3 DEF DomainOf
  <2>2. Busy(u) /\ call[u].op = "convert"
    BY <2>1 DEF Converted, HasReply, Busy
  <2>3. u = t
    BY <2>1, <2>2, OnlyUser
  <2> QED BY <2>1, <2>3
<1> QED BY <1>1, <1>2, <1>3 DEF DomainOf

(* What is written is what the server can read. *)
LEMMA RequestIsRead ==
  ASSUME JInv, NEW t \in Threads, call[t].step = "written", server[Subject(t).of].open
  PROVE  /\ Fits(Subject(t).of, tls[t])
         /\ tls[t].pointers <= server[Subject(t).of].size
         /\ tls[t] = Message(call[t], Subject(t))
<1> DEFINE x == Subject(t).of
           s == call[t].slot
           m == tls[t]
<1>0. /\ Busy(t) /\ s \in Slots /\ Subject(t) = svc[s] /\ Subject(t) \in Serv /\ x \in Sessions /\ x # None
      /\ server[x] \in ServerRec /\ call[t] \in CallRec
  BY SubjectKnown DEF Busy
<1>1. /\ m = Message(call[t], Subject(t)) /\ m.kind = "request" /\ m.tag = TagOf(call[t], Subject(t))
      /\ m.object = Subject(t).object /\ m.pointers = call[t].used
  BY DEF JInv, IInv, Mail, RequestWritten, Message
<1>2. ~Converted(t)
  BY DEF Converted, HasReply
<1>3. server[x].domain <=> Subject(t).object # None
  BY <1>0, <1>2, DomainKnown
<1>4. m.tag # "Request" => m.object = None
  BY <1>0, <1>1 DEF JInv, Requests, Asked, TagOf, Command, IsDomain, CallRec
<1>5. ASSUME server[x].domain PROVE m.object \in server[x].objects
  <2>1. Subject(t).object # None /\ Subject(t).object \in Ids
    BY <1>0, <1>3, <1>5 DEF Serv
  <2>2. ~Releasing(s)
    <3>1. ASSUME NEW u \in Threads, Busy(u), call[u].slot = s, call[u].op = "release"
          PROVE  call[u].step \notin {"sent", "again"}
      <4>1. u = t
        BY <1>0, <3>1, OnlyUser
      <4> QED BY <4>1
    <3> QED BY <3>1 DEF Releasing, Users, Idle, Busy
  <2>3. s \in Holders(x, Subject(t).object)
    BY <1>0, <2>2 DEF Holders
  <2>4. HeldOnce(x, Subject(t).object)
    BY <1>0, <2>1 DEF JInv, Objects
  <2> QED BY <1>1, <2>3, <2>4 DEF HeldOnce
<1>6. Fits(x, m)
  BY <1>1, <1>3, <1>4, <1>5 DEF Fits
<1>7. m.pointers <= server[x].size
  <2>1. call[t].used \in Nat /\ call[t].room \in Nat /\ server[x].size \in Nat
    <3>1. call[t].used \in 0 .. Unknown /\ call[t].room \in 0 .. Unknown /\ server[x].size \in Sizes \union {0}
      BY <1>0 DEF CallRec, ServerRec
    <3>2. server[x].size \in Nat
      BY <3>1, SizesAreSmall
    <3> QED BY <3>1, <3>2, ServiceAssumption
  <2>2. CASE call[t].query
    BY <1>1, <2>1, <2>2 DEF JInv, IInv, Steps
  <2>3. CASE ~call[t].query
    BY <1>1, <2>1, <2>3 DEF JInv, Requests, Asked
  <2> QED BY <2>2, <2>3
<1> QED BY <1>1, <1>6, <1>7

-----------------------------------------------------------------------------
(* What the exchange of a message comes to. *)

(* A session ends, and nothing else happens. *)
Ends(x) ==
  /\ table' = table /\ server'[x] = [server[x] EXCEPT !.open = FALSE]
  /\ \A y \in Sessions \ {x} : server'[y] = server[y]
(* The objects of a session change. *)
Becomes(x, objects) ==
  /\ table' = table /\ \A y \in Sessions \ {x} : server'[y] = server[y]
  /\ server'[x].open = server[x].open /\ server'[x].size = server[x].size
  /\ server'[x].domain = TRUE /\ server'[x].objects = objects
Stands == table' = table /\ server' = server

NoReply(t, x) == ~call'[t].sent /\ tls'[t] = tls[t] /\ Ends(x)
Replies(t, ok) ==
  /\ call'[t].sent /\ tls'[t].kind = "reply" /\ tls'[t].command = Command(call[t])
  /\ tls'[t].domain = IsDomain(Subject(t)) /\ tls'[t].ok = ok
RepliesPlainly(t, x) ==
  /\ \/ Replies(t, FALSE) /\ Command(call[t]) # "release"
     \/ Replies(t, TRUE) /\ Command(call[t]) = "plain"
     \/ Replies(t, TRUE) /\ Command(call[t]) = "query" /\ tls'[t].value = server[x].size
  /\ Stands
BringsObject(t, x) ==
  /\ Replies(t, TRUE) /\ server[x].open
  /\ Command(call[t]) = "convert" \/ (Command(call[t]) \in {"get", "logger"} /\ server[x].domain)
  /\ tls'[t].value \in Ids \ server[x].objects
  /\ Becomes(x, server[x].objects \union {tls'[t].value})
BringsHandle(t, x) ==
  /\ Replies(t, TRUE) /\ Command(call[t]) \in {"get", "logger"} /\ ~server[x].domain
  /\ tls'[t].value \in Handles /\ \E y \in Sessions : OpenSession(tls'[t].value, y)
LosesObject(t, x) ==
  /\ Replies(t, TRUE) /\ Command(call[t]) = "release" /\ server[x].open
  /\ Subject(t).object \in server[x].objects
  /\ Becomes(x, server[x].objects \ {Subject(t).object})

LEMMA AnswerIs ==
  ASSUME NEW t \in Threads, NEW x \in Sessions, Answer(t, x)
  PROVE  LET m == tls[t]
             says(ok, value) == tls' = [tls EXCEPT ![t] = Reply(m.command, IsDomain(m), ok, value)]
             object == m.command = "convert" \/ (m.command \in {"get", "logger"} /\ server[x].domain)
         IN \/ m.command # "release" /\ says(FALSE, None) /\ UNCHANGED <<table, server>>
            \/ m.command = "query" /\ says(TRUE, server[x].size) /\ UNCHANGED <<table, server>>
            \/ m.command = "plain" /\ says(TRUE, None) /\ UNCHANGED <<table, server>>
            \/ /\ object /\ UNCHANGED table
               /\ \E id \in Ids \ server[x].objects :
                    /\ says(TRUE, id)
                    /\ server' = [server EXCEPT ![x].domain = TRUE, ![x].objects = @ \union {id}]
            \/ /\ m.command \in {"get", "logger"} /\ ~object
               /\ \E g \in Handles, y \in Sessions : OpenSession(g, y) /\ says(TRUE, g)
            \/ /\ m.command = "release" /\ says(TRUE, None) /\ UNCHANGED table
               /\ server' = [server EXCEPT ![x].objects = @ \ {m.object}]
<1> DEFINE m == tls[t]
           reply(ok, value) == tls' = [tls EXCEPT ![t] = Reply(m.command, IsDomain(m), ok, value)]
           object == m.command = "convert" \/ (m.command \in {"get", "logger"} /\ server[x].domain)
           gains(id) == server' = [server EXCEPT ![x].domain = TRUE, ![x].objects = @ \union {id}]
           loses == server' = [server EXCEPT ![x].objects = @ \ {m.object}]
<1>1. \/ m.command # "release" /\ reply(FALSE, None) /\ UNCHANGED <<table, server>>
      \/ m.command = "query" /\ reply(TRUE, server[x].size) /\ UNCHANGED <<table, server>>
      \/ m.command = "plain" /\ reply(TRUE, None) /\ UNCHANGED <<table, server>>
      \/ object /\ (\E id \in Ids \ server[x].objects : reply(TRUE, id) /\ gains(id)) /\ UNCHANGED table
      \/ m.command \in {"get", "logger"} /\ ~object /\ \E g \in Handles, y \in Sessions : OpenSession(g, y) /\ reply(TRUE, g)
      \/ m.command = "release" /\ reply(TRUE, None) /\ loses /\ UNCHANGED table
  BY Zenon DEF Answer
<1> QED BY <1>1, Zenon

LEMMA SendIs ==
  ASSUME JInv, NEW t \in Threads, Send(t)
  PROVE  LET x == Subject(t).of IN
         /\ call[t].step = "written" /\ UNCHANGED <<svc, logger, halted>>
         /\ Stepped(t, "sent", call[t].query, call[t].room, call[t].used, call'[t].sent)
         /\ \A u \in Threads \ {t} : tls'[u] = tls[u]
         /\ \/ NoReply(t, x) \/ RepliesPlainly(t, x) \/ BringsObject(t, x)
            \/ BringsHandle(t, x) \/ LosesObject(t, x)
<1> DEFINE x == Subject(t).of
           h == Subject(t).session
           m == tls[t]
           Goal == \/ NoReply(t, x) \/ RepliesPlainly(t, x) \/ BringsObject(t, x)
                   \/ BringsHandle(t, x) \/ LosesObject(t, x)
<1>0. /\ call[t].step = "written" /\ Typed /\ Subject(t) \in Serv /\ h \in Handles /\ h # None /\ x \in Sessions
      /\ x # None /\ table[h] = x /\ server[x] \in ServerRec /\ UNCHANGED <<svc, logger, halted>>
  BY SubjectKnown DEF Send, At, JInv, IInv
<1>1. SendSyncRequest(t, h, "sent")
  BY DEF Send
<1>2. \E ok \in BOOLEAN : Stepped(t, "sent", call[t].query, call[t].room, call[t].used, ok)
  BY <1>0, <1>1, SendDoes
<1>3. /\ Stepped(t, "sent", call[t].query, call[t].room, call[t].used, call'[t].sent)
      /\ \A u \in Threads \ {t} : tls'[u] = tls[u]
  BY <1>0, <1>1, <1>2, SendDoes DEF Stepped
<1>4. \A ok : call' = [call EXCEPT ![t].step = "sent", ![t].sent = ok] => call'[t].sent = ok
  BY <1>0 DEF Typed, CallRec
<1>5. Open(h) <=> server[x].open
  BY <1>0 DEF Open
<1>6. server[x].open => /\ Fits(x, m) /\ m.command = Command(call[t]) /\ m.tag = TagOf(call[t], Subject(t))
                        /\ m.object = Subject(t).object
  <2>1. \A c, v : /\ Message(c, v).command = Command(c) /\ Message(c, v).tag = TagOf(c, v)
                 /\ Message(c, v).object = v.object
    BY DEF Message
  <2> QED BY <1>0, <2>1, RequestIsRead
<1>7. ASSUME ~Open(h) PROVE Goal
  <2>1. ~call'[t].sent /\ UNCHANGED <<tls, table, server>>
    BY <1>0, <1>1, <1>4, <1>7 DEF SendSyncRequest
  <2>2. server[x] = [server[x] EXCEPT !.open = FALSE]
    BY <1>0, <1>5, <1>7 DEF ServerRec
  <2> QED BY <2>1, <2>2, <1>0, <1>3 DEF NoReply, Ends
<1>8. ASSUME Open(h), m.tag = "Close" PROVE Goal
  <2>1. ~call'[t].sent /\ UNCHANGED <<tls, table>> /\ server' = [server EXCEPT ![x].open = FALSE]
    BY <1>0, <1>1, <1>4, <1>5, <1>6, <1>8 DEF SendSyncRequest
  <2>2. server'[x] = [server[x] EXCEPT !.open = FALSE] /\ \A y \in Sessions \ {x} : server'[y] = server[y]
    BY <1>0, <2>1 DEF Typed
  <2> QED BY <2>1, <2>2, <1>0, <1>3 DEF NoReply, Ends
<1>9. ASSUME Open(h), m.tag # "Close" PROVE Goal
  <2>1. call'[t].sent /\ Answer(t, x)
    BY <1>0, <1>1, <1>4, <1>5, <1>6, <1>9 DEF SendSyncRequest
  <2>2. server[x].open /\ Fits(x, m) /\ m.command = Command(call[t]) /\ m.object = Subject(t).object
    BY <1>5, <1>6, <1>9
  <2>3. ASSUME NEW ok \in BOOLEAN, NEW value, tls' = [tls EXCEPT ![t] = Reply(m.command, IsDomain(m), ok, value)]
        PROVE  Replies(t, ok) /\ tls'[t].value = value
    <3>1. tls'[t] = Reply(m.command, IsDomain(m), ok, value)
      BY <1>0, <2>3 DEF Typed
    <3> QED BY <2>1, <2>2, <3>1 DEF Reply, Replies, IsDomain
  <2>4. ASSUME m.command # "release", tls' = [tls EXCEPT ![t] = Reply(m.command, IsDomain(m), FALSE, None)],
               UNCHANGED <<table, server>>
        PROVE  RepliesPlainly(t, x)
    BY <2>2, <2>3, <2>4 DEF RepliesPlainly, Stands
  <2>5. ASSUME m.command = "query", tls' = [tls EXCEPT ![t] = Reply(m.command, IsDomain(m), TRUE, server[x].size)],
               UNCHANGED <<table, server>>
        PROVE  RepliesPlainly(t, x)
    BY <2>2, <2>3, <2>5 DEF RepliesPlainly, Stands
  <2>6. ASSUME m.command = "plain", tls' = [tls EXCEPT ![t] = Reply(m.command, IsDomain(m), TRUE, None)],
               UNCHANGED <<table, server>>
        PROVE  RepliesPlainly(t, x)
    BY <2>2, <2>3, <2>6 DEF RepliesPlainly, Stands
  <2>7. ASSUME m.command = "convert" \/ (m.command \in {"get", "logger"} /\ server[x].domain), UNCHANGED table,
               NEW id \in Ids \ server[x].objects, tls' = [tls EXCEPT ![t] = Reply(m.command, IsDomain(m), TRUE, id)],
               server' = [server EXCEPT ![x].domain = TRUE, ![x].objects = @ \union {id}]
        PROVE  BringsObject(t, x)
    <3>1. Becomes(x, server[x].objects \union {id})
      BY <1>0, <2>7 DEF Typed, ServerRec, Becomes
    <3> QED BY <2>2, <2>3, <2>7, <3>1 DEF BringsObject
  <2>8. ASSUME m.command \in {"get", "logger"}, ~server[x].domain,
               NEW g \in Handles, NEW y \in Sessions, OpenSession(g, y), tls' = [tls EXCEPT ![t] = Reply(m.command, IsDomain(m), TRUE, g)]
        PROVE  BringsHandle(t, x)
    BY <2>2, <2>3, <2>8 DEF BringsHandle
  <2>9. ASSUME m.command = "release", UNCHANGED table, tls' = [tls EXCEPT ![t] = Reply(m.command, IsDomain(m), TRUE, None)],
               server' = [server EXCEPT ![x].objects = @ \ {m.object}]
        PROVE  LosesObject(t, x)
    <3>1. m.tag = "Request" /\ Subject(t).object # None
      BY <1>6, <1>9, <2>2, <2>9 DEF TagOf, Command, IsDomain
    <3>2. server[x].domain /\ m.object \in server[x].objects
      BY <2>2, <3>1 DEF Fits
    <3>3. Becomes(x, server[x].objects \ {m.object})
      BY <1>0, <2>9, <3>2 DEF Typed, ServerRec, Becomes
    <3> QED BY <2>2, <2>3, <2>9, <3>2, <3>3 DEF LosesObject
  <2> DEFINE says(ok, value) == tls' = [tls EXCEPT ![t] = Reply(m.command, IsDomain(m), ok, value)]
             object == m.command = "convert" \/ (m.command \in {"get", "logger"} /\ server[x].domain)
  <2>10. \/ m.command # "release" /\ says(FALSE, None) /\ UNCHANGED <<table, server>>
         \/ m.command = "query" /\ says(TRUE, server[x].size) /\ UNCHANGED <<table, server>>
         \/ m.command = "plain" /\ says(TRUE, None) /\ UNCHANGED <<table, server>>
         \/ /\ object /\ UNCHANGED table
            /\ \E id \in Ids \ server[x].objects :
                 /\ says(TRUE, id)
                 /\ server' = [server EXCEPT ![x].domain = TRUE, ![x].objects = @ \union {id}]
         \/ /\ m.command \in {"get", "logger"} /\ ~object
            /\ \E g \in Handles, y \in Sessions : OpenSession(g, y) /\ says(TRUE, g)
         \/ /\ m.command = "release" /\ says(TRUE, None) /\ UNCHANGED table
            /\ server' = [server EXCEPT ![x].objects = @ \ {m.object}]
    BY <1>0, <2>1, AnswerIs
  <2>11. (\E g \in Handles, y \in Sessions : OpenSession(g, y) /\ says(TRUE, g)) /\ m.command \in {"get", "logger"} /\ ~object
           => BringsHandle(t, x)
    BY <2>8
  <2> HIDE DEF h, x, m
  <2> QED BY <2>4, <2>5, <2>6, <2>7, <2>9, <2>10, <2>11
<1> QED BY <1>0, <1>3, <1>7, <1>8, <1>9

(* The reply to a release is not read, but it is no request either, so     *)
(* that what is sent once more does nothing.                               *)
LEMMA SendAgainIs ==
  ASSUME JInv, NEW t \in Threads, SendAgain(t)
  PROVE  /\ call[t].step = "sent" /\ ~call[t].query /\ call[t].op = "release"
         /\ Stepped(t, "again", FALSE, call[t].room, call[t].used, call'[t].sent)
         /\ \A u \in Threads \ {t} : tls'[u] = tls[u]
         /\ Stands /\ UNCHANGED <<svc, logger, halted>>
<1> DEFINE x == Subject(t).of
           h == Subject(t).session
           m == tls[t]
<1>0. /\ call[t].step = "sent" /\ ~call[t].query /\ call[t].op = "release" /\ Typed /\ h \in Handles /\ h # None
      /\ x # None /\ table[h] = x /\ call[t] \in CallRec /\ UNCHANGED <<svc, logger, halted>>
  BY SubjectKnown DEF SendAgain, At, JInv, IInv
<1>1. SendSyncRequest(t, h, "again")
  BY DEF SendAgain
<1>2. \E ok \in BOOLEAN : Stepped(t, "again", call[t].query, call[t].room, call[t].used, ok)
  BY <1>0, <1>1, SendDoes
<1>3. /\ Stepped(t, "again", FALSE, call[t].room, call[t].used, call'[t].sent)
      /\ \A u \in Threads \ {t} : tls'[u] = tls[u]
  BY <1>0, <1>1, <1>2, SendDoes DEF Stepped, CallRec
<1>4. Open(h) => ~Fits(table[h], m)
  BY <1>0 DEF JInv, Requests, Answered, Open, Fits
<1>5. Stands
  BY <1>1, <1>4 DEF SendSyncRequest, Stands
<1> QED BY <1>0, <1>3, <1>5

-----------------------------------------------------------------------------
(* What a step leaves of the sessions that Services have: their sizes, and *)
(* that they are domains; and none of them opens again.                    *)
ServerKeeps ==
  /\ \A s \in Slots : svc[s].of # None =>
       /\ server'[svc[s].of].size = server[svc[s].of].size
       /\ server[svc[s].of].domain => server'[svc[s].of].domain
       /\ server'[svc[s].of].open => server[svc[s].of].open
  /\ \A x \in Sessions : server'[x].domain => server[x].domain \/ \E s \in Slots : svc[s].of = x

(* Sessions that end at most. *)
Fewer ==
  /\ \A x \in Sessions : /\ server'[x].size = server[x].size /\ server'[x].domain = server[x].domain
                         /\ server'[x].objects = server[x].objects
                         /\ server'[x].open => server[x].open
  /\ \A g \in Handles : table'[g] \in {None, table[g]}

LEMMA FewerKept ==
  ASSUME Typed, SizesStand, Fewer
  PROVE  ServerKeeps /\ SizesStand'
<1>1. ServerKeeps
  BY DEF Typed, Fewer, ServerKeeps, Serv
<1>2. ASSUME NEW g \in Handles, table'[g] # None PROVE server'[table'[g]].size \in Sizes
  <2>1. table'[g] = table[g] /\ table[g] \in Sessions
    BY <1>2 DEF Fewer, Typed
  <2> QED BY <1>2, <2>1 DEF Fewer, SizesStand
<1> QED BY <1>1, <1>2 DEF SizesStand

LEMMA OpenedServer ==
  ASSUME Typed, NEW h \in Handles, NEW y \in Sessions, OpenSession(h, y)
  PROVE  /\ server'[y].open /\ ~server'[y].domain /\ server'[y].objects = {} /\ server'[y].size \in Sizes
         /\ \A x \in Sessions \ {y} : server'[x] = server[x]
<1>1. PICK size \in Sizes :
        server' = [server EXCEPT ![y] = [open |-> TRUE, domain |-> FALSE, objects |-> {}, size |-> size]]
  BY DEF OpenSession
<1> DEFINE v == [open |-> TRUE, domain |-> FALSE, objects |-> {}, size |-> size]
<1>2. v.open /\ ~v.domain /\ v.objects = {} /\ v.size = size
  OBVIOUS
<1> HIDE DEF v
<1>3. server' = [server EXCEPT ![y] = v]
  BY <1>1 DEF v
<1> QED BY <1>2, <1>3 DEF Typed

LEMMA OpenedKept ==
  ASSUME Typed, SizesStand, NEW h \in Handles, NEW y \in Sessions, OpenSession(h, y)
  PROVE  ServerKeeps /\ SizesStand'
<1>1. /\ \A s \in Slots : svc[s].of # y
      /\ table'[h] = y /\ \A g \in Handles : g # h => table'[g] = table[g]
      /\ \A g \in Handles : table[g] # y
  BY OpenedFacts
<1>2. /\ server'[y].open /\ ~server'[y].domain /\ server'[y].objects = {} /\ server'[y].size \in Sizes
      /\ \A x \in Sessions \ {y} : server'[x] = server[x]
  BY OpenedServer
<1>3. ServerKeeps
  BY <1>1, <1>2 DEF Typed, ServerKeeps, Serv
<1>4. ASSUME NEW g \in Handles, table'[g] # None PROVE server'[table'[g]].size \in Sizes
  <2>1. CASE g = h
    BY <1>1, <1>2, <2>1
  <2>2. CASE g # h
    <3>1. table'[g] = table[g] /\ table[g] \in Sessions \ {y}
      BY <1>1, <1>4, <2>2 DEF Typed
    <3> QED BY <1>2, <1>4, <3>1 DEF SizesStand
  <2> QED BY <2>1, <2>2
<1> QED BY <1>3, <1>4 DEF SizesStand

LEMMA BecomesKept ==
  ASSUME Typed, SizesStand, NEW s \in Slots, svc[s].of \in Sessions, NEW objects, Becomes(svc[s].of, objects)
  PROVE  ServerKeeps /\ SizesStand'
<1> DEFINE x == svc[s].of
<1>1. /\ table' = table /\ \A y \in Sessions \ {x} : server'[y] = server[y]
      /\ server'[x].open = server[x].open /\ server'[x].size = server[x].size /\ server'[x].domain = TRUE
  BY DEF Becomes
<1>2. ServerKeeps
  BY <1>1 DEF Typed, ServerKeeps, Serv
<1>3. ASSUME NEW g \in Handles, table[g] # None PROVE server'[table[g]].size \in Sizes
  <2>1. table[g] \in Sessions /\ server[table[g]].size \in Sizes
    BY <1>3 DEF Typed, SizesStand
  <2> QED BY <1>1, <2>1
<1> QED BY <1>1, <1>2, <1>3 DEF SizesStand

LEMMA StandsFewer ==
  ASSUME Stands
  PROVE  Fewer
  BY DEF Stands, Fewer

LEMMA EndsFewer ==
  ASSUME Typed, NEW x \in Sessions, Ends(x)
  PROVE  Fewer
<1> DEFINE v == [server[x] EXCEPT !.open = FALSE]
<1>1. v.open = FALSE /\ v.size = server[x].size /\ v.domain = server[x].domain /\ v.objects = server[x].objects
  BY DEF Typed, ServerRec
<1> HIDE DEF v
<1>2. table' = table /\ server'[x] = v /\ \A y \in Sessions \ {x} : server'[y] = server[y]
  BY DEF Ends, v
<1> QED BY <1>1, <1>2 DEF Fewer

LEMMA CloseFewer ==
  ASSUME Typed, NEW h \in Handles, h # None, table[h] \in Sessions, CloseHandle(h)
  PROVE  Fewer /\ ~server'[table[h]].open
<1>1. \A x \in Sessions : /\ server'[x] = IF x = table[h] THEN [server[x] EXCEPT !.open = FALSE] ELSE server[x]
                          /\ server[x] \in ServerRec
  BY DEF CloseHandle, Typed
<1>2. \A v \in ServerRec : /\ [v EXCEPT !.open = FALSE].open = FALSE /\ [v EXCEPT !.open = FALSE].size = v.size
                           /\ [v EXCEPT !.open = FALSE].domain = v.domain
                           /\ [v EXCEPT !.open = FALSE].objects = v.objects
  BY DEF ServerRec
<1>3. \A g \in Handles : table'[g] \in {None, table[g]}
  BY DEF CloseHandle
<1>4. ASSUME NEW x \in Sessions
      PROVE  /\ server'[x].size = server[x].size /\ server'[x].domain = server[x].domain
             /\ server'[x].objects = server[x].objects
             /\ x = table[h] => server'[x].open = FALSE
             /\ x # table[h] => server'[x].open = server[x].open
  <2>1. CASE x = table[h]
    <3>1. server'[x] = [server[x] EXCEPT !.open = FALSE] /\ server[x] \in ServerRec
      BY <1>1, <2>1
    <3> QED BY <1>2, <2>1, <3>1
  <2>2. CASE x # table[h]
    BY <1>1, <2>2
  <2> QED BY <2>1, <2>2
<1> QED BY <1>3, <1>4 DEF Fewer

LEMMA SendKept ==
  ASSUME JInv, NEW t \in Threads, Send(t)
  PROVE  ServerKeeps /\ SizesStand'
<1> DEFINE x == Subject(t).of
<1>0. Typed /\ SizesStand /\ call[t].slot \in Slots /\ x = svc[call[t].slot].of /\ x \in Sessions
  BY SubjectKnown DEF JInv, IInv, Send, At
<1> HIDE DEF x
<1>1. \/ NoReply(t, x) \/ RepliesPlainly(t, x) \/ BringsObject(t, x)
      \/ BringsHandle(t, x) \/ LosesObject(t, x)
  BY SendIs DEF x
<1>2. CASE NoReply(t, x) \/ RepliesPlainly(t, x)
  BY <1>0, <1>2, StandsFewer, EndsFewer, FewerKept DEF NoReply, RepliesPlainly
<1>3. CASE BringsObject(t, x) \/ LosesObject(t, x)
  BY <1>0, <1>3, BecomesKept DEF BringsObject, LosesObject
<1>4. CASE BringsHandle(t, x)
  BY <1>0, <1>4, OpenedKept DEF BringsHandle
<1> QED BY <1>1, <1>2, <1>3, <1>4

LEMMA EndFewer ==
  ASSUME JInv, NEW t \in Threads, EndOfDestructor(t)
  PROVE  Fewer
<1>0. Typed /\ Subject(t).session \in Handles /\ Subject(t).session # None /\ table[Subject(t).session] \in Sessions
  BY SubjectKnown DEF EndOfDestructor, At, JInv, IInv
<1> QED BY <1>0, CloseFewer, StandsFewer DEF EndOfDestructor, Stands

LEMMA ServerStep ==
  ASSUME JInv, [Next]_vars
  PROVE  ServerKeeps /\ SizesStand'
<1>0. Typed /\ SizesStand
  BY DEF JInv, IInv
<1>1. CASE UNCHANGED <<table, server>>
  BY <1>0, <1>1, StandsFewer, FewerKept DEF Stands
<1>2. ASSUME NEW t \in Threads, NEW s \in Slots, Connect(t, s) PROVE ServerKeeps /\ SizesStand'
  BY <1>0, <1>2, OpenedKept DEF Connect
<1>3. ASSUME NEW t \in Threads, SendAgain(t) PROVE ServerKeeps /\ SizesStand'
  BY <1>1, <1>3, SendAgainIs DEF Stands
<1>4. ASSUME NEW t \in Threads, EndOfDestructor(t) PROVE ServerKeeps /\ SizesStand'
  BY <1>0, <1>4, EndFewer, FewerKept
<1>5. ASSUME NEW x \in Sessions, ServerCloses(x) PROVE ServerKeeps /\ SizesStand'
  <2>1. Ends(x)
    BY <1>0, <1>5 DEF ServerCloses, Ends, Typed
  <2> QED BY <1>0, <2>1, EndsFewer, FewerKept
<1>6. ASSUME NEW t \in Threads,
             \/ \E s \in Slots : \/ Destroy(t, s) \/ InitializeLogger(t, s)
                                 \/ \E d \in Slots \ {s} : Move(t, s, d)
                                 \/ \E op \in {"plain", "get", "convert"} : Begin(t, s, op)
             \/ Construct(t) \/ WriteToTls(t) \/ ReadPointerBufferSize(t) \/ ReadFromTls(t) \/ Log(t)
             \/ \E n \in Lengths : AddInPointer(t, n) \/ AddInAutoselect(t, n)
      PROVE  ServerKeeps /\ SizesStand'
  <2>1. UNCHANGED <<table, server>>
    BY <1>6 DEF Destroy, InitializeLogger, Move, Begin, Construct, WriteToTls, ReadPointerBufferSize,
                ReadFromTls, Log, AddInPointer, AddInAutoselect
  <2> QED BY <1>1, <2>1
<1>7. CASE UNCHANGED vars
  BY <1>1, <1>7 DEF vars
<1> QED BY <1>2, <1>3, <1>4, <1>5, <1>6, <1>7, SendKept DEF Next

-----------------------------------------------------------------------------
(* What other threads know stays true. *)
LEMMA RequestKept ==
  ASSUME JInv, ServerKeeps, NEW u \in Threads, Keeps(u),
         Busy(u) => /\ svc'[call[u].slot].of = svc[call[u].slot].of
                    /\ svc[call[u].slot].ptr # Unknown => svc'[call[u].slot].ptr # Unknown
  PROVE  Asked(u)' /\ Answered(u)'
<1>0. Asked(u) /\ Answered(u) /\ Typed /\ Mail
  BY DEF JInv, Requests, IInv
<1>1. CASE call[u].step = "idle"
  <2>1. call'[u].step = "idle"
    BY <1>1 DEF Keeps
  <2> QED BY <2>1 DEF Asked, Answered, Busy, HasReply, Converted, Delivers
<1>2. CASE call[u].step # "idle"
  <2> DEFINE x == Subject(u).of
             y == table[tls[u].value]
  <2>1. /\ x # None /\ x \in Sessions /\ call[u].slot \in Slots /\ Subject(u) = svc[call[u].slot]
    BY <1>2, SubjectKnown
  <2>2. /\ call'[u] = call[u] /\ tls'[u] = tls[u] /\ Subject(u)'.object = Subject(u).object /\ Subject(u)'.of = x
        /\ Subject(u).ptr # Unknown => Subject(u)'.ptr # Unknown
    BY <1>2, <2>1 DEF Keeps, Busy, Subject
  <2>3. /\ server'[x].size = server[x].size /\ (server[x].domain => server'[x].domain)
        /\ server'[x].open => server[x].open
    BY <2>1 DEF ServerKeeps
  <2>4. Asked(u)'
    BY <1>0, <2>2, <2>3 DEF Asked, Busy
  <2>5. Delivers(u)' => Delivers(u)
    BY <2>2 DEF Delivers, HasReply
  <2>6. ASSUME Delivers(u) PROVE ~server'[table'[tls[u].value]].domain
    <3>1. table'[tls[u].value] = y
      BY <2>6 DEF Keeps
    <3>2. y # None /\ y \in Sessions /\ \A s \in Slots : svc[s].of # y
      BY <1>0, <2>6 DEF Mail, DeliveryFresh, ReplyTyped, Delivers, Typed
    <3>3. ~server[y].domain
      BY <1>0, <2>6 DEF Answered
    <3> QED BY <3>1, <3>2, <3>3 DEF ServerKeeps
  <2>7. Answered(u)'
    BY <1>0, <2>2, <2>3, <2>5, <2>6 DEF Answered, HasReply, Converted, Command, IsDomain
  <2> QED BY <2>4, <2>7
<1> QED BY <1>1, <1>2

LEMMA IdleRequest ==
  ASSUME NEW u \in Threads, call'[u].step = "idle"
  PROVE  Asked(u)' /\ Answered(u)'
  BY DEF Asked, Answered, Busy, HasReply, Converted, Delivers

LEMMA DomainKept ==
  ASSUME JInv, ServerKeeps, NEW s \in Slots,
         svc'[s].of = svc[s].of, svc'[s].object = svc[s].object,
         svc'[s].ptr = svc[s].ptr \/ (svc'[s].ptr # Unknown /\ svc'[s].ptr = server[svc[s].of].size),
         svc[s].of # None /\ svc[s].object = None /\ server'[svc[s].of].domain =>
           \/ server[svc[s].of].domain
           \/ \E t \in Threads : call'[t].slot = s /\ Converted(t)',
         \A u \in Threads : call[u].slot = s /\ Converted(u) => call'[u].slot = s /\ Converted(u)'
  PROVE  DomainOf(s)'
<1>1. DomainOf(s)
  BY DEF JInv, Domains
<1>2. ASSUME svc[s].of # None
      PROVE  /\ server'[svc[s].of].size = server[svc[s].of].size
             /\ server[svc[s].of].domain => server'[svc[s].of].domain
  BY <1>2 DEF ServerKeeps
<1> QED BY <1>1, <1>2 DEF DomainOf

(* Steps that leave Services as they are, but for the pointer buffer. *)
Books == Shapes /\ Alone /\ Domains /\ Requests

LEMMA QuietBooks ==
  ASSUME JInv, ServerKeeps, NEW t \in Threads, Quiet(t),
         \A u \in Threads \ {t} : call'[u] = call[u] /\ tls'[u] = tls[u],
         \A s \in Slots : svc'[s].ptr = svc[s].ptr \/ (svc'[s].ptr # Unknown /\ svc'[s].ptr = server[svc[s].of].size),
         \A s \in Slots : svc[s].of # None /\ svc[s].object = None /\ server'[svc[s].of].domain =>
           server[svc[s].of].domain \/ (call'[t].slot = s /\ Converted(t)'),
         ~Converted(t), Asked(t)' /\ Answered(t)'
  PROVE  Books'
<1>0. Typed /\ Calls /\ Mail /\ IInv /\ Continues /\ (UNCHANGED table \/ Opened)
  BY QuietContinues DEF JInv, IInv
<1>1. \A u \in Threads \ {t} : Keeps(u)
  BY <1>0, ContinuesMail
<1>2. \A u \in Threads \ {t} : Asked(u)' /\ Answered(u)'
  <2>1. ASSUME NEW u \in Threads \ {t} PROVE Asked(u)' /\ Answered(u)'
    <3>1. Busy(u) => /\ svc'[call[u].slot].of = svc[call[u].slot].of
                     /\ svc[call[u].slot].ptr # Unknown => svc'[call[u].slot].ptr # Unknown
      BY <1>0 DEF Calls, SubjectsLive, Continues
    <3> QED BY <1>1, <3>1, RequestKept
  <2> QED BY <2>1
<1>3. Shapes' /\ Alone'
  BY <1>0 DEF JInv, Shapes, Alone, Continues
<1>4. ASSUME NEW s \in Slots PROVE DomainOf(s)'
  <2>1. svc'[s].of = svc[s].of /\ svc'[s].object = svc[s].object
    BY <1>0 DEF Continues
  <2>2. \A u \in Threads : call[u].slot = s /\ Converted(u) => call'[u].slot = s /\ Converted(u)'
    BY DEF Converted, HasReply
  <2> QED BY <2>1, <2>2, DomainKept
<1> QED BY <1>2, <1>3, <1>4 DEF Books, Domains, Requests

LEMMA SendBooks ==
  ASSUME JInv, NEW t \in Threads, Send(t)
  PROVE  Books'
<1> DEFINE x == Subject(t).of
           s == call[t].slot
<1>0. /\ ServerKeeps /\ Typed /\ x \in Sessions /\ x # None /\ s \in Slots /\ Subject(t) = svc[s]
      /\ call[t] \in CallRec /\ call[t].step = "written" /\ UNCHANGED svc /\ Busy(t) /\ Asked(t)
  BY SendKept, SubjectKnown DEF Send, At, JInv, IInv, Busy, Requests
<1>1. /\ Stepped(t, "sent", call[t].query, call[t].room, call[t].used, call'[t].sent)
      /\ \A u \in Threads \ {t} : tls'[u] = tls[u]
      /\ \/ NoReply(t, x) \/ RepliesPlainly(t, x) \/ BringsObject(t, x)
         \/ BringsHandle(t, x) \/ LosesObject(t, x)
  BY SendIs
<1>2. /\ call'[t].op = call[t].op /\ call'[t].slot = s /\ call'[t].query = call[t].query /\ call'[t].step = "sent"
      /\ \A u \in Threads \ {t} : call'[u] = call[u]
      /\ Subject(t)' = Subject(t) /\ Command(call'[t]) = Command(call[t])
  BY <1>0, <1>1 DEF Stepped, Subject, Command
<1>3. /\ ~Converted(t) /\ (server[x].domain <=> Subject(t).object # None)
  BY <1>0, DomainKnown DEF Converted, HasReply
<1>4. server'[x].size = server[x].size /\ (server[x].domain => server'[x].domain)
  BY <1>0 DEF ServerKeeps
<1>5. Asked(t)'
  BY <1>0, <1>2 DEF Asked, Busy
<1> HIDE DEF x, s
<1>6. ASSUME NoReply(t, x) PROVE Answered(t)' /\ \A o \in Slots : svc[o].of # None => server'[svc[o].of].domain = server[svc[o].of].domain
  <2>1. ~call'[t].sent /\ Fewer /\ ~server'[x].open
    BY <1>0, <1>6, EndsFewer DEF NoReply, Ends, Typed, ServerRec
  <2> QED BY <1>0, <1>2, <2>1 DEF Answered, HasReply, Converted, Delivers, Fewer, x, Typed, Serv
<1>7. ASSUME RepliesPlainly(t, x) PROVE Answered(t)' /\ \A o \in Slots : svc[o].of # None => server'[svc[o].of].domain = server[svc[o].of].domain
  <2>1. /\ call'[t].sent /\ tls'[t].kind = "reply" /\ tls'[t].command = Command(call[t])
        /\ tls'[t].domain = IsDomain(Subject(t)) /\ server' = server
        /\ tls'[t].ok => \/ Command(call[t]) = "plain"
                         \/ Command(call[t]) = "query" /\ tls'[t].value = server[x].size
    BY <1>7 DEF RepliesPlainly, Replies, Stands
  <2>2. ~Converted(t)' /\ ~Delivers(t)'
    BY <1>2, <2>1 DEF Converted, Delivers, HasReply, Command
  <2>3. HasReply(t)' /\ call'[t].query => tls'[t].value = server[x].size
    BY <1>2, <2>1 DEF HasReply, Command
  <2> QED BY <1>2, <1>4, <2>1, <2>2, <2>3 DEF Answered, x
<1>8. ASSUME BringsObject(t, x)
      PROVE  /\ Answered(t)'
             /\ \A o \in Slots : svc[o].of # None /\ svc[o].object = None /\ server'[svc[o].of].domain =>
                  server[svc[o].of].domain \/ (call'[t].slot = o /\ Converted(t)')
  <2>1. /\ call'[t].sent /\ tls'[t].kind = "reply" /\ tls'[t].command = Command(call[t])
        /\ tls'[t].domain = IsDomain(Subject(t)) /\ tls'[t].ok = TRUE
        /\ Command(call[t]) = "convert" \/ (Command(call[t]) \in {"get", "logger"} /\ server[x].domain)
        /\ server'[x].domain /\ \A y \in Sessions \ {x} : server'[y] = server[y]
    BY <1>8 DEF BringsObject, Replies, Becomes
  <2>2. ~Delivers(t)'
    BY <1>2, <1>3, <2>1 DEF Delivers, HasReply, Command
  <2>3. ~(HasReply(t)' /\ call'[t].query)
    BY <1>2, <2>1 DEF HasReply, Command
  <2>4. Answered(t)'
    BY <1>2, <2>1, <2>2, <2>3 DEF Answered, x
  <2>5. ASSUME NEW o \in Slots, svc[o].of # None, svc[o].object = None, server'[svc[o].of].domain, ~server[svc[o].of].domain
        PROVE  call'[t].slot = o /\ Converted(t)'
    <3>1. svc[o].of = x
      BY <1>0, <2>1, <2>5 DEF Typed, Serv
    <3>2. o = s
      BY <1>0, <2>5, <3>1 DEF JInv, Alone, x
    <3>3. Command(call[t]) = "convert"
      BY <2>1, <2>5, <3>1
    <3> QED BY <1>2, <2>1, <3>2, <3>3 DEF Converted, HasReply, Command
  <2> QED BY <2>4, <2>5
<1>9. ASSUME BringsHandle(t, x) PROVE Answered(t)' /\ \A o \in Slots : svc[o].of # None => server'[svc[o].of].domain = server[svc[o].of].domain
  <2>1. /\ call'[t].sent /\ tls'[t].kind = "reply" /\ tls'[t].command = Command(call[t])
        /\ tls'[t].domain = IsDomain(Subject(t)) /\ tls'[t].ok = TRUE
        /\ Command(call[t]) \in {"get", "logger"} /\ tls'[t].value \in Handles
    BY <1>9 DEF BringsHandle, Replies
  <2>2. PICK y \in Sessions : OpenSession(tls'[t].value, y)
    BY <1>9 DEF BringsHandle
  <2>3. table'[tls'[t].value] = y /\ ~server'[y].domain /\ \A z \in Sessions \ {y} : server'[z] = server[z]
    BY <1>0, <2>1, <2>2, OpenedFacts, OpenedServer
  <2>4. \A o \in Slots : svc[o].of # y
    BY <1>0, <2>1, <2>2, OpenedFacts
  <2>5. ~Converted(t)' /\ ~(HasReply(t)' /\ call'[t].query)
    BY <1>2, <2>1 DEF Converted, HasReply, Command
  <2>6. Answered(t)'
    BY <1>2, <2>1, <2>3, <2>5 DEF Answered, x
  <2> QED BY <1>0, <2>3, <2>4, <2>6 DEF Typed, Serv
<1>10. ASSUME LosesObject(t, x) PROVE Answered(t)' /\ \A o \in Slots : svc[o].of # None => server'[svc[o].of].domain = server[svc[o].of].domain
  <2>1. /\ call'[t].sent /\ tls'[t].kind = "reply" /\ tls'[t].command = Command(call[t])
        /\ tls'[t].domain = IsDomain(Subject(t)) /\ tls'[t].ok = TRUE
        /\ Command(call[t]) = "release" /\ Subject(t).object \in server[x].objects
        /\ server'[x].domain = TRUE /\ \A y \in Sessions \ {x} : server'[y] = server[y]
    BY <1>10 DEF LosesObject, Replies, Becomes
  <2>2. ~Delivers(t)' /\ ~Converted(t)' /\ ~(HasReply(t)' /\ call'[t].query)
    BY <1>2, <2>1 DEF Delivers, Converted, HasReply, Command
  <2>3. server[x].domain = TRUE
    <3>1. Subject(t).object # None
      BY <1>0, <2>1, ServiceAssumption DEF Typed, ServerRec
    <3> QED BY <1>0, <1>3, <3>1 DEF Typed, ServerRec
  <2>4. Answered(t)'
    BY <1>2, <2>1, <2>2 DEF Answered
  <2> QED BY <1>0, <2>1, <2>3, <2>4 DEF Typed, Serv
<1>11. /\ Answered(t)'
       /\ \A o \in Slots : svc[o].of # None /\ svc[o].object = None /\ server'[svc[o].of].domain =>
            server[svc[o].of].domain \/ (call'[t].slot = o /\ Converted(t)')
  BY <1>1, <1>6, <1>7, <1>8, <1>9, <1>10
<1> QED BY <1>0, <1>1, <1>2, <1>3, <1>5, <1>11, QuietBooks DEF Quiet

(* The other steps of a call that leave Services as they are. *)
LEMMA StepBooks ==
  ASSUME JInv, NEW t \in Threads, Quiet(t), ~Send(t)
  PROVE  Books'
<1>0. /\ IInv /\ Typed /\ Calls /\ Steps /\ Mail
  BY DEF JInv, IInv
<1>1. ServerKeeps
  BY ServerStep DEF Quiet, Next
<1>2. CASE Construct(t)
  <2> DEFINE s == call[t].slot
             x == Subject(t).of
  <2>0. /\ s \in Slots /\ Subject(t) = svc[s] /\ svc[s] \in Serv /\ x # None /\ call[t] \in CallRec /\ call[t].step = "new"
        /\ UNCHANGED <<svc, server>> /\ DomainOf(s) /\ ~call[t].query /\ call[t].used = 0 /\ Busy(t) /\ Asked(t)
    BY <1>0, <1>2, SubjectKnown DEF Construct, At, JInv, Domains, Requests, Steps, Busy
  <2>1. \/ /\ Stepped(t, "built", call[t].query, Subject(t).ptr, call[t].used, call[t].sent) /\ UNCHANGED tls
        \/ /\ Stepped(t, "written", TRUE, call[t].room, call[t].used, call[t].sent)
           /\ tls' = [tls EXCEPT ![t] = Message(call'[t], Subject(t))]
    BY <1>0, <1>2, <2>0, ConstructDoes
  <2>2. \A u \in Threads \ {t} : call'[u] = call[u] /\ tls'[u] = tls[u]
    BY <1>0, <2>1 DEF Stepped, Typed
  <2>3. Subject(t)' = Subject(t) /\ call'[t].step \in {"built", "written"} /\ call'[t].op = call[t].op
    BY <2>0, <2>1 DEF Stepped, Subject
  <2>4. ~Converted(t) /\ Answered(t)'
    BY <2>0, <2>3 DEF Converted, Delivers, HasReply, Answered
  <2>5. Subject(t).ptr # Unknown => Subject(t).ptr = server[x].size
    BY <2>0 DEF DomainOf
  <2>6. server[x].size \in Nat
    <3>1. server[x].size \in Sizes \union {0}
      BY <1>0, <2>0 DEF Typed, Serv, ServerRec
    <3> QED BY <3>1, SizesAreSmall
  <2>7. Asked(t)'
    <3>1. CASE call'[t].query = FALSE /\ call'[t].step = "built" /\ Subject(t).ptr # Unknown
               /\ call'[t].room = Subject(t).ptr /\ call'[t].used = 0
      BY <2>0, <2>3, <2>5, <2>6, <3>1 DEF Asked, Busy
    <3>2. CASE call'[t].query /\ call'[t].step = "written" /\ Subject(t).ptr = Unknown
      <4>1. Subject(t).object = None
        BY <2>0, <3>2 DEF DomainOf
      <4> QED BY <2>0, <2>3, <3>2, <4>1 DEF Asked, Busy
    <3>3. Subject(t).ptr # Unknown => call'[t].step = "built"
      BY <1>0, <1>2 DEF Construct, Typed, CallRec
    <3>4. Subject(t).ptr = Unknown => call'[t].step = "written"
      BY <1>0, <1>2, ZenonT(60) DEF Construct, Typed, CallRec
    <3> QED BY <2>0, <2>1, <3>1, <3>2, <3>3, <3>4 DEF Stepped, CallRec
  <2> QED BY <1>1, <2>0, <2>2, <2>4, <2>7, QuietBooks
<1>3. CASE WriteToTls(t)
  <2>0. Subject(t).of # None /\ Asked(t) /\ Busy(t) /\ call[t].step = "built" /\ UNCHANGED <<svc, server>> /\ call[t] \in CallRec
    BY <1>3, SubjectKnown DEF WriteToTls, At, Busy, JInv, Requests
  <2>1. /\ Stepped(t, "written", call[t].query, call[t].room, call[t].used, call[t].sent)
        /\ tls' = [tls EXCEPT ![t] = Message(call[t], Subject(t))]
    BY <1>0, <1>3, WriteDoes
  <2>2. /\ \A u \in Threads \ {t} : call'[u] = call[u] /\ tls'[u] = tls[u]
        /\ Subject(t)' = Subject(t)
    BY <1>0, <2>0, <2>1 DEF Stepped, Typed, Subject
  <2>3. Asked(t)' /\ Answered(t)' /\ ~Converted(t)
    BY <2>0, <2>1, <2>2 DEF Stepped, Asked, Answered, Busy, Converted, Delivers, HasReply
  <2> QED BY <1>1, <2>0, <2>2, <2>3, QuietBooks
<1>4. CASE \E n \in Lengths : AddInPointer(t, n) \/ AddInAutoselect(t, n)
  <2>1. PICK n \in Lengths : AddInPointer(t, n) \/ AddInAutoselect(t, n)
    BY <1>4
  <2>2. /\ Stepped(t, "built", call[t].query, call[t].room - n, call[t].used + n, call[t].sent)
        /\ call[t].step = "built" /\ UNCHANGED <<svc, tls, server>> /\ n \in 0 .. call[t].room
    BY <1>0, <2>1, AddDoes
  <2>3. /\ Asked(t) /\ Busy(t) /\ call[t].room \in 0 .. Unknown /\ call[t].used \in 0 .. Unknown
        /\ \A u \in Threads \ {t} : call'[u] = call[u] /\ Subject(t)' = Subject(t)
    BY <1>0, <2>2 DEF Busy, JInv, Requests, Typed, CallRec, Stepped, Subject
  <2>4. call[t].used + n + (call[t].room - n) = call[t].used + call[t].room
    BY <2>2, <2>3, ServiceAssumption
  <2>5. Subject(t)' = Subject(t)
    BY <2>2 DEF Stepped, Subject
  <2>6. Asked(t)' /\ Answered(t)' /\ ~Converted(t)
    BY <2>2, <2>3, <2>4, <2>5 DEF Stepped, Asked, Answered, Busy, Converted, Delivers, HasReply
  <2> QED BY <1>1, <2>2, <2>3, <2>6, QuietBooks
<1>5. CASE SendAgain(t)
  <2>1. /\ call[t].step = "sent" /\ ~call[t].query /\ call[t].op = "release"
        /\ Stepped(t, "again", FALSE, call[t].room, call[t].used, call'[t].sent)
        /\ \A u \in Threads \ {t} : tls'[u] = tls[u]
        /\ server' = server /\ UNCHANGED svc
    BY <1>5, SendAgainIs DEF Stands
  <2>2. Asked(t) /\ Busy(t) /\ Subject(t)' = Subject(t)
    BY <2>1 DEF Busy, JInv, Requests, Stepped, Subject
  <2>3. Asked(t)' /\ Answered(t)' /\ ~Converted(t)
    BY <2>1, <2>2 DEF Stepped, Asked, Answered, Busy, Converted, Delivers, HasReply
  <2> QED BY <1>1, <2>1, <2>2, <2>3, QuietBooks DEF Stepped
<1>6. CASE ReadPointerBufferSize(t)
  <2> DEFINE s == call[t].slot
  <2>0. /\ s \in Slots /\ Subject(t) = svc[s] /\ Subject(t).of # None /\ Asked(t) /\ Answered(t) /\ Busy(t)
        /\ call[t].step = "sent" /\ call[t].query /\ UNCHANGED <<tls, server, table>>
        /\ table[svc[s].session] = svc[s].of /\ svc[s].session \in Handles
    BY <1>6, SubjectKnown DEF ReadPointerBufferSize, At, JInv, Requests, Busy
  <2>1. \/ /\ HasReply(t) /\ svc' = [svc EXCEPT ![s].ptr = tls[t].value]
           /\ Stepped(t, "new", FALSE, call[t].room, call[t].used, call[t].sent)
        \/ UNCHANGED <<svc, call>>
    BY <1>0, <1>6, QueryDoes
  <2>2. CASE UNCHANGED <<svc, call>>
    <3>1. Asked(t)' /\ Answered(t)' /\ ~Converted(t)
      BY <2>0, <2>2 DEF Asked, Answered, Busy, Converted, Delivers, HasReply, Subject, IsDomain, Command
    <3> QED BY <1>1, <2>0, <2>2, <3>1, QuietBooks
  <2>3. CASE /\ HasReply(t) /\ svc' = [svc EXCEPT ![s].ptr = tls[t].value]
             /\ Stepped(t, "new", FALSE, call[t].room, call[t].used, call[t].sent)
    <3>1. tls[t].value = server[svc[s].of].size /\ tls[t].value # Unknown
      <4>1. tls[t].value = server[svc[s].of].size
        BY <2>0, <2>3 DEF Answered
      <4>2. server[svc[s].of].size \in Sizes
        BY <2>0 DEF JInv, SizesStand
      <4> QED BY <4>1, <4>2, SizesAreSmall
    <3>2. /\ svc'[s].ptr = tls[t].value /\ svc'[s].object = svc[s].object /\ svc'[s].of = svc[s].of
          /\ \A o \in Slots \ {s} : svc'[o] = svc[o]
      BY <1>0, <2>0, <2>3 DEF Typed, Serv
    <3>3. \A o \in Slots : svc'[o].ptr = svc[o].ptr \/ (svc'[o].ptr # Unknown /\ svc'[o].ptr = server[svc[o].of].size)
      BY <3>1, <3>2
    <3>4. Subject(t)'.object = Subject(t).object /\ Subject(t)'.of = Subject(t).of
      BY <2>0, <2>3, <3>2 DEF Stepped, Subject
    <3>5. Asked(t)' /\ Answered(t)' /\ ~Converted(t)
      BY <2>0, <2>3, <3>4 DEF Stepped, Asked, Answered, Busy, Converted, Delivers, HasReply
    <3> QED BY <1>1, <2>0, <2>3, <3>3, <3>5, QuietBooks DEF Stepped
  <2> QED BY <2>1, <2>2, <2>3
<1>7. CASE Log(t)
  <2>0. /\ call[t].step \in {"idle", "built"} /\ UNCHANGED <<svc, server, call>> /\ Asked(t)
        /\ \A u \in Threads \ {t} : tls'[u] = tls[u]
    BY <1>0, <1>7 DEF Log, At, JInv, Requests, Typed
  <2>1. Asked(t)' /\ Answered(t)' /\ ~Converted(t)
    BY <2>0 DEF Asked, Answered, Busy, Converted, Delivers, HasReply, Subject
  <2> QED BY <1>1, <2>0, <2>1, QuietBooks
<1> QED BY <1>2, <1>3, <1>4, <1>5, <1>6, <1>7 DEF Quiet

(* A call begins. *)
LEMMA BeginBooks ==
  ASSUME JInv, NEW t \in Threads, NEW s \in Slots, NEW op \in {"plain", "get", "logger", "convert", "release"},
         call[t].step = "idle", call' = [call EXCEPT ![t] = Doing(op, s)], UNCHANGED <<svc, tls, table, server>>,
         svc[s].session # None, op = "convert" => svc[s].object = None
  PROVE  Books'
<1>0. IInv /\ Typed /\ svc[s].of # None
  BY DEF JInv, IInv, Owners, HandlesStand
<1>1. /\ call'[t].op = op /\ call'[t].slot = s /\ call'[t].step = "new" /\ ~call'[t].query
      /\ \A u \in Threads \ {t} : call'[u] = call[u]
  BY <1>0, DoingIs
<1>2. \A u \in Threads \ {t} : Keeps(u)
  BY <1>0, BeginKept
<1>3. ServerKeeps
  BY DEF ServerKeeps
<1>4. \A u \in Threads \ {t} : Asked(u)' /\ Answered(u)'
  BY <1>2, <1>3, RequestKept
<1>5. Asked(t)' /\ Answered(t)'
  BY <1>0, <1>1 DEF Asked, Answered, Busy, Subject, HasReply, Converted, Delivers
<1>6. ASSUME NEW o \in Slots PROVE DomainOf(o)'
  <2>1. \A u \in Threads : call[u].slot = o /\ Converted(u) => call'[u].slot = o /\ Converted(u)'
    BY <1>1 DEF Converted, HasReply
  <2> QED BY <1>3, <2>1, DomainKept
<1>7. Shapes' /\ Alone'
  BY DEF JInv, Shapes, Alone
<1> QED BY <1>4, <1>5, <1>6, <1>7 DEF Books, Domains, Requests

LEMMA ConnectBooks ==
  ASSUME JInv, NEW t \in Threads, NEW s \in Slots, Connect(t, s)
  PROVE  Books'
<1>0. IInv /\ Typed /\ Calls /\ ~svc[s].live /\ UNCHANGED <<call, tls>> /\ ServerKeeps
  <2>1. ServerKeeps
    BY ServerStep DEF Next
  <2> QED BY <2>1 DEF JInv, IInv, Connect
<1>1. PICK h \in Handles, x \in Sessions : OpenSession(h, x) /\ svc' = [svc EXCEPT ![s] = OwnerOf(h)']
  BY DEF Connect
<1>2. /\ table[h] = None /\ table'[h] = x /\ x # None /\ \A o \in Slots : svc[o].of # x
      /\ ~server'[x].domain /\ \A y \in Sessions \ {x} : server'[y] = server[y]
  BY <1>0, <1>1, OpenedFacts, OpenedServer
<1> DEFINE v == OwnerOf(h)'
<1>3. v.session = h /\ v.object = None /\ v.of = x /\ v.ptr = Unknown /\ v.live = TRUE /\ h # None
  BY <1>2, ServiceAssumption DEF OwnerOf, Holder
<1> HIDE DEF v
<1>4. svc'[s] = v /\ \A o \in Slots \ {s} : svc'[o] = svc[o]
  BY <1>0, <1>1 DEF Typed, v
<1>5. \A u \in Threads : Busy(u) => call[u].slot \in Slots \ {s}
  BY <1>0 DEF Calls, SubjectsLive, Subject
<1>6. Requests'
  <2>1. ASSUME NEW u \in Threads PROVE Asked(u)' /\ Answered(u)'
    <3>1. Keeps(u)
      BY <1>0, ConnectKept
    <3> QED BY <1>0, <1>4, <1>5, <3>1, RequestKept
  <2> QED BY <2>1 DEF Requests
<1>7. ASSUME NEW o \in Slots PROVE DomainOf(o)'
  <2>1. CASE o = s
    BY <1>2, <1>3, <1>4, <2>1 DEF DomainOf
  <2>2. CASE o # s
    <3>1. svc'[o] = svc[o] /\ (svc[o].of # None => server'[svc[o].of] = server[svc[o].of])
      BY <1>0, <1>2, <1>4, <2>2 DEF Typed, Serv
    <3>2. \A u \in Threads : call[u].slot = o /\ Converted(u) => call'[u].slot = o /\ Converted(u)'
      BY <1>0 DEF Converted, HasReply
    <3> QED BY <1>0, <3>1, <3>2, DomainKept
  <2> QED BY <2>1, <2>2
<1>8. Shapes' /\ Alone'
  BY <1>2, <1>3, <1>4 DEF JInv, Shapes, Alone
<1> QED BY <1>6, <1>7, <1>8 DEF Books, Domains

LEMMA MoveBooks ==
  ASSUME JInv, NEW t \in Threads, NEW s \in Slots, NEW d \in Slots \ {s}, Move(t, s, d)
  PROVE  Books'
<1>0. IInv /\ Typed /\ Calls /\ ~svc[d].live /\ Free(s) /\ UNCHANGED <<call, tls, table, server>> /\ svc[d].of = None
  BY UsersFacts DEF JInv, IInv, Move, Shapes
<1>1. MovedFrom(svc[s]).of = None /\ MovedFrom(svc[s]).object = None
  BY <1>0 DEF MovedFrom, Typed, Serv
<1>2. /\ svc'[s].of = None /\ svc'[s].object = None /\ svc'[d] = svc[s]
      /\ \A o \in Slots \ {s, d} : svc'[o] = svc[o]
  BY <1>0, <1>1 DEF Move, Typed
<1>3. \A u \in Threads : Busy(u) => call[u].slot \in Slots \ {s, d}
  BY <1>0 DEF Calls, SubjectsLive, Subject, Free
<1>4. ServerKeeps
  BY <1>0 DEF ServerKeeps
<1>5. Requests'
  <2>1. ASSUME NEW u \in Threads PROVE Asked(u)' /\ Answered(u)'
    <3>1. Keeps(u)
      BY <1>0, MoveKept
    <3> QED BY <1>2, <1>3, <1>4, <3>1, RequestKept
  <2> QED BY <2>1 DEF Requests
<1>6. ASSUME NEW o \in Slots PROVE DomainOf(o)'
  <2>1. CASE o = s
    BY <1>2, <2>1 DEF DomainOf
  <2>2. CASE o = d
    <3>1. DomainOf(s)
      BY DEF JInv, Domains
    <3>2. \A u \in Threads : ~(call[u].slot = s /\ Converted(u))
      BY <1>3 DEF Converted, HasReply, Busy
    <3> QED BY <1>0, <1>2, <2>2, <3>1, <3>2 DEF DomainOf
  <2>3. CASE o \notin {s, d}
    <3>1. \A u \in Threads : call[u].slot = o /\ Converted(u) => call'[u].slot = o /\ Converted(u)'
      BY <1>0 DEF Converted, HasReply
    <3> QED BY <1>0, <1>2, <1>4, <2>3, <3>1, DomainKept
  <2> QED BY <2>1, <2>2, <2>3
<1>7. svc[s].live /\ svc'[s].live = svc[s].live
  <2>1. svc[s] \in Serv /\ svc[s].live
    BY <1>0 DEF Typed, Move
  <2>2. MovedFrom(svc[s]).live = svc[s].live
    BY <2>1 DEF MovedFrom, Serv
  <2> QED BY <1>0, <2>1, <2>2 DEF Move, Typed
<1>8. Shapes'
  BY <1>2, <1>7 DEF JInv, Shapes
<1>9. Alone'
  BY <1>0, <1>2 DEF JInv, Alone
<1> QED BY <1>5, <1>6, <1>8, <1>9 DEF Books, Domains

(* A Service goes, which nobody uses but perhaps the thread t that ends. *)
LEMMA GoneBooks ==
  ASSUME JInv, ServerKeeps, NEW s \in Slots, svc' = [svc EXCEPT ![s] = Gone],
         \A x \in Sessions : server'[x].domain = server[x].domain,
         \A u \in Threads : call'[u].step = "idle" \/ (Keeps(u) /\ (Busy(u) => call[u].slot # s)),
         \A u \in Threads : Converted(u) => Keeps(u)
  PROVE  Books'
<1>0. Typed /\ Calls
  BY DEF JInv, IInv
<1>1. /\ svc'[s].of = None /\ svc'[s].object = None
      /\ \A o \in Slots \ {s} : svc'[o] = svc[o]
  BY <1>0, GoneIs DEF Typed
<1>2. Requests'
  <2>1. ASSUME NEW u \in Threads PROVE Asked(u)' /\ Answered(u)'
    <3>1. CASE call'[u].step = "idle"
      BY <3>1, IdleRequest
    <3>2. CASE Keeps(u) /\ (Busy(u) => call[u].slot # s)
      BY <1>0, <1>1, <3>2, RequestKept DEF Calls, SubjectsLive
    <3> QED BY <3>1, <3>2
  <2> QED BY <2>1 DEF Requests
<1>3. ASSUME NEW o \in Slots PROVE DomainOf(o)'
  <2>1. CASE o = s
    BY <1>1, <2>1 DEF DomainOf
  <2>2. CASE o # s
    <3>1. \A u \in Threads : call[u].slot = o /\ Converted(u) => call'[u].slot = o /\ Converted(u)'
      BY DEF Converted, HasReply, Keeps
    <3>2. svc'[o] = svc[o] /\ (svc[o].of # None => server'[svc[o].of].domain = server[svc[o].of].domain)
      BY <1>0, <1>1, <2>2 DEF Typed, Serv
    <3> QED BY <3>1, <3>2, DomainKept
  <2> QED BY <2>1, <2>2
<1>4. Shapes' /\ Alone'
  BY <1>1 DEF JInv, Shapes, Alone
<1> QED BY <1>2, <1>3, <1>4 DEF Books, Domains

LEMMA DestroyBooks ==
  ASSUME JInv, NEW t \in Threads, NEW s \in Slots, Destroy(t, s)
  PROVE  Books'
<1>0. IInv /\ Typed /\ Calls /\ Owners /\ Free(s) /\ UNCHANGED <<tls, table, server>> /\ call[t].step = "idle"
  BY UsersFacts DEF JInv, IInv, Destroy, Idle
<1>1. CASE call' = [call EXCEPT ![t] = Doing("release", s)] /\ UNCHANGED svc /\ (svc[s].owned \/ IsDomain(svc[s]))
  <2>1. svc[s].session # None
    BY <1>0, <1>1 DEF JInv, Shapes, Owners, OwnersHold, IsDomain
  <2> QED BY <1>0, <1>1, <2>1, BeginBooks
<1>2. CASE svc' = [svc EXCEPT ![s] = Gone] /\ UNCHANGED call
  <2>1. \A u \in Threads : Keeps(u)
    BY <1>0, <1>2, DestroyKept
  <2>2. ServerKeeps
    BY <1>0 DEF ServerKeeps
  <2> QED BY <1>0, <1>2, <2>1, <2>2, GoneBooks DEF Free
<1> QED BY <1>1, <1>2 DEF Destroy

LEMMA EndBooks ==
  ASSUME JInv, NEW t \in Threads, EndOfDestructor(t)
  PROVE  Books'
<1> DEFINE s == call[t].slot
<1>0. /\ IInv /\ Typed /\ Calls /\ Busy(t) /\ call[t].op = "release" /\ s \in Slots /\ call[t].step = "again"
      /\ svc' = [svc EXCEPT ![s] = Gone]
  BY SubjectKnown DEF JInv, IInv, EndOfDestructor, At, Busy, Steps
<1>1. ServerKeeps /\ \A x \in Sessions : server'[x].domain = server[x].domain
  BY <1>0, ServerStep, EndFewer DEF Next, Fewer
<1>2. call'[t].step = "idle"
  BY <1>0, ReturnDoes DEF EndOfDestructor
<1>3. \A u \in Threads \ {t} : Keeps(u)
  BY <1>0, EndKept
<1>4. \A u \in Threads \ {t} : Busy(u) => call[u].slot # s
  BY <1>0 DEF Calls, ChangersAreAlone
<1>5. ~Converted(t)
  BY <1>0 DEF Converted
<1> HIDE DEF s
<1> QED BY <1>0, <1>1, <1>2, <1>3, <1>4, <1>5, GoneBooks

LEMMA ReadBooks ==
  ASSUME JInv, NEW t \in Threads, ReadFromTls(t)
  PROVE  Books'
<1> DEFINE s == call[t].slot
           value == tls[t].value
<1>0. /\ IInv /\ Typed /\ Calls /\ Owners /\ Mail /\ Busy(t) /\ s \in Slots /\ Subject(t) = svc[s] /\ svc[s] \in Serv
      /\ svc[s].of # None /\ svc[s].session # None /\ svc[s].live /\ call[t].step = "sent" /\ ~call[t].query
      /\ Asked(t) /\ Answered(t)
      /\ UNCHANGED <<table, server>>
  BY SubjectKnown DEF JInv, IInv, ReadFromTls, At, Busy, Requests
<1>1. call'[t].step = "idle" /\ \A u \in Threads \ {t} : call'[u] = call[u] /\ tls'[u] = tls[u]
  BY <1>0, ReturnDoes DEF ReadFromTls
<1>2. (\A u \in Threads \ {t} : Keeps(u)) /\ ServerKeeps
  BY <1>0, ReadKept DEF ServerKeeps
<1>3. ASSUME \A u \in Threads \ {t} : Busy(u) => /\ svc'[call[u].slot].of = svc[call[u].slot].of
                                                /\ svc'[call[u].slot].ptr = svc[call[u].slot].ptr
      PROVE  Requests'
  <2>1. ASSUME NEW u \in Threads \ {t} PROVE Asked(u)' /\ Answered(u)'
    BY <1>2, <1>3, RequestKept
  <2> QED BY <1>1, <2>1, IdleRequest DEF Requests
<1>4. ASSUME NEW o \in Slots, svc'[o] = svc[o], ~(o = s /\ Converted(t)) PROVE DomainOf(o)'
  <2>1. \A u \in Threads : call[u].slot = o /\ Converted(u) => call'[u].slot = o /\ Converted(u)'
    BY <1>1, <1>4 DEF Converted, HasReply
  <2> QED BY <1>0, <1>2, <1>4, <2>1, DomainKept
<1>5. ASSUME HasReply(t), call[t].op = "convert", svc' = [svc EXCEPT ![s].object = value]
      PROVE  Books'
  <2>1. /\ svc'[s].session = svc[s].session /\ svc'[s].of = svc[s].of /\ svc'[s].live = svc[s].live
        /\ svc'[s].ptr = svc[s].ptr /\ svc'[s].object = value /\ \A o \in Slots \ {s} : svc'[o] = svc[o]
    BY <1>0, <1>5 DEF Typed, Serv
  <2>2. value \in Ids /\ value # None
    BY <1>0, <1>5, ServiceAssumption DEF Mail, ReplyTyped
  <2>3. Requests'
    BY <1>0, <1>3, <2>1 DEF Calls, SubjectsLive
  <2>4. ASSUME NEW o \in Slots, o = s PROVE DomainOf(o)'
    <3>1. svc[s].ptr # Unknown /\ server[svc[s].of].domain
      BY <1>0, <1>5 DEF Asked, Answered, Converted
    <3>2. svc[s].ptr = server[svc[s].of].size
      BY <1>0, <3>1 DEF JInv, Domains, DomainOf
    <3> QED BY <1>0, <2>1, <2>2, <2>4, <3>1, <3>2 DEF DomainOf
  <2>5. Domains'
    BY <1>4, <2>1, <2>4 DEF Domains
  <2>6. Shapes'
    BY <1>0, <2>1 DEF JInv, Shapes
  <2>7. \A o \in Slots : svc'[o].of = svc[o].of /\ (svc'[o].object = None => svc[o].object = None)
    BY <2>1, <2>2
  <2>8. Alone'
    BY <2>7 DEF JInv, Alone
  <2> QED BY <2>3, <2>5, <2>6, <2>8 DEF Books
<1>6. ASSUME HasReply(t), call[t].op = "get",
             NEW d \in Slots, ~svc[d].live, svc' = [svc EXCEPT ![d] = NextSubservice(svc[s], value)]
      PROVE  Books'
  <2> DEFINE v == NextSubservice(svc[s], value)
  <2>1. svc'[d] = v /\ \A o \in Slots \ {d} : svc'[o] = svc[o]
    BY <1>0, <1>6 DEF Typed
  <2>2. Requests'
    BY <1>0, <1>3, <1>6, <2>1 DEF Calls, SubjectsLive, Subject
  <2>3. ~Converted(t) /\ (server[svc[s].of].domain <=> svc[s].object # None)
    BY <1>0, <1>6, DomainKnown DEF Converted
  <2>4. DomainOf(s)
    BY <1>0 DEF JInv, Domains
  <2>5. /\ v.session # None /\ v.of # None /\ v.live /\ DomainOf(d)'
        /\ \/ v.of = svc[s].of /\ v.object # None /\ svc[s].object # None
           \/ \A o \in Slots : svc[o].of # v.of
    <3>1. CASE svc[s].object # None
      <4>1. v = Holder(svc[s].session, value, FALSE, svc[s].ptr, svc[s].of, FALSE)
        BY <3>1 DEF NextSubservice, IsDomain, DomainSubservice
      <4>2. /\ v.session = svc[s].session /\ v.object = value /\ v.ptr = svc[s].ptr /\ v.of = svc[s].of
            /\ v.live = TRUE
        BY <4>1 DEF Holder
      <4>3. value \in Ids /\ value # None
        BY <1>0, <1>6, <3>1, ServiceAssumption DEF Mail, ReplyTyped
      <4>4. DomainOf(d)'
        BY <1>0, <2>1, <2>3, <2>4, <3>1, <4>2, <4>3 DEF DomainOf
      <4> QED BY <1>0, <3>1, <4>2, <4>3, <4>4
    <3>2. CASE svc[s].object = None
      <4>1. v = Holder(value, None, FALSE, Unknown, table[value], TRUE)
        BY <3>2 DEF NextSubservice, IsDomain, FromHandle
      <4>2. /\ v.session = value /\ v.object = None /\ v.ptr = Unknown /\ v.of = table[value]
            /\ v.live = TRUE
        BY <4>1 DEF Holder
      <4>3. Delivers(t) /\ DeliveryFresh(t) /\ value \in Handles /\ value # None
        BY <1>0, <1>6, <3>2, ServiceAssumption DEF Mail, Delivers, ReplyTyped
      <4>4. table[value] # None /\ (\A o \in Slots : svc[o].of # table[value]) /\ ~server[table[value]].domain
        BY <1>0, <4>3 DEF DeliveryFresh, Answered
      <4>5. DomainOf(d)'
        BY <1>0, <2>1, <4>2, <4>4 DEF DomainOf
      <4> QED BY <4>2, <4>3, <4>4, <4>5
    <3> QED BY <3>1, <3>2
  <2> HIDE DEF v
  <2>6. Domains'
    BY <1>4, <2>1, <2>3, <2>5 DEF Domains
  <2>7. Shapes'
    BY <2>1, <2>5 DEF JInv, Shapes
  <2>8. svc[d].of = None
    BY <1>6 DEF JInv, Shapes
  <2>9. Alone'
    BY <1>0, <2>1, <2>5, <2>8 DEF JInv, Alone
  <2> QED BY <2>2, <2>6, <2>7, <2>9 DEF Books
<1>7. CASE UNCHANGED svc /\ ~Converted(t)
  <2>1. Requests'
    BY <1>3, <1>7
  <2>2. Domains'
    BY <1>4, <1>7 DEF Domains
  <2>3. Shapes' /\ Alone'
    BY <1>7 DEF JInv, Shapes, Alone
  <2> QED BY <2>1, <2>2, <2>3 DEF Books
<1>8. \/ HasReply(t) /\ call[t].op = "convert" /\ svc' = [svc EXCEPT ![s].object = value]
      \/ /\ HasReply(t) /\ call[t].op = "get"
         /\ \E d \in Slots : ~svc[d].live /\ svc' = [svc EXCEPT ![d] = NextSubservice(svc[s], value)]
      \/ UNCHANGED svc /\ ~Converted(t)
  BY <1>0 DEF ReadFromTls, HasReply, Converted
<1> QED BY <1>5, <1>6, <1>7, <1>8

LEMMA BooksStep ==
  ASSUME JInv, [Next]_vars
  PROVE  Books' /\ SizesStand'
<1>0. IInv /\ Typed /\ Calls /\ ServerKeeps /\ SizesStand'
  BY ServerStep DEF JInv, IInv
<1>1. ASSUME NEW t \in Threads, Quiet(t) PROVE Books'
  BY <1>1, SendBooks, StepBooks
<1>2. ASSUME NEW t \in Threads, NEW s \in Slots, InitializeLogger(t, s) PROVE Books'
  BY <1>2, BeginBooks DEF InitializeLogger, Usable, Idle
<1>3. ASSUME NEW t \in Threads, NEW s \in Slots, NEW op \in {"plain", "get", "convert"}, Begin(t, s, op) PROVE Books'
  BY <1>3, BeginBooks DEF Begin, Usable, Idle, IsDomain
<1>4. CASE UNCHANGED <<svc, call, tls, table>> /\ \A x \in Sessions : server'[x].domain = server[x].domain
  <2>1. ASSUME NEW u \in Threads PROVE Keeps(u)
    BY <1>0, <1>4, KeepsIfSessionsStand DEF IInv
  <2>2. Requests'
    BY <1>0, <1>4, <2>1, RequestKept DEF Requests
  <2>3. ASSUME NEW o \in Slots PROVE DomainOf(o)'
    <3>1. \A u \in Threads : call[u].slot = o /\ Converted(u) => call'[u].slot = o /\ Converted(u)'
      BY <1>4 DEF Converted, HasReply
    <3>2. svc[o].of # None => server'[svc[o].of].domain = server[svc[o].of].domain
      BY <1>0, <1>4 DEF Typed, Serv
    <3> QED BY <1>0, <1>4, <3>1, <3>2, DomainKept
  <2>4. Shapes' /\ Alone'
    BY <1>4 DEF JInv, Shapes, Alone
  <2> QED BY <1>0, <2>2, <2>3, <2>4 DEF Books, Domains
<1>5. ASSUME NEW x \in Sessions, ServerCloses(x) PROVE Books'
  <2>1. \A y \in Sessions : server'[y].domain = server[y].domain
    BY <1>0, <1>5 DEF ServerCloses, Typed, ServerRec
  <2> QED BY <1>4, <1>5, <2>1 DEF ServerCloses
<1>6. CASE UNCHANGED vars
  BY <1>4, <1>6 DEF vars
<1>7. ASSUME NEW t \in Threads, NEW s \in Slots,
             \/ Connect(t, s) \/ Destroy(t, s) \/ InitializeLogger(t, s)
             \/ \E d \in Slots \ {s} : Move(t, s, d)
             \/ \E op \in {"plain", "get", "convert"} : Begin(t, s, op)
      PROVE  Books'
  BY <1>2, <1>3, <1>7, ConnectBooks, DestroyBooks, MoveBooks
<1>8. ASSUME NEW t \in Threads, ReadFromTls(t) \/ EndOfDestructor(t) \/ Quiet(t)
      PROVE  Books'
  BY <1>1, <1>8, ReadBooks, EndBooks
<1>9. ASSUME Next PROVE Books'
  BY <1>5, <1>7, <1>8, <1>9 DEF Next, Quiet
<1> QED BY <1>0, <1>6, <1>9

-----------------------------------------------------------------------------
(* Objects and those who hold them. *)
Frees(u, s) ==
  call[u].slot = s /\ call[u].op = "release" /\ ~call[u].query /\ call[u].step \in {"sent", "again"}
Brings(u, x) ==
  /\ call[u].step = "sent" /\ call[u].sent /\ Command(call[u]) \in {"get", "convert", "logger"} /\ tls[u].ok
  /\ Subject(u).of = x /\ server[x].domain

LEMMA HolderIs ==
  ASSUME NEW x \in Sessions, NEW id \in Ids, NEW s \in Slots
  PROVE  /\ s \in Holders(x, id) <=> svc[s].of = x /\ svc[s].object = id /\ \A u \in Threads : ~Frees(u, s)
         /\ s \in Holders(x, id)' <=> (svc[s].of = x /\ svc[s].object = id /\ \A u \in Threads : ~Frees(u, s))'
  BY DEF Holders, Releasing, Users, Idle, Frees

LEMMA ArriverIs ==
  ASSUME NEW x \in Sessions, NEW id \in Ids, NEW u \in Threads
  PROVE  /\ u \in Arriving(x, id) <=> Brings(u, x) /\ tls[u].value = id
         /\ u \in Arriving(x, id)' <=> (Brings(u, x) /\ tls[u].value = id)'
  BY DEF Arriving, Brings

LEMMA HoldersAreSlots ==
  /\ \A x, id : Holders(x, id) \subseteq Slots /\ Arriving(x, id) \subseteq Threads
  /\ \A x, id : Holders(x, id)' \subseteq Slots /\ Arriving(x, id)' \subseteq Threads
  BY DEF Holders, Arriving

(* An object whose holders and bringers stay the same. *)
LEMMA HeldStands ==
  ASSUME NEW x \in Sessions, NEW id \in Ids, HeldOnce(x, id),
         id \in server'[x].objects <=> id \in server[x].objects,
         \A s \in Slots : s \in Holders(x, id)' <=> s \in Holders(x, id),
         \A u \in Threads : u \in Arriving(x, id)' <=> u \in Arriving(x, id)
  PROVE  HeldOnce(x, id)'
<1>1. Holders(x, id)' = Holders(x, id) /\ Arriving(x, id)' = Arriving(x, id)
  BY HoldersAreSlots, SMTT(30)
<1> QED BY <1>1 DEF HeldOnce

(* A Service, or a thread, that is to a session's objects what it was.     *)
SlotStands(s, x) ==
  \/ /\ svc'[s].of = svc[s].of /\ svc'[s].object = svc[s].object
     /\ \A u \in Threads : Frees(u, s)' <=> Frees(u, s)
  \/ /\ svc[s].of # x \/ svc[s].object = None \/ \E u \in Threads : Frees(u, s)
     /\ svc'[s].of # x \/ svc'[s].object = None
ThreadStands(u, x) ==
  \/ /\ call'[u] = call[u] /\ tls'[u] = tls[u] /\ server'[x].domain = server[x].domain
     /\ Busy(u) => svc'[call[u].slot].of = svc[call[u].slot].of
  \/ ~Brings(u, x) /\ ~Brings(u, x)'

LEMMA StandMembers ==
  ASSUME NEW x \in Sessions, NEW id \in Ids
  PROVE  /\ \A s \in Slots : SlotStands(s, x) => (s \in Holders(x, id)' <=> s \in Holders(x, id))
         /\ \A u \in Threads : ThreadStands(u, x) => (u \in Arriving(x, id)' <=> u \in Arriving(x, id))
<1>1. ASSUME NEW s \in Slots, SlotStands(s, x) PROVE s \in Holders(x, id)' <=> s \in Holders(x, id)
  BY <1>1, HolderIs, ServiceAssumption DEF SlotStands
<1>2. ASSUME NEW u \in Threads, ThreadStands(u, x) PROVE u \in Arriving(x, id)' <=> u \in Arriving(x, id)
  <2>1. CASE /\ call'[u] = call[u] /\ tls'[u] = tls[u] /\ server'[x].domain = server[x].domain
             /\ Busy(u) => svc'[call[u].slot].of = svc[call[u].slot].of
    <3>1. Brings(u, x)' <=> Brings(u, x)
      BY <2>1 DEF Brings, Busy, Subject
    <3> QED BY <2>1, <3>1, ArriverIs
  <2>2. CASE ~Brings(u, x) /\ ~Brings(u, x)'
    BY <2>2, ArriverIs
  <2> QED BY <1>2, <2>1, <2>2 DEF ThreadStands
<1> QED BY <1>1, <1>2

LEMMA ObjectsStand ==
  ASSUME JInv, NEW x \in Sessions, server[x].open, server'[x].objects = server[x].objects,
         \A s \in Slots : SlotStands(s, x), \A u \in Threads : ThreadStands(u, x)
  PROVE  \A id \in Ids : HeldOnce(x, id)'
<1>1. ASSUME NEW id \in Ids PROVE HeldOnce(x, id)'
  <2>1. HeldOnce(x, id)
    BY DEF JInv, Objects
  <2> QED BY <2>1, StandMembers, HeldStands
<1> QED BY <1>1

(* A session that is new has no objects. *)
LEMMA NewHasNone ==
  ASSUME NEW x \in Sessions, server'[x].objects = {},
         \A s \in Slots : svc'[s].of = x => svc'[s].object = None,
         \A u \in Threads : ~Brings(u, x)'
  PROVE  \A id \in Ids : HeldOnce(x, id)'
<1>1. ASSUME NEW id \in Ids PROVE Holders(x, id)' = {} /\ Arriving(x, id)' = {}
  <2>1. \A s \in Slots : s \notin Holders(x, id)'
    BY HolderIs, ServiceAssumption
  <2>2. \A u \in Threads : u \notin Arriving(x, id)'
    BY ArriverIs
  <2> QED BY <2>1, <2>2, HoldersAreSlots
<1> QED BY <1>1 DEF HeldOnce

(* Most steps are nothing to objects. *)
Harmless(u) ==
  \/ call'[u] = call[u] /\ tls'[u] = tls[u]
  \/ /\ \A x \in Sessions : ~Brings(u, x) /\ ~Brings(u, x)'
     /\ \A s \in Slots : Frees(u, s)' <=> Frees(u, s)

LEMMA HarmlessObjects ==
  ASSUME JInv, \A s \in Slots : svc'[s].of = svc[s].of /\ svc'[s].object = svc[s].object,
         \A u \in Threads : Harmless(u),
         \A x \in Sessions : /\ server'[x].open => server[x].open
                             /\ server'[x].objects = server[x].objects /\ server'[x].domain = server[x].domain
  PROVE  Objects'
<1>1. ASSUME NEW x \in Sessions, server'[x].open PROVE \A id \in Ids : HeldOnce(x, id)'
  <2>1. ASSUME NEW s \in Slots PROVE SlotStands(s, x)
    <3>1. \A u \in Threads : Frees(u, s)' <=> Frees(u, s)
      BY DEF Harmless, Frees
    <3> QED BY <3>1 DEF SlotStands
  <2>2. ASSUME NEW u \in Threads PROVE ThreadStands(u, x)
    BY DEF Harmless, ThreadStands, JInv, IInv, Calls, SubjectsLive
  <2> QED BY <1>1, <2>1, <2>2, ObjectsStand
<1> QED BY <1>1 DEF Objects

LEMMA StepObjects ==
  ASSUME JInv, NEW t \in Threads, Quiet(t), ~Send(t)
  PROVE  Objects'
<1>0. Typed /\ Calls /\ Steps /\ Continues
  BY QuietContinues DEF JInv, IInv
<1>1. /\ \A s \in Slots : svc'[s].of = svc[s].of /\ svc'[s].object = svc[s].object
      /\ call'[t].op = call[t].op /\ call'[t].slot = call[t].slot
  BY <1>0 DEF Continues
<1>2. server' = server /\ \A u \in Threads \ {t} : call'[u] = call[u] /\ tls'[u] = tls[u]
  <2>1. CASE SendAgain(t)
    BY <2>1, SendAgainIs DEF Stands, Stepped
  <2>2. CASE Construct(t)
    <3>1. call[t].slot \in Slots
      BY <1>0, <2>2, SubjectTyped DEF Construct, At
    <3> QED BY <1>0, <2>2, <3>1, ConstructDoes, ZenonT(60) DEF Stepped, Typed
  <2>3. CASE WriteToTls(t)
    BY <1>0, <2>3, WriteDoes DEF Stepped, Typed
  <2>4. CASE \E n \in Lengths : AddInPointer(t, n) \/ AddInAutoselect(t, n)
    <3>1. PICK n \in Lengths : AddInPointer(t, n) \/ AddInAutoselect(t, n)
      BY <2>4
    <3> QED BY <1>0, <3>1, AddDoes DEF Stepped
  <2>5. CASE ReadPointerBufferSize(t)
    BY <1>0, <2>5, QueryDoes DEF Stepped
  <2>6. CASE Log(t)
    BY <1>0, <2>6 DEF Log, Typed
  <2> QED BY <2>1, <2>2, <2>3, <2>4, <2>5, <2>6 DEF Quiet
<1>3. Harmless(t)
  <2>1. CASE SendAgain(t)
    <3>1. /\ call[t].step = "sent" /\ ~call[t].query /\ call[t].op = "release"
          /\ call'[t].step = "again" /\ ~call'[t].query
      BY <2>1, SendAgainIs DEF Stepped
    <3> QED BY <1>1, <3>1 DEF Harmless, Brings, Frees, Command
  <2>2. CASE ~SendAgain(t)
    <3>1. \/ call[t].step \notin {"sent", "again"} /\ call'[t].step \notin {"sent", "again"}
          \/ call[t].step = "sent" /\ call[t].query /\ call'[t].step = "new"
          \/ call[t].step = "sent" /\ call[t].query /\ call'[t] = call[t] /\ tls'[t] = tls[t]
      <4>2. CASE Construct(t)
        <5>1. call[t].slot \in Slots
          BY <1>0, <4>2, SubjectTyped DEF Construct, At
        <5> QED BY <1>0, <4>2, <5>1, ConstructDoes DEF Stepped
      <4>3. CASE WriteToTls(t)
        BY <1>0, <4>3, WriteDoes DEF Stepped
      <4>4. CASE \E n \in Lengths : AddInPointer(t, n) \/ AddInAutoselect(t, n)
        <5>1. PICK n \in Lengths : AddInPointer(t, n) \/ AddInAutoselect(t, n)
          BY <4>4
        <5> QED BY <1>0, <5>1, AddDoes DEF Stepped
      <4>5. CASE ReadPointerBufferSize(t)
        BY <1>0, <4>5, QueryDoes DEF Stepped
      <4>6. CASE Log(t)
        BY <4>6 DEF Log, At
      <4> QED BY <2>2, <4>2, <4>3, <4>4, <4>5, <4>6 DEF Quiet
    <3> QED BY <3>1 DEF Harmless, Brings, Frees, Command
  <2> QED BY <2>1, <2>2
<1> QED BY <1>1, <1>2, <1>3, HarmlessObjects DEF Harmless

LEMMA BeginObjects ==
  ASSUME JInv, NEW t \in Threads, NEW s \in Slots, NEW op \in {"plain", "get", "logger", "convert", "release"},
         call[t].step = "idle", call' = [call EXCEPT ![t] = Doing(op, s)], UNCHANGED <<svc, tls, server>>
  PROVE  Objects'
<1>1. call'[t].step = "new" /\ \A u \in Threads \ {t} : call'[u] = call[u]
  BY DoingIs DEF JInv, IInv
<1>2. \A u \in Threads : Harmless(u)
  BY <1>1 DEF Harmless, Brings, Frees
<1> QED BY <1>2, HarmlessObjects

(* A session that is opened, when nothing changes for the others. *)
LEMMA OpenedObjects ==
  ASSUME JInv, NEW h \in Handles, NEW y \in Sessions, OpenSession(h, y),
         \A x \in Sessions \ {y} : (\A s \in Slots : SlotStands(s, x)) /\ (\A u \in Threads : ThreadStands(u, x)),
         \A s \in Slots : svc'[s].of = y => svc'[s].object = None
  PROVE  Objects'
<1>1. server'[y].objects = {} /\ ~server'[y].domain /\ \A x \in Sessions \ {y} : server'[x] = server[x]
  BY OpenedServer DEF JInv, IInv
<1>2. ASSUME NEW x \in Sessions, server'[x].open PROVE \A id \in Ids : HeldOnce(x, id)'
  <2>1. CASE x = y
    BY <1>1, <2>1, NewHasNone DEF Brings
  <2>2. CASE x # y
    BY <1>1, <1>2, <2>2, ObjectsStand
  <2> QED BY <2>1, <2>2
<1> QED BY <1>2 DEF Objects

LEMMA ConnectObjects ==
  ASSUME JInv, NEW t \in Threads, NEW s \in Slots, Connect(t, s)
  PROVE  Objects'
<1>0. Typed /\ Calls /\ ~svc[s].live /\ UNCHANGED <<call, tls>> /\ svc[s].of = None
  BY DEF JInv, IInv, Connect, Shapes
<1>1. PICK h \in Handles, x \in Sessions : OpenSession(h, x) /\ svc' = [svc EXCEPT ![s] = OwnerOf(h)']
  BY DEF Connect
<1>2. /\ \A o \in Slots : svc[o].of # x
      /\ \A y \in Sessions \ {x} : server'[y] = server[y]
      /\ OwnerOf(h)'.of = x /\ OwnerOf(h)'.object = None
  BY <1>0, <1>1, OpenedFacts, OpenedServer DEF OwnerOf, Holder
<1>3. svc'[s].of = x /\ svc'[s].object = None /\ \A o \in Slots \ {s} : svc'[o] = svc[o]
  BY <1>0, <1>1, <1>2 DEF Typed
<1>4. ASSUME NEW y \in Sessions \ {x}
      PROVE  (\A o \in Slots : SlotStands(o, y)) /\ (\A u \in Threads : ThreadStands(u, y))
  <2>1. \A o \in Slots : SlotStands(o, y)
    BY <1>0, <1>3, ServiceAssumption DEF SlotStands, Frees
  <2>2. \A u \in Threads : Busy(u) => call[u].slot \in Slots \ {s}
    BY <1>0 DEF Calls, SubjectsLive, Subject
  <2> QED BY <1>0, <1>2, <1>3, <2>1, <2>2 DEF ThreadStands
<1> QED BY <1>1, <1>2, <1>3, <1>4, OpenedObjects

(* A Service that goes held nothing, or had sent the request that frees it. *)
LEMMA GoneObjects ==
  ASSUME JInv, NEW s \in Slots, svc' = [svc EXCEPT ![s] = Gone], Fewer,
         svc[s].object = None \/ \E u \in Threads : Frees(u, s),
         \A u \in Threads : \/ call'[u] = call[u] /\ tls'[u] = tls[u] /\ (Busy(u) => call[u].slot # s)
                            \/ /\ \A x \in Sessions : ~Brings(u, x) /\ ~Brings(u, x)'
                               /\ \A o \in Slots \ {s} : ~Frees(u, o) /\ ~Frees(u, o)'
  PROVE  Objects'
<1>1. svc'[s].object = None /\ \A o \in Slots \ {s} : svc'[o] = svc[o]
  BY GoneIs DEF JInv, IInv, Typed
<1>2. ASSUME NEW x \in Sessions, server'[x].open PROVE \A id \in Ids : HeldOnce(x, id)'
  <2>1. ASSUME NEW o \in Slots PROVE SlotStands(o, x)
    <3>1. CASE o = s
      BY <1>1, <3>1 DEF SlotStands
    <3>2. CASE o # s
      <4>1. \A u \in Threads : Frees(u, o)' <=> Frees(u, o)
        BY <3>2 DEF Frees
      <4> QED BY <1>1, <3>2, <4>1 DEF SlotStands
    <3> QED BY <3>1, <3>2
  <2>2. ASSUME NEW u \in Threads PROVE ThreadStands(u, x)
    <3>1. CASE call'[u] = call[u] /\ tls'[u] = tls[u] /\ (Busy(u) => call[u].slot # s)
      BY <1>1, <3>1 DEF ThreadStands, Fewer, JInv, IInv, Calls, SubjectsLive
    <3>2. CASE ~Brings(u, x) /\ ~Brings(u, x)'
      BY <3>2 DEF ThreadStands
    <3> QED BY <3>1, <3>2
  <2>3. server[x].open /\ server'[x].objects = server[x].objects
    BY <1>2 DEF Fewer
  <2> QED BY <2>1, <2>2, <2>3, ObjectsStand
<1> QED BY <1>2 DEF Objects

LEMMA DestroyObjects ==
  ASSUME JInv, NEW t \in Threads, NEW s \in Slots, Destroy(t, s)
  PROVE  Objects'
<1>0. Free(s) /\ UNCHANGED <<tls, table, server>> /\ call[t].step = "idle"
  BY UsersFacts DEF Destroy, Idle
<1>1. CASE call' = [call EXCEPT ![t] = Doing("release", s)] /\ UNCHANGED svc
  BY <1>0, <1>1, BeginObjects
<1>2. CASE svc' = [svc EXCEPT ![s] = Gone] /\ UNCHANGED call /\ ~IsDomain(svc[s])
  BY <1>0, <1>2, StandsFewer, GoneObjects DEF Free, Stands, IsDomain
<1> QED BY <1>1, <1>2 DEF Destroy

LEMMA EndObjects ==
  ASSUME JInv, NEW t \in Threads, EndOfDestructor(t)
  PROVE  Objects'
<1>0. /\ IInv /\ Typed /\ Calls /\ Busy(t) /\ call[t].slot \in Slots /\ call[t].step = "again"
      /\ call[t].op = "release" /\ ~call[t].query
      /\ svc' = [svc EXCEPT ![call[t].slot] = Gone]
  BY SubjectKnown DEF JInv, IInv, EndOfDestructor, At, Busy, Steps, Requests, Asked
<1>1. PICK s \in Slots : s = call[t].slot
  BY <1>0
<1>2. call'[t].step = "idle" /\ \A u \in Threads \ {t} : call'[u] = call[u] /\ tls'[u] = tls[u]
  BY <1>0, ReturnDoes DEF EndOfDestructor
<1>3. \A u \in Threads \ {t} : Busy(u) => call[u].slot # s
  BY <1>0, <1>1 DEF Calls, ChangersAreAlone
<1>4. Frees(t, s)
  BY <1>0, <1>1 DEF Frees
<1>5. /\ \A x \in Sessions : ~Brings(t, x) /\ ~Brings(t, x)'
      /\ \A o \in Slots \ {s} : ~Frees(t, o) /\ ~Frees(t, o)'
  BY <1>0, <1>1, <1>2 DEF Brings, Frees
<1>6. Fewer
  BY EndFewer
<1>7. svc' = [svc EXCEPT ![s] = Gone]
  BY <1>0, <1>1
<1>8. \A u \in Threads : \/ call'[u] = call[u] /\ tls'[u] = tls[u] /\ (Busy(u) => call[u].slot # s)
                         \/ /\ \A x \in Sessions : ~Brings(u, x) /\ ~Brings(u, x)'
                            /\ \A o \in Slots \ {s} : ~Frees(u, o) /\ ~Frees(u, o)'
  BY <1>2, <1>3, <1>5
<1> QED BY <1>4, <1>6, <1>7, <1>8, GoneObjects

(* What a Service holds moves with it. *)
LEMMA MoveObjects ==
  ASSUME JInv, NEW t \in Threads, NEW s \in Slots, NEW d \in Slots \ {s}, Move(t, s, d)
  PROVE  Objects'
<1>0. Typed /\ Calls /\ ~svc[d].live /\ Free(s) /\ UNCHANGED <<call, tls, server>> /\ svc[d].of = None
  BY UsersFacts DEF JInv, IInv, Move, Shapes
<1>1. MovedFrom(svc[s]).of = None
  BY <1>0 DEF MovedFrom, Typed, Serv
<1>2. svc'[s].of = None /\ svc'[d] = svc[s] /\ \A o \in Slots \ {s, d} : svc'[o] = svc[o]
  BY <1>0, <1>1 DEF Move, Typed
<1>3. \A u \in Threads : Busy(u) => call[u].slot \in Slots \ {s, d}
  BY <1>0 DEF Calls, SubjectsLive, Subject, Free
<1>4. ASSUME NEW x \in Sessions, NEW id \in Ids, server[x].open PROVE HeldOnce(x, id)'
  <2>1. HeldOnce(x, id) /\ x # None
    BY <1>4, ServiceAssumption DEF JInv, Objects
  <2>2. \A u \in Threads : ~Frees(u, s) /\ ~Frees(u, d) /\ \A o \in Slots : Frees(u, o)' <=> Frees(u, o)
    BY <1>0, <1>3 DEF Frees, Busy
  <2>3. /\ s \notin Holders(x, id)' /\ d \notin Holders(x, id)
        /\ d \in Holders(x, id)' <=> s \in Holders(x, id)
        /\ \A o \in Slots \ {s, d} : o \in Holders(x, id)' <=> o \in Holders(x, id)
    BY <1>0, <1>2, <2>1, <2>2, HolderIs
  <2>4. Arriving(x, id)' = Arriving(x, id)
    <3>1. \A u \in Threads : ThreadStands(u, x)
      BY <1>0, <1>2, <1>3 DEF ThreadStands
    <3> QED BY <3>1, StandMembers, HoldersAreSlots
  <2>5. \A o, r \in Holders(x, id)' : o = r
    BY <2>1, <2>3, HoldersAreSlots DEF HeldOnce
  <2>6. Holders(x, id)' = {} <=> Holders(x, id) = {}
    BY <2>3, HoldersAreSlots
  <2> QED BY <1>0, <2>1, <2>4, <2>5, <2>6 DEF HeldOnce
<1> QED BY <1>0, <1>4 DEF Objects

(* A request is answered: an object is on its way, or has been given back. *)
LEMMA SendObjects ==
  ASSUME JInv, NEW t \in Threads, Send(t)
  PROVE  Objects'
<1>0. /\ Typed /\ Calls /\ call[t].slot \in Slots /\ Subject(t) = svc[call[t].slot] /\ Subject(t).of \in Sessions
      /\ Subject(t).of # None /\ call[t].step = "written" /\ UNCHANGED svc /\ Busy(t) /\ call[t] \in CallRec
  BY SubjectKnown DEF Send, At, JInv, IInv, Busy
<1>1. PICK s \in Slots, x \in Sessions : s = call[t].slot /\ x = svc[s].of /\ x = Subject(t).of
  BY <1>0
<1>2. /\ Stepped(t, "sent", call[t].query, call[t].room, call[t].used, call'[t].sent)
      /\ \A u \in Threads \ {t} : tls'[u] = tls[u]
      /\ \/ NoReply(t, x) \/ RepliesPlainly(t, x) \/ BringsObject(t, x)
         \/ BringsHandle(t, x) \/ LosesObject(t, x)
  BY <1>1, SendIs
<1>3. /\ call'[t].op = call[t].op /\ call'[t].slot = s /\ call'[t].query = call[t].query /\ call'[t].step = "sent"
      /\ \A u \in Threads \ {t} : call'[u] = call[u] /\ tls'[u] = tls[u]
      /\ Subject(t)' = Subject(t) /\ Command(call'[t]) = Command(call[t])
  BY <1>0, <1>1, <1>2 DEF Stepped, Subject, Command
<1>4. /\ \A y \in Sessions : ~Brings(t, y)
      /\ \A o \in Slots : ~Frees(t, o)
      /\ \A u \in Threads \ {t}, o \in Slots : Frees(u, o)' <=> Frees(u, o)
      /\ \A o \in Slots \ {s} : ~Frees(t, o)'
      /\ Command(call[t]) # "release" => ~Frees(t, s)'
      /\ \A y \in Sessions \ {x} : ~Brings(t, y)'
  BY <1>0, <1>1, <1>3 DEF Brings, Frees, Command
<1>5. ASSUME NEW y \in Sessions \ {x}, server'[y].open, server[y].open,
             server'[y].domain = server[y].domain, server'[y].objects = server[y].objects
      PROVE  \A id \in Ids : HeldOnce(y, id)'
  <2>1. ASSUME NEW o \in Slots PROVE SlotStands(o, y)
    BY <1>0, <1>1, <1>4 DEF SlotStands
  <2>2. ASSUME NEW u \in Threads PROVE ThreadStands(u, y)
    BY <1>0, <1>3, <1>4, <1>5 DEF ThreadStands
  <2> QED BY <1>5, <2>1, <2>2, ObjectsStand
<1>6. CASE NoReply(t, x)
  <2>1. Fewer /\ ~server'[x].open
    BY <1>0, <1>6, EndsFewer DEF NoReply, Ends, Typed, ServerRec
  <2>2. ASSUME NEW y \in Sessions, server'[y].open PROVE \A id \in Ids : HeldOnce(y, id)'
    BY <1>5, <2>1, <2>2 DEF Fewer
  <2> QED BY <2>2 DEF Objects
<1>7. CASE RepliesPlainly(t, x)
  <2>1. /\ Command(call[t]) # "release" /\ server' = server
        /\ tls'[t].ok => Command(call[t]) \in {"plain", "query"}
    BY <1>7 DEF RepliesPlainly, Replies, Stands
  <2>2. Harmless(t)
    BY <1>3, <1>4, <2>1 DEF Harmless, Brings
  <2> QED BY <1>0, <1>3, <2>1, <2>2, HarmlessObjects DEF Harmless
<1>8. CASE BringsObject(t, x)
  <2>1. PICK id \in Ids : id = tls'[t].value /\ id \notin server[x].objects
    BY <1>8 DEF BringsObject
  <2>2. /\ call'[t].sent /\ tls'[t].ok = TRUE /\ server[x].open
        /\ Command(call[t]) = "convert" \/ (Command(call[t]) \in {"get", "logger"} /\ server[x].domain)
        /\ server'[x].objects = server[x].objects \union {id} /\ server'[x].domain = TRUE
        /\ \A y \in Sessions \ {x} : server'[y] = server[y]
    BY <1>8, <2>1 DEF BringsObject, Replies, Becomes
  <2>3. Brings(t, x)' /\ \A o \in Slots : SlotStands(o, x)
    BY <1>0, <1>1, <1>3, <1>4, <2>2, ZenonT(60) DEF Brings, SlotStands
  <2>4. ASSUME NEW u \in Threads \ {t} PROVE ThreadStands(u, x)
    <3>1. CASE server[x].domain
      BY <1>0, <1>3, <2>2, <3>1 DEF ThreadStands, Typed, ServerRec
    <3>2. CASE ~server[x].domain
      <4>1. Command(call[t]) = "convert" /\ call[t].op = "convert" /\ ~call[t].query
        BY <2>2, <3>2 DEF Command
      <4>2. Subject(t).object = None
        BY <1>0, <4>1 DEF JInv, Requests, Asked
      <4>3. ASSUME Busy(u), Subject(u).of = x PROVE FALSE
        <5>1. call[u].slot \in Slots /\ svc[call[u].slot].of = x
          BY <1>0, <4>3 DEF Calls, SubjectsLive, Subject
        <5>2. call[u].slot = s
          BY <1>0, <1>1, <4>2, <5>1 DEF JInv, Alone
        <5> QED BY <1>0, <1>1, <4>1, <4>3, <5>2, OnlyUser
      <4>4. ~Brings(u, x) /\ ~Brings(u, x)'
        BY <1>0, <1>3, <4>3 DEF Brings, Busy, Subject
      <4> QED BY <4>4 DEF ThreadStands
    <3> QED BY <3>1, <3>2
  <2>5. ASSUME NEW i \in Ids PROVE HeldOnce(x, i)'
    <3>1. HeldOnce(x, i) /\ Holders(x, i)' = Holders(x, i)
      BY <2>2, <2>3, StandMembers, HoldersAreSlots DEF JInv, Objects
    <3>2. \A u \in Threads \ {t} : u \in Arriving(x, i)' <=> u \in Arriving(x, i)
      BY <2>4, StandMembers
    <3>3. t \notin Arriving(x, i) /\ (t \in Arriving(x, i)' <=> i = id)
      BY <1>4, <2>1, <2>3, ArriverIs
    <3>4. CASE i # id
      BY <2>2, <3>1, <3>2, <3>3, <3>4, HeldStands
    <3>5. CASE i = id
      <4>1. Holders(x, i) = {} /\ Arriving(x, i) = {}
        BY <2>1, <3>1, <3>5 DEF HeldOnce
      <4>2. Arriving(x, i)' = {t}
        BY <3>2, <3>3, <3>5, <4>1, HoldersAreSlots
      <4> QED BY <2>2, <3>1, <3>5, <4>1, <4>2 DEF HeldOnce
    <3> QED BY <3>4, <3>5
  <2>6. ASSUME NEW y \in Sessions, server'[y].open PROVE \A i \in Ids : HeldOnce(y, i)'
    BY <1>5, <2>2, <2>5, <2>6
  <2> QED BY <2>6 DEF Objects
<1>9. CASE BringsHandle(t, x)
  <2>1. /\ ~server[x].domain /\ Command(call[t]) # "release"
        /\ \E h \in Handles, y \in Sessions : OpenSession(h, y)
    BY <1>9 DEF BringsHandle
  <2>2. PICK h \in Handles, y \in Sessions : OpenSession(h, y)
    BY <2>1
  <2>3. y # x /\ (\A o \in Slots : svc'[o].of # y) /\ \A z \in Sessions \ {y} : server'[z] = server[z]
    BY <1>0, <1>1, <2>2, OpenedFacts, OpenedServer
  <2>4. ASSUME NEW z \in Sessions \ {y}
        PROVE  (\A o \in Slots : SlotStands(o, z)) /\ (\A u \in Threads : ThreadStands(u, z))
    <3>1. \A o \in Slots : SlotStands(o, z)
      BY <1>0, <1>4, <2>1 DEF SlotStands
    <3>2. ~Brings(t, z)'
      BY <1>1, <1>3, <1>4, <2>1, <2>3 DEF Brings
    <3>3. \A u \in Threads : ThreadStands(u, z)
      BY <1>0, <1>3, <1>4, <2>3, <3>2 DEF ThreadStands
    <3> QED BY <3>1, <3>3
  <2> QED BY <2>2, <2>3, <2>4, OpenedObjects
<1>10. CASE LosesObject(t, x)
  <2>1. PICK id \in Ids : id = svc[s].object /\ id \in server[x].objects
    BY <1>0, <1>1, <1>10 DEF LosesObject, Typed, ServerRec
  <2>2. /\ Command(call[t]) = "release" /\ server[x].open
        /\ server'[x].objects = server[x].objects \ {id} /\ server'[x].domain = TRUE
        /\ \A y \in Sessions \ {x} : server'[y] = server[y]
    BY <1>0, <1>1, <1>10, <2>1 DEF LosesObject, Becomes
  <2>3. Frees(t, s)' /\ ~Brings(t, x)'
    BY <1>1, <1>3, <2>2 DEF Frees, Brings, Command
  <2>4. server[x].domain = TRUE
    <3>1. id # None
      BY ServiceAssumption
    <3>2. server[x].domain
      BY <1>0, <1>1, <2>1, <3>1 DEF JInv, Domains, DomainOf
    <3> QED BY <1>0, <3>2 DEF Typed, ServerRec
  <2>5. (\A o \in Slots \ {s} : SlotStands(o, x)) /\ \A u \in Threads : ThreadStands(u, x)
    <3>1. \A o \in Slots \ {s} : SlotStands(o, x)
      BY <1>0, <1>4 DEF SlotStands
    <3>2. \A u \in Threads : ThreadStands(u, x)
      BY <1>0, <1>3, <1>4, <2>2, <2>3, <2>4 DEF ThreadStands
    <3> QED BY <3>1, <3>2
  <2>6. ASSUME NEW i \in Ids PROVE HeldOnce(x, i)'
    <3>1. HeldOnce(x, i) /\ Arriving(x, i)' = Arriving(x, i)
      BY <2>2, <2>5, StandMembers, HoldersAreSlots DEF JInv, Objects
    <3>2. \A o \in Slots \ {s} : o \in Holders(x, i)' <=> o \in Holders(x, i)
      BY <2>5, StandMembers
    <3>3. s \notin Holders(x, i)'
      BY <2>3, HolderIs
    <3>4. \A u \in Threads : ~Frees(u, s)
      BY <1>0, <1>1, <1>4, <2>2, OnlyUser DEF Frees, Busy
    <3>5. s \in Holders(x, i) <=> i = id
      <4>1. s \in Holders(x, i) <=> svc[s].of = x /\ svc[s].object = i /\ \A u \in Threads : ~Frees(u, s)
        BY HolderIs
      <4> QED BY <1>1, <2>1, <3>4, <4>1
    <3>6. CASE i # id
      BY <2>2, <3>1, <3>2, <3>3, <3>5, <3>6, HeldStands
    <3>7. CASE i = id
      <4>1. Holders(x, i) = {s} /\ Arriving(x, i) = {}
        BY <3>1, <3>5, <3>7 DEF HeldOnce
      <4>2. Holders(x, i)' = {}
        BY <3>2, <3>3, <4>1, HoldersAreSlots
      <4> QED BY <2>2, <3>1, <3>7, <4>1, <4>2 DEF HeldOnce
    <3> QED BY <3>6, <3>7
  <2>7. ASSUME NEW y \in Sessions, server'[y].open PROVE \A i \in Ids : HeldOnce(y, i)'
    BY <1>5, <2>2, <2>6, <2>7
  <2> QED BY <2>7 DEF Objects
<1> QED BY <1>2, <1>6, <1>7, <1>8, <1>9, <1>10

(* The caller gets what the reply brings. *)
LEMMA ReadObjects ==
  ASSUME JInv, NEW t \in Threads, ReadFromTls(t)
  PROVE  Objects'
<1>0. /\ IInv /\ Typed /\ Calls /\ Busy(t) /\ call[t].slot \in Slots /\ Subject(t) = svc[call[t].slot]
      /\ svc[call[t].slot] \in Serv /\ Subject(t).of # None /\ Subject(t).of \in Sessions /\ svc[call[t].slot].live
      /\ call[t].step = "sent" /\ ~call[t].query /\ call[t].op # "release" /\ UNCHANGED server /\ Asked(t) /\ Answered(t)
  BY SubjectKnown DEF JInv, IInv, ReadFromTls, At, Busy, Requests
<1>1. PICK s \in Slots, x \in Sessions : s = call[t].slot /\ x = svc[s].of /\ x = Subject(t).of
  BY <1>0
<1>2. call'[t].step = "idle" /\ \A u \in Threads \ {t} : call'[u] = call[u] /\ tls'[u] = tls[u]
  BY <1>0, ReturnDoes DEF ReadFromTls
<1>3. /\ \A o \in Slots, u \in Threads : Frees(u, o)' <=> Frees(u, o)
      /\ \A o \in Slots : ~Frees(t, o)
      /\ \A y \in Sessions : ~Brings(t, y)'
      /\ \A y \in Sessions \ {x} : ~Brings(t, y)
  BY <1>0, <1>1, <1>2 DEF Frees, Brings
(* An object i comes to be held by Service d. *)
<1>4. ASSUME NEW i \in Ids, NEW d \in Slots, Brings(t, x), tls[t].value = i,
             svc'[d].of = x, svc'[d].object = i, \A u \in Threads : ~Frees(u, d),
             svc[d].of # x \/ svc[d].object = None,
             \A o \in Slots \ {d} : svc'[o] = svc[o],
             \A u \in Threads \ {t} : Busy(u) => svc'[call[u].slot].of = svc[call[u].slot].of,
             svc[d].of \in {None, x}
      PROVE  Objects'
  <2>1. ASSUME NEW y \in Sessions PROVE \A u \in Threads \ {t} : ThreadStands(u, y)
    BY <1>0, <1>2, <1>4 DEF ThreadStands
  <2>2. ASSUME NEW y \in Sessions PROVE \A o \in Slots \ {d} : SlotStands(o, y)
    BY <1>3, <1>4 DEF SlotStands
  <2>3. ASSUME NEW y \in Sessions \ {x}, server[y].open PROVE \A id \in Ids : HeldOnce(y, id)'
    <3>1. SlotStands(d, y) /\ ThreadStands(t, y)
      BY <1>3, <1>4, ServiceAssumption DEF SlotStands, ThreadStands
    <3> QED BY <1>0, <2>1, <2>2, <2>3, <3>1, ObjectsStand
  <2>4. ASSUME NEW id \in Ids, server[x].open PROVE HeldOnce(x, id)'
    <3>1. HeldOnce(x, id)
      BY <2>4 DEF JInv, Objects
    <3>2. /\ \A u \in Threads \ {t} : u \in Arriving(x, id)' <=> u \in Arriving(x, id)
          /\ \A o \in Slots \ {d} : o \in Holders(x, id)' <=> o \in Holders(x, id)
      BY <2>1, <2>2, StandMembers
    <3>3. t \notin Arriving(x, id)' /\ (t \in Arriving(x, id) <=> id = i)
      BY <1>3, <1>4, ArriverIs
    <3>4. d \notin Holders(x, id)
      <4>1. d \in Holders(x, id) <=> svc[d].of = x /\ svc[d].object = id /\ \A u \in Threads : ~Frees(u, d)
        BY HolderIs
      <4> QED BY <1>4, <4>1, ServiceAssumption
    <3>5. d \in Holders(x, id)' <=> id = i
      <4>1. d \in Holders(x, id)' <=> (svc'[d].of = x /\ svc'[d].object = id /\ \A u \in Threads : ~Frees(u, d)')
        BY HolderIs
      <4> QED BY <1>3, <1>4, <4>1
    <3>6. CASE id # i
      BY <1>0, <3>1, <3>2, <3>3, <3>4, <3>5, <3>6, HeldStands
    <3>7. CASE id = i
      <4>1. Arriving(x, id) = {t} /\ Holders(x, id) = {}
        BY <3>1, <3>3, <3>7 DEF HeldOnce
      <4>2. Arriving(x, id)' = {} /\ Holders(x, id)' = {d}
        BY <3>2, <3>3, <3>5, <3>7, <4>1, HoldersAreSlots
      <4> QED BY <1>0, <3>1, <4>1, <4>2 DEF HeldOnce
    <3> QED BY <3>6, <3>7
  <2> QED BY <1>0, <2>3, <2>4 DEF Objects
(* Nothing was on its way. *)
<1>5. ASSUME ~Brings(t, x), \A o \in Slots : svc'[o] = svc[o] \/ (svc[o].object = None /\ svc'[o].object = None),
             \A u \in Threads \ {t} : Busy(u) => svc'[call[u].slot].of = svc[call[u].slot].of
      PROVE  Objects'
  <2>1. ASSUME NEW y \in Sessions, server[y].open PROVE \A id \in Ids : HeldOnce(y, id)'
    <3>1. \A o \in Slots : SlotStands(o, y)
      BY <1>3, <1>5 DEF SlotStands
    <3>2. ASSUME NEW u \in Threads PROVE ThreadStands(u, y)
      BY <1>0, <1>2, <1>3, <1>5 DEF ThreadStands
    <3> QED BY <1>0, <2>1, <3>1, <3>2, ObjectsStand
  <2> QED BY <1>0, <2>1 DEF Objects
<1>6. ASSUME HasReply(t), call[t].op = "convert", svc' = [svc EXCEPT ![s].object = tls[t].value]
      PROVE  Objects'
  <2>1. /\ svc'[s].of = svc[s].of /\ svc'[s].object = tls[t].value /\ \A o \in Slots \ {s} : svc'[o] = svc[o]
    BY <1>0, <1>1, <1>6 DEF Typed, Serv
  <2>2. PICK i \in Ids : i = tls[t].value
    BY <1>0, <1>6 DEF IInv, Mail, ReplyTyped
  <2>3. Brings(t, x) /\ svc[s].object = None
    BY <1>0, <1>1, <1>6 DEF Brings, Command, HasReply, Asked, Answered, Converted
  <2>4. \A u \in Threads : ~Frees(u, s)
    BY <1>0, <1>1, <1>3, <1>6, OnlyUser DEF Frees, Busy
  <2>5. \A u \in Threads \ {t} : Busy(u) => svc'[call[u].slot].of = svc[call[u].slot].of
    BY <1>0, <2>1 DEF Calls, SubjectsLive
  <2> QED BY <1>1, <1>4, <2>1, <2>2, <2>3, <2>4, <2>5
<1>7. ASSUME HasReply(t), call[t].op = "get",
             NEW d \in Slots, ~svc[d].live, svc' = [svc EXCEPT ![d] = NextSubservice(svc[s], tls[t].value)]
      PROVE  Objects'
  <2> DEFINE v == NextSubservice(svc[s], tls[t].value)
  <2>1. svc'[d] = v /\ \A o \in Slots \ {d} : svc'[o] = svc[o]
    BY <1>0, <1>7 DEF Typed
  <2>2. (server[x].domain <=> svc[s].object # None) /\ (Brings(t, x) <=> server[x].domain)
    BY <1>0, <1>1, <1>7, DomainKnown DEF Brings, Converted, Command, HasReply
  <2>3. svc[d].of = None /\ svc[d].object = None
    BY <1>7 DEF JInv, Shapes
  <2>4. \A u \in Threads : Busy(u) => call[u].slot # d
    BY <1>0, <1>7 DEF Calls, SubjectsLive, Subject
  <2>5. (\A u \in Threads : ~Frees(u, d)) /\ \A u \in Threads \ {t} : Busy(u) => svc'[call[u].slot].of = svc[call[u].slot].of
    BY <1>0, <2>1, <2>4 DEF Frees, Busy, Calls, SubjectsLive
  <2>6. CASE svc[s].object # None
    <3>1. v = Holder(svc[s].session, tls[t].value, FALSE, svc[s].ptr, svc[s].of, FALSE)
      BY <2>6 DEF NextSubservice, IsDomain, DomainSubservice
    <3>2. v.object = tls[t].value /\ v.of = svc[s].of
      BY <3>1 DEF Holder
    <3>3. PICK i \in Ids : i = tls[t].value
      BY <1>0, <1>1, <1>7, <2>6 DEF IInv, Mail, ReplyTyped
    <3> QED BY <1>1, <1>4, <2>1, <2>2, <2>3, <2>5, <2>6, <3>2, <3>3
  <2>7. CASE svc[s].object = None
    <3>1. v = Holder(tls[t].value, None, FALSE, Unknown, table[tls[t].value], TRUE)
      BY <2>7 DEF NextSubservice, IsDomain, FromHandle
    <3>2. v.object = None
      BY <3>1 DEF Holder
    <3> QED BY <1>5, <2>1, <2>2, <2>3, <2>5, <2>7, <3>2
  <2> QED BY <2>6, <2>7
<1>8. CASE UNCHANGED svc /\ (HasReply(t) => call[t].op \in {"plain", "logger"})
  <2>1. ~Brings(t, x)
    <3>1. ASSUME HasReply(t), call[t].op = "logger" PROVE ~server[x].domain
      BY <1>0, <1>1, <3>1, DomainKnown DEF Converted, Calls, LoggerByHandle
    <3> QED BY <1>0, <1>1, <1>8, <3>1 DEF Brings, Command, HasReply
  <2> QED BY <1>5, <1>8, <2>1
<1>9. \/ HasReply(t) /\ call[t].op = "convert" /\ svc' = [svc EXCEPT ![s].object = tls[t].value]
      \/ /\ HasReply(t) /\ call[t].op = "get"
         /\ \E d \in Slots : ~svc[d].live /\ svc' = [svc EXCEPT ![d] = NextSubservice(svc[s], tls[t].value)]
      \/ UNCHANGED svc /\ (HasReply(t) => call[t].op \in {"plain", "logger"})
  BY <1>0, <1>1 DEF ReadFromTls, HasReply
<1> QED BY <1>6, <1>7, <1>8, <1>9

LEMMA ObjectsStep ==
  ASSUME JInv, [Next]_vars
  PROVE  Objects'
<1>0. IInv /\ Typed /\ Calls
  BY DEF JInv, IInv
<1>1. ASSUME NEW t \in Threads, NEW s \in Slots, InitializeLogger(t, s) PROVE Objects'
  BY <1>1, BeginObjects DEF InitializeLogger, Idle
<1>2. ASSUME NEW t \in Threads, NEW s \in Slots, NEW op \in {"plain", "get", "convert"}, Begin(t, s, op) PROVE Objects'
  BY <1>2, BeginObjects DEF Begin, Idle
<1>3. ASSUME NEW t \in Threads, NEW s \in Slots,
             \/ Connect(t, s) \/ Destroy(t, s) \/ InitializeLogger(t, s)
             \/ \E d \in Slots \ {s} : Move(t, s, d)
             \/ \E op \in {"plain", "get", "convert"} : Begin(t, s, op)
      PROVE  Objects'
  BY <1>1, <1>2, <1>3, ConnectObjects, DestroyObjects, MoveObjects
<1>4. ASSUME NEW t \in Threads, Quiet(t) \/ ReadFromTls(t) \/ EndOfDestructor(t) PROVE Objects'
  BY <1>4, SendObjects, StepObjects, ReadObjects, EndObjects
<1>5. ASSUME UNCHANGED <<svc, call, tls>>, Fewer PROVE Objects'
  BY <1>5, HarmlessObjects DEF Fewer, Harmless
<1>6. ASSUME NEW x \in Sessions, ServerCloses(x) PROVE Objects'
  <2>1. Ends(x)
    BY <1>0, <1>6 DEF ServerCloses, Ends, Typed
  <2> QED BY <1>0, <1>5, <1>6, <2>1, EndsFewer DEF ServerCloses
<1>7. CASE UNCHANGED vars
  BY <1>5, <1>7, StandsFewer DEF vars, Stands
<1>8. ASSUME Next PROVE Objects'
  BY <1>3, <1>4, <1>6, <1>8 DEF Next, Quiet
<1> QED BY <1>7, <1>8

-----------------------------------------------------------------------------
LEMMA InitJInv == Init => JInv
<1> SUFFICES ASSUME Init PROVE JInv
  OBVIOUS
<1>1. \A t \in Threads : call[t].step = "idle"
  BY RestingIs DEF Init
<1>2. \A s \in Slots : svc[s].session = None /\ svc[s].object = None /\ svc[s].of = None /\ ~svc[s].live
  BY GoneIs DEF Init
<1>3. Shapes /\ Alone /\ Domains
  BY <1>2 DEF Shapes, Alone, Domains, DomainOf
<1>4. SizesStand /\ Objects
  BY DEF SizesStand, Objects, Init
<1>5. Requests
  BY <1>1 DEF Requests, Asked, Answered, Busy, HasReply, Converted, Delivers
<1> QED BY <1>3, <1>4, <1>5, InitIInv DEF JInv

LEMMA NextJInv == JInv /\ [Next]_vars => JInv'
<1> SUFFICES ASSUME JInv, [Next]_vars PROVE JInv'
  OBVIOUS
<1>1. IInv'
  BY NextIInv DEF JInv
<1> QED BY <1>1, BooksStep, ObjectsStep DEF JInv, Books

(* For any number of threads, Services and sessions, and whatever servers  *)
(* answer: what sf.h writes to the message buffer, its server can read     *)
(* when it is sent.  A control request goes to a Service without an object *)
(* only, a request to a domain names one that exists, and the data that    *)
(* addInAutoselect and addInPointer count fits in the pointer buffer,      *)
(* which was asked for before.                                             *)
THEOREM ServiceRequestsFit == Spec => []RequestsFit
<1>1. JInv => RequestsFit
  <2> SUFFICES ASSUME JInv, NEW t \in Threads, call[t].step = "written", Open(Subject(t).session)
               PROVE  /\ Fits(table[Subject(t).session], tls[t])
                      /\ tls[t].pointers <= server[table[Subject(t).session]].size
    BY DEF RequestsFit
  <2>1. table[Subject(t).session] = Subject(t).of
    BY SubjectKnown
  <2>2. server[Subject(t).of].open
    BY <2>1 DEF Open
  <2> QED BY <2>1, <2>2, RequestIsRead
<1> QED BY <1>1, InitJInv, NextJInv, PTL DEF Spec

(* For any number of threads, Services and sessions: what is read from the *)
(* message buffer answers what was written there, although a query for the *)
(* pointer buffer's size or a line of the log may have used the buffer in  *)
(* between, and has a domain header when sf.h expects one.                 *)
THEOREM ServiceRepliesFit == Spec => []RepliesFit
<1>1. JInv => RepliesFit
  BY DEF JInv, Requests, Answered, RepliesFit
<1> QED BY <1>1, InitJInv, NextJInv, PTL DEF Spec

(* For any number of threads, Services, sessions and objects: an object of *)
(* an open domain has one Service that holds it, or one reply that brings  *)
(* it, until the request is sent that releases it; ~Service of sf.h, which *)
(* sends a second message, gives back no object twice.                     *)
THEOREM ServiceObjectsAreHeld == Spec => []ObjectsAreHeld
<1>1. JInv => ObjectsAreHeld
  <2> SUFFICES ASSUME JInv, NEW x \in Sessions, server[x].open, NEW id \in Ids
               PROVE  Cardinality(Holders(x, id)) + Cardinality(Arriving(x, id))
                        = IF id \in server[x].objects THEN 1 ELSE 0
    BY DEF ObjectsAreHeld
  <2>1. HeldOnce(x, id)
    BY DEF JInv, Objects
  <2>2. \A S : (\A a, b \in S : a = b) /\ S # {} => \E a : S = {a}
    OBVIOUS
  <2>3. Cardinality({}) = 0 /\ \A a : Cardinality({a}) = 1
    BY FS_EmptySet, FS_Singleton
  <2>4. CASE Holders(x, id) # {}
    <3>1. PICK a : Holders(x, id) = {a}
      BY <2>1, <2>2, <2>4 DEF HeldOnce
    <3>2. Arriving(x, id) = {} /\ id \in server[x].objects
      BY <2>1, <2>4 DEF HeldOnce
    <3>3. Cardinality(Holders(x, id)) = 1
      BY <2>3, <3>1
    <3>4. Cardinality(Arriving(x, id)) = 0
      BY <2>3, <3>2
    <3> QED BY <3>2, <3>3, <3>4
  <2>5. CASE Arriving(x, id) # {}
    <3>1. PICK a : Arriving(x, id) = {a}
      BY <2>1, <2>2, <2>5 DEF HeldOnce
    <3>2. Holders(x, id) = {} /\ id \in server[x].objects
      BY <2>1, <2>5 DEF HeldOnce
    <3>3. Cardinality(Arriving(x, id)) = 1
      BY <2>3, <3>1
    <3>4. Cardinality(Holders(x, id)) = 0
      BY <2>3, <3>2
    <3> QED BY <3>2, <3>3, <3>4
  <2>6. CASE Holders(x, id) = {} /\ Arriving(x, id) = {}
    BY <2>1, <2>3, <2>6 DEF HeldOnce
  <2> QED BY <2>4, <2>5, <2>6
<1> QED BY <1>1, InitJInv, NextJInv, PTL DEF Spec
=============================================================================
