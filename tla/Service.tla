------------------------------ MODULE Service ------------------------------
(***************************************************************************)
(* hk::sf: Service, Request and Response (hk/sf/sf.h, sf.cpp), with the    *)
(* logger that sends over a session of its own (diag/ipclogger.cpp).       *)
(*                                                                         *)
(* A Service is a session handle, perhaps with the number of an object of  *)
(* the session's domain.  A call writes its request to the thread's        *)
(* message buffer, lets the kernel exchange it for the server's reply and  *)
(* reads the reply from the same buffer.  Before its first request a       *)
(* Service asks for the size of the server's pointer buffer, with a call   *)
(* that is nested in the construction of the request.                      *)
(*                                                                         *)
(* The kernel's handle table and the servers are external.  A server may   *)
(* refuse a request or close a session at any time; the kernel gives the   *)
(* number of a closed handle to another session.                           *)
(***************************************************************************)
EXTENDS Naturals, FiniteSets

CONSTANTS
  Threads,
  Slots,     (* places for Service objects                                *)
  Handles,   (* numbers the kernel gives to handles                       *)
  Sessions,  (* identities of the sessions that exist at a time           *)
  Ids,       (* numbers of domain objects                                 *)
  None,      (* handle 0, nullopt, no object                              *)
  Sizes,     (* of servers' pointer buffers                               *)
  Unknown,   (* the largest u16: the pointer buffer was not asked for     *)
  Lengths    (* of the data that callers pass                             *)

ASSUME ServiceAssumption ==
  /\ None \notin Slots \union Handles \union Sessions \union Ids
  /\ Unknown \in Nat /\ Sizes \subseteq 0 .. Unknown - 1 /\ Lengths \subseteq 0 .. Unknown

VARIABLES
  svc,     (* [Slots -> a Service]; of: the session it was made for, and  *)
           (* root: whether for all of it, are history variables          *)
  call,    (* [Threads -> what the thread is doing with a Service]        *)
  tls,     (* [Threads -> ipcMessageBuffer]                               *)
  logger,  (* IpcLogger::sInstance                                        *)
  table,   (* [Handles -> the session, None if the number is free]        *)
  server,  (* [Sessions -> what the server knows of it]                   *)
  halted   (* the process has aborted                                     *)

vars == <<svc, call, tls, logger, table, server, halted>>

-----------------------------------------------------------------------------
(* Services *)

Holder(session, object, owned, ptr, of, root) ==
  [session |-> session, object |-> object, owned |-> owned, ptr |-> ptr,
   of |-> of, root |-> root, live |-> TRUE]
Gone == [Holder(None, None, FALSE, Unknown, None, FALSE) EXCEPT !.live = FALSE]

OwnerOf(h) == Holder(h, None, TRUE, Unknown, table[h], TRUE)
FromHandle(h, of) == Holder(h, None, FALSE, Unknown, of, TRUE)
(* A defect: the subservice does not take over the pointer buffer's size. *)
DomainSubserviceAfresh(parent, object) ==
  Holder(parent.session, object, FALSE, Unknown, parent.of, FALSE)
DomainSubservice(parent, object) ==
  Holder(parent.session, object, FALSE, parent.ptr, parent.of, FALSE)

(* A defect: the old Service keeps its handle. *)
MovedFromKeeping(s) == [s EXCEPT !.object = None, !.root = FALSE]
(* What the move constructor and toHandle leave of the old Service. *)
MovedFrom(s) ==
  [s EXCEPT !.session = None, !.object = None, !.owned = FALSE, !.of = None, !.root = FALSE]

IsDomain(s) == s.object # None

-----------------------------------------------------------------------------
(* Messages.  A request has a domain header iff its object is not None.    *)

Idle(c) == c.step = "idle"
Command(c) == IF c.query THEN "query" ELSE c.op
TagOf(c, s) ==
  CASE Command(c) \in {"query", "convert"} -> "Control"
    [] c.op = "release" /\ ~c.query /\ ~IsDomain(s) -> "Close"
    [] OTHER -> "Request"
Message(c, s) ==
  [kind |-> "request", command |-> Command(c), tag |-> TagOf(c, s), object |-> s.object,
   pointers |-> c.used]
Reply(command, domain, ok, value) ==
  [kind |-> "reply", command |-> command, domain |-> domain, ok |-> ok, value |-> value]
Nothing == [kind |-> "nothing"]

Doing(op, s) == [op |-> op, slot |-> s, step |-> "new", query |-> FALSE, room |-> 0, used |-> 0, sent |-> FALSE]
Resting == [Doing("plain", None) EXCEPT !.step = "idle"]
Go(t, step) == call' = [call EXCEPT ![t].step = step]
(* The message is forgotten: whoever writes the next one clears the buffer. *)
Return(t) == call' = [call EXCEPT ![t] = Resting] /\ tls' = [tls EXCEPT ![t] = Nothing]

Init ==
  /\ svc = [s \in Slots |-> Gone]
  /\ call = [t \in Threads |-> Resting]
  /\ tls = [t \in Threads |-> Nothing]
  /\ logger = None
  /\ table = [h \in Handles |-> None]
  /\ server = [x \in Sessions |-> [open |-> FALSE, domain |-> FALSE, objects |-> {}, size |-> 0]]
  /\ halted = FALSE

-----------------------------------------------------------------------------
(* The kernel and the servers *)

Open(h) == table[h] # None /\ server[table[h]].open

(* A new session, and a number for its handle that is free. *)
OpenSession(h, x) ==
  /\ table[h] = None
  /\ (\A g \in Handles : table[g] # x) /\ (\A s \in Slots : svc[s].of # x)
  /\ table' = [table EXCEPT ![h] = x]
  /\ \E size \in Sizes :
       server' = [server EXCEPT ![x] = [open |-> TRUE, domain |-> FALSE, objects |-> {}, size |-> size]]

(* The session ends, and the number becomes free. *)
CloseHandle(h) ==
  /\ table' = [g \in Handles |-> IF g = h THEN None ELSE table[g]]
  /\ server' = [x \in Sessions |-> IF h # None /\ x = table[h] THEN [server[x] EXCEPT !.open = FALSE]
                                                               ELSE server[x]]

(* What a server can read. *)
Fits(x, m) ==
  /\ m.kind = "request"
  /\ IF m.tag = "Request" /\ server[x].domain THEN m.object \in server[x].objects ELSE m.object = None

(* What a server does with a request it can read. *)
Answer(t, x) ==
  LET m == tls[t]
      replies(ok, value) == tls' = [tls EXCEPT ![t] = Reply(m.command, IsDomain(m), ok, value)]
      object == \/ m.command = "convert"
                \/ m.command \in {"get", "logger"} /\ server[x].domain
  IN \/ /\ m.command # "release"
        /\ replies(FALSE, None) /\ UNCHANGED <<table, server>>
     \/ /\ m.command = "query"
        /\ replies(TRUE, server[x].size) /\ UNCHANGED <<table, server>>
     \/ /\ m.command = "plain"
        /\ replies(TRUE, None) /\ UNCHANGED <<table, server>>
     \/ /\ object
        /\ \E id \in Ids \ server[x].objects :
             /\ replies(TRUE, id)
             /\ server' = [server EXCEPT ![x].domain = TRUE, ![x].objects = @ \union {id}]
        /\ UNCHANGED table
     \/ /\ m.command \in {"get", "logger"} /\ ~object
        /\ \E h \in Handles, y \in Sessions : OpenSession(h, y) /\ replies(TRUE, h)
     \/ /\ m.command = "release"
        /\ replies(TRUE, None)
        /\ server' = [server EXCEPT ![x].objects = @ \ {m.object}]
        /\ UNCHANGED table

(* The kernel exchanges the message for a reply, or fails and leaves it.   *)
(* A server that is told to close the session does not reply; one that     *)
(* cannot read the message says so.                                        *)
SendSyncRequest(t, h, next) ==
  LET m == tls[t]
      done(ok) == call' = [call EXCEPT ![t].step = next, ![t].sent = ok]
  IN \/ /\ h = None \/ ~Open(h)
        /\ done(FALSE) /\ UNCHANGED <<tls, table, server>>
     \/ /\ h # None /\ Open(h) /\ Fits(table[h], m) /\ m.tag = "Close"
        /\ server' = [server EXCEPT ![table[h]].open = FALSE]
        /\ done(FALSE) /\ UNCHANGED <<tls, table>>
     \/ /\ h # None /\ Open(h) /\ Fits(table[h], m) /\ m.tag # "Close"
        /\ Answer(t, table[h])
        /\ done(TRUE)
     \/ /\ h # None /\ Open(h) /\ ~Fits(table[h], m)
        /\ tls' = [tls EXCEPT ![t] = Reply("unread", FALSE, FALSE, None)]
        /\ done(TRUE) /\ UNCHANGED <<table, server>>

(* A server ends a session on its own account. *)
ServerCloses(x) ==
  /\ server[x].open
  /\ server' = [server EXCEPT ![x].open = FALSE]
  /\ UNCHANGED <<svc, call, tls, logger, table, halted>>

-----------------------------------------------------------------------------
(* What callers do and when.  A Service is not converted, moved or         *)
(* destroyed while another thread uses it, one that owns its session       *)
(* outlives the others of the session, and there is room for results.      *)

Users(s) == {t \in Threads : ~Idle(call[t]) /\ call[t].slot = s}
Changing(s) == \E t \in Users(s) : call[t].op \in {"convert", "release"}
Usable(s) == svc[s].live /\ svc[s].session # None /\ ~Changing(s)
RoomForResults ==
  Cardinality({t \in Threads : ~Idle(call[t]) /\ call[t].op = "get"})
    < Cardinality({s \in Slots : ~svc[s].live})
LastOfSession(s) == \A o \in Slots \ {s} : svc[o].of # svc[s].of

(* sm::ServiceManager::initialize, or a handle from elsewhere. *)
Connect(t, s) ==
  /\ ~halted /\ Idle(call[t]) /\ ~svc[s].live /\ RoomForResults
  /\ \E h \in Handles, x \in Sessions :
       /\ OpenSession(h, x)
       /\ svc' = [svc EXCEPT ![s] = OwnerOf(h)']
  /\ UNCHANGED <<call, tls, logger, halted>>

Move(t, s, d) ==
  /\ ~halted /\ Idle(call[t]) /\ svc[s].live /\ Users(s) = {} /\ ~svc[d].live /\ RoomForResults
  /\ svc' = [svc EXCEPT ![d] = svc[s], ![s] = MovedFrom(svc[s])]
  /\ UNCHANGED <<call, tls, logger, table, server, halted>>

(* invokeRequest with a request that returns nothing or a subservice, and  *)
(* convertToDomain.                                                        *)
Begin(t, s, op) ==
  /\ ~halted /\ Idle(call[t]) /\ Usable(s)
  /\ op = "get" => RoomForResults
  /\ op = "convert" => Users(s) = {} /\ ~IsDomain(svc[s])
  /\ call' = [call EXCEPT ![t] = Doing(op, s)]
  /\ UNCHANGED <<svc, tls, logger, table, server, halted>>

(* IpcLogger::initialize asks the service manager for a session, unless    *)
(* there is one already.                                                   *)
InitializeLogger(t, s) ==
  /\ ~halted /\ Idle(call[t]) /\ Usable(s)
  /\ logger = None /\ ~IsDomain(svc[s])
  /\ call' = [call EXCEPT ![t] = Doing("logger", s)]
  /\ UNCHANGED <<svc, tls, logger, table, server, halted>>

(* A defect: only a Service that owns its handle is released. *)
DestroyOwner(t, s) ==
  /\ ~halted /\ Idle(call[t]) /\ svc[s].live /\ Users(s) = {}
  /\ svc[s].root /\ svc[s].owned => LastOfSession(s)
  /\ IF svc[s].owned
       THEN call' = [call EXCEPT ![t] = Doing("release", s)] /\ UNCHANGED svc
       ELSE svc' = [svc EXCEPT ![s] = Gone] /\ UNCHANGED call
  /\ UNCHANGED <<tls, logger, table, server, halted>>

(* ~Service: nothing to release, or release and what follows it. *)
Destroy(t, s) ==
  /\ ~halted /\ Idle(call[t]) /\ svc[s].live /\ Users(s) = {}
  /\ svc[s].root /\ svc[s].owned => LastOfSession(s)
  /\ IF svc[s].owned \/ IsDomain(svc[s])
       THEN call' = [call EXCEPT ![t] = Doing("release", s)] /\ UNCHANGED svc
       ELSE svc' = [svc EXCEPT ![s] = Gone] /\ UNCHANGED call
  /\ UNCHANGED <<tls, logger, table, server, halted>>

-----------------------------------------------------------------------------
(* A call *)

At(t, step) == ~halted /\ call[t].step = step
Subject(t) == svc[call[t].slot]

(* Request's constructor, which may have to ask for the size first. *)
Construct(t) ==
  /\ At(t, "new")
  /\ IF Subject(t).ptr # Unknown
       THEN /\ call' = [call EXCEPT ![t].step = "built", ![t].room = Subject(t).ptr]
            /\ UNCHANGED tls
       ELSE LET c == [call[t] EXCEPT !.step = "written", !.query = TRUE]
            IN /\ call' = [call EXCEPT ![t] = c]
               /\ tls' = [tls EXCEPT ![t] = Message(c, Subject(t))]
  /\ UNCHANGED <<svc, logger, table, server, halted>>

(* The caller vouches for the length; the rest is a u16. *)
AddInPointer(t, n) ==
  /\ At(t, "built") /\ call[t].op = "plain" /\ n > 0 /\ n <= call[t].room
  /\ call' = [call EXCEPT ![t].used = @ + n, ![t].room = (@ + Unknown + 1 - n) % (Unknown + 1)]
  /\ UNCHANGED <<svc, tls, logger, table, server, halted>>

(* A defect: whatever the room, data goes through the pointer buffer. *)
AddInAutoselectBlindly(t, n) ==
  /\ At(t, "built") /\ call[t].op = "plain" /\ n > 0
  /\ call' = [call EXCEPT ![t].used = @ + n, ![t].room = @ - n]
  /\ UNCHANGED <<svc, tls, logger, table, server, halted>>

(* Through the pointer buffer if it has room, else mapped, which takes     *)
(* nothing from it.                                                        *)
AddInAutoselect(t, n) ==
  /\ At(t, "built") /\ call[t].op = "plain"
  /\ call[t].room > 0 /\ n <= call[t].room /\ n > 0
  /\ call' = [call EXCEPT ![t].used = @ + n, ![t].room = @ - n]
  /\ UNCHANGED <<svc, tls, logger, table, server, halted>>

WriteToTls(t) ==
  /\ At(t, "built")
  /\ tls' = [tls EXCEPT ![t] = Message(call[t], Subject(t))]
  /\ Go(t, "written")
  /\ UNCHANGED <<svc, logger, table, server, halted>>

Send(t) ==
  /\ At(t, "written")
  /\ SendSyncRequest(t, Subject(t).session, "sent")
  /\ UNCHANGED <<svc, logger, halted>>

(* A defect: the request is taken to be in the buffer already. *)
AfterQueryWritten(c) == [c EXCEPT !.query = FALSE, !.step = "written"]
(* The construction goes on. *)
AfterQuery(c) == [c EXCEPT !.query = FALSE, !.step = "new"]

(* The answer to the nested query; without one the process aborts. *)
ReadPointerBufferSize(t) ==
  /\ At(t, "sent") /\ call[t].query
  /\ IF call[t].sent /\ tls[t].ok
       THEN /\ svc' = [svc EXCEPT ![call[t].slot].ptr = tls[t].value]
            /\ call' = [call EXCEPT ![t] = AfterQuery(call[t])]
            /\ UNCHANGED halted
       ELSE halted' = TRUE /\ UNCHANGED <<svc, call>>
  /\ UNCHANGED <<tls, logger, table, server>>

(* nextSubservice *)
NextSubservice(s, value) ==
  IF IsDomain(s) THEN DomainSubservice(s, value) ELSE FromHandle(value, table[value])

(* The reply is read, and the extractor makes of it what the caller wants. *)
ReadFromTls(t) ==
  /\ At(t, "sent") /\ ~call[t].query /\ call[t].op # "release"
  /\ LET ok == call[t].sent /\ tls[t].ok
         op == call[t].op
         s == call[t].slot
     IN /\ \/ /\ ok /\ op = "convert"
              /\ svc' = [svc EXCEPT ![s].object = tls[t].value] /\ UNCHANGED logger
           \/ /\ ok /\ op = "get"
              /\ \E d \in Slots : ~svc[d].live /\ svc' = [svc EXCEPT ![d] = NextSubservice(svc[s], tls[t].value)]
              /\ UNCHANGED logger
           \/ /\ ok /\ op = "logger"
              /\ logger' = tls[t].value /\ UNCHANGED svc
           \/ /\ ~ok \/ op = "plain"
              /\ UNCHANGED <<svc, logger>>
  /\ Return(t)
  /\ UNCHANGED <<table, server, halted>>

(* The rest of the destructor.  release has sent its request, whose reply  *)
(* is not read, and what the buffer holds is sent once more.               *)
SendAgain(t) ==
  /\ At(t, "sent") /\ ~call[t].query /\ call[t].op = "release"
  /\ SendSyncRequest(t, Subject(t).session, "again")
  /\ UNCHANGED <<svc, logger, halted>>

EndOfDestructor(t) ==
  /\ At(t, "again")
  /\ IF Subject(t).owned THEN CloseHandle(Subject(t).session) ELSE UNCHANGED <<table, server>>
  /\ svc' = [svc EXCEPT ![call[t].slot] = Gone]
  /\ Return(t)
  /\ UNCHANGED <<logger, halted>>

(* IpcLogger::logImpl, wherever the thread is not in the middle of a call. *)
Log(t) ==
  /\ At(t, "idle") \/ At(t, "built")
  /\ logger # None
  /\ IF Open(logger) THEN tls' = [tls EXCEPT ![t] = Nothing] /\ UNCHANGED halted
                     ELSE halted' = TRUE /\ UNCHANGED tls
  /\ UNCHANGED <<svc, call, logger, table, server>>

Next ==
  \/ \E t \in Threads, s \in Slots :
       \/ Connect(t, s) \/ Destroy(t, s) \/ InitializeLogger(t, s)
       \/ \E d \in Slots \ {s} : Move(t, s, d)
       \/ \E op \in {"plain", "get", "convert"} : Begin(t, s, op)
  \/ \E t \in Threads :
       \/ Construct(t) \/ WriteToTls(t) \/ Send(t) \/ ReadPointerBufferSize(t) \/ ReadFromTls(t)
       \/ SendAgain(t) \/ EndOfDestructor(t) \/ Log(t)
       \/ \E n \in Lengths : AddInPointer(t, n) \/ AddInAutoselect(t, n)
  \/ \E x \in Sessions : ServerCloses(x)

Spec == Init /\ [][Next]_vars

-----------------------------------------------------------------------------
(* Properties *)

(* The types of the variables; the rest of the pointer buffer is a u16. *)
TypeOK ==
  /\ svc \in [Slots -> [session : Handles \union {None}, object : Ids \union {None}, owned : BOOLEAN,
                        ptr : 0 .. Unknown, of : Sessions \union {None}, root : BOOLEAN, live : BOOLEAN]]
  /\ call \in [Threads -> [op : {"plain", "get", "logger", "convert", "release"}, slot : Slots \union {None},
                           step : {"idle", "new", "built", "written", "sent", "again"},
                           query : BOOLEAN, room : 0 .. Unknown, used : 0 .. Unknown, sent : BOOLEAN]]
  /\ logger \in Handles \union {None}
  /\ table \in [Handles -> Sessions \union {None}]
  /\ server \in [Sessions -> [open : BOOLEAN, domain : BOOLEAN,
                              objects : SUBSET Ids, size : Sizes \union {0}]]
  /\ halted \in BOOLEAN

(* A Service's handle is that of the session it was made for until the     *)
(* Service is destroyed: it is closed by nobody else, so that neither a    *)
(* request nor a close reaches a session that got the same number later.   *)
HandleIsItsOwn ==
  \A s \in Slots : svc[s].session # None => table[svc[s].session] = svc[s].of

(* Whatever a thread is about to send, its server can read: a control      *)
(* request never has a domain header, a request to a domain names an       *)
(* object that exists; and the data for the pointer buffer fits in it.     *)
RequestsFit ==
  \A t \in Threads :
    call[t].step = "written" /\ Open(Subject(t).session) =>
      LET x == table[Subject(t).session]
      IN Fits(x, tls[t]) /\ tls[t].pointers <= server[x].size

(* The reply that is read answers the request that was written, and has    *)
(* the headers that the Service expects.                                   *)
RepliesFit ==
  \A t \in Threads :
    call[t].step = "sent" /\ call[t].sent =>
      tls[t].command = Command(call[t]) /\ tls[t].domain = IsDomain(Subject(t))

(* Every object that a server keeps for us is held by one Service, or on   *)
(* its way in a reply: none leaks, none is released twice.                 *)
Releasing(s) == \E t \in Users(s) : call[t].op = "release" /\ ~call[t].query /\ call[t].step \in {"sent", "again"}
Holders(x, id) == {s \in Slots : svc[s].of = x /\ svc[s].object = id /\ ~Releasing(s)}
Arriving(x, id) ==
  {t \in Threads : /\ call[t].step = "sent" /\ call[t].sent /\ Command(call[t]) \in {"get", "convert", "logger"}
                   /\ Subject(t).of = x /\ server[x].domain
                   /\ tls[t].ok /\ tls[t].value = id}
ObjectsAreHeld ==
  \A x \in Sessions : server[x].open =>
    \A id \in Ids :
      Cardinality(Holders(x, id)) + Cardinality(Arriving(x, id)) = IF id \in server[x].objects THEN 1 ELSE 0
=============================================================================
