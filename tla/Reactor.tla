------------------------------- MODULE Reactor -------------------------------
(***************************************************************************)
(* The event loop (reactor.cpp), the listener's handler and the handlers   *)
(* of the connections (main.cpp), and the life of a file descriptor: given *)
(* by accept, entered in handlers_, closed by ~Connection and given again. *)
(*                                                                         *)
(* One thread runs everything.  poll() takes a snapshot of the readable    *)
(* fds, and the loop then calls one handler after the other from that      *)
(* snapshot while handlers accept and close connections.  All sockets are  *)
(* blocking: a read with nothing to read, or a write to a client that does *)
(* not drain its side, stops every other client too.                       *)
(***************************************************************************)
EXTENDS Naturals, Sequences

CONSTANTS
  Clients,     \* connections that may ever be made, one Player each
  NoClient,
  MaxFd,       \* RLIMIT_NOFILE: fds 1 to MaxFd, the listener's is 1
  MaxUnread,   \* bound: chunks of data a client has on the way
  SendBuffer,  \* what the kernel buffers towards a client, in messages
  Watched      \* the clients the liveness properties are stated for

ASSUME ReactorAssumption ==
  /\ NoClient \notin Clients /\ Watched \subseteq Clients
  /\ MaxFd \in Nat \ {0} /\ MaxUnread \in Nat \ {0} /\ SendBuffer \in Nat \ {0}

Listener == 1
Fds == 1 .. MaxFd

VARIABLES
  backlog,    \* clients that connected and were not accepted yet, in order
  table,      \* the kernel's: the client each open fd is connected to
  handlers,   \* the keys of Reactor::handlers_
  unread,     \* chunks from each client, not read by the server
  hungUp,     \* clients that closed or reset their side
  unsent,     \* messages to each client, not drained by it
  pass,       \* pollfds with revents # 0 that are still to be looked at
  running,    \* the client whose handler runs, or NoClient
  writing,    \* clients the running handler has still to write to
  failed,     \* the running handler's Read returned Err
  gone        \* clients whose Connection was destroyed

vars == <<backlog, table, handlers, unread, hungUp, unsent,
          pass, running, writing, failed, gone>>

ClientOf(fd) == table[fd]
FdOf(k) == CHOOSE fd \in Fds : table[fd] = k
Connected == {k \in Clients : \E fd \in Fds : table[fd] = k}
FreeFds == {fd \in Fds \ {Listener} : table[fd] = NoClient}
Waiting == {backlog[i] : i \in DOMAIN backlog}

Readable(fd) ==
  IF fd = Listener THEN backlog # <<>>
  ELSE unread[ClientOf(fd)] > 0 \/ ClientOf(fd) \in hungUp

Init ==
  /\ backlog = <<>>
  /\ table = [fd \in Fds |-> NoClient]
  /\ handlers = {Listener}
  /\ unread = [k \in Clients |-> 0]
  /\ hungUp = {}
  /\ unsent = [k \in Clients |-> 0]
  /\ pass = {}
  /\ running = NoClient
  /\ writing = {}
  /\ failed = FALSE
  /\ gone = {}

-----------------------------------------------------------------------------
(* The clients. *)

server == <<table, handlers, pass, running, writing, failed, gone>>

Connect(k) ==
  /\ k \notin Waiting \union Connected \union gone
  /\ backlog' = Append(backlog, k)
  /\ UNCHANGED <<unread, hungUp, unsent, server>>

Say(k) ==
  /\ k \in Waiting \union Connected
  /\ k \notin hungUp
  /\ unread[k] < MaxUnread
  /\ unread' = [unread EXCEPT ![k] = @ + 1]
  /\ UNCHANGED <<backlog, hungUp, unsent, server>>

HangUp(k) ==
  /\ k \in Waiting \union Connected
  /\ k \notin hungUp
  /\ hungUp' = hungUp \union {k}
  /\ UNCHANGED <<backlog, unread, unsent, server>>

Drain(k) ==
  /\ unsent[k] > 0
  /\ unsent' = [unsent EXCEPT ![k] = @ - 1]
  /\ UNCHANGED <<backlog, unread, hungUp, server>>

-----------------------------------------------------------------------------
(* Reactor::Run. *)

\* A variant: only the first readable fd is dispatched.
FirstReady == {fd \in handlers : Readable(fd) /\
                 \A other \in handlers : Readable(other) => fd <= other}

\* A variant: only the last readable fd is dispatched.
LastReady == {fd \in handlers : Readable(fd) /\
                \A other \in handlers : Readable(other) => other <= fd}

\* What poll reports.
Ready == {fd \in handlers : Readable(fd)}

\* The entries of the snapshot that still have a handler.  The loop skips the
\* others.
Pending == pass \intersect handlers

\* poll returns once something is readable.
Poll ==
  /\ running = NoClient /\ Pending = {}
  /\ Ready # {}
  /\ pass' = Ready
  /\ UNCHANGED <<backlog, table, handlers, unread, hungUp, unsent,
                 running, writing, failed, gone>>

\* The listener's handler: accept gives the lowest free fd and the connection
\* gets a handler of its own.
Accept ==
  /\ running = NoClient
  /\ Listener \in Pending
  /\ pass' = pass \ {Listener}
  /\ \E fd \in FreeFds :
       /\ \A other \in FreeFds : fd <= other
       /\ table' = [table EXCEPT ![fd] = Head(backlog)]
       /\ handlers' = handlers \union {fd}
  /\ backlog' = Tail(backlog)
  /\ UNCHANGED <<unread, hungUp, unsent, running, writing, failed, gone>>

\* With no fd left accept fails at once and the handler returns.
AcceptFails ==
  /\ running = NoClient
  /\ Listener \in Pending
  /\ FreeFds = {}
  /\ pass' = pass \ {Listener}
  /\ UNCHANGED <<backlog, table, handlers, unread, hungUp, unsent,
                 running, writing, failed, gone>>

\* A connection's handler calls Read.  It takes what there is, decides, by
\* what the bytes say, whom to write to, and returns Ok or, at the end of the
\* stream or for what it cannot accept, Err.  On a live socket with nothing to
\* read it would wait.
StartRead(fd) ==
  LET k == ClientOf(fd) IN
  /\ running = NoClient
  /\ fd \in Pending \ {Listener}
  /\ Readable(fd)
  /\ pass' = pass \ {fd}
  /\ running' = k
  /\ \E n \in 0 .. unread[k] :
       /\ n = 0 <=> unread[k] = 0
       /\ unread' = [unread EXCEPT ![k] = @ - n]
  /\ failed' \in (IF unread[k] = 0 THEN {TRUE} ELSE BOOLEAN)
  /\ writing' \in SUBSET Connected
  /\ UNCHANGED <<backlog, table, handlers, hungUp, unsent, gone>>

\* A variant: a write does not wait for the client.
AlwaysTakes(q) == TRUE

\* write() returns only once the kernel has taken the message.
Takes(q) == unsent[q] < SendBuffer

\* Connection::Write of one message.  It blocks while the client's buffer is
\* full, and comes back at once from a client that is gone.
Write(q) ==
  /\ running # NoClient
  /\ q \in writing
  /\ \/ q \in hungUp /\ UNCHANGED unsent
     \/ Takes(q) /\ unsent' = [unsent EXCEPT ![q] = @ + 1]
  /\ writing' = writing \ {q}
  /\ UNCHANGED <<backlog, table, handlers, unread, hungUp,
                 pass, running, failed, gone>>

\* A variant: the connections written to are closed with this one.
CloseWithPeers(k) == {k} \union {q \in Connected : unsent[q] > 0}

\* A variant: the handler stays registered.
CloseNothing(k) == {}

\* The connections that go with the Player cleaned up: its own.
Closes(k) == {k}

\* A variant: the fd is closed but its handler stays.
KeepHandlers(ks) == handlers

\* Reactor::Remove, called by ~Connection before it closes the fd.
Remove(ks) == handlers \ {FdOf(k) : k \in ks}

\* The handler returns when all is written.  After Err Cleanup took the client
\* out of the hub; the handler's own pointer kept the Player until here, and
\* with it goes the connection.
Finish ==
  /\ running # NoClient /\ writing = {}
  /\ running' = NoClient
  /\ failed' = FALSE
  /\ IF failed
     THEN /\ handlers' = Remove(Closes(running))
          /\ table' = [fd \in Fds |-> IF table[fd] \in Closes(running)
                                      THEN NoClient ELSE table[fd]]
          /\ gone' = gone \union Closes(running)
     ELSE UNCHANGED <<handlers, table, gone>>
  /\ UNCHANGED <<backlog, unread, hungUp, unsent, pass, writing>>

Server ==
  \/ Poll
  \/ \E fd \in Fds : StartRead(fd)
  \/ Accept
  \/ AcceptFails
  \/ \E q \in Clients : Write(q)
  \/ Finish

Next ==
  \/ Server
  \/ \E k \in Clients : Connect(k) \/ Say(k) \/ HangUp(k) \/ Drain(k)

Spec == Init /\ [][Next]_vars

\* The process runs.  Clients owe nothing, not even to read.
FairSpec == Spec /\ WF_vars(Server)

-----------------------------------------------------------------------------
(* Properties. *)

\* Every variable holds a value of its kind, and no client's send buffer takes
\* more than it has room for.
TypeOK ==
  /\ backlog \in Seq(Clients)
  /\ table \in [Fds -> Clients \union {NoClient}]
  /\ handlers \subseteq Fds /\ pass \subseteq Fds
  /\ unread \in [Clients -> 0 .. MaxUnread]
  /\ unsent \in [Clients -> 0 .. SendBuffer]
  /\ hungUp \subseteq Clients /\ writing \subseteq Clients
  /\ gone \subseteq Clients
  /\ running \in Clients \union {NoClient}
  /\ failed \in BOOLEAN

\* A read never blocks the loop: whatever the handlers called before it in the
\* same pass accepted, closed and gave a used fd to, an fd the loop is about
\* to dispatch still has something to read.
NoReadBlocks ==
  running = NoClient => \A fd \in Pending : Readable(fd)

\* handlers_ has an entry for the listener and for each connection, and for
\* nothing else: poll is never given a closed fd, nor a stranger's.  No two
\* fds are one client's.
HandlersMatchFds ==
  /\ handlers = {Listener} \union {fd \in Fds : table[fd] # NoClient}
  /\ \A fd, other \in Fds :
       table[fd] = table[other] /\ table[fd] # NoClient => fd = other

\* Connection::Write waits for a client that is there and does not read.
Stuck == \E q \in writing \ hungUp : ~Takes(q)

\* A client the server could read from is read from.  Only a write that waits
\* forever, for one client that never reads, can keep the others from it.
EveryReadableClientServed ==
  []<>~Stuck => \A k \in Watched :
    (k \in Connected /\ Readable(FdOf(k))) ~> (running = k \/ k \in gone)

\* A client that went is noticed, after all it had sent was read, unless a
\* write waits forever.
EveryHangUpNoticed ==
  []<>~Stuck => \A k \in Watched :
    (k \in Connected /\ k \in hungUp) ~> (k \in gone)

\* A client that connects is accepted, unless a write waits forever or the
\* process is out of fds.
EveryClientAccepted ==
  []<>~Stuck => \A k \in Watched :
    (k \in Waiting) ~> (k \notin Waiting \/ FreeFds = {})

=============================================================================
