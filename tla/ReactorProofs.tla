---------------------------- MODULE ReactorProofs ----------------------------
(***************************************************************************)
(* Theorems about the event loop, for any set of clients, any number of    *)
(* descriptors and any size of the buffers.                                *)
(***************************************************************************)
EXTENDS Reactor, TLAPS

-----------------------------------------------------------------------------
(* The invariant. *)

\* The listener's descriptor is no connection's.
ListenerIsNoConnection == table[Listener] = NoClient

\* A client waits in the backlog once, and before it is connected.
BacklogIsDistinct ==
  /\ \A i, j \in DOMAIN backlog : backlog[i] = backlog[j] => i = j
  /\ \A i \in DOMAIN backlog, fd \in Fds : table[fd] # backlog[i]

\* Nothing of the snapshot that is still to be looked at is stale: no handler
\* it names was removed since poll returned, and no data it announces was read.
PassIsFresh ==
  /\ pass \subseteq handlers
  /\ \A fd \in pass : Readable(fd)

\* The connection whose handler runs is open, and not looked at again in this
\* pass.
RunningIsConnected == running # NoClient => running \in Connected
RunningWasLookedAt ==
  running # NoClient => \A fd \in pass : table[fd] # running

\* NoReadBlocks is not inductive, as between two dispatches a handler runs that
\* closes a connection, and accept gives its descriptor away: what makes the
\* rest of the snapshot valid is that a handler closes no connection but its
\* own, whose entry is no longer in the snapshot.
IInv ==
  /\ TypeOK
  /\ HandlersMatchFds
  /\ RunningIsConnected
  /\ ListenerIsNoConnection
  /\ BacklogIsDistinct
  /\ PassIsFresh
  /\ RunningWasLookedAt

-----------------------------------------------------------------------------
(* Operators. *)

\* The descriptor of a connected client is the one the kernel has for it.
LEMMA FdOfConnected ==
  ASSUME HandlersMatchFds, ReactorAssumption, NEW k \in Connected
  PROVE  /\ FdOf(k) \in Fds
         /\ \A fd \in Fds : table[fd] = k <=> fd = FdOf(k)
<1>1. \E fd \in Fds : table[fd] = k
  BY DEF Connected
<1>2. FdOf(k) \in Fds /\ table[FdOf(k)] = k
  BY <1>1 DEF FdOf
<1>3. k # NoClient
  BY DEF Connected, ReactorAssumption
<1> QED
  BY <1>2, <1>3 DEF HandlersMatchFds

\* What is left of a backlog once its first is taken.
LEMMA BacklogTail ==
  ASSUME NEW s \in Seq(Clients), s # <<>>
  PROVE  /\ Head(s) \in Clients /\ Head(s) = s[1] /\ 1 \in DOMAIN s
         /\ Tail(s) \in Seq(Clients)
         /\ \A i \in DOMAIN Tail(s) : i \in Nat /\ i + 1 \in DOMAIN s /\ Tail(s)[i] = s[i + 1]
OBVIOUS

\* What is in a backlog once another client has come.
LEMMA BacklogAppend ==
  ASSUME NEW s \in Seq(Clients), NEW k \in Clients
  PROVE  /\ Append(s, k) \in Seq(Clients)
         /\ \A i \in DOMAIN Append(s, k) :
              \/ i \in DOMAIN s /\ Append(s, k)[i] = s[i]
              \/ i = Len(s) + 1 /\ Append(s, k)[i] = k
OBVIOUS

-----------------------------------------------------------------------------
(* The steps. *)

LEMMA InitIInv == Init => IInv
<1> SUFFICES ASSUME Init PROVE IInv
  OBVIOUS
<1> USE ReactorAssumption DEF Init, Fds, Listener, ReactorAssumption
<1>1. Listener \in Fds
  OBVIOUS
<1>2. TypeOK
  <2>1. failed \in BOOLEAN
    BY Zenon
  <2> QED
    BY <1>1, <2>1 DEF TypeOK
<1>3. HandlersMatchFds /\ RunningIsConnected /\ ListenerIsNoConnection
  BY <1>1 DEF HandlersMatchFds, RunningIsConnected, ListenerIsNoConnection
<1>4. BacklogIsDistinct /\ PassIsFresh /\ RunningWasLookedAt
  BY DEF BacklogIsDistinct, PassIsFresh, RunningWasLookedAt
<1> QED
  BY <1>2, <1>3, <1>4 DEF IInv

LEMMA ConnectIInv ==
  ASSUME IInv, NEW k \in Clients, Connect(k)
  PROVE  IInv'
<1> USE ReactorAssumption DEF IInv, Connect, server
<1>1. backlog \in Seq(Clients)
  BY DEF TypeOK
<1>2. TypeOK'
  BY <1>1, BacklogAppend DEF TypeOK
<1>3. HandlersMatchFds' /\ RunningIsConnected' /\ ListenerIsNoConnection'
      /\ RunningWasLookedAt'
  BY DEF HandlersMatchFds, RunningIsConnected, Connected, ListenerIsNoConnection,
         RunningWasLookedAt
<1>4. BacklogIsDistinct'
  <2>1. \A i \in DOMAIN backlog : backlog[i] # k
    BY DEF Waiting
  <2>2. \A fd \in Fds : table[fd] # k
    BY DEF Connected
  <2> QED
    BY <1>1, <2>1, <2>2, BacklogAppend DEF BacklogIsDistinct
<1>5. PassIsFresh'
  BY <1>1 DEF PassIsFresh, Readable, ClientOf
<1> QED
  BY <1>2, <1>3, <1>4, <1>5

\* Say, HangUp and Drain change neither descriptors nor handlers, and leave
\* readable what was.
LEMMA ClientIInv ==
  ASSUME IInv, NEW k \in Clients, Say(k) \/ HangUp(k) \/ Drain(k)
  PROVE  IInv'
<1> USE ReactorAssumption DEF IInv, server
<1>1. TypeOK'
  <2>1. CASE Say(k)
    BY <2>1 DEF TypeOK, Say, ReactorAssumption
  <2>2. CASE HangUp(k)
    BY <2>2 DEF TypeOK, HangUp
  <2>3. CASE Drain(k)
    BY <2>3 DEF TypeOK, Drain, ReactorAssumption
  <2> QED
    BY <2>1, <2>2, <2>3
<1>2. UNCHANGED <<backlog, server>>
  BY DEF Say, HangUp, Drain
<1>3. HandlersMatchFds' /\ RunningIsConnected' /\ ListenerIsNoConnection'
      /\ RunningWasLookedAt' /\ BacklogIsDistinct'
  BY <1>2 DEF HandlersMatchFds, RunningIsConnected, Connected, ListenerIsNoConnection,
         RunningWasLookedAt, BacklogIsDistinct
<1>4. \A q \in Clients : unread[q] > 0 \/ q \in hungUp => unread'[q] > 0 \/ q \in hungUp'
  BY DEF Say, HangUp, Drain, TypeOK, ReactorAssumption
<1>5. PassIsFresh'
  <2> SUFFICES ASSUME NEW fd \in pass, fd # Listener
               PROVE  unread'[table[fd]] > 0 \/ table[fd] \in hungUp'
    BY <1>2 DEF PassIsFresh, Readable, ClientOf
  <2>1. table[fd] \in Clients
    BY DEF PassIsFresh, HandlersMatchFds, TypeOK
  <2> QED
    BY <1>4, <2>1 DEF PassIsFresh, Readable, ClientOf
<1> QED
  BY <1>1, <1>3, <1>5

LEMMA PollIInv ==
  ASSUME IInv, Poll
  PROVE  IInv'
<1> USE ReactorAssumption DEF IInv, Poll
<1>1. TypeOK'
  BY DEF TypeOK, Ready
<1>2. HandlersMatchFds' /\ RunningIsConnected' /\ ListenerIsNoConnection'
      /\ RunningWasLookedAt' /\ BacklogIsDistinct'
  BY DEF HandlersMatchFds, RunningIsConnected, Connected, ListenerIsNoConnection,
         RunningWasLookedAt, BacklogIsDistinct
<1>3. PassIsFresh'
  BY DEF PassIsFresh, Ready, Readable, ClientOf
<1> QED
  BY <1>1, <1>2, <1>3

LEMMA AcceptIInv ==
  ASSUME IInv, Accept
  PROVE  IInv'
<1> USE ReactorAssumption DEF IInv
<1>1. PICK new \in FreeFds :
        /\ table' = [table EXCEPT ![new] = Head(backlog)]
        /\ handlers' = handlers \union {new}
  BY DEF Accept
<1>2. /\ Listener \in pass /\ pass' = pass \ {Listener}
      /\ backlog' = Tail(backlog) /\ running = NoClient
      /\ UNCHANGED <<unread, hungUp, unsent, running, writing, failed, gone>>
  BY DEF Accept, Pending
<1>3. backlog \in Seq(Clients) /\ backlog # <<>>
  BY <1>2 DEF TypeOK, PassIsFresh, Readable
<1> DEFINE k == Head(backlog)
<1>4. k \in Clients /\ k = backlog[1] /\ 1 \in DOMAIN backlog
  BY <1>3, BacklogTail
<1>5. new \in Fds /\ new # Listener /\ table[new] = NoClient /\ new \notin handlers
  BY DEF FreeFds, HandlersMatchFds
<1>6. table' \in [Fds -> Clients \union {NoClient}] /\ table'[new] = k
      /\ \A fd \in Fds \ {new} : table'[fd] = table[fd]
  BY <1>1, <1>4, <1>5 DEF TypeOK
<1> HIDE DEF k
<1>7. TypeOK'
  BY <1>1, <1>2, <1>3, <1>5, <1>6, BacklogTail DEF TypeOK
<1>8. HandlersMatchFds'
  <2>1. \A fd \in Fds : table[fd] # k
    BY <1>4 DEF BacklogIsDistinct
  <2>2. k # NoClient
    BY <1>4 DEF ReactorAssumption
  <2>3. handlers' = {Listener} \union {fd \in Fds : table'[fd] # NoClient}
    BY <1>1, <1>5, <1>6, <2>2 DEF HandlersMatchFds
  <2>4. ASSUME NEW fd \in Fds, NEW other \in Fds,
               table'[fd] = table'[other], table'[fd] # NoClient
        PROVE  fd = other
    BY <1>5, <1>6, <2>1, <2>4 DEF HandlersMatchFds
  <2> QED
    BY <2>3, <2>4 DEF HandlersMatchFds
<1>9. RunningIsConnected' /\ RunningWasLookedAt'
  BY <1>2 DEF RunningIsConnected, RunningWasLookedAt
<1>10. ListenerIsNoConnection'
  <2>1. Listener \in Fds
    BY DEF TypeOK, PassIsFresh, Accept, Pending
  <2> QED
    BY <1>5, <1>6, <2>1 DEF ListenerIsNoConnection
<1>11. BacklogIsDistinct'
  <2>1. ASSUME NEW i \in DOMAIN backlog', NEW j \in DOMAIN backlog',
               backlog'[i] = backlog'[j]
        PROVE  i = j
    <3>1. i + 1 \in DOMAIN backlog /\ j + 1 \in DOMAIN backlog
          /\ backlog[i + 1] = backlog[j + 1]
      BY <1>2, <1>3, <2>1, BacklogTail
    <3>2. i + 1 = j + 1
      BY <3>1 DEF BacklogIsDistinct
    <3>3. i \in Nat /\ j \in Nat
      BY <1>2, <1>3, BacklogTail
    <3> QED
      BY <3>2, <3>3
  <2>2. ASSUME NEW i \in DOMAIN backlog', NEW fd \in Fds
        PROVE  table'[fd] # backlog'[i]
    <3>1. i + 1 \in DOMAIN backlog /\ backlog'[i] = backlog[i + 1] /\ i \in Nat /\ i + 1 # 1
      BY <1>2, <1>3, BacklogTail
    <3>2. backlog[i + 1] # k
      BY <1>4, <3>1 DEF BacklogIsDistinct
    <3>3. backlog[i + 1] # table[fd]
      BY <3>1 DEF BacklogIsDistinct
    <3> QED
      BY <1>6, <3>1, <3>2, <3>3
  <2> QED
    BY <2>1, <2>2 DEF BacklogIsDistinct
<1>12. PassIsFresh'
  <2> SUFFICES ASSUME NEW fd \in pass'
               PROVE  fd \in handlers' /\ Readable(fd)'
    BY DEF PassIsFresh
  <2>1. fd \in pass /\ fd # Listener /\ fd \in handlers /\ Readable(fd)
    BY <1>2 DEF PassIsFresh
  <2>2. table'[fd] = table[fd]
    BY <1>5, <1>6, <2>1 DEF TypeOK
  <2> QED
    BY <1>1, <1>2, <2>1, <2>2 DEF Readable, ClientOf
<1> QED
  BY <1>7, <1>8, <1>9, <1>10, <1>11, <1>12

LEMMA AcceptFailsIInv ==
  ASSUME IInv, AcceptFails
  PROVE  IInv'
<1> USE ReactorAssumption DEF IInv, AcceptFails
<1>1. TypeOK'
  BY DEF TypeOK
<1>2. HandlersMatchFds' /\ RunningIsConnected' /\ ListenerIsNoConnection'
      /\ RunningWasLookedAt' /\ BacklogIsDistinct'
  BY DEF HandlersMatchFds, RunningIsConnected, Connected, ListenerIsNoConnection,
         RunningWasLookedAt, BacklogIsDistinct
<1>3. PassIsFresh'
  BY DEF PassIsFresh, Readable, ClientOf
<1> QED
  BY <1>1, <1>2, <1>3

LEMMA StartReadIInv ==
  ASSUME IInv, NEW fd \in Fds, StartRead(fd)
  PROVE  IInv'
<1> USE ReactorAssumption DEF IInv
<1> DEFINE k == table[fd]
<1>1. /\ running = NoClient /\ running' = k
      /\ fd \in pass /\ fd \in handlers /\ fd # Listener /\ pass' = pass \ {fd}
      /\ writing' \in SUBSET Connected
      /\ UNCHANGED <<backlog, table, handlers, hungUp, unsent, gone>>
  BY DEF StartRead, Pending, ClientOf
<1>2. k \in Clients
  BY <1>1 DEF HandlersMatchFds, TypeOK
<1>3. PICK n \in 0 .. unread[k] : unread' = [unread EXCEPT ![k] = @ - n]
  BY DEF StartRead, ClientOf
<1>4. unread' \in [Clients -> 0 .. MaxUnread]
      /\ \A q \in Clients \ {k} : unread'[q] = unread[q]
  BY <1>2, <1>3 DEF TypeOK, ReactorAssumption
<1>5. failed' \in BOOLEAN
  BY DEF StartRead
<1>6. TypeOK'
  BY <1>1, <1>2, <1>4, <1>5 DEF TypeOK, Connected
<1>7. HandlersMatchFds' /\ ListenerIsNoConnection' /\ BacklogIsDistinct'
  BY <1>1 DEF HandlersMatchFds, ListenerIsNoConnection, BacklogIsDistinct
<1>8. RunningIsConnected'
  BY <1>1, <1>2 DEF RunningIsConnected, Connected
<1>9. \A other \in pass' : other \in Fds /\ other \in handlers /\ (other # Listener => table[other] \in Clients \ {k})
  BY <1>1, <1>2 DEF PassIsFresh, TypeOK, HandlersMatchFds
<1>10. PassIsFresh'
  <2> SUFFICES ASSUME NEW other \in pass'
               PROVE  other \in handlers' /\ Readable(other)'
    BY DEF PassIsFresh
  <2>1. Readable(other)
    BY <1>1 DEF PassIsFresh
  <2> QED
    BY <1>1, <1>4, <1>9, <2>1 DEF Readable, ClientOf
<1>11. RunningWasLookedAt'
  BY <1>1, <1>2, <1>9 DEF RunningWasLookedAt, ListenerIsNoConnection, ReactorAssumption
<1> QED
  BY <1>6, <1>7, <1>8, <1>10, <1>11

LEMMA WriteIInv ==
  ASSUME IInv, NEW q \in Clients, Write(q)
  PROVE  IInv'
<1> USE ReactorAssumption DEF IInv, Write
<1>1. TypeOK'
  BY DEF TypeOK, Takes, ReactorAssumption
<1>2. HandlersMatchFds' /\ RunningIsConnected' /\ ListenerIsNoConnection'
      /\ RunningWasLookedAt' /\ BacklogIsDistinct'
  BY DEF HandlersMatchFds, RunningIsConnected, Connected, ListenerIsNoConnection,
         RunningWasLookedAt, BacklogIsDistinct
<1>3. PassIsFresh'
  BY DEF PassIsFresh, Readable, ClientOf
<1> QED
  BY <1>1, <1>2, <1>3

LEMMA FinishIInv ==
  ASSUME IInv, Finish
  PROVE  IInv'
<1> USE ReactorAssumption DEF IInv
<1>1. /\ running \in Clients /\ writing = {} /\ running' = NoClient /\ failed' = FALSE
      /\ UNCHANGED <<backlog, unread, hungUp, unsent, pass, writing>>
  BY DEF Finish, TypeOK
<1>2. RunningIsConnected' /\ RunningWasLookedAt'
  BY <1>1 DEF RunningIsConnected, RunningWasLookedAt
<1>3. CASE ~ failed
  <2>1. UNCHANGED <<handlers, table, gone>>
    BY <1>3 DEF Finish
  <2> QED
    BY <1>1, <1>2, <2>1 DEF TypeOK, HandlersMatchFds, ListenerIsNoConnection,
       BacklogIsDistinct, PassIsFresh, Readable, ClientOf
<1>4. CASE failed
  <2> DEFINE own == FdOf(running)
  <2>1. running \in Connected
    BY <1>1 DEF RunningIsConnected, ReactorAssumption
  <2>2. own \in Fds /\ \A fd \in Fds : table[fd] = running <=> fd = own
    BY <2>1, FdOfConnected
  <2>3. /\ handlers' = handlers \ {own}
        /\ table' = [fd \in Fds |-> IF fd = own THEN NoClient ELSE table[fd]]
        /\ gone' = gone \union {running}
    BY <1>4, <2>2 DEF Finish, Remove, Closes
  <2>4. own \notin pass /\ own # Listener
    BY <1>1, <2>1, <2>2 DEF RunningWasLookedAt, ListenerIsNoConnection, ReactorAssumption
  <2> HIDE DEF own
  <2>5. TypeOK'
    BY <1>1, <2>3 DEF TypeOK
  <2>6. HandlersMatchFds'
    BY <2>2, <2>3, <2>4 DEF HandlersMatchFds
  <2>7. ListenerIsNoConnection'
    BY <2>2, <2>3, <2>4 DEF ListenerIsNoConnection, Listener, Fds, ReactorAssumption
  <2>8. BacklogIsDistinct'
    <3>1. \A i \in DOMAIN backlog : backlog[i] \in Clients
      BY DEF TypeOK
    <3> QED
      BY <1>1, <2>3, <3>1 DEF BacklogIsDistinct, ReactorAssumption
  <2>9. PassIsFresh'
    BY <1>1, <2>3, <2>4 DEF PassIsFresh, Readable, ClientOf, TypeOK
  <2> QED
    BY <1>2, <2>5, <2>6, <2>7, <2>8, <2>9
<1> QED
  BY <1>3, <1>4

LEMMA StepIInv ==
  ASSUME IInv, [Next]_vars
  PROVE  IInv'
<1>1. CASE UNCHANGED vars
  BY <1>1 DEF vars, IInv, TypeOK, HandlersMatchFds, RunningIsConnected, Connected,
     ListenerIsNoConnection, BacklogIsDistinct, PassIsFresh, RunningWasLookedAt,
     Readable, ClientOf
<1>2. CASE Server
  BY <1>2, PollIInv, StartReadIInv, AcceptIInv, AcceptFailsIInv, WriteIInv,
     FinishIInv DEF Server
<1>3. CASE \E k \in Clients : Connect(k) \/ Say(k) \/ HangUp(k) \/ Drain(k)
  BY <1>3, ConnectIInv, ClientIInv
<1> QED
  BY <1>1, <1>2, <1>3 DEF Next

LEMMA Invariance == Spec => []IInv
<1>1. IInv /\ [Next]_vars => IInv'
  BY StepIInv
<1> QED
  BY <1>1, InitIInv, PTL DEF Spec

-----------------------------------------------------------------------------
(* The theorems. *)

\* Every variable of the loop keeps to its kind, and no buffer holds more than
\* it has room for.
THEOREM TypeCorrect == Spec => []TypeOK
<1>1. IInv => TypeOK
  BY DEF IInv
<1> QED
  BY <1>1, Invariance, PTL

\* No dispatch blocks in read(), however many connections the handlers before
\* it in the same pass accepted and closed.
THEOREM ReadsNeverBlock == Spec => []NoReadBlocks
<1>1. IInv => NoReadBlocks
  BY DEF IInv, PassIsFresh, NoReadBlocks, Pending
<1> QED
  BY <1>1, Invariance, PTL

\* handlers_ has the listener's entry and one for each open connection.
THEOREM HandlersAreConnections == Spec => []HandlersMatchFds
<1>1. IInv => HandlersMatchFds
  BY DEF IInv
<1> QED
  BY <1>1, Invariance, PTL

=============================================================================
