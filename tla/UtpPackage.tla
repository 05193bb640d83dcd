------------------------------ MODULE UtpPackage ------------------------------
(***************************************************************************)
(* The Go package: one Socket, its Conns, and the goroutines that use them *)
(* under the one mutex of the package.  w is everything that mutex guards, *)
(* the library included, of which only what it calls back for is kept.  A  *)
(* stretch of code between Lock and Unlock is one step, except where it    *)
(* lets the mutex go (cond.Wait, the async firewall callback) and between  *)
(* the last test of a loop and its cond.Wait, where the timers that do not *)
(* take the mutex can come in.                                             *)
(***************************************************************************)
EXTENDS Naturals, Sequences, FiniteSets, FiniteSetsExt

CONSTANTS
    NULL,
    Threads,        \* goroutines of the package's user
    Conns,          \* the Conns a behaviour may create
    Ptrs,           \* addresses of library sockets; free ones are used again
    BacklogSize,    \* cap(Socket.backlog)
    MaxBatch,       \* messages RecvMsgs returns at a time
    MaxErrors,      \* consecutive read errors that close the Socket
    Deadlines,      \* the deadlines of a Conn, of {"read", "write"}
    MaxSets,        \* deadlines set in a behaviour
    MayCloseSocket  \* does a user call Socket.Close?

VARIABLES
    w,      \* what the mutex guards
    mu,     \* the thread that holds the mutex between two steps, or NULL
    th,     \* the user's goroutines
    pr      \* the packet reader

vars == <<w, mu, th, pr>>

ASSUME PackageAssumption ==
    Deadlines \subseteq {"read", "write"} /\ BacklogSize \in Nat /\ MaxBatch \in Nat \ {0} /\ MaxErrors \in Nat \ {0}

Kind == {"read", "write"}
NoConn == [us |-> NULL, gotEOF |-> FALSE, gotConnect |-> FALSE, destroyed |-> FALSE,
           closed |-> FALSE, err |-> FALSE, readBuf |-> FALSE, stage |-> "unused",
           deadline |-> [k \in Deadlines |-> "none"]]
Freed == [state |-> "FREED", close_requested |-> FALSE, ida |-> FALSE]
Idle == [op |-> "none", c |-> NULL, pc |-> "idle", ctx |-> "off"]

Init ==
    /\ w = [lib |-> [p \in Ptrs |-> Freed], conns |-> [p \in Ptrs |-> NULL],
            conn |-> [c \in Conns |-> NoConn], ctx |-> TRUE, closed |-> FALSE, backlog |-> <<>>,
            acksScheduled |-> FALSE, ackTimer |-> "stopped", utpTimeoutChecker |-> "armed",
            sets |-> MaxSets, told |-> {}, bad |-> {}]
    /\ mu = NULL /\ th = [t \in Threads |-> Idle]
    /\ pr = [pc |-> "recv", left |-> 0, gotUtp |-> FALSE, errors |-> 0]

-------------------------------------------------------------------------------
\* Conn's methods that the callbacks use; told are the Conns broadcast to.
Broadcast(x, c) == [x EXCEPT !.told = @ \cup {c}]
Bad(x, what) == [x EXCEPT !.bad = @ \cup {what}]
onError(x, c) == Broadcast([x EXCEPT !.conn[c].err = TRUE], c)
setConnected(x, c) == Broadcast([x EXCEPT !.conn[c].gotConnect = TRUE], c)
Data(x, c) == Broadcast([x EXCEPT !.conn[c].readBuf = TRUE], c)
setGotEOF(x, c) == Broadcast([x EXCEPT !.conn[c].gotEOF = TRUE], c)

\* Mutant of onDestroyed: the pointer to the library's socket stays.
onDestroyedKeepsUs(x, c) == Broadcast([x EXCEPT !.conn[c].destroyed = TRUE], c)

\* Mutant of onDestroyed: nobody is woken.
onDestroyedSilent(x, c) == [x EXCEPT !.conn[c].destroyed = TRUE, !.conn[c].us = NULL]

onDestroyed(x, c) == Broadcast([x EXCEPT !.conn[c].destroyed = TRUE, !.conn[c].us = NULL], c)
onLibSocketDestroyed(x, p) == [x EXCEPT !.conns[p] = NULL]

\* A callback for p finds its Conn in Socket.conns, or dereferences nil.
Callback(x, p, event) ==
    LET c == x.conns[p]
    IN  CASE c = NULL -> Bad(x, "callback")
          [] c # NULL /\ event = "CONNECT" -> setConnected(x, c)
          [] c # NULL /\ event = "WRITABLE" -> Broadcast(x, c)
          [] c # NULL /\ event = "EOF" -> setGotEOF(x, c)
          [] c # NULL /\ event = "DESTROYING" -> onDestroyed(x, c)
          [] c # NULL /\ event = "READ" -> Data(x, c)
          [] c # NULL /\ event = "ERROR" -> onError(x, c)

\* A call into the library for a socket that must exist, and a context.
Calls(x, p) == IF p = NULL \/ ~x.ctx THEN Bad(x, "nil") ELSE
               IF x.lib[p].state = "FREED" THEN Bad(x, "freed") ELSE x

SetState(x, p, st) == [x EXCEPT !.lib[p].state = st]

\* UTPSocket::~UTPSocket
Delete(x, p) ==
    [onLibSocketDestroyed(Callback(x, p, "DESTROYING"), p) EXCEPT !.lib[p] = Freed]

\* A fatal error: RST, ICMP, or retransmissions that ran out.
Fails(x, p) ==
    Callback(SetState(x, p, IF x.lib[p].close_requested THEN "CS_DESTROY" ELSE "CS_RESET"),
             p, "ERROR")

Writable(x, p) == Callback(SetState(x, p, "CS_CONNECTED"), p, "WRITABLE")

\* utp_close asserts that the socket is not about to be destroyed.
utp_close(x, p) ==
    LET y == Calls(x, p)
    IN  CASE y # x -> y
          [] y = x /\ x.lib[p].state \in {"CS_CONNECTED", "CS_CONNECTED_FULL"} ->
                 [x EXCEPT !.lib[p].close_requested = TRUE]
          [] y = x /\ x.lib[p].state = "CS_DESTROY" -> Bad(x, "assert")
          [] OTHER -> SetState(x, p, "CS_DESTROY")

close(x, c) ==
    LET y == IF ~x.conn[c].destroyed /\ ~x.conn[c].closed THEN utp_close(x, x.conn[c].us) ELSE x
    IN  Broadcast([y EXCEPT !.conn[c].closed = TRUE], c)

newConn(x, c, p, stage) ==
    [x EXCEPT !.conn[c] = [NoConn EXCEPT !.us = p, !.stage = stage], !.conns[p] = c]

\* A send on a channel that closeLocked closes.
Send(x) == IF x.closed THEN Bad(x, "channel") ELSE x

pushBacklog(x, c) ==
    IF Len(x.backlog) < BacklogSize THEN [Send(x) EXCEPT !.backlog = Append(@, c)] ELSE close(x, c)

\* A SYN that the firewall lets in: the library's new socket is handed to
\* acceptCallback.
Accept(x) ==
    {pushBacklog(newConn([x EXCEPT !.lib[p] = [Freed EXCEPT !.state = "CS_SYN_RECV"]], c, p, "backlog"), c) :
         p \in {q \in Ptrs : x.lib[q] = Freed}, c \in {d \in Conns : x.conn[d] = NoConn}}

\* Mutant of Handshake: nobody is told that an accepted socket is established.
HandshakeSilent(x, p) ==
    CASE x.lib[p].state = "CS_SYN_RECV" -> {SetState(x, p, "CS_CONNECTED")}
      [] x.lib[p].state = "CS_CONNECTED_FULL" -> {x, Writable(x, p)}
      [] x.lib[p].state = "CS_CONNECTED" -> {x}

\* utp_process_incoming first establishes the connection of an accepted socket,
\* or makes a socket writable again.
Handshake(x, p) ==
    CASE x.lib[p].state = "CS_SYN_RECV" -> {Writable(x, p)}
      [] x.lib[p].state = "CS_CONNECTED_FULL" -> {x, Writable(x, p)}
      [] x.lib[p].state = "CS_CONNECTED" -> {x}

\* Then packets may be sent, which carry any deferred ack; there may be data,
\* unless the socket is closed, or the peer's FIN, whose ack is not deferred; or
\* the FIN of a closed socket was acked.
Payload(x, p) ==
    {x, [x EXCEPT !.lib[p].ida = FALSE], [Callback(x, p, "EOF") EXCEPT !.lib[p].ida = FALSE]} \cup
    IF x.lib[p].close_requested
    THEN {SetState(x, p, "CS_DESTROY"), [x EXCEPT !.lib[p].ida = TRUE]}
    ELSE {[Callback(x, p, "READ") EXCEPT !.lib[p].ida = TRUE]}

\* A dialled connection is established; the empty utp_write that
\* stateChangeCallback makes then may fill its window.
Connected(x, p) ==
    {SetState(Callback(x, p, "CONNECT"), p, st) : st \in {"CS_CONNECTED", "CS_CONNECTED_FULL"}}

\* What a datagram may do, when utp_process_udp takes it for a uTP packet.
utp_process_udp(x) ==
    {x} \cup Accept(x)
        \cup UNION {{Fails(x, p)} \cup IF x.lib[p].state = "CS_SYN_SENT" THEN Connected(x, p)
                                       ELSE UNION {Payload(y, p) : y \in Handshake(x, p)} :
                        p \in {q \in Ptrs : x.lib[q].state \notin {"FREED", "CS_RESET", "CS_DESTROY"}}}

\* What a socket is due for in utp_check_timeouts: nothing, packets to send,
\* there is room again for a writer, or its retransmissions have run out.
Due == {"nothing", "send", "room", "gone"}

CheckLive(x, p, due) ==
    CASE x.lib[p].state = "CS_SYN_RECV" /\ due = "gone" -> Callback(SetState(x, p, "CS_DESTROY"), p, "ERROR")
      [] x.lib[p].state # "CS_SYN_RECV" /\ due = "gone" -> Fails(x, p)
      [] x.lib[p].state = "CS_CONNECTED_FULL" /\ due = "room" -> Writable(x, p)
      [] due = "send" -> [x EXCEPT !.lib[p].ida = FALSE]
      [] OTHER -> x

Reap(x, p) == IF x.lib[p].state = "CS_DESTROY" THEN Delete(x, p) ELSE x

check_timeouts(x, p, due) ==
    Reap(IF x.lib[p].state \in {"FREED", "CS_RESET", "CS_DESTROY"} THEN x ELSE CheckLive(x, p, due), p)

\* A packet for ReadFrom, dropped when there is no room.
onReadNonUtp(x) == IF x.closed THEN x ELSE Send(x)

\* Mutant of afterReceivingUtpMessages: the timer is not reset.
afterReceivingUtpMessagesNoReset(x) == [x EXCEPT !.acksScheduled = TRUE]

afterReceivingUtpMessages(x) == [x EXCEPT !.ackTimer = IF x.acksScheduled THEN @ ELSE "armed",
                                          !.acksScheduled = TRUE]

issueDeferredAcks(x) ==
    IF ~x.ctx THEN Bad(x, "nil")
    ELSE [x EXCEPT !.lib = [p \in Ptrs |-> [@[p] EXCEPT !.ida = FALSE]]]

\* Socket.closeLocked; a timer function that already runs is not stopped.
closeLocked(x) ==
    LET y == FoldSet(LAMBDA p, z : Delete(z, p), x, {p \in Ptrs : x.lib[p] # Freed})
    IN  IF x.closed THEN x
        ELSE [y EXCEPT !.ctx = FALSE, !.closed = TRUE, !.acksScheduled = FALSE,
                       !.ackTimer = IF @ = "armed" THEN "stopped" ELSE @,
                       !.utpTimeoutChecker = IF @ = "armed" THEN "stopped" ELSE @]

-------------------------------------------------------------------------------
\* The threads of T that wait on a Conn of cs are woken.
Woken(T, cs) ==
    [t \in Threads |-> IF T[t].pc = "waiting" /\ T[t].c \in cs THEN [T[t] EXCEPT !.pc = "woken"] ELSE T[t]]

\* A stretch under the mutex leaves x, and the threads T.
Locked(x, T) ==
    /\ mu = NULL
    /\ w' = [x EXCEPT !.told = {}] /\ th' = Woken(T, x.told)
Section(x) == Locked(x, th) /\ mu' = NULL

\* packetReader
RecvMsgs ==
    /\ pr.pc = "recv" /\ ~w.closed
    /\ \E n \in 1 .. MaxBatch :
           pr' = [pc |-> "process", left |-> n, gotUtp |-> FALSE, errors |-> 0]
    /\ UNCHANGED <<w, mu, th>>

RecvError ==
    /\ pr.pc = "recv"
    /\ pr' = [pr EXCEPT !.pc = "error"] /\ UNCHANGED <<w, mu, th>>

HandleError ==
    /\ pr.pc = "error" /\ Section(w)
    /\ pr' = IF w.closed THEN [pr EXCEPT !.pc = "done"]
             ELSE [pr EXCEPT !.pc = IF pr.errors + 1 >= MaxErrors THEN "close" ELSE "recv",
                             !.errors = @ + 1]

CloseOnErrors == pr.pc = "close" /\ Section(closeLocked(w)) /\ pr' = [pr EXCEPT !.pc = "done"]

\* processReceivedMessages locks, and utpProcessUdp unlocks again for the async
\* firewall callback of the first message.  (Empty messages are like messages
\* that are not uTP.)
ProcessReceivedMessages ==
    /\ pr.pc = "process" /\ Section(w)
    /\ pr' = [pr EXCEPT !.pc = IF w.closed THEN "recv" ELSE "callback"]

\* Mutant of ProcessMessage: closed is not tested again after the callback.
ProcessMessageUnchecked ==
    /\ pr.pc = "callback"
    /\ \E utp \in BOOLEAN :
       \E x \in IF utp THEN IF w.ctx THEN utp_process_udp(w) ELSE {Bad(w, "nil")} ELSE {onReadNonUtp(w)} :
           LET got == pr.gotUtp \/ utp
           IN  IF pr.left > 1
               THEN Section(x) /\ pr' = [pr EXCEPT !.left = @ - 1, !.gotUtp = got]
               ELSE /\ Section(IF got /\ ~x.closed THEN afterReceivingUtpMessages(x) ELSE x)
                    /\ pr' = [pr EXCEPT !.pc = "recv", !.left = 0, !.gotUtp = FALSE]

\* The rest of utpProcessUdp, up to the callback of the next message.
ProcessMessage ==
    /\ pr.pc = "callback"
    /\ \E utp \in IF w.closed THEN {FALSE} ELSE BOOLEAN :
       \E x \in IF utp THEN utp_process_udp(w) ELSE {onReadNonUtp(w)} :
           LET got == pr.gotUtp \/ utp
           IN  IF pr.left > 1
               THEN Section(x) /\ pr' = [pr EXCEPT !.left = @ - 1, !.gotUtp = got]
               ELSE /\ Section(IF got /\ ~x.closed THEN afterReceivingUtpMessages(x) ELSE x)
                    /\ pr' = [pr EXCEPT !.pc = "recv", !.left = 0, !.gotUtp = FALSE]

-------------------------------------------------------------------------------
\* Timers start a goroutine when they fire; the goroutine takes the mutex.
TimerFires(timer) ==
    /\ w[timer] = "armed"
    /\ w' = [w EXCEPT ![timer] = "running"] /\ UNCHANGED <<mu, th, pr>>

AckTimerFunc ==
    /\ w.ackTimer = "running"
    /\ LET x == [w EXCEPT !.ackTimer = "stopped"]
       IN  Section(IF ~w.acksScheduled \/ ~w.ctx THEN x
                   ELSE issueDeferredAcks([x EXCEPT !.acksScheduled = FALSE]))
    /\ UNCHANGED pr

\* Mutant of TimeoutCheckerTimerFunc: the timer is not set again.
TimeoutCheckerTimerFuncOnce(due) ==
    /\ w.utpTimeoutChecker = "running"
    /\ Section([FoldSet(LAMBDA p, x : check_timeouts(x, p, due[p]), w, Ptrs)
                   EXCEPT !.utpTimeoutChecker = "stopped"])
    /\ UNCHANGED pr

\* due[p] is what the socket at p is due for by now.
TimeoutCheckerTimerFunc(due) ==
    /\ w.utpTimeoutChecker = "running"
    /\ Section(IF ~w.ctx THEN [w EXCEPT !.utpTimeoutChecker = "stopped"]
               ELSE [FoldSet(LAMBDA p, x : check_timeouts(x, p, due[p]), w, Ptrs)
                         EXCEPT !.utpTimeoutChecker = "armed"])
    /\ UNCHANGED pr

SocketClose == MayCloseSocket /\ ~w.closed /\ Section(closeLocked(w)) /\ UNCHANGED pr

\* A Conn's deadline passes and its timer calls cond.Broadcast without the
\* mutex.  (The first call, which newConn's AfterFunc makes, finds no waiter.)
DeadlineFires(c, k) ==
    /\ w.conn[c].deadline[k] = "future"
    /\ w' = [w EXCEPT !.conn[c].deadline[k] = "past"]
    /\ th' = Woken(th, {c}) /\ UNCHANGED <<mu, pr>>

SetDeadline(c, k, d) ==
    /\ w.conn[c].stage = "user" /\ w.sets > 0
    /\ Section(Broadcast([w EXCEPT !.sets = @ - 1, !.conn[c].deadline[k] = d], c)) /\ UNCHANGED pr

ConnClose(c) ==
    /\ w.conn[c].stage = "user" /\ ~w.conn[c].closed
    /\ Section(close(w, c)) /\ UNCHANGED pr

\* Socket.Accept; Conns in the backlog are received also once it is closed.
SocketAccept ==
    /\ w.backlog # <<>>
    /\ w' = [w EXCEPT !.backlog = Tail(@), !.conn[Head(w.backlog)].stage = "user"]
    /\ UNCHANGED <<mu, th, pr>>

-------------------------------------------------------------------------------
\* The tests of readNoWait, writeNoWait and waitForConnect, in x.
Past(x, c, k) == k \in Deadlines /\ x.conn[c].deadline[k] = "past"
ReadEnds(x, c) ==
    LET n == x.conn[c]
    IN  n.readBuf \/ n.gotEOF \/ n.err \/ n.destroyed \/ n.closed
WriteEnds(x, c) == LET n == x.conn[c] IN n.err \/ n.closed \/ n.destroyed
ConnectEnds(x, c) == LET n == x.conn[c] IN n.closed \/ n.err \/ n.gotConnect

Return(t) == [th EXCEPT ![t] = Idle]
Pausing(t) == [th EXCEPT ![t].pc = "checked"]

\* A user calls Read or Write.
Call(t, op, c) ==
    /\ th[t].pc = "idle" /\ th[t].ctx = "off" /\ w.conn[c].stage = "user"
    /\ th' = [th EXCEPT ![t] = [Idle EXCEPT !.op = op, !.c = c, !.pc = "woken"]]
    /\ UNCHANGED <<w, mu, pr>>

\* Reading some of what there is, or all of it: then utp_read_drained sends an
\* ack, schedules one, or finds the window no wider.
readNoWait(x, c) ==
    LET y == [x EXCEPT !.conn[c].readBuf = FALSE]
    IN  {x} \cup
        IF x.conn[c].us = NULL THEN {y}
        ELSE IF Calls(y, x.conn[c].us) # y THEN {Calls(y, x.conn[c].us)}
        ELSE {y, [y EXCEPT !.lib[x.conn[c].us].ida = TRUE], [y EXCEPT !.lib[x.conn[c].us].ida = FALSE]}

\* One turn of the loop of Read: from Lock, or the return from cond.Wait, to the
\* return or to the next cond.Wait.
Read(t) ==
    LET c == th[t].c
    IN  /\ th[t].op = "read" /\ th[t].pc = "woken" /\ UNCHANGED pr
        /\ \/ /\ w.conn[c].readBuf /\ mu' = NULL
              /\ \E x \in readNoWait(w, c) : Locked(x, Return(t))
           \/ /\ ~w.conn[c].readBuf /\ (ReadEnds(w, c) \/ Past(w, c, "read"))
              /\ Locked(w, Return(t)) /\ mu' = NULL
           \/ /\ ~ReadEnds(w, c) /\ ~Past(w, c, "read")
              /\ Locked(w, Pausing(t)) /\ mu' = t

\* The same for Write.  utp_write takes all of the bytes, or fills the window.
Write(t) ==
    LET c == th[t].c
        p == w.conn[c].us
        x == Calls(w, p)
    IN  /\ th[t].op = "write" /\ th[t].pc = "woken" /\ UNCHANGED pr
        /\ \/ /\ WriteEnds(w, c) \/ Past(w, c, "write")
              /\ Locked(w, Return(t)) /\ mu' = NULL
           \/ /\ ~WriteEnds(w, c) /\ ~Past(w, c, "write") /\ x # w
              /\ Locked(x, Return(t)) /\ mu' = NULL
           \/ /\ ~WriteEnds(w, c) /\ ~Past(w, c, "write") /\ x = w
              /\ IF w.lib[p].state = "CS_CONNECTED"
                 THEN \/ Locked([w EXCEPT !.lib[p].ida = FALSE], Return(t)) /\ mu' = NULL
                      \/ \E sent \in BOOLEAN :
                             /\ Locked([w EXCEPT !.lib[p].state = "CS_CONNECTED_FULL",
                                                 !.lib[p].ida = IF sent THEN FALSE ELSE @], Pausing(t))
                             /\ mu' = t
                 ELSE Locked(w, Pausing(t)) /\ mu' = t

\* DialContext up to the first cond.Wait of waitForConnect; after Close it
\* returns at once.
DialContext(t, c, p, timed) ==
    /\ th[t] = Idle /\ ~w.closed /\ w.conn[c] = NoConn /\ w.lib[p] = Freed
    /\ Locked(newConn([w EXCEPT !.lib[p] = [Freed EXCEPT !.state = "CS_SYN_SENT"]], c, p, "dialing"),
              [th EXCEPT ![t] = [op |-> "dial", c |-> c, pc |-> "checked",
                                 ctx |-> IF timed THEN "live" ELSE "never"]])
    /\ mu' = t /\ UNCHANGED pr

\* waitForConnect returns, which cancels its context: the goroutine that waits
\* for that still has to run.
DialReturns(t) ==
    [th EXCEPT ![t] = [Idle EXCEPT !.c = IF th[t].ctx = "told" THEN NULL ELSE th[t].c,
                                   !.ctx = IF th[t].ctx = "told" THEN "off" ELSE "done"]]

\* A turn of the loop of waitForConnect, and the rest of DialContext.
waitForConnect(t) ==
    LET c == th[t].c
        n == w.conn[c]
    IN  /\ th[t].op = "dial" /\ th[t].pc = "woken" /\ UNCHANGED pr
        /\ \/ /\ n.gotConnect /\ ~n.closed /\ ~n.err /\ mu' = NULL
              /\ Locked([w EXCEPT !.conn[c].stage = "user"], DialReturns(t))
           \/ /\ n.closed \/ n.err \/ (~n.gotConnect /\ th[t].ctx \in {"done", "told"})
              /\ Locked([close(w, c) EXCEPT !.conn[c].stage = "failed"], DialReturns(t))
              /\ mu' = NULL
           \/ /\ ~ConnectEnds(w, c) /\ th[t].ctx \notin {"done", "told"}
              /\ Locked(w, Pausing(t)) /\ mu' = t

\* The dial's context is done, and its goroutine says so under the mutex.
CtxDone(t) ==
    /\ th[t].ctx = "live"
    /\ th' = [th EXCEPT ![t].ctx = "done"] /\ UNCHANGED <<w, mu, pr>>

\* Mutant of CtxBroadcast: the goroutine does not take the mutex.
CtxBroadcastUnlocked(t) ==
    /\ th[t].ctx = "done"
    /\ th' = Woken([th EXCEPT ![t] = IF @.pc = "idle" THEN Idle ELSE [@ EXCEPT !.ctx = "told"]], {th[t].c})
    /\ UNCHANGED <<w, mu, pr>>

CtxBroadcast(t) ==
    /\ th[t].ctx = "done" /\ mu = NULL
    /\ th' = Woken([th EXCEPT ![t] = IF @.pc = "idle" THEN Idle ELSE [@ EXCEPT !.ctx = "told"]], {th[t].c})
    /\ UNCHANGED <<w, mu, pr>>

\* cond.Wait joins the list of waiters and unlocks.
Wait(t) ==
    /\ th[t].pc = "checked" /\ mu = t /\ mu' = NULL
    /\ th' = [th EXCEPT ![t].pc = "waiting"] /\ UNCHANGED <<w, pr>>

Loop(t) == Read(t) \/ Write(t) \/ waitForConnect(t)
PacketReader == RecvError \/ HandleError \/ CloseOnErrors \/ ProcessReceivedMessages \/ ProcessMessage

Next ==
    \/ RecvMsgs \/ PacketReader \/ SocketClose \/ SocketAccept \/ AckTimerFunc
    \/ TimerFires("ackTimer") \/ TimerFires("utpTimeoutChecker")
    \/ \E due \in [Ptrs -> Due] : TimeoutCheckerTimerFunc(due)
    \/ \E c \in Conns :
           \/ ConnClose(c)
           \/ \E k \in Deadlines : \/ DeadlineFires(c, k)
                                   \/ \E d \in {"none", "future", "past"} : SetDeadline(c, k, d)
    \/ \E t \in Threads :
           \/ Loop(t) \/ Wait(t) \/ CtxDone(t) \/ CtxBroadcast(t)
           \/ \E c \in Conns : \/ \E op \in Kind : Call(t, op, c)
                               \/ \E p \in Ptrs, timed \in BOOLEAN : DialContext(t, c, p, timed)

Spec == Init /\ [][Next]_vars

\* The scheduler runs every goroutine that can run, timers fire, contexts and
\* deadlines pass, and a SYN that is not answered runs out of retransmissions.
\* Goroutines get the mutex in the end although others keep taking it
\* (sync.Mutex hands it over to one that has waited too long).
Fairness ==
    /\ WF_vars(TimerFires("ackTimer")) /\ WF_vars(TimerFires("utpTimeoutChecker"))
    /\ SF_vars(AckTimerFunc) /\ SF_vars(\E due \in [Ptrs -> Due] : TimeoutCheckerTimerFunc(due))
    /\ SF_vars(PacketReader /\ pr.pc # "recv")
    /\ \A p \in Ptrs :
           SF_vars(w.lib[p].state = "CS_SYN_SENT" /\ \E due \in [Ptrs -> Due] :
                       due[p] = "gone" /\ TimeoutCheckerTimerFunc(due))
    /\ \A t \in Threads :
           SF_vars(Loop(t)) /\ WF_vars(Wait(t)) /\ WF_vars(CtxDone(t)) /\ SF_vars(CtxBroadcast(t))
    /\ \A c \in Conns : \A k \in Deadlines :
           WF_vars(DeadlineFires(c, k))

FairSpec == Spec /\ Fairness

-------------------------------------------------------------------------------
\* No call reaches the library for a socket or a context that is gone, no
\* callback comes for a socket without a Conn, nothing is sent on a closed
\* channel and utp_close's assert holds, whenever the Socket is closed: in the
\* middle of a batch of packets, with timer functions on their way to the mutex
\* ("It must not be referred to after this", Socket.closeLocked; "Not valid to
\* refer to the socket after getting this", Conn.destroyed).
NoStaleCall == w.bad = {}

\* Socket.conns has the Conns of exactly the sockets the library has, each with
\* the address of its own, also when an address is used again.
ConnsMatchLibrary ==
    /\ \A p \in Ptrs : (w.conns[p] # NULL) = (w.lib[p].state # "FREED")
    /\ \A p \in Ptrs : w.conns[p] # NULL => w.conn[w.conns[p]].us = p
    /\ \A c \in Conns : w.conn[c].us # NULL => w.conns[w.conn[c].us] = c

\* No wakeup is lost: a thread in cond.Wait would go on waiting if it looked
\* now, deadlines aside.  A Write can look again as soon as the library would
\* take bytes, also on an accepted Conn that was not established yet
\* (TestWriteOnAcceptedConnBeforeEstablished).
NoLostWakeup ==
    \A t \in Threads : th[t].pc = "waiting" =>
        LET c == th[t].c
        IN  CASE th[t].op = "read" -> ~ReadEnds(w, c)
              [] th[t].op = "write" -> ~WriteEnds(w, c) /\ w.lib[w.conn[c].us].state # "CS_CONNECTED"
              [] th[t].op = "dial" -> ~ConnectEnds(w, c) /\ th[t].ctx # "told"

\* Close ends every Read and Write in progress.
CloseEndsCalls ==
    \A t \in Threads : (w.closed /\ th[t].op \in Kind) ~> (th[t].pc = "idle")

\* "Ensure that our timeout is honored during dialing" (TestDialTimeout).
DialTimeoutHonoured == \A t \in Threads : (th[t].op = "dial" /\ th[t].ctx = "done") ~> (th[t].op # "dial")

\* An ack deferred by a received packet is issued in the end.
DeferredAcksIssued ==
    \A p \in Ptrs : (w.acksScheduled /\ w.lib[p].ida) ~> (~w.lib[p].ida)

\* A dial ends by itself ("Ensure that libutp dial timeouts out by itself",
\* TestLibutpDialTimesOut).
DialEnds == \A t \in Threads : (th[t].op = "dial") ~> (th[t].op # "dial")

\* While the Socket stays open, every dial ends: it connects, or the library
\* gives up on the SYN and the timeout checker, which sets itself again, says so.
DialEndsWhileOpen == \A t \in Threads : (th[t].op = "dial") ~> (th[t].op # "dial" \/ w.closed)
===============================================================================
