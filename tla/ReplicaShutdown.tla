-------------------------- MODULE ReplicaShutdown --------------------------
(***************************************************************************)
(* The end of a replica, beside everything ReplicaFanout does.             *)
(*                                                                         *)
(* The finally block of lifespan closes the registered sockets one by one, *)
(* under a timeout, then stops the subscriber and closes its pub/sub       *)
(* connection, Redis and the database.  The server accepts no connection   *)
(* any more, but the handlers it has go on meanwhile: some still join.     *)
(*                                                                         *)
(* A peer may stop reading.  Nothing in the code bounds a send, so the     *)
(* broadcast, or the drain, that reaches such a socket waits for it.       *)
(***************************************************************************)
EXTENDS ReplicaFanout

CONSTANT MayStall   \* bound: the sockets whose peer may stop reading

ASSUME ShutdownAssumption == MayStall \subseteq Connections

VARIABLES
    stalled,    \* sockets whose peer reads no more
    shutdown    \* where the finally block is, and what close_all has to visit

lifeVars == <<vars, stalled, shutdown>>

\* "aborted": subscriber.stop() raised, and what comes after it was skipped.
ShutdownPC == {"serving", "draining", "stopping", "closed", "aborted"}

Running == [pc |-> "serving", sets |-> {}, todo |-> {}, late |-> {}, timedOut |-> FALSE]

\* The program counter and the drain's two snapshots: the conversations whose
\* set of sockets is still to be visited, and the sockets of the one visited
\* now.  History: the sockets registered since the drain began, and whether it
\* timed out.
ShutdownTypeOK ==
    /\ stalled \subseteq MayStall
    /\ shutdown \in [pc : ShutdownPC, sets : SUBSET Conversations,
                     todo : SUBSET Connections, late : SUBSET Connections,
                     timedOut : BOOLEAN]

ShutdownInit == Init /\ stalled = {} /\ shutdown = Running

Serving == shutdown.pc = "serving"
Draining == shutdown.pc = "draining"

\* The finally block is over: the process exits, and its tasks with it.
Ended == shutdown.pc \in {"closed", "aborted"}

\* A send to this socket does not end, until its peer is gone.
Stuck(c) == c \in stalled /\ alive[c]
-----------------------------------------------------------------------------
(* What the replica does meanwhile *)

\* A set that loses its last socket leaves the dictionary, and the set of a
\* later join is another one: the snapshot of close_all has the empty one.
Meanwhile ==
    /\ stalled' = {c \in stalled : alive'[c]}
    /\ shutdown' =
         [shutdown EXCEPT
            !.sets = {v \in @ : connections'[v] # {}},
            !.late = IF Serving THEN {} ELSE @ \cup
                       {c \in Connections :
                          c \in connections'[ConvOf[c]] \ connections[ConvOf[c]]}]

Accept(c) == Serving /\ Reopen(c)

\* A broadcast goes on with another socket only when a send ends.
Send == (\E c \in Connections : ~Stuck(c) /\ BroadcastSend(c)) \/ BroadcastEnd

Handle(c) == Join(c) \/ Disconnect(c) \/ EndSession(c) \/ Leave(c) \/ Accept(c)

Replica ==
    \/ \E c \in Connections : Handle(c)
    \/ Read \/ Send \/ Reconnect
    \/ \E v \in Conversations : Publish(v)
    \/ Outage \/ Recover

Stall(c) ==
    /\ ~Ended
    /\ c \in MayStall \ stalled
    /\ Live(c)
    /\ stalled' = stalled \cup {c}
    /\ UNCHANGED <<vars, shutdown>>
-----------------------------------------------------------------------------
(* The finally block *)

\* subscriber.stop() follows the drain without an await: it cancels the reader
\* wherever that waits, and with it go the lock and the broadcast it had.  If
\* the task has ended with an exception, awaiting it raises that.
StopReader(timedOut) ==
    /\ reader' = [IdleReader EXCEPT !.pc = "dead"]
    /\ shutdown' = [shutdown EXCEPT
                      !.pc = IF reader.pc = "dead" THEN "aborted" ELSE "stopping",
                      !.sets = {}, !.todo = {}, !.timedOut = timedOut]

\* Faults: the sockets are forgotten before they are closed; the drain has no
\* time limit; a socket that cannot be closed ends the drain.
VisitForgetting(s) ==
    /\ connections' = [v \in Conversations |-> {}]
    /\ \/ \E v \in s :
             /\ shutdown' = [shutdown EXCEPT !.pc = "draining", !.sets = s \ {v},
                                             !.todo = connections[v]]
             /\ UNCHANGED reader
       \/ s = {} /\ StopReader(FALSE)
NoTimeout == FALSE
CloseOrRaise(c) ==
    /\ Draining /\ c \in shutdown.todo /\ ~alive[c]
    /\ shutdown' = [shutdown EXCEPT !.pc = "aborted", !.sets = {}, !.todo = {}]
    /\ UNCHANGED <<vars, stalled>>

\* close_all, with the sets of s still to visit: take the snapshot of one; with
\* none, forget every socket, those that joined meanwhile included, and stop.
Visit(s) ==
    \/ \E v \in s :
          /\ shutdown' = [shutdown EXCEPT !.pc = "draining", !.sets = s \ {v},
                                          !.todo = connections[v]]
          /\ UNCHANGED <<connections, reader>>
    \/ /\ s = {}
       /\ connections' = [v \in Conversations |-> {}]
       /\ StopReader(FALSE)

\* SIGTERM: close_all begins, with the sets that are in the dictionary.
DrainBegin ==
    /\ Serving
    /\ Visit({v \in Conversations : connections[v] # {}})
    /\ UNCHANGED <<handler, alive, channels, pubsub, reachable, inbox, topic,
                   delivered, owed, outages, stalled>>

\* One close, with 1001.  A socket that is closed already raises, which is logged.
DrainClose(c) ==
    /\ Draining
    /\ c \in shutdown.todo
    /\ ~Stuck(c)
    /\ alive' = [alive EXCEPT ![c] = FALSE]
    /\ owed' = [owed EXCEPT ![c] = {}]
    /\ stalled' = stalled \ {c}
    /\ IF shutdown.todo = {c}
         THEN Visit(shutdown.sets)
         ELSE /\ shutdown' = [shutdown EXCEPT !.todo = @ \ {c}]
              /\ UNCHANGED <<connections, reader>>
    /\ UNCHANGED <<handler, channels, pubsub, reachable, inbox, topic,
                   delivered, outages>>

\* The drain took too long: close_all is cancelled where it waits.
DrainTimeout ==
    /\ Draining
    /\ StopReader(TRUE)
    /\ UNCHANGED <<connections, handler, alive, channels, pubsub, reachable,
                   inbox, topic, delivered, owed, outages, stalled>>

\* The reader task is gone: the pub/sub connection is closed, without its lock,
\* then the Redis client and the database engine.
CloseAll ==
    /\ shutdown.pc = "stopping"
    /\ pubsub' = NewPubSub
    /\ inbox' = <<>>
    /\ shutdown' = [Running EXCEPT !.pc = "closed"]
    /\ UNCHANGED <<connections, handler, alive, channels, reachable, reader,
                   topic, delivered, owed, outages, stalled>>
-----------------------------------------------------------------------------
Shutdown ==
    \/ \E c \in Connections : DrainClose(c)
    \/ DrainTimeout \/ CloseAll

ShutdownNext ==
    \/ ~Ended /\ Replica /\ Meanwhile
    \/ \E c \in Connections : Stall(c)
    \/ DrainBegin
    \/ Shutdown

\* What a handler does once a lock is free, and what it does of its own accord.
TakeLock(c) ==
    JoinRegister(c) \/ SubscribeBegin(c) \/ LeaveUnregister(c) \/ UnsubscribeBegin(c)
GoOn(c) ==
    SubscribeOk(c) \/ SubscribeFail(c) \/ UnsubscribeEnd(c) \/ (~alive[c] /\ EndSession(c))

\* asyncio.Lock wakes its waiters in the order they came, so a task that keeps
\* finding its lock free gets it (strong fairness); every other await of the
\* loop ends (weak fairness), but a broadcast need not get past a socket that is
\* stuck.  A task is in one place at a time, so one condition of each kind is
\* enough for it.  The finally block goes on once it has begun, its timeout
\* included.  Clients, publishers and outages promise nothing; a handler whose
\* peer is gone notices it.
ShutdownFairness ==
    /\ \A c \in Connections :
          SF_vars(~Ended /\ TakeLock(c)) /\ WF_vars(~Ended /\ GoOn(c))
    /\ SF_vars(~Ended /\ (ReadBegin \/ ReconnectBegin))
    /\ WF_vars(~Ended /\ (Read \/ Send \/ Reconnect))
    /\ WF_vars(~Ended /\ Recover)
    /\ WF_lifeVars(Shutdown)

ShutdownSpec == ShutdownInit /\ [][ShutdownNext]_lifeVars /\ ShutdownFairness
-----------------------------------------------------------------------------
(* Properties *)

\* A broadcast waits for a peer that does not read.
HeldUp == \E c \in reader.todo : Stuck(c)

\* A join ends and so does a leave, also while a broadcast is held up or the
\* replica is shutting down: the reader holds no lock while it delivers, and a
\* cancelled one leaves none behind.
JoinsAndLeavesEnd ==
    \A c \in Connections :
        (handler[c] \notin {"live", "closed"})
            ~> (handler[c] \in {"live", "closed"} \/ Ended)

\* What a socket is owed it is sent, unless the socket or the link is lost, the
\* broadcast is held up, or the replica stops.
OwedIsSent ==
    \A c \in Connections : \A n \in 1..MaxPublish :
        (n \in owed[c]) ~> (n \notin owed[c] \/ HeldUp \/ Ended)

\* After an outage the replica gets back the subscription of a live socket, as
\* long as the reader task is there and not held up.
SubscriptionIsRestored ==
    \A c \in Connections :
        Live(c) ~> (~Live(c) \/ ConvOf[c] \in Subscribed \/ reader.pc = "dead" \/ HeldUp)

\* A shutdown ends, whatever the sockets do: the drain is bounded by its timeout
\* and stop() waits for nobody (lifespan).
ShutdownEnds == Draining ~> Ended

\* Until the drain is over, a socket that is not closed is served as before,
\* also when it joined during the drain: close_all forgets the sockets only
\* after the last close.
DrainKeepsServing == Serving \/ Draining => LiveSocketIsSubscribed

\* A drain that does not time out leaves no socket open that was registered
\* when it began, whatever joins, leaves and dead sockets do to the sets it
\* iterates over: those it leaves joined later.
DrainLeavesOnlyLate ==
    shutdown.pc \in {"stopping", "aborted"} /\ ~shutdown.timedOut =>
        \A c \in Connections : Live(c) => c \in shutdown.late

\* SYSTEM_GUIDE: the drain "then stops the subscriber and disposes Redis and the
\* DB pool".  The shutdown never stops half-way.
ShutdownIsComplete == shutdown.pc # "aborted"
=============================================================================
