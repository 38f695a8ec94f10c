---------------------------- MODULE SocketSession ----------------------------
(***************************************************************************)
(* Sockets of one user, from accept to leave                               *)
(* (conversation_ws), with the rate limit they share (module RateLimiter). *)
(*                                                                         *)
(* What a send does is module MessageExchange, and what a registered       *)
(* socket is sent is ReplicaFanout and Delivery; here are the checks that  *)
(* come before, their order, and how each way out of the handler ends.     *)
(***************************************************************************)
EXTENDS RateLimiter

CONSTANTS
    Served,         \* the sockets whose handlers are modelled; of the user's others
                    \* only the frames matter that they count
    AuthTimeout,    \* ws_auth_timeout_seconds
    TokenLife       \* access_token_ttl_seconds

ASSUME SessionAssumption ==
    Served \subseteq Sockets /\ AuthTimeout \in Nat \ {0} /\ TokenLife \in Nat \ {0}

VARIABLES
    stage,          \* where the handler of each socket is
    tokenEnd,       \* when the token it was opened with expires
    opened,         \* when it was accepted
    gone,           \* the client has hung up, or lost its connection
    registered,     \* ConnectionManager knows the socket
    unanswered      \* history: frames received less frames answered

sessionVars == <<stage, tokenEnd, opened, gone, registered, unanswered>>

\* A frame that was received is counted, found invalid or sent, and answered.
Handling == {"count", "invalid", "send", "reply"}
Stage == {"closed", "auth", "access", "join", "replay", "idle", "leave"} \cup Handling

\* Every variable has its type, and only a handler that will leave is registered.
SessionTypeOK ==
    /\ TypeOK
    /\ stage \in [Served -> Stage]
    /\ tokenEnd \in [Served -> 0..(MaxTime + TokenLife)]
    /\ opened \in [Served -> Times]
    /\ gone \in [Served -> BOOLEAN]
    /\ registered \in [Served -> BOOLEAN]
    /\ unanswered \in [Served -> Int]
    /\ \A s \in Served :
          registered[s] => stage[s] \in {"replay", "idle", "leave"} \cup Handling

SessionInit ==
    /\ Init
    /\ stage = [s \in Served |-> "closed"]
    /\ tokenEnd = [s \in Served |-> 0]
    /\ opened = [s \in Served |-> 0]
    /\ gone = [s \in Served |-> FALSE]
    /\ registered = [s \in Served |-> FALSE]
    /\ unanswered = [s \in Served |-> 0]

Go(s, there) == stage' = [stage EXCEPT ![s] = there]

Valid(s) == clock < tokenEnd[s]

Close(s) ==
    /\ Go(s, "closed")
    /\ tokenEnd' = [tokenEnd EXCEPT ![s] = 0]
    /\ gone' = [gone EXCEPT ![s] = FALSE]
    /\ unanswered' = [unanswered EXCEPT ![s] = 0]

\* A frame is sent; what is sent to a client that is gone may raise.
Send(s, there) == Go(s, there) \/ (gone[s] /\ Go(s, "leave"))

\* The frame in hand is answered, or its sender told by a close code.
Answered(s) == unanswered' = [unanswered EXCEPT ![s] = @ - 1]
-----------------------------------------------------------------------------
(* Faults: variants of the definitions below that the properties tell from  *)
(* the code                                                                 *)

\* A refused frame is handled all the same.
AfterRefusal == "send"

\* join does not take back its registration.
StaysRegistered(s) == registered' = [registered EXCEPT ![s] = TRUE]
\* An exception in the replay is not caught.
AfterFailure == "closed"
-----------------------------------------------------------------------------
(* The handler *)

Accept(s) ==
    /\ stage[s] = "closed"
    /\ Go(s, "auth")
    /\ opened' = [opened EXCEPT ![s] = clock]
    /\ UNCHANGED <<tokenEnd, gone, registered, unanswered>>

\* The first frame has a token that is good for some time yet.  What a client
\* sent before it hung up is still received.
Authenticate(s) ==
    /\ stage[s] = "auth"
    /\ Go(s, "access")
    /\ \E end \in (clock + 1)..(clock + TokenLife) : tokenEnd' = [tokenEnd EXCEPT ![s] = end]
    /\ opened' = [opened EXCEPT ![s] = 0]
    /\ UNCHANGED <<gone, registered, unanswered>>

\* No frame in time, no auth frame, a bad token, or no client: nothing was
\* registered, so there is nothing to leave.
FailAuth(s) ==
    /\ stage[s] = "auth"
    /\ Close(s)
    /\ opened' = [opened EXCEPT ![s] = 0]
    /\ UNCHANGED <<registered>>

\* access.ensure: once, before the socket joins.  Who takes part is up to
\* Conversations; one who does not is told 4403.
EnsureAccess(s) ==
    /\ stage[s] = "access"
    /\ \/ Go(s, "join") /\ UNCHANGED <<tokenEnd, gone, unanswered>>
       \/ Close(s)
    /\ UNCHANGED <<opened, registered>>

\* What a join that fails leaves behind.
RolledBack(s) == UNCHANGED registered

Join(s) ==
    /\ stage[s] = "join"
    /\ \/ /\ Go(s, "replay")
          /\ registered' = [registered EXCEPT ![s] = TRUE]
          /\ UNCHANGED <<tokenEnd, gone, unanswered>>
       \/ Close(s) /\ RolledBack(s)
    /\ UNCHANGED opened

\* Where an exception leads: close with 1011, and the finally clause.
OnFailure == "leave"

\* _replay_missed: every message that was missed, or an exception.
Replay(s) ==
    /\ stage[s] = "replay"
    /\ Go(s, "idle") \/ Go(s, OnFailure)
    /\ UNCHANGED <<tokenEnd, opened, gone, registered, unanswered>>

\* Nothing comes after the frames of a client that is gone; and a binary frame
\* is an exception that the loop does not expect.
EndReceive(s) ==
    /\ stage[s] = "idle"
    /\ \/ gone[s] /\ Go(s, "leave")
       \/ Go(s, OnFailure)
    /\ UNCHANGED <<tokenEnd, opened, gone, registered, unanswered>>

Take(s) ==
    /\ stage[s] = "idle"
    /\ Receive(s)
    /\ Go(s, "count")
    /\ unanswered' = [unanswered EXCEPT ![s] = @ + 1]
    /\ UNCHANGED <<tokenEnd, opened, gone, registered>>

\* The frame is within the limit, or Redis failed; then it is parsed.
Pass(s) ==
    /\ stage[s] = "count"
    /\ LetThrough(s)
    /\ Go(s, "invalid") \/ Go(s, "send")
    /\ UNCHANGED <<tokenEnd, opened, gone, registered, unanswered>>

\* The loop goes on with the next frame ("continue").
OnRefusal == "idle"

ExceedLimit(s) ==
    /\ stage[s] = "count"
    /\ Refuse(s)
    /\ Send(s, OnRefusal)
    /\ Answered(s)
    /\ UNCHANGED <<tokenEnd, opened, gone, registered>>

\* Not JSON, not a message frame, or without content.
RefuseInvalid(s) ==
    /\ stage[s] = "invalid"
    /\ Send(s, "idle")
    /\ Answered(s)
    /\ UNCHANGED <<tokenEnd, opened, gone, registered>>

\* Every send looks at the token again; 4401 answers one that comes too late.
CheckToken(s) ==
    /\ stage[s] = "send"
    /\ IF Valid(s) THEN Go(s, "reply") /\ UNCHANGED unanswered
                   ELSE Go(s, "leave") /\ Answered(s)
    /\ UNCHANGED <<tokenEnd, opened, gone, registered>>

\* exchange has returned or raised, and an ack or an error is sent.
Reply(s) ==
    /\ stage[s] = "reply"
    /\ Send(s, "idle")
    /\ Answered(s)
    /\ UNCHANGED <<tokenEnd, opened, gone, registered>>

\* The finally clause: registry.leave.
Leave(s) ==
    /\ stage[s] = "leave"
    /\ Close(s)
    /\ registered' = [registered EXCEPT ![s] = FALSE]
    /\ UNCHANGED opened
-----------------------------------------------------------------------------
(* What happens meanwhile *)

HangUp(s) ==
    /\ stage[s] # "closed"
    /\ gone' = [gone EXCEPT ![s] = TRUE]
    /\ UNCHANGED <<stage, tokenEnd, opened, registered, unanswered>>

\* ConnectionManager.broadcast drops a socket it cannot send to.
DropDead(s) ==
    /\ registered[s]
    /\ gone[s] \/ stage[s] = "leave"
    /\ registered' = [registered EXCEPT ![s] = FALSE]
    /\ UNCHANGED <<stage, tokenEnd, opened, gone, unanswered>>

\* A handler that waits for the first frame does not wait longer than it may.
SessionTick ==
    /\ \A s \in Served : stage[s] = "auth" => clock < opened[s] + AuthTimeout
    /\ Tick
    /\ UNCHANGED sessionVars

Handle(s) == Pass(s) \/ ExceedLimit(s)

Serve(s) ==
    \/ EnsureAccess(s) \/ Join(s) \/ Replay(s)
    \/ RefuseInvalid(s) \/ CheckToken(s) \/ Reply(s) \/ Leave(s)
    \/ EndReceive(s)

SessionNext ==
    \/ SessionTick
    \/ Toggle /\ UNCHANGED sessionVars
    \/ \E s \in Served : Take(s) \/ Handle(s)
    \/ /\ \E s \in Served :
             Accept(s) \/ Authenticate(s) \/ FailAuth(s) \/ Serve(s) \/ HangUp(s) \/ DropDead(s)
       /\ UNCHANGED vars
    \/ /\ \E s \in Sockets \ Served : Receive(s) \/ LetThrough(s) \/ Refuse(s)
       /\ UNCHANGED sessionVars

\* The event loop resumes a handler that can go on, and the calls to Redis and
\* the database end, one way or the other; clients promise nothing.
SessionSpec ==
    /\ SessionInit
    /\ [][SessionNext]_<<vars, sessionVars>>
    /\ \A s \in Served :
          WF_<<vars, sessionVars>>(Handle(s) \/ ((stage[s] # "idle" \/ gone[s])
                                                  /\ Serve(s) /\ UNCHANGED vars))
-----------------------------------------------------------------------------
(* Properties *)

\* A frame has one answer: none is dropped in silence, whatever it contains or
\* fails on, and none is both refused and handled.
OneAnswerPerFrame ==
    \A s \in Served : stage[s] # "leave" =>
        unanswered[s] = IF stage[s] \in Handling THEN 1 ELSE 0

\* However the handler ends, a socket whose client is gone is taken out of the
\* registry: none of its exceptions skips registry.leave.
GoneIsLeft == \A s \in Served : (registered[s] /\ gone[s]) ~> ~registered[s]
=============================================================================
