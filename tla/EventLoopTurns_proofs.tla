------------------------ MODULE EventLoopTurns_proofs ------------------------
(***************************************************************************)
(* Proofs about EventLoopTurns, for every set of datagrams and every bound.*)
(***************************************************************************)
EXTENDS EventLoopTurns, EventLoop_proofs

\* The turns that a watcher loses before libev looks again: the pending events.
Pending(v) == IF revents[v] = "EV_READ" THEN 1 ELSE 0

\* ServedInTurn is not inductive.  A watcher whose event is not pending has lost
\* one turn at most, counting the one that the other's pending event is going
\* to take, since it was not readable when epoll_wait last looked; with its own
\* event pending it may lose one more.
TurnsInv ==
    /\ overtaken \in [Watchers -> Nat]
    /\ \A w, v \in Watchers : w # v =>
          overtaken[w] + Pending(v) <= IF revents[w] = "EV_READ" THEN 2 ELSE 1
    /\ \A w \in Watchers :
          /\ ~Waiting(w) => overtaken[w] = 0
          /\ pc \in {"fd_reify", "epoll_wait"} => revents[w] # "EV_READ"
          /\ pc = "fd_reify" => fd[w] = "started"
          /\ cur = w /\ pc \in {"print_received", "recvmsg"} => overtaken[w] = 0

LEMMA TurnsInvInit == TurnsInit => TurnsInv
BY DEF TurnsInit, Init, TurnsInv, Pending, Watchers

\* A step that enters no callback and neither ends a wait nor makes an event
\* pending keeps the invariant.
LEMMA TurnsInvFrame ==
    ASSUME TypeInv, TurnsInv,
           overtaken' = [w \in Watchers |-> Overtaken(w)],
           UNCHANGED <<fd, revents, cur>>,
           pc' # "print_received" \/ pc = "print_received",
           pc' \in {"fd_reify", "epoll_wait"} => pc = pc',
           pc' = "recvmsg" => pc \in {"print_received", "recvmsg"},
           \A w \in Watchers : Waiting(w) => Waiting(w)'
    PROVE  TurnsInv'
<1>1. overtaken' = overtaken
  <2>1. \A w \in Watchers : ~Entered(w)
    BY DEF Entered
  <2>2. \A w \in Watchers : overtaken'[w] = overtaken[w]
    BY <2>1 DEF Overtaken
  <2> QED
    BY <2>2 DEF TurnsInv
<1> QED
  BY <1>1 DEF TurnsInv, Pending

LEMMA TurnsInvStep ==
    TypeInv /\ TypeInv' /\ QueueInv /\ TurnsInv /\ [TurnsNext]_<<vars, overtaken>> => TurnsInv'
<1> SUFFICES ASSUME TypeInv, TypeInv', QueueInv, TurnsInv, [TurnsNext]_<<vars, overtaken>>
             PROVE  TurnsInv'
  OBVIOUS
<1> USE DEF kernelVars, libevVars, argVars, outVars, stdinVars
<1>0. /\ arrived \in [Watchers -> Seq(Datagrams)]
      /\ read \in [Watchers -> Nat]
      /\ fd \in [Watchers -> {"started", "polled", "killed"}]
      /\ revents \in [Watchers -> {"none", "EV_READ", "EV_ERROR"}]
      /\ cur \in Watchers
      /\ \A w \in Watchers : Len(arrived[w]) \in Nat
  <2>1. \A w \in Watchers : arrived[w] \in Seq(Datagrams)
    BY DEF TypeInv, TypeOK
  <2>2. \A w \in Watchers : Len(arrived[w]) \in Nat
    BY <2>1
  <2> QED
    BY <2>2 DEF TypeInv, TypeOK
<1>1. CASE UNCHANGED <<vars, overtaken>>
  BY <1>1 DEF vars, TurnsInv, Pending, Waiting, Unread
<1>2. CASE TurnsNext
  <2>0. overtaken' = [w \in Watchers |-> Overtaken(w)]
    BY <1>2 DEF TurnsNext
  <2>1. ASSUME NEW w \in Watchers, Arrive(w) PROVE TurnsInv'
    <3>1. UNCHANGED <<read, fd, revents, pc, cur>>
      BY <2>1 DEF Arrive
    <3>2. \A v \in Watchers : Len(arrived'[v]) \in Nat /\ Len(arrived'[v]) >= Len(arrived[v])
      BY <2>1, ArriveAppends
    <3>3. \A v \in Watchers : Waiting(v) => Waiting(v)'
      BY <1>0, <3>1, <3>2 DEF Waiting, Unread
    <3> QED
      BY <2>0, <3>1, <3>3, TurnsInvFrame
  <2>2. CASE Terminal \/ getchar \/ printf
    <3>1. /\ UNCHANGED <<arrived, read, fd, revents, cur>>
          /\ pc' # "print_received" \/ pc = "print_received"
          /\ pc' \in {"fd_reify", "epoll_wait"} => pc = pc'
          /\ pc' = "recvmsg" => pc \in {"print_received", "recvmsg"}
      BY <2>2 DEF Terminal, TypeLine, CloseStdin, getchar, printf, AfterPrint
    <3>2. \A v \in Watchers : Waiting(v) => Waiting(v)'
      BY <3>1 DEF Waiting, Unread
    <3> QED
      BY <2>0, <3>1, <3>2, TurnsInvFrame
  <2>3. ASSUME NEW w \in Watchers, recv_msg_error(w) \/ send_message(w) \/ send_message_error(w)
        PROVE  TurnsInv'
    <3>1. /\ UNCHANGED <<arrived, read, fd, revents, cur>>
          /\ pc' \in {"print_done", "print_failed"}
      BY <2>3 DEF recv_msg_error, send_message, send_message_error
    <3>2. \A v \in Watchers : Waiting(v) => Waiting(v)'
      BY <3>1 DEF Waiting, Unread
    <3> QED
      BY <2>0, <3>1, <3>2, TurnsInvFrame
  <2>4. ASSUME pc' # "print_received" PROVE overtaken' = overtaken
    <3>1. \A w \in Watchers : overtaken'[w] = overtaken[w]
      BY <2>0, <2>4 DEF Overtaken, Entered
    <3> QED
      BY <2>0, <3>1 DEF TurnsInv
  <2>5. CASE fd_reify
    <3>1. /\ pc = "fd_reify" /\ pc' = "epoll_wait"
          /\ \A w \in Watchers : revents'[w] # "EV_READ"
      BY <2>5 DEF fd_reify
    <3>2. \A w \in Watchers : overtaken'[w] = 0
      BY <2>4, <3>1 DEF TurnsInv, Waiting
    <3> QED
      BY <2>4, <3>1, <3>2 DEF TurnsInv, Pending
  <2>6. CASE epoll_wait
    <3>1. /\ pc = "epoll_wait" /\ pc' = "ev_invoke_pending"
          /\ UNCHANGED <<arrived, read, fd, cur>>
          /\ \A w \in Watchers : revents'[w] = IF Waiting(w) THEN "EV_READ" ELSE revents[w]
      BY <2>6 DEF epoll_wait, Waiting
    <3>2. overtaken' = overtaken
      BY <2>4, <3>1
    <3>3. \A w \in Watchers : revents[w] # "EV_READ" /\ overtaken[w] \in 0 .. 1
      BY <3>1 DEF TurnsInv, Pending, Watchers
    <3>4. \A w \in Watchers : Waiting(w)' = Waiting(w)
      BY <3>1 DEF Waiting, Unread
    <3>5. ASSUME NEW w \in Watchers, NEW v \in Watchers
          PROVE  overtaken'[w] + Pending(v)' <= IF revents'[w] = "EV_READ" THEN 2 ELSE 1
      BY <3>1, <3>2, <3>3, <3>5 DEF TurnsInv, Pending
    <3> QED
      BY <3>1, <3>2, <3>4, <3>5 DEF TurnsInv
  <2>7. CASE ev_loop_next
    <3>1. /\ pc' \in {"epoll_wait", "exit"}
          /\ \A w \in Watchers : revents[w] = "none"
          /\ UNCHANGED <<arrived, read, fd, revents, cur>>
      BY <2>7 DEF ev_loop_next
    <3>2. overtaken' = overtaken
      BY <2>4, <3>1
    <3>3. \A w \in Watchers : Waiting(w)' = Waiting(w)
      BY <3>1 DEF Waiting, Unread
    <3> QED
      BY <3>1, <3>2, <3>3 DEF TurnsInv, Pending
  <2>8. ASSUME NEW w \in Watchers, cb_common(w) PROVE TurnsInv'
    <3>1. /\ pc = "ev_invoke_pending"
          /\ revents' = [revents EXCEPT ![w] = "none"]
          /\ UNCHANGED <<arrived, read, fd>>
      BY <2>8 DEF cb_common
    <3>2. \A v \in Watchers : Waiting(v)' = Waiting(v)
      BY <3>1 DEF Waiting, Unread
    <3>3. CASE revents[w] = "EV_ERROR"
      <4>1. pc' = "print_done" /\ UNCHANGED cur
        BY <2>8, <3>3 DEF cb_common
      <4>2. overtaken' = overtaken
        BY <2>4, <4>1
      <4>3. \A v \in Watchers : Pending(v)' = Pending(v)
        BY <1>0, <3>1, <3>3 DEF Pending
      <4>4. \A v \in Watchers : revents'[v] = "EV_READ" <=> revents[v] = "EV_READ"
        BY <1>0, <3>1, <3>3
      <4> QED
        BY <3>2, <4>1, <4>2, <4>3, <4>4 DEF TurnsInv
    <3>4. CASE revents[w] = "EV_READ"
      <4>1. pc' = "print_received" /\ cur' = w
        BY <2>8, <3>4 DEF cb_common
      <4>2. Entered(w) /\ \A v \in Watchers : Entered(v) => v = w
        BY <3>1, <4>1 DEF Entered
      <4>3. overtaken'[w] = 0
        BY <2>0, <4>2 DEF Overtaken
      <4>4. ASSUME NEW v \in Watchers, v # w
            PROVE  overtaken'[v] = IF Waiting(v) THEN overtaken[v] + 1 ELSE overtaken[v]
        BY <2>0, <4>2, <4>4 DEF Overtaken
      <4>5. /\ Pending(w) = 1 /\ Pending(w)' = 0
            /\ \A v \in Watchers \ {w} : /\ revents'[v] = revents[v]
                                         /\ Pending(v) \in 0 .. 1 /\ Pending(v)' = Pending(v)
        BY <1>0, <3>1, <3>4 DEF Pending
      <4>6. \A v \in Watchers : overtaken[v] \in Nat /\ overtaken'[v] \in Nat
        BY <4>3, <4>4 DEF TurnsInv
      <4>7. overtaken' \in [Watchers -> Nat]
        BY <2>0, <4>6
      <4>8. ASSUME NEW v \in Watchers, NEW u \in Watchers, v # u
            PROVE  overtaken'[v] + Pending(u)' <= IF revents'[v] = "EV_READ" THEN 2 ELSE 1
        <5>1. CASE v = w
          BY <4>3, <4>5, <4>8, <5>1
        <5>2. CASE v # w
          <6>1. u = w
            BY <4>8, <5>2 DEF Watchers
          <6>2. overtaken[v] + 1 <= IF revents[v] = "EV_READ" THEN 2 ELSE 1
            BY <4>5, <4>6, <5>2 DEF TurnsInv
          <6> QED
            BY <4>4, <4>5, <4>6, <5>2, <6>1, <6>2
        <5> QED
          BY <5>1, <5>2
      <4>9. \A v \in Watchers : ~Waiting(v)' => overtaken'[v] = 0
        BY <3>2, <4>3, <4>4 DEF TurnsInv
      <4> QED
        BY <4>1, <4>3, <4>7, <4>8, <4>9 DEF TurnsInv
    <3> QED
      BY <2>8, <1>0, <3>3, <3>4 DEF cb_common
  <2>9. ASSUME NEW w \in Watchers, recv_msg(w) PROVE TurnsInv'
    <3>1. /\ pc = "recvmsg" /\ cur = w
          /\ pc' \in {"segv", "print_read", "print_done"}
          /\ read' = [read EXCEPT ![w] = @ + 1]
          /\ UNCHANGED <<arrived, fd, revents, cur>>
      BY <2>9 DEF recv_msg
    <3>2. overtaken' = overtaken /\ overtaken[w] = 0
      BY <2>4, <3>1 DEF TurnsInv
    <3>3. \A v \in Watchers \ {w} : Waiting(v)' = Waiting(v)
      BY <1>0, <3>1 DEF Waiting, Unread
    <3> QED
      BY <3>1, <3>2, <3>3 DEF TurnsInv, Pending
  <2> QED
    BY <1>2, <2>1, <2>2, <2>3, <2>5, <2>6, <2>7, <2>8, <2>9
    DEF TurnsNext, Next, Daemon, Callback
<1> QED
  BY <1>1, <1>2

\* However the datagrams arrive, whatever fails and in whichever order libev
\* invokes what is pending, a datagram loses at most two turns to the other
\* direction before its own watcher's callback runs.
THEOREM TurnsAreFair == TurnsSpec => []ServedInTurn
<1>1. TurnsInit => TypeInv /\ QueueInv /\ TurnsInv
  BY TypeInvInit, QueueInvInit, TurnsInvInit DEF TurnsInit
<1>2. /\ TypeInv /\ QueueInv /\ TurnsInv
      /\ [TurnsNext]_<<vars, overtaken>>
      => (TypeInv /\ QueueInv /\ TurnsInv)'
  <2> SUFFICES ASSUME TypeInv, QueueInv, TurnsInv, [TurnsNext]_<<vars, overtaken>>
               PROVE  (TypeInv /\ QueueInv /\ TurnsInv)'
    OBVIOUS
  <2>1. [Next]_vars
    BY DEF TurnsNext
  <2>2. TypeInv' /\ QueueInv'
    BY <2>1, TypeInvStep, QueueInvStep
  <2> QED
    BY <2>2, TurnsInvStep
<1>3. TurnsInv => ServedInTurn
  <2> SUFFICES ASSUME TurnsInv, NEW w \in Watchers PROVE overtaken[w] <= 2
    BY DEF ServedInTurn
  <2>1. PICK v \in Watchers : v # w
    BY DEF Watchers
  <2> QED
    BY <2>1 DEF TurnsInv, Pending
<1> QED
  BY <1>1, <1>2, <1>3, PTL DEF TurnsSpec
=============================================================================
