-------------------------- MODULE HttpClientMTProofs --------------------------
(* Proofs about HttpClientMT, for any requests, threads, sockets and number *)
(* of tries.  Up to SafetyCorrect nothing is assumed of the ids.            *)
EXTENDS HttpClientMT, FiniteSetTheorems, SequenceTheorems, TLAPS

USE IdAssumption, AttemptsAssumption, ThreadsAssumption, NoneAssumption

-------------------------------------------------------------------------------
(* What the operators on sequences keep.                                   *)

(* The set of a sequence in terms of its places. *)
LEMMA SetOfSeq == \A S : \A s \in Seq(S) : ToSet(s) = {s[i] : i \in 1..Len(s)}
<1>1. QED
  BY DEF ToSet

LEMMA SubSeqKeeps ==
    ASSUME NEW S, NEW s \in Seq(S), NEW m \in 1..(Len(s) + 1)
    PROVE  /\ SubSeq(s, m, Len(s)) \in Seq(S)
           /\ Len(SubSeq(s, m, Len(s))) = Len(s) - m + 1
           /\ ToSet(SubSeq(s, m, Len(s))) \subseteq ToSet(s)
           /\ IsInjective(s) => IsInjective(SubSeq(s, m, Len(s)))
<1> DEFINE t == SubSeq(s, m, Len(s))
<1>1. /\ Len(s) \in Nat /\ DOMAIN s = 1..Len(s) /\ m \in Nat \ {0} /\ m <= Len(s) + 1
      /\ \A i \in m..Len(s) : s[i] \in S
  OBVIOUS
<1>2. /\ t \in Seq(S) /\ Len(t) = Len(s) - m + 1
      /\ \A i \in 1..(Len(s) - m + 1) : t[i] = s[m + i - 1]
  BY <1>1, SubSeqProperties
<1>3. DOMAIN t = 1..(Len(s) - m + 1)
  BY <1>2
<1> HIDE DEF t
<1>4. \A i \in DOMAIN t : m + i - 1 \in DOMAIN s /\ t[i] = s[m + i - 1]
  <2>1. \A i \in 1..(Len(s) - m + 1) : m + i - 1 \in 1..Len(s)
    BY <1>1
  <2>2. QED
    BY <1>1, <1>2, <1>3, <2>1
<1>5. ToSet(t) \subseteq ToSet(s)
  BY <1>4 DEF ToSet
<1>6. IsInjective(s) => IsInjective(t)
  BY <1>3, <1>4 DEF IsInjective
<1>7. QED
  BY <1>2, <1>5, <1>6 DEF t

LEMMA AppendKeeps ==
    ASSUME NEW S, NEW s \in Seq(S), NEW e \in S
    PROVE  /\ Append(s, e) \in Seq(S)
           /\ Len(Append(s, e)) = Len(s) + 1
           /\ ToSet(Append(s, e)) = ToSet(s) \cup {e}
           /\ IsInjective(s) /\ e \notin ToSet(s) => IsInjective(Append(s, e))
<1> DEFINE t == Append(s, e)
<1>1. /\ t \in Seq(S) /\ Len(t) = Len(s) + 1
      /\ \A i \in 1..Len(s) : t[i] = s[i]
      /\ t[Len(s) + 1] = e
  BY AppendProperties
<1>2. Len(s) \in Nat /\ DOMAIN s = 1..Len(s) /\ DOMAIN t = 1..(Len(s) + 1)
  BY <1>1
<1> HIDE DEF t
<1>3. ToSet(t) = ToSet(s) \cup {e}
  <2>1. ToSet(t) \subseteq ToSet(s) \cup {e}
    BY <1>1, <1>2, SetOfSeq
  <2>2. Len(s) + 1 \in DOMAIN t /\ \A i \in DOMAIN s : i \in DOMAIN t
    BY <1>2
  <2>3. ToSet(s) \cup {e} \subseteq ToSet(t)
    BY <1>1, <1>2, <2>2 DEF ToSet
  <2>4. QED
    BY <2>1, <2>3
<1>4. ASSUME IsInjective(s), e \notin ToSet(s) PROVE IsInjective(t)
  <2>1. \A i \in 1..Len(s) : s[i] # e
    BY <1>4, SetOfSeq
  <2>2. QED
    BY <1>1, <1>2, <1>4, <2>1 DEF IsInjective
<1>5. QED
  BY <1>1, <1>3, <1>4 DEF t

LEMMA HeadTailKeep ==
    ASSUME NEW S, NEW s \in Seq(S), s # <<>>
    PROVE  /\ Head(s) \in ToSet(s) /\ Tail(s) \in Seq(S) /\ Len(Tail(s)) = Len(s) - 1
           /\ ToSet(Tail(s)) \subseteq ToSet(s)
           /\ IsInjective(s) => IsInjective(Tail(s)) /\ Head(s) \notin ToSet(Tail(s))
<1> DEFINE t == Tail(s)
<1>1. /\ t \in Seq(S) /\ Len(t) = Len(s) - 1 /\ \A i \in 1..Len(t) : t[i] = s[i + 1]
      /\ Head(s) = s[1] /\ Len(s) \in Nat \ {0}
  BY HeadTailProperties, EmptySeq
<1>2. DOMAIN s = 1..Len(s) /\ DOMAIN t = 1..Len(t)
  BY <1>1
<1>3. Head(s) \in ToSet(s)
  BY <1>1, SetOfSeq
<1> HIDE DEF t
<1>4. 1 \in DOMAIN s /\ \A i \in DOMAIN t : i \in Nat \ {0} /\ i + 1 \in DOMAIN s /\ t[i] = s[i + 1]
  BY <1>1, <1>2
<1>5. ToSet(t) \subseteq ToSet(s)
  BY <1>4 DEF ToSet
<1>6. ASSUME IsInjective(s) PROVE IsInjective(t) /\ Head(s) \notin ToSet(t)
  <2>1. IsInjective(t)
    BY <1>4, <1>6 DEF IsInjective
  <2>2. \A i \in DOMAIN t : t[i] # s[1]
    BY <1>4, <1>6 DEF IsInjective
  <2>3. QED
    BY <1>1, <2>1, <2>2 DEF ToSet
<1>7. QED
  BY <1>1, <1>3, <1>5, <1>6 DEF t

-------------------------------------------------------------------------------
(* The pool.                                                               *)

LEMMA ThreadCount == Cardinality(Threads) \in Nat /\ (Threads # {} => Cardinality(Threads) > 0)
<1>1. QED
  BY FS_CardinalityType, FS_EmptySet

(* CacheSocket drops the oldest sockets of a full pool, and none twice. *)
LEMMA CachedKeeps ==
    ASSUME pool \in Seq(Sockets), Threads # {},
           NEW socket \in Sockets, socket \notin ToSet(pool), IsInjective(pool)
    PROVE  /\ Cached(socket) \in Seq(Sockets)
           /\ Len(Cached(socket)) <= Cardinality(Threads)
           /\ ToSet(Cached(socket)) \subseteq ToSet(pool) \cup {socket}
           /\ IsInjective(Cached(socket))
<1> DEFINE c == Cardinality(Threads)
<1> DEFINE kept == IF Len(pool) >= c THEN SubSeq(pool, Len(pool) - c + 2, Len(pool)) ELSE pool
<1>1. c \in Nat \ {0} /\ Len(pool) \in Nat
  BY ThreadCount
<1>2. kept \in Seq(Sockets) /\ Len(kept) < c /\ ToSet(kept) \subseteq ToSet(pool) /\ IsInjective(kept)
  <2>1. CASE Len(pool) >= c
    <3>1. Len(pool) - c + 2 \in 1..(Len(pool) + 1)
      BY <1>1, <2>1
    <3>2. QED
      BY <1>1, <2>1, <3>1, SubSeqKeeps
  <2>2. CASE ~(Len(pool) >= c)
    BY <1>1, <2>2
  <2>3. QED
    BY <2>1, <2>2
<1>3. Cached(socket) = Append(kept, socket)
  BY DEF Cached
<1>4. socket \notin ToSet(kept)
  BY <1>2
<1> HIDE DEF kept
<1>5. QED
  BY <1>1, <1>2, <1>3, <1>4, AppendKeeps

-------------------------------------------------------------------------------
(* Types, and what the threads are busy with.                              *)

(* Pooling the socket of a session that talks on it. *)
LEMMA PoolingKeeps ==
    ASSUME TypeOK, SocketInv, SocketExclusive, NEW s \in Sessions, NEW t \in Threads,
           stage[s] \in {"exchange", "body"}
    PROVE  /\ Cached(sock[s]) \in Seq(Sockets)
           /\ Len(Cached(sock[s])) <= Cardinality(Threads)
           /\ ToSet(Cached(sock[s])) \subseteq ToSet(pool) \cup {sock[s]}
           /\ IsInjective(Cached(sock[s]))
<1>1. sock[s] \in Sockets /\ sock[s] \notin ToSet(pool) /\ IsInjective(pool) /\ pool \in Seq(Sockets)
  BY DEF TypeOK, SocketInv, SocketExclusive, OnSocket
<1>2. QED
  BY <1>1, CachedKeeps

LEMMA IdsOfSessions == \A s \in Sessions : Id(s) \in Ids
<1>1. QED
  BY DEF Sessions, Id, Ids

LEMMA DoingTypes ==
    /\ Running \in Doing /\ Running.at = "run"
    /\ Does("gone", None, "none") \in Doing
    /\ \A s \in Sessions, at \in {"connect", "caught", "decide", "callback"},
         result \in {"none", "ok", "error", "canceled"} : Does(at, s, result) \in Doing
<1>1. QED
  BY DEF Running, Does, Doing

LEMMA SafeInit == Init => IInv
<1> SUFFICES ASSUME Init PROVE IInv
  OBVIOUS
<1>1. ToSet(<<>>) = {} /\ IsInjective(<<>>) /\ Len(<<>>) = 0 /\ <<>> \in Seq(Sockets)
      /\ <<>> \in Seq({"ok", "error", "canceled"})
  BY EmptySeq DEF ToSet, IsInjective
<1>2. TypeOK
  BY <1>1, DoingTypes DEF Init, TypeOK
<1>3. ThreadInv /\ SocketInv /\ ActiveInv
  BY DEF Init, ThreadInv, SocketInv, ActiveInv, Busy, Running, Does, OnSocket
<1>4. SocketExclusive
  BY <1>1 DEF Init, SocketExclusive
<1>5. PoolBounded
  BY <1>1, ThreadCount DEF Init, PoolBounded
<1>6. CancelInv
  BY <1>1 DEF Init, CancelInv, CanceledIfAsked, Busy, Running, Does
<1>7. QED
  BY <1>2, <1>3, <1>4, <1>5, <1>6 DEF IInv

LEMMA GoesTypes ==
    ASSUME thread \in [Threads -> Doing], NEW t \in Threads, NEW next \in Doing, Goes(t, next)
    PROVE  /\ thread' \in [Threads -> Doing] /\ thread'[t] = next
           /\ \A u \in Threads : u # t => thread'[u] = thread[u]
<1>1. QED
  BY DEF Goes

(* Where the thread goes that ends a turn of its loop. *)
LEMMA BackIsIdle ==
    ASSUME thread \in [Threads -> Doing], NEW t \in Threads, BackToLoop(t)
    PROVE  /\ thread' \in [Threads -> Doing]
           /\ thread'[t].at \in {"run", "gone"}
           /\ \A u \in Threads : u # t => thread'[u] = thread[u]
<1> DEFINE next == IF closing = "no" THEN Running ELSE Does("gone", None, "none")
<1>1. next \in Doing /\ next.at \in {"run", "gone"}
  BY DoingTypes DEF Does
<1>2. Goes(t, next)
  BY DEF BackToLoop
<1> HIDE DEF next
<1>3. QED
  BY <1>1, <1>2, GoesTypes

LEMMA TypeNext == IInv /\ [Next]_vars => TypeOK'
<1> SUFFICES ASSUME IInv, [Next]_vars PROVE TypeOK'
  OBVIOUS
<1> USE DEF TypeOK, sessionVars, historyVars, Operation, OnSocket
<1>0. TypeOK /\ ThreadInv /\ SocketInv /\ SocketExclusive
  BY DEF IInv
<1>1. ASSUME NEW r \in Requests, PostRequest(r) PROVE TypeOK'
  BY <1>0, <1>1 DEF PostRequest, Stage
<1>2. ASSUME NEW i \in Ids, CancelRequest(i) PROVE TypeOK'
  BY <1>0, <1>2 DEF CancelRequest
<1>3. CASE Close
  BY <1>0, <1>3 DEF Close
<1>4. CASE DropSessions
  <2>1. /\ closing' \in {"yes", "terminated"}
        /\ UNCHANGED <<stage, sock, cancel, handled, thread, called, historyVars>>
    BY <1>4 DEF DropSessions
  <2>2. pool' \in Seq(Sockets)
    BY <1>0, <1>4, EmptySeq DEF DropSessions
  <2>3. active' \in [Ids -> Sessions \cup {None}]
    BY <1>0, <1>4 DEF DropSessions
  <2>4. aborting' \in [Sessions -> BOOLEAN]
    <3>1. CASE aborting' = [s \in Sessions |-> aborting[s] \/ s \in ActiveSessions]
      <4>1. \A s \in Sessions : (aborting[s] \/ s \in ActiveSessions) \in BOOLEAN
        BY Zenon
      <4>2. QED
        BY <3>1, <4>1, Zenon
    <3>2. QED
      BY <1>0, <1>4, <3>1 DEF DropSessions
  <2>5. QED
    BY <1>0, <2>1, <2>2, <2>3, <2>4
<1>5. ASSUME NEW s \in Sessions, ServerHandles(s) PROVE TypeOK'
  BY <1>0, <1>5 DEF ServerHandles
<1>6. ASSUME NEW t \in Threads, NEW s \in Sessions, StartSession(t, s) PROVE TypeOK'
  <2>1. Id(s) \in Ids
    BY IdsOfSessions
  <2>2. pool' \in Seq(Sockets) /\ sock' \in [Sessions -> Sockets \cup {None}]
    <3>1. CASE pool = <<>>
      BY <1>0, <1>6, <3>1 DEF StartSession
    <3>2. CASE pool # <<>>
      <4>1. Head(pool) \in Sockets /\ Tail(pool) \in Seq(Sockets)
        BY <1>0, <3>2, HeadTailProperties
      <4>2. QED
        BY <1>0, <1>6, <3>2, <4>1 DEF StartSession
    <3>3. QED
      BY <3>1, <3>2
  <2>3. QED
    BY <1>0, <1>6, <2>1, <2>2 DEF StartSession, Begin, Stage
<1>7. ASSUME NEW t \in Threads, NEW s \in Sessions, HandleResolve(t, s) PROVE TypeOK'
  <2>1. thread' \in [Threads -> Doing]
    BY <1>0, <1>7, DoingTypes, GoesTypes DEF HandleResolve
  <2>2. QED
    BY <1>0, <1>7, <2>1 DEF HandleResolve, Begin, Stage
<1>8. ASSUME NEW t \in Threads, Connect(t) PROVE TypeOK'
  <2>1. thread[t].s \in Sessions
    BY <1>0, <1>8 DEF Connect, ThreadInv, Busy
  <2>2. FreeSockets \subseteq Sockets
    BY DEF FreeSockets
  <2>3. thread' \in [Threads -> Doing]
    BY <1>0, <1>8, DoingTypes, GoesTypes DEF Connect
  <2>4. QED
    BY <1>0, <1>8, <2>1, <2>2, <2>3 DEF Connect, Begin, Stage
<1>9. ASSUME NEW t \in Threads, NEW s \in Sessions, HandleConnect(t, s) PROVE TypeOK'
  BY <1>0, <1>9 DEF HandleConnect, Begin, Stage
<1>10. ASSUME NEW t \in Threads, NEW s \in Sessions, HandleReadHeaders(t, s) \/ HandleReadContent(t, s)
       PROVE  TypeOK'
  <2>1. Id(s) \in Ids /\ Cached(sock[s]) \in Seq(Sockets)
    BY <1>0, <1>10, IdsOfSessions, PoolingKeeps DEF HandleReadHeaders, HandleReadContent
  <2>2. CASE Begin(s, "body") /\ UNCHANGED <<sock, cancel, active, pool, thread>>
    BY <1>0, <1>10, <2>2 DEF HandleReadHeaders, HandleReadContent, Begin, Stage
  <2>3. CASE FinishReadContent(t, s)
    <3>1. thread' \in [Threads -> Doing]
      BY <1>0, <2>3, DoingTypes, GoesTypes DEF FinishReadContent
    <3>2. QED
      BY <1>0, <1>10, <2>1, <2>3, <3>1 DEF HandleReadHeaders, HandleReadContent, FinishReadContent, Begin, Stage
  <2>4. QED
    BY <1>10, <2>2, <2>3 DEF HandleReadHeaders, HandleReadContent
<1>11. ASSUME NEW t \in Threads, NEW s \in Sessions, OperationFails(t, s) PROVE TypeOK'
  <2>1. thread' \in [Threads -> Doing]
    BY <1>0, <1>11, DoingTypes, GoesTypes DEF OperationFails
  <2>2. QED
    BY <1>0, <1>11, <2>1 DEF OperationFails, Begin, Stage
<1>12. ASSUME NEW t \in Threads, CatchException(t) PROVE TypeOK'
  <2> DEFINE i == Id(thread[t].s)
  <2>1. thread[t].s \in Sessions /\ i \in Ids /\ thread[t].result \in {"error", "canceled"}
    BY <1>0, <1>12, IdsOfSessions DEF CatchException, ThreadInv, Busy
  <2>2. CASE active[i] = None
    <3>1. BackToLoop(t) /\ UNCHANGED cancel
      BY <1>12, <2>2 DEF CatchException
    <3>2. thread' \in [Threads -> Doing]
      BY <1>0, <3>1, BackIsIdle
    <3>3. QED
      BY <1>0, <1>12, <2>1, <3>1, <3>2 DEF CatchException
  <2>3. CASE active[i] # None
    <3>1. active[i] \in Sessions
      BY <1>0, <2>1, <2>3
    <3>2. Goes(t, Does("decide", active[i], thread[t].result)) /\ cancel' = [cancel EXCEPT ![active[i]] = FALSE]
      BY <1>12, <2>3 DEF CatchException
    <3>3. thread' \in [Threads -> Doing]
      BY <1>0, <2>1, <3>1, <3>2, DoingTypes, GoesTypes
    <3>4. QED
      BY <1>0, <1>12, <2>1, <3>1, <3>2, <3>3 DEF CatchException
  <2>4. QED
    BY <2>2, <2>3
<1>13. ASSUME NEW t \in Threads, RetryOrGiveUp(t) PROVE TypeOK'
  <2>1. thread[t].s \in Sessions /\ thread[t].result \in {"error", "canceled"}
    BY <1>0, <1>13 DEF RetryOrGiveUp, ThreadInv, Busy
  <2>2. thread' \in [Threads -> Doing]
    <3>1. BackToLoop(t) \/ Goes(t, Does("callback", thread[t].s, thread[t].result))
      BY <1>13 DEF RetryOrGiveUp
    <3>2. QED
      BY <1>0, <2>1, <3>1, BackIsIdle, DoingTypes, GoesTypes
  <2>3. stage' \in [Sessions -> {"none", "posted", "resolved", "over"} \cup Operation]
    BY <1>0, <1>13 DEF RetryOrGiveUp, Stage
  <2>4. QED
    BY <1>0, <1>13, <2>2, <2>3 DEF RetryOrGiveUp
<1>14. ASSUME NEW t \in Threads, RunCallback(t) PROVE TypeOK'
  <2>1. thread[t].s \in Sessions /\ thread[t].result \in {"ok", "error", "canceled"}
    BY <1>0, <1>14 DEF RunCallback, ThreadInv, Busy, Doing
  <2>2. thread[t].s[1] \in Requests
    BY <2>1 DEF Sessions
  <2>3. thread' \in [Threads -> Doing]
    <3>1. BackToLoop(t) \/ Goes(t, Running)
      BY <1>14 DEF RunCallback
    <3>2. QED
      BY <1>0, <3>1, BackIsIdle, DoingTypes, GoesTypes
  <2>4. called' \in [Requests -> Seq({"ok", "error", "canceled"})]
    BY <1>0, <1>14, <2>1, <2>2, AppendProperties DEF RunCallback
  <2>5. QED
    BY <1>0, <1>14, <2>3, <2>4 DEF RunCallback
<1>15. CASE UNCHANGED vars
  BY <1>0, <1>15 DEF vars
<1>16. QED
  BY <1>1, <1>2, <1>3, <1>4, <1>5, <1>6, <1>7, <1>8, <1>9, <1>10, <1>11, <1>12, <1>13, <1>14, <1>15
     DEF Next, HandlerStep, ThreadStep

(* A thread is busy with a session, and a caught exception or a callback   *)
(* has a result. *)
LEMMA ThreadNext == IInv /\ [Next]_vars => ThreadInv'
<1> SUFFICES ASSUME IInv, [Next]_vars PROVE ThreadInv'
  OBVIOUS
<1> USE DEF ThreadInv, Busy, sessionVars, historyVars
<1>0. TypeOK /\ ThreadInv /\ thread \in [Threads -> Doing]
  BY DEF IInv, TypeOK
(* A step that leaves the threads alone, or moves one.                     *)
<1> DEFINE Fine(d) == /\ d.at \in {"connect", "caught", "decide", "callback"} => d.s \in Sessions
                      /\ d.at \in {"caught", "decide"} => d.result \in {"error", "canceled"}
                      /\ d.at = "callback" => d.result # "none"
<1>1. ASSUME UNCHANGED thread PROVE ThreadInv'
  BY <1>0, <1>1
<1>2. ASSUME NEW t \in Threads, NEW d \in Doing, Fine(d), Goes(t, d) PROVE ThreadInv'
  BY <1>0, <1>2, GoesTypes
<1>3. ASSUME NEW t \in Threads, BackToLoop(t) PROVE ThreadInv'
  BY <1>0, <1>3, BackIsIdle
<1>4. Fine(Running)
  BY DEF Running
<1>5. ASSUME NEW t \in Threads, NEW s \in Sessions, HandleResolve(t, s) PROVE ThreadInv'
  <2>1. Fine(Does("connect", s, "none"))
    BY DEF Does
  <2>2. QED
    BY <1>2, <1>5, <2>1, DoingTypes DEF HandleResolve
<1>6. ASSUME NEW t \in Threads, Connect(t) PROVE ThreadInv'
  BY <1>2, <1>4, <1>6, DoingTypes DEF Connect
<1>7. ASSUME NEW t \in Threads, NEW s \in Sessions, FinishReadContent(t, s) PROVE ThreadInv'
  <2>1. Fine(Does("callback", s, "ok"))
    BY DEF Does
  <2>2. QED
    BY <1>2, <1>7, <2>1, DoingTypes DEF FinishReadContent
<1>8. ASSUME NEW t \in Threads, NEW s \in Sessions, OperationFails(t, s) PROVE ThreadInv'
  <2>1. \A result \in {"error", "canceled"} : Fine(Does("caught", s, result))
    BY DEF Does
  <2>2. QED
    BY <1>2, <1>8, <2>1, DoingTypes DEF OperationFails
<1>9. ASSUME NEW t \in Threads, CatchException(t) PROVE ThreadInv'
  <2> DEFINE i == Id(thread[t].s)
  <2>1. thread[t].s \in Sessions /\ i \in Ids /\ thread[t].result \in {"error", "canceled"}
    BY <1>0, <1>9, IdsOfSessions DEF CatchException
  <2>2. CASE active[i] = None
    BY <1>3, <1>9, <2>2 DEF CatchException
  <2>3. CASE active[i] # None
    <3>1. active[i] \in Sessions
      BY <1>0, <2>1, <2>3 DEF TypeOK
    <3>2. Fine(Does("decide", active[i], thread[t].result))
      BY <2>1, <3>1 DEF Does
    <3>3. QED
      BY <1>2, <1>9, <2>1, <2>3, <3>1, <3>2, DoingTypes DEF CatchException
  <2>4. QED
    BY <2>2, <2>3
<1>10. ASSUME NEW t \in Threads, RetryOrGiveUp(t) PROVE ThreadInv'
  <2>1. thread[t].s \in Sessions /\ thread[t].result \in {"error", "canceled"}
    BY <1>0, <1>10 DEF RetryOrGiveUp
  <2>2. Fine(Does("callback", thread[t].s, thread[t].result))
    BY <2>1 DEF Does
  <2>3. BackToLoop(t) \/ Goes(t, Does("callback", thread[t].s, thread[t].result))
    BY <1>10 DEF RetryOrGiveUp
  <2>4. QED
    BY <1>2, <1>3, <2>1, <2>2, <2>3, DoingTypes
<1>11. ASSUME NEW t \in Threads, RunCallback(t) PROVE ThreadInv'
  <2>1. BackToLoop(t) \/ Goes(t, Running)
    BY <1>11 DEF RunCallback
  <2>2. QED
    BY <1>2, <1>3, <1>4, <2>1, DoingTypes
<1>12. ASSUME NEW t \in Threads, NEW s \in Sessions,
              StartSession(t, s) \/ HandleConnect(t, s) \/ HandleReadHeaders(t, s) \/ HandleReadContent(t, s)
       PROVE  ThreadInv'
  <2>1. UNCHANGED thread \/ FinishReadContent(t, s)
    BY <1>12 DEF StartSession, HandleConnect, HandleReadHeaders, HandleReadContent
  <2>2. QED
    BY <1>1, <1>7, <2>1
<1>13. ASSUME \/ \E r \in Requests : PostRequest(r)
              \/ \E i \in Ids : CancelRequest(i)
              \/ Close \/ DropSessions
              \/ \E s \in Sessions : ServerHandles(s)
              \/ UNCHANGED vars
       PROVE  ThreadInv'
  <2>1. UNCHANGED thread
    BY <1>13 DEF PostRequest, CancelRequest, Close, DropSessions, ServerHandles, vars
  <2>2. QED
    BY <1>1, <2>1
<1>14. QED
  BY <1>5, <1>6, <1>8, <1>9, <1>10, <1>11, <1>12, <1>13 DEF Next, HandlerStep, ThreadStep

-------------------------------------------------------------------------------
(* Sockets.                                                                *)

SocketsOK == SocketInv /\ SocketExclusive /\ PoolBounded

(* A session that gives up its socket, or keeps it, endangers nothing, as  *)
(* long as the pool does not grow.                                         *)
LEMMA SocketsShrink ==
    ASSUME TypeOK, SocketsOK, pool' = pool, NEW s \in Sessions,
           stage' = [stage EXCEPT ![s] = "over"], sock' = [sock EXCEPT ![s] = None]
    PROVE  SocketsOK'
<1> USE DEF TypeOK, OnSocket
<1>1. \A u \in Sessions : sock'[u] = None \/ (u # s /\ sock'[u] = sock[u])
  OBVIOUS
<1>2. SocketInv'
  BY DEF SocketsOK, SocketInv
<1>3. None \notin ToSet(pool)
  BY SetOfSeq
<1>4. SocketExclusive'
  BY <1>1, <1>3 DEF SocketsOK, SocketExclusive
<1>5. QED
  BY <1>2, <1>4 DEF SocketsOK, PoolBounded

LEMMA SocketsNext == IInv /\ [Next]_vars => SocketsOK'
<1> SUFFICES ASSUME IInv, [Next]_vars PROVE SocketsOK'
  OBVIOUS
<1> USE DEF sessionVars, historyVars, OnSocket
<1>0. TypeOK /\ ThreadInv /\ SocketsOK
  BY DEF IInv, SocketsOK
(* Most steps touch neither the sockets nor the pool. *)
<1>1. ASSUME UNCHANGED <<sock, pool>>, \A s \in Sessions : stage'[s] \in OnSocket => stage[s] \in OnSocket
      PROVE  SocketsOK'
  BY <1>0, <1>1 DEF SocketsOK, SocketInv, SocketExclusive, PoolBounded
<1>2. ASSUME NEW s \in Sessions, NEW next \in {"posted", "resolve", "resolved", "over"},
             Stage(s, next), UNCHANGED <<sock, pool>>
      PROVE  SocketsOK'
  BY <1>0, <1>1, <1>2 DEF Stage, TypeOK
<1>3. ASSUME NEW s \in Sessions, NEW next \in OnSocket, stage[s] \in OnSocket,
             Stage(s, next), UNCHANGED <<sock, pool>>
      PROVE  SocketsOK'
  BY <1>0, <1>1, <1>3 DEF Stage, TypeOK
<1>4. CASE DropSessions
  <2>1. CASE UNCHANGED pool
    BY <1>0, <1>1, <1>4, <2>1 DEF DropSessions
  <2>2. CASE pool' = <<>>
    <3>1. UNCHANGED <<stage, sock>>
      BY <1>4 DEF DropSessions
    <3>2. ToSet(pool') = {} /\ IsInjective(pool') /\ Len(pool') = 0
      BY <2>2, EmptySeq DEF ToSet, IsInjective
    <3>3. QED
      BY <1>0, <3>1, <3>2, ThreadCount DEF SocketsOK, SocketInv, SocketExclusive, PoolBounded
  <2>3. QED
    BY <1>4, <2>1, <2>2 DEF DropSessions
<1>5. ASSUME NEW t \in Threads, NEW s \in Sessions, StartSession(t, s) PROVE SocketsOK'
  <2>1. CASE pool = <<>>
    BY <1>2, <1>5, <2>1 DEF StartSession, Begin
  <2>2. CASE pool # <<>>
    <3>1. /\ sock' = [sock EXCEPT ![s] = Head(pool)] /\ pool' = Tail(pool)
          /\ stage' = [stage EXCEPT ![s] = "exchange"]
      BY <1>5, <2>2 DEF StartSession, Begin, Stage
    <3>2. /\ pool \in Seq(Sockets) /\ IsInjective(pool) /\ Len(pool) <= Cardinality(Threads)
          /\ \A u \in Sessions : sock[u] \notin ToSet(pool)
      BY <1>0 DEF TypeOK, SocketsOK, SocketExclusive, PoolBounded
    <3>3. /\ Head(pool) \in ToSet(pool) /\ Head(pool) \notin ToSet(Tail(pool)) /\ IsInjective(Tail(pool))
          /\ ToSet(Tail(pool)) \subseteq ToSet(pool) /\ Len(Tail(pool)) = Len(pool) - 1
          /\ Head(pool) \in Sockets
      BY <2>2, <3>2, HeadTailKeep, HeadTailProperties
    <3>4. SocketInv'
      BY <1>0, <3>1, <3>3 DEF SocketsOK, SocketInv, TypeOK
    <3>5. SocketExclusive'
      BY <1>0, <3>1, <3>2, <3>3 DEF SocketsOK, SocketExclusive, TypeOK
    <3>6. PoolBounded'
      BY <3>1, <3>2, <3>3, ThreadCount DEF PoolBounded
    <3>7. QED
      BY <3>4, <3>5, <3>6 DEF SocketsOK
  <2>3. QED
    BY <2>1, <2>2
<1>6. ASSUME NEW t \in Threads, NEW s \in Sessions, HandleResolve(t, s) PROVE SocketsOK'
  BY <1>2, <1>6 DEF HandleResolve, Begin
<1>7. ASSUME NEW t \in Threads, Connect(t) PROVE SocketsOK'
  <2>1. thread[t].s \in Sessions
    BY <1>0, <1>7 DEF Connect, ThreadInv, Busy
  <2>2. PICK socket \in FreeSockets : sock' = [sock EXCEPT ![thread[t].s] = socket]
    BY <1>7 DEF Connect
  <2>3. socket \in Sockets /\ socket \notin ToSet(pool) /\ \A u \in Sessions : sock[u] # socket
    BY DEF FreeSockets
  <2>4. pool' = pool /\ stage' = [stage EXCEPT ![thread[t].s] = "connect"]
    BY <1>7 DEF Connect, Begin, Stage
  <2>5. SocketInv'
    BY <1>0, <2>1, <2>2, <2>3, <2>4 DEF SocketsOK, SocketInv, TypeOK
  <2>6. SocketExclusive'
    BY <1>0, <2>1, <2>2, <2>3, <2>4 DEF SocketsOK, SocketExclusive, TypeOK
  <2>7. QED
    BY <1>0, <2>4, <2>5, <2>6 DEF SocketsOK, PoolBounded
<1>8. ASSUME NEW t \in Threads, NEW s \in Sessions, HandleConnect(t, s) PROVE SocketsOK'
  BY <1>3, <1>8 DEF HandleConnect, Begin
<1>9. ASSUME NEW t \in Threads, NEW s \in Sessions, stage[s] \in {"exchange", "body"}, FinishReadContent(t, s)
      PROVE  SocketsOK'
  <2>1. /\ pool' = Cached(sock[s]) /\ sock' = [sock EXCEPT ![s] = None]
        /\ stage' = [stage EXCEPT ![s] = "over"]
    BY <1>9 DEF FinishReadContent, Begin, Stage
  <2>2. SocketInv /\ SocketExclusive
    BY <1>0 DEF SocketsOK
  <2>3. /\ Cached(sock[s]) \in Seq(Sockets) /\ Len(Cached(sock[s])) <= Cardinality(Threads)
        /\ ToSet(Cached(sock[s])) \subseteq ToSet(pool) \cup {sock[s]}
        /\ IsInjective(Cached(sock[s]))
    BY <1>0, <1>9, <2>2, PoolingKeeps
  <2>4. None \notin ToSet(pool')
    BY <2>1, <2>3, SetOfSeq
  <2>5. sock[s] # None
    BY <1>9, <2>2 DEF SocketInv
  <2>6. SocketInv'
    BY <1>0, <2>1, <2>2 DEF SocketInv, TypeOK
  <2>7. \A u \in Sessions : sock'[u] \notin ToSet(pool')
    BY <1>0, <2>1, <2>2, <2>3, <2>4, <2>5 DEF SocketExclusive, TypeOK
  <2>8. SocketExclusive'
    BY <1>0, <2>1, <2>2, <2>3, <2>7 DEF SocketExclusive, TypeOK
  <2>9. QED
    BY <2>1, <2>3, <2>6, <2>8 DEF SocketsOK, PoolBounded
<1>10. ASSUME NEW t \in Threads, NEW s \in Sessions, HandleReadHeaders(t, s) \/ HandleReadContent(t, s)
       PROVE  SocketsOK'
  <2>1. stage[s] \in {"exchange", "body"}
    BY <1>10 DEF HandleReadHeaders, HandleReadContent
  <2>2. (Stage(s, "body") /\ UNCHANGED <<sock, pool>>) \/ FinishReadContent(t, s)
    BY <1>10 DEF HandleReadHeaders, HandleReadContent, Begin
  <2>3. QED
    BY <1>3, <1>9, <2>1, <2>2
<1>11. ASSUME NEW t \in Threads, NEW s \in Sessions, OperationFails(t, s) PROVE SocketsOK'
  BY <1>0, <1>11, SocketsShrink DEF OperationFails, Begin, Stage
<1>12. ASSUME NEW t \in Threads, RetryOrGiveUp(t) PROVE SocketsOK'
  <2> DEFINE s == thread[t].s
  <2>1. s \in Sessions
    BY <1>0, <1>12 DEF RetryOrGiveUp, ThreadInv, Busy
  <2>2. UNCHANGED <<sock, pool>>
    BY <1>12 DEF RetryOrGiveUp
  <2>3. CASE UNCHANGED stage
    BY <1>0, <1>1, <2>2, <2>3
  <2>4. CASE s[2] < MaxAttempts /\ Stage(<<s[1], s[2] + 1>>, "posted")
    <3>1. <<s[1], s[2] + 1>> \in Sessions
      BY <2>1, <2>4 DEF Sessions
    <3>2. QED
      BY <1>2, <2>2, <2>4, <3>1
  <2>5. QED
    BY <1>12, <2>3, <2>4 DEF RetryOrGiveUp
<1>13. ASSUME NEW r \in Requests, PostRequest(r) PROVE SocketsOK'
  <2>1. <<r, 1>> \in Sessions
    BY DEF Sessions
  <2>2. QED
    BY <1>2, <1>13, <2>1 DEF PostRequest
<1>14. ASSUME \/ \E i \in Ids : CancelRequest(i)
              \/ Close \/ \E s \in Sessions : ServerHandles(s)
              \/ \E t \in Threads : CatchException(t) \/ RunCallback(t)
              \/ UNCHANGED vars
       PROVE  SocketsOK'
  <2>1. UNCHANGED <<stage, sock, pool>>
    BY <1>14 DEF CancelRequest, Close, ServerHandles, CatchException, RunCallback, vars
  <2>2. QED
    BY <1>1, <2>1
<1>15. QED
  BY <1>4, <1>5, <1>6, <1>7, <1>8, <1>10, <1>11, <1>12, <1>13, <1>14 DEF Next, HandlerStep, ThreadStep

-------------------------------------------------------------------------------
(* Cancellation.                                                           *)

(* A session is entered under its own id only. *)
LEMMA ActiveNext == IInv /\ [Next]_vars => ActiveInv'
<1> SUFFICES ASSUME IInv, [Next]_vars PROVE ActiveInv'
  OBVIOUS
<1>0. TypeOK /\ ActiveInv /\ ThreadInv /\ active \in [Ids -> Sessions \cup {None}]
  BY DEF IInv, TypeOK
<1>1. ASSUME \A i \in Ids : active'[i] \in {active[i], None} PROVE ActiveInv'
  BY <1>0, <1>1 DEF ActiveInv
<1>2. ASSUME NEW i \in Ids, active' = [active EXCEPT ![i] = None] PROVE ActiveInv'
  BY <1>0, <1>1, <1>2
<1>3. ASSUME NEW t \in Threads, NEW s \in Sessions, StartSession(t, s) PROVE ActiveInv'
  <2>1. active' = [active EXCEPT ![Id(s)] = IF @ = None THEN s ELSE @] /\ Id(s) \in Ids
    BY <1>3, IdsOfSessions DEF StartSession
  <2>2. QED
    BY <1>0, <2>1 DEF ActiveInv
<1>4. ASSUME NEW t \in Threads, CatchException(t) PROVE ActiveInv'
  <2>1. Id(thread[t].s) \in Ids
    BY <1>0, <1>4, IdsOfSessions DEF CatchException, ThreadInv, Busy
  <2>2. QED
    BY <1>2, <1>4, <2>1 DEF CatchException
<1>5. ASSUME NEW t \in Threads, NEW s \in Sessions, HandleReadHeaders(t, s) \/ HandleReadContent(t, s)
      PROVE  ActiveInv'
  <2>1. UNCHANGED active \/ active' = [active EXCEPT ![Id(s)] = None]
    BY <1>5 DEF HandleReadHeaders, HandleReadContent, FinishReadContent
  <2>2. QED
    BY <1>1, <1>2, <2>1, IdsOfSessions
<1>6. CASE DropSessions
  BY <1>1, <1>6 DEF DropSessions
<1>7. ASSUME \/ \E r \in Requests : PostRequest(r)
             \/ \E i \in Ids : CancelRequest(i)
             \/ Close \/ \E s \in Sessions : ServerHandles(s)
             \/ \E t \in Threads, s \in Sessions :
                   HandleResolve(t, s) \/ HandleConnect(t, s) \/ OperationFails(t, s)
             \/ \E t \in Threads : Connect(t) \/ RetryOrGiveUp(t) \/ RunCallback(t)
             \/ UNCHANGED vars
      PROVE  ActiveInv'
  <2>1. UNCHANGED active
    BY <1>7 DEF PostRequest, CancelRequest, Close, ServerHandles, HandleResolve, HandleConnect,
                OperationFails, Connect, RetryOrGiveUp, RunCallback, vars
  <2>2. QED
    BY <1>1, <2>1
<1>8. QED
  BY <1>3, <1>4, <1>5, <1>6, <1>7 DEF Next, HandlerStep, ThreadStep

(* After the step s may be told of a cancellation. *)
MayCancelNow(s) == Id(s) \in asked' \/ closing' # "no"

(* Once a session may be told of a cancellation it always may. *)
LEMMA MayCancelStays ==
    [Next]_vars => /\ asked \subseteq asked'
                   /\ closing # "no" => closing' # "no"
                   /\ \A s \in Sessions : MayCancel(s) => MayCancelNow(s)
<1> SUFFICES ASSUME [Next]_vars PROVE asked \subseteq asked' /\ (closing # "no" => closing' # "no")
  BY DEF MayCancel, MayCancelNow
<1>1. CASE \E i \in Ids : CancelRequest(i)
  BY <1>1 DEF CancelRequest
<1>2. CASE Close \/ DropSessions
  BY <1>2 DEF Close, DropSessions, historyVars
<1>3. CASE UNCHANGED <<asked, closing>>
  BY <1>3
<1>4. QED
  BY <1>1, <1>2, <1>3 DEF Next, HandlerStep, ThreadStep, PostRequest, ServerHandles, StartSession, HandleResolve,
     HandleConnect, HandleReadHeaders, HandleReadContent, OperationFails, Connect, CatchException,
     RetryOrGiveUp, RunCallback, historyVars, vars

(* What is to abort an operation, what a thread carries and what a callback *)
(* was told all go back to a CancelRequest with that id or to ~Impl.        *)
LEMMA CancelNext == IInv /\ [Next]_vars => CancelInv'
<1> SUFFICES ASSUME IInv, [Next]_vars PROVE CancelInv'
  OBVIOUS
<1>0. TypeOK /\ CancelInv /\ ActiveInv /\ ThreadInv /\ thread \in [Threads -> Doing]
  BY DEF IInv, TypeOK
<1>1. /\ asked \subseteq asked' /\ (closing # "no" => closing' # "no")
      /\ \A s \in Sessions : MayCancel(s) => MayCancelNow(s)
  BY MayCancelStays
<1> DEFINE MayAbort == \A s \in Sessions : aborting'[s] => MayCancelNow(s)
<1> DEFINE BusyAs(d) == d.at \in {"connect", "caught", "decide", "callback"}
<1> DEFINE MayTell(d) == BusyAs(d) /\ d.result = "canceled" => MayCancelNow(d.s)
<1>2. /\ \A s \in Sessions : aborting[s] => MayCancelNow(s)
      /\ \A t \in Threads : MayTell(thread[t])
      /\ CanceledIfAsked
  BY <1>0, <1>1 DEF CancelInv, ThreadInv, Busy
<1>3. ASSUME MayAbort, \A t \in Threads : MayTell(thread'[t]), CanceledIfAsked' PROVE CancelInv'
  BY <1>3 DEF CancelInv, Busy, MayCancel, MayCancelNow, Id
(* The callbacks. *)
<1>4. ASSUME UNCHANGED called PROVE CanceledIfAsked'
  BY <1>1, <1>2, <1>4 DEF CanceledIfAsked
(* The operations. *)
<1>5. ASSUME \A s \in Sessions : aborting'[s] => aborting[s] PROVE MayAbort
  BY <1>1, <1>2, <1>5
<1>6. ASSUME NEW s \in Sessions, NEW op, Begin(s, op) PROVE MayAbort
  BY <1>0, <1>5, <1>6 DEF Begin, TypeOK
(* The threads. *)
<1>7. ASSUME UNCHANGED thread PROVE \A t \in Threads : MayTell(thread'[t])
  BY <1>0, <1>1, <1>2, <1>7 DEF ThreadInv, Busy
<1>8. ASSUME NEW t \in Threads, NEW d \in Doing, Goes(t, d), MayTell(d)
      PROVE  \A u \in Threads : MayTell(thread'[u])
  BY <1>0, <1>1, <1>2, <1>8, GoesTypes DEF ThreadInv, Busy
<1>9. ASSUME NEW t \in Threads, BackToLoop(t) PROVE \A u \in Threads : MayTell(thread'[u])
  BY <1>0, <1>1, <1>2, <1>9, BackIsIdle DEF ThreadInv, Busy
<1> HIDE DEF MayAbort, MayTell
<1>10. ASSUME NEW i \in Ids, CancelRequest(i) PROVE CancelInv'
  <2>1. MayAbort
    <3>1. CASE UNCHANGED aborting
      BY <1>5, <3>1
    <3>2. CASE active[i] # None /\ aborting' = [aborting EXCEPT ![active[i]] = TRUE]
      <4>1. Id(active[i]) = i /\ i \in asked'
        BY <1>0, <1>10, <3>2 DEF CancelRequest, ActiveInv
      <4>2. QED
        BY <1>0, <1>1, <1>2, <3>2, <4>1 DEF MayAbort, MayCancelNow, TypeOK
    <3>3. QED
      BY <1>10, <3>1, <3>2 DEF CancelRequest
  <2>2. QED
    BY <1>3, <1>4, <1>7, <1>10, <2>1 DEF CancelRequest
<1>11. CASE DropSessions
  <2>1. closing' # "no"
    BY <1>11 DEF DropSessions
  <2>2. MayAbort
    BY <2>1 DEF MayAbort, MayCancelNow
  <2>3. QED
    BY <1>3, <1>4, <1>7, <1>11, <2>2 DEF DropSessions
<1>12. ASSUME NEW t \in Threads, NEW s \in Sessions, StartSession(t, s) \/ HandleConnect(t, s) PROVE CancelInv'
  <2>1. UNCHANGED <<called, thread>> /\ \E op \in {"exchange", "resolve"} : Begin(s, op)
    BY <1>12 DEF StartSession, HandleConnect
  <2>2. QED
    BY <1>3, <1>4, <1>6, <1>7, <2>1
<1>13. ASSUME NEW t \in Threads, NEW s \in Sessions, HandleResolve(t, s) PROVE CancelInv'
  <2>1. MayTell(Does("connect", s, "none"))
    BY DEF MayTell, Does
  <2>2. UNCHANGED called /\ Begin(s, "resolved") /\ Goes(t, Does("connect", s, "none"))
    BY <1>13 DEF HandleResolve
  <2>3. QED
    BY <1>3, <1>4, <1>6, <1>8, <2>1, <2>2, DoingTypes
<1>14. ASSUME NEW t \in Threads, Connect(t) PROVE CancelInv'
  <2>1. thread[t].s \in Sessions /\ UNCHANGED called /\ Begin(thread[t].s, "connect") /\ Goes(t, Running)
    BY <1>0, <1>14 DEF Connect, ThreadInv, Busy
  <2>2. MayTell(Running)
    BY DEF MayTell, Running
  <2>3. QED
    BY <1>3, <1>4, <1>6, <1>8, <2>1, <2>2, DoingTypes
<1>15. ASSUME NEW t \in Threads, NEW s \in Sessions, HandleReadHeaders(t, s) \/ HandleReadContent(t, s)
       PROVE  CancelInv'
  <2>1. UNCHANGED called
    BY <1>15 DEF HandleReadHeaders, HandleReadContent
  <2>2. (Begin(s, "body") /\ UNCHANGED thread) \/ (Begin(s, "over") /\ Goes(t, Does("callback", s, "ok")))
    BY <1>15 DEF HandleReadHeaders, HandleReadContent, FinishReadContent
  <2>3. MayTell(Does("callback", s, "ok"))
    BY DEF MayTell, Does
  <2>4. QED
    BY <1>3, <1>4, <1>6, <1>7, <1>8, <2>1, <2>2, <2>3, DoingTypes
<1>16. ASSUME NEW t \in Threads, NEW s \in Sessions, OperationFails(t, s) PROVE CancelInv'
  <2>1. UNCHANGED called /\ Begin(s, "over")
    BY <1>16 DEF OperationFails
  <2>2. CASE Goes(t, Does("caught", s, "error"))
    <3>1. MayTell(Does("caught", s, "error"))
      BY DEF MayTell, Does
    <3>2. QED
      BY <1>3, <1>4, <1>6, <1>8, <2>1, <2>2, <3>1, DoingTypes
  <2>3. CASE aborting[s] /\ Goes(t, Does("caught", s, "canceled"))
    <3>1. MayCancelNow(s)
      BY <1>1, <1>2, <2>3 DEF MayAbort
    <3>2. MayTell(Does("caught", s, "canceled"))
      BY <3>1 DEF MayTell, Does
    <3>3. QED
      BY <1>3, <1>4, <1>6, <1>8, <2>1, <2>3, <3>2, DoingTypes
  <2>4. QED
    BY <1>16, <2>2, <2>3 DEF OperationFails
<1>17. ASSUME NEW t \in Threads, CatchException(t) PROVE CancelInv'
  <2> DEFINE i == Id(thread[t].s)
  <2>1. /\ thread[t].s \in Sessions /\ i \in Ids /\ thread[t].result \in {"error", "canceled"}
        /\ thread[t].result = "canceled" => MayCancelNow(thread[t].s)
    BY <1>0, <1>1, <1>2, <1>17, IdsOfSessions DEF CatchException, ThreadInv, Busy, MayTell
  <2>2. UNCHANGED <<called, aborting>>
    BY <1>17 DEF CatchException
  <2>3. CASE active[i] = None
    BY <1>3, <1>4, <1>5, <1>9, <1>17, <2>2, <2>3 DEF CatchException
  <2>4. CASE active[i] # None
    <3>1. active[i] \in Sessions /\ Id(active[i]) = Id(thread[t].s)
      BY <1>0, <2>1, <2>4 DEF ActiveInv, TypeOK
    <3>2. thread[t].result = "canceled" => MayCancelNow(active[i])
      BY <2>1, <3>1 DEF MayCancelNow
    <3>3. MayTell(Does("decide", active[i], thread[t].result))
      BY <3>2 DEF MayTell, Does
    <3>4. Goes(t, Does("decide", active[i], thread[t].result))
      BY <1>17, <2>4 DEF CatchException
    <3>5. QED
      BY <1>3, <1>4, <1>5, <1>8, <2>1, <2>2, <3>1, <3>3, <3>4, DoingTypes
  <2>5. QED
    BY <2>3, <2>4
<1>18. ASSUME NEW t \in Threads, RetryOrGiveUp(t) PROVE CancelInv'
  <2>1. /\ thread[t].s \in Sessions /\ thread[t].result \in {"error", "canceled"}
        /\ thread[t].result = "canceled" => MayCancelNow(thread[t].s)
    BY <1>0, <1>1, <1>2, <1>18 DEF RetryOrGiveUp, ThreadInv, Busy, MayTell
  <2>2. UNCHANGED <<called, aborting>>
    BY <1>18 DEF RetryOrGiveUp
  <2>3. MayTell(Does("callback", thread[t].s, thread[t].result))
    BY <2>1 DEF MayTell, Does
  <2>4. BackToLoop(t) \/ Goes(t, Does("callback", thread[t].s, thread[t].result))
    BY <1>18 DEF RetryOrGiveUp
  <2>5. QED
    BY <1>3, <1>4, <1>5, <1>8, <1>9, <2>1, <2>2, <2>3, <2>4, DoingTypes
<1>19. ASSUME NEW t \in Threads, RunCallback(t) PROVE CancelInv'
  <2> DEFINE s == thread[t].s
  <2> DEFINE result == thread[t].result
  <2>1. /\ s \in Sessions /\ s[1] \in Requests /\ result \in {"ok", "error", "canceled"}
        /\ result = "canceled" => MayCancelNow(s)
    BY <1>0, <1>1, <1>2, <1>19 DEF RunCallback, ThreadInv, Busy, Doing, MayTell, Sessions
  <2>2. UNCHANGED aborting /\ called' = [called EXCEPT ![s[1]] = Append(@, result)]
    BY <1>19 DEF RunCallback, sessionVars
  <2>3. \A r \in Requests : \A x \in ToSet(called'[r]) : x \in ToSet(called[r]) \/ (r = s[1] /\ x = result)
    <3>1. called[s[1]] \in Seq({"ok", "error", "canceled"})
      BY <1>0, <2>1 DEF TypeOK
    <3> HIDE DEF s, result
    <3>2. ToSet(Append(called[s[1]], result)) \subseteq ToSet(called[s[1]]) \cup {result}
      BY <2>1, <3>1, AppendKeeps
    <3>3. QED
      BY <1>0, <2>1, <2>2, <3>2 DEF TypeOK
  <2>4. CanceledIfAsked'
    BY <1>1, <1>2, <2>1, <2>3 DEF CanceledIfAsked, MayCancelNow, Id
  <2>5. MayTell(Running)
    BY DEF MayTell, Running
  <2>6. BackToLoop(t) \/ Goes(t, Running)
    BY <1>19 DEF RunCallback
  <2>7. QED
    BY <1>3, <1>5, <1>8, <1>9, <2>2, <2>4, <2>5, <2>6, DoingTypes
<1>20. ASSUME \/ \E r \in Requests : PostRequest(r)
              \/ Close \/ \E s \in Sessions : ServerHandles(s)
              \/ UNCHANGED vars
       PROVE  CancelInv'
  <2>1. UNCHANGED <<called, aborting, thread>>
    BY <1>20 DEF PostRequest, Close, ServerHandles, vars, sessionVars
  <2>2. QED
    BY <1>3, <1>4, <1>5, <1>7, <2>1
<1>21. QED
  BY <1>10, <1>11, <1>12, <1>13, <1>14, <1>15, <1>16, <1>17, <1>18, <1>19, <1>20 DEF Next, HandlerStep, ThreadStep

LEMMA SafeNext == IInv /\ [Next]_vars => IInv'
<1>1. QED
  BY TypeNext, ThreadNext, SocketsNext, ActiveNext, CancelNext DEF IInv, SocketsOK

LEMMA SafetyCorrect == Spec => []IInv
<1>1. QED
  BY SafeInit, SafeNext, PTL DEF Spec

(* Sockets are never shared, neither by two sessions nor with the pool,    *)
(* and CacheSocket keeps the pool within the number of threads             *)
(* (m_socketPool and HttpSession::Socket), whatever the ids are.           *)
THEOREM SocketsAreKept == Spec => []SocketsKept
<1>1. IInv => SocketsKept
  BY DEF IInv, SocketsKept
<1>2. QED
  BY <1>1, SafetyCorrect, PTL

(* Whatever the ids are, a callback that is told of a cancellation was     *)
(* asked to be canceled by somebody who named its id, or the client is     *)
(* being destroyed.                                                        *)
THEOREM CancelsOnlyIfAsked == Spec => []CanceledIfAsked
<1>1. IInv => CanceledIfAsked
  BY DEF IInv, CancelInv
<1>2. QED
  BY <1>1, SafetyCorrect, PTL

(* Cancel is empty only of sessions that are not found, or of one that a   *)
(* thread has taken out of HandleResolve and not yet into Connect.         *)
LEMMA CallableNext == IInv /\ CallableInv /\ [Next]_vars => CallableInv'
<1> SUFFICES ASSUME IInv, CallableInv, [Next]_vars PROVE CallableInv'
  OBVIOUS
<1> DEFINE Connecting(s) == \E t \in Threads : thread[t].at = "connect" /\ thread[t].s = s
           ConnectingThen(s) == \E t \in Threads : thread'[t].at = "connect" /\ thread'[t].s = s
<1>0. /\ ThreadInv /\ ActiveInv /\ active \in [Ids -> Sessions \cup {None}] /\ cancel \in [Sessions -> BOOLEAN]
      /\ thread \in [Threads -> Doing] /\ None \notin Sessions
  BY NoneAssumption DEF IInv, TypeOK, Sessions
<1>1. \A i \in Ids : active[i] # None /\ ~cancel[active[i]] => Connecting(active[i])
  BY DEF CallableInv
<1>2. ASSUME NEW t \in Threads, thread[t].at # "connect", NEW d, thread' = [thread EXCEPT ![t] = d],
             NEW s, Connecting(s)
      PROVE  ConnectingThen(s)
  BY <1>0, <1>2
<1>3. ASSUME NEW t \in Threads, BackToLoop(t) PROVE \E d : thread' = [thread EXCEPT ![t] = d]
  BY <1>3 DEF BackToLoop, Goes
(* A step in which sessions may be forgotten and a thread may move that    *)
(* does not connect.                                                       *)
<1>4. ASSUME \/ UNCHANGED thread
             \/ \E t \in Threads : thread[t].at # "connect" /\ \E d : thread' = [thread EXCEPT ![t] = d],
             \A i \in Ids : active'[i] # None =>
                 active'[i] = active[i] /\ (cancel'[active[i]] = cancel[active[i]] \/ ConnectingThen(active[i]))
      PROVE  CallableInv'
  <2> SUFFICES ASSUME NEW i \in Ids, active'[i] # None, ~cancel'[active'[i]] PROVE ConnectingThen(active'[i])
    BY DEF CallableInv
  <2>1. active'[i] = active[i] /\ (~cancel[active[i]] \/ ConnectingThen(active[i]))
    BY <1>4
  <2>2. ConnectingThen(active[i]) \/ Connecting(active[i])
    BY <1>1, <2>1
  <2>3. CASE UNCHANGED thread
    BY <2>1, <2>2, <2>3
  <2>4. CASE \E t \in Threads : thread[t].at # "connect" /\ \E d : thread' = [thread EXCEPT ![t] = d]
    BY <1>2, <2>1, <2>2, <2>4
  <2>5. QED
    BY <1>4, <2>3, <2>4
<1>5. ASSUME NEW t \in Threads, NEW s \in Sessions, StartSession(t, s) PROVE CallableInv'
  <2>1. /\ active' = [active EXCEPT ![Id(s)] = IF @ = None THEN s ELSE @] /\ Id(s) \in Ids
        /\ cancel' = [cancel EXCEPT ![s] = TRUE] /\ UNCHANGED thread
    BY <1>5, IdsOfSessions DEF StartSession
  <2>2. ASSUME NEW i \in Ids, active'[i] # None, ~cancel'[active'[i]] PROVE Connecting(active'[i])
    <3>1. active'[i] \in Sessions \cup {None}
      BY <1>0, <2>1
    <3>2. active'[i] # s
      BY <1>0, <2>1, <2>2
    <3>3. active'[i] = active[i]
      BY <1>0, <2>1, <2>2, <3>2
    <3>4. ~cancel[active[i]]
      BY <1>0, <2>1, <2>2, <3>1, <3>2, <3>3
    <3>5. QED
      BY <1>1, <2>2, <3>3, <3>4
  <2>3. QED
    BY <2>1, <2>2 DEF CallableInv
<1>6. ASSUME NEW t \in Threads, NEW s \in Sessions, HandleResolve(t, s) PROVE CallableInv'
  <2>1. /\ thread[t].at = "run" /\ thread' = [thread EXCEPT ![t] = Does("connect", s, "none")]
        /\ cancel' = [cancel EXCEPT ![s] = FALSE] /\ UNCHANGED active
    BY <1>6 DEF HandleResolve, Takes, Goes
  <2>2. ConnectingThen(s)
    BY <1>0, <2>1 DEF Does
  <2>3. \A u \in Sessions : cancel'[u] = cancel[u] \/ u = s
    BY <1>0, <2>1
  <2>4. \A i \in Ids : active'[i] # None =>
           active'[i] = active[i] /\ (cancel'[active[i]] = cancel[active[i]] \/ ConnectingThen(active[i]))
    BY <1>0, <2>1, <2>2, <2>3
  <2>5. \E u \in Threads : thread[u].at # "connect" /\ \E d : thread' = [thread EXCEPT ![u] = d]
    BY <2>1
  <2>6. QED
    BY <1>4, <2>4, <2>5
<1>7. ASSUME NEW t \in Threads, Connect(t) PROVE CallableInv'
  <2> DEFINE s == thread[t].s
  <2>1. /\ thread' = [thread EXCEPT ![t] = Running] /\ cancel' = [cancel EXCEPT ![s] = TRUE] /\ UNCHANGED active
        /\ s \in Sessions
    BY <1>0, <1>7 DEF Connect, Goes, ThreadInv, Busy
  <2>2. ASSUME NEW i \in Ids, active'[i] # None, ~cancel'[active'[i]] PROVE ConnectingThen(active'[i])
    <3>1. active[i] \in Sessions /\ active'[i] = active[i]
      BY <1>0, <2>1, <2>2
    <3>2. active[i] # s /\ ~cancel[active[i]]
      BY <1>0, <2>1, <2>2, <3>1
    <3>3. PICK u \in Threads : thread[u].at = "connect" /\ thread[u].s = active[i]
      BY <1>1, <2>2, <3>1, <3>2
    <3>4. u # t
      BY <3>2, <3>3
    <3>5. thread'[u] = thread[u]
      BY <1>0, <2>1, <3>4
    <3>6. QED
      BY <3>1, <3>3, <3>5
  <2>3. QED
    BY <2>2 DEF CallableInv
<1>8. ASSUME NEW t \in Threads, NEW s \in Sessions, HandleReadHeaders(t, s) \/ HandleReadContent(t, s)
      PROVE  CallableInv'
  <2>1. thread[t].at = "run"
    BY <1>8 DEF HandleReadHeaders, HandleReadContent, Takes
  <2>2. CASE FinishReadContent(t, s)
    <3>1. /\ cancel' = [cancel EXCEPT ![s] = FALSE] /\ active' = [active EXCEPT ![Id(s)] = None] /\ Id(s) \in Ids
          /\ thread' = [thread EXCEPT ![t] = Does("callback", s, "ok")]
      BY <2>2, IdsOfSessions DEF FinishReadContent, Goes
    <3>2. \A i \in Ids : active'[i] # None => active'[i] = active[i] /\ cancel'[active[i]] = cancel[active[i]]
      <4> SUFFICES ASSUME NEW i \in Ids, active'[i] # None
                   PROVE  active'[i] = active[i] /\ cancel'[active[i]] = cancel[active[i]]
        OBVIOUS
      <4>1. i # Id(s) /\ active'[i] = active[i] /\ active[i] \in Sessions
        BY <1>0, <3>1
      <4>2. active[i] # s
        BY <1>0, <4>1 DEF ActiveInv
      <4>3. QED
        BY <1>0, <3>1, <4>1, <4>2
    <3>3. \E u \in Threads : thread[u].at # "connect" /\ \E d : thread' = [thread EXCEPT ![u] = d]
      BY <2>1, <3>1
    <3>4. QED
      BY <1>4, <3>2, <3>3
  <2>3. CASE UNCHANGED <<cancel, active, thread>>
    BY <1>4, <2>3
  <2>4. QED
    BY <1>8, <2>2, <2>3 DEF HandleReadHeaders, HandleReadContent
<1>9. ASSUME NEW t \in Threads, CatchException(t) PROVE CallableInv'
  <2> DEFINE j == Id(thread[t].s)
  <2>1. thread[t].at = "caught" /\ j \in Ids /\ active' = [active EXCEPT ![j] = None]
    BY <1>0, <1>9, IdsOfSessions DEF CatchException, ThreadInv, Busy
  <2>2. \E d : thread' = [thread EXCEPT ![t] = d]
    BY <1>3, <1>9 DEF CatchException, Goes
  <2>3. \A i \in Ids : active'[i] # None => active'[i] = active[i] /\ cancel'[active[i]] = cancel[active[i]]
    <3> SUFFICES ASSUME NEW i \in Ids, active'[i] # None
                 PROVE  active'[i] = active[i] /\ cancel'[active[i]] = cancel[active[i]]
      OBVIOUS
    <3>1. i # j /\ active'[i] = active[i] /\ active[i] \in Sessions
      BY <1>0, <2>1
    <3>2. active[j] # None => active[i] # active[j]
      BY <1>0, <2>1, <3>1 DEF ActiveInv
    <3>3. cancel' = cancel \/ (active[j] # None /\ cancel' = [cancel EXCEPT ![active[j]] = FALSE])
      BY <1>9 DEF CatchException
    <3>4. QED
      BY <1>0, <3>1, <3>2, <3>3
  <2>4. QED
    BY <1>4, <2>1, <2>2, <2>3
<1>10. ASSUME NEW t \in Threads, RetryOrGiveUp(t) \/ RunCallback(t) PROVE CallableInv'
  <2>1. /\ thread[t].at # "connect" /\ UNCHANGED <<cancel, active>>
    BY <1>10 DEF RetryOrGiveUp, RunCallback, sessionVars
  <2>2. \E d : thread' = [thread EXCEPT ![t] = d]
    BY <1>3, <1>10 DEF RetryOrGiveUp, RunCallback, Goes
  <2>3. QED
    BY <1>4, <2>1, <2>2
<1>11. ASSUME NEW t \in Threads, NEW s \in Sessions, OperationFails(t, s) PROVE CallableInv'
  <2>1. /\ thread[t].at = "run" /\ UNCHANGED <<cancel, active>>
        /\ \E d : thread' = [thread EXCEPT ![t] = d]
    BY <1>11 DEF OperationFails, Takes, Goes
  <2>2. QED
    BY <1>4, <2>1
<1>12. CASE DropSessions
  <2>1. UNCHANGED <<cancel, thread>> /\ \A i \in Ids : active'[i] \in {active[i], None}
    BY <1>12 DEF DropSessions
  <2>2. QED
    BY <1>4, <2>1
<1>13. ASSUME \/ \E r \in Requests : PostRequest(r)
              \/ \E i \in Ids : CancelRequest(i)
              \/ Close \/ \E s \in Sessions : ServerHandles(s)
              \/ \E t \in Threads, s \in Sessions : HandleConnect(t, s)
              \/ UNCHANGED vars
       PROVE  CallableInv'
  <2>1. UNCHANGED <<cancel, active, thread>>
    BY <1>13 DEF PostRequest, CancelRequest, Close, ServerHandles, HandleConnect, sessionVars, vars
  <2>2. QED
    BY <1>4, <2>1
<1>14. QED
  BY <1>5, <1>6, <1>7, <1>8, <1>9, <1>10, <1>11, <1>12, <1>13 DEF Next, HandlerStep, ThreadStep

(* Whatever the ids are, ~Impl finds an empty Cancel only while a session  *)
(* that can be found is between HandleResolve and Connect.                 *)
THEOREM DestroyedOnlyInResolve == Spec => []DiesOnlyInResolve
<1>1. Init => CallableInv /\ DiesOnlyInResolve
  BY DEF Init, CallableInv, DiesOnlyInResolve
<1>2. IInv /\ CallableInv /\ DiesOnlyInResolve /\ [Next]_vars => DiesOnlyInResolve'
  <2> SUFFICES ASSUME IInv, CallableInv, DiesOnlyInResolve, [Next]_vars PROVE DiesOnlyInResolve'
    OBVIOUS
  <2>1. CASE DropSessions
    <3>1. SUFFICES ASSUME closing' = "terminated" PROVE DiesOnlyInResolve'
      BY DEF DiesOnlyInResolve
    <3>2. (\E s \in ActiveSessions : ~cancel[s]) /\ UNCHANGED <<active, thread>>
      BY <2>1, <3>1 DEF DropSessions
    <3>3. PICK i \in Ids : active[i] # None /\ ~cancel[active[i]]
      BY <3>2 DEF ActiveSessions
    <3>4. PICK t \in Threads : thread[t].at = "connect" /\ thread[t].s = active[i]
      BY <3>3 DEF CallableInv
    <3>5. Id(active[i]) = i
      BY <3>3 DEF IInv, ActiveInv
    <3>6. active[Id(thread[t].s)] = thread[t].s
      BY <3>4, <3>5
    <3>7. QED
      BY <3>2, <3>4, <3>6 DEF DiesOnlyInResolve
  <2>2. CASE closing' # "terminated"
    BY <2>2 DEF DiesOnlyInResolve
  <2>3. CASE UNCHANGED vars
    BY <2>3 DEF vars, DiesOnlyInResolve
  <2>4. ASSUME NEW s \in Sessions, ServerHandles(s) PROVE DiesOnlyInResolve'
    BY <2>4 DEF ServerHandles, DiesOnlyInResolve
  <2>5. ASSUME \/ \E r \in Requests : PostRequest(r)
               \/ \E i \in Ids : CancelRequest(i)
               \/ Close
               \/ \E t \in Threads, s \in Sessions : HandlerStep(t, s)
               \/ \E t \in Threads : ThreadStep(t)
        PROVE  closing' # "terminated"
    BY <2>5 DEF PostRequest, CancelRequest, Close, HandlerStep, StartSession, HandleResolve, HandleConnect,
                HandleReadHeaders, HandleReadContent, OperationFails, ThreadStep, Connect, CatchException,
                RetryOrGiveUp, RunCallback, Takes, Alive
  <2>6. QED
    BY <2>1, <2>2, <2>3, <2>4, <2>5 DEF Next
<1>3. QED
  BY <1>1, <1>2, CallableNext, SafetyCorrect, PTL DEF Spec

-------------------------------------------------------------------------------
(* With distinct ids HttpClientMT implements HttpContract.                 *)

(* The latest try of a request.                                            *)

LEMMA SessionParts ==
    \A s \in Sessions : /\ s[1] \in Requests /\ s[2] \in 1..MaxAttempts /\ s = <<s[1], s[2]>>
                        /\ \A k \in 1..MaxAttempts : <<s[1], k>> \in Sessions
<1>1. QED
  BY DEF Sessions

LEMMA LatestIsUnique ==
    \A s, u \in Sessions : s[1] = u[1] /\ Latest(s) /\ Latest(u) => s = u
<1> SUFFICES ASSUME NEW s \in Sessions, NEW u \in Sessions, s[1] = u[1], Latest(s), Latest(u) PROVE s = u
  OBVIOUS
<1>1. /\ s[2] \in 1..MaxAttempts /\ u[2] \in 1..MaxAttempts
      /\ s = <<s[1], s[2]>> /\ u = <<s[1], u[2]>>
  BY SessionParts
<1>2. ~(s[2] < u[2]) /\ ~(u[2] < s[2])
  BY <1>1 DEF Latest
<1>3. s[2] = u[2]
  BY <1>1, <1>2
<1>4. QED
  BY <1>1, <1>3

(* Which try is the latest depends on which tries were begun. *)
LEMMA LatestSame ==
    ASSUME \A s \in Sessions : stage'[s] = "none" <=> stage[s] = "none"
    PROVE  \A s \in Sessions : Latest(s)' <=> Latest(s)
<1>1. \A s \in Sessions : s[2] \in Nat /\ \A k \in (s[2] + 1)..MaxAttempts : <<s[1], k>> \in Sessions
  BY SessionParts
<1>2. QED
  BY <1>1 DEF Latest

(* The current try, as the contract is told of it, is the latest. *)
LEMMA TryIsLatest == \A s \in Sessions : Latest(s) => Try(s[1]) = s[2]
<1> SUFFICES ASSUME NEW s \in Sessions, Latest(s) PROVE Try(s[1]) = s[2]
  OBVIOUS
<1>1. s[1] \in Requests /\ s[2] \in 1..MaxAttempts /\ s = <<s[1], s[2]>>
  BY SessionParts
<1> DEFINE r == s[1]
<1> DEFINE P(k) == stage[<<r, k>>] # "none" /\ \A l \in (k + 1)..MaxAttempts : stage[<<r, l>>] = "none"
<1>2. P(s[2])
  BY <1>1 DEF Latest
<1>3. \A k \in 2..MaxAttempts : P(k) => k = s[2]
  <2> SUFFICES ASSUME NEW k \in 2..MaxAttempts, P(k) PROVE k = s[2]
    OBVIOUS
  <2>1. ~(k < s[2]) /\ ~(s[2] < k)
    BY <1>1, <1>2
  <2>2. QED
    BY <1>1, <2>1
<1>4. CASE s[2] = 1
  <2>1. \A k \in 2..MaxAttempts : stage[<<r, k>>] = "none"
    BY <1>2, <1>4
  <2>2. QED
    BY <1>4, <2>1 DEF Try
<1>5. CASE s[2] # 1
  <2>1. s[2] \in 2..MaxAttempts
    BY <1>1, <1>5
  <2>2. Try(r) = CHOOSE k \in 2..MaxAttempts : P(k)
    BY <1>2, <2>1 DEF Try
  <2> HIDE DEF P
  <2>3. QED
    BY <1>2, <1>3, <2>1, <2>2
<1>6. QED
  BY <1>4, <1>5

-------------------------------------------------------------------------------
(* What distinct ids add.                                                  *)

IdsDistinct == IsInjective(IdOf)

LEMMA SameIdSameRequest ==
    ASSUME IdsDistinct
    PROVE  \A s, u \in Sessions : Id(s) = Id(u) => s[1] = u[1]
<1>1. QED
  BY SessionParts DEF IdsDistinct, IsInjective, Id

(* So one session at most is latest under an id. *)
LEMMA LatestOfId ==
    ASSUME IdsDistinct
    PROVE  \A s, u \in Sessions : Id(s) = Id(u) /\ Latest(s) /\ Latest(u) => s = u
<1>1. QED
  BY SameIdSameRequest, LatestIsUnique

LEMMA DistinctInit == Init => DistinctInv
<1> SUFFICES ASSUME Init PROVE DistinctInv
  OBVIOUS
<1>1. TryInv
  BY SessionParts DEF Init, TryInv, Sessions
<1>2. BusyInv /\ ResultInv
  BY DEF Init, BusyInv, ResultInv, Busy, Running
<1>3. FoundInv /\ HandledInv
  BY DEF Init, FoundInv, HandledInv
<1>4. QED
  BY <1>1, <1>2, <1>3, SafeInit DEF DistinctInv

(* Which tries a request has had. *)
LEMMA TryNext == DistinctInv /\ [Next]_vars => TryInv'
<1> SUFFICES ASSUME DistinctInv, [Next]_vars PROVE TryInv'
  OBVIOUS
<1> USE DEF sessionVars, historyVars, Operation, OnSocket
<1>0. /\ TryInv /\ BusyInv /\ FoundInv
      /\ stage \in [Sessions -> {"none", "posted", "resolved", "over"} \cup Operation]
      /\ handled \in [Sessions -> BOOLEAN] /\ reached \in [Sessions -> BOOLEAN]
      /\ active \in [Ids -> Sessions \cup {None}] /\ thread \in [Threads -> Doing]
      /\ called \in [Requests -> Seq({"ok", "error", "canceled"})]
      /\ \A t \in Threads : Busy(t) => thread[t].s \in Sessions
  BY DEF DistinctInv, IInv, TypeOK, ThreadInv
<1>1. ASSUME UNCHANGED <<stage, called>>,
             \A s \in Sessions : stage[s] = "none" => handled'[s] = handled[s] /\ reached'[s] = reached[s]
      PROVE  TryInv'
  <2>1. \A s \in Sessions : Latest(s)' = Latest(s)
    BY <1>1 DEF Latest
  <2>2. TryInv
    BY <1>0
  <2>3. \A s \in Sessions :
          /\ stage'[s] = "none" => ~handled'[s] /\ ~reached'[s] /\ (s[2] = 1 => called'[s[1]] = <<>>)
          /\ stage'[s] # "none" => \A i \in 1..(s[2] - 1) : stage'[<<s[1], i>>] = "over"
          /\ stage'[s] \notin {"none", "over"} => Latest(s)' /\ called'[s[1]] = <<>>
    BY <1>1, <2>1, <2>2 DEF TryInv
  <2>4. \A r \in Requests : stage'[<<r, 1>>] # "none" => \E i \in 1..MaxAttempts : Latest(<<r, i>>)'
    BY <1>1, <2>2 DEF TryInv, Latest
  <2>5. QED
    BY <2>3, <2>4 DEF TryInv
<1>e. ASSUME NEW s \in Sessions, stage[s] # "none", NEW u \in Sessions, u[1] = s[1], u[2] < s[2]
      PROVE  stage[u] = "over"
  <2>1. u[2] \in 1..(s[2] - 1) /\ u = <<s[1], u[2]>>
    BY <1>e, SessionParts
  <2>2. QED
    BY <1>0, <1>e, <2>1 DEF TryInv
(* An operation of a session that is under way. *)
<1>2. ASSUME NEW s \in Sessions, stage[s] \notin {"none", "over"}, NEW x, x # "none", Stage(s, x),
             UNCHANGED <<called, handled, reached>>
      PROVE  TryInv'
  <2>1. \A u \in Sessions : /\ stage'[u] = IF u = s THEN x ELSE stage[u]
                            /\ stage'[u] = "none" <=> stage[u] = "none"
    BY <1>0, <1>2 DEF Stage
  <2>2. \A u \in Sessions : Latest(u)' <=> Latest(u)
    BY <2>1, LatestSame
  <2>3. Latest(s) /\ called[s[1]] = <<>>
    BY <1>0, <1>2 DEF TryInv
  <2>4. ASSUME NEW u \in Sessions PROVE
          /\ stage'[u] = "none" => ~handled'[u] /\ ~reached'[u] /\ (u[2] = 1 => called'[u[1]] = <<>>)
          /\ stage'[u] \notin {"none", "over"} => Latest(u)' /\ called'[u[1]] = <<>>
    BY <1>0, <1>2, <2>1, <2>2, <2>3 DEF TryInv
  <2>5. ASSUME NEW u \in Sessions, stage'[u] # "none", NEW k \in 1..(u[2] - 1) PROVE stage'[<<u[1], k>>] = "over"
    <3>1. <<u[1], k>> \in Sessions /\ stage[<<u[1], k>>] = "over"
      BY <1>0, <2>1, <2>5, SessionParts DEF TryInv
    <3>2. QED
      BY <1>2, <2>1, <3>1
  <2>6. ASSUME NEW r \in Requests, stage'[<<r, 1>>] # "none" PROVE \E k \in 1..MaxAttempts : Latest(<<r, k>>)'
    <3>1. <<r, 1>> \in Sessions
      BY DEF Sessions
    <3>2. PICK k \in 1..MaxAttempts : Latest(<<r, k>>)
      BY <1>0, <2>1, <2>6, <3>1 DEF TryInv
    <3>3. <<r, k>> \in Sessions
      BY DEF Sessions
    <3>4. QED
      BY <2>2, <3>2, <3>3
  <2>7. QED
    BY <2>4, <2>5, <2>6 DEF TryInv
(* A new session. *)
<1>3. ASSUME NEW s \in Sessions, stage[s] = "none", called[s[1]] = <<>>, Stage(s, "posted"),
             \A k \in 1..(s[2] - 1) : stage[<<s[1], k>>] = "over",
             \A k \in (s[2] + 1)..MaxAttempts : stage[<<s[1], k>>] = "none",
             UNCHANGED <<called, handled, reached>>
      PROVE  TryInv'
  <2>1. \A u \in Sessions : stage'[u] = IF u = s THEN "posted" ELSE stage[u]
    BY <1>0, <1>3 DEF Stage
  <2>2. Latest(s)'
    BY <1>3, <2>1, SessionParts DEF Latest
  <2>3. ASSUME NEW u \in Sessions, u[1] # s[1] PROVE Latest(u)' <=> Latest(u)
    BY <2>1, <2>3, SessionParts DEF Latest
  <2>4. ASSUME NEW u \in Sessions, u[1] = s[1], u # s PROVE stage'[u] \in {"none", "over"}
    <3>1. u[2] < s[2] \/ u[2] > s[2]
      BY <2>4, SessionParts
    <3>2. QED
      BY <1>3, <2>1, <2>4, <3>1, SessionParts
  <2>5. ASSUME NEW u \in Sessions PROVE
          /\ stage'[u] = "none" => ~handled'[u] /\ ~reached'[u] /\ (u[2] = 1 => called'[u[1]] = <<>>)
          /\ stage'[u] \notin {"none", "over"} => Latest(u)' /\ called'[u[1]] = <<>>
    BY <1>0, <1>3, <2>1, <2>2, <2>3, <2>4, <2>5 DEF TryInv
  <2>6. ASSUME NEW u \in Sessions, stage'[u] # "none", NEW k \in 1..(u[2] - 1) PROVE stage'[<<u[1], k>>] = "over"
    <3>1. <<u[1], k>> \in Sessions /\ k < u[2]
      BY SessionParts
    <3>2. CASE u = s
      BY <1>3, <2>1, <3>1, <3>2
    <3>3. CASE u # s
      <4>1. stage[u] # "none" /\ stage[<<u[1], k>>] = "over"
        BY <1>0, <2>1, <2>6, <3>3 DEF TryInv
      <4>2. QED
        BY <1>3, <2>1, <3>1, <4>1
    <3>4. QED
      BY <3>2, <3>3
  <2>7. ASSUME NEW r \in Requests, stage'[<<r, 1>>] # "none" PROVE \E k \in 1..MaxAttempts : Latest(<<r, k>>)'
    <3>1. CASE r = s[1]
      BY <2>2, <3>1, SessionParts
    <3>2. CASE r # s[1]
      <4>1. \A k \in 1..MaxAttempts : <<r, k>> \in Sessions
        BY DEF Sessions
      <4>2. 1 \in 1..MaxAttempts
        OBVIOUS
      <4>3. stage[<<r, 1>>] # "none"
        BY <2>1, <2>7, <3>2, <4>1, <4>2
      <4>4. QED
        BY <1>0, <2>3, <3>2, <4>1, <4>3 DEF TryInv
    <3>3. QED
      BY <3>1, <3>2
  <2>8. QED
    BY <2>5, <2>6, <2>7 DEF TryInv
<1>4. ASSUME NEW r \in Requests, PostRequest(r) PROVE TryInv'
  <2> DEFINE s == <<r, 1>>
  <2>1. s \in Sessions /\ s[1] = r /\ s[2] = 1
    BY DEF Sessions
  <2>2. stage[s] = "none" /\ Stage(s, "posted") /\ UNCHANGED <<called, handled, reached>> /\ called[r] = <<>>
    BY <1>0, <1>4, <2>1 DEF PostRequest, TryInv
  <2>3. ASSUME NEW k \in 2..MaxAttempts PROVE stage[<<r, k>>] = "none"
    <3>1. <<r, k>> \in Sessions /\ 1 \in 1..(k - 1)
      BY DEF Sessions
    <3>2. QED
      BY <1>0, <2>2, <3>1 DEF TryInv
  <2> HIDE DEF s
  <2>4. QED
    BY <1>3, <2>1, <2>2, <2>3
<1>5. ASSUME NEW i \in Ids, CancelRequest(i) PROVE TryInv'
  <2>1. UNCHANGED <<stage, called, handled>>
    BY <1>5 DEF CancelRequest
  <2>2. ASSUME NEW s \in Sessions, stage[s] = "none" PROVE reached'[s] = reached[s]
    BY <1>0, <1>5, <2>2 DEF CancelRequest, FoundInv, Latest
  <2>3. QED
    BY <1>1, <2>1, <2>2
<1>6. ASSUME NEW s \in Sessions, ServerHandles(s) PROVE TryInv'
  BY <1>0, <1>1, <1>6 DEF ServerHandles
<1>7. ASSUME NEW t \in Threads, NEW s \in Sessions, HandlerStep(t, s) PROVE TryInv'
  <2>1. UNCHANGED <<called, handled, reached>> /\ stage[s] \in {"posted"} \cup Operation
    BY <1>7 DEF HandlerStep, StartSession, HandleResolve, HandleConnect, HandleReadHeaders,
                HandleReadContent, OperationFails
  <2>2. \E x \in {"exchange", "resolve", "resolved", "body", "over"} : Stage(s, x)
    BY <1>7 DEF HandlerStep, StartSession, HandleResolve, HandleConnect, HandleReadHeaders,
                HandleReadContent, FinishReadContent, OperationFails, Begin
  <2>3. QED
    BY <1>2, <2>1, <2>2
<1>8. ASSUME NEW t \in Threads, Connect(t) PROVE TryInv'
  <2>1. thread[t].s \in Sessions /\ stage[thread[t].s] = "resolved"
    BY <1>0, <1>8 DEF Connect, Busy, BusyInv
  <2>2. Stage(thread[t].s, "connect") /\ UNCHANGED <<called, handled, reached>>
    BY <1>8 DEF Connect, Begin
  <2>3. QED
    BY <1>2, <2>1, <2>2
<1>9. ASSUME NEW t \in Threads, RetryOrGiveUp(t) PROVE TryInv'
  <2> DEFINE s == thread[t].s
  <2>1. s \in Sessions /\ stage[s] = "over" /\ Latest(s) /\ called[s[1]] = <<>>
    BY <1>0, <1>9 DEF RetryOrGiveUp, Busy, BusyInv
  <2>2. UNCHANGED <<called, handled, reached>>
    BY <1>9 DEF RetryOrGiveUp
  <2>3. CASE UNCHANGED stage
    BY <1>1, <2>2, <2>3
  <2>4. CASE s[2] < MaxAttempts /\ Stage(<<s[1], s[2] + 1>>, "posted")
    <3> DEFINE n == <<s[1], s[2] + 1>>
    <3>1. n \in Sessions /\ n[1] = s[1] /\ n[2] = s[2] + 1 /\ s[2] \in 1..MaxAttempts
      BY <2>1, <2>4 DEF Sessions
    <3>2. stage[n] = "none" /\ \A k \in (n[2] + 1)..MaxAttempts : stage[<<n[1], k>>] = "none"
      BY <2>1, <2>4, <3>1 DEF Latest
    <3>3. \A k \in 1..(n[2] - 1) : stage[<<n[1], k>>] = "over"
      <4>1. ASSUME NEW k \in 1..(n[2] - 1) PROVE stage[<<n[1], k>>] = "over"
        <5>1. k \in 1..(s[2] - 1) \/ k = s[2]
          BY <3>1
        <5>2. n[1] = s[1] /\ s = <<s[1], s[2]>>
          BY <2>1, SessionParts
        <5>3. CASE k = s[2]
          BY <2>1, <5>2, <5>3
        <5>4. CASE k \in 1..(s[2] - 1)
          BY <1>0, <2>1, <5>2, <5>4 DEF TryInv
        <5>5. QED
          BY <5>1, <5>3, <5>4
      <4>2. QED
        BY <4>1
    <3> HIDE DEF n
    <3>4. QED
      BY <1>3, <2>1, <2>2, <2>4, <3>1, <3>2, <3>3 DEF n
  <2>5. QED
    BY <1>9, <2>3, <2>4 DEF RetryOrGiveUp
<1>10. ASSUME NEW t \in Threads, RunCallback(t) PROVE TryInv'
  <2> DEFINE s == thread[t].s
  <2>1. s \in Sessions /\ stage[s] = "over" /\ Latest(s) /\ s[1] \in Requests
    BY <1>0, <1>10, SessionParts DEF RunCallback, Busy, BusyInv
  <2>2. UNCHANGED <<stage, handled, reached>> /\ \A r \in Requests : r # s[1] => called'[r] = called[r]
    BY <1>0, <1>10 DEF RunCallback
  <2> HIDE DEF s
  <2>3. ASSUME NEW u \in Sessions, u[1] = s[1] PROVE stage[u] \in {"none", "over"} /\ (u[2] = 1 => stage[u] = "over")
    <3>1. u[2] < s[2] \/ u[2] = s[2] \/ u[2] > s[2]
      BY <2>1, SessionParts
    <3>2. CASE u[2] < s[2]
      BY <1>e, <2>1, <2>3, <3>2
    <3>3. CASE u[2] = s[2]
      BY <2>1, <2>3, <3>3, SessionParts
    <3>4. CASE u[2] > s[2]
      <4>1. u[2] \in (s[2] + 1)..MaxAttempts /\ u[2] # 1
        BY <2>1, <3>4, SessionParts
      <4>2. QED
        BY <2>1, <2>3, <4>1, SessionParts DEF Latest
    <3>5. QED
      BY <3>1, <3>2, <3>3, <3>4
  <2>4. \A u \in Sessions : Latest(u)' <=> Latest(u)
    BY <2>2, LatestSame
  <2>5. ASSUME NEW u \in Sessions PROVE
          /\ stage'[u] = "none" => ~handled'[u] /\ ~reached'[u] /\ (u[2] = 1 => called'[u[1]] = <<>>)
          /\ stage'[u] # "none" => \A k \in 1..(u[2] - 1) : stage'[<<u[1], k>>] = "over"
          /\ stage'[u] \notin {"none", "over"} => Latest(u)' /\ called'[u[1]] = <<>>
    BY <1>0, <2>2, <2>3, <2>4, SessionParts DEF TryInv
  <2>6. ASSUME NEW r \in Requests, stage'[<<r, 1>>] # "none" PROVE \E k \in 1..MaxAttempts : Latest(<<r, k>>)'
    <3>1. \A k \in 1..MaxAttempts : <<r, k>> \in Sessions
      BY DEF Sessions
    <3>2. QED
      BY <1>0, <2>2, <2>4, <2>6, <3>1 DEF TryInv
  <2>7. QED
    BY <2>5, <2>6 DEF TryInv
<1>11. CASE Close \/ DropSessions \/ (\E t \in Threads : CatchException(t)) \/ UNCHANGED vars
  <2>1. UNCHANGED <<stage, called, handled, reached>>
    BY <1>11 DEF Close, DropSessions, CatchException, vars
  <2>2. QED
    BY <1>1, <2>1
<1>12. QED
  BY <1>4, <1>5, <1>6, <1>7, <1>8, <1>9, <1>10, <1>11 DEF Next, ThreadStep

-------------------------------------------------------------------------------
(* The threads.                                                            *)

(* What is true, before and after a step, of the session a thread does d   *)
(* for.                                                                    *)
BusyWith(d) == d.at \in {"connect", "caught", "decide", "callback"}

Right(d) ==
    /\ stage[d.s] = IF d.at = "connect" THEN "resolved" ELSE "over"
    /\ Latest(d.s) /\ called[d.s[1]] = <<>>
    /\ d.at \in {"decide", "callback"} => active[Id(d.s)] = None

LatestNow(s) == stage'[s] # "none" /\ \A k \in (s[2] + 1)..MaxAttempts : stage'[<<s[1], k>>] = "none"

RightNow(d) ==
    /\ stage'[d.s] = IF d.at = "connect" THEN "resolved" ELSE "over"
    /\ LatestNow(d.s) /\ called'[d.s[1]] = <<>>
    /\ d.at \in {"decide", "callback"} => active'[Id(d.s)] = None

LEMMA BusyInvParts ==
    BusyInv <=> /\ \A t \in Threads : BusyWith(thread[t]) => Right(thread[t])
                /\ \A t, u \in Threads :
                     u # t /\ BusyWith(thread[t]) /\ BusyWith(thread[u]) => thread[u].s # thread[t].s
<1>1. QED
  BY DEF BusyInv, Busy, BusyWith, Right

LEMMA BusyNext == DistinctInv /\ IdsDistinct /\ [Next]_vars => BusyInv'
<1> SUFFICES ASSUME DistinctInv, IdsDistinct, [Next]_vars PROVE BusyInv'
  OBVIOUS
<1> USE DEF sessionVars, historyVars, Operation, OnSocket
<1>0. /\ TryInv /\ FoundInv /\ ActiveInv
      /\ stage \in [Sessions -> {"none", "posted", "resolved", "over"} \cup Operation]
      /\ active \in [Ids -> Sessions \cup {None}] /\ thread \in [Threads -> Doing]
      /\ called \in [Requests -> Seq({"ok", "error", "canceled"})]
      /\ \A t \in Threads : BusyWith(thread[t]) => thread[t].s \in Sessions
  BY DEF DistinctInv, IInv, TypeOK, ThreadInv, BusyWith, Busy
<1>1. /\ \A t \in Threads : BusyWith(thread[t]) => Right(thread[t])
      /\ \A t, u \in Threads :
           u # t /\ BusyWith(thread[t]) /\ BusyWith(thread[u]) => thread[u].s # thread[t].s
  BY BusyInvParts DEF DistinctInv
<1>2. ASSUME \A t \in Threads : BusyWith(thread'[t]) => RightNow(thread'[t]),
             \A t, u \in Threads :
               u # t /\ BusyWith(thread'[t]) /\ BusyWith(thread'[u]) => thread'[u].s # thread'[t].s
      PROVE  BusyInv'
  <2>1. \A t \in Threads : BusyWith(thread'[t]) => Right(thread[t])'
    BY <1>2 DEF RightNow, Right, LatestNow, Latest, Id
  <2>2. QED
    BY <1>2, <2>1 DEF BusyInv, Busy, BusyWith, Right
<1>3. ASSUME UNCHANGED thread, \A t \in Threads : BusyWith(thread[t]) => RightNow(thread[t]) PROVE BusyInv'
  BY <1>1, <1>2, <1>3
<1>4. ASSUME NEW t \in Threads, NEW d \in Doing, Goes(t, d),
             BusyWith(d) => RightNow(d) /\ \A u \in Threads : u # t /\ BusyWith(thread[u]) => thread[u].s # d.s,
             \A u \in Threads : u # t /\ BusyWith(thread[u]) => RightNow(thread[u])
      PROVE  BusyInv'
  <2>1. thread'[t] = d /\ \A u \in Threads : u # t => thread'[u] = thread[u]
    BY <1>0, <1>4, GoesTypes
  <2>2. QED
    BY <1>1, <1>2, <1>4, <2>1
<1>5. ASSUME NEW t \in Threads, BackToLoop(t),
             \A u \in Threads : u # t /\ BusyWith(thread[u]) => RightNow(thread[u])
      PROVE  BusyInv'
  <2>1. ~BusyWith(thread'[t]) /\ \A u \in Threads : u # t => thread'[u] = thread[u]
    BY <1>0, <1>5, BackIsIdle DEF BusyWith
  <2>2. QED
    BY <1>1, <1>2, <1>5, <2>1
(* The other threads while the operation of a session goes on. *)
<1>6. ASSUME NEW s \in Sessions, NEW x, x # "none", stage[s] # "none", Stage(s, x)
      PROVE  /\ \A u \in Sessions : LatestNow(u) <=> Latest(u)
             /\ stage'[s] = x /\ \A u \in Sessions : u # s => stage'[u] = stage[u]
  <2>1. \A u \in Sessions : stage'[u] = IF u = s THEN x ELSE stage[u]
    BY <1>0, <1>6 DEF Stage
  <2>2. \A u \in Sessions : u[2] \in Nat /\ \A k \in (u[2] + 1)..MaxAttempts : <<u[1], k>> \in Sessions
    BY SessionParts
  <2>3. QED
    BY <1>6, <2>1, <2>2 DEF LatestNow, Latest
<1>7. ASSUME NEW s \in Sessions, NEW x, x # "none", stage[s] # "none", Stage(s, x), UNCHANGED called,
             NEW u \in Threads, BusyWith(thread[u]), thread[u].s # s,
             active'[Id(thread[u].s)] \in {active[Id(thread[u].s)], None}
      PROVE  RightNow(thread[u])
  <2>1. Right(thread[u]) /\ thread[u].s \in Sessions
    BY <1>0, <1>1, <1>7
  <2>2. QED
    BY <1>6, <1>7, <2>1 DEF Right, RightNow
<1>8. ASSUME NEW u \in Threads, BusyWith(thread[u])
      PROVE  thread[u].s \in Sessions /\ stage[thread[u].s] \in {"resolved", "over"}
  BY <1>0, <1>1, <1>8 DEF Right
<1>9. ASSUME NEW t \in Threads, NEW s \in Sessions, StartSession(t, s) PROVE BusyInv'
  <2>1. /\ stage[s] = "posted" /\ UNCHANGED <<thread, called>>
        /\ active' = [active EXCEPT ![Id(s)] = IF @ = None THEN s ELSE @]
        /\ \E x \in {"exchange", "resolve"} : Stage(s, x)
    BY <1>9 DEF StartSession, Begin
  <2>2. Latest(s)
    BY <1>0, <2>1 DEF TryInv
  <2>3. ASSUME NEW u \in Threads, BusyWith(thread[u]) PROVE RightNow(thread[u])
    <3>1. thread[u].s \in Sessions /\ thread[u].s # s /\ Latest(thread[u].s)
      BY <1>1, <1>8, <2>1, <2>3 DEF Right
    <3>2. Id(thread[u].s) # Id(s) /\ Id(s) \in Ids /\ Id(thread[u].s) \in Ids
      BY <2>2, <3>1, LatestOfId, IdsOfSessions
    <3>3. active'[Id(thread[u].s)] = active[Id(thread[u].s)]
      BY <1>0, <2>1, <3>2
    <3>4. QED
      BY <1>7, <2>1, <2>3, <3>1, <3>3
  <2>4. QED
    BY <1>3, <2>1, <2>3
<1>10. ASSUME NEW t \in Threads, NEW s \in Sessions, HandleResolve(t, s) PROVE BusyInv'
  <2> DEFINE d == Does("connect", s, "none")
  <2>1. /\ stage[s] = "resolve" /\ Stage(s, "resolved") /\ Goes(t, d) /\ UNCHANGED <<called, active>>
        /\ d \in Doing /\ d.at = "connect" /\ d.s = s
    BY <1>10, DoingTypes DEF HandleResolve, Begin, Does
  <2>2. Latest(s) /\ called[s[1]] = <<>>
    BY <1>0, <2>1 DEF TryInv
  <2>3. \A u \in Threads : BusyWith(thread[u]) => thread[u].s # s
    BY <1>8, <2>1
  <2>4. \A u \in Threads : BusyWith(thread[u]) => RightNow(thread[u])
    BY <1>7, <2>1, <2>3
  <2> HIDE DEF d
  <2>5. RightNow(d)
    BY <1>6, <2>1, <2>2 DEF RightNow
  <2>6. QED
    BY <1>4, <2>1, <2>3, <2>4, <2>5
<1>11. ASSUME NEW t \in Threads, Connect(t) PROVE BusyInv'
  <2>1. /\ BusyWith(thread[t]) /\ Stage(thread[t].s, "connect") /\ Goes(t, Running)
        /\ UNCHANGED <<called, active>>
    BY <1>11 DEF Connect, Begin, BusyWith
  <2>2. \A u \in Threads : u # t /\ BusyWith(thread[u]) => RightNow(thread[u])
    BY <1>1, <1>7, <1>8, <2>1
  <2>3. ~BusyWith(Running)
    BY DEF BusyWith, Running
  <2>4. QED
    BY <1>4, <2>1, <2>2, <2>3, DoingTypes
<1>12. ASSUME NEW t \in Threads, NEW s \in Sessions, stage[s] \in Operation, NEW d \in Doing,
              d.at \in {"caught", "callback"}, d.s = s, Stage(s, "over"), Goes(t, d), UNCHANGED called,
              IF d.at = "callback" THEN active' = [active EXCEPT ![Id(s)] = None] ELSE UNCHANGED active
       PROVE  BusyInv'
  <2>1. Latest(s) /\ called[s[1]] = <<>> /\ Id(s) \in Ids
    BY <1>0, <1>12, IdsOfSessions DEF TryInv
  <2>2. \A u \in Threads : BusyWith(thread[u]) => thread[u].s # s
    BY <1>8, <1>12
  <2>3. \A i \in Ids : active'[i] \in {active[i], None}
    BY <1>0, <1>12
  <2>4. \A u \in Threads : BusyWith(thread[u]) => RightNow(thread[u])
    BY <1>7, <1>8, <1>12, <2>2, <2>3, IdsOfSessions
  <2>5. d.at = "callback" => active'[Id(s)] = None
    BY <1>0, <1>12, <2>1
  <2>6. LatestNow(s) /\ stage'[s] = "over"
    BY <1>6, <1>12, <2>1
  <2>7. RightNow(d)
    BY <1>12, <2>1, <2>5, <2>6 DEF RightNow
  <2>8. QED
    BY <1>4, <1>12, <2>2, <2>4, <2>7
<1>13. ASSUME NEW t \in Threads, NEW s \in Sessions, HandleConnect(t, s) \/ (HandleReadHeaders(t, s) /\ Begin(s, "body") /\ UNCHANGED <<active, thread>>)
       PROVE  BusyInv'
  <2>1. stage[s] \in Operation /\ UNCHANGED <<called, active, thread>> /\ \E x \in {"exchange", "body"} : Stage(s, x)
    BY <1>13 DEF HandleConnect, HandleReadHeaders, Begin
  <2>2. \A u \in Threads : BusyWith(thread[u]) => RightNow(thread[u])
    BY <1>7, <1>8, <2>1
  <2>3. QED
    BY <1>3, <2>1, <2>2
<1>14. ASSUME NEW t \in Threads, NEW s \in Sessions, HandleReadHeaders(t, s) \/ HandleReadContent(t, s) PROVE BusyInv'
  <2>1. CASE HandleReadHeaders(t, s) /\ Begin(s, "body") /\ UNCHANGED <<active, thread>>
    BY <1>13, <2>1
  <2>2. CASE FinishReadContent(t, s)
    <3> DEFINE d == Does("callback", s, "ok")
    <3>1. /\ stage[s] \in Operation /\ Stage(s, "over") /\ Goes(t, d) /\ UNCHANGED called
          /\ active' = [active EXCEPT ![Id(s)] = None]
          /\ d \in Doing /\ d.at = "callback" /\ d.s = s
      BY <1>14, <2>2, DoingTypes DEF FinishReadContent, HandleReadHeaders, HandleReadContent, Begin, Does
    <3> HIDE DEF d
    <3>2. QED
      BY <1>12, <3>1
  <2>3. QED
    BY <1>14, <2>1, <2>2 DEF HandleReadHeaders, HandleReadContent
<1>15. ASSUME NEW t \in Threads, NEW s \in Sessions, OperationFails(t, s) PROVE BusyInv'
  <2>1. PICK result \in {"error", "canceled"} : Goes(t, Does("caught", s, result))
    BY <1>15 DEF OperationFails
  <2> DEFINE d == Does("caught", s, result)
  <2>2. /\ stage[s] \in Operation /\ Stage(s, "over") /\ Goes(t, d) /\ UNCHANGED <<called, active>>
        /\ d \in Doing /\ d.at = "caught" /\ d.s = s
    BY <1>15, <2>1, DoingTypes DEF OperationFails, Begin, Does
  <2> HIDE DEF d
  <2>3. QED
    BY <1>12, <2>2
(* The threads while one of them goes on with its session. *)
<1>16. ASSUME NEW t \in Threads, BusyWith(thread[t]), UNCHANGED <<stage, called>>,
              \A i \in Ids : active'[i] \in {active[i], None}
       PROVE  \A u \in Threads : BusyWith(thread[u]) => RightNow(thread[u])
  <2>1. \A u \in Threads : BusyWith(thread[u]) => Id(thread[u].s) \in Ids /\ Right(thread[u])
    BY <1>1, <1>8, IdsOfSessions
  <2>2. QED
    BY <1>16, <2>1 DEF Right, RightNow, Latest, LatestNow
<1>17. ASSUME NEW t \in Threads, CatchException(t) PROVE BusyInv'
  <2> DEFINE s == thread[t].s
  <2> DEFINE i == Id(s)
  <2>1. /\ BusyWith(thread[t]) /\ thread[t].at = "caught" /\ s \in Sessions /\ i \in Ids /\ Latest(s)
        /\ thread[t].result \in {"error", "canceled"} /\ Right(thread[t])
    BY <1>0, <1>1, <1>17, IdsOfSessions DEF CatchException, BusyWith, Right, DistinctInv, IInv, ThreadInv
  <2>2. UNCHANGED <<stage, called>> /\ active' = [active EXCEPT ![i] = None]
    BY <1>17 DEF CatchException
  <2>3. \A u \in Threads : BusyWith(thread[u]) => RightNow(thread[u])
    BY <1>0, <1>16, <2>1, <2>2
  <2>4. CASE active[i] = None
    BY <1>5, <1>17, <2>3, <2>4 DEF CatchException
  <2>5. CASE active[i] # None
    <3>1. active[i] \in Sessions /\ Id(active[i]) = i /\ Latest(active[i])
      BY <1>0, <2>1, <2>5 DEF ActiveInv, FoundInv
    <3>2. active[i] = s
      BY <2>1, <3>1, LatestOfId
    <3> DEFINE d == Does("decide", s, thread[t].result)
    <3>3. Goes(t, d) /\ d \in Doing /\ d.at = "decide" /\ d.s = s
      BY <1>17, <2>1, <2>5, <3>2, DoingTypes DEF CatchException, Does
    <3>4. RightNow(thread[t]) /\ active'[i] = None
      BY <1>0, <2>1, <2>2, <2>3
    <3> HIDE DEF d
    <3>5. RightNow(d)
      BY <2>1, <3>3, <3>4 DEF RightNow
    <3>6. QED
      BY <1>1, <1>4, <2>1, <2>3, <3>3, <3>5
  <2>6. QED
    BY <2>4, <2>5
<1>18. ASSUME NEW t \in Threads, RetryOrGiveUp(t) PROVE BusyInv'
  <2> DEFINE s == thread[t].s
  <2>1. /\ BusyWith(thread[t]) /\ thread[t].at = "decide" /\ s \in Sessions /\ Latest(s)
        /\ thread[t].result \in {"error", "canceled"} /\ Right(thread[t])
    BY <1>0, <1>1, <1>18 DEF RetryOrGiveUp, BusyWith, Right, DistinctInv, IInv, ThreadInv
  <2>2. UNCHANGED <<called, active>>
    BY <1>18 DEF RetryOrGiveUp
  <2>3. CASE UNCHANGED stage /\ Goes(t, Does("callback", s, thread[t].result))
    <3> DEFINE d == Does("callback", s, thread[t].result)
    <3>1. \A u \in Threads : BusyWith(thread[u]) => RightNow(thread[u])
      BY <1>16, <2>1, <2>2, <2>3
    <3>2. Goes(t, d) /\ d \in Doing /\ d.at = "callback" /\ d.s = s
      BY <2>1, <2>3, DoingTypes DEF Does
    <3> HIDE DEF d
    <3>3. RightNow(d)
      BY <2>1, <3>1, <3>2 DEF RightNow
    <3>4. QED
      BY <1>1, <1>4, <2>1, <3>1, <3>2, <3>3
  <2>4. CASE s[2] < MaxAttempts /\ Stage(<<s[1], s[2] + 1>>, "posted") /\ BackToLoop(t)
    <3> DEFINE n == <<s[1], s[2] + 1>>
    <3>1. n \in Sessions /\ n[1] = s[1] /\ stage[n] = "none"
      BY <2>1, <2>4 DEF Latest, Sessions
    <3> HIDE DEF n
    <3>2. \A u \in Sessions : u # n => stage'[u] = stage[u]
      BY <1>0, <2>4, <3>1 DEF Stage, n
    <3>3. ASSUME NEW u \in Threads, u # t, BusyWith(thread[u]) PROVE RightNow(thread[u])
      <4>1. thread[u].s \in Sessions /\ thread[u].s # s /\ Right(thread[u]) /\ Latest(thread[u].s)
        BY <1>1, <1>8, <2>1, <3>3 DEF Right
      <4>2. thread[u].s[1] # s[1]
        BY <2>1, <4>1, LatestIsUnique
      <4>3. /\ stage'[thread[u].s] = stage[thread[u].s]
            /\ LatestNow(thread[u].s)
        BY <3>1, <3>2, <4>1, <4>2, SessionParts DEF Latest, LatestNow
      <4>4. QED
        BY <2>2, <4>1, <4>3 DEF Right, RightNow
    <3>4. QED
      BY <1>5, <2>4, <3>3
  <2>5. QED
    BY <1>18, <2>3, <2>4 DEF RetryOrGiveUp
<1>19. ASSUME NEW t \in Threads, RunCallback(t) PROVE BusyInv'
  <2> DEFINE s == thread[t].s
  <2>1. BusyWith(thread[t]) /\ s \in Sessions /\ Latest(s)
    BY <1>0, <1>1, <1>19 DEF RunCallback, BusyWith, Right
  <2>2. /\ UNCHANGED <<stage, active>> /\ \A r \in Requests : r # s[1] => called'[r] = called[r]
        /\ BackToLoop(t) \/ Goes(t, Running)
    BY <1>0, <1>19 DEF RunCallback
  <2>3. ASSUME NEW u \in Threads, u # t, BusyWith(thread[u]) PROVE RightNow(thread[u])
    <3>1. thread[u].s \in Sessions /\ thread[u].s # s /\ Right(thread[u]) /\ Latest(thread[u].s)
      BY <1>1, <1>8, <2>1, <2>3 DEF Right
    <3>2. thread[u].s[1] # s[1] /\ thread[u].s[1] \in Requests
      BY <2>1, <3>1, LatestIsUnique, SessionParts
    <3>3. QED
      BY <2>2, <3>1, <3>2 DEF Right, RightNow, Latest, LatestNow
  <2>4. ~BusyWith(Running)
    BY DEF BusyWith, Running
  <2>5. QED
    BY <1>4, <1>5, <2>2, <2>3, <2>4, DoingTypes
<1>20. ASSUME NEW r \in Requests, PostRequest(r) PROVE BusyInv'
  <2> DEFINE n == <<r, 1>>
  <2>1. n \in Sessions /\ stage[n] = "none" /\ Stage(n, "posted") /\ UNCHANGED <<thread, called, active>>
    BY <1>20 DEF PostRequest, Sessions
  <2>2. \A u \in Sessions : u # n => stage'[u] = stage[u]
    BY <1>0, <2>1 DEF Stage
  <2>3. ASSUME NEW u \in Threads, BusyWith(thread[u]) PROVE RightNow(thread[u])
    <3>1. thread[u].s \in Sessions /\ Right(thread[u]) /\ thread[u].s # n
      BY <1>1, <1>8, <2>1, <2>3
    <3>2. ASSUME NEW k \in (thread[u].s[2] + 1)..MaxAttempts PROVE stage'[<<thread[u].s[1], k>>] = stage[<<thread[u].s[1], k>>]
      <4>1. <<thread[u].s[1], k>> \in Sessions /\ k # 1
        BY <3>1, SessionParts
      <4>2. QED
        BY <2>2, <4>1
    <3>3. QED
      BY <2>1, <2>2, <3>1, <3>2 DEF Right, RightNow, Latest, LatestNow
  <2>4. QED
    BY <1>3, <2>1, <2>3
<1>21. ASSUME \/ \E i \in Ids : CancelRequest(i)
              \/ Close \/ DropSessions \/ \E s \in Sessions : ServerHandles(s)
              \/ UNCHANGED vars
       PROVE  BusyInv'
  <2>1. UNCHANGED <<stage, called, thread>>
    BY <1>21 DEF CancelRequest, Close, DropSessions, ServerHandles, vars
  <2>2. \A i \in Ids : active'[i] \in {active[i], None}
    BY <1>0, <1>21 DEF CancelRequest, Close, DropSessions, ServerHandles, vars
  <2>3. QED
    BY <1>3, <1>16, <2>1, <2>2
<1>22. QED
  BY <1>9, <1>10, <1>11, <1>13, <1>14, <1>15, <1>17, <1>18, <1>19, <1>20, <1>21 DEF Next, HandlerStep, ThreadStep

-------------------------------------------------------------------------------
(* What m_activeSessions holds, and what a result says.                    *)

LEMMA FoundNext == DistinctInv /\ IdsDistinct /\ [Next]_vars => FoundInv'
<1> SUFFICES ASSUME DistinctInv, IdsDistinct, [Next]_vars PROVE FoundInv'
  OBVIOUS
<1> USE DEF sessionVars, historyVars, Operation, OnSocket
<1>0. /\ TryInv /\ FoundInv /\ ActiveInv
      /\ stage \in [Sessions -> {"none", "posted", "resolved", "over"} \cup Operation]
      /\ active \in [Ids -> Sessions \cup {None}] /\ thread \in [Threads -> Doing]
      /\ aborting \in [Sessions -> BOOLEAN] /\ reached \in [Sessions -> BOOLEAN]
      /\ \A t \in Threads : BusyWith(thread[t]) => thread[t].s \in Sessions /\ Right(thread[t])
  BY BusyInvParts DEF DistinctInv, IInv, TypeOK, ThreadInv, BusyWith, Busy
<1>1. ASSUME UNCHANGED stage, \A i \in Ids : active'[i] \in {active[i], None},
             \A s \in Sessions : aborting'[s] => aborting[s] \/ reached'[s],
             \A s \in Sessions : reached[s] => reached'[s]
      PROVE  FoundInv'
  <2>1. \A s \in Sessions : LatestNow(s) <=> Latest(s)
    BY <1>1 DEF LatestNow, Latest
  <2>2. ASSUME NEW i \in Ids, active'[i] # None PROVE stage'[active'[i]] # "posted" /\ LatestNow(active'[i])
    BY <1>0, <1>1, <2>1, <2>2 DEF FoundInv
  <2>3. ASSUME NEW s \in Sessions, aborting'[s], active'[Id(s)] = s PROVE reached'[s]
    <3>1. s # None /\ active[Id(s)] = s
      BY <1>0, <1>1, <2>3, IdsOfSessions DEF Sessions
    <3>2. QED
      BY <1>0, <1>1, <2>3, <3>1 DEF FoundInv
  <2>4. QED
    BY <2>2, <2>3 DEF FoundInv, LatestNow, Latest, Id
(* A session that was begun goes on; it is found, or it is entered.        *)
<1>2. ASSUME NEW s \in Sessions, NEW x, x \notin {"none", "posted"}, stage[s] # "none",
             stage' = [stage EXCEPT ![s] = x], aborting' = [aborting EXCEPT ![s] = FALSE],
             UNCHANGED reached, \A i \in Ids : active'[i] \in {active[i], None} \/ (active'[i] = s /\ Latest(s))
      PROVE  FoundInv'
  <2>1. \A u \in Sessions : stage'[u] = IF u = s THEN x ELSE stage[u]
    BY <1>0, <1>2
  <2>2. \A u \in Sessions : LatestNow(u) <=> Latest(u)
    <3>1. \A u \in Sessions : u[2] \in Nat /\ \A k \in (u[2] + 1)..MaxAttempts : <<u[1], k>> \in Sessions
      BY SessionParts
    <3>2. QED
      BY <1>2, <2>1, <3>1 DEF LatestNow, Latest
  <2>3. ASSUME NEW i \in Ids, active'[i] # None PROVE stage'[active'[i]] # "posted" /\ LatestNow(active'[i])
    <3>1. CASE active'[i] = s /\ Latest(s)
      BY <1>2, <2>1, <2>2, <3>1
    <3>2. CASE active'[i] = active[i]
      <4>1. active[i] \in Sessions /\ stage[active[i]] # "posted" /\ Latest(active[i])
        BY <1>0, <2>3, <3>2 DEF FoundInv
      <4>2. QED
        BY <1>2, <2>1, <2>2, <3>2, <4>1
    <3>3. QED
      BY <1>2, <2>3, <3>1, <3>2
  <2>4. ASSUME NEW u \in Sessions, aborting'[u], active'[Id(u)] = u PROVE reached'[u]
    <3>1. u # s /\ aborting[u]
      BY <1>0, <1>2, <2>4
    <3>2. active[Id(u)] = u
      BY <1>0, <1>2, <2>4, <3>1, IdsOfSessions DEF Sessions
    <3>3. QED
      BY <1>0, <1>2, <3>1, <3>2 DEF FoundInv
  <2>5. QED
    BY <2>3, <2>4 DEF FoundInv, LatestNow, Latest, Id
(* A new session. *)
<1>3. ASSUME NEW n \in Sessions, stage[n] = "none", stage' = [stage EXCEPT ![n] = "posted"],
             \A i \in Ids : active[i] # None => active[i][1] # n[1],
             UNCHANGED <<active, aborting, reached>>
      PROVE  FoundInv'
  <2>1. \A u \in Sessions : stage'[u] = IF u = n THEN "posted" ELSE stage[u]
    BY <1>0, <1>3
  <2>2. ASSUME NEW i \in Ids, active[i] # None PROVE stage'[active[i]] # "posted" /\ LatestNow(active[i])
    <3>1. active[i] \in Sessions /\ active[i][1] # n[1] /\ stage[active[i]] # "posted" /\ Latest(active[i])
      BY <1>0, <1>3, <2>2 DEF FoundInv
    <3>2. QED
      BY <2>1, <3>1, SessionParts DEF LatestNow, Latest
  <2>3. QED
    BY <1>0, <1>3, <2>2 DEF FoundInv, LatestNow, Latest, Id
<1>4. ASSUME NEW t \in Threads, NEW s \in Sessions, StartSession(t, s) PROVE FoundInv'
  <2>1. /\ stage[s] = "posted" /\ UNCHANGED reached /\ aborting' = [aborting EXCEPT ![s] = FALSE]
        /\ active' = [active EXCEPT ![Id(s)] = IF @ = None THEN s ELSE @]
        /\ \E x \in {"exchange", "resolve"} : stage' = [stage EXCEPT ![s] = x]
    BY <1>4 DEF StartSession, Begin, Stage
  <2>2. Latest(s)
    BY <1>0, <2>1 DEF TryInv
  <2>3. \A i \in Ids : active'[i] = active[i] \/ active'[i] = s
    BY <1>0, <2>1
  <2>4. QED
    BY <1>2, <2>1, <2>2, <2>3
<1>5. ASSUME NEW t \in Threads, NEW s \in Sessions,
             \/ HandleResolve(t, s) \/ HandleConnect(t, s) \/ HandleReadHeaders(t, s)
             \/ HandleReadContent(t, s) \/ OperationFails(t, s)
      PROVE  FoundInv'
  <2>1. /\ stage[s] # "none" /\ UNCHANGED reached /\ aborting' = [aborting EXCEPT ![s] = FALSE]
        /\ \E x \in {"resolved", "exchange", "body", "over"} : stage' = [stage EXCEPT ![s] = x]
    BY <1>5 DEF HandleResolve, HandleConnect, HandleReadHeaders, HandleReadContent, FinishReadContent,
                OperationFails, Begin, Stage
  <2>2. active' = active \/ active' = [active EXCEPT ![Id(s)] = None]
    BY <1>5 DEF HandleResolve, HandleConnect, HandleReadHeaders, HandleReadContent, FinishReadContent, OperationFails
  <2>3. \A i \in Ids : active'[i] \in {active[i], None}
    BY <1>0, <2>2, IdsOfSessions
  <2>4. QED
    BY <1>2, <2>1, <2>3
<1>6. ASSUME NEW t \in Threads, Connect(t) PROVE FoundInv'
  <2>1. /\ thread[t].s \in Sessions /\ stage[thread[t].s] = "resolved"
        /\ stage' = [stage EXCEPT ![thread[t].s] = "connect"]
        /\ aborting' = [aborting EXCEPT ![thread[t].s] = FALSE] /\ UNCHANGED <<active, reached>>
    BY <1>0, <1>6 DEF Connect, BusyWith, Right, Begin, Stage
  <2>2. QED
    BY <1>2, <2>1
<1>7. ASSUME NEW t \in Threads, CatchException(t) PROVE FoundInv'
  <2>1. UNCHANGED <<stage, aborting, reached>> /\ active' = [active EXCEPT ![Id(thread[t].s)] = None]
    BY <1>7 DEF CatchException
  <2>2. \A i \in Ids : active'[i] \in {active[i], None}
    BY <1>0, <2>1
  <2>3. QED
    BY <1>1, <2>1, <2>2
<1>8. ASSUME NEW t \in Threads, RetryOrGiveUp(t) PROVE FoundInv'
  <2> DEFINE s == thread[t].s
  <2>1. s \in Sessions /\ Latest(s) /\ active[Id(s)] = None /\ UNCHANGED <<active, aborting, reached>>
    BY <1>0, <1>8 DEF RetryOrGiveUp, BusyWith, Right
  <2>2. CASE UNCHANGED stage
    BY <1>1, <2>1, <2>2
  <2>3. CASE s[2] < MaxAttempts /\ Stage(<<s[1], s[2] + 1>>, "posted")
    <3> DEFINE n == <<s[1], s[2] + 1>>
    <3>1. n \in Sessions /\ n[1] = s[1] /\ stage[n] = "none"
      BY <2>1, <2>3 DEF Latest, Sessions
    <3>2. \A i \in Ids : active[i] # None => active[i][1] # n[1]
      BY <1>0, <2>1, <3>1 DEF ActiveInv, Id
    <3>3. stage' = [stage EXCEPT ![n] = "posted"]
      BY <2>3 DEF Stage
    <3> HIDE DEF n
    <3>4. QED
      BY <1>3, <2>1, <3>1, <3>2, <3>3
  <2>4. QED
    BY <1>8, <2>2, <2>3 DEF RetryOrGiveUp
<1>9. ASSUME NEW r \in Requests, PostRequest(r) PROVE FoundInv'
  <2> DEFINE n == <<r, 1>>
  <2>1. n \in Sessions /\ n[1] = r /\ stage[n] = "none" /\ stage' = [stage EXCEPT ![n] = "posted"]
        /\ UNCHANGED <<active, aborting, reached>>
    BY <1>9 DEF PostRequest, Stage, Sessions
  <2>2. ASSUME NEW i \in Ids, active[i] # None PROVE active[i][1] # n[1]
    <3>1. active[i] \in Sessions /\ stage[active[i]] # "none"
      BY <1>0, <2>2 DEF FoundInv, Latest
    <3>2. ASSUME active[i][1] = r PROVE stage[n] # "none"
      <4>1. active[i] = n \/ 1 \in 1..(active[i][2] - 1)
        BY <3>1, <3>2, SessionParts
      <4>2. QED
        BY <1>0, <3>1, <3>2, <4>1 DEF TryInv
    <3>3. QED
      BY <2>1, <3>2
  <2> HIDE DEF n
  <2>3. QED
    BY <1>3, <2>1, <2>2
<1>10. ASSUME NEW i \in Ids, CancelRequest(i) PROVE FoundInv'
  <2>1. UNCHANGED <<stage, active>>
    BY <1>10 DEF CancelRequest
  <2>2. /\ \A s \in Sessions : aborting'[s] => aborting[s] \/ reached'[s]
        /\ \A s \in Sessions : reached[s] => reached'[s]
    BY <1>0, <1>10 DEF CancelRequest
  <2>3. QED
    BY <1>1, <2>1, <2>2
<1>11. CASE DropSessions
  <2>1. UNCHANGED <<stage, reached>> /\ ((\A i \in Ids : active'[i] = None) \/ UNCHANGED <<active, aborting>>)
    BY <1>11 DEF DropSessions
  <2>2. CASE UNCHANGED <<active, aborting>>
    BY <1>1, <2>1, <2>2
  <2>3. CASE \A i \in Ids : active'[i] = None
    BY <2>3, IdsOfSessions DEF FoundInv, Id, Sessions
  <2>4. QED
    BY <2>1, <2>2, <2>3
<1>12. ASSUME \/ Close \/ \E s \in Sessions : ServerHandles(s)
              \/ \E t \in Threads : RunCallback(t)
              \/ UNCHANGED vars
       PROVE  FoundInv'
  <2>1. UNCHANGED <<stage, active, aborting, reached>>
    BY <1>12 DEF Close, ServerHandles, RunCallback, vars
  <2>2. QED
    BY <1>1, <2>1
<1>13. QED
  BY <1>4, <1>5, <1>6, <1>7, <1>8, <1>9, <1>10, <1>11, <1>12 DEF Next, HandlerStep, ThreadStep

LEMMA HandledNext == DistinctInv /\ [Next]_vars => HandledInv'
<1> SUFFICES ASSUME DistinctInv, [Next]_vars PROVE HandledInv'
  OBVIOUS
<1> USE DEF sessionVars, historyVars, HandledInv, Stage, Begin
<1>0. /\ HandledInv /\ handled \in [Sessions -> BOOLEAN] /\ DOMAIN stage = Sessions
      /\ \A t \in Threads : thread[t].at \in {"connect", "decide"} => thread[t].s \in Sessions
  BY DEF DistinctInv, IInv, TypeOK, ThreadInv, Busy
<1>1. ASSUME UNCHANGED handled, \A s \in Sessions : stage'[s] = "body" => stage[s] = "body" \/ handled[s]
      PROVE  HandledInv'
  BY <1>0, <1>1
<1>2. ASSUME NEW s \in Sessions, ServerHandles(s) PROVE HandledInv'
  BY <1>0, <1>2 DEF ServerHandles
<1>3. ASSUME NEW t \in Threads, NEW s \in Sessions, HandlerStep(t, s) PROVE HandledInv'
  <2>1. UNCHANGED handled /\ \E x : stage' = [stage EXCEPT ![s] = x] /\ (x = "body" => handled[s])
    BY <1>3 DEF HandlerStep, StartSession, HandleResolve, HandleConnect, HandleReadHeaders, HandleReadContent,
                FinishReadContent, OperationFails
  <2>2. QED
    BY <1>0, <1>1, <2>1
<1>4. ASSUME NEW t \in Threads, Connect(t) \/ CatchException(t) \/ RetryOrGiveUp(t) \/ RunCallback(t)
      PROVE  HandledInv'
  <2>1. UNCHANGED handled
    BY <1>4 DEF Connect, CatchException, RetryOrGiveUp, RunCallback
  <2>2. CASE UNCHANGED stage
    BY <1>0, <1>1, <2>1, <2>2
  <2>3. CASE \E n : stage' = [stage EXCEPT ![n] = "connect"] \/ stage' = [stage EXCEPT ![n] = "posted"]
    BY <1>0, <1>1, <2>1, <2>3
  <2>4. QED
    BY <1>4, <2>2, <2>3 DEF Connect, CatchException, RetryOrGiveUp, RunCallback
<1>5. ASSUME \/ (\E r \in Requests : PostRequest(r)) \/ (\E i \in Ids : CancelRequest(i))
             \/ Close \/ DropSessions \/ UNCHANGED vars
      PROVE  HandledInv'
  <2>1. UNCHANGED handled /\ (UNCHANGED stage \/ \E n : stage' = [stage EXCEPT ![n] = "posted"])
    BY <1>5 DEF PostRequest, CancelRequest, Close, DropSessions, vars
  <2>2. QED
    BY <1>0, <1>1, <2>1
<1>6. QED
  BY <1>2, <1>3, <1>4, <1>5 DEF Next, ThreadStep

LEMMA ResultNext == DistinctInv /\ IdsDistinct /\ [Next]_vars => ResultInv'
<1> SUFFICES ASSUME DistinctInv, IdsDistinct, [Next]_vars PROVE ResultInv'
  OBVIOUS
<1> USE DEF sessionVars, historyVars, Operation, OnSocket
<1>0. /\ TryInv /\ FoundInv /\ ActiveInv /\ HandledInv
      /\ stage \in [Sessions -> {"none", "posted", "resolved", "over"} \cup Operation]
      /\ active \in [Ids -> Sessions \cup {None}] /\ thread \in [Threads -> Doing]
      /\ handled \in [Sessions -> BOOLEAN] /\ reached \in [Sessions -> BOOLEAN]
      /\ \A t \in Threads : BusyWith(thread[t]) => thread[t].s \in Sessions /\ Right(thread[t])
      /\ \A t \in Threads : thread[t].at \in {"caught", "decide"} => thread[t].result \in {"error", "canceled"}
  BY BusyInvParts DEF DistinctInv, IInv, TypeOK, ThreadInv, BusyWith, Busy
<1> DEFINE Says(d) ==
      /\ d.at = "caught" /\ d.result = "canceled" /\ active[Id(d.s)] = d.s => reached[d.s]
      /\ d.at \in {"decide", "callback"} /\ d.result = "canceled" => reached[d.s]
      /\ d.at = "callback" /\ d.result = "ok" => handled[d.s]
      /\ d.at = "callback" /\ d.result = "error" => d.s[2] = MaxAttempts
<1> DEFINE SaysNow(d) ==
      /\ d.at = "caught" /\ d.result = "canceled" /\ active'[Id(d.s)] = d.s => reached'[d.s]
      /\ d.at \in {"decide", "callback"} /\ d.result = "canceled" => reached'[d.s]
      /\ d.at = "callback" /\ d.result = "ok" => handled'[d.s]
      /\ d.at = "callback" /\ d.result = "error" => d.s[2] = MaxAttempts
<1>1. \A t \in Threads : BusyWith(thread[t]) => Says(thread[t])
  BY DEF DistinctInv, ResultInv, Busy, BusyWith
<1>2. ASSUME \A t \in Threads : BusyWith(thread'[t]) => SaysNow(thread'[t]) PROVE ResultInv'
  BY <1>2 DEF ResultInv, Busy, BusyWith, Id
(* What was said stays true. *)
<1>3. /\ \A s \in Sessions : handled[s] => handled'[s]
      /\ \A s \in Sessions : reached[s] => reached'[s]
  <2>1. CASE UNCHANGED <<handled, reached>>
    BY <2>1
  <2>2. CASE \E s \in Sessions : ServerHandles(s)
    BY <1>0, <2>2 DEF ServerHandles
  <2>3. CASE \E i \in Ids : CancelRequest(i)
    BY <1>0, <2>3 DEF CancelRequest
  <2>4. QED
    BY <2>1, <2>2, <2>3 DEF Next, HandlerStep, ThreadStep, PostRequest, Close, DropSessions, StartSession,
       HandleResolve, Connect, HandleConnect, HandleReadHeaders, HandleReadContent, OperationFails,
       CatchException, RetryOrGiveUp, RunCallback, vars
<1>4. ASSUME NEW t \in Threads, BusyWith(thread[t]), active'[Id(thread[t].s)] \in {active[Id(thread[t].s)], None}
      PROVE  SaysNow(thread[t])
  <2>1. thread[t].s \in Sessions /\ thread[t].s # None
    BY <1>0, <1>4 DEF Sessions
  <2>2. QED
    BY <1>1, <1>3, <1>4, <2>1
<1>5. ASSUME UNCHANGED <<thread, active>> PROVE ResultInv'
  BY <1>2, <1>4, <1>5
<1>6. ASSUME NEW t \in Threads, NEW d \in Doing, Goes(t, d), BusyWith(d) => SaysNow(d),
             \A i \in Ids : active'[i] \in {active[i], None}
      PROVE  ResultInv'
  <2>1. thread'[t] = d /\ \A u \in Threads : u # t => thread'[u] = thread[u]
    BY <1>0, <1>6, GoesTypes
  <2>2. ASSUME NEW u \in Threads, u # t, BusyWith(thread[u]) PROVE SaysNow(thread[u])
    BY <1>0, <1>4, <1>6, <2>2, IdsOfSessions
  <2>3. QED
    BY <1>2, <1>6, <2>1, <2>2
<1>7. ASSUME NEW t \in Threads, BackToLoop(t), \A i \in Ids : active'[i] \in {active[i], None}
      PROVE  ResultInv'
  <2>1. ~BusyWith(thread'[t]) /\ \A u \in Threads : u # t => thread'[u] = thread[u]
    BY <1>0, <1>7, BackIsIdle DEF BusyWith
  <2>2. ASSUME NEW u \in Threads, u # t, BusyWith(thread[u]) PROVE SaysNow(thread[u])
    BY <1>0, <1>4, <1>7, <2>2, IdsOfSessions
  <2>3. QED
    BY <1>2, <2>1, <2>2
<1> HIDE DEF Says, SaysNow
<1>8. ASSUME NEW t \in Threads, NEW s \in Sessions, StartSession(t, s) PROVE ResultInv'
  <2>1. /\ stage[s] = "posted" /\ UNCHANGED thread
        /\ active' = [active EXCEPT ![Id(s)] = IF @ = None THEN s ELSE @]
    BY <1>8 DEF StartSession
  <2>2. Latest(s)
    BY <1>0, <2>1 DEF TryInv
  <2>3. ASSUME NEW u \in Threads, BusyWith(thread[u]) PROVE SaysNow(thread[u])
    <3>1. thread[u].s \in Sessions /\ thread[u].s # s /\ Latest(thread[u].s)
      BY <1>0, <2>1, <2>3 DEF Right
    <3>2. Id(thread[u].s) # Id(s) /\ Id(s) \in Ids /\ Id(thread[u].s) \in Ids
      BY <2>2, <3>1, LatestOfId, IdsOfSessions
    <3>3. active'[Id(thread[u].s)] = active[Id(thread[u].s)]
      BY <1>0, <2>1, <3>2
    <3>4. QED
      BY <1>4, <2>3, <3>3
  <2>4. QED
    BY <1>2, <2>1, <2>3
<1>9. ASSUME NEW t \in Threads, NEW s \in Sessions, HandleResolve(t, s) PROVE ResultInv'
  <2>1. SaysNow(Does("connect", s, "none"))
    BY DEF SaysNow, Does
  <2>2. QED
    BY <1>6, <1>9, <2>1, DoingTypes DEF HandleResolve
<1>10. ASSUME NEW t \in Threads, Connect(t) PROVE ResultInv'
  <2>1. ~BusyWith(Running)
    BY DEF BusyWith, Running
  <2>2. QED
    BY <1>6, <1>10, <2>1, DoingTypes DEF Connect
<1>11. ASSUME NEW t \in Threads, NEW s \in Sessions, HandleReadHeaders(t, s) \/ HandleReadContent(t, s)
       PROVE  ResultInv'
  <2>1. CASE UNCHANGED <<thread, active>>
    BY <1>5, <2>1
  <2>2. CASE FinishReadContent(t, s)
    <3>1. handled[s]
      BY <1>0, <1>11 DEF HandleReadHeaders, HandleReadContent, HandledInv
    <3>2. SaysNow(Does("callback", s, "ok"))
      BY <1>3, <3>1 DEF SaysNow, Does
    <3>3. active' = [active EXCEPT ![Id(s)] = None] /\ Goes(t, Does("callback", s, "ok"))
      BY <2>2 DEF FinishReadContent
    <3>4. \A i \in Ids : active'[i] \in {active[i], None}
      BY <1>0, <3>3, IdsOfSessions
    <3>5. QED
      BY <1>6, <3>2, <3>3, <3>4, DoingTypes
  <2>3. QED
    BY <1>11, <2>1, <2>2 DEF HandleReadHeaders, HandleReadContent
<1>12. ASSUME NEW t \in Threads, NEW s \in Sessions, OperationFails(t, s) PROVE ResultInv'
  <2>1. PICK result \in {"error", "canceled"} :
          Goes(t, Does("caught", s, result)) /\ (result = "canceled" => aborting[s])
    BY <1>12 DEF OperationFails
  <2>2. UNCHANGED <<active, reached>>
    BY <1>12 DEF OperationFails
  <2>3. SaysNow(Does("caught", s, result))
    BY <1>0, <2>1, <2>2 DEF SaysNow, Does, FoundInv
  <2>4. QED
    BY <1>6, <2>1, <2>2, <2>3, DoingTypes
<1>13. ASSUME NEW t \in Threads, CatchException(t) PROVE ResultInv'
  <2> DEFINE s == thread[t].s
  <2> DEFINE i == Id(s)
  <2>1. /\ BusyWith(thread[t]) /\ thread[t].at = "caught" /\ s \in Sessions /\ i \in Ids /\ Latest(s)
        /\ thread[t].result \in {"error", "canceled"}
    BY <1>0, <1>13, IdsOfSessions DEF CatchException, BusyWith, Right
  <2>2. active' = [active EXCEPT ![i] = None]
    BY <1>13 DEF CatchException
  <2>3. \A j \in Ids : active'[j] \in {active[j], None}
    BY <1>0, <2>2
  <2>4. CASE active[i] = None
    BY <1>7, <1>13, <2>3, <2>4 DEF CatchException
  <2>5. CASE active[i] # None
    <3>1. active[i] \in Sessions /\ Id(active[i]) = i /\ Latest(active[i])
      BY <1>0, <2>1, <2>5 DEF ActiveInv, FoundInv
    <3>2. active[i] = s
      BY <2>1, <3>1, LatestOfId
    <3> DEFINE d == Does("decide", s, thread[t].result)
    <3>3. Goes(t, d) /\ d \in Doing /\ d.at = "decide" /\ d.s = s /\ d.result = thread[t].result
      BY <1>13, <2>1, <2>5, <3>2, DoingTypes DEF CatchException, Does
    <3>4. thread[t].result = "canceled" => reached[s]
      BY <1>1, <2>1, <3>2 DEF Says
    <3> HIDE DEF d
    <3>5. SaysNow(d)
      BY <1>3, <2>1, <3>3, <3>4 DEF SaysNow
    <3>6. QED
      BY <1>6, <2>3, <3>3, <3>5
  <2>6. QED
    BY <2>4, <2>5
<1>14. ASSUME NEW t \in Threads, RetryOrGiveUp(t) PROVE ResultInv'
  <2> DEFINE s == thread[t].s
  <2>1. /\ BusyWith(thread[t]) /\ thread[t].at = "decide" /\ s \in Sessions
        /\ thread[t].result \in {"error", "canceled"}
    BY <1>0, <1>14 DEF RetryOrGiveUp, BusyWith
  <2>2. UNCHANGED active
    BY <1>14 DEF RetryOrGiveUp
  <2>3. CASE BackToLoop(t)
    BY <1>7, <2>2, <2>3
  <2>4. CASE ~(thread[t].result = "error" /\ s[2] < MaxAttempts) /\ Goes(t, Does("callback", s, thread[t].result))
    <3> DEFINE d == Does("callback", s, thread[t].result)
    <3>1. Goes(t, d) /\ d \in Doing /\ d.at = "callback" /\ d.s = s /\ d.result = thread[t].result
      BY <2>1, <2>4, DoingTypes DEF Does
    <3>2. thread[t].result = "error" => s[2] = MaxAttempts
      BY <2>1, <2>4, SessionParts
    <3>3. thread[t].result = "canceled" => reached[s]
      BY <1>1, <2>1 DEF Says
    <3> HIDE DEF d
    <3>4. SaysNow(d)
      BY <1>3, <2>1, <3>1, <3>2, <3>3 DEF SaysNow
    <3>5. QED
      BY <1>6, <2>2, <3>1, <3>4
  <2>5. QED
    BY <1>14, <2>3, <2>4 DEF RetryOrGiveUp
<1>15. ASSUME NEW t \in Threads, RunCallback(t) PROVE ResultInv'
  <2>1. UNCHANGED active /\ (BackToLoop(t) \/ Goes(t, Running))
    BY <1>15 DEF RunCallback
  <2>2. ~BusyWith(Running)
    BY DEF BusyWith, Running
  <2>3. QED
    BY <1>6, <1>7, <2>1, <2>2, DoingTypes
<1>16. CASE DropSessions
  <2>1. UNCHANGED thread /\ \A i \in Ids : active'[i] \in {active[i], None}
    BY <1>16 DEF DropSessions
  <2>2. QED
    BY <1>0, <1>2, <1>4, <2>1, IdsOfSessions
<1>17. ASSUME \/ (\E r \in Requests : PostRequest(r)) \/ (\E i \in Ids : CancelRequest(i))
              \/ Close \/ \E s \in Sessions : ServerHandles(s)
              \/ \E t \in Threads, s \in Sessions : HandleConnect(t, s)
              \/ UNCHANGED vars
       PROVE  ResultInv'
  <2>1. UNCHANGED <<thread, active>>
    BY <1>17 DEF PostRequest, CancelRequest, Close, ServerHandles, HandleConnect, vars
  <2>2. QED
    BY <1>5, <2>1
<1>18. QED
  BY <1>8, <1>9, <1>10, <1>11, <1>12, <1>13, <1>14, <1>15, <1>16, <1>17 DEF Next, HandlerStep, ThreadStep

LEMMA DistinctNext == DistinctInv /\ IdsDistinct /\ [Next]_vars => DistinctInv'
<1>1. QED
  BY SafeNext, TryNext, BusyNext, FoundNext, ResultNext, HandledNext DEF DistinctInv

-------------------------------------------------------------------------------
(* The refinement: what the contract is told of each request.              *)

Phase(r)   == IF Outstanding(r) THEN "pending" ELSE "idle"
Attempt(r) == IF Outstanding(r) THEN Try(r) ELSE 1
Served(r)  == IF Outstanding(r) /\ handled[<<r, Try(r)>>] THEN "ok" ELSE "no"
Abort(r)   == Outstanding(r) /\ reached[<<r, Try(r)>>]

Same(r) == UNCHANGED <<Phase(r), Attempt(r), Served(r), Abort(r)>>

(* The latest try says it all. *)
LEMMA OfLatest ==
    \A s \in Sessions : Latest(s) /\ stage[<<s[1], 1>>] # "none" /\ called[s[1]] = <<>> =>
        /\ Outstanding(s[1]) /\ Try(s[1]) = s[2] /\ <<s[1], Try(s[1])>> = s
        /\ Phase(s[1]) = "pending" /\ Attempt(s[1]) = s[2]
        /\ Served(s[1]) = (IF handled[s] THEN "ok" ELSE "no") /\ (Abort(s[1]) <=> reached[s])
<1> SUFFICES ASSUME NEW s \in Sessions, Latest(s), stage[<<s[1], 1>>] # "none", called[s[1]] = <<>>
             PROVE  /\ Outstanding(s[1]) /\ Try(s[1]) = s[2] /\ <<s[1], Try(s[1])>> = s
                    /\ Phase(s[1]) = "pending" /\ Attempt(s[1]) = s[2]
                    /\ Served(s[1]) = (IF handled[s] THEN "ok" ELSE "no") /\ (Abort(s[1]) <=> reached[s])
  OBVIOUS
<1>1. Outstanding(s[1]) /\ Try(s[1]) = s[2] /\ <<s[1], Try(s[1])>> = s
  BY TryIsLatest, SessionParts DEF Outstanding
<1>2. QED
  BY <1>1 DEF Phase, Attempt, Served, Abort

LEMMA OfIdle ==
    \A r \in Requests : ~Outstanding(r) => /\ Phase(r) = "idle" /\ Attempt(r) = 1
                                           /\ Served(r) = "no" /\ ~Abort(r)
<1>1. QED
  BY DEF Phase, Attempt, Served, Abort

LEMMA InitRefines == Init => Contract!Init
<1> SUFFICES ASSUME Init PROVE Contract!Init
  OBVIOUS
<1>1. \A r \in Requests : ~Outstanding(r)
  BY DEF Init, Outstanding, Sessions
<1>2. QED
  BY <1>1 DEF Contract!Init

(* One action of the contract each, from what happens to each request.     *)
LEMMA RefinesStutter ==
    ASSUME \A r \in Requests : Same(r)
    PROVE  UNCHANGED Contract!httpVars
<1>1. QED
  BY DEF Contract!httpVars, Same, Phase, Attempt, Served, Abort

LEMMA RefinesPost ==
    ASSUME NEW r \in Requests, \A q \in Requests : q # r => Same(q),
           Phase(r) = "idle", Phase(r)' = "pending", Attempt(r)' = 1, Served(r)' = "no", ~Abort(r)'
    PROVE  Contract!Post(r)
<1>1. QED
  BY DEF Contract!Post, Contract!Reset, Same, Phase, Attempt, Served, Abort

LEMMA RefinesServe ==
    ASSUME NEW r \in Requests, \A q \in Requests : q # r => Same(q),
           Phase(r) = "pending", Served(r) = "no", Served(r)' = "ok",
           UNCHANGED <<Phase(r), Attempt(r), Abort(r)>>
    PROVE  Contract!Serve(r, "ok")
<1>1. QED
  BY DEF Contract!Serve, Same, Phase, Attempt, Served, Abort

LEMMA RefinesRetry ==
    ASSUME NEW r \in Requests, \A q \in Requests : q # r => Same(q),
           Phase(r) = "pending", Attempt(r) < MaxAttempts,
           Phase(r)' = "pending", Attempt(r)' = Attempt(r) + 1, Served(r)' = "no", ~Abort(r)'
    PROVE  Contract!Retry(r)
<1>1. QED
  BY DEF Contract!Retry, Same, Phase, Attempt, Served, Abort

LEMMA RefinesCancel ==
    ASSUME NEW S \in SUBSET Requests, UNCHANGED <<stage, called, handled>>,
           \A r \in Requests : Abort(r)' <=> Abort(r) \/ (r \in S /\ Phase(r) = "pending")
    PROVE  Contract!Cancel(S)
<1>1. \A r \in Requests : UNCHANGED <<Outstanding(r), Try(r)>>
  BY DEF Outstanding, Try
<1>2. QED
  BY <1>1 DEF Contract!Cancel, Phase, Attempt, Served, Abort

LEMMA RefinesFinish ==
    ASSUME NEW r \in Requests, \A q \in Requests : q # r => Same(q),
           Phase(r) = "pending", Phase(r)' = "idle", Attempt(r)' = 1, Served(r)' = "no", ~Abort(r)'
    PROVE  Contract!Finish(r)
<1>1. QED
  BY DEF Contract!Finish, Contract!Reset, Same, Phase, Attempt, Served, Abort

(* What a step does to one request, from what it does to its tries.        *)
LEMMA StepRefines ==
    DistinctInv /\ DistinctInv' /\ [Next]_vars => [Contract!Next]_(Contract!httpVars)
<1> SUFFICES ASSUME DistinctInv, DistinctInv', [Next]_vars
             PROVE  Contract!Next \/ UNCHANGED Contract!httpVars
  OBVIOUS
<1> USE DEF sessionVars, historyVars, Operation, OnSocket
<1>0. /\ TryInv /\ FoundInv /\ HandledInv /\ ResultInv
      /\ stage \in [Sessions -> {"none", "posted", "resolved", "over"} \cup Operation]
      /\ active \in [Ids -> Sessions \cup {None}] /\ thread \in [Threads -> Doing]
      /\ handled \in [Sessions -> BOOLEAN] /\ reached \in [Sessions -> BOOLEAN]
      /\ called \in [Requests -> Seq({"ok", "error", "canceled"})]
      /\ \A t \in Threads : BusyWith(thread[t]) => thread[t].s \in Sessions /\ Right(thread[t])
      /\ \A t \in Threads : thread[t].at = "decide" => thread[t].result \in {"error", "canceled"}
      /\ \A t \in Threads : thread[t].at = "callback" => thread[t].result # "none"
  BY BusyInvParts DEF DistinctInv, IInv, TypeOK, ThreadInv, BusyWith, Busy
<1>1. TryInv' /\ stage' \in [Sessions -> {"none", "posted", "resolved", "over"} \cup Operation]
  BY DEF DistinctInv, IInv, TypeOK
<1>2. (\A s \in Sessions : Latest(s) => Try(s[1]) = s[2])'
  BY TryIsLatest, PTL
<1>3. (\A s \in Sessions : Latest(s) /\ stage[<<s[1], 1>>] # "none" /\ called[s[1]] = <<>> =>
        /\ Outstanding(s[1]) /\ Try(s[1]) = s[2] /\ <<s[1], Try(s[1])>> = s
        /\ Phase(s[1]) = "pending" /\ Attempt(s[1]) = s[2]
        /\ Served(s[1]) = (IF handled[s] THEN "ok" ELSE "no") /\ (Abort(s[1]) <=> reached[s]))'
  BY OfLatest, PTL
<1>4. (\A r \in Requests : ~Outstanding(r) => /\ Phase(r) = "idle" /\ Attempt(r) = 1
                                              /\ Served(r) = "no" /\ ~Abort(r))'
  BY OfIdle, PTL
(* A request whose tries neither begin nor are handled or reached.         *)
<1>5. ASSUME NEW r \in Requests, called'[r] = called[r],
             \A k \in 1..MaxAttempts :
               /\ stage'[<<r, k>>] = "none" <=> stage[<<r, k>>] = "none"
               /\ handled'[<<r, k>>] = handled[<<r, k>>] /\ reached'[<<r, k>>] = reached[<<r, k>>]
      PROVE  Same(r)
  <2>1. Outstanding(r)' <=> Outstanding(r)
    BY <1>5 DEF Outstanding
  <2>2. CASE ~Outstanding(r)
    BY <1>4, <2>1, <2>2, OfIdle DEF Same, Abort
  <2>3. CASE Outstanding(r)
    <3>1. PICK k \in 1..MaxAttempts : Latest(<<r, k>>)
      BY <1>0, <2>3 DEF TryInv, Outstanding
    <3>2. <<r, k>> \in Sessions /\ Latest(<<r, k>>)'
      BY <1>5, <3>1 DEF Latest, Sessions
    <3>3. stage[<<r, 1>>] # "none" /\ called[r] = <<>> /\ stage'[<<r, 1>>] # "none" /\ called'[r] = <<>>
      BY <2>1, <2>3 DEF Outstanding
    <3> DEFINE s == <<r, k>>
    <3>4. s[1] = r /\ s[2] = k /\ handled'[s] = handled[s] /\ reached'[s] = reached[s]
      BY <1>5
    <3> HIDE DEF s
    <3>5. /\ Phase(r) = "pending" /\ Attempt(r) = k
          /\ Served(r) = (IF handled[s] THEN "ok" ELSE "no") /\ (Abort(r) <=> reached[s])
      BY <3>1, <3>2, <3>3, <3>4, OfLatest DEF s
    <3>6. /\ Phase(r)' = "pending" /\ Attempt(r)' = k
          /\ Served(r)' = (IF handled'[s] THEN "ok" ELSE "no") /\ (Abort(r)' <=> reached'[s])
      BY <1>3, <3>2, <3>3, <3>4 DEF s
    <3>7. Abort(r) \in BOOLEAN /\ Abort(r)' \in BOOLEAN
      BY <1>0, <2>1, <2>3 DEF Abort, Outstanding
    <3>8. QED
      BY <3>4, <3>5, <3>6, <3>7 DEF Same
  <2>4. QED
    BY <2>2, <2>3
<1>6. ASSUME UNCHANGED <<called, handled, reached>>,
             \A s \in Sessions : stage'[s] = "none" <=> stage[s] = "none"
      PROVE  UNCHANGED Contract!httpVars
  <2>1. \A r \in Requests : \A k \in 1..MaxAttempts : <<r, k>> \in Sessions
    BY DEF Sessions
  <2>2. \A r \in Requests : Same(r)
    BY <1>5, <1>6, <2>1
  <2>3. QED
    BY <2>2, RefinesStutter
<1>7. ASSUME NEW s \in Sessions, NEW x, x # "none", stage[s] # "none", Stage(s, x),
             UNCHANGED <<called, handled, reached>>
      PROVE  UNCHANGED Contract!httpVars
  <2>1. \A u \in Sessions : stage'[u] = "none" <=> stage[u] = "none"
    BY <1>0, <1>7 DEF Stage
  <2>2. QED
    BY <1>6, <1>7, <2>1
<1>8. /\ \A s \in Sessions : stage[s] # "none" => stage[<<s[1], 1>>] # "none"
      /\ \A s \in Sessions : stage'[s] # "none" => stage'[<<s[1], 1>>] # "none"
  <2>1. ASSUME NEW s \in Sessions PROVE s[1] \in Requests /\ (s = <<s[1], 1>> \/ 1 \in 1..(s[2] - 1))
    BY SessionParts
  <2>2. QED
    BY <1>0, <1>1, <2>1 DEF TryInv
(* What another request's tries do when the ones of r do not.              *)
<1>9. ASSUME NEW r \in Requests, NEW q \in Requests, q # r, called'[q] = called[q],
             \A s \in Sessions : s[1] # r =>
               stage'[s] = stage[s] /\ handled'[s] = handled[s] /\ reached'[s] = reached[s]
      PROVE  Same(q)
  <2>1. \A k \in 1..MaxAttempts : <<q, k>> \in Sessions /\ <<q, k>>[1] # r
    BY <1>9 DEF Sessions
  <2>2. QED
    BY <1>5, <1>9, <2>1
<1>10. ASSUME NEW r \in Requests, PostRequest(r) PROVE Contract!Next
  <2> DEFINE s == <<r, 1>>
  <2>1. /\ s \in Sessions /\ s[1] = r /\ s[2] = 1 /\ stage[s] = "none"
        /\ stage' = [stage EXCEPT ![s] = "posted"] /\ UNCHANGED <<called, handled, reached>>
    BY <1>10 DEF PostRequest, Stage, Sessions
  <2>2. called[r] = <<>> /\ ~handled[s] /\ ~reached[s] /\ ~Outstanding(r)
    BY <1>0, <2>1 DEF TryInv, Outstanding
  <2>3. Latest(s)' /\ stage'[<<s[1], 1>>] # "none"
    BY <1>0, <1>1, <2>1 DEF TryInv
  <2> HIDE DEF s
  <2>4. /\ Phase(r)' = "pending" /\ Attempt(r)' = 1
        /\ Served(r)' = "no" /\ ~Abort(r)'
    BY <1>3, <2>1, <2>2, <2>3
  <2>5. \A q \in Requests : q # r => Same(q)
    BY <1>0, <1>9, <2>1
  <2>6. Contract!Post(r)
    BY <2>2, <2>4, <2>5, OfIdle, RefinesPost
  <2>7. QED
    BY <2>6 DEF Contract!Next
<1>11. ASSUME NEW i \in Ids, CancelRequest(i) PROVE Contract!Next
  <2> PICK S \in SUBSET Requests : S = {r \in Requests : reached'[<<r, Try(r)>>]}
    OBVIOUS
  <2>1. UNCHANGED <<stage, called, handled>> /\ \A s \in Sessions : reached[s] => reached'[s]
    BY <1>0, <1>11 DEF CancelRequest
  <2>2. \A r \in Requests : UNCHANGED <<Outstanding(r), Try(r)>>
    BY <2>1 DEF Outstanding, Try
  <2>3. ASSUME NEW r \in Requests, Outstanding(r) PROVE <<r, Try(r)>> \in Sessions
    <3>1. PICK k \in 1..MaxAttempts : Latest(<<r, k>>)
      BY <1>0, <2>3 DEF TryInv, Outstanding
    <3>2. QED
      BY <3>1, TryIsLatest DEF Sessions
  <2>4. \A r \in Requests : Abort(r)' <=> Abort(r) \/ (r \in S /\ Phase(r) = "pending")
    BY <2>1, <2>2, <2>3 DEF Abort, Phase
  <2>5. Contract!Cancel(S)
    BY <2>1, <2>4, RefinesCancel
  <2>6. QED
    BY <2>5 DEF Contract!Next
<1>12. ASSUME NEW s \in Sessions, ServerHandles(s) PROVE Contract!Next
  <2> DEFINE r == s[1]
  <2>1. /\ stage[s] = "exchange" /\ ~handled[s] /\ handled' = [handled EXCEPT ![s] = TRUE]
        /\ UNCHANGED <<stage, called, reached>> /\ r \in Requests
    BY <1>12, SessionParts DEF ServerHandles
  <2>2. Latest(s) /\ called[r] = <<>> /\ stage[<<r, 1>>] # "none"
    BY <1>0, <1>8, <2>1 DEF TryInv
  <2>3. Latest(s)' /\ called'[r] = <<>> /\ stage'[<<r, 1>>] # "none" /\ handled'[s]
    BY <1>0, <2>1, <2>2 DEF Latest
  <2>4. \A q \in Requests : q # r => Same(q)
    BY <1>0, <1>9, <2>1
  <2>5. Phase(r) = "pending" /\ Attempt(r) = s[2] /\ Served(r) = "no" /\ (Abort(r) <=> reached[s])
    BY <2>1, <2>2, OfLatest
  <2>6. Phase(r)' = "pending" /\ Attempt(r)' = s[2] /\ Served(r)' = "ok" /\ (Abort(r)' <=> reached'[s])
    BY <1>3, <2>3
  <2>7. UNCHANGED Abort(r)
    <3>1. Abort(r) \in BOOLEAN /\ Abort(r)' \in BOOLEAN
      BY <1>0, <2>1, <2>2, <2>3, OfLatest, TryIsLatest, SessionParts, <1>2 DEF Abort, Outstanding
    <3>2. QED
      BY <2>1, <2>5, <2>6, <3>1
  <2>8. Contract!Serve(r, "ok")
    BY <2>1, <2>4, <2>5, <2>6, <2>7, RefinesServe
  <2>9. QED
    BY <2>1, <2>8 DEF Contract!Next
<1>13. ASSUME NEW t \in Threads, RetryOrGiveUp(t), NEW s \in Sessions, s = thread[t].s
       PROVE  Contract!Next \/ UNCHANGED Contract!httpVars
  <2> DEFINE r == s[1]
  <2>1. /\ s \in Sessions /\ r \in Requests /\ stage[s] = "over" /\ Latest(s) /\ called[r] = <<>>
        /\ UNCHANGED <<called, handled, reached>>
    BY <1>0, <1>13, SessionParts DEF RetryOrGiveUp, BusyWith, Right
  <2>2. CASE UNCHANGED stage
    BY <1>6, <2>1, <2>2
  <2>3. CASE s[2] < MaxAttempts /\ Stage(<<r, s[2] + 1>>, "posted")
    <3> DEFINE n == <<r, s[2] + 1>>
    <3>1. n \in Sessions /\ n[1] = r /\ n[2] = s[2] + 1 /\ stage[n] = "none"
      BY <2>1, <2>3 DEF Latest, Sessions
    <3>2. stage' = [stage EXCEPT ![n] = "posted"]
      BY <2>3 DEF Stage
    <3>3. ~handled[n] /\ ~reached[n] /\ stage[<<r, 1>>] # "none"
      BY <1>0, <1>8, <2>1, <3>1 DEF TryInv
    <3> HIDE DEF n
    <3>4. Latest(n)' /\ stage'[<<r, 1>>] # "none"
      BY <1>0, <1>1, <1>8, <3>1, <3>2 DEF TryInv
    <3>5. \A q \in Requests : q # r => Same(q)
      BY <1>0, <1>9, <2>1, <3>1, <3>2
    <3>6. Phase(r) = "pending" /\ Attempt(r) = s[2]
      BY <2>1, <3>3, OfLatest
    <3>7. Phase(r)' = "pending" /\ Attempt(r)' = s[2] + 1 /\ Served(r)' = "no" /\ ~Abort(r)'
      <4> HIDE DEF r
      <4>1. QED
        BY <1>3, <2>1, <3>1, <3>3, <3>4
    <3>8. Contract!Retry(r)
      <4> HIDE DEF r
      <4>1. QED
        BY <2>1, <2>3, <3>5, <3>6, <3>7, RefinesRetry
    <3>9. QED
      BY <2>1, <3>8 DEF Contract!Next
  <2>4. QED
    BY <1>13, <2>2, <2>3 DEF RetryOrGiveUp
<1>14. ASSUME NEW t \in Threads, RunCallback(t), NEW s \in Sessions, s = thread[t].s,
              NEW result, result = thread[t].result
       PROVE  Contract!Next
  <2> DEFINE r == s[1]
  <2>1. /\ s \in Sessions /\ r \in Requests /\ stage[s] = "over" /\ Latest(s) /\ called[r] = <<>>
        /\ UNCHANGED <<stage, handled, reached>> /\ called' = [called EXCEPT ![r] = Append(@, result)]
        /\ result \in {"ok", "error", "canceled"}
    BY <1>0, <1>14, SessionParts DEF RunCallback, BusyWith, Right, Doing
  <2>2. /\ result = "ok" => handled[s]
        /\ result = "error" => s[2] = MaxAttempts
        /\ result = "canceled" => reached[s]
    BY <1>0, <1>14 DEF ResultInv, Busy, RunCallback
  <2>3. stage[<<r, 1>>] # "none" /\ called'[r] # <<>> /\ \A q \in Requests : q # r => called'[q] = called[q]
    <3>1. Append(called[r], result) # <<>>
      <4>1. Append(<<>>, result) \in Seq({"ok", "error", "canceled"}) /\ Len(Append(<<>>, result)) = 1
        BY <2>1, EmptySeq, AppendProperties
      <4>2. QED
        BY <2>1, <4>1, EmptySeq
    <3>2. QED
      BY <1>0, <1>8, <2>1, <3>1
  <2> HIDE DEF r
  <2>4. ~Outstanding(r)'
    BY <2>3 DEF Outstanding
  <2>5. Phase(r)' = "idle" /\ Attempt(r)' = 1 /\ Served(r)' = "no" /\ ~Abort(r)'
    BY <1>4, <2>1, <2>4
  <2>6. /\ Phase(r) = "pending" /\ Attempt(r) = s[2]
        /\ Served(r) = (IF handled[s] THEN "ok" ELSE "no") /\ (Abort(r) <=> reached[s])
    BY <2>1, <2>3, OfLatest DEF r
  <2>7. \A q \in Requests : q # r => Same(q)
    BY <1>9, <2>1, <2>3
  <2>8. Contract!Finish(r)
    BY <2>1, <2>5, <2>6, <2>7, RefinesFinish
  <2>9. CASE result = "ok"
    <3>1. Contract!Respond(r)
      BY <2>1, <2>2, <2>6, <2>8, <2>9 DEF Contract!Respond, Served
    <3>2. QED
      BY <2>1, <3>1 DEF Contract!Next
  <2>10. CASE result = "error"
    <3>1. Contract!Fail(r)
      BY <2>1, <2>2, <2>6, <2>8, <2>10 DEF Contract!Fail, Attempt
    <3>2. QED
      BY <2>1, <3>1 DEF Contract!Next
  <2>11. CASE result = "canceled"
    <3>1. Contract!Aborted(r)
      BY <2>1, <2>2, <2>6, <2>8, <2>11 DEF Contract!Aborted, Abort
    <3>2. QED
      BY <2>1, <3>1 DEF Contract!Next
  <2>12. QED
    BY <2>1, <2>9, <2>10, <2>11
<1>15. ASSUME NEW t \in Threads, NEW s \in Sessions, HandlerStep(t, s) PROVE UNCHANGED Contract!httpVars
  <2>1. UNCHANGED <<called, handled, reached>> /\ stage[s] # "none"
    BY <1>15 DEF HandlerStep, StartSession, HandleResolve, HandleConnect, HandleReadHeaders,
                 HandleReadContent, OperationFails
  <2>2. \E x \in {"exchange", "resolve", "resolved", "body", "over"} : Stage(s, x)
    BY <1>15 DEF HandlerStep, StartSession, HandleResolve, HandleConnect, HandleReadHeaders,
                 HandleReadContent, FinishReadContent, OperationFails, Begin
  <2>3. QED
    BY <1>7, <2>1, <2>2
<1>16. ASSUME NEW t \in Threads, Connect(t) PROVE UNCHANGED Contract!httpVars
  <2>1. thread[t].s \in Sessions /\ stage[thread[t].s] = "resolved"
    BY <1>0, <1>16 DEF Connect, BusyWith, Right
  <2>2. Stage(thread[t].s, "connect") /\ UNCHANGED <<called, handled, reached>>
    BY <1>16 DEF Connect, Begin
  <2>3. QED
    BY <1>7, <2>1, <2>2
<1>17. CASE Close \/ DropSessions \/ (\E t \in Threads : CatchException(t)) \/ UNCHANGED vars
  <2>1. UNCHANGED <<stage, called, handled, reached>>
    BY <1>17 DEF Close, DropSessions, CatchException, vars
  <2>2. QED
    BY <1>6, <2>1
<1>18. \A t \in Threads : RetryOrGiveUp(t) \/ RunCallback(t) => thread[t].s \in Sessions
  BY <1>0 DEF RetryOrGiveUp, RunCallback, BusyWith
<1>19. QED
  BY <1>10, <1>11, <1>12, <1>13, <1>14, <1>15, <1>16, <1>17, <1>18 DEF Next, ThreadStep

(* With distinct ids (requests created in different seconds) HttpClientMT  *)
(* keeps its promise to every caller of PostRequest: one callback, a       *)
(* response only if the server handled the last try, a cancellation only   *)
(* if Cancel reached it, a failure only after all tries.                   *)
THEOREM ContractIsKept == IdsDistinct => (Spec => KeepsContract)
<1> SUFFICES ASSUME IdsDistinct PROVE Spec => KeepsContract
  OBVIOUS
<1>1. Init => DistinctInv
  BY DistinctInit
<1>2. DistinctInv /\ [Next]_vars => DistinctInv'
  BY DistinctNext
<1>3. Spec => []DistinctInv
  BY <1>1, <1>2, PTL DEF Spec
<1>4. Init => Contract!Init
  BY InitRefines
<1>5. DistinctInv /\ DistinctInv' /\ [Next]_vars => [Contract!Next]_(Contract!httpVars)
  BY StepRefines
<1>6. QED
  BY <1>3, <1>4, <1>5, PTL DEF Spec, KeepsContract, Contract!Spec
===============================================================================
