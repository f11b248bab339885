--------------------------- MODULE FeedClientProofs ---------------------------
(***************************************************************************)
(* Proofs about the websocket client, for every number of sockets, every   *)
(* plan, and every set of requests of the other containers.                *)
(***************************************************************************)
EXTENDS FeedClient, FiniteSetTheorems, WellFoundedInduction, TLAPS

Pairs == Plan \cup (UNION RequestSets)
Pairing == {pairs \in SUBSET Pairs : OneMode(pairs)}

Socket == [net : {"dead", "dialing", "open"}, wanted : Pairing, carries : Pairing,
           calls : SUBSET {"open", "error", "close"}]

SvcPlaces == {"idle", "read", "send", "disconnect", "endgap", "resetgap", "stopped"}

(* What the threads share.                                                 *)
SocketInv ==
    /\ streamer \in Sockets \cup {NoSocket}
    /\ sockets \in [Sockets -> Socket]
    /\ subscribed \in Pairing /\ requests \in Pairing
    /\ svc \in [pc : SvcPlaces, send : Pairing, drop : SUBSET Pairs]

(* The only connection is that of the current streamer, and a thread that  *)
(* is about to connect has left none behind.                               *)
LoneInv == Alive \subseteq {streamer}
BareInv == feed \in {"loop", "authorise", "gap", "newgap"} => streamer = NoSocket

(* An id that is not forgotten at once is that of an open row, if writes   *)
(* to the register succeed and no stop has come in between.                *)
GapInv ==
    /\ openGaps \subseteq 1..MaxGaps /\ gapId \in 0..MaxGaps
    /\ ~stop /\ ~GapsMayFail /\ gapId # 0 => gapId \in openGaps \/ feed = "resetgap"
    /\ state = "BACKING_OFF" /\ ~stop => feed = "loop" /\ (~GapsMayFail => gapId # 0)

(* From the dial on: the connection lives, or the thread will be woken.    *)
Connected == {"await", "endgap", "resetgap", "stream", "wait"}
WakeInv ==
    feed \in Connected =>
        \/ streamer \in Alive
        \/ force
        \/ streamer # NoSocket /\ sockets[streamer].calls \cap {"error", "close"} # {}

(* A stop wakes the feed thread for good.                                  *)
StopInv ==
    /\ svc.pc \in {"disconnect", "endgap", "resetgap", "stopped"} => stop
    /\ stop => force \/ feed \in {"lost", "done"}

(* What each thread is doing.                                              *)
FeedPlaces == {"loop", "authorise", "await", "endgap", "resetgap", "stream", "wait", "lost",
               "gap", "newgap", "done"}
States == {"DISCONNECTED", "CONNECTING", "STREAMING", "BACKING_OFF", "STOPPED"}
PlainInv ==
    /\ feed \in FeedPlaces /\ state \in States
    /\ stop \in BOOLEAN /\ force \in BOOLEAN /\ opened \in BOOLEAN /\ market \in BOOLEAN
    /\ crossed \in BOOLEAN
    /\ watch \in {"check", "newgap", "done"} /\ wire \in {"never", "fresh", "stale"}
    /\ events \in 0..MaxEvents

IInv == PlainInv /\ SocketInv /\ LoneInv /\ BareInv /\ GapInv /\ WakeInv /\ StopInv

-------------------------------------------------------------------------------
(* Sets of pairs with one mode for each instrument.                        *)

LEMMA PairingSubset ==
    ASSUME NEW old \in Pairing, NEW new, new \subseteq old
    PROVE  new \in Pairing
BY DEF Pairing, OneMode

LEMMA PairingPut ==
    ASSUME NEW old \in Pairing, NEW new \in Pairing
    PROVE  Put(old, new) \in Pairing
<1>1. Put(old, new) \subseteq Pairs
  BY DEF Put, Pairing
<1>2. ASSUME NEW p \in Put(old, new), NEW q \in Put(old, new), p[1] = q[1]
      PROVE  p = q
  <2>1. (p \in old /\ q \in old) \/ (p \in new /\ q \in new)
    BY <1>2 DEF Put, Keys
  <2> QED
    BY <1>2, <2>1 DEF Pairing, OneMode
<1> QED
  BY <1>1, <1>2 DEF Pairing, OneMode

LEMMA DesiredType == requests \in Pairing => DesiredState \in Pairing
<1> SUFFICES ASSUME requests \in Pairing PROVE DesiredState \in Pairing
  OBVIOUS
<1>1. Plan \in Pairing
  BY FeedClientAssumption DEF Pairing, Pairs
<1>2. DesiredState \subseteq Pairs
  BY DEF DesiredState, Pairing, Pairs
<1>3. ASSUME NEW p \in DesiredState, NEW q \in DesiredState, p[1] = q[1]
      PROVE  p = q
  <2>1. (p \in Plan /\ q \in Plan) \/ (p \in requests /\ q \in requests)
    BY <1>3 DEF DesiredState, Keys
  <2> QED
    BY <1>1, <1>3, <2>1 DEF Pairing, OneMode
<1> QED
  BY <1>2, <1>3 DEF Pairing, OneMode

LEMMA PairsAreFinite == IsFiniteSet(Pairs)
<1>1. IsFiniteSet(UNION RequestSets)
  BY FeedClientAssumption, FS_UNION
<1> QED
  BY <1>1, FeedClientAssumption, FS_Union DEF Pairs

(* There are as many instruments as pairs.                                 *)
LEMMA OneKeyEach ==
    ASSUME NEW pairs \in Pairing
    PROVE  Cardinality(Keys(pairs)) = Cardinality(pairs)
<1> DEFINE key == [p \in pairs |-> p[1]]
<1>1. IsFiniteSet(pairs)
  BY PairsAreFinite, FS_Subset DEF Pairing
<1>2. key \in Bijection(pairs, Keys(pairs))
  <2>1. key \in [pairs -> Keys(pairs)]
    BY DEF Keys
  <2>2. \A p, q \in pairs : key[p] = key[q] => p = q
    BY DEF Pairing, OneMode
  <2>3. \A k \in Keys(pairs) : \E p \in pairs : key[p] = k
    BY DEF Keys
  <2> HIDE DEF key
  <2> QED
    BY <2>1, <2>2, <2>3 DEF Bijection, Injection, Surjection, IsInjective
<1>3. ExistsBijection(pairs, Keys(pairs))
  BY <1>2 DEF ExistsBijection
<1> QED
  BY <1>1, <1>3, FS_Bijection

-------------------------------------------------------------------------------
(* The operators of the model.                                             *)

LEMMA MinIsIn ==
    ASSUME NEW S, S \subseteq Nat, S # {}
    PROVE  Min(S) \in S
<1>1. \E x \in S : \A y \in S : ~(<<y, x>> \in OpToRel(<, Nat))
  BY NatLessThanWellFounded, WFMin
<1>2. \A x, y \in S : y < x => <<y, x>> \in OpToRel(<, Nat)
  BY Zenon DEF OpToRel
<1>3. \E x \in S : \A y \in S : ~(y < x)
  BY <1>1, <1>2, Zenon
<1>4. \E x \in S : \A y \in S : x <= y
  BY <1>3
<1> QED
  BY <1>4 DEF Min

LEMMA FreshGapType == FreshGap \in 1..MaxGaps
<1> DEFINE free == (1..MaxGaps) \ openGaps
<1>1. free # {} => Min(free) \in free
  <2>1. free \subseteq Nat
    OBVIOUS
  <2> HIDE DEF free
  <2> QED
    BY <2>1, MinIsIn
<1> QED
  BY <1>1, FeedClientAssumption DEF FreshGap

LEMMA EmptyPairing == {} \in Pairing
BY DEF Pairing, OneMode

(* After a disconnect there is no connection.                              *)
LEMMA DisconnectEffect ==
    ASSUME SocketInv, LoneInv, DisconnectStreamer
    PROVE  /\ sockets' \in [Sockets -> Socket]
           /\ streamer' = NoSocket /\ subscribed' = {}
           /\ Alive' = {}
<1>1. sockets \in [Sockets -> Socket] /\ sockets' \in AfterDisconnect
  BY DEF SocketInv, DisconnectStreamer
<1>2. CASE streamer \notin Alive
  <2>1. Alive = {} /\ sockets' = sockets
    BY <1>1, <1>2 DEF LoneInv, AfterDisconnect
  <2> QED
    BY <1>1, <2>1 DEF DisconnectStreamer, Alive
<1>3. CASE streamer \in Alive
  <2>1. PICK calls \in SUBSET {"open", "error", "close"} :
           sockets' = [sockets EXCEPT ![streamer] = [Dead EXCEPT !.calls = calls]]
    <3>1. sockets[streamer].calls \subseteq {"open", "error", "close"}
      BY <1>1, <1>3 DEF Socket, Alive
    <3> QED
      BY <1>1, <1>3, <3>1 DEF AfterDisconnect
  <2>2. /\ [Dead EXCEPT !.calls = calls] \in Socket
        /\ [Dead EXCEPT !.calls = calls].net = "dead"
    BY EmptyPairing DEF Dead, Socket
  <2>3. sockets' \in [Sockets -> Socket]
    BY <1>1, <2>1, <2>2
  <2>4. \A s \in Sockets : s # streamer => sockets[s].net = "dead"
    BY DEF LoneInv, Alive
  <2>5. \A s \in Sockets : sockets'[s].net = "dead"
    BY <1>1, <1>3, <2>1, <2>2, <2>4 DEF Alive
  <2> QED
    BY <2>3, <2>5 DEF DisconnectStreamer, Alive
<1> QED
  BY <1>2, <1>3

LEMMA InitInvariant == Init => IInv
<1> SUFFICES ASSUME Init PROVE IInv
  OBVIOUS
<1>1. Dead \in Socket /\ Dead.net = "dead" /\ IdleSvc \in [pc : SvcPlaces, send : Pairing, drop : SUBSET Pairs]
  BY EmptyPairing DEF Dead, Socket, IdleSvc, SvcPlaces
<1>2. SocketInv
  <2>1. requests \in Pairing
    BY FeedClientAssumption DEF Init, Pairing, Pairs
  <2> QED
    BY <1>1, <2>1, EmptyPairing DEF Init, SocketInv
<1>3. LoneInv /\ BareInv
  BY <1>1 DEF Init, LoneInv, BareInv, Alive
<1>4. GapInv
  BY FeedClientAssumption DEF Init, GapInv
<1>5. WakeInv
  BY DEF Init, WakeInv, Connected
<1>6. StopInv
  BY DEF Init, StopInv, IdleSvc
<1>7. PlainInv
  <2>1. 0 \in 0..MaxEvents
    BY FeedClientAssumption
  <2> QED
    BY <2>1, Zenon DEF Init, PlainInv, FeedPlaces, States
<1> QED
  BY <1>2, <1>3, <1>4, <1>5, <1>6, <1>7 DEF IInv

-------------------------------------------------------------------------------
(* The steps of the threads.                                               *)

LEMMA FeedEffect ==
    ASSUME IInv, FeedStep
    PROVE  SocketInv' /\ LoneInv' /\ BareInv' /\ WakeInv'
<1> USE DEF connection, gaps, world
<1>1. /\ streamer \in Sockets \cup {NoSocket} /\ sockets \in [Sockets -> Socket]
      /\ subscribed \in Pairing /\ requests \in Pairing
      /\ svc \in [pc : SvcPlaces, send : Pairing, drop : SUBSET Pairs]
      /\ SocketInv /\ LoneInv /\ BareInv /\ WakeInv
      /\ NoSocket \notin Sockets
  BY FeedClientAssumption DEF IInv, SocketInv
<1>2. CASE IdleOutsideSession \/ (LoseConnection /\ ~stop)
  <2>1. DisconnectStreamer /\ requests' = requests /\ svc' = svc /\ feed' \in {"loop", "gap"}
    BY <1>2 DEF IdleOutsideSession, LoseConnection, At
  <2>2. /\ sockets' \in [Sockets -> Socket] /\ streamer' = NoSocket /\ subscribed' = {}
        /\ Alive' = {}
    BY <1>1, <2>1, DisconnectEffect
  <2>3. SocketInv'
    BY <1>1, <2>1, <2>2, EmptyPairing DEF SocketInv
  <2>4. LoneInv' /\ BareInv'
    BY <2>2 DEF LoneInv, BareInv
  <2>5. WakeInv'
    BY <2>1 DEF WakeInv, Connected
  <2> QED
    BY <2>3, <2>4, <2>5
<1>3. CASE Dial
  <2>1. /\ feed = "authorise" /\ feed' = "await" /\ requests' = requests /\ svc' = svc
        /\ subscribed' = {} /\ streamer' \in Free
        /\ sockets' = [sockets EXCEPT ![streamer'].net = "dialing",
                                      ![streamer'].wanted = DesiredState]
    BY <1>3 DEF Dial, At
  <2>2. streamer = NoSocket /\ Alive = {}
    BY <1>1, <2>1 DEF BareInv, LoneInv, Alive
  <2>3. PICK s \in Sockets : streamer' = s
    BY <2>1 DEF Free
  <2>4. DesiredState \in Pairing
    BY <1>1, DesiredType
  <2>5. sockets' = [sockets EXCEPT ![s] = [@ EXCEPT !.net = "dialing", !.wanted = DesiredState]]
    BY <1>1, <2>1, <2>3
  <2>6. /\ sockets' \in [Sockets -> Socket] /\ sockets'[s].net = "dialing"
        /\ \A t \in Sockets : t # s => sockets'[t] = sockets[t]
    BY <1>1, <2>4, <2>5 DEF Socket
  <2>7. Alive' = {s}
    BY <2>2, <2>3, <2>6 DEF Alive
  <2> QED
    BY <1>1, <2>1, <2>3, <2>6, <2>7, EmptyPairing DEF SocketInv, LoneInv, BareInv, WakeInv
<1>4. CASE ConnectFails
  <2>1. streamer' = streamer /\ UNCHANGED <<subscribed, sockets, requests, svc>> /\ feed' = "lost"
    BY <1>1, <1>4 DEF ConnectFails, At, BareInv
  <2> QED
    BY <1>1, <2>1 DEF SocketInv, LoneInv, BareInv, WakeInv, Connected, Alive
<1>5. CASE \/ StopLoop \/ BeginConnect \/ AwaitOpen \/ EndGap \/ ForgetGap \/ StartStreaming
           \/ WakeUp \/ (LoseConnection /\ stop) \/ CheckGapToOpen \/ RecordGap
  <2>1. UNCHANGED <<streamer, sockets, subscribed, requests, svc>>
    BY <1>5 DEF StopLoop, BeginConnect, AwaitOpen, EndGap, ForgetGap, StartStreaming, WakeUp,
                LoseConnection, CheckGapToOpen, RecordGap
  <2>2. /\ feed' \in {"loop", "authorise", "gap", "newgap"} =>
              feed \in {"loop", "authorise", "gap", "newgap"}
        /\ feed' \in Connected => feed \in Connected /\ force' = force
    BY <1>5 DEF StopLoop, BeginConnect, AwaitOpen, EndGap, ForgetGap, StartStreaming, WakeUp,
                LoseConnection, DisconnectStreamer, CheckGapToOpen, RecordGap, At, Connected
  <2>3. Alive' = Alive
    BY <2>1 DEF Alive
  <2>4. SocketInv'
    BY <1>1, <2>1 DEF SocketInv
  <2>5. LoneInv'
    BY <1>1, <2>1, <2>3 DEF LoneInv
  <2>6. BareInv'
    BY <1>1, <2>1, <2>2 DEF BareInv
  <2>7. WakeInv'
    BY <1>1, <2>1, <2>2, <2>3 DEF WakeInv
  <2> QED
    BY <2>4, <2>5, <2>6, <2>7
<1> QED
  BY <1>2, <1>3, <1>4, <1>5 DEF FeedStep, LoseConnection

LEMMA SocketEffect ==
    ASSUME IInv, NEW s \in Sockets, SocketStep(s) \/ Break(s)
    PROVE  SocketInv' /\ LoneInv' /\ BareInv' /\ WakeInv'
<1> USE DEF connection, gaps, world
<1>1. /\ streamer \in Sockets \cup {NoSocket} /\ sockets \in [Sockets -> Socket]
      /\ subscribed \in Pairing /\ requests \in Pairing
      /\ svc \in [pc : SvcPlaces, send : Pairing, drop : SUBSET Pairs]
      /\ SocketInv /\ LoneInv /\ BareInv /\ WakeInv
      /\ NoSocket \notin Sockets
  BY FeedClientAssumption DEF IInv, SocketInv
<1>2. UNCHANGED <<feed, streamer, requests, svc>>
  BY DEF SocketStep, Handshake, OnOpen, OnError, OnClose, Break
<1>3. /\ sockets' \in [Sockets -> Socket] /\ subscribed' \in Pairing
      /\ \A t \in Sockets : sockets'[t].net # "dead" => sockets[t].net # "dead"
      /\ \A t \in Sockets : sockets[t].net # "dead" /\ sockets'[t].net = "dead" =>
            "close" \in sockets'[t].calls
      /\ \A t \in Sockets : sockets[t].calls \cap {"error", "close"} # {} =>
            force' \/ sockets'[t].calls \cap {"error", "close"} # {}
      /\ force => force'
  <2>1. CASE Handshake(s)
    <3>1. OfMode(sockets[s].wanted, FirstMode) \in Pairing
      BY <1>1, PairingSubset DEF OfMode, Socket
    <3>2. sockets' = [sockets EXCEPT ![s] =
                        [sockets[s] EXCEPT !.net = "open", !.calls = sockets[s].calls \cup {"open"},
                                           !.carries = OfMode(sockets[s].wanted, FirstMode)]]
      BY <1>1, <2>1 DEF Handshake
    <3>3. sockets' \in [Sockets -> Socket]
      BY <1>1, <3>1, <3>2 DEF Socket
    <3>4. \A t \in Sockets : t # s => sockets'[t] = sockets[t]
      BY <1>1, <3>2
    <3>5. sockets'[s] = [sockets[s] EXCEPT
                           !.net = "open", !.calls = sockets[s].calls \cup {"open"},
                           !.carries = OfMode(sockets[s].wanted, FirstMode)]
      BY <1>1, <3>2
    <3>6. sockets[s] \in Socket
      BY <1>1
    <3>7. /\ sockets'[s].net = "open" /\ sockets[s].net # "dead"
          /\ sockets'[s].calls = sockets[s].calls \cup {"open"}
      BY <2>1, <3>5, <3>6 DEF Socket, Handshake
    <3>8. subscribed' = subscribed /\ force' = force
      BY <2>1 DEF Handshake
    <3> QED
      BY <1>1, <3>3, <3>4, <3>7, <3>8
  <2>2. CASE Break(s)
    <3>1. PICK calls \in {{"close"}, {"error", "close"}} :
             sockets' = [sockets EXCEPT ![s] = [Dead EXCEPT !.calls = sockets[s].calls \cup calls]]
      BY <2>2 DEF Break
    <3>2. /\ [Dead EXCEPT !.calls = sockets[s].calls \cup calls] \in Socket
          /\ "close" \in [Dead EXCEPT !.calls = sockets[s].calls \cup calls].calls
      BY <1>1, EmptyPairing DEF Dead, Socket
    <3>3. /\ sockets' \in [Sockets -> Socket] /\ "close" \in sockets'[s].calls
          /\ sockets[s].net # "dead"
          /\ \A t \in Sockets : t # s => sockets'[t] = sockets[t]
      BY <1>1, <2>2, <3>1, <3>2 DEF Break
    <3> QED
      BY <1>1, <2>2, <3>3 DEF Break
  <2>3. CASE OnOpen(s)
    <3> DEFINE usable == streamer # NoSocket /\ sockets[streamer].net = "open"
               others == ModesOf(sockets[s].wanted) \ {FirstMode}
    <3>1. PICK done \in IF usable THEN SUBSET others ELSE {{}} :
            /\ sockets' = [t \in Sockets |->
                  [sockets[t] EXCEPT
                     !.calls = IF t = s THEN @ \ {"open"} ELSE @,
                     !.wanted = IF t = s THEN {} ELSE @,
                     !.carries = IF t = streamer
                                 THEN Put(@, {p \in sockets[s].wanted : p[2] \in done}) ELSE @]]
            /\ IF streamer = NoSocket THEN UNCHANGED <<opened, subscribed>>
               ELSE /\ subscribed' = OfMode(sockets[s].wanted, FirstMode)
                                        \cup {p \in sockets[s].wanted : p[2] \in done}
                    /\ opened' = TRUE
      BY <2>3, Zenon DEF OnOpen
    <3> DEFINE sent == {p \in sockets[s].wanted : p[2] \in done}
    <3>2. sockets[s].wanted \in Pairing
      BY <1>1 DEF Socket
    <3>3. sent \in Pairing /\ OfMode(sockets[s].wanted, FirstMode) \cup sent \in Pairing
      BY <3>2, PairingSubset DEF OfMode
    <3> HIDE DEF sent
    <3>4. ASSUME NEW t \in Sockets
          PROVE  /\ sockets'[t] \in Socket /\ sockets'[t].net = sockets[t].net
                 /\ sockets'[t].calls \cap {"error", "close"} = sockets[t].calls \cap {"error", "close"}
      <4>1. Put(sockets[t].carries, sent) \in Pairing
        BY <1>1, <3>3, PairingPut DEF Socket
      <4>2. sockets[t] \in Socket
        BY <1>1
      <4> DEFINE calls == IF t = s THEN sockets[t].calls \ {"open"} ELSE sockets[t].calls
                 wanted == IF t = s THEN {} ELSE sockets[t].wanted
                 carries == IF t = streamer THEN Put(sockets[t].carries, sent)
                                            ELSE sockets[t].carries
      <4>3. sockets'[t] = [sockets[t] EXCEPT !.calls = calls, !.wanted = wanted, !.carries = carries]
        BY <3>1 DEF sent
      <4>4. /\ calls \in SUBSET {"open", "error", "close"}
            /\ calls \cap {"error", "close"} = sockets[t].calls \cap {"error", "close"}
        BY <4>2 DEF Socket
      <4>5. wanted \in Pairing /\ carries \in Pairing
        BY <4>1, <4>2, EmptyPairing DEF Socket
      <4> HIDE DEF calls, wanted, carries
      <4> QED
        BY <4>2, <4>3, <4>4, <4>5 DEF Socket
    <3>5. sockets' \in [Sockets -> Socket]
      BY <3>1, <3>4
    <3>6. subscribed' \in Pairing /\ force' = force
      BY <1>1, <2>3, <3>1, <3>3 DEF OnOpen, sent
    <3> QED
      BY <3>4, <3>5, <3>6
  <2>4. CASE OnError(s) \/ OnClose(s)
    <3>1. PICK call : sockets' = [sockets EXCEPT ![s] = [sockets[s] EXCEPT !.calls = sockets[s].calls \ {call}]]
      BY <1>1, <2>4 DEF OnError, OnClose
    <3>2. force' = TRUE /\ subscribed' = subscribed
      BY <2>4 DEF OnError, OnClose
    <3>3. /\ sockets' \in [Sockets -> Socket]
          /\ \A t \in Sockets : sockets'[t].net = sockets[t].net
      BY <1>1, <3>1 DEF Socket
    <3> QED
      BY <1>1, <3>2, <3>3
  <2> QED
    BY <2>1, <2>2, <2>3, <2>4 DEF SocketStep
<1>4. SocketInv'
  BY <1>1, <1>2, <1>3 DEF SocketInv
<1>5. LoneInv' /\ BareInv'
  BY <1>1, <1>2, <1>3 DEF LoneInv, BareInv, Alive
<1>6. WakeInv'
  BY <1>1, <1>2, <1>3 DEF WakeInv, Alive
<1> QED
  BY <1>4, <1>5, <1>6

LEMMA SvcEffect ==
    ASSUME IInv, SvcStep \/ SendFails \/ BeginStop
    PROVE  SocketInv' /\ LoneInv' /\ BareInv' /\ WakeInv'
<1> USE DEF connection, gaps, world
<1>1. /\ streamer \in Sockets \cup {NoSocket} /\ sockets \in [Sockets -> Socket]
      /\ subscribed \in Pairing /\ requests \in Pairing
      /\ svc \in [pc : SvcPlaces, send : Pairing, drop : SUBSET Pairs]
      /\ SocketInv /\ LoneInv /\ BareInv /\ WakeInv
      /\ NoSocket \notin Sockets
  BY FeedClientAssumption DEF IInv, SocketInv
<1>2. feed' = feed /\ requests' = requests /\ (force' = force \/ force')
  BY DEF SvcStep, Reconcile, ReadDesired, SendNext, DropStale, SendFails, BeginStop,
         StopDisconnects, StopEndsGap, StopForgetsGap
<1>3. ASSUME NEW send \in Pairing, NEW drop \in SUBSET Pairs
      PROVE  Pending(send, drop) \in [pc : SvcPlaces, send : Pairing, drop : SUBSET Pairs]
  BY EmptyPairing DEF Pending, IdleSvc, SvcPlaces
<1>4. svc' \in [pc : SvcPlaces, send : Pairing, drop : SUBSET Pairs]
  <2>1. CASE \/ Reconcile \/ DropStale \/ BeginStop
             \/ StopDisconnects \/ StopEndsGap \/ StopForgetsGap
    <3>1. \/ svc' = IdleSvc
          \/ \E pc \in SvcPlaces : svc' = [svc EXCEPT !.pc = pc]
      BY <2>1 DEF Reconcile, DropStale, BeginStop, StopDisconnects, StopEndsGap, StopForgetsGap,
                  Stopped, SvcPlaces
    <3> QED
      BY <1>1, <3>1, EmptyPairing DEF IdleSvc, SvcPlaces
  <2>2. CASE ReadDesired
    <3>1. DesiredState \ subscribed \in Pairing
      BY <1>1, DesiredType, PairingSubset
    <3>2. {p \in subscribed : p[1] \notin Keys(DesiredState)} \in SUBSET Pairs
      BY <1>1 DEF Pairing
    <3> QED
      BY <1>3, <2>2, <3>1, <3>2 DEF ReadDesired
  <2>3. CASE SendNext \/ SendFails
    <3>1. \/ svc' = IdleSvc
          \/ \E m : svc' = Pending(svc.send \ OfMode(svc.send, m), svc.drop)
      BY <2>3 DEF SendNext, SendFails
    <3>2. CASE svc' = IdleSvc
      BY <3>2, EmptyPairing DEF IdleSvc, SvcPlaces
    <3>3. ASSUME NEW m, svc' = Pending(svc.send \ OfMode(svc.send, m), svc.drop)
          PROVE  svc' \in [pc : SvcPlaces, send : Pairing, drop : SUBSET Pairs]
      <4>1. svc.send \ OfMode(svc.send, m) \in Pairing /\ svc.drop \in SUBSET Pairs
        BY <1>1, PairingSubset
      <4> QED
        BY <1>3, <3>3, <4>1
    <3> QED
      BY <3>1, <3>2, <3>3
  <2> QED
    BY <2>1, <2>2, <2>3 DEF SvcStep
<1>5. CASE SendNext \/ DropStale
  <2>1. streamer' = streamer /\ force' = force
    BY <1>5 DEF SendNext, DropStale
  <2>2. CASE UNCHANGED <<sockets, subscribed>>
    <3>1. Alive' = Alive
      BY <2>2 DEF Alive
    <3>2. SocketInv'
      BY <1>1, <1>2, <1>4, <2>1, <2>2 DEF SocketInv
    <3>3. LoneInv' /\ BareInv'
      BY <1>1, <1>2, <2>1, <3>1 DEF LoneInv, BareInv
    <3>4. WakeInv'
      BY <1>1, <1>2, <2>1, <2>2, <3>1 DEF WakeInv
    <3> QED
      BY <3>2, <3>3, <3>4
  <2>3. CASE ~UNCHANGED <<sockets, subscribed>>
    <3>1. streamer \in Sockets
      BY <1>1, <1>5, <2>3 DEF SendNext, DropStale, Usable
    <3>2. PICK pairs \in Pairing :
             /\ sockets' = [sockets EXCEPT ![streamer] = [sockets[streamer] EXCEPT !.carries = pairs]]
             /\ subscribed' \in Pairing
      <4>1. CASE SendNext
        <5>1. PICK m :
                 /\ sockets' = [sockets EXCEPT ![streamer].carries =
                                   Put(sockets[streamer].carries, OfMode(svc.send, m))]
                 /\ subscribed' = Put(subscribed, OfMode(svc.send, m))
          BY <2>3, <4>1 DEF SendNext
        <5>2. OfMode(svc.send, m) \in Pairing
          BY <1>1, PairingSubset DEF OfMode
        <5>3. sockets[streamer].carries \in Pairing
          BY <1>1, <3>1 DEF Socket
        <5>4. /\ Put(sockets[streamer].carries, OfMode(svc.send, m)) \in Pairing
              /\ Put(subscribed, OfMode(svc.send, m)) \in Pairing
          BY <1>1, <5>2, <5>3, PairingPut
        <5> QED
          BY <5>1, <5>4
      <4>2. CASE DropStale
        <5>1. /\ sockets' = [sockets EXCEPT ![streamer].carries =
                    {p \in sockets[streamer].carries : p[1] \notin Keys(svc.drop)}]
              /\ subscribed' = {p \in subscribed : p[1] \notin Keys(svc.drop)}
          BY <2>3, <4>2 DEF DropStale
        <5>2. sockets[streamer].carries \in Pairing
          BY <1>1, <3>1 DEF Socket
        <5>3. /\ {p \in sockets[streamer].carries : p[1] \notin Keys(svc.drop)} \in Pairing
              /\ {p \in subscribed : p[1] \notin Keys(svc.drop)} \in Pairing
          BY <1>1, <5>2, PairingSubset
        <5> QED
          BY <5>1, <5>3
      <4> QED
        BY <1>5, <4>1, <4>2
    <3>3. /\ sockets' \in [Sockets -> Socket]
          /\ \A t \in Sockets : sockets'[t].net = sockets[t].net
          /\ \A t \in Sockets : sockets'[t].calls = sockets[t].calls
      BY <1>1, <3>1, <3>2 DEF Socket
    <3>4. SocketInv'
      BY <1>1, <1>2, <1>4, <2>1, <3>2, <3>3 DEF SocketInv
    <3>5. Alive' = Alive
      BY <3>3 DEF Alive
    <3>6. LoneInv' /\ BareInv'
      BY <1>1, <1>2, <2>1, <3>5 DEF LoneInv, BareInv
    <3>7. WakeInv'
      BY <1>1, <1>2, <2>1, <3>1, <3>3, <3>5 DEF WakeInv
    <3> QED
      BY <3>4, <3>6, <3>7
  <2> QED
    BY <2>2, <2>3
<1>6. CASE StopDisconnects
  <2>1. /\ sockets' \in [Sockets -> Socket] /\ streamer' = NoSocket /\ subscribed' = {}
        /\ Alive' = {}
    BY <1>1, <1>6, DisconnectEffect DEF StopDisconnects
  <2>2. SocketInv'
    BY <1>1, <1>2, <1>4, <2>1, EmptyPairing DEF SocketInv
  <2>3. LoneInv' /\ BareInv'
    BY <2>1 DEF LoneInv, BareInv
  <2>4. force' = force /\ (force \/ feed \in {"lost", "done"})
    BY <1>6 DEF IInv, StopInv, StopDisconnects
  <2>5. WakeInv'
    BY <1>2, <2>4 DEF WakeInv, Connected
  <2> QED
    BY <2>2, <2>3, <2>5
<1>7. CASE Reconcile \/ ReadDesired \/ SendFails \/ BeginStop \/ StopEndsGap \/ StopForgetsGap
  <2>1. UNCHANGED <<streamer, sockets, subscribed>>
    BY <1>7 DEF Reconcile, ReadDesired, SendFails, BeginStop, StopEndsGap, StopForgetsGap
  <2>2. Alive' = Alive
    BY <2>1 DEF Alive
  <2>3. SocketInv'
    BY <1>1, <1>2, <1>4, <2>1 DEF SocketInv
  <2>4. LoneInv' /\ BareInv'
    BY <1>1, <1>2, <2>1, <2>2 DEF LoneInv, BareInv
  <2>5. WakeInv'
    BY <1>1, <1>2, <2>1, <2>2 DEF WakeInv
  <2> QED
    BY <2>3, <2>4, <2>5
<1> QED
  BY <1>5, <1>6, <1>7 DEF SvcStep

(* The watchdog and the outside world touch no connection.                 *)
LEMMA OtherEffect ==
    ASSUME IInv, WatchStep \/ WorldStep \/ UNCHANGED vars
    PROVE  SocketInv' /\ LoneInv' /\ BareInv' /\ WakeInv'
<1> USE DEF connection, gaps, world
<1>1. /\ streamer \in Sockets \cup {NoSocket} /\ sockets \in [Sockets -> Socket]
      /\ subscribed \in Pairing /\ requests \in Pairing
      /\ svc \in [pc : SvcPlaces, send : Pairing, drop : SUBSET Pairs]
      /\ LoneInv /\ BareInv /\ WakeInv
  BY DEF IInv, SocketInv
<1>2. /\ UNCHANGED <<feed, streamer, sockets, subscribed, svc>>
      /\ force' = force \/ force'
      /\ requests' = requests \/ requests' \in RequestSets
  BY DEF WatchStep, WatchdogStops, WatchdogChecks, WatchdogForces, WorldStep, FrameArrives,
         FeedFallsSilent, SessionChanges, RequestsChange, vars
<1>3. RequestSets \subseteq Pairing
  BY FeedClientAssumption DEF Pairing, Pairs
<1>4. Alive' = Alive
  BY <1>2 DEF Alive
<1>5. SocketInv'
  BY <1>1, <1>2, <1>3 DEF SocketInv
<1>6. LoneInv' /\ BareInv'
  BY <1>1, <1>2, <1>4 DEF LoneInv, BareInv
<1>7. WakeInv'
  BY <1>1, <1>2, <1>4 DEF WakeInv
<1> QED
  BY <1>5, <1>6, <1>7

-------------------------------------------------------------------------------
(* The register of outages.                                                *)

(* An insert stores the id of an open row, unless the write fails.         *)
LEMMA InsertEffect ==
    ASSUME GapInv, InsertGap
    PROVE  /\ openGaps' \subseteq 1..MaxGaps /\ gapId' \in 0..MaxGaps
           /\ gapId' # 0 => gapId' \in openGaps'
           /\ ~GapsMayFail => gapId' # 0
<1>1. FreshGap \in 1..MaxGaps
  BY FreshGapType
<1>2. FreshGap \in 0..MaxGaps /\ FreshGap # 0 /\ 0 \in 0..MaxGaps
  BY <1>1, FeedClientAssumption
<1> QED
  BY <1>1, <1>2 DEF InsertGap, GapInv

LEMMA GapEffect ==
    ASSUME IInv, [Next]_vars
    PROVE  GapInv'
<1> USE DEF connection, gaps, world
<1>1. /\ openGaps \subseteq 1..MaxGaps /\ gapId \in 0..MaxGaps /\ 0 \in 0..MaxGaps
      /\ ~stop /\ ~GapsMayFail /\ gapId # 0 => gapId \in openGaps \/ feed = "resetgap"
      /\ state = "BACKING_OFF" /\ ~stop => feed = "loop" /\ (~GapsMayFail => gapId # 0)
      /\ GapInv /\ (svc.pc \in {"endgap", "resetgap", "disconnect"} => stop)
  BY FeedClientAssumption DEF IInv, GapInv, StopInv
<1>2. CASE RecordGap \/ WatchdogForces
  <2>1. /\ openGaps' \subseteq 1..MaxGaps /\ gapId' \in 0..MaxGaps
        /\ gapId' # 0 => gapId' \in openGaps'
        /\ ~GapsMayFail => gapId' # 0
    BY <1>1, <1>2, InsertEffect DEF RecordGap, WatchdogForces
  <2>2. /\ stop' = stop
        /\ \/ feed' = "loop"
           \/ feed' = feed /\ state' = state
    BY <1>2 DEF RecordGap, WatchdogForces
  <2> QED
    BY <1>1, <2>1, <2>2 DEF GapInv
<1>3. CASE EndGap \/ ForgetGap
  <2>1. stop' = stop /\ state' = state /\ feed # "loop"
    BY <1>3 DEF EndGap, ForgetGap, At
  <2>2. /\ openGaps' \subseteq openGaps
        /\ gapId' = 0 \/ (gapId' = gapId /\ feed' = "resetgap")
    BY <1>3 DEF EndGap, UpdateGap, ForgetGap, ResetGap
  <2> QED
    BY <1>1, <2>1, <2>2 DEF GapInv
<1>4. CASE StopEndsGap \/ StopForgetsGap
  <2>1. stop' /\ openGaps' \subseteq openGaps /\ gapId' \in {0, gapId}
    BY <1>1, <1>4 DEF StopEndsGap, StopForgetsGap, UpdateGap, ResetGap
  <2> QED
    BY <1>1, <2>1 DEF GapInv
<1>5. CASE /\ UNCHANGED <<openGaps, gapId>>
           /\ stop' = stop \/ stop'
           /\ feed = "resetgap" => feed' = "resetgap"
           /\ \/ state' = state /\ (feed = "loop" /\ ~stop' => feed' = "loop")
              \/ state' # "BACKING_OFF"
              \/ stop'
              \/ feed' = "loop" /\ gapId # 0
  BY <1>1, <1>5 DEF GapInv
<1>6. CASE FeedStep
  <2>1. stop' = stop
    BY <1>6 DEF FeedStep, StopLoop, IdleOutsideSession, BeginConnect, ConnectFails, Dial, AwaitOpen,
                EndGap, ForgetGap, StartStreaming, WakeUp, LoseConnection, CheckGapToOpen, RecordGap
  <2>2. CASE StopLoop \/ IdleOutsideSession \/ BeginConnect \/ ConnectFails \/ Dial
    BY <1>5, <2>1, <2>2 DEF StopLoop, IdleOutsideSession, BeginConnect, ConnectFails, Dial, At
  <2>3. CASE AwaitOpen \/ StartStreaming \/ WakeUp \/ LoseConnection \/ CheckGapToOpen
    BY <1>5, <2>1, <2>3 DEF AwaitOpen, StartStreaming, WakeUp, LoseConnection, CheckGapToOpen, At
  <2> QED
    BY <1>2, <1>3, <1>6, <2>2, <2>3 DEF FeedStep
<1>7. ASSUME NEW s \in Sockets, SocketStep(s) \/ Break(s)
      PROVE  GapInv'
  BY <1>5, <1>7 DEF SocketStep, Handshake, OnOpen, OnError, OnClose, Break
<1>8. CASE WatchdogStops \/ WatchdogChecks \/ WorldStep \/ UNCHANGED vars
  BY <1>5, <1>8 DEF WatchdogStops, WatchdogChecks, WorldStep, FrameArrives, FeedFallsSilent,
                    SessionChanges, RequestsChange, vars
<1>9. CASE Reconcile \/ ReadDesired \/ SendNext \/ DropStale \/ SendFails \/ BeginStop
  BY <1>5, <1>9 DEF Reconcile, ReadDesired, SendNext, DropStale, SendFails, BeginStop
<1>10. CASE StopDisconnects
  <2>1. UNCHANGED <<openGaps, gapId, feed>> /\ stop' = stop /\ stop
    BY <1>1, <1>10 DEF StopDisconnects
  <2> QED
    BY <1>5, <2>1
<1> QED
  BY <1>2, <1>4, <1>6, <1>7, <1>8, <1>9, <1>10 DEF Next, WatchStep, SvcStep

(* Nothing takes a stop back, and the feed thread only clears the event on *)
(* its way to see it.                                                      *)
LEMMA StopEffect ==
    ASSUME IInv, [Next]_vars
    PROVE  StopInv'
<1> USE DEF connection, gaps, world
<1>1. /\ svc.pc \in {"disconnect", "endgap", "resetgap", "stopped"} => stop
      /\ stop => force \/ feed \in {"lost", "done"}
      /\ svc \in [pc : SvcPlaces, send : Pairing, drop : SUBSET Pairs]
  BY DEF IInv, StopInv, SocketInv
<1>2. CASE FeedStep
  <2>1. stop' = stop /\ svc' = svc
    BY <1>2 DEF FeedStep, StopLoop, IdleOutsideSession, BeginConnect, ConnectFails, Dial, AwaitOpen,
                EndGap, ForgetGap, StartStreaming, WakeUp, LoseConnection, CheckGapToOpen, RecordGap
  <2>2. \/ feed' \in {"lost", "done"}
        \/ force' = force /\ (stop => feed \notin {"lost", "done"})
    BY <1>2 DEF FeedStep, StopLoop, IdleOutsideSession, BeginConnect, ConnectFails, Dial, AwaitOpen,
                EndGap, ForgetGap, StartStreaming, WakeUp, LoseConnection, CheckGapToOpen, RecordGap, At
  <2> QED
    BY <1>1, <2>1, <2>2 DEF StopInv
<1>3. CASE BeginStop
  BY <1>3 DEF BeginStop, StopInv
<1>4. CASE SvcStep \/ SendFails
  <2>1. UNCHANGED <<stop, force, feed>>
    BY <1>4 DEF SvcStep, Reconcile, ReadDesired, SendNext, DropStale, SendFails,
                StopDisconnects, StopEndsGap, StopForgetsGap
  <2>2. svc'.pc \in {"idle", "read", "send"} \/ stop
    BY <1>1, <1>4 DEF SvcStep, Reconcile, ReadDesired, SendNext, DropStale, SendFails, Pending, IdleSvc,
                      StopDisconnects, StopEndsGap, StopForgetsGap, Stopped
  <2> QED
    BY <1>1, <2>1, <2>2 DEF StopInv
<1>5. CASE UNCHANGED <<stop, feed, svc>> /\ (force' = force \/ force')
  BY <1>1, <1>5 DEF StopInv
<1>6. ASSUME NEW s \in Sockets, SocketStep(s) \/ Break(s)
      PROVE  StopInv'
  BY <1>5, <1>6 DEF SocketStep, Handshake, OnOpen, OnError, OnClose, Break
<1>7. CASE WatchStep \/ WorldStep \/ UNCHANGED vars
  BY <1>5, <1>7 DEF WatchStep, WatchdogStops, WatchdogChecks, WatchdogForces, WorldStep, FrameArrives,
                    FeedFallsSilent, SessionChanges, RequestsChange, vars
<1> QED
  BY <1>2, <1>3, <1>4, <1>6, <1>7 DEF Next

LEMMA CrossedEffect ==
    ASSUME crossed \in BOOLEAN, [Next]_vars
    PROVE  crossed' \in BOOLEAN
<1> USE DEF connection
<1>1. CASE FeedStep
  <2>1. crossed' = crossed \/ crossed' = FALSE
    BY <1>1 DEF FeedStep, StopLoop, IdleOutsideSession, BeginConnect, ConnectFails, Dial, AwaitOpen,
                EndGap, ForgetGap, StartStreaming, WakeUp, LoseConnection, CheckGapToOpen, RecordGap,
                DisconnectStreamer
  <2> QED
    BY <2>1
<1>2. ASSUME NEW s \in Sockets, SocketStep(s) \/ Break(s)
      PROVE  crossed' \in BOOLEAN
  <2>1. crossed' = crossed \/ crossed' = (crossed \/ s # streamer)
    BY <1>2, Zenon DEF SocketStep, Handshake, OnOpen, OnError, OnClose, Break
  <2> QED
    BY <2>1
<1>3. CASE SvcStep \/ SendFails \/ BeginStop
  <2>1. crossed' = crossed \/ crossed' = FALSE \/ crossed' = Crosses
    BY <1>3 DEF SvcStep, Reconcile, ReadDesired, SendNext, DropStale, SendFails, BeginStop,
                StopDisconnects, DisconnectStreamer, StopEndsGap, StopForgetsGap
  <2> QED
    BY <2>1 DEF Crosses
<1>4. CASE WatchStep \/ WorldStep \/ UNCHANGED vars
  BY <1>4 DEF WatchStep, WatchdogStops, WatchdogChecks, WatchdogForces, WorldStep, FrameArrives,
              FeedFallsSilent, SessionChanges, RequestsChange, vars
<1> QED
  BY <1>1, <1>2, <1>3, <1>4 DEF Next

LEMMA PlainEffect ==
    ASSUME IInv, [Next]_vars
    PROVE  PlainInv'
<1> USE DEF connection, gaps, world
<1>1. /\ feed \in FeedPlaces /\ state \in States
      /\ stop \in BOOLEAN /\ force \in BOOLEAN /\ opened \in BOOLEAN /\ market \in BOOLEAN
      /\ watch \in {"check", "newgap", "done"} /\ wire \in {"never", "fresh", "stale"}
      /\ events \in 0..MaxEvents /\ MaxEvents \in Nat
      /\ crossed' \in BOOLEAN
  <2>1. crossed \in BOOLEAN
    BY DEF IInv, PlainInv
  <2> QED
    BY <2>1, FeedClientAssumption, CrossedEffect DEF IInv, PlainInv
<1>2. CASE FeedStep
  <2>1. feed' \in FeedPlaces
    BY <1>1, <1>2 DEF FeedStep, StopLoop, IdleOutsideSession, BeginConnect, ConnectFails, Dial, AwaitOpen,
                EndGap, ForgetGap, StartStreaming, WakeUp, LoseConnection, CheckGapToOpen, RecordGap,
                FeedPlaces
  <2>2. state' \in States
    BY <1>1, <1>2 DEF FeedStep, StopLoop, IdleOutsideSession, BeginConnect, ConnectFails, Dial, AwaitOpen,
                EndGap, ForgetGap, StartStreaming, WakeUp, LoseConnection, CheckGapToOpen, RecordGap,
                States
  <2>3. /\ UNCHANGED <<stop, market, watch, wire, events>>
        /\ force' = force \/ force' = FALSE
        /\ opened' = opened \/ opened' = FALSE
    BY <1>2 DEF FeedStep, StopLoop, IdleOutsideSession, BeginConnect, ConnectFails, Dial, AwaitOpen,
                EndGap, ForgetGap, StartStreaming, WakeUp, LoseConnection, DisconnectStreamer,
                CheckGapToOpen, RecordGap
  <2> QED
    BY <1>1, <2>1, <2>2, <2>3, Zenon DEF PlainInv
<1>3. CASE \E s \in Sockets : SocketStep(s) \/ Break(s)
  <2>1. /\ UNCHANGED <<feed, state, stop, market, watch, wire>>
        /\ force' = force \/ force' = TRUE
        /\ opened' = opened \/ opened' = TRUE
        /\ events' = events \/ Happens
    BY <1>3 DEF SocketStep, Handshake, OnOpen, OnError, OnClose, Break
  <2>2. events' \in 0..MaxEvents
    BY <1>1, <2>1 DEF Happens
  <2> QED
    BY <1>1, <2>1, <2>2, Zenon DEF PlainInv
<1>4. CASE WatchStep \/ WorldStep \/ UNCHANGED vars
  <2>1. /\ UNCHANGED <<feed, state, stop, opened>>
        /\ force' = force \/ force' = TRUE
        /\ market' = market \/ market' = ~market
        /\ events' = events \/ Happens
    BY <1>4 DEF WatchStep, WatchdogStops, WatchdogChecks, WatchdogForces, WorldStep, FrameArrives,
         FeedFallsSilent, SessionChanges, RequestsChange, vars
  <2>2. events' \in 0..MaxEvents
    BY <1>1, <2>1 DEF Happens
  <2>3. watch' \in {"check", "newgap", "done"} /\ wire' \in {"never", "fresh", "stale"}
    BY <1>1, <1>4 DEF WatchStep, WatchdogStops, WatchdogChecks, WatchdogForces, WorldStep, FrameArrives,
         FeedFallsSilent, SessionChanges, RequestsChange, vars
  <2> QED
    BY <1>1, <2>1, <2>2, <2>3, Zenon DEF PlainInv
<1>5. CASE SvcStep \/ SendFails \/ BeginStop
  <2>1. /\ UNCHANGED <<feed, market, watch, wire>>
        /\ stop' = stop \/ stop' = TRUE
        /\ force' = force \/ force' = TRUE
        /\ opened' = opened \/ opened' = FALSE
        /\ state' = state \/ state' = "STOPPED"
        /\ events' = events \/ Happens
    BY <1>5 DEF SvcStep, Reconcile, ReadDesired, SendNext, DropStale, SendFails, BeginStop,
                StopDisconnects, DisconnectStreamer, StopEndsGap, StopForgetsGap, Stopped
  <2>2. events' \in 0..MaxEvents
    BY <1>1, <2>1 DEF Happens
  <2> QED
    BY <1>1, <2>1, <2>2, Zenon DEF PlainInv, States
<1> QED
  BY <1>2, <1>3, <1>4, <1>5 DEF Next

-------------------------------------------------------------------------------
(* Every behaviour keeps the invariant.                                    *)
THEOREM Invariance == Spec => []IInv
<1>1. Init => IInv
  BY InitInvariant
<1>2. ASSUME IInv, [Next]_vars PROVE IInv'
  <2>1. SocketInv' /\ LoneInv' /\ BareInv' /\ WakeInv'
    BY <1>2, FeedEffect, SocketEffect, SvcEffect, OtherEffect DEF Next
  <2> QED
    BY <1>2, <2>1, GapEffect, StopEffect, PlainEffect DEF IInv
<1> QED
  BY <1>1, <1>2, PTL DEF Spec

(* The variables keep their types; each instrument stays subscribed, and   *)
(* carried, in one mode (_on_open, reconcile).                             *)
THEOREM TypeCorrect == Spec => []TypeOK
<1>1. IInv => TypeOK
  <2> SUFFICES ASSUME IInv PROVE TypeOK
    OBVIOUS
  <2>1. {stop, force, opened, crossed, market} \subseteq BOOLEAN
    BY Zenon DEF IInv, PlainInv
  <2>2. Cardinality(Keys(subscribed)) = Cardinality(subscribed)
    BY OneKeyEach DEF IInv, SocketInv
  <2>3. ASSUME NEW s \in Sockets
        PROVE  /\ sockets[s].net \in {"dead", "dialing", "open"}
               /\ sockets[s].calls \subseteq {"open", "error", "close"}
               /\ Cardinality(Keys(sockets[s].carries)) = Cardinality(sockets[s].carries)
    <3>1. sockets[s] \in Socket
      BY DEF IInv, SocketInv
    <3>2. sockets[s].carries \in Pairing
      BY <3>1 DEF Socket
    <3> QED
      BY <3>1, <3>2, OneKeyEach DEF Socket
  <2>4. /\ streamer \in Sockets \cup {NoSocket}
        /\ openGaps \subseteq 1..MaxGaps /\ gapId \in 0..MaxGaps
        /\ svc.pc \in SvcPlaces
        /\ feed \in FeedPlaces /\ state \in States
        /\ watch \in {"check", "newgap", "done"} /\ wire \in {"never", "fresh", "stale"}
        /\ events \in 0..MaxEvents
    BY DEF IInv, PlainInv, SocketInv, GapInv
  <2> QED
    BY <2>1, <2>2, <2>3, <2>4, Zenon DEF TypeOK, SvcPlaces, FeedPlaces, States
<1> QED
  BY <1>1, Invariance, PTL

(* The client never has a second socket, stopped or not (client.py:3):     *)
(* every path that dials has disconnected before.                          *)
THEOREM AtMostOneSocket == Spec => []OneConnection
<1>1. IInv => OneConnection
  <2> SUFFICES ASSUME IInv PROVE Cardinality(Alive) <= 1
    BY DEF OneConnection
  <2>1. Alive = {} \/ Alive = {streamer}
    BY DEF IInv, LoneInv
  <2>2. Cardinality(Alive) \in {0, 1}
    <3>1. Cardinality({}) = 0 /\ Cardinality({streamer}) = 1
      BY FS_EmptySet, FS_Singleton, Zenon
    <3> QED
      BY <2>1, <3>1
  <2> QED
    BY <2>2
<1> QED
  BY <1>1, Invariance, PTL

(* A client that backs off has an open row for the outage, whichever       *)
(* thread opened it (client.py:6).                                         *)
THEOREM OutagesRecorded == Spec => []OutageIsRecorded
<1>1. IInv => OutageIsRecorded
  BY DEF IInv, GapInv, OutageIsRecorded
<1> QED
  BY <1>1, Invariance, PTL

(* The feed thread never sleeps on a lost connection that nobody will wake *)
(* it from (_on_error, _on_close, stop).                                   *)
THEOREM WakeUpsArrive == Spec => []NoLostWakeUp
<1>1. IInv => NoLostWakeUp
  BY DEF IInv, WakeInv, NoLostWakeUp, Connected, At
<1> QED
  BY <1>1, Invariance, PTL

===============================================================================
