-------------------------- MODULE OrderBookPregel --------------------------
(***************************************************************************)
(* The order-book programs keep to the Pregel model: OrderBook implements  *)
(* PregelBSP, for every graph with the builder's edges.  And what that     *)
(* gives the programs: nobody is left without mail, an order's idle count  *)
(* is exact although a halted vertex does not count, and an order decides  *)
(* on the quote of two supersteps ago.                                     *)
(***************************************************************************)
EXTENDS OrderBookProofs

\* A vertex has its task until it has computed; the ones without are halted
\* and have no mail.
TaskInv ==
  /\ phase = "build" => todo = {} /\ computed = {}
  /\ phase = "compute" =>
       /\ todo \cap computed = {}
       /\ \A v \in todo : ~halted[v]
       /\ \A v \in Vertices \ (todo \cup computed) : halted[v] /\ MailOf(v) = {}

\* An outbox holds messages of the vertex whose turn it is, along its edges.
OutboxInv ==
  \A m \in outbox :
    Turn(m.src) /\ m.dst \in Targets(m.src, AllTypes) /\ m.step = superstep

PregelInv == Inv /\ TaskInv /\ OutboxInv

\* The messages compute() sends after its loop.
SentAfterLoop(v, msgs) ==
  \A m \in msgs : m.src = v /\ m.dst \in Targets(v, AllTypes) /\ m.step = superstep

----------------------------------------------------------------------------
(* Lemmas about headers, targets and turns *)

\* The header of a message is its source, destination and superstep.
LEMMA HeaderFields ==
  ASSUME NEW S, NEW h
  PROVE  h \in Headers(S) <=>
           \E m \in S : h = [src |-> m.src, dst |-> m.dst, step |-> m.step]
  BY DEF Headers

\* Headers of a union.
LEMMA HeadersUnion ==
  ASSUME NEW S, NEW T
  PROVE  Headers(S \cup T) = Headers(S) \cup Headers(T)
  BY DEF Headers

\* Receiving the mail of a vertex is receiving the headers with its id.
LEMMA HeadersMail ==
  ASSUME NEW v
  PROVE  /\ Bsp!MailOf(v) = Headers(MailOf(v))
         /\ Headers(mail) \ Bsp!MailOf(v) = Headers(mail \ MailOf(v))
         /\ Bsp!MailOf(v) = {} <=> MailOf(v) = {}
<1>1. Bsp!MailOf(v) = {h \in Headers(mail) : h.dst = v}
  BY DEF Bsp!MailOf
<1>2. \A m : [src |-> m.src, dst |-> m.dst, step |-> m.step].dst = m.dst
  OBVIOUS
<1>3. Bsp!MailOf(v) = Headers(MailOf(v))
  BY <1>1, <1>2 DEF Headers, MailOf
<1>4. Headers(mail) \ Bsp!MailOf(v) = Headers(mail \ MailOf(v))
  BY <1>1, <1>2 DEF Headers, MailOf
<1>5. Headers(MailOf(v)) = {} <=> MailOf(v) = {}
  BY DEF Headers
<1> QED
  BY <1>3, <1>4, <1>5

\* A vertex sends along some of its edges.
LEMMA HeadersSent ==
  ASSUME NEW v, NEW S, \A m \in S : m.src = v /\ m.dst \in Targets(v, AllTypes)
                                    /\ m.step = superstep
  PROVE  \E D \in SUBSET Targets(v, AllTypes) :
           Headers(S) = {[src |-> v, dst |-> d, step |-> superstep] : d \in D}
<1> DEFINE D == {m.dst : m \in S}
<1>1. D \in SUBSET Targets(v, AllTypes)
  OBVIOUS
<1>2. Headers(S) = {[src |-> v, dst |-> d, step |-> superstep] : d \in D}
  BY DEF Headers
<1> QED
  BY <1>1, <1>2

\* Edges of one type are edges.
LEMMA TargetsOfType ==
  ASSUME NEW v, NEW types, types \subseteq AllTypes
  PROVE  Targets(v, types) \subseteq Targets(v, AllTypes)
  BY DEF Targets

\* It is one vertex's turn at a time.
LEMMA OneTurn ==
  ASSUME EngineOK, NEW u, NEW v, Turn(u), Turn(v)
  PROVE  u = v
<1>1. u \in Nat /\ v \in Nat /\ u <= v /\ v <= u
  BY VertexAssumption DEF EngineOK, Turn
<1> QED
  BY <1>1

----------------------------------------------------------------------------
(* The steps of a vertex *)

\* The loop over the inbox is no step of the Pregel model.
LEMMA ReceiveStutters ==
  ASSUME PregelInv, NEW v \in Vertices, NEW m, Receive(v, m),
         NEW msgs, outbox' = outbox \cup msgs, SentAfterLoop(v, msgs)
  PROVE  TaskInv' /\ OutboxInv' /\ UNCHANGED Bsp!bspVars
<1>1. UNCHANGED <<superstep, phase, todo, mail, sent, halted, computed>> /\ Turn(v)
  BY DEF Receive
<1>2. \A u : MailOf(u)' = MailOf(u) /\ (Turn(u)' <=> Turn(u))
  BY <1>1 DEF MailOf, Turn
<1>3. TaskInv'
  BY <1>1, <1>2 DEF PregelInv, TaskInv
<1>4. OutboxInv'
  BY <1>1, <1>2 DEF PregelInv, OutboxInv, SentAfterLoop
<1>5. Headers(mail)' = Headers(mail) /\ Headers(sent)' = Headers(sent)
  BY <1>1 DEF Headers
<1> QED
  BY <1>1, <1>3, <1>4, <1>5 DEF Bsp!bspVars

\* The return of compute() is the vertex's step of the Pregel model: it takes
\* all its mail, and what it has sent, in its loop and after, went along its
\* edges.
LEMMA ReturnComputes ==
  ASSUME PregelInv, NEW v \in Vertices, NEW halts \in BOOLEAN, NEW msgs,
         Return(v, halts, msgs), SentAfterLoop(v, msgs)
  PROVE  TaskInv' /\ OutboxInv' /\ Bsp!Compute(v)
<1>0. Inv /\ EngineOK /\ TaskInv /\ OutboxInv
  BY DEF PregelInv, Inv
<1>1. /\ Turn(v) /\ phase = "compute" /\ v \in todo
      /\ UNCHANGED <<superstep, phase>> /\ outbox' = {}
      /\ todo' = todo \ {v} /\ computed' = computed \cup {v}
      /\ mail' = mail \ MailOf(v) /\ sent' = sent \cup (outbox \cup msgs)
      /\ halted' = [halted EXCEPT ![v] = halted[v] \/ halts]
  BY DEF Return, Turn
<1>2. OutboxInv'
  BY <1>1 DEF OutboxInv
<1>3. TaskInv'
  <2>1. \A u \in Vertices \ {v} : halted'[u] = halted[u]
    BY <1>0, <1>1 DEF EngineOK
  <2>2. \A u : MailOf(u)' \subseteq MailOf(u)
    BY <1>1 DEF MailOf
  <2>3. todo' \cap computed' = {} /\ \A u \in todo' : u \in todo /\ u # v
    BY <1>0, <1>1 DEF TaskInv
  <2>4. \A u \in todo' : ~halted'[u]
    BY <1>0, <1>1, <2>1, <2>3 DEF TaskInv, EngineOK
  <2>5. ASSUME NEW u \in Vertices \ (todo' \cup computed')
        PROVE  halted'[u] /\ MailOf(u)' = {}
    <3>1. u # v /\ u \in Vertices \ (todo \cup computed)
      BY <1>1
    <3>2. halted[u] /\ MailOf(u) = {}
      BY <1>0, <1>1, <3>1 DEF TaskInv
    <3> QED
      BY <2>1, <2>2, <3>1, <3>2
  <2> QED
    BY <1>1, <2>3, <2>4, <2>5 DEF TaskInv
<1>4. v \notin computed /\ ~halted[v]
  BY <1>0, <1>1 DEF TaskInv
<1>5. Headers(mail)' = Headers(mail) \ Bsp!MailOf(v)
  <2>1. Headers(mail)' = Headers(mail \ MailOf(v))
    BY <1>1 DEF Headers
  <2> QED
    BY <2>1, HeadersMail
<1>6. \E D \in SUBSET Targets(v, AllTypes) :
        Headers(sent)' = Headers(sent) \cup
          {[src |-> v, dst |-> d, step |-> superstep] : d \in D}
  <2>1. \A m \in outbox \cup msgs :
          m.src = v /\ m.dst \in Targets(v, AllTypes) /\ m.step = superstep
    <3>1. ASSUME NEW m \in outbox
          PROVE  m.src = v /\ m.dst \in Targets(v, AllTypes) /\ m.step = superstep
      <4>1. Turn(m.src) /\ m.dst \in Targets(m.src, AllTypes) /\ m.step = superstep
        BY <1>0 DEF OutboxInv
      <4>2. m.src = v
        BY <1>0, <1>1, <4>1, OneTurn
      <4> QED
        BY <4>1, <4>2
    <3> QED
      BY <3>1 DEF SentAfterLoop
  <2>2. PICK D \in SUBSET Targets(v, AllTypes) :
          Headers(outbox \cup msgs) = {[src |-> v, dst |-> d, step |-> superstep] : d \in D}
    BY <2>1, HeadersSent
  <2>3. Headers(sent)' = Headers(sent \cup (outbox \cup msgs))
    BY <1>1 DEF Headers
  <2>4. Headers(sent)' = Headers(sent) \cup Headers(outbox \cup msgs)
    BY <2>3, HeadersUnion
  <2> QED
    BY <2>2, <2>4
<1>7. \E h \in BOOLEAN : halted' = [halted EXCEPT ![v] = h]
  BY <1>1, Zenon
<1>8. [u \in Vertices |-> Targets(u, AllTypes)][v] = Targets(v, AllTypes)
  OBVIOUS
<1>9. Bsp!Compute(v)
  BY <1>1, <1>4, <1>5, <1>6, <1>7, <1>8 DEF Bsp!Compute
<1> QED
  BY <1>2, <1>3, <1>9

\* send_message() along the edges of a vertex.
LEMMA MessagesAlongEdges ==
  ASSUME NEW v, NEW types, types \subseteq AllTypes, NEW body
  PROVE  SentAfterLoop(v, {}) /\ SentAfterLoop(v, Messages(v, Targets(v, types), body))
  BY MessagesSent, TargetsOfType DEF SentAfterLoop

\* What a step of vertex v is in the Pregel model.
PregelStep(v) == TaskInv' /\ OutboxInv' /\ (Bsp!Compute(v) \/ UNCHANGED Bsp!bspVars)

\* OrderVertex::compute().
LEMMA OrderStepPregel ==
  ASSUME PregelInv, NEW o \in Orders, OrderStep(o)
  PROVE  PregelStep(o)
<1>0. o \in Vertices /\ AllTypes \subseteq AllTypes
  BY DEF Vertices
<1>1. CASE \E m \in mail : ReceiveOrder(o, m)
  <2>1. PICK m \in mail : ReceiveOrder(o, m)
    BY <1>1
  <2>2. Receive(o, m) /\ outbox' = outbox \cup {} /\ SentAfterLoop(o, {})
    BY <2>1 DEF ReceiveOrder, SentAfterLoop
  <2> QED
    BY <1>0, <2>2, ReceiveStutters DEF PregelStep
<1>2. CASE ReturnOrder(o)
  <2> DEFINE offers == order[o].active /\ Marketable(o)
             idle   == IdleAfter(o, offers)
             msgs   == IF offers THEN Offer(o) ELSE {}
             halts  == ~order[o].active \/ TooIdle(idle)
  <2>1. Return(o, halts, msgs) /\ halts \in BOOLEAN
    BY <1>2 DEF ReturnOrder
  <2>2. SentAfterLoop(o, msgs)
    BY <1>0, MessagesAlongEdges DEF Offer
  <2> HIDE DEF halts, msgs
  <2> QED
    BY <1>0, <2>1, <2>2, ReturnComputes DEF PregelStep
<1> QED
  BY <1>1, <1>2 DEF OrderStep

\* PriceLevelVertex::compute(), which sends in its loop.
LEMMA LevelStepPregel ==
  ASSUME PregelInv, NEW l \in Levels, LevelStep(l)
  PROVE  PregelStep(l)
<1>0. l \in Vertices /\ {1} \subseteq AllTypes /\ {2} \subseteq AllTypes
  BY DEF Vertices, AllTypes
<1>1. CASE \E m \in mail : ReceiveLevel(l, m)
  <2>1. PICK m \in mail : ReceiveLevel(l, m)
    BY <1>1
  <2> DEFINE msgs == IF IsUpdate(m) THEN Forward(l, m) ELSE {}
  <2>2. Receive(l, m) /\ outbox' = outbox \cup msgs
    BY <2>1 DEF ReceiveLevel
  <2>3. SentAfterLoop(l, msgs)
    BY <1>0, MessagesAlongEdges DEF Forward
  <2> HIDE DEF msgs
  <2> QED
    BY <1>0, <2>2, <2>3, ReceiveStutters DEF PregelStep
<1>2. CASE ReturnLevel(l)
  <2> DEFINE msgs  == IF level[l].total # level[l].prev
                        THEN Messages(l, Targets(l, {2}), OwnUpdate(l)) ELSE {}
             halts == level[l].total = 0 /\ MailOf(l) = {}
  <2>1. Return(l, halts, msgs) /\ halts \in BOOLEAN
    BY <1>2 DEF ReturnLevel
  <2>2. SentAfterLoop(l, msgs)
    BY <1>0, MessagesAlongEdges
  <2> HIDE DEF halts, msgs
  <2> QED
    BY <1>0, <2>1, <2>2, ReturnComputes DEF PregelStep
<1> QED
  BY <1>1, <1>2 DEF LevelStep

\* VenueVertex::compute().
LEMMA VenueStepPregel ==
  ASSUME PregelInv, NEW v \in Venues, VenueStep(v)
  PROVE  PregelStep(v)
<1>0. v \in Vertices /\ AllTypes \subseteq AllTypes
  BY DEF Vertices
<1>1. CASE \E m \in mail : ReceiveVenue(v, m)
  <2>1. PICK m \in mail : ReceiveVenue(v, m)
    BY <1>1
  <2>2. Receive(v, m) /\ outbox' = outbox \cup {} /\ SentAfterLoop(v, {})
    BY <2>1 DEF ReceiveVenue, SentAfterLoop
  <2> QED
    BY <1>0, <2>2, ReceiveStutters DEF PregelStep
<1>2. CASE ReturnVenue(v)
  <2>1. PICK n \in Noise :
          Return(v, FALSE, Messages(v, Targets(v, AllTypes),
                                    Nbbo(Requoted(venue[v], Mid(v) + n))))
    BY <1>2 DEF ReturnVenue
  <2> QED
    BY <1>0, <2>1, MessagesAlongEdges, ReturnComputes DEF PregelStep
<1> QED
  BY <1>1, <1>2 DEF VenueStep

\* MarketMakerVertex::compute().
LEMMA MakerStepPregel ==
  ASSUME PregelInv, NEW k \in Makers, MakerStep(k)
  PROVE  PregelStep(k)
<1>0. k \in Vertices /\ AllTypes \subseteq AllTypes
  BY DEF Vertices
<1>1. CASE \E m \in mail : ReceiveMaker(k, m)
  <2>1. PICK m \in mail : ReceiveMaker(k, m)
    BY <1>1
  <2>2. Receive(k, m) /\ outbox' = outbox \cup {} /\ SentAfterLoop(k, {})
    BY <2>1 DEF ReceiveMaker, SentAfterLoop
  <2> QED
    BY <1>0, <2>2, ReceiveStutters DEF PregelStep
<1>2. CASE ReturnMaker(k)
  <2> DEFINE halts == OverLimit(maker[k].position) \/ (MailOf(k) = {} /\ Signal(k) = {})
  <2>1. Return(k, halts, Signal(k)) /\ halts \in BOOLEAN
    BY <1>2 DEF ReturnMaker, OverLimit
  <2>2. SentAfterLoop(k, Signal(k))
    BY <1>0, MessagesAlongEdges DEF Signal
  <2> HIDE DEF halts
  <2> QED
    BY <1>0, <2>1, <2>2, ReturnComputes DEF PregelStep
<1> QED
  BY <1>1, <1>2 DEF MakerStep

----------------------------------------------------------------------------
(* The superstep loop and the refinement *)

\* Building the tasks wakes the halted vertices with mail.
LEMMA BuildWakes ==
  ASSUME PregelInv, Build
  PROVE  TaskInv' /\ OutboxInv' /\ \E S \in SUBSET Bsp!Wakeable : Bsp!Wake(S)
<1>0. EngineOK /\ TaskInv /\ OutboxInv
  BY DEF PregelInv, Inv
<1>1. /\ UNCHANGED <<superstep, mail, sent, computed, outbox>>
      /\ phase = "build" /\ phase' = "compute" /\ computed = {}
      /\ todo' = {v \in Vertices : ~halted[v]} \cup Woken
      /\ halted' = [v \in Vertices |-> halted[v] /\ v \notin Woken]
  BY <1>0 DEF Build, TaskInv
<1>2. outbox = {}
  BY <1>0, <1>1 DEF OutboxInv, Turn
<1>3. OutboxInv'
  BY <1>1, <1>2 DEF OutboxInv
<1>4. \A v : MailOf(v)' = MailOf(v)
  BY <1>1 DEF MailOf
<1>5. TaskInv'
  BY <1>0, <1>1, <1>4 DEF TaskInv, Woken, EngineOK
<1>6. Woken \in SUBSET Bsp!Wakeable
  BY <1>1, HeadersMail DEF Woken, Bsp!Wakeable
<1>7. Headers(mail)' = Headers(mail) /\ Headers(sent)' = Headers(sent)
  BY <1>1 DEF Headers
<1>8. Bsp!Wake(Woken)
  BY <1>1, <1>7 DEF Bsp!Wake
<1> QED
  BY <1>3, <1>5, <1>6, <1>8

\* The next superstep starts when every vertex that could compute has.
LEMMA NextSuperstepAdvances ==
  ASSUME PregelInv, NextSuperstep
  PROVE  TaskInv' /\ OutboxInv' /\ Bsp!Advance
<1>0. EngineOK /\ TaskInv /\ OutboxInv
  BY DEF PregelInv, Inv
<1>1. /\ phase = "compute" /\ todo = {} /\ phase' = "build"
      /\ superstep' = superstep + 1 /\ mail' = sent /\ sent' = {} /\ computed' = {}
      /\ UNCHANGED <<todo, outbox, halted>>
  BY DEF NextSuperstep, Barrier
<1>2. outbox = {}
  BY <1>0, <1>1 DEF OutboxInv, Turn
<1>3. TaskInv' /\ OutboxInv'
  BY <1>1, <1>2 DEF TaskInv, OutboxInv
<1>4. \A v \in Vertices \ computed : halted[v] /\ Bsp!MailOf(v) = {}
  BY <1>0, <1>1, HeadersMail DEF TaskInv
<1>5. Headers(mail)' = Headers(sent) /\ Headers(sent)' = {}
  BY <1>1 DEF Headers
<1> QED
  BY <1>1, <1>3, <1>4, <1>5 DEF Bsp!Advance

\* A step that changes nothing.
LEMMA StutterPregel ==
  ASSUME PregelInv, UNCHANGED vars
  PROVE  TaskInv' /\ OutboxInv' /\ UNCHANGED Bsp!bspVars
<1>1. UNCHANGED engine
  BY DEF vars
<1>2. TaskInv' /\ OutboxInv'
  BY <1>1 DEF engine, PregelInv, TaskInv, OutboxInv, Turn, MailOf
<1>3. Headers(mail)' = Headers(mail) /\ Headers(sent)' = Headers(sent)
  BY <1>1 DEF engine, Headers
<1> QED
  BY <1>1, <1>2, <1>3 DEF engine, Bsp!bspVars

\* Every step keeps the invariant and is a step of the Pregel model or none.
LEMMA NextPregel == PregelInv /\ [Next]_vars => PregelInv' /\ [Bsp!BspNext]_(Bsp!bspVars)
<1> SUFFICES ASSUME PregelInv, [Next]_vars
             PROVE  PregelInv' /\ [Bsp!BspNext]_(Bsp!bspVars)
  OBVIOUS
<1>1. Inv'
  BY NextInv DEF PregelInv
<1>2. TaskInv' /\ OutboxInv' /\ (Bsp!BspNext \/ UNCHANGED Bsp!bspVars)
  <2>1. \A v \in Vertices : PregelStep(v) =>
          TaskInv' /\ OutboxInv' /\ (Bsp!BspNext \/ UNCHANGED Bsp!bspVars)
    BY DEF PregelStep, Bsp!BspNext
  <2>2. CASE \/ \E o \in Orders : OrderStep(o)
             \/ \E l \in Levels : LevelStep(l)
             \/ \E v \in Venues : VenueStep(v)
             \/ \E k \in Makers : MakerStep(k)
    <3>1. PICK v \in Vertices : PregelStep(v)
      BY <2>2, OrderStepPregel, LevelStepPregel, VenueStepPregel, MakerStepPregel DEF Vertices
    <3> QED
      BY <2>1, <3>1
  <2>3. CASE Build
    BY <2>3, BuildWakes DEF Bsp!BspNext
  <2>4. CASE NextSuperstep
    BY <2>4, NextSuperstepAdvances DEF Bsp!BspNext
  <2>5. CASE UNCHANGED vars
    BY <2>5, StutterPregel
  <2>6. Done => UNCHANGED vars
    BY DEF Done
  <2> QED
    BY <2>2, <2>3, <2>4, <2>5, <2>6 DEF Next
<1> QED
  BY <1>1, <1>2 DEF PregelInv

\* The initial state is one of the Pregel model.
LEMMA InitPregel == Init => PregelInv /\ Bsp!BspInit
<1> SUFFICES ASSUME Init PROVE PregelInv /\ Bsp!BspInit
  OBVIOUS
<1>1. Inv
  BY InitInv
<1>2. TaskInv /\ OutboxInv
  BY DEF Init, TaskInv, OutboxInv
<1>3. Headers(mail) = {} /\ Headers(sent) = {}
  BY DEF Init, Headers
<1>4. Bsp!BspInit
  BY <1>3 DEF Init, Bsp!BspInit
<1> QED
  BY <1>1, <1>2, <1>4 DEF PregelInv

\* A vertex has its task until it computes, and its outbox is its own.
THEOREM PregelInvariance == Spec => []PregelInv
  BY InitPregel, NextPregel, PTL DEF Spec

\* The four vertex programs, run by the superstep loop on any graph of the
\* builder, implement the Pregel model: each active vertex computes once a
\* superstep, on all the messages of the superstep before and on no other,
\* and sends along its edges.
THEOREM PregelRefinement == Spec => ImplementsPregel
  BY InitPregel, NextPregel, PTL DEF Spec, ImplementsPregel, Bsp!BspSpec

----------------------------------------------------------------------------
(* What the mail of a superstep is: who has some, and whose quote it carries *)

\* Venue v quotes to order o, through a price level.
Feeds(v, o) == \E l \in Levels : l \in Targets(v, AllTypes) /\ o \in Targets(l, {1})

\* The quote venue v made k supersteps before this one.
Age(v)      == IF v \in computed THEN 1 ELSE 0
Quote(v, k) == quotes[v][k + Age(v)]

\* Nobody a venue quotes to is left without mail: venues never halt and quote
\* to all their levels and market makers; a level that has gone through an
\* update has it in its outbox for each of its orders.
WakeInv ==
  /\ \A v \in Venues : ~halted[v]
  /\ \A v \in Venues : v \in computed =>
       \A x \in Targets(v, AllTypes) : \E m \in sent : m.dst = x /\ IsUpdate(m)
  /\ \A m \in handled : m.dst \in Levels /\ IsUpdate(m) =>
       \A o \in Targets(m.dst, {1}) : \E n \in outbox : n.dst = o
  /\ superstep >= 1 => \A l \in Levels :
       /\ l \notin computed => \E m \in mail : m.dst = l /\ IsUpdate(m)
       /\ l \in computed => \A o \in Targets(l, {1}) : \E m \in sent : m.dst = o
  /\ superstep >= 2 => \A o \in Orders : o \notin computed => \E m \in mail : m.dst = o

\* An order computes in every superstep: awake until its idle limit, which is
\* beyond the two supersteps a first quote takes, and woken by mail from then on.
IdleInv ==
  /\ phase = "compute" => Orders \subseteq todo \cup computed
  /\ \A o \in Orders :
       /\ order[o].idle = superstep - last_offer[o] - (IF o \in computed THEN 0 ELSE 1)
       /\ phase = "build" \/ o \in computed => (halted[o] <=> order[o].idle > IdleLimit)

\* Quotes reach the levels after one superstep and the orders after two.
LengthInv ==
  /\ quotes \in [Venues -> Seq(UpdateBody)]
  /\ \A v \in Venues :
       Len(quotes[v]) = IF superstep + Age(v) < 3 THEN superstep + Age(v) ELSE 3
MailInv ==
  \A m \in mail :
    /\ m.dst \in Levels /\ IsUpdate(m) =>
         /\ superstep >= 1
         /\ \A v \in Venues : m.dst \in Targets(v, AllTypes) => m.body = Quote(v, 1)
    /\ m.dst \in Orders =>
         /\ superstep >= 2
         /\ \A v \in Venues : Feeds(v, m.dst) => m.body = Quote(v, 2)
SentInv ==
  /\ \A m \in outbox : m.dst \in Orders
  /\ \A m \in sent : m.dst \in Levels /\ IsUpdate(m) =>
       \A v \in Venues : m.dst \in Targets(v, AllTypes) => v \in computed /\ m.body = Quote(v, 0)
  /\ \A m \in sent \cup outbox : m.dst \in Orders =>
       /\ superstep >= 1
       /\ \A v \in Venues : Feeds(v, m.dst) => m.body = Quote(v, 1)
BestInv ==
  \A o \in Orders :
    (o \in computed /\ superstep >= 2) \/ (\E m \in handled : m.dst = o) =>
      \A v \in Venues : Feeds(v, o) => order[o].best = OwnSide(o, Quote(v, 2))

BookInv == PregelInv /\ WakeInv /\ IdleInv /\ LengthInv /\ MailInv /\ SentInv /\ BestInv

----------------------------------------------------------------------------
(* The steps of the four programs, as far as mail, idle times and quotes go *)

\* A turn of an inbox loop.
Loop(v, m) ==
  /\ Receive(v, m)
  /\ outbox' = outbox \cup (IF v \in Levels /\ IsUpdate(m) THEN Forward(v, m) ELSE {})
  /\ order' = IF v \in Orders THEN [order EXCEPT ![v].best = OwnSide(v, m.body)] ELSE order
  /\ UNCHANGED <<last_offer, quotes>>

\* A venue returns with a new quote.
Quoting(v, body) ==
  /\ Unhandled(v) = {}
  /\ Return(v, FALSE, Messages(v, Targets(v, AllTypes), body))
  /\ quotes' = [quotes EXCEPT ![v] =
                  SubSeq(<<body>> \o @, 1, IF Len(@) < 3 THEN Len(@) + 1 ELSE 3)]
  /\ UNCHANGED <<order, last_offer>>

\* What the return of an order does to its idle time.
IdleStep(o, halts, offers) ==
  /\ order' = [order EXCEPT ![o].idle = IdleAfter(o, offers)]
  /\ halts = TooIdle(IdleAfter(o, offers))
  /\ last_offer' = IF offers THEN [last_offer EXCEPT ![o] = superstep] ELSE last_offer

\* A level, an order or a market maker returns: what it sends after its loop
\* is no update of a level or an order.
Plain(v, halts, msgs) ==
  /\ Unhandled(v) = {}
  /\ Return(v, halts, msgs)
  /\ \A m \in msgs : m.dst \in Venues \/ (m.dst \in Levels /\ ~IsUpdate(m))
  /\ quotes' = quotes
  /\ IF v \in Orders THEN \E offers \in BOOLEAN : IdleStep(v, halts, offers)
                     ELSE UNCHANGED <<order, last_offer>>

\* OrderVertex: only updates reach an order, and it offers to levels.
LEMMA OrderForm ==
  ASSUME Inv, NEW o \in Orders, OrderStep(o)
  PROVE  (\E m \in mail : Loop(o, m)) \/ (\E h \in BOOLEAN : \E msgs : Plain(o, h, msgs))
<1>0. o \in Vertices /\ o \notin Levels /\ o \notin Venues
  BY VertexAssumption DEF Vertices
<1>1. order[o].active /\ order[o].filled = 0
  BY DEF Inv, OrderOK
<1>2. CASE \E m \in mail : ReceiveOrder(o, m)
  <2>1. PICK m \in mail : ReceiveOrder(o, m)
    BY <1>2
  <2>2. m.dst = o /\ Good(m)
    BY <2>1 DEF ReceiveOrder, Receive, Unhandled, MailOf, Inv, MessageInv, InTransit
  <2>3. IsUpdate(m)
    BY <1>0, <2>2 DEF Good, UpdateBody, IsUpdate
  <2>4. OrderAfter(o, m) = [order[o] EXCEPT !.best = OwnSide(o, m.body)]
    BY <2>3 DEF OrderAfter, IsUpdate, IsFill
  <2>5. Loop(o, m)
    BY <1>0, <2>1, <2>4 DEF ReceiveOrder, Loop, history
  <2> QED
    BY <2>5
<1>3. CASE ReturnOrder(o)
  <2> DEFINE offers == order[o].active /\ Marketable(o)
             idle   == IdleAfter(o, offers)
             msgs   == IF offers THEN Offer(o) ELSE {}
             halts  == ~order[o].active \/ TooIdle(idle)
  <2>1. Unhandled(o) = {} /\ Return(o, halts, msgs) /\ quotes' = quotes
    BY <1>1, <1>3 DEF ReturnOrder
  <2>2. halts \in BOOLEAN /\ offers \in BOOLEAN /\ halts = TooIdle(idle)
    BY <1>1 DEF TooIdle
  <2>3. /\ order' = [order EXCEPT ![o].idle = idle]
        /\ last_offer' = IF offers THEN [last_offer EXCEPT ![o] = superstep] ELSE last_offer
    BY <1>1, <1>3 DEF ReturnOrder
  <2>4. ASSUME NEW m \in msgs PROVE m.dst \in Levels /\ ~IsUpdate(m)
    <3>1. /\ m.dst \in Targets(o, AllTypes)
          /\ m.body = [type |-> "ORDER_FILL", price |-> Limit[o],
                       qty |-> Quantity[o] - order[o].filled]
      BY <2>4, MessagesSent DEF Offer
    <3> QED
      BY <1>0, <3>1, TargetsType DEF IsUpdate
  <2>5. IdleStep(o, halts, offers)
    BY <2>2, <2>3 DEF IdleStep
  <2> HIDE DEF offers, halts, msgs
  <2>6. Plain(o, halts, msgs)
    BY <2>1, <2>2, <2>4, <2>5 DEF Plain
  <2> QED
    BY <2>2, <2>6
<1> QED
  BY <1>2, <1>3 DEF OrderStep

\* PriceLevelVertex: updates go on to the orders in the loop; after it the level
\* only writes to its venue.
LEMMA LevelForm ==
  ASSUME Inv, NEW l \in Levels, LevelStep(l)
  PROVE  (\E m \in mail : Loop(l, m)) \/ (\E h \in BOOLEAN : \E msgs : Plain(l, h, msgs))
<1>0. l \in Vertices /\ l \notin Orders /\ l \notin Venues
  BY VertexAssumption DEF Vertices
<1>1. CASE \E m \in mail : ReceiveLevel(l, m)
  BY <1>0, <1>1 DEF ReceiveLevel, Loop
<1>2. CASE ReturnLevel(l)
  <2> DEFINE msgs  == IF level[l].total # level[l].prev
                        THEN Messages(l, Targets(l, {2}), OwnUpdate(l)) ELSE {}
             halts == level[l].total = 0 /\ MailOf(l) = {}
  <2>1. Return(l, halts, msgs) /\ Unhandled(l) = {} /\ UNCHANGED <<order, last_offer, quotes>>
    BY <1>2 DEF ReturnLevel, history
  <2>2. \A m \in msgs : m.dst \in Venues
    BY <1>0, MessagesSent, TargetsType
  <2>3. halts \in BOOLEAN
    OBVIOUS
  <2> HIDE DEF halts, msgs
  <2>4. Plain(l, halts, msgs)
    BY <1>0, <2>1, <2>2 DEF Plain
  <2> QED
    BY <2>3, <2>4
<1> QED
  BY <1>1, <1>2 DEF LevelStep

\* VenueVertex: it always quotes.
LEMMA VenueForm ==
  ASSUME Inv, NEW v \in Venues, VenueStep(v)
  PROVE  (\E m \in mail : Loop(v, m)) \/ (\E body \in UpdateBody : Quoting(v, body))
<1>0. v \in Vertices /\ v \notin Orders /\ v \notin Levels
  BY VertexAssumption DEF Vertices
<1>1. CASE \E m \in mail : ReceiveVenue(v, m)
  BY <1>0, <1>1 DEF ReceiveVenue, Loop, history
<1>2. CASE ReturnVenue(v)
  <2>1. PICK n \in Noise :
          LET q == Requoted(venue[v], Mid(v) + n) IN
          /\ Return(v, FALSE, Messages(v, Targets(v, AllTypes), Nbbo(q)))
          /\ quotes' = [quotes EXCEPT ![v] =
                          SubSeq(<<Nbbo(q)>> \o @, 1, IF Len(@) < 3 THEN Len(@) + 1 ELSE 3)]
    BY <1>2 DEF ReturnVenue
  <2> DEFINE q == Requoted(venue[v], Mid(v) + n)
  <2>2. venue[v] \in VenueState
    BY DEF Inv, VenueOK
  <2>3. q \in VenueState
    <3>1. n \in Int /\ DefaultMid \in Int
      BY ParameterAssumption
    <3>2. Mid(v) + n \in Int
      BY <2>2, <3>1 DEF Mid, Half, VenueState
    <3> QED
      BY <2>2, <3>2, QuoteMade
  <2>4. Nbbo(q) \in UpdateBody
    BY <2>3 DEF Nbbo, PriceUpdate, UpdateBody, VenueState
  <2>5. Quoting(v, Nbbo(q))
    BY <1>2, <2>1 DEF Quoting, ReturnVenue
  <2> QED
    BY <2>4, <2>5
<1> QED
  BY <1>1, <1>2 DEF VenueStep

\* MarketMakerVertex: it only signals, to venues and levels.
LEMMA MakerForm ==
  ASSUME Inv, NEW k \in Makers, MakerStep(k)
  PROVE  (\E m \in mail : Loop(k, m)) \/ (\E h \in BOOLEAN : \E msgs : Plain(k, h, msgs))
<1>0. k \in Vertices /\ k \notin Orders /\ k \notin Levels
  BY VertexAssumption DEF Vertices
<1>1. CASE \E m \in mail : ReceiveMaker(k, m)
  BY <1>0, <1>1 DEF ReceiveMaker, Loop, history
<1>2. CASE ReturnMaker(k)
  <2> DEFINE halts == OverLimit(maker[k].position) \/ (MailOf(k) = {} /\ Signal(k) = {})
  <2>1. Return(k, halts, Signal(k)) /\ halts \in BOOLEAN
    BY <1>2 DEF ReturnMaker, OverLimit
  <2>2. ASSUME NEW m \in Signal(k)
        PROVE  m.dst \in Venues \/ (m.dst \in Levels /\ ~IsUpdate(m))
    <3>1. m \in Messages(k, Targets(k, AllTypes),
                        [type |-> "ARBITRAGE_SIGNAL",
                         spread |-> Bps(maker[k].bid, maker[k].ask)])
      BY <2>2 DEF Signal
    <3>2. m.dst \in Targets(k, AllTypes) /\ m.body.type = "ARBITRAGE_SIGNAL"
      BY <3>1 DEF Messages
    <3> QED
      BY <1>0, <3>2, TargetsType DEF IsUpdate
  <2> HIDE DEF halts
  <2>3. Plain(k, halts, Signal(k))
    BY <1>0, <1>2, <2>1, <2>2 DEF Plain, ReturnMaker, history
  <2> QED
    BY <2>1, <2>3
<1> QED
  BY <1>1, <1>2 DEF MakerStep

\* Every step is one of these, makes the tasks or starts a superstep.
LEMMA StepForm ==
  ASSUME Inv, [Next]_vars
  PROVE  \/ \E v \in Vertices : \E m \in mail : Loop(v, m)
         \/ \E v \in Venues : \E body \in UpdateBody : Quoting(v, body)
         \/ \E v \in Vertices \ Venues : \E h \in BOOLEAN : \E msgs : Plain(v, h, msgs)
         \/ Build \/ NextSuperstep \/ UNCHANGED vars
<1>1. Done => UNCHANGED vars
  BY DEF Done
<1>2. /\ Orders \subseteq Vertices \ Venues /\ Levels \subseteq Vertices \ Venues
      /\ Makers \subseteq Vertices \ Venues /\ Venues \subseteq Vertices
  BY VertexAssumption DEF Vertices
<1>3. CASE \E o \in Orders : OrderStep(o)
  BY <1>2, <1>3, OrderForm
<1>4. CASE \E l \in Levels : LevelStep(l)
  BY <1>2, <1>4, LevelForm
<1>5. CASE \E v \in Venues : VenueStep(v)
  BY <1>2, <1>5, VenueForm
<1>6. CASE \E k \in Makers : MakerStep(k)
  BY <1>2, <1>6, MakerForm
<1> QED
  BY <1>1, <1>3, <1>4, <1>5, <1>6 DEF Next

----------------------------------------------------------------------------
(* Nobody is left without mail *)

\* A level is on one venue, an order on one level, so one venue feeds an order.
LEMMA LinkFacts ==
  /\ \A l \in Levels : \E v \in Venues : l \in Targets(v, AllTypes)
  /\ \A l \in Levels : \A u, v \in Venues :
       l \in Targets(u, AllTypes) /\ l \in Targets(v, AllTypes) => u = v
  /\ \A o \in Orders : \E l \in Levels : o \in Targets(l, {1})
  /\ \A o \in Orders : \A k, l \in Levels : o \in Targets(k, {1}) /\ o \in Targets(l, {1}) => k = l
<1>1. \A l \in Levels : \E v \in Venues : {u \in Venues : l \in Targets(u, AllTypes)} = {v}
  BY LinkAssumption
<1>2. \A o \in Orders : \E l \in Levels : {k \in Levels : o \in Targets(k, {1})} = {l}
  BY LinkAssumption
<1>3. \A l \in Levels : \E v \in Venues :
        l \in Targets(v, AllTypes) /\ \A u \in Venues : l \in Targets(u, AllTypes) => u = v
  BY <1>1
<1>4. \A o \in Orders : \E l \in Levels :
        o \in Targets(l, {1}) /\ \A k \in Levels : o \in Targets(k, {1}) => k = l
  BY <1>2
<1> QED
  BY <1>3, <1>4, Zenon

\* In the inbox loop an update that is gone through is in the outbox.
LEMMA LoopWake ==
  ASSUME PregelInv, WakeInv, NEW v \in Vertices, NEW m \in mail, Loop(v, m)
  PROVE  WakeInv'
<1>1. /\ UNCHANGED <<superstep, phase, todo, mail, sent, halted, computed>>
      /\ handled' = handled \cup {m} /\ m.dst = v
  BY DEF Loop, Receive, Unhandled, MailOf
<1>2. outbox \subseteq outbox'
  BY DEF Loop
<1>3. ASSUME m.dst \in Levels, IsUpdate(m), NEW o \in Targets(m.dst, {1})
      PROVE  \E n \in outbox' : n.dst = o
  <2>1. Forward(v, m) \subseteq outbox'
    BY <1>1, <1>3 DEF Loop
  <2>2. [src |-> v, dst |-> o, step |-> superstep, body |-> m.body] \in Forward(v, m)
    BY <1>1, <1>3 DEF Forward, Messages
  <2> QED
    BY <2>1, <2>2
<1>4. \A k \in handled' : k.dst \in Levels /\ IsUpdate(k) =>
        \A o \in Targets(k.dst, {1}) : \E n \in outbox' : n.dst = o
  BY <1>1, <1>2, <1>3 DEF WakeInv
<1> QED
  BY <1>1, <1>4 DEF WakeInv

\* A vertex that returns has gone through its mail, and a venue has quoted.
LEMMA ReturnWake ==
  ASSUME PregelInv, WakeInv, NEW v \in Vertices, Unhandled(v) = {},
         NEW halts \in BOOLEAN, NEW msgs, Return(v, halts, msgs),
         v \in Venues => /\ ~halts
                         /\ \A x \in Targets(v, AllTypes) : \E m \in msgs : m.dst = x /\ IsUpdate(m)
  PROVE  WakeInv'
<1>0. EngineOK /\ TaskInv
  BY DEF PregelInv, Inv
<1>1. /\ superstep' = superstep /\ phase = "compute" /\ v \in todo
      /\ handled' = {} /\ computed' = computed \cup {v}
      /\ mail' = mail \ MailOf(v) /\ sent' = (sent \cup outbox) \cup msgs
      /\ halted' = [halted EXCEPT ![v] = halted[v] \/ halts]
  BY DEF Return, Turn
<1>2. v \notin computed
  BY <1>0, <1>1 DEF TaskInv
<1>3. \A u \in Venues : ~halted'[u]
  <2>1. \A u \in Vertices : halted'[u] = IF u = v THEN halted[v] \/ halts ELSE halted[u]
    BY <1>0, <1>1 DEF EngineOK
  <2>2. \A u \in Venues : u \in Vertices /\ ~halted[u]
    BY DEF Vertices, WakeInv
  <2> QED
    BY <2>1, <2>2
<1>4. \A u \in Venues : u \in computed' =>
        \A x \in Targets(u, AllTypes) : \E m \in sent' : m.dst = x /\ IsUpdate(m)
  <2>1. \A u \in Venues : u \in computed =>
          \A x \in Targets(u, AllTypes) : \E m \in sent : m.dst = x /\ IsUpdate(m)
    BY DEF WakeInv
  <2> QED
    BY <1>1, <2>1
<1>5. \A m \in mail : m.dst # v => m \in mail'
  BY <1>1 DEF MailOf
<1>6. ASSUME superstep >= 1, NEW l \in Levels
      PROVE  /\ l \notin computed' => \E m \in mail' : m.dst = l /\ IsUpdate(m)
             /\ l \in computed' => \A o \in Targets(l, {1}) : \E m \in sent' : m.dst = o
  <2>1. /\ l \notin computed => \E m \in mail : m.dst = l /\ IsUpdate(m)
        /\ l \in computed => \A o \in Targets(l, {1}) : \E m \in sent : m.dst = o
    BY <1>6 DEF WakeInv
  <2>2. CASE l = v
    <3>1. PICK m \in mail : m.dst = l /\ IsUpdate(m)
      BY <1>2, <2>1, <2>2
    <3>2. m \in handled
      BY <2>2, <3>1 DEF Unhandled, MailOf
    <3>3. \A o \in Targets(l, {1}) : \E n \in outbox : n.dst = o
      BY <3>1, <3>2 DEF WakeInv
    <3> QED
      BY <1>1, <2>2, <3>3
  <2>3. CASE l # v
    BY <1>1, <1>5, <2>1, <2>3
  <2> QED
    BY <2>2, <2>3
<1>7. ASSUME superstep >= 2, NEW o \in Orders, o \notin computed'
      PROVE  \E m \in mail' : m.dst = o
  <2>1. o # v /\ o \notin computed
    BY <1>1, <1>7
  <2>2. \E m \in mail : m.dst = o
    BY <1>7, <2>1 DEF WakeInv
  <2> QED
    BY <1>5, <2>1, <2>2
<1> QED
  BY <1>1, <1>3, <1>4, <1>6, <1>7 DEF WakeInv

\* What a superstep sends wakes the next one.
LEMMA AdvanceWake ==
  ASSUME PregelInv, WakeInv, NextSuperstep
  PROVE  WakeInv'
<1>0. EngineOK /\ TaskInv
  BY DEF PregelInv, Inv
<1>1. /\ phase = "compute" /\ todo = {} /\ superstep' = superstep + 1
      /\ mail' = sent /\ sent' = {} /\ computed' = {}
      /\ UNCHANGED <<handled, outbox, halted>>
  BY DEF NextSuperstep, Barrier
<1>2. handled = {} /\ superstep \in Nat
  BY <1>0, <1>1 DEF EngineOK
<1>3. \A v \in Venues : v \in computed
  <2>1. \A v \in Vertices \ (todo \cup computed) : halted[v]
    BY <1>0, <1>1 DEF TaskInv
  <2> QED
    BY <1>1, <2>1 DEF WakeInv, Vertices
<1>4. \A l \in Levels : \E m \in mail' : m.dst = l /\ IsUpdate(m)
  BY <1>1, <1>3, LinkFacts DEF WakeInv
<1>5. ASSUME superstep' >= 2, NEW o \in Orders PROVE \E m \in mail' : m.dst = o
  <2>1. PICK l \in Levels : o \in Targets(l, {1})
    BY LinkFacts
  <2>2. superstep >= 1
    BY <1>1, <1>2, <1>5
  <2>3. l \in computed
    <3>1. ASSUME l \notin computed PROVE FALSE
      <4>1. PICK m \in mail : m.dst = l
        BY <2>2, <3>1 DEF WakeInv
      <4>2. MailOf(l) = {}
        BY <1>0, <1>1, <3>1 DEF TaskInv, Vertices
      <4> QED
        BY <4>1, <4>2 DEF MailOf
    <3> QED
      BY <3>1
  <2> QED
    BY <1>1, <2>1, <2>2, <2>3 DEF WakeInv
<1> QED
  BY <1>1, <1>2, <1>4, <1>5 DEF WakeInv

\* Every step keeps everyone supplied with mail.
LEMMA WakeKept ==
  ASSUME PregelInv, WakeInv, [Next]_vars
  PROVE  WakeInv'
<1>0. Inv
  BY DEF PregelInv
<1>1. CASE \E v \in Vertices : \E m \in mail : Loop(v, m)
  BY <1>1, LoopWake
<1>2. CASE \E v \in Venues : \E body \in UpdateBody : Quoting(v, body)
  <2>1. PICK v \in Venues, body \in UpdateBody : Quoting(v, body)
    BY <1>2
  <2> DEFINE msgs == Messages(v, Targets(v, AllTypes), body)
  <2>2. Unhandled(v) = {} /\ Return(v, FALSE, msgs) /\ v \in Vertices
    BY <2>1 DEF Quoting, Vertices
  <2>3. ASSUME NEW x \in Targets(v, AllTypes) PROVE \E m \in msgs : m.dst = x /\ IsUpdate(m)
    <3> DEFINE m == [src |-> v, dst |-> x, step |-> superstep, body |-> body]
    <3>1. m \in msgs
      BY DEF Messages
    <3>2. m.dst = x /\ m.body = body
      OBVIOUS
    <3>3. IsUpdate(m)
      BY <3>2 DEF IsUpdate, UpdateBody
    <3> QED
      BY <3>1, <3>2, <3>3
  <2> HIDE DEF msgs
  <2> QED
    BY <2>2, <2>3, ReturnWake
<1>3. CASE \E v \in Vertices \ Venues : \E h \in BOOLEAN : \E msgs : Plain(v, h, msgs)
  <2>1. PICK v \in Vertices \ Venues, h \in BOOLEAN : \E msgs : Plain(v, h, msgs)
    BY <1>3
  <2>2. PICK msgs : Plain(v, h, msgs)
    BY <2>1
  <2>3. Unhandled(v) = {} /\ Return(v, h, msgs)
    BY <2>2 DEF Plain
  <2> QED
    BY <2>3, ReturnWake
<1>4. CASE Build
  <2>1. /\ UNCHANGED <<superstep, mail, handled, outbox, sent, computed>>
        /\ halted' = [v \in Vertices |-> halted[v] /\ v \notin Woken]
    BY <1>4 DEF Build
  <2>2. \A v \in Venues : ~halted'[v]
    BY <2>1 DEF WakeInv, Vertices
  <2> QED
    BY <2>1, <2>2 DEF WakeInv
<1>5. CASE NextSuperstep
  BY <1>5, AdvanceWake
<1>6. CASE UNCHANGED vars
  BY <1>6 DEF vars, engine, WakeInv
<1> QED
  BY <1>0, <1>1, <1>2, <1>3, <1>4, <1>5, <1>6, StepForm

----------------------------------------------------------------------------
(* Every order computes in every superstep *)

\* Up to the second superstep no order is idle beyond the limit; from then on
\* it has mail.
LEMMA BuildIdle ==
  ASSUME PregelInv, WakeInv, IdleInv, Build
  PROVE  IdleInv'
<1>0. EngineOK /\ OrderOK /\ TaskInv
  BY DEF PregelInv, Inv
<1>1. /\ UNCHANGED <<superstep, computed, order, last_offer>>
      /\ phase = "build" /\ phase' = "compute" /\ computed = {}
      /\ todo' = {v \in Vertices : ~halted[v]} \cup Woken
  BY <1>0 DEF Build, states, history, TaskInv
<1>2. ASSUME NEW o \in Orders PROVE o \in todo'
  <2>1. o \in Vertices
    BY DEF Vertices
  <2>2. CASE halted[o]
    <3>1. order[o].idle > IdleLimit /\ order[o].idle = superstep - last_offer[o] - 1
      BY <1>1, <2>2 DEF IdleInv
    <3>2. last_offer[o] \in Int /\ last_offer[o] >= -1 /\ superstep \in Nat
      BY <1>0 DEF OrderOK, EngineOK
    <3>3. superstep >= 2
      BY <3>1, <3>2, ParameterAssumption
    <3>4. \E m \in mail : m.dst = o
      BY <1>1, <3>3 DEF WakeInv
    <3>5. o \in Woken
      BY <2>1, <2>2, <3>4 DEF Woken, MailOf
    <3> QED
      BY <1>1, <3>5
  <2> QED
    BY <1>1, <2>1, <2>2
<1> QED
  BY <1>1, <1>2 DEF IdleInv

\* Every step keeps the idle counts exact.
LEMMA IdleKept ==
  ASSUME PregelInv, WakeInv, IdleInv, [Next]_vars
  PROVE  IdleInv'
<1>0. Inv /\ EngineOK /\ OrderOK /\ TaskInv
  BY DEF PregelInv, Inv
<1>1. CASE \E v \in Vertices : \E m \in mail : Loop(v, m)
  <2>1. PICK v \in Vertices, m \in mail : Loop(v, m)
    BY <1>1
  <2>2. UNCHANGED <<superstep, phase, todo, halted, computed, last_offer>>
    BY <2>1 DEF Loop, Receive
  <2>3. \A o \in Orders : order'[o].idle = order[o].idle
    BY <1>0, <2>1 DEF Loop, OrderOK, OrderState
  <2> QED
    BY <2>2, <2>3 DEF IdleInv
<1>2. CASE \/ \E v \in Venues : \E body \in UpdateBody : Quoting(v, body)
           \/ \E v \in Vertices \ (Venues \cup Orders) : \E h \in BOOLEAN : \E msgs : Plain(v, h, msgs)
  <2>1. PICK v \in Vertices \ Orders :
          /\ UNCHANGED <<order, last_offer>>
          /\ \E h \in BOOLEAN : \E msgs : Return(v, h, msgs)
    BY <1>2, VertexAssumption, Zenon DEF Quoting, Plain, Vertices
  <2>2. /\ UNCHANGED <<superstep, phase>> /\ todo' = todo \ {v} /\ computed' = computed \cup {v}
        /\ phase = "compute" /\ \A u \in Vertices : u # v => halted'[u] = halted[u]
    BY <1>0, <2>1 DEF Return, Turn, EngineOK
  <2>3. \A o \in Orders : o # v /\ o \in Vertices
    BY DEF Vertices
  <2> QED
    BY <2>1, <2>2, <2>3 DEF IdleInv
<1>3. CASE \E v \in Orders : \E h \in BOOLEAN : \E msgs : Plain(v, h, msgs)
  <2>1. PICK v \in Orders, h \in BOOLEAN : \E msgs : Plain(v, h, msgs)
    BY <1>3
  <2>2. PICK offers \in BOOLEAN : IdleStep(v, h, offers)
    BY <2>1 DEF Plain
  <2> DEFINE idle == IdleAfter(v, offers)
  <2>3. /\ order' = [order EXCEPT ![v].idle = idle] /\ h = (idle > IdleLimit)
        /\ last_offer' = IF offers THEN [last_offer EXCEPT ![v] = superstep] ELSE last_offer
    BY <2>2 DEF IdleStep, TooIdle
  <2>4. /\ UNCHANGED <<superstep, phase>> /\ todo' = todo \ {v} /\ computed' = computed \cup {v}
        /\ phase = "compute" /\ v \in todo
        /\ halted' = [halted EXCEPT ![v] = halted[v] \/ h]
    BY <2>1 DEF Plain, Return, Turn
  <2>5. ~halted[v] /\ v \notin computed /\ v \in Vertices
    BY <1>0, <2>4 DEF TaskInv, Vertices
  <2>6. order[v].idle = superstep - last_offer[v] - 1
    BY <2>5 DEF IdleInv
  <2>7. superstep \in Nat /\ last_offer[v] \in Int /\ order[v].idle \in Nat
    BY <1>0 DEF EngineOK, OrderOK, OrderState
  <2>8. idle = superstep - last_offer'[v]
    <3>1. CASE offers
      <4>1. last_offer'[v] = superstep
        BY <1>0, <2>3, <3>1 DEF OrderOK
      <4> QED
        BY <2>7, <3>1, <4>1 DEF IdleAfter
    <3>2. CASE ~offers
      BY <2>3, <2>6, <2>7, <3>2 DEF IdleAfter
    <3> QED
      BY <3>1, <3>2
  <2> HIDE DEF idle
  <2>9. order'[v].idle = idle /\ \A o \in Orders : o # v => order'[o] = order[o]
    BY <1>0, <2>3 DEF OrderOK, OrderState
  <2>10. \A o \in Orders : o # v => last_offer'[o] = last_offer[o]
    BY <1>0, <2>3 DEF OrderOK
  <2>11. halted'[v] <=> idle > IdleLimit
    BY <1>0, <2>3, <2>4, <2>5 DEF EngineOK
  <2>12. \A o \in Orders : o # v => halted'[o] = halted[o]
    BY <1>0, <2>4 DEF EngineOK, Vertices
  <2>13. Orders \subseteq todo' \cup computed'
    BY <2>4 DEF IdleInv
  <2>14. ASSUME NEW o \in Orders
         PROVE  /\ order'[o].idle = superstep' - last_offer'[o] - (IF o \in computed' THEN 0 ELSE 1)
                /\ phase' = "build" \/ o \in computed' =>
                     (halted'[o] <=> order'[o].idle > IdleLimit)
    <3>1. CASE o = v
      <4>1. o \in computed' /\ order'[o].idle = idle
        BY <2>4, <2>9, <3>1
      <4>2. last_offer'[v] \in Int
        BY <1>0, <2>3, <2>7 DEF OrderOK
      <4>3. superstep' - last_offer'[v] - 0 = superstep - last_offer'[v]
        BY <2>4, <2>7, <4>2
      <4> QED
        BY <2>8, <2>11, <3>1, <4>1, <4>3
    <3>2. CASE o # v
      BY <2>4, <2>9, <2>10, <2>12, <3>2 DEF IdleInv
    <3> QED
      BY <3>1, <3>2
  <2> QED
    BY <2>13, <2>14 DEF IdleInv
<1>4. CASE Build
  BY <1>4, BuildIdle
<1>5. CASE NextSuperstep
  <2>1. /\ phase = "compute" /\ todo = {} /\ phase' = "build" /\ superstep' = superstep + 1
        /\ computed' = {} /\ UNCHANGED <<halted, order, last_offer>>
    BY <1>5 DEF NextSuperstep, Barrier, states, history
  <2>2. \A o \in Orders : o \in computed
    BY <2>1 DEF IdleInv
  <2>3. \A o \in Orders : /\ order[o].idle = superstep - last_offer[o] - 0
                          /\ halted[o] <=> order[o].idle > IdleLimit
    BY <2>2 DEF IdleInv
  <2>4. \A o \in Orders : order[o].idle = superstep' - last_offer[o] - 1
    BY <1>0, <2>1, <2>3 DEF EngineOK, OrderOK
  <2> QED
    BY <2>1, <2>3, <2>4 DEF IdleInv
<1>6. CASE UNCHANGED vars
  BY <1>6 DEF vars, engine, states, history, IdleInv
<1> QED
  BY <1>0, <1>1, <1>2, <1>3, <1>4, <1>5, <1>6, StepForm

----------------------------------------------------------------------------
(* Which quote a message carries *)

\* Within a superstep a quote that has been made keeps its age.
QuotesKept ==
  /\ superstep' = superstep /\ computed \subseteq computed'
  /\ \A v \in Venues :
       /\ superstep >= 1 => Quote(v, 1)' = Quote(v, 1)
       /\ superstep >= 2 => Quote(v, 2)' = Quote(v, 2)
       /\ v \in computed => Quote(v, 0)' = Quote(v, 0)

\* The last three quotes after a new one.
LEMMA QuotePushed ==
  ASSUME NEW S, NEW b \in S, NEW q \in Seq(S), Len(q) <= 3
  PROVE  LET r == SubSeq(<<b>> \o q, 1, IF Len(q) < 3 THEN Len(q) + 1 ELSE 3) IN
         /\ r \in Seq(S) /\ Len(r) = IF Len(q) < 3 THEN Len(q) + 1 ELSE 3
         /\ r[1] = b /\ (1 <= Len(q) => r[2] = q[1]) /\ (2 <= Len(q) => r[3] = q[2])
<1> DEFINE s == <<b>> \o q
           n == IF Len(q) < 3 THEN Len(q) + 1 ELSE 3
<1>1. s \in Seq(S) /\ Len(s) = Len(q) + 1 /\ s[1] = b /\ \A i \in 1 .. Len(q) : s[i + 1] = q[i]
  OBVIOUS
<1>2. Len(q) \in Nat /\ n \in Nat /\ n <= Len(s) /\ n >= 1
  BY <1>1
<1>3. (1 <= Len(q) => n >= 2 /\ s[2] = q[1]) /\ (2 <= Len(q) => n >= 3 /\ s[3] = q[2])
  BY <1>1
<1> HIDE DEF s, n
<1>4. SubSeq(s, 1, n) \in Seq(S) /\ Len(SubSeq(s, 1, n)) = n
      /\ \A i \in 1 .. n : SubSeq(s, 1, n)[i] = s[i]
  BY <1>1, <1>2
<1>5. /\ SubSeq(s, 1, n)[1] = b
      /\ 1 <= Len(q) => SubSeq(s, 1, n)[2] = q[1]
      /\ 2 <= Len(q) => SubSeq(s, 1, n)[3] = q[2]
  BY <1>1, <1>2, <1>3, <1>4
<1> QED
  BY <1>4, <1>5 DEF s, n

\* A vertex that is no venue makes no quote.
LEMMA OthersQuote ==
  ASSUME LengthInv, quotes' = quotes, superstep' = superstep,
         NEW v, v \notin Venues, computed' = computed \/ computed' = computed \cup {v}
  PROVE  LengthInv' /\ QuotesKept
<1>1. \A u \in Venues : Age(u)' = Age(u)
  BY DEF Age
<1>2. \A u \in Venues : \A k : Quote(u, k)' = Quote(u, k)
  BY <1>1 DEF Quote
<1>3. QuotesKept
  BY <1>2 DEF QuotesKept
<1> QED
  BY <1>1, <1>3 DEF LengthInv

\* A venue makes its quote of this superstep.
LEMMA VenueQuotes ==
  ASSUME PregelInv, LengthInv, NEW v \in Venues, NEW body \in UpdateBody, Quoting(v, body)
  PROVE  LengthInv' /\ QuotesKept /\ Quote(v, 0)' = body
<1>0. EngineOK /\ TaskInv
  BY DEF PregelInv, Inv
<1>1. superstep' = superstep /\ computed' = computed \cup {v} /\ v \notin computed
  BY <1>0 DEF Quoting, Return, Turn, TaskInv
<1>2. Age(v) = 0 /\ Age(v)' = 1 /\ \A u \in Venues : u # v => Age(u)' = Age(u)
  BY <1>1 DEF Age
<1> DEFINE q == quotes[v]
           r == SubSeq(<<body>> \o q, 1, IF Len(q) < 3 THEN Len(q) + 1 ELSE 3)
<1>3. q \in Seq(UpdateBody) /\ superstep \in Nat
  BY <1>0 DEF LengthInv, EngineOK
<1>4. Len(q) = IF superstep < 3 THEN superstep ELSE 3
  BY <1>2, <1>3 DEF LengthInv
<1>5. quotes' = [quotes EXCEPT ![v] = r]
  BY DEF Quoting
<1>6. q[1] = Quote(v, 1) /\ q[2] = Quote(v, 2)
  BY <1>2 DEF Quote
<1> HIDE DEF q
<1>7. /\ r \in Seq(UpdateBody) /\ Len(r) = IF Len(q) < 3 THEN Len(q) + 1 ELSE 3
      /\ r[1] = body /\ (1 <= Len(q) => r[2] = q[1]) /\ (2 <= Len(q) => r[3] = q[2])
  BY <1>3, <1>4, QuotePushed
<1> HIDE DEF r
<1>8. quotes \in [Venues -> Seq(UpdateBody)]
  BY DEF LengthInv
<1>9. /\ quotes' \in [Venues -> Seq(UpdateBody)] /\ quotes'[v] = r
      /\ \A u \in Venues : u # v => quotes'[u] = quotes[u]
  BY <1>5, <1>7, <1>8
<1>10. Len(r) = IF superstep' + Age(v)' < 3 THEN superstep' + Age(v)' ELSE 3
  BY <1>1, <1>2, <1>3, <1>4, <1>7
<1>11. LengthInv'
  <2>1. ASSUME NEW u \in Venues
        PROVE  Len(quotes'[u]) = IF superstep' + Age(u)' < 3 THEN superstep' + Age(u)' ELSE 3
    <3>1. CASE u = v
      BY <1>9, <1>10, <3>1
    <3>2. CASE u # v
      BY <1>1, <1>2, <1>9, <3>2 DEF LengthInv
    <3> QED
      BY <3>1, <3>2
  <2> QED
    BY <1>9, <2>1 DEF LengthInv
<1>12. Quote(v, 0)' = r[1] /\ Quote(v, 1)' = r[2] /\ Quote(v, 2)' = r[3]
  BY <1>2, <1>9 DEF Quote
<1>13. \A u \in Venues : u # v => \A k : Quote(u, k)' = Quote(u, k)
  BY <1>2, <1>9 DEF Quote
<1>14. (superstep >= 1 => 1 <= Len(q)) /\ (superstep >= 2 => 2 <= Len(q))
  BY <1>3, <1>4
<1>15. QuotesKept
  BY <1>1, <1>6, <1>7, <1>12, <1>13, <1>14 DEF QuotesKept
<1> QED
  BY <1>7, <1>11, <1>12, <1>15

\* Mail is only taken away within a superstep.
LEMMA MailKept ==
  ASSUME MailInv, QuotesKept, mail' \subseteq mail
  PROVE  MailInv'
<1> SUFFICES ASSUME NEW m \in mail'
             PROVE  /\ m.dst \in Levels /\ IsUpdate(m) =>
                         /\ superstep' >= 1
                         /\ \A v \in Venues : m.dst \in Targets(v, AllTypes) => m.body = Quote(v, 1)'
                    /\ m.dst \in Orders =>
                         /\ superstep' >= 2
                         /\ \A v \in Venues : Feeds(v, m.dst) => m.body = Quote(v, 2)'
  BY DEF MailInv, Feeds, IsUpdate
<1> QED
  BY DEF MailInv, QuotesKept

\* In the inbox loop a level passes the venue's last quote on, and an order
\* learns of it.
LEMMA LoopQuotes ==
  ASSUME PregelInv, LengthInv, MailInv, SentInv, BestInv,
         NEW v \in Vertices, NEW m \in mail, Loop(v, m)
  PROVE  LengthInv' /\ MailInv' /\ SentInv' /\ BestInv'
<1>0. EngineOK /\ OrderOK
  BY DEF PregelInv, Inv
<1>1. /\ UNCHANGED <<superstep, computed, mail, sent, quotes>>
      /\ handled' = handled \cup {m} /\ m.dst = v
  BY DEF Loop, Receive, Unhandled, MailOf
<1>2. \A u : \A k : Quote(u, k)' = Quote(u, k)
  BY <1>1 DEF Quote, Age
<1>3. QuotesKept
  BY <1>1, <1>2 DEF QuotesKept
<1>4. LengthInv'
  BY <1>1 DEF LengthInv, Age
<1>5. MailInv'
  BY <1>1, <1>3, MailKept
<1>6. ASSUME NEW n \in outbox'
      PROVE  /\ n.dst \in Orders /\ superstep >= 1
             /\ \A u \in Venues : Feeds(u, n.dst) => n.body = Quote(u, 1)
  <2>1. CASE n \in outbox
    BY <2>1 DEF SentInv
  <2>2. CASE n \notin outbox
    <3>1. v \in Levels /\ IsUpdate(m) /\ n \in Forward(v, m)
      BY <2>2 DEF Loop
    <3>2. n.dst \in Targets(v, {1}) /\ n.body = m.body
      BY <3>1, MessagesSent DEF Forward
    <3>3. n.dst \in Orders
      BY <3>1, <3>2, TargetsType
    <3>4. superstep >= 1 /\ \A u \in Venues : v \in Targets(u, AllTypes) => m.body = Quote(u, 1)
      BY <1>1, <3>1 DEF MailInv
    <3>5. \A u \in Venues : Feeds(u, n.dst) => v \in Targets(u, AllTypes)
      BY <3>1, <3>2, <3>3, LinkFacts DEF Feeds
    <3> QED
      BY <3>2, <3>3, <3>4, <3>5
  <2> QED
    BY <2>1, <2>2
<1>7. SentInv'
  <2>1. \A n \in outbox' : n.dst \in Orders
    BY <1>6
  <2>2. ASSUME NEW n \in sent', n.dst \in Levels, IsUpdate(n), NEW u \in Venues,
               n.dst \in Targets(u, AllTypes)
        PROVE  u \in computed' /\ n.body = Quote(u, 0)'
    BY <1>1, <1>2, <2>2 DEF SentInv
  <2>3. ASSUME NEW n \in sent' \cup outbox', n.dst \in Orders
        PROVE  superstep' >= 1 /\ \A u \in Venues : Feeds(u, n.dst) => n.body = Quote(u, 1)'
    BY <1>1, <1>2, <1>6, <2>3 DEF SentInv
  <2> QED
    BY <2>1, <2>2, <2>3 DEF SentInv, Feeds, IsUpdate
<1>8. BestInv'
  <2>1. ASSUME NEW o \in Orders,
               (o \in computed' /\ superstep' >= 2) \/ (\E n \in handled' : n.dst = o),
               NEW u \in Venues, Feeds(u, o)
        PROVE  order'[o].best = OwnSide(o, Quote(u, 2)')
    <3>1. CASE o = v
      <4>1. m.body = Quote(u, 2)
        BY <1>1, <2>1, <3>1 DEF MailInv
      <4>2. order'[o].best = OwnSide(o, m.body)
        BY <1>0, <3>1 DEF Loop, OrderOK, OrderState
      <4> QED
        BY <1>2, <4>1, <4>2
    <3>2. CASE o # v
      <4>1. order'[o] = order[o]
        BY <1>0, <3>2 DEF Loop, OrderOK
      <4>2. (o \in computed /\ superstep >= 2) \/ (\E n \in handled : n.dst = o)
        BY <1>1, <2>1, <3>2
      <4>3. order[o].best = OwnSide(o, Quote(u, 2))
        BY <2>1, <4>2 DEF BestInv
      <4> QED
        BY <1>2, <4>1, <4>3
    <3> QED
      BY <3>1, <3>2
  <2> QED
    BY <2>1 DEF BestInv, Feeds, OwnSide
<1> QED
  BY <1>4, <1>5, <1>7, <1>8

\* A vertex returns: what was in its outbox is sent, an order that has mail
\* has learnt of a quote from it.
LEMMA ReturnQuotes ==
  ASSUME PregelInv, WakeInv, MailInv, SentInv, BestInv, QuotesKept,
         NEW v \in Vertices, Unhandled(v) = {}, NEW h, NEW msgs, Return(v, h, msgs),
         \A o \in Orders : order'[o].best = order[o].best,
         \A n \in msgs : /\ n.dst \notin Orders
                         /\ n.dst \in Levels /\ IsUpdate(n) =>
                              \A u \in Venues : n.dst \in Targets(u, AllTypes) =>
                                u \in computed' /\ n.body = Quote(u, 0)'
  PROVE  MailInv' /\ SentInv' /\ BestInv'
<1>0. EngineOK /\ OrderOK /\ TaskInv
  BY DEF PregelInv, Inv
<1>1. /\ superstep' = superstep /\ outbox' = {} /\ handled' = {}
      /\ mail' \subseteq mail /\ sent' = (sent \cup outbox) \cup msgs
      /\ computed' = computed \cup {v}
  BY DEF Return
<1>2. MailInv'
  BY <1>1, MailKept
<1>3. SentInv'
  <2>1. ASSUME NEW n \in sent', n.dst \in Levels, IsUpdate(n), NEW u \in Venues,
               n.dst \in Targets(u, AllTypes)
        PROVE  u \in computed' /\ n.body = Quote(u, 0)'
    <3>1. n \notin outbox
      BY <2>1, VertexAssumption DEF SentInv
    <3>2. CASE n \in sent
      BY <1>1, <2>1, <3>2 DEF SentInv, QuotesKept
    <3>3. CASE n \in msgs
      BY <2>1, <3>3
    <3> QED
      BY <1>1, <3>1, <3>2, <3>3
  <2>2. ASSUME NEW n \in sent' \cup outbox', n.dst \in Orders
        PROVE  superstep' >= 1 /\ \A u \in Venues : Feeds(u, n.dst) => n.body = Quote(u, 1)'
    <3>1. n \in sent \cup outbox
      BY <1>1, <2>2
    <3> QED
      BY <1>1, <2>2, <3>1 DEF SentInv, QuotesKept
  <2> QED
    BY <1>1, <2>1, <2>2 DEF SentInv, Feeds, IsUpdate
<1>4. BestInv'
  <2>1. ASSUME NEW o \in Orders, o \in computed', superstep' >= 2, NEW u \in Venues, Feeds(u, o)
        PROVE  order'[o].best = OwnSide(o, Quote(u, 2)')
    <3>1. o \in computed \/ (\E n \in handled : n.dst = o)
      <4>1. ASSUME o \notin computed PROVE \E n \in handled : n.dst = o
        <5>1. o = v
          BY <1>1, <2>1, <4>1
        <5>2. PICK n \in mail : n.dst = o
          BY <1>1, <2>1, <4>1 DEF WakeInv
        <5>3. n \in handled
          BY <5>1, <5>2 DEF Unhandled, MailOf
        <5> QED
          BY <5>2, <5>3
      <4> QED
        BY <4>1
    <3>2. order[o].best = OwnSide(o, Quote(u, 2))
      BY <1>1, <2>1, <3>1 DEF BestInv
    <3>3. Quote(u, 2)' = Quote(u, 2)
      BY <1>1, <2>1 DEF QuotesKept
    <3> QED
      BY <3>2, <3>3
  <2> QED
    BY <1>1, <2>1 DEF BestInv, Feeds, OwnSide
<1> QED
  BY <1>2, <1>3, <1>4

\* From one superstep to the next every quote is a superstep older.
LEMMA AdvanceQuotes ==
  ASSUME PregelInv, WakeInv, LengthInv, SentInv, NextSuperstep
  PROVE  LengthInv' /\ MailInv' /\ SentInv' /\ BestInv'
<1>0. EngineOK /\ TaskInv /\ OutboxInv
  BY DEF PregelInv, Inv
<1>1. /\ phase = "compute" /\ todo = {} /\ superstep' = superstep + 1
      /\ mail' = sent /\ sent' = {} /\ computed' = {}
      /\ UNCHANGED <<handled, outbox, order, quotes>>
  BY DEF NextSuperstep, Barrier, states, history
<1>2. handled' = {} /\ outbox' = {} /\ superstep \in Nat
  BY <1>0, <1>1 DEF EngineOK, OutboxInv, Turn
<1>3. \A v \in Venues : v \in computed
  <2>1. \A v \in Vertices \ (todo \cup computed) : halted[v]
    BY <1>0, <1>1 DEF TaskInv
  <2> QED
    BY <1>1, <2>1 DEF WakeInv, Vertices
<1>4. \A v \in Venues : Age(v) = 1 /\ Age(v)' = 0
  BY <1>1, <1>3 DEF Age
<1>5. \A v \in Venues : Quote(v, 1)' = Quote(v, 0) /\ Quote(v, 2)' = Quote(v, 1)
  BY <1>1, <1>4 DEF Quote
<1>6. LengthInv'
  <2>1. \A v \in Venues : superstep' + Age(v)' = superstep + Age(v)
    BY <1>1, <1>2, <1>4
  <2> QED
    BY <1>1, <2>1 DEF LengthInv
<1>7. MailInv'
  <2>1. ASSUME NEW m \in mail', m.dst \in Levels, IsUpdate(m)
        PROVE  /\ superstep' >= 1
               /\ \A v \in Venues : m.dst \in Targets(v, AllTypes) => m.body = Quote(v, 1)'
    BY <1>1, <1>2, <1>5, <2>1 DEF SentInv
  <2>2. ASSUME NEW m \in mail', m.dst \in Orders
        PROVE  /\ superstep' >= 2
               /\ \A v \in Venues : Feeds(v, m.dst) => m.body = Quote(v, 2)'
    BY <1>1, <1>2, <1>5, <2>2 DEF SentInv
  <2> QED
    BY <2>1, <2>2 DEF MailInv, Feeds, IsUpdate
<1>8. SentInv' /\ BestInv'
  BY <1>1, <1>2 DEF SentInv, BestInv
<1> QED
  BY <1>6, <1>7, <1>8

\* Every step keeps the ages of the quotes in the messages.
LEMMA QuotesInvKept ==
  ASSUME PregelInv, WakeInv, LengthInv, MailInv, SentInv, BestInv, [Next]_vars
  PROVE  LengthInv' /\ MailInv' /\ SentInv' /\ BestInv'
<1>0. Inv /\ OrderOK
  BY DEF PregelInv, Inv
<1>1. CASE \E v \in Vertices : \E m \in mail : Loop(v, m)
  BY <1>1, LoopQuotes
<1>2. CASE \E v \in Venues : \E body \in UpdateBody : Quoting(v, body)
  <2>1. PICK v \in Venues, body \in UpdateBody : Quoting(v, body)
    BY <1>2
  <2>2. LengthInv' /\ QuotesKept /\ Quote(v, 0)' = body
    BY <2>1, VenueQuotes
  <2> DEFINE msgs == Messages(v, Targets(v, AllTypes), body)
  <2>3. Unhandled(v) = {} /\ Return(v, FALSE, msgs) /\ v \in Vertices /\ order' = order
    BY <2>1 DEF Quoting, Vertices
  <2>4. v \in computed'
    BY <2>3 DEF Return
  <2>5. ASSUME NEW n \in msgs
        PROVE  /\ n.dst \notin Orders
               /\ n.dst \in Levels /\ IsUpdate(n) =>
                    \A u \in Venues : n.dst \in Targets(u, AllTypes) =>
                      u \in computed' /\ n.body = Quote(u, 0)'
    <3>1. n.dst \in Targets(v, AllTypes) /\ n.body = body
      BY <2>5, MessagesSent
    <3>2. n.dst \in Levels \cup Makers
      BY <2>3, <3>1, TargetsType
    <3>3. n.dst \notin Orders
      BY <3>2, VertexAssumption
    <3>4. \A u \in Venues : n.dst \in Levels /\ n.dst \in Targets(u, AllTypes) => u = v
      BY <3>1, LinkFacts
    <3> QED
      BY <2>2, <2>4, <3>1, <3>3, <3>4
  <2> HIDE DEF msgs
  <2> QED
    BY <2>2, <2>3, <2>5, ReturnQuotes
<1>3. CASE \E v \in Vertices \ Venues : \E h \in BOOLEAN : \E msgs : Plain(v, h, msgs)
  <2>1. PICK v \in Vertices \ Venues, h \in BOOLEAN : \E msgs : Plain(v, h, msgs)
    BY <1>3
  <2>2. PICK msgs : Plain(v, h, msgs)
    BY <2>1
  <2>3. /\ Unhandled(v) = {} /\ Return(v, h, msgs) /\ quotes' = quotes
        /\ \A n \in msgs : n.dst \in Venues \/ (n.dst \in Levels /\ ~IsUpdate(n))
    BY <2>2 DEF Plain
  <2>4. superstep' = superstep /\ computed' = computed \cup {v}
    BY <2>3 DEF Return
  <2>5. LengthInv' /\ QuotesKept
    BY <2>3, <2>4, OthersQuote
  <2>6. \A o \in Orders : order'[o].best = order[o].best
    BY <1>0, <2>2 DEF Plain, IdleStep, OrderOK, OrderState
  <2>7. \A n \in msgs : n.dst \notin Orders /\ (n.dst \in Levels => ~IsUpdate(n))
    BY <2>3, VertexAssumption
  <2> QED
    BY <2>3, <2>5, <2>6, <2>7, ReturnQuotes
<1>4. CASE Build \/ UNCHANGED vars
  <2>1. UNCHANGED <<superstep, mail, handled, outbox, sent, computed, order, quotes>>
    BY <1>4 DEF Build, vars, engine, states, history
  <2>2. \A u : \A k : Quote(u, k)' = Quote(u, k)
    BY <2>1 DEF Quote, Age
  <2>3. LengthInv'
    BY <2>1 DEF LengthInv, Age
  <2>4. QuotesKept
    BY <2>1, <2>2 DEF QuotesKept
  <2>5. MailInv'
    BY <2>1, <2>4, MailKept
  <2>6. SentInv'
    BY <2>1, <2>2 DEF SentInv, Feeds, IsUpdate
  <2>7. BestInv'
    BY <2>1, <2>2 DEF BestInv, Feeds, OwnSide
  <2> QED
    BY <2>3, <2>5, <2>6, <2>7
<1>5. CASE NextSuperstep
  BY <1>5, AdvanceQuotes
<1> QED
  BY <1>0, <1>1, <1>2, <1>3, <1>4, <1>5, StepForm

----------------------------------------------------------------------------
(* The theorems *)

\* At the start there is no mail, no quote and nobody is idle.
LEMMA InitBook == Init => BookInv
<1> SUFFICES ASSUME Init PROVE BookInv
  OBVIOUS
<1>1. PregelInv
  BY InitPregel
<1>2. /\ superstep = 0 /\ phase = "build" /\ mail = {} /\ handled = {} /\ outbox = {} /\ sent = {}
      /\ computed = {} /\ halted = [v \in Vertices |-> FALSE]
      /\ order = [o \in Orders |-> [filled |-> 0, active |-> TRUE, best |-> 0, idle |-> 0]]
      /\ last_offer = [o \in Orders |-> -1] /\ quotes = [v \in Venues |-> <<>>]
  BY DEF Init
<1>3. WakeInv
  BY <1>2 DEF WakeInv, Vertices
<1>4. IdleInv
  <2>1. ASSUME NEW o \in Orders
        PROVE  /\ order[o].idle = superstep - last_offer[o] - (IF o \in computed THEN 0 ELSE 1)
               /\ halted[o] <=> order[o].idle > IdleLimit
    <3>1. order[o].idle = 0 /\ last_offer[o] = -1 /\ ~halted[o]
      BY <1>2 DEF Vertices
    <3>2. superstep - last_offer[o] - 1 = 0 /\ ~(0 > IdleLimit)
      BY <1>2, <3>1, ParameterAssumption
    <3> QED
      BY <1>2, <3>1, <3>2
  <2> QED
    BY <1>2, <2>1 DEF IdleInv
<1>5. LengthInv
  <2>1. quotes \in [Venues -> Seq(UpdateBody)]
    BY <1>2
  <2>2. \A v \in Venues : Len(quotes[v]) = 0 /\ Age(v) = 0
    BY <1>2, <2>1 DEF Age
  <2> QED
    BY <1>2, <2>1, <2>2 DEF LengthInv
<1>6. MailInv /\ SentInv /\ BestInv
  BY <1>2 DEF MailInv, SentInv, BestInv
<1> QED
  BY <1>1, <1>3, <1>4, <1>5, <1>6 DEF BookInv

\* The whole invariant is inductive.
LEMMA NextBook == BookInv /\ [Next]_vars => BookInv'
  BY NextPregel, WakeKept, IdleKept, QuotesInvKept DEF BookInv

\* Who has mail, how long an order has been idle and which quote each message
\* carries, at every step of a superstep.
THEOREM BookInvariance == Spec => []BookInv
  BY InitBook, NextBook, PTL DEF Spec

\* At the end of a superstep all venues and orders have computed, and from the
\* first one on all levels.
LEMMA AllComputed ==
  ASSUME BookInv, Barrier
  PROVE  /\ Venues \subseteq computed /\ Orders \subseteq computed
         /\ superstep >= 1 => Levels \subseteq computed
<1>1. TaskInv /\ WakeInv /\ IdleInv /\ phase = "compute" /\ todo = {}
  BY DEF BookInv, PregelInv, Barrier
<1>2. \A v \in Vertices : v \in computed \/ (halted[v] /\ MailOf(v) = {})
  BY <1>1 DEF TaskInv
<1>3. Venues \subseteq computed
  BY <1>1, <1>2 DEF WakeInv, Vertices
<1>4. Orders \subseteq computed
  BY <1>1 DEF IdleInv
<1>5. ASSUME superstep >= 1, NEW l \in Levels PROVE l \in computed
  BY <1>1, <1>2, <1>5 DEF WakeInv, Vertices, MailOf
<1> QED
  BY <1>3, <1>4, <1>5

\* Nobody on the book falls silent: at the end of a superstep every level and
\* market maker has mail for the next one, and from the second superstep on
\* every order.
THEOREM EveryoneWoken == Spec => []AllWoken
<1>1. ASSUME BookInv, Barrier, NEW v \in Venues, NEW x \in Targets(v, AllTypes)
      PROVE  /\ \E m \in sent : m.dst = x
             /\ x \in Levels /\ superstep >= 1 =>
                  \A o \in Targets(x, {1}) : \E m \in sent : m.dst = o
  BY <1>1, AllComputed DEF BookInv, WakeInv
<1>2. BookInv => AllWoken
  BY <1>1 DEF AllWoken
<1> QED
  BY <1>2, BookInvariance, PTL

\* steps_without_fill_ is the age of the order's last offer, and the order is
\* halted exactly when that exceeds the limit.
THEOREM IdleExact == Spec => []HaltedIffIdle
<1>1. ASSUME BookInv, Barrier, NEW o \in Orders
      PROVE  /\ order[o].idle = superstep - last_offer[o]
             /\ halted[o] <=> TooIdle(superstep - last_offer[o])
  <2>1. o \in computed /\ IdleInv /\ EngineOK /\ OrderOK
    BY <1>1, AllComputed DEF BookInv, PregelInv, Inv
  <2>2. /\ order[o].idle = superstep - last_offer[o] - 0
        /\ halted[o] <=> order[o].idle > IdleLimit
    BY <2>1 DEF IdleInv
  <2>3. superstep - last_offer[o] - 0 = superstep - last_offer[o]
    BY <2>1 DEF EngineOK, OrderOK
  <2> QED
    BY <2>2, <2>3 DEF TooIdle
<1>2. BookInv => HaltedIffIdle
  BY <1>1 DEF HaltedIffIdle
<1> QED
  BY <1>2, BookInvariance, PTL

\* An order decides on its own side of the quote its venue made two supersteps
\* ago, whatever the order of messages in an inbox and however often the order
\* has halted in between.
THEOREM QuotesTimely == Spec => []QuoteAge
<1>1. ASSUME BookInv, Barrier, superstep >= 2, NEW v \in Venues, NEW l \in Levels,
             l \in Targets(v, AllTypes), NEW o \in Targets(l, {1})
      PROVE  order[o].best = OwnSide(o, quotes[v][3])
  <2>1. l \in Vertices /\ o \in Orders
    BY TargetsType DEF Vertices
  <2>2. Feeds(v, o)
    BY <1>1 DEF Feeds
  <2>3. v \in computed /\ o \in computed /\ BestInv
    BY <1>1, <2>1, AllComputed DEF BookInv
  <2>4. Quote(v, 2) = quotes[v][3]
    BY <2>3 DEF Quote, Age
  <2> QED
    BY <1>1, <2>1, <2>2, <2>3, <2>4 DEF BestInv
<1>2. BookInv => QuoteAge
  BY <1>1 DEF QuoteAge
<1> QED
  BY <1>2, BookInvariance, PTL
============================================================================
