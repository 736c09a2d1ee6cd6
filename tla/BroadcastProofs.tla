-------------------------- MODULE BroadcastProofs --------------------------
(***************************************************************************)
(* FilterDistributor::broadcast, on both sides.                             *)
(*                                                                         *)
(* The clients.  For every set of downlink formats, filters and messages   *)
(* and every number of clients, FilterDistributor is type correct, asks    *)
(* the input for what its clients need, and implements PubSub.  Behind all *)
(* three is FilterIsCombination: the filter last passed upstream is the    *)
(* combination of the live clients' filters.                               *)
(*                                                                         *)
(* The message.  For every set of codewords and of client settings, the    *)
(* residual a Message works out with the table of crc.cc is the remainder  *)
(* by the Mode S polynomial; a client that wants messages as they were     *)
(* received gets them so; and a client that has the CRC checked is handed  *)
(* a long message only as it was sent, up to two wrong bits of it mended   *)
(* or the message held back.  Behind them is MessageInv: what the clients  *)
(* share of a message never depends on which of them asked for it first.   *)
(* The arithmetic rests on three facts.  The CRC is linear.  The powers    *)
(* x^0 ... x^111 have different remainders: no two wrong bits cancel.  The *)
(* generator has an even number of terms, so each of those remainders has  *)
(* an odd number of bits: no two wrong bits look like one.                 *)
(***************************************************************************)
EXTENDS FilterDistributor, ModesMessage, FiniteSetTheorems, WellFoundedInduction, TLAPS

\* The filter last passed to filter_notifier is exactly the combination of the
\* filters of the clients that are not deleted.
FilterIsCombination == filter = upstream_filter(clients)

Inv == TypeOK /\ FilterIsCombination

-----------------------------------------------------------------------------
(* Filters *)

\* inplace_combine of filters is a filter.
LEMMA CombineAllType ==
  ASSUME NEW S, S \subseteq Filter
  PROVE  CombineAll(S) \in Filter
BY DEF CombineAll, Filter

\* Filter::operator() is monotone: a filter with every receive_* of another
\* accepts whatever that one accepts.
LEMMA AcceptsMonotone ==
  ASSUME NEW f, NEW g, NEW m,
         f.receive_df \subseteq g.receive_df, f.receive \subseteq g.receive,
         Accepts(f, m)
  PROVE  Accepts(g, m)
BY DEF Accepts

\* A combination accepts whatever one of its parts accepts.
LEMMA CombineAllCovers ==
  ASSUME NEW S, NEW f \in S, NEW m, Accepts(f, m)
  PROVE  Accepts(CombineAll(S), m)
<1>1. f.receive_df \subseteq CombineAll(S).receive_df
  BY DEF CombineAll
<1>2. f.receive \subseteq CombineAll(S).receive
  BY DEF CombineAll
<1> QED
  BY <1>1, <1>2, AcceptsMonotone

LEMMA UpstreamType ==
  ASSUME NEW c, c \in [DOMAIN c -> Client]
  PROVE  upstream_filter(c) \in Filter
<1>1. {c[h].filter : h \in LiveIn(c)} \subseteq Filter
  BY DEF LiveIn, Client
<1> QED
  BY <1>1, CombineAllType DEF upstream_filter

LEMMA EmptyFilterType == EmptyFilter \in Filter
BY DEF EmptyFilter, Filter

\* Marking deleted clients or erasing them leaves the combination alone.
LEMMA PurgedLive ==
  /\ LiveIn(Purged) = Live
  /\ \A h \in Live : Purged[h] = clients[h]
  /\ DOMAIN Purged = Live
BY DEF Purged, Live, LiveIn

-----------------------------------------------------------------------------
(* The invariant *)

LEMMA InitInv == Init => Inv
<1> SUFFICES ASSUME Init PROVE Inv
  OBVIOUS
<1> USE DEF Init
<1>1. TypeOK
  <2>1. next_handle \in 0..MaxHandle
    BY DistributorAssumption
  <2>2. DOMAIN clients \subseteq 0..next_handle-1 /\ clients \in [DOMAIN clients -> Client]
    OBVIOUS
  <2>3. Plain("STATUS") \in Message
    BY DEF Message
  <2> QED
    BY <2>1, <2>2, <2>3, EmptyFilterType DEF TypeOK
<1>2. FilterIsCombination
  <2>1. LiveIn(clients) = {}
    BY DEF LiveIn
  <2> QED
    BY <2>1 DEF FilterIsCombination, upstream_filter, CombineAll, EmptyFilter
<1> QED
  BY <1>1, <1>2 DEF Inv

LEMMA AddClientInv ==
  ASSUME Inv, NEW f \in Filters, add_client(f)
  PROVE  Inv'
<1> USE DEF Inv, add_client
<1>1. next_handle' \in 0..MaxHandle
  BY DistributorAssumption DEF TypeOK
<1>2. DOMAIN clients' \subseteq 0..next_handle'-1
  BY DEF TypeOK
<1>3. clients' \in [DOMAIN clients' -> Client]
  <2>1. [filter |-> f, deleted |-> FALSE] \in Client
    BY DistributorAssumption DEF Client
  <2> QED
    BY <2>1 DEF TypeOK
<1>4. filter' \in Filter
  BY <1>3, UpstreamType
<1>5. delivered' \in [to : SUBSET (0..next_handle'-1), msg : Message]
  BY DEF TypeOK
<1> QED
  BY <1>1, <1>2, <1>3, <1>4, <1>5 DEF TypeOK, FilterIsCombination

LEMMA UpdateClientFilterInv ==
  ASSUME Inv, NEW h \in Live, NEW f \in Filters, update_client_filter(h, f)
  PROVE  Inv'
<1> USE DEF Inv, update_client_filter
<1>1. clients' \in [DOMAIN clients' -> Client] /\ DOMAIN clients' = DOMAIN clients
  BY DistributorAssumption DEF TypeOK, Client, Live, LiveIn
<1>2. filter' \in Filter
  BY <1>1, UpstreamType
<1> QED
  BY <1>1, <1>2 DEF TypeOK, FilterIsCombination

LEMMA RemoveClientInv ==
  ASSUME Inv, NEW h \in Live, remove_client(h)
  PROVE  Inv'
<1> USE DEF Inv, remove_client
<1>1. clients' \in [DOMAIN clients' -> Client] /\ DOMAIN clients' = DOMAIN clients
  BY DEF TypeOK, Client, Live, LiveIn
<1>2. filter' \in Filter
  BY <1>1, UpstreamType
<1> QED
  BY <1>1, <1>2 DEF TypeOK, FilterIsCombination

LEMMA BroadcastInv ==
  ASSUME Inv, NEW m \in Messages, broadcast(m)
  PROVE  Inv'
<1> USE DEF Inv, broadcast
<1>1. Live \subseteq DOMAIN clients
  BY DEF Live, LiveIn
<1>2. clients' \in [DOMAIN clients' -> Client]
  BY <1>1 DEF TypeOK, Purged
<1>3. DOMAIN clients' \subseteq 0..next_handle'-1
  BY <1>1 DEF TypeOK, Purged
<1>4. delivered' \in [to : SUBSET (0..next_handle'-1), msg : Message]
  BY <1>1, DistributorAssumption DEF TypeOK
<1>5. FilterIsCombination'
  <2>1. {clients'[h].filter : h \in LiveIn(clients')}
          = {clients[h].filter : h \in LiveIn(clients)}
    BY PurgedLive DEF Live
  <2> QED
    BY <2>1 DEF FilterIsCombination, upstream_filter
<1> QED
  BY <1>2, <1>3, <1>4, <1>5 DEF TypeOK

LEMMA NextInv == Inv /\ [Next]_vars => Inv'
<1> SUFFICES ASSUME Inv, [Next]_vars PROVE Inv'
  OBVIOUS
<1>1. CASE \E f \in Filters : add_client(f)
  BY <1>1, AddClientInv
<1>2. CASE \E h \in Live : \E f \in Filters : update_client_filter(h, f)
  BY <1>2, UpdateClientFilterInv
<1>3. CASE \E h \in Live : remove_client(h)
  BY <1>3, RemoveClientInv
<1>4. CASE \E m \in Messages : broadcast(m)
  BY <1>4, BroadcastInv
<1>5. CASE UNCHANGED vars
  BY <1>5 DEF vars, Inv, TypeOK, FilterIsCombination, upstream_filter, LiveIn
<1> QED
  BY <1>1, <1>2, <1>3, <1>4, <1>5 DEF Next

\* The invariant holds in every state the distributor can reach.
THEOREM Invariance == Spec => []Inv
BY InitInv, NextInv, PTL DEF Spec

\* The distributor's state is type correct.
THEOREM TypeCorrect == Spec => []TypeOK
BY Invariance, PTL DEF Inv

-----------------------------------------------------------------------------
(* What clients need is asked for *)

LEMMA InvCovers == Inv => UpstreamCoversClients
<1> SUFFICES ASSUME Inv, NEW h \in Live, NEW m \in Message,
                    Accepts(clients[h].filter, m)
             PROVE  Accepts(filter, m)
  BY DEF UpstreamCoversClients
<1>1. clients[h].filter \in {clients[k].filter : k \in LiveIn(clients)}
  BY DEF Live
<1> QED
  BY <1>1, CombineAllCovers DEF Inv, FilterIsCombination, upstream_filter

\* At every moment the filter last passed to BeastInput::set_filter accepts
\* each message that some live client accepts.
THEOREM ClientsNotStarved == Spec => []UpstreamCoversClients
BY Invariance, InvCovers, PTL

-----------------------------------------------------------------------------
(* Refinement: erasure is invisible, everything else is a PubSub operation *)

\* The subscriptions of the abstract hub.
Subs == [h \in Live |-> clients[h].filter]

\* What the hub's subscribers are interested in is the combined filter.
LEMMA InterestIsFilter ==
  ASSUME NEW c, NEW s, s = [h \in LiveIn(c) |-> c[h].filter]
  PROVE  Hub!Interest(s) = upstream_filter(c)
<1>1. {s[h] : h \in DOMAIN s} = {c[h].filter : h \in LiveIn(c)}
  OBVIOUS
<1> QED
  BY <1>1 DEF Hub!Interest, Hub!CombineAll, upstream_filter, CombineAll

LEMMA RefineInit == Init => Hub!Init
<1> SUFFICES ASSUME Init PROVE Hub!Init
  OBVIOUS
<1>1. Live = {}
  BY DEF Init, Live, LiveIn
<1>2. Subs = [h \in {} |-> Hub!EmptyFilter]
  BY <1>1 DEF Subs
<1>3. 0..next_handle-1 = {}
  BY DEF Init
<1> QED
  BY <1>2, <1>3 DEF Init, Hub!Init, Subs, EmptyFilter, Hub!EmptyFilter, Plain, NoDF,
       Hub!Plain, Hub!NoDF

LEMMA RefineAdd ==
  ASSUME Inv, NEW f \in Filters, add_client(f)
  PROVE  Hub!Subscribe(next_handle, f)
<1>1. next_handle \notin 0..next_handle-1 /\ next_handle \in Nat
  BY DEF add_client, Inv, TypeOK
<1>2. 0..next_handle'-1 = (0..next_handle-1) \cup {next_handle}
  BY <1>1 DEF add_client
<1>3. LiveIn(clients') = Live \cup {next_handle}
  BY <1>1 DEF add_client, Live, LiveIn, Inv, TypeOK
<1>4. Subs' = [k \in DOMAIN Subs \cup {next_handle} |->
                 IF k = next_handle THEN f ELSE Subs[k]]
  BY <1>1, <1>3 DEF add_client, Subs, Live, LiveIn, Inv, TypeOK
<1>5. filter' = Hub!Interest(Subs')
  <2>1. Subs' = [k \in LiveIn(clients') |-> clients'[k].filter]
    BY DEF Subs, Live
  <2>2. filter' = upstream_filter(clients')
    BY DEF add_client
  <2> QED
    BY <2>1, <2>2, InterestIsFilter
<1> QED
  BY <1>1, <1>2, <1>4, <1>5 DEF add_client, Hub!Subscribe, Subs

LEMMA RefineUpdate ==
  ASSUME Inv, NEW h \in Live, NEW f \in Filters, update_client_filter(h, f)
  PROVE  Hub!Resubscribe(h, f)
<1>1. LiveIn(clients') = Live
  BY DEF update_client_filter, Live, LiveIn, Inv, TypeOK, Client
<1>2. Subs' = [Subs EXCEPT ![h] = f]
  BY <1>1 DEF update_client_filter, Subs, Live, LiveIn, Inv, TypeOK, Client
<1>3. filter' = Hub!Interest(Subs')
  <2>1. Subs' = [k \in LiveIn(clients') |-> clients'[k].filter]
    BY DEF Subs, Live
  <2>2. filter' = upstream_filter(clients')
    BY DEF update_client_filter
  <2> QED
    BY <2>1, <2>2, InterestIsFilter
<1> QED
  BY <1>2, <1>3 DEF update_client_filter, Hub!Resubscribe, Subs

LEMMA RefineRemove ==
  ASSUME Inv, NEW h \in Live, remove_client(h)
  PROVE  Hub!Unsubscribe(h)
<1>1. LiveIn(clients') = Live \ {h}
  BY DEF remove_client, Live, LiveIn, Inv, TypeOK, Client
<1>2. Subs' = [k \in DOMAIN Subs \ {h} |-> Subs[k]]
  BY <1>1 DEF remove_client, Subs, Live, LiveIn, Inv, TypeOK, Client
<1>3. filter' = Hub!Interest(Subs')
  <2>1. Subs' = [k \in LiveIn(clients') |-> clients'[k].filter]
    BY DEF Subs, Live
  <2>2. filter' = upstream_filter(clients')
    BY DEF remove_client
  <2> QED
    BY <2>1, <2>2, InterestIsFilter
<1> QED
  BY <1>2, <1>3 DEF remove_client, Hub!Unsubscribe, Subs

LEMMA RefineBroadcast ==
  ASSUME Inv, NEW m \in Messages, broadcast(m)
  PROVE  Hub!Publish(m)
<1> USE DEF broadcast
<1>1. LiveIn(clients') = Live /\ \A h \in Live : clients'[h] = clients[h]
  BY PurgedLive
<1>2. UNCHANGED Subs
  BY <1>1 DEF Subs, Live
<1>3. {h \in Live : Accepts(clients[h].filter, m)}
        = {h \in DOMAIN Subs : Hub!Accepts(Subs[h], m)}
  BY DEF Subs, Accepts, Hub!Accepts, crc_bad, crc_correctable, Hub!crc_bad,
         Hub!crc_correctable
<1> QED
  BY <1>2, <1>3 DEF Hub!Publish, Subs

LEMMA RefineNext == Inv /\ [Next]_vars => [Hub!Next]_(Hub!vars)
<1> SUFFICES ASSUME Inv, [Next]_vars PROVE [Hub!Next]_(Hub!vars)
  OBVIOUS
<1>1. CASE \E f \in Filters : add_client(f)
  <2>1. PICK f \in Filters : add_client(f)
    BY <1>1
  <2>2. next_handle \in Handle
    BY <2>1, DistributorAssumption DEF add_client, Handle, Inv, TypeOK
  <2> QED
    BY <2>1, <2>2, RefineAdd DEF Hub!Next
<1>2. CASE \E h \in Live : \E f \in Filters : update_client_filter(h, f)
  <2>1. PICK h \in Live, f \in Filters : update_client_filter(h, f)
    BY <1>2
  <2>2. h \in Handle
    BY DistributorAssumption DEF Live, LiveIn, Handle, Inv, TypeOK
  <2> QED
    BY <2>1, <2>2, RefineUpdate DEF Hub!Next
<1>3. CASE \E h \in Live : remove_client(h)
  <2>1. PICK h \in Live : remove_client(h)
    BY <1>3
  <2>2. h \in DOMAIN [k \in Live |-> clients[k].filter]
    OBVIOUS
  <2> QED
    BY <2>1, <2>2, RefineRemove DEF Hub!Next
<1>4. CASE \E m \in Messages : broadcast(m)
  BY <1>4, RefineBroadcast DEF Hub!Next
<1>5. CASE UNCHANGED vars
  BY <1>5 DEF vars, Hub!vars, Live, LiveIn
<1> QED
  BY <1>1, <1>2, <1>3, <1>4, <1>5 DEF Next

\* The distributor implements the publish/subscribe hub: marking clients
\* deleted and erasing them in a later broadcast is invisible to everyone.
THEOREM Refinement == Spec => ImplementsPubSub
<1>1. Init => Hub!Init
  BY RefineInit
<1>2. Inv /\ [Next]_vars => [Hub!Next]_(Hub!vars)
  BY RefineNext
<1> QED
  BY <1>1, <1>2, Invariance, PTL DEF Spec, ImplementsPubSub, Hub!Spec

-----------------------------------------------------------------------------
(* Loops *)

\* Induction, for a set instead of a predicate.
LEMMA Induction ==
  ASSUME NEW S, 0 \in S, \A k \in Nat : k \in S => k + 1 \in S
  PROVE  Nat \subseteq S
<1> SUFFICES ASSUME Nat \ S # {} PROVE FALSE
  OBVIOUS
<1>1. PICK x \in Nat \ S : \A y \in Nat \ S : <<y, x>> \notin OpToRel(<, Nat)
  BY NatLessThanWellFounded, WFMin
<1>2. \A y \in Nat \ S : ~(y < x)
  BY <1>1 DEF OpToRel
<1>3. x # 0 /\ x - 1 \in Nat /\ (x - 1) + 1 = x
  OBVIOUS
<1>4. x - 1 \in S
  BY <1>2, <1>3
<1> QED
  BY <1>3, <1>4

Loop(f, V, start, N, step) ==
  /\ f \in [0..N -> V] /\ f[0] = start
  /\ \A k \in 1..N : f[k] = step[k][f[k - 1]]

\* A loop that keeps to a set of values has a run, however long.
LEMMA LoopRuns ==
  ASSUME NEW V, NEW start \in V, NEW N \in Nat, NEW step \in [1..N -> [V -> V]]
  PROVE  \E f : Loop(f, V, start, N, step)
<1> DEFINE Runs(f, m) == /\ f \in [0..m -> V] /\ f[0] = start
                         /\ \A k \in 1..m : f[k] = step[k][f[k - 1]]
<1> DEFINE S == {m \in Nat : m <= N => \E f : Runs(f, m)}
<1>1. 0 \in S
  <2>1. Runs([k \in 0..0 |-> start], 0)
    OBVIOUS
  <2> QED
    BY <2>1
<1>2. ASSUME NEW m \in Nat, m \in S PROVE m + 1 \in S
  <2> SUFFICES ASSUME m + 1 <= N PROVE \E f : Runs(f, m + 1)
    OBVIOUS
  <2>1. PICK f : Runs(f, m)
    BY <1>2
  <2>2. PICK v \in V : v = step[m + 1][f[m]]
    BY <2>1
  <2> DEFINE g == [k \in 0..m+1 |-> IF k <= m THEN f[k] ELSE v]
  <2>3. g \in [0..m+1 -> V] /\ g[0] = start
    BY <2>1
  <2>4. ASSUME NEW k \in 1..m+1 PROVE g[k] = step[k][g[k - 1]]
    <3>1. CASE k = m + 1
      <4>1. g[k] = v /\ g[k - 1] = f[m]
        BY <3>1
      <4> QED
        BY <2>2, <3>1, <4>1
    <3>2. CASE k # m + 1
      <4>1. k \in 1..m /\ g[k] = f[k] /\ g[k - 1] = f[k - 1]
        BY <3>2
      <4> QED
        BY <2>1, <4>1
    <3> QED
      BY <3>1, <3>2
  <2>5. Runs(g, m + 1)
    <3> HIDE DEF g
    <3> QED
      BY <2>3, <2>4
  <2> QED
    <3> HIDE DEF g, Runs
    <3> QED
      BY <2>5
<1>3. N \in S
  <2> HIDE DEF S
  <2> QED
    BY <1>1, <1>2, Induction
<1>4. PICK f : Runs(f, N)
  BY <1>3
<1>5. Loop(f, V, start, N, step)
  BY <1>4 DEF Loop
<1> QED
  BY <1>5

LEMMA LoopKeeps ==
  ASSUME NEW V, NEW N \in Nat, NEW f, f[0] \in V,
         \A k \in 1..N : f[k - 1] \in V => f[k] \in V
  PROVE  \A k \in 0..N : f[k] \in V
<1> DEFINE S == {k \in Nat : k <= N => f[k] \in V}
<1>1. 0 \in S
  OBVIOUS
<1>2. ASSUME NEW k \in Nat, k \in S PROVE k + 1 \in S
  BY <1>2
<1>3. Nat \subseteq S
  <2> HIDE DEF S
  <2> QED
    BY <1>1, <1>2, Induction
<1> QED
  BY <1>3

-----------------------------------------------------------------------------
(* One bit at a time *)

Word == SUBSET (0..23)

\* Bit b of a word that is shifted.
LEMMA ShiftBits ==
  ASSUME NEW c \in Word
  PROVE  /\ Shift(c) \in Word
         /\ \A b \in 0..23 :
              b \in Shift(c) <=> (b - 1 \in c <=> ~(23 \in c /\ b \in crc_polynomial))
<1>1. c \subseteq 0..23 /\ crc_polynomial \subseteq 0..23
  BY DEF Word, crc_polynomial
<1>2. \A b : b \in {d + 1 : d \in c \ {23}} <=> b \in 1..23 /\ b - 1 \in c
  BY <1>1
<1>3. CASE 23 \in c
  <2>1. PICK a : a = {d + 1 : d \in c \ {23}}
    OBVIOUS
  <2>2. Shift(c) = (a \ crc_polynomial) \cup (crc_polynomial \ a)
    BY <1>3, <2>1 DEF Shift, Xor
  <2>3. \A b \in 0..23 : b \in a <=> b - 1 \in c
    BY <1>1, <1>2, <2>1
  <2>4. a \subseteq 0..23
    BY <1>2, <2>1
  <2> QED
    BY <1>1, <1>3, <2>2, <2>3, <2>4 DEF Word
<1>4. CASE 23 \notin c
  BY <1>1, <1>2, <1>4 DEF Shift, Xor, Word
<1> QED
  BY <1>3, <1>4

LEMMA XorWord ==
  ASSUME NEW a \in Word, NEW b \in Word
  PROVE  Xor(a, b) \in Word
BY DEF Xor, Word

LEMMA XorSame ==
  ASSUME NEW a \in Word, NEW b \in Word, NEW c \in Word, NEW d \in Word,
         \A i \in 0..23 : (i \in a <=> ~(i \in b)) <=> (i \in c <=> ~(i \in d))
  PROVE  Xor(a, b) = Xor(c, d)
<1>1. ASSUME NEW i PROVE i \in Xor(a, b) <=> (i \in a <=> ~(i \in b))
  BY DEF Xor
<1>2. ASSUME NEW i PROVE i \in Xor(c, d) <=> (i \in c <=> ~(i \in d))
  BY DEF Xor
<1>3. Xor(a, b) \in Word /\ Xor(c, d) \in Word
  BY XorWord
<1>4. ASSUME NEW i \in 0..23 PROVE i \in Xor(a, b) <=> i \in Xor(c, d)
  BY <1>1, <1>2
<1> QED
  BY <1>3, <1>4 DEF Word

LEMMA ShiftLinear ==
  ASSUME NEW a \in Word, NEW b \in Word
  PROVE  Shift(Xor(a, b)) = Xor(Shift(a), Shift(b))
<1>1. PICK x \in Word : x = Xor(a, b)
  BY XorWord
<1>2. \A i : i \in x <=> (i \in a <=> ~(i \in b))
  BY <1>1 DEF Xor
<1>3. Shift(a) \in Word /\ Shift(b) \in Word /\ Shift(x) \in Word
  BY ShiftBits
<1>4. ASSUME NEW i \in 0..23 PROVE i \in Shift(x) <=> (i \in Shift(a) <=> ~(i \in Shift(b)))
  <2>1. i \in Shift(a) <=> (i - 1 \in a <=> ~(23 \in a /\ i \in crc_polynomial))
    BY ShiftBits
  <2>2. i \in Shift(b) <=> (i - 1 \in b <=> ~(23 \in b /\ i \in crc_polynomial))
    BY ShiftBits
  <2>3. i \in Shift(x) <=> (i - 1 \in x <=> ~(23 \in x /\ i \in crc_polynomial))
    BY ShiftBits
  <2>4. /\ i - 1 \in x <=> (i - 1 \in a <=> ~(i - 1 \in b))
        /\ 23 \in x <=> (23 \in a <=> ~(23 \in b))
    BY <1>2
  <2> QED
    BY <2>1, <2>2, <2>3, <2>4
<1>5. Shift(x) = Xor(Shift(a), Shift(b))
  BY <1>3, <1>4 DEF Xor, Word
<1> QED
  BY <1>1, <1>5

\* Without a bit at the top to carry, a shift is a shift.
LEMMA ShiftLow ==
  ASSUME NEW c \in Word, 23 \notin c
  PROVE  Shift(c) = {b + 1 : b \in c}
BY DEF Shift, Xor

Shift8(c) == Shift(Shift(Shift(Shift(Shift(Shift(Shift(Shift(c))))))))

\* crcgen is eight shifts.
LEMMA crcgenShifts ==
  ASSUME NEW c \in Word
  PROVE  crcgen(c) = Shift8(c) /\ crcgen(c) \in Word
<1> DEFINE Rec(f) == f = [k \in 0..8 |-> IF k = 0 THEN c ELSE Shift(f[k - 1])]
<1> DEFINE step == [k \in 1..8 |-> [v \in Word |-> Shift(v)]]
<1>1. \A v \in Word : Shift(v) \in Word
  BY ShiftBits
<1>2. step \in [1..8 -> [Word -> Word]]
  BY <1>1
<1>3. PICK f : Loop(f, Word, c, 8, step)
  <2> HIDE DEF step
  <2> QED
    BY <1>2, LoopRuns
<1>4. ASSUME NEW k \in 1..8 PROVE f[k] = Shift(f[k - 1])
  <2>1. f[k - 1] \in Word
    BY <1>3 DEF Loop
  <2> QED
    BY <1>3, <2>1 DEF Loop
<1>5. Rec(f)
  <2>1. f = [k \in 0..8 |-> f[k]] /\ f[0] = c
    BY <1>3 DEF Loop
  <2>2. ASSUME NEW k \in 0..8 PROVE f[k] = IF k = 0 THEN c ELSE Shift(f[k - 1])
    <3>1. k = 0 \/ k \in 1..8
      OBVIOUS
    <3> QED
      BY <1>4, <2>1, <3>1
  <2> QED
    BY <2>1, <2>2
<1>6. PICK g : crcgen(c) = g[8] /\ Rec(g)
  <2>1. \E g : Rec(g)
    <3> HIDE DEF Rec
    <3> QED
      BY <1>5
  <2>2. PICK g : g = CHOOSE h : Rec(h)
    OBVIOUS
  <2>3. Rec(g)
    BY <2>1, <2>2
  <2>4. crcgen(c) = g[8]
    BY <2>2 DEF crcgen
  <2> QED
    BY <2>3, <2>4
<1>7. g[0] = c
  BY <1>6
<1>8. \A k \in 1..8 : g[k] = Shift(g[k - 1])
  <2> SUFFICES ASSUME NEW k \in 1..8 PROVE g[k] = Shift(g[k - 1])
    OBVIOUS
  <2>1. k \in 0..8 /\ k # 0
    OBVIOUS
  <2> QED
    BY <1>6, <2>1
<1>9. /\ g[1] = Shift(g[0]) /\ g[2] = Shift(g[1]) /\ g[3] = Shift(g[2]) /\ g[4] = Shift(g[3])
      /\ g[5] = Shift(g[4]) /\ g[6] = Shift(g[5]) /\ g[7] = Shift(g[6]) /\ g[8] = Shift(g[7])
  <2> HIDE DEF Rec
  <2> QED
    BY <1>8
<1>10. crcgen(c) = Shift8(c)
  <2> HIDE DEF Rec
  <2> QED
    BY <1>6, <1>7, <1>9 DEF Shift8
<1>11. g[8] \in Word
  <2> HIDE DEF Rec
  <2> QED
    BY <1>7, <1>9, <1>1
<1> QED
  BY <1>6, <1>10, <1>11
LEMMA crcgenLinear ==
  ASSUME NEW a \in Word, NEW b \in Word
  PROVE  crcgen(Xor(a, b)) = Xor(crcgen(a), crcgen(b))
<1> DEFINE Both(x, y, z) == x \in Word /\ y \in Word /\ z = Xor(x, y)
<1>1. ASSUME NEW x, NEW y, NEW z, Both(x, y, z) PROVE Both(Shift(x), Shift(y), Shift(z))
  BY <1>1, ShiftLinear, ShiftBits
<1>2. Both(a, b, Xor(a, b))
  OBVIOUS
<1>3. Both(Shift8(a), Shift8(b), Shift8(Xor(a, b)))
  <2> HIDE DEF Both
  <2> QED
    BY <1>1, <1>2 DEF Shift8
<1> QED
  BY <1>3, XorWord, crcgenShifts

\* Bits that no shift carries out.
LEMMA crcgenLow ==
  ASSUME NEW c, c \subseteq 0..15
  PROVE  crcgen(c) = {b + 8 : b \in c}
<1> DEFINE Up(x, k) == x = {b + k : b \in c}
<1>1. ASSUME NEW x, NEW k \in 0..7, Up(x, k) PROVE Up(Shift(x), k + 1)
  <2>1. x \in Word /\ 23 \notin x
    BY <1>1 DEF Word
  <2>2. Shift(x) = {b + 1 : b \in x}
    BY <2>1, ShiftLow
  <2> QED
    BY <1>1, <2>2
<1>2. Up(c, 0)
  <2>1. \A b \in c : b + 0 = b
    OBVIOUS
  <2> QED
    BY <2>1
<1>3. Up(Shift8(c), 8)
  <2> HIDE DEF Up
  <2>1. \A x : \A k \in 0..7 : Up(x, k) => Up(Shift(x), k + 1)
    BY <1>1
  <2>2. PICK c2 : Up(c2, 2) /\ c2 = Shift(Shift(c))
    BY <1>2, <2>1
  <2>3. PICK c4 : Up(c4, 4) /\ c4 = Shift(Shift(c2))
    BY <2>2, <2>1
  <2>4. PICK c6 : Up(c6, 6) /\ c6 = Shift(Shift(c4))
    BY <2>3, <2>1
  <2>5. Up(Shift(Shift(c6)), 8)
    BY <2>4, <2>1
  <2> QED
    BY <2>2, <2>3, <2>4, <2>5 DEF Shift8
<1>4. c \in Word
  BY DEF Word
<1> QED
  BY <1>3, <1>4, crcgenShifts

\* A turn of the loop of crc() is eight shifts of the word with the byte put
\* over its top: the table holds them for the top byte, and nothing of the rest
\* is carried out.
LEMMA CrcStepShifts ==
  ASSUME NEW c \in Word, NEW byte \in SUBSET (0..7)
  PROVE  /\ CrcStep(c, byte) = crcgen(Xor(c, {b + 16 : b \in byte}))
         /\ CrcStep(c, byte) \in Word
<1> DEFINE low  == c \cap (0..15)
<1> DEFINE top  == Xor(byte, {b - 16 : b \in c \cap (16..23)})
<1> DEFINE high == {b + 16 : b \in top}
<1>1. \A b : b \in {d - 16 : d \in c \cap (16..23)} <=> b \in 0..7 /\ b + 16 \in c
  OBVIOUS
<1>2. \A b : b \in top <=> b \in 0..7 /\ (b \in byte <=> ~(b + 16 \in c))
  <2>1. PICK t : t = {d - 16 : d \in c \cap (16..23)}
    OBVIOUS
  <2>2. top = (byte \ t) \cup (t \ byte)
    BY <2>1 DEF Xor
  <2>3. \A b : b \in t <=> b \in 0..7 /\ b + 16 \in c
    BY <1>1, <2>1
  <2> HIDE DEF top
  <2>4. ASSUME NEW b PROVE b \in top <=> (b \in byte <=> ~(b \in t))
    BY <2>2
  <2>5. ASSUME NEW b, b \notin 0..7 PROVE b \notin byte /\ b \notin t
    BY <2>3, <2>5
  <2>6. ASSUME NEW b \in 0..7 PROVE b \in t <=> b + 16 \in c
    BY <2>3
  <2> QED
    BY <2>4, <2>5, <2>6
<1>3. top \in SUBSET (0..7) /\ low \in Word /\ low \subseteq 0..15
  BY <1>2 DEF Word
<1>4. \A b : b \in high <=> b \in 16..23 /\ ((b - 16 \in byte) <=> ~(b \in c))
  <2>1. \A b : b \in high <=> b \in 16..23 /\ b - 16 \in top
    <3> HIDE DEF top
    <3> QED
      BY <1>3
  <2> HIDE DEF top, high
  <2> QED
    BY <1>2, <2>1
<1>5. high \in Word
  <2> HIDE DEF high
  <2> QED
    BY <1>4 DEF Word
<1>6. CrcStep(c, byte) = Xor({b + 8 : b \in low}, crcgen(high))
  <2>1. crc_table[top] = crcgen(high)
    <3> HIDE DEF top
    <3> QED
      BY <1>3 DEF crc_table
  <2> QED
    BY <2>1 DEF CrcStep
<1>7. CrcStep(c, byte) = crcgen(Xor(low, high))
  <2> HIDE DEF low, high
  <2> QED
    BY <1>3, <1>5, <1>6, crcgenLow, crcgenLinear
<1>8. Xor(low, high) = Xor(c, {b + 16 : b \in byte})
  <2>1. PICK h : h = {b + 16 : b \in byte}
    OBVIOUS
  <2>2. \A b : b \in h <=> b \in 16..23 /\ b - 16 \in byte
    BY <2>1
  <2>3. c \subseteq 0..23
    BY DEF Word
  <2>4. Xor(low, high) = Xor(c, h)
    <3> HIDE DEF high
    <3>1. ASSUME NEW b \in 0..23 
          PROVE  (b \in low <=> ~(b \in high)) <=> (b \in c <=> ~(b \in h))
      <4>1. CASE b \in 0..15
        BY <4>1, <1>4, <2>2
      <4>2. CASE b \in 16..23
        BY <4>2, <1>4, <2>2
      <4> QED
        BY <4>1, <4>2
    <3>2. low \in Word /\ high \in Word /\ h \in Word
      BY <1>3, <1>5, <2>2 DEF Word
    <3> HIDE DEF low
    <3> QED
      BY <3>1, <3>2, XorSame
  <2> QED
    BY <2>1, <2>4
<1> QED
  <2> HIDE DEF low, high
  <2> QED
    BY <1>3, <1>5, <1>7, <1>8, XorWord, crcgenShifts

-----------------------------------------------------------------------------
(* Powers of x *)

LEMMA PowerSteps ==
  /\ \A k \in 0..111 : Power[k] \in Word
  /\ Power[0] = {0}
  /\ \A k \in 0..110 : Power[k + 1] = Shift(Power[k])
<1> DEFINE Up(v) == LET q == {b + 1 : b \in v} IN IF 24 \in q THEN Xor(q, Generator) ELSE q
<1> DEFINE Rec(f) == f = [k \in 0..111 |-> IF k = 0 THEN {0} ELSE Up(f[k - 1])]
<1> DEFINE step == [k \in 1..111 |-> [v \in Word |-> Shift(v)]]
<1>1. ASSUME NEW v \in Word PROVE Up(v) = Shift(v) /\ Shift(v) \in Word
  <2>1. PICK q : q = {b + 1 : b \in v}
    OBVIOUS
  <2>2. \A b : b \in q <=> b \in 1..24 /\ b - 1 \in v
    BY <2>1 DEF Word
  <2>3. PICK g : g = Generator
    OBVIOUS
  <2>4. g \subseteq 0..24 /\ \A b \in 0..24 : b \in g <=> b \in crc_polynomial \/ b = 24
    BY <2>3 DEF Generator, crc_polynomial
  <2>5. Shift(v) \in Word
    BY ShiftBits
  <2>6. PICK s : s = Shift(v) /\ s \subseteq 0..23
    BY <2>5 DEF Word
  <2>7. \A b \in 0..23 : b \in s <=> (b - 1 \in v <=> ~(23 \in v /\ b \in crc_polynomial))
    BY <2>6, ShiftBits
  <2>8. CASE 24 \in q
    <3>1. 23 \in v
      BY <2>2, <2>8
    <3>2. Up(v) = (q \ g) \cup (g \ q)
      BY <2>1, <2>3, <2>8 DEF Xor
    <3>3. (q \ g) \cup (g \ q) = s
      <4>1. ASSUME NEW b \in 0..23 PROVE b \in s <=> (b \in q <=> ~(b \in g))
        <5>1. b \in q <=> b - 1 \in v
          BY <2>2 DEF Word
        <5>2. b \in g <=> b \in crc_polynomial
          BY <2>4
        <5> QED
          BY <2>7, <3>1, <5>1, <5>2
      <4>2. \A b \in (q \ g) \cup (g \ q) : b \in 0..23
        <5>1. 24 \in q /\ 24 \in g /\ q \subseteq 0..24 /\ g \subseteq 0..24
          BY <2>2, <2>4, <2>8
        <5> QED
          BY <5>1
      <4> QED
        BY <4>1, <4>2, <2>6
    <3> QED
      BY <2>5, <2>6, <3>2, <3>3
  <2>9. CASE 24 \notin q
    <3>1. 23 \notin v
      BY <2>2, <2>9
    <3> QED
      BY <2>1, <2>5, <2>9, <3>1, ShiftLow
  <2> QED
    BY <2>8, <2>9
<1>2. step \in [1..111 -> [Word -> Word]]
  BY <1>1
<1>3. PICK f : Loop(f, Word, {0}, 111, step)
  <2>1. {0} \in Word
    BY DEF Word
  <2> HIDE DEF step
  <2> QED
    BY <1>2, <2>1, LoopRuns
<1>4. ASSUME NEW k \in 1..111 PROVE f[k] = Up(f[k - 1])
  <2>1. f[k - 1] \in Word
    BY <1>3 DEF Loop
  <2>2. f[k] = Shift(f[k - 1])
    BY <1>3, <2>1 DEF Loop
  <2> HIDE DEF Up
  <2> QED
    BY <1>1, <2>1, <2>2
<1>5. Rec(f)
  <2> HIDE DEF Up
  <2>1. f = [k \in 0..111 |-> f[k]] /\ f[0] = {0}
    BY <1>3 DEF Loop
  <2>2. ASSUME NEW k \in 0..111 PROVE f[k] = IF k = 0 THEN {0} ELSE Up(f[k - 1])
    <3>1. k = 0 \/ k \in 1..111
      OBVIOUS
    <3> QED
      BY <1>4, <2>1, <3>1
  <2> QED
    BY <2>1, <2>2
<1>6. PICK g : Power = [k \in 0..111 |-> g[k]] /\ Rec(g)
  <2>1. \E g : Rec(g)
    <3> HIDE DEF Rec
    <3> QED
      BY <1>5
  <2>2. PICK g : g = CHOOSE h : Rec(h)
    OBVIOUS
  <2>3. Rec(g)
    <3> HIDE DEF Rec
    <3> QED
      BY <2>1, <2>2
  <2>4. Power = [k \in 0..111 |-> g[k]]
    BY <2>2 DEF Power
  <2> QED
    <3> HIDE DEF Rec
    <3> QED
      BY <2>3, <2>4
<1>7. g[0] = {0}
  BY <1>6
<1>8. ASSUME NEW k \in 1..111 PROVE g[k] = Up(g[k - 1])
  <2> HIDE DEF Up
  <2>1. k \in 0..111 /\ k # 0
    OBVIOUS
  <2> QED
    BY <1>6, <2>1
<1> HIDE DEF Up, Rec
<1>9. \A k \in 0..111 : g[k] \in Word
  <2>1. g[0] \in Word
    BY <1>7 DEF Word
  <2>2. \A k \in 1..111 : g[k - 1] \in Word => g[k] \in Word
    BY <1>1, <1>8
  <2> QED
    BY <2>1, <2>2, LoopKeeps
<1>10. ASSUME NEW k \in 0..110 PROVE g[k + 1] = Shift(g[k])
  <2>1. k + 1 \in 1..111 /\ k \in 0..111 /\ (k + 1) - 1 = k
    OBVIOUS
  <2> QED
    BY <1>1, <1>8, <1>9, <2>1
<1> QED
  BY <1>6, <1>7, <1>9, <1>10

\* Below the degree of the generator, x^k is its own remainder.
LEMMA PowerLow ==
  ASSUME NEW k \in 0..23
  PROVE  Power[k] = {k}
<1> DEFINE S == {i \in Nat : i <= 23 => Power[i] = {i}}
<1>1. 0 \in S
  BY PowerSteps
<1>2. ASSUME NEW i \in Nat, i \in S PROVE i + 1 \in S
  <2> SUFFICES ASSUME i + 1 <= 23 PROVE Power[i + 1] = {i + 1}
    OBVIOUS
  <2>1. Power[i] = {i} /\ {i} \in Word /\ 23 \notin {i}
    BY <1>2 DEF Word
  <2>2. Power[i + 1] = Shift({i})
    BY <2>1, PowerSteps
  <2>3. Shift({i}) = {b + 1 : b \in {i}}
    BY <2>1, ShiftLow
  <2> QED
    BY <2>2, <2>3
<1>3. Nat \subseteq S
  <2> HIDE DEF S
  <2> QED
    BY <1>1, <1>2, Induction
<1> QED
  BY <1>3

-----------------------------------------------------------------------------
(* Sums of powers *)

Odd(S) == Cardinality(S) % 2 = 1

LEMMA OddXor ==
  ASSUME NEW A, NEW B, IsFiniteSet(A), IsFiniteSet(B)
  PROVE  Odd(Xor(A, B)) <=> (Odd(A) <=> ~Odd(B))
<1>1. PICK a \in Nat, b \in Nat, c \in Nat :
        /\ Cardinality(A) = a /\ Cardinality(B) = b /\ Cardinality(A \cap B) = c
        /\ c <= a /\ c <= b
  <2>1. IsFiniteSet(A \cap B)
    BY FS_Intersection
  <2>2. Cardinality(A \cap B) <= Cardinality(A) /\ Cardinality(A \cap B) <= Cardinality(B)
    BY FS_Intersection
  <2> QED
    BY <2>1, <2>2, FS_CardinalityType
<1>2. IsFiniteSet(A \cup B) /\ Cardinality(A \cup B) = a + b - c
  BY <1>1, FS_Union
<1>3. PICK u, w : u = A \cup B /\ w = A \cap B /\ u \cap w = w
  OBVIOUS
<1>4. Cardinality(u \ w) = (a + b - c) - c
  <2>1. IsFiniteSet(u) /\ Cardinality(u) = a + b - c /\ Cardinality(w) = c
    BY <1>1, <1>2, <1>3
  <2>2. Cardinality(u \ w) = Cardinality(u) - Cardinality(u \cap w)
    BY <2>1, FS_Difference
  <2> QED
    BY <1>3, <2>1, <2>2
<1>5. Xor(A, B) = u \ w
  BY <1>3 DEF Xor
<1>6. ((a + b - c) - c) % 2 = 1 <=> ((a % 2 = 1) <=> ~(b % 2 = 1))
  BY <1>1
<1> QED
  BY <1>1, <1>4, <1>5, <1>6 DEF Odd

LEMMA OddSmall == ~Odd({}) /\ \A x : Odd({x})
<1>1. Cardinality({}) = 0 /\ \A x : Cardinality({x}) = 1
  BY FS_EmptySet, FS_Singleton
<1>2. 0 % 2 = 0 /\ 1 % 2 = 1
  OBVIOUS
<1> QED
  BY <1>1, <1>2 DEF Odd

\* Those of the first m bits of data, bit i standing for x^(s - i), whose
\* remainder has bit b, and the remainder of their sum.
Terms(data, m, s, b) == {i \in data : i < m /\ b \in Power[s - i]}

Residue(data, m, s) == {b \in 0..23 : Odd(Terms(data, m, s, b))}

LEMMA TermsFinite ==
  ASSUME NEW data \in SUBSET (0..111), NEW m, NEW s, NEW b
  PROVE  IsFiniteSet(Terms(data, m, s, b))
<1>1. Terms(data, m, s, b) \in SUBSET (0..111)
  BY DEF Terms
<1>2. IsFiniteSet(0..111)
  <2>1. 0 \in Int /\ 111 \in Int
    OBVIOUS
  <2> QED
    BY <2>1, FS_Interval, Zenon
<1> QED
  BY <1>1, <1>2, FS_Subset

LEMMA ResidueWord ==
  ASSUME NEW data, NEW m, NEW s
  PROVE  Residue(data, m, s) \in Word
BY DEF Residue, Word

\* A shift multiplies by x.
LEMMA ResidueShift ==
  ASSUME NEW data \in SUBSET (0..111), NEW m \in 0..112, NEW s \in 0..110, m <= s + 1
  PROVE  Shift(Residue(data, m, s)) = Residue(data, m, s + 1)
<1> DEFINE T(b) == Terms(data, m, s, b)
<1> DEFINE U(b) == Terms(data, m, s + 1, b)
<1>1. ASSUME NEW i \in data, i < m
      PROVE  /\ Power[s - i] \in Word
             /\ Power[(s + 1) - i] = Shift(Power[s - i])
  <2>1. s - i \in 0..110 /\ (s - i) + 1 = (s + 1) - i
    BY <1>1
  <2> QED
    BY <2>1, PowerSteps
<1>2. ASSUME NEW b \in 0..23, NEW i \in data, i < m
      PROVE  i \in U(b) <=> ((i \in T(b - 1)) <=> ~(i \in T(23) /\ b \in crc_polynomial))
  <2>1. b \in Power[(s + 1) - i]
          <=> ((b - 1 \in Power[s - i]) <=> ~(23 \in Power[s - i] /\ b \in crc_polynomial))
    BY <1>1, <1>2, ShiftBits
  <2> QED
    BY <1>2, <2>1 DEF Terms
<1>3. ASSUME NEW b \in 0..23, b \in crc_polynomial PROVE U(b) = Xor(T(b - 1), T(23))
  <2>1. \A i \in data : i < m => (i \in U(b) <=> ((i \in T(b - 1)) <=> ~(i \in T(23))))
    BY <1>2, <1>3
  <2>2. \A i : i \in U(b) \/ i \in T(b - 1) \/ i \in T(23) => i \in data /\ i < m
    BY DEF Terms
  <2> QED
    BY <2>1, <2>2 DEF Xor
<1>4. ASSUME NEW b \in 0..23, b \notin crc_polynomial PROVE U(b) = T(b - 1)
  <2>1. \A i \in data : i < m => (i \in U(b) <=> i \in T(b - 1))
    BY <1>2, <1>4
  <2>2. \A i : i \in U(b) \/ i \in T(b - 1) => i \in data /\ i < m
    BY DEF Terms
  <2> QED
    BY <2>1, <2>2
<1>5. T(-1) = {}
  <2>1. ASSUME NEW i \in data, i < m PROVE -1 \notin Power[s - i]
    <3>1. Power[s - i] \subseteq 0..23
      BY <1>1, <2>1 DEF Word
    <3>2. -1 \notin 0..23
      OBVIOUS
    <3> QED
      BY <3>1, <3>2
  <2> QED
    BY <2>1 DEF Terms
<1>6. ASSUME NEW b \in 0..23 PROVE Odd(T(b - 1)) <=> b - 1 \in Residue(data, m, s)
  <2>1. CASE b = 0
    <3>1. b - 1 = -1 /\ -1 \notin 0..23
      BY <2>1
    <3> QED
      BY <1>5, <3>1, OddSmall DEF Residue
  <2>2. CASE b # 0
    <3>1. b - 1 \in 0..23
      BY <2>2
    <3> QED
      BY <3>1 DEF Residue
  <2> QED
    BY <2>1, <2>2
<1>7. Odd(T(23)) <=> 23 \in Residue(data, m, s)
  BY DEF Residue
<1>8. ASSUME NEW b \in 0..23
      PROVE  Odd(U(b)) <=> (Odd(T(b - 1)) <=> ~(Odd(T(23)) /\ b \in crc_polynomial))
  <2>1. IsFiniteSet(T(b - 1)) /\ IsFiniteSet(T(23))
    BY TermsFinite
  <2>2. Odd(Xor(T(b - 1), T(23))) <=> (Odd(T(b - 1)) <=> ~Odd(T(23)))
    <3> HIDE DEF T
    <3> QED
      BY <2>1, OddXor
  <2> HIDE DEF T, U
  <2>3. CASE b \in crc_polynomial
    BY <1>3, <2>2, <2>3
  <2>4. CASE b \notin crc_polynomial
    BY <1>4, <2>4
  <2> QED
    BY <2>3, <2>4
<1>9. ASSUME NEW b \in 0..23
      PROVE  b \in Shift(Residue(data, m, s)) <=> b \in Residue(data, m, s + 1)
  <2>1. b \in Residue(data, m, s + 1) <=> Odd(U(b))
    BY DEF Residue
  <2>2. b \in Shift(Residue(data, m, s)) <=>
          (b - 1 \in Residue(data, m, s)
             <=> ~(23 \in Residue(data, m, s) /\ b \in crc_polynomial))
    BY ResidueWord, ShiftBits
  <2> HIDE DEF T, U
  <2> QED
    BY <1>6, <1>7, <1>8, <2>1, <2>2
<1> QED
  BY <1>9, ResidueWord, ShiftBits DEF Word

LEMMA ResidueUp ==
  ASSUME NEW data \in SUBSET (0..111), NEW m \in 0..112, NEW s \in 0..103, m <= s + 1
  PROVE  crcgen(Residue(data, m, s)) = Residue(data, m, s + 8)
<1> DEFINE At(x, k) == x = Residue(data, m, s + k)
<1>1. \A x : \A k \in 0..7 : At(x, k) => At(Shift(x), k + 1)
  <2> SUFFICES ASSUME NEW x, NEW k \in 0..7, At(x, k) PROVE At(Shift(x), k + 1)
    OBVIOUS
  <2>1. s + k \in 0..110 /\ m <= (s + k) + 1 /\ (s + k) + 1 = s + (k + 1)
    OBVIOUS
  <2> QED
    BY <2>1, ResidueShift
<1>2. PICK c : At(c, 0) /\ c = Residue(data, m, s) /\ c \in Word
  BY ResidueWord
<1>3. At(Shift8(c), 8)
  <2> HIDE DEF At
  <2>2. PICK c2 : At(c2, 2) /\ c2 = Shift(Shift(c))
    BY <1>1, <1>2
  <2>3. PICK c4 : At(c4, 4) /\ c4 = Shift(Shift(c2))
    BY <2>2, <1>1
  <2>4. PICK c6 : At(c6, 6) /\ c6 = Shift(Shift(c4))
    BY <2>3, <1>1
  <2>5. At(Shift(Shift(c6)), 8)
    BY <2>4, <1>1
  <2> QED
    BY <2>2, <2>3, <2>4, <2>5 DEF Shift8
<1> QED
  BY <1>2, <1>3, crcgenShifts

\* Bits that stand for powers below x^24 are put in as they are.
LEMMA ResidueSplit ==
  ASSUME NEW data \in SUBSET (0..111), NEW m \in 0..112, NEW e \in 0..112, NEW s \in 0..111,
         m <= e, e <= s + 1, s - m <= 23
  PROVE  Residue(data, e, s) = Xor(Residue(data, m, s), {s - i : i \in data \cap (m..e-1)})
<1> DEFINE new == {s - i : i \in data \cap (m..e-1)}
<1> DEFINE one(b) == IF b \in new THEN {s - b} ELSE {}
<1>1. \A b : b \in new <=> b \in Int /\ s - b \in data /\ s - b \in m..e-1
  OBVIOUS
<1>2. new \in Word
  <2> HIDE DEF new
  <2> QED
    BY <1>1 DEF Word
<1>3. ASSUME NEW b \in 0..23 PROVE Terms(data, e, s, b) = Xor(Terms(data, m, s, b), one(b))
  <2>1. ASSUME NEW i \in data, i < e
        PROVE i \in Terms(data, e, s, b) <=> ((i \in Terms(data, m, s, b)) <=> ~(i \in one(b)))
    <3>1. CASE i < m
      <4>1. i \notin one(b)
        <5> HIDE DEF new
        <5> QED
          BY <1>1, <3>1
      <4> HIDE DEF one
      <4> QED
        BY <2>1, <3>1, <4>1 DEF Terms
    <3>2. CASE ~(i < m)
      <4>1. s - i \in 0..23
        BY <2>1, <3>2
      <4>2. Power[s - i] = {s - i}
        BY <4>1, PowerLow
      <4>3. i \in Terms(data, e, s, b) <=> b = s - i
        BY <2>1, <4>2 DEF Terms
      <4>4. i \in one(b) <=> b = s - i
        <5>1. b = s - i => b \in new
          <6> HIDE DEF new
          <6> QED
            BY <1>1, <2>1, <3>2
        <5> HIDE DEF new
        <5> QED
          BY <5>1
      <4>5. i \notin Terms(data, m, s, b)
        BY <3>2 DEF Terms
      <4> HIDE DEF one
      <4> QED
        BY <4>3, <4>4, <4>5
    <3> QED
      BY <3>1, <3>2
  <2>2. ASSUME NEW i, i \in one(b) PROVE i \in data /\ i < e
    <3>1. b \in new /\ i = s - b
      <4> HIDE DEF new
      <4> QED
        BY <2>2
    <3> HIDE DEF new
    <3> QED
      BY <1>1, <3>1
  <2>3. \A i : i \in Terms(data, e, s, b) \/ i \in Terms(data, m, s, b) => i \in data /\ i < e
    <3>1. ASSUME NEW i \in data, i < m PROVE i < e
      BY <3>1
    <3> QED
      BY <3>1 DEF Terms
  <2> HIDE DEF one
  <2> QED
    BY <2>1, <2>2, <2>3 DEF Xor
<1>4. ASSUME NEW b \in 0..23
      PROVE  b \in Residue(data, e, s) <=> ((b \in Residue(data, m, s)) <=> ~(b \in new))
  <2>1. IsFiniteSet(one(b)) /\ (Odd(one(b)) <=> b \in new)
    BY OddSmall, FS_EmptySet, FS_Singleton
  <2>2. Odd(Terms(data, e, s, b)) <=> (Odd(Terms(data, m, s, b)) <=> ~Odd(one(b)))
    <3> HIDE DEF one
    <3> QED
      BY <1>3, <2>1, OddXor, TermsFinite
  <2> HIDE DEF one, new
  <2> QED
    BY <2>1, <2>2 DEF Residue
<1>5. Residue(data, e, s) = Xor(Residue(data, m, s), new)
  <2> HIDE DEF new
  <2>1. Xor(Residue(data, m, s), new) \in Word /\ Residue(data, e, s) \in Word
    BY <1>2, ResidueWord, XorWord
  <2>2. \A b : b \in Xor(Residue(data, m, s), new)
                <=> (b \in Residue(data, m, s) <=> ~(b \in new))
    BY DEF Xor
  <2> QED
    BY <1>4, <2>1, <2>2 DEF Word
<1> QED
  BY <1>5

-----------------------------------------------------------------------------
(* The CRC of a message *)

\* crc() of the first bytes of a message is the remainder of what they stand
\* for, with room left for the 24 bits of parity.
LEMMA crcIsRemainder ==
  ASSUME NEW data \in SUBSET (0..111), NEW bytes \in 0..11
  PROVE  crc(data, bytes) = Residue(data, 8 * bytes, 8 * bytes + 23)
<1> DEFINE C(k) == Residue(data, 8 * k, 8 * k + 23)
<1> DEFINE Rec(f) ==
      f = [k \in 0..bytes |-> IF k = 0 THEN {} ELSE CrcStep(f[k - 1], Byte(data, k - 1))]
<1>1. C(0) = {}
  <2>1. ASSUME NEW b PROVE Terms(data, 8 * 0, 8 * 0 + 23, b) = {}
    <3>1. \A i \in data : ~(i < 8 * 0)
      OBVIOUS
    <3> QED
      BY <3>1 DEF Terms
  <2> QED
    BY <2>1, OddSmall DEF Residue
<1>2. ASSUME NEW k \in 0..10 PROVE C(k + 1) = CrcStep(C(k), Byte(data, k))
  <2>1. PICK m \in 0..80 : m = 8 * k
    OBVIOUS
  <2>2. PICK byte \in SUBSET (0..7) : byte = Byte(data, k)
    BY DEF Byte
  <2>3. {b + 16 : b \in byte} = {(m + 23) - i : i \in data \cap (m..(m + 8) - 1)}
    <3>1. \A b \in 0..7 : b \in byte <=> (m + 7) - b \in data
      BY <2>1, <2>2 DEF Byte
    <3>2. ASSUME NEW b \in byte
          PROVE  b + 16 \in {(m + 23) - i : i \in data \cap (m..(m + 8) - 1)}
      <4>1. PICK i \in data : i = (m + 7) - b /\ i \in m..(m + 8) - 1
        BY <3>1
      <4>2. b + 16 = (m + 23) - i
        BY <4>1
      <4> QED
        BY <4>1, <4>2
    <3>3. ASSUME NEW i \in data \cap (m..(m + 8) - 1)
          PROVE  (m + 23) - i \in {b + 16 : b \in byte}
      <4>1. PICK b \in 0..7 : b = (m + 7) - i /\ (m + 7) - b = i
        OBVIOUS
      <4>2. b \in byte /\ b + 16 = (m + 23) - i
        BY <3>1, <4>1
      <4> QED
        BY <4>2
    <3> QED
      BY <3>2, <3>3
  <2>4. Residue(data, m + 8, m + 23)
          = Xor(Residue(data, m, m + 23), {(m + 23) - i : i \in data \cap (m..(m + 8) - 1)})
    <3>1. m \in 0..112 /\ m + 8 \in 0..112 /\ m + 23 \in 0..111
      OBVIOUS
    <3>2. m <= m + 8 /\ m + 8 <= (m + 23) + 1 /\ (m + 23) - m <= 23
      OBVIOUS
    <3> QED
      BY <3>1, <3>2, ResidueSplit
  <2>5. CrcStep(Residue(data, m, m + 23), byte) = crcgen(Residue(data, m + 8, m + 23))
    BY <2>3, <2>4, CrcStepShifts, ResidueWord
  <2>6. crcgen(Residue(data, m + 8, m + 23)) = Residue(data, m + 8, (m + 23) + 8)
    <3>1. m + 8 \in 0..112 /\ m + 23 \in 0..103 /\ m + 8 <= (m + 23) + 1
      OBVIOUS
    <3> QED
      BY <3>1, ResidueUp
  <2>7. 8 * (k + 1) = m + 8 /\ 8 * (k + 1) + 23 = (m + 23) + 8
    BY <2>1
  <2> QED
    BY <2>1, <2>2, <2>5, <2>6, <2>7
<1> HIDE DEF C
<1>3. \E f : Rec(f)
  <2> DEFINE f == [k \in 0..bytes |-> C(k)]
  <2>1. ASSUME NEW k \in 0..bytes, k # 0 PROVE f[k] = CrcStep(f[k - 1], Byte(data, k - 1))
    <3>1. k - 1 \in 0..10 /\ k - 1 \in 0..bytes /\ (k - 1) + 1 = k
      BY <2>1
    <3>2. f[k] = C(k) /\ f[k - 1] = C(k - 1)
      BY <3>1
    <3> QED
      BY <1>2, <3>1, <3>2
  <2>2. f[0] = {}
    BY <1>1
  <2>3. Rec(f)
    <3>1. f = [k \in 0..bytes |-> f[k]]
      OBVIOUS
    <3> HIDE DEF f
    <3> QED
      BY <2>1, <2>2, <3>1
  <2> HIDE DEF Rec
  <2> QED
    BY <2>3
<1>4. PICK c : crc(data, bytes) = c[bytes] /\ Rec(c)
  <2>1. PICK c : c = CHOOSE h : Rec(h)
    OBVIOUS
  <2>2. Rec(c)
    <3> HIDE DEF Rec
    <3> QED
      BY <1>3, <2>1
  <2>3. crc(data, bytes) = c[bytes]
    BY <2>1 DEF crc
  <2> HIDE DEF Rec
  <2> QED
    BY <2>2, <2>3
<1>5. c[0] = {}
  BY <1>4
<1>6. ASSUME NEW k \in 1..bytes PROVE c[k] = CrcStep(c[k - 1], Byte(data, k - 1))
  <2>1. k \in 0..bytes /\ k # 0
    OBVIOUS
  <2> QED
    BY <1>4, <2>1
<1> HIDE DEF Rec
<1> DEFINE S == {k \in Nat : k <= bytes => c[k] = C(k)}
<1>7. 0 \in S
  BY <1>1, <1>5
<1>8. ASSUME NEW k \in Nat, k \in S PROVE k + 1 \in S
  <2> SUFFICES ASSUME k + 1 <= bytes PROVE c[k + 1] = C(k + 1)
    OBVIOUS
  <2>1. k + 1 \in 1..bytes /\ (k + 1) - 1 = k /\ k \in 0..10 /\ c[k] = C(k)
    BY <1>8
  <2> QED
    BY <1>2, <1>6, <2>1
<1>9. Nat \subseteq S
  <2> HIDE DEF S
  <2> QED
    BY <1>7, <1>8, Induction
<1>10. c[bytes] = C(bytes)
  BY <1>9
<1> QED
  BY <1>4, <1>10 DEF C

\* message_residual, computed by crc() a byte at a time with the table that crcgen
\* makes, is the remainder by the generator polynomial of Mode S: of every message
\* of 56 or 112 bits, whatever its bits are.
THEOREM message_residualIsRemainder ==
  ASSUME NEW size \in {56, 112}, NEW data \in SUBSET (0..size - 1)
  PROVE  message_residual(data, size) = Remainder(data, size)
<1>1. PICK bytes \in 0..11 : bytes = size \div 8 - 3 /\ 8 * bytes = size - 24
                            /\ 8 * bytes + 23 = size - 1
  <2>1. CASE size = 56
    <3>1. 56 \div 8 = 7
      OBVIOUS
    <3> QED
      BY <2>1, <3>1
  <2>2. CASE size = 112
    <3>1. 112 \div 8 = 14
      OBVIOUS
    <3> QED
      BY <2>2, <3>1
  <2> QED
    BY <2>1, <2>2
<1>2. data \in SUBSET (0..111)
  OBVIOUS
<1>3. crc(data, bytes) = Residue(data, size - 24, size - 1)
  BY <1>1, <1>2, crcIsRemainder
<1>4. {b \in 0..23 : size - 1 - b \in data}
        = {(size - 1) - i : i \in data \cap ((size - 24)..size - 1)}
  <2>1. ASSUME NEW b \in 0..23, size - 1 - b \in data
        PROVE  b \in {(size - 1) - i : i \in data \cap ((size - 24)..size - 1)}
    <3>1. PICK i \in data : i = (size - 1) - b /\ i \in (size - 24)..size - 1
      BY <2>1
    <3>2. b = (size - 1) - i
      BY <3>1
    <3> QED
      BY <3>1, <3>2
  <2>2. ASSUME NEW i \in data \cap ((size - 24)..size - 1)
        PROVE  (size - 1) - i \in {b \in 0..23 : size - 1 - b \in data}
    <3>1. (size - 1) - i \in 0..23 /\ size - 1 - ((size - 1) - i) = i
      OBVIOUS
    <3> QED
      BY <3>1
  <2> QED
    BY <2>1, <2>2
<1>5. Residue(data, size, size - 1)
        = Xor(Residue(data, size - 24, size - 1),
              {(size - 1) - i : i \in data \cap ((size - 24)..size - 1)})
  <2>1. /\ size - 24 \in 0..112 /\ size \in 0..112 /\ size - 1 \in 0..111
        /\ size - 24 <= size /\ size <= (size - 1) + 1 /\ (size - 1) - (size - 24) <= 23
    OBVIOUS
  <2> QED
    BY <1>2, <2>1, ResidueSplit
<1>6. Residue(data, size, size - 1) = Remainder(data, size)
  <2>1. ASSUME NEW b \in 0..23
        PROVE  Terms(data, size, size - 1, b) = {i \in data : b \in Power[size - 1 - i]}
    <3>1. \A i \in data : i < size
      OBVIOUS
    <3> QED
      BY <3>1 DEF Terms
  <2>2. \A b \in 0..23 : b \in Residue(data, size, size - 1) <=> b \in Remainder(data, size)
    BY <2>1 DEF Residue, Remainder, Odd
  <2>3. Residue(data, size, size - 1) \subseteq 0..23 /\ Remainder(data, size) \subseteq 0..23
    BY DEF Residue, Remainder
  <2> QED
    BY <2>2, <2>3
<1> QED
  BY <1>1, <1>3, <1>4, <1>5, <1>6 DEF message_residual

-----------------------------------------------------------------------------
(* The powers of x are all different *)

\* Power[k] has the bits S.
Bits(k, S) == \A b \in 0..23 : b \in Power[k] <=> b \in S

Power25 == {0, 1, 3, 4} \cup (10..12)

LEMMA Power24 == Power[24] = crc_polynomial
<1>1. Power[23] = {23} /\ {23} \in Word
  BY PowerLow DEF Word
<1>2. Power[24] = Shift({23}) /\ Power[24] \in Word
  <2>1. 23 \in 0..110 /\ 23 + 1 = 24 /\ 24 \in 0..111
    OBVIOUS
  <2> QED
    BY <1>1, <2>1, PowerSteps
<1>3. ASSUME NEW b \in 0..23 PROVE b \in Power[24] <=> b \in crc_polynomial
  <2>1. b - 1 \notin {23}
    OBVIOUS
  <2> QED
    BY <1>1, <1>2, <2>1, ShiftBits
<1>4. crc_polynomial \subseteq 0..23
  BY DEF crc_polynomial
<1> QED
  BY <1>2, <1>3, <1>4 DEF Word

LEMMA PowersFrom25 ==
  ASSUME NEW j \in 0..6
  PROVE  Bits(25 + j, {b + j : b \in Power25})
<1> DEFINE S == {i \in Nat : i <= 6 => Power[25 + i] = {b + i : b \in Power25}}
<1>1. 0 \in S
  <2>1. Power[25] = Shift(crc_polynomial) /\ Power[25] \in Word /\ crc_polynomial \in Word
    <3>1. 24 \in 0..110 /\ 24 + 1 = 25 /\ 24 \in 0..111 /\ 25 \in 0..111
      OBVIOUS
    <3> QED
      BY <3>1, Power24, PowerSteps
  <2>2. ASSUME NEW b \in 0..23 PROVE b \in Power[25] <=> b \in Power25
    <3>1. b \in Power25
            <=> (b - 1 \in crc_polynomial <=> ~(23 \in crc_polynomial /\ b \in crc_polynomial))
      BY DEF Power25, crc_polynomial
    <3> QED
      BY <2>1, <3>1, ShiftBits
  <2>3. Power25 = {b + 0 : b \in Power25} /\ Power25 \subseteq 0..23
    <3>1. \A b \in Power25 : b + 0 = b /\ b \in 0..23
      BY DEF Power25
    <3> QED
      BY <3>1
  <2>4. Power[25] = Power25
    BY <2>1, <2>2, <2>3 DEF Word
  <2>5. Power[25 + 0] = Power[25]
    OBVIOUS
  <2> QED
    BY <2>3, <2>4, <2>5
<1>2. ASSUME NEW i \in Nat, i \in S PROVE i + 1 \in S
  <2> SUFFICES ASSUME i + 1 <= 6 PROVE Power[25 + (i + 1)] = {b + (i + 1) : b \in Power25}
    OBVIOUS
  <2>1. Power[25 + i] = {b + i : b \in Power25}
    BY <1>2
  <2>2. Power[25 + (i + 1)] = Shift(Power[25 + i]) /\ Power[25 + i] \in Word
    <3>1. 25 + i \in 0..110 /\ (25 + i) + 1 = 25 + (i + 1)
      OBVIOUS
    <3> QED
      BY <3>1, PowerSteps
  <2>3. \A b \in Power25 : b \in 0..12 /\ b + i # 23 /\ (b + i) + 1 = b + (i + 1)
    BY DEF Power25
  <2>4. 23 \notin Power[25 + i]
    BY <2>1, <2>3
  <2>5. Power[25 + (i + 1)] = {b + 1 : b \in Power[25 + i]}
    BY <2>2, <2>4, ShiftLow
  <2> QED
    BY <2>1, <2>3, <2>5
<1>3. Nat \subseteq S
  <2> HIDE DEF S
  <2> QED
    BY <1>1, <1>2, Induction
<1>4. Power[25 + j] = {b + j : b \in Power25}
  BY <1>3
<1> QED
  BY <1>4 DEF Bits

\* Multiplying by x^8 is crcgen.
LEMMA PowerUp ==
  ASSUME NEW k \in 0..103
  PROVE  crcgen(Power[k]) = Power[k + 8]
<1> DEFINE Up(x, i) == x = Power[k + i]
<1>1. \A x : \A i \in 0..7 : Up(x, i) => Up(Shift(x), i + 1)
  <2> SUFFICES ASSUME NEW x, NEW i \in 0..7, Up(x, i) PROVE Up(Shift(x), i + 1)
    OBVIOUS
  <2>1. k + i \in 0..110 /\ (k + i) + 1 = k + (i + 1)
    OBVIOUS
  <2> QED
    BY <2>1, PowerSteps
<1>2. PICK c : Up(c, 0) /\ c = Power[k] /\ c \in Word
  BY PowerSteps
<1>3. Up(Shift8(c), 8)
  <2> HIDE DEF Up
  <2>2. PICK c2 : Up(c2, 2) /\ c2 = Shift(Shift(c))
    BY <1>1, <1>2
  <2>3. PICK c4 : Up(c4, 4) /\ c4 = Shift(Shift(c2))
    BY <2>2, <1>1
  <2>4. PICK c6 : Up(c6, 6) /\ c6 = Shift(Shift(c4))
    BY <2>3, <1>1
  <2>5. Up(Shift(Shift(c6)), 8)
    BY <2>4, <1>1
  <2> QED
    BY <2>2, <2>3, <2>4, <2>5 DEF Shift8
<1> QED
  BY <1>2, <1>3, crcgenShifts

\* crcgen of the bits of c from t on.
Above(c, t) == crcgen(c \cap (t..23))

LEMMA AbovePeel ==
  ASSUME NEW c \in Word, NEW t \in 0..23, NEW b
  PROVE  b \in Above(c, t) <=> ((t \in c /\ b \in Power[t + 8]) <=> ~(b \in Above(c, t + 1)))
<1>1. PICK up : up = c \cap ((t + 1)..23) /\ up \in Word
  BY DEF Word
<1>2. crcgen({t}) = Power[t + 8] /\ {t} \in Word
  <2>1. Power[t] = {t}
    BY PowerLow
  <2>2. t \in 0..103
    OBVIOUS
  <2> QED
    BY <2>1, <2>2, PowerUp DEF Word
<1>3. CASE t \in c
  <2>1. c \cap (t..23) = Xor({t}, up)
    BY <1>1, <1>3 DEF Xor
  <2>2. Above(c, t) = Xor(Power[t + 8], Above(c, t + 1))
    BY <1>1, <1>2, <2>1, crcgenLinear DEF Above
  <2> QED
    BY <1>3, <2>2 DEF Xor
<1>4. CASE t \notin c
  <2>1. c \cap (t..23) = up
    BY <1>1, <1>4
  <2> QED
    BY <1>1, <1>4, <2>1 DEF Above
<1> QED
  BY <1>3, <1>4

\* T is S, multiplied by x^8.
JumpAt(S, T, b) ==
    b \in T <=> (b - 8 \in S <=>
               ~((16 \in S /\ b \in crc_polynomial) <=>
               ~((17 \in S /\ b \in Power25) <=>
               ~((18 \in S /\ b - 1 \in Power25) <=>
               ~((19 \in S /\ b - 2 \in Power25) <=>
               ~((20 \in S /\ b - 3 \in Power25) <=>
               ~((21 \in S /\ b - 4 \in Power25) <=>
               ~((22 \in S /\ b - 5 \in Power25) <=>
                ~(23 \in S /\ b - 6 \in Power25)))))))))

Jump(S, T) == \A b \in 0..23 : JumpAt(S, T, b)

LEMMA PowerJump ==
  ASSUME NEW k \in 0..103, NEW S \in Word, Bits(k, S), NEW T, Jump(S, T)
  PROVE  Bits(k + 8, T)
<1>1. Power[k] \in Word /\ Power[k] = S
  <2>1. Power[k] \in Word
    BY PowerSteps
  <2> QED
    BY <2>1 DEF Bits, Word
<1>2. PICK low : \A b : b \in low <=> b \in S /\ b \in 0..15
  <2>1. \A b : b \in S \cap (0..15) <=> b \in S /\ b \in 0..15
    OBVIOUS
  <2> QED
    BY <2>1
<1>3. low \subseteq 0..15 /\ low \in Word
  BY <1>2 DEF Word
<1>4. Power[k + 8] = Xor({b + 8 : b \in low}, Above(S, 16))
  <2>1. PICK high : high = S \cap (16..23)
    OBVIOUS
  <2>2. high \in Word
    BY <2>1 DEF Word
  <2>3. S \subseteq 0..23
    BY DEF Word
  <2>4. S = Xor(low, high)
    <3>1. ASSUME NEW b \in 0..23 PROVE b \in S <=> (b \in low <=> ~(b \in high))
      BY <1>2, <2>1
    <3>2. Xor(low, high) \in Word /\ \A b : b \in Xor(low, high) <=> (b \in low <=> ~(b \in high))
      BY <1>3, <2>2, XorWord DEF Xor
    <3> QED
      BY <2>3, <3>1, <3>2 DEF Word
  <2>5. crcgen(S) = Xor(crcgen(low), crcgen(high))
    BY <1>3, <2>2, <2>4, crcgenLinear
  <2>6. crcgen(low) = {b + 8 : b \in low}
    BY <1>3, crcgenLow
  <2>7. crcgen(high) = Above(S, 16)
    BY <2>1 DEF Above
  <2> QED
    BY <1>1, <2>5, <2>6, <2>7, PowerUp
<1>6. ASSUME NEW b \in 0..23 PROVE b \in Power[k + 8] <=> (b - 8 \in S <=> ~(b \in Above(S, 16)))
  <2>1. b \in {d + 8 : d \in low} <=> b - 8 \in S
    <3>1. \A d \in low : d \in 0..15
      BY <1>2
    <3>2. \A d \in S : d \in 0..23
      BY DEF Word
    <3> QED
      BY <1>2, <3>1, <3>2
  <2> QED
    BY <1>4, <2>1 DEF Xor
<1>7. ASSUME NEW b PROVE ~(b \in Above(S, 24))
  <2>1. S \cap (24..23) = {} /\ {} \subseteq 0..15
    OBVIOUS
  <2>2. crcgen({}) = {b_1 + 8 : b_1 \in {}}
    BY <2>1, crcgenLow
  <2> QED
    BY <2>1, <2>2 DEF Above
<1>8. ASSUME NEW b \in 0..23, NEW j \in 0..6 PROVE b \in Power[25 + j] <=> b - j \in Power25
  <2>1. b \in Power[25 + j] <=> b \in {d + j : d \in Power25}
    BY PowersFrom25 DEF Bits
  <2>2. \A d \in Power25 : d \in Int
    BY DEF Power25
  <2> QED
    BY <2>1, <2>2
<1>9. ASSUME NEW b \in 0..23 PROVE b \in Power[k + 8] <=> b \in T
  <2>1. b \in Above(S, 16) <=> ((16 \in S /\ b \in Power[24]) <=> ~(b \in Above(S, 17)))
    <3>1. 16 \in 0..23 /\ 16 + 8 = 24 /\ 16 + 1 = 17
      OBVIOUS
    <3> QED
      BY <3>1, AbovePeel
  <2>2. b \in Above(S, 17) <=> ((17 \in S /\ b \in Power[25]) <=> ~(b \in Above(S, 18)))
    <3>1. 17 \in 0..23 /\ 17 + 8 = 25 /\ 17 + 1 = 18
      OBVIOUS
    <3> QED
      BY <3>1, AbovePeel
  <2>3. b \in Above(S, 18) <=> ((18 \in S /\ b \in Power[26]) <=> ~(b \in Above(S, 19)))
    <3>1. 18 \in 0..23 /\ 18 + 8 = 26 /\ 18 + 1 = 19
      OBVIOUS
    <3> QED
      BY <3>1, AbovePeel
  <2>4. b \in Above(S, 19) <=> ((19 \in S /\ b \in Power[27]) <=> ~(b \in Above(S, 20)))
    <3>1. 19 \in 0..23 /\ 19 + 8 = 27 /\ 19 + 1 = 20
      OBVIOUS
    <3> QED
      BY <3>1, AbovePeel
  <2>5. b \in Above(S, 20) <=> ((20 \in S /\ b \in Power[28]) <=> ~(b \in Above(S, 21)))
    <3>1. 20 \in 0..23 /\ 20 + 8 = 28 /\ 20 + 1 = 21
      OBVIOUS
    <3> QED
      BY <3>1, AbovePeel
  <2>6. b \in Above(S, 21) <=> ((21 \in S /\ b \in Power[29]) <=> ~(b \in Above(S, 22)))
    <3>1. 21 \in 0..23 /\ 21 + 8 = 29 /\ 21 + 1 = 22
      OBVIOUS
    <3> QED
      BY <3>1, AbovePeel
  <2>7. b \in Above(S, 22) <=> ((22 \in S /\ b \in Power[30]) <=> ~(b \in Above(S, 23)))
    <3>1. 22 \in 0..23 /\ 22 + 8 = 30 /\ 22 + 1 = 23
      OBVIOUS
    <3> QED
      BY <3>1, AbovePeel
  <2>8. b \in Above(S, 23) <=> ((23 \in S /\ b \in Power[31]) <=> ~(b \in Above(S, 24)))
    <3>1. 23 \in 0..23 /\ 23 + 8 = 31 /\ 23 + 1 = 24
      OBVIOUS
    <3> QED
      BY <3>1, AbovePeel
  <2>9. /\ b \in Power[24] <=> b \in crc_polynomial
        /\ b \in Power[25] <=> b \in Power25
        /\ b \in Power[26] <=> b - 1 \in Power25
        /\ b \in Power[27] <=> b - 2 \in Power25
        /\ b \in Power[28] <=> b - 3 \in Power25
        /\ b \in Power[29] <=> b - 4 \in Power25
        /\ b \in Power[30] <=> b - 5 \in Power25
        /\ b \in Power[31] <=> b - 6 \in Power25
    <3>1. /\ 25 + 0 = 25 /\ 25 + 1 = 26 /\ 25 + 2 = 27 /\ 25 + 3 = 28
          /\ 25 + 4 = 29 /\ 25 + 5 = 30 /\ 25 + 6 = 31 /\ b - 0 = b
      OBVIOUS
    <3>2. \A j \in 0..6 : b \in Power[25 + j] <=> b - j \in Power25
      BY <1>8
    <3>3. /\ b \in Power[25 + 0] <=> b - 0 \in Power25
          /\ b \in Power[25 + 1] <=> b - 1 \in Power25
          /\ b \in Power[25 + 2] <=> b - 2 \in Power25
          /\ b \in Power[25 + 3] <=> b - 3 \in Power25
          /\ b \in Power[25 + 4] <=> b - 4 \in Power25
          /\ b \in Power[25 + 5] <=> b - 5 \in Power25
          /\ b \in Power[25 + 6] <=> b - 6 \in Power25
      BY <3>2
    <3> QED
      BY <3>1, <3>3, Power24
  <2>10. ~(b \in Above(S, 24))
    BY <1>7
  <2>11. b \in Power[k + 8] <=> (b - 8 \in S <=> ~(b \in Above(S, 16)))
    BY <1>6
  <2>12. JumpAt(S, T, b)
    BY DEF Jump
  <2> QED
    BY <2>1, <2>2, <2>3, <2>4, <2>5, <2>6, <2>7, <2>8, <2>9, <2>10, <2>11, <2>12 DEF JumpAt
<1> QED
  BY <1>9 DEF Bits

\* The remainders of four of them, worked out eight steps at a time from x^31.
LEMMA PowerTable ==
  /\ Bits(47, {0, 2, 3, 5, 7, 10, 17, 19} \cup (21..23))
  /\ Bits(71, {20, 23} \cup (0..6) \cup (8..10) \cup (14..16))
  /\ Bits(95, {1, 3, 13, 19, 21, 22} \cup (9..11))
  /\ Bits(111, {1, 3, 10, 12, 13, 16} \cup (5..8) \cup (19..21))
<1>31. Bits(31, {6, 7, 9, 10} \cup (16..18))
  <2>1. 25 + 6 = 31 /\ 6 \in 0..6
    OBVIOUS
  <2>2. Bits(31, {b + 6 : b \in Power25})
    BY <2>1, PowersFrom25
  <2>3. \A b : b \in {d + 6 : d \in Power25} <=> b \in {6, 7, 9, 10} \cup (16..18)
    BY DEF Power25
  <2> QED
    BY <2>2, <2>3 DEF Bits
<1>39. Bits(39, {2, 5, 12, 16} \cup (19..23))
  <2>1. Jump({6, 7, 9, 10} \cup (16..18),
             {2, 5, 12, 16} \cup (19..23))
    BY DEF Jump, JumpAt, Power25, crc_polynomial
  <2> QED
    BY <1>31, <2>1, PowerJump DEF Word
<1>47. Bits(47, {0, 2, 3, 5, 7, 10, 17, 19} \cup (21..23))
  <2>1. Jump({2, 5, 12, 16} \cup (19..23),
             {0, 2, 3, 5, 7, 10, 17, 19} \cup (21..23))
    BY DEF Jump, JumpAt, Power25, crc_polynomial
  <2> QED
    BY <1>39, <2>1, PowerJump DEF Word
<1>55. Bits(55, {5, 6, 8, 10, 15, 16} \cup (0..2))
  <2>1. Jump({0, 2, 3, 5, 7, 10, 17, 19} \cup (21..23),
             {5, 6, 8, 10, 15, 16} \cup (0..2))
    BY DEF Jump, JumpAt, Power25, crc_polynomial
  <2> QED
    BY <1>47, <2>1, PowerJump DEF Word
<1>63. Bits(63, {0, 3, 8, 9, 12, 15, 17} \cup (19..22))
  <2>1. Jump({5, 6, 8, 10, 15, 16} \cup (0..2),
             {0, 3, 8, 9, 12, 15, 17} \cup (19..22))
    BY DEF Jump, JumpAt, Power25, crc_polynomial
  <2> QED
    BY <1>55, <2>1, PowerJump DEF Word
<1>71. Bits(71, {20, 23} \cup (0..6) \cup (8..10) \cup (14..16))
  <2>1. Jump({0, 3, 8, 9, 12, 15, 17} \cup (19..22),
             {20, 23} \cup (0..6) \cup (8..10) \cup (14..16))
    BY DEF Jump, JumpAt, Power25, crc_polynomial
  <2> QED
    BY <1>63, <2>1, PowerJump DEF Word
<1>79. Bits(79, {0, 4, 8, 10, 11, 13, 14} \cup (16..21))
  <2>1. Jump({20, 23} \cup (0..6) \cup (8..10) \cup (14..16),
             {0, 4, 8, 10, 11, 13, 14} \cup (16..21))
    BY DEF Jump, JumpAt, Power25, crc_polynomial
  <2> QED
    BY <1>71, <2>1, PowerJump DEF Word
<1>87. Bits(87, {5, 12, 20, 23} \cup (15..17))
  <2>1. Jump({0, 4, 8, 10, 11, 13, 14} \cup (16..21),
             {5, 12, 20, 23} \cup (15..17))
    BY DEF Jump, JumpAt, Power25, crc_polynomial
  <2> QED
    BY <1>79, <2>1, PowerJump DEF Word
<1>95. Bits(95, {1, 3, 13, 19, 21, 22} \cup (9..11))
  <2>1. Jump({5, 12, 20, 23} \cup (15..17),
             {1, 3, 13, 19, 21, 22} \cup (9..11))
    BY DEF Jump, JumpAt, Power25, crc_polynomial
  <2> QED
    BY <1>87, <2>1, PowerJump DEF Word
<1>103. Bits(103, {7, 18, 19, 21} \cup (2..5) \cup (11..13))
  <2>1. Jump({1, 3, 13, 19, 21, 22} \cup (9..11),
             {7, 18, 19, 21} \cup (2..5) \cup (11..13))
    BY DEF Jump, JumpAt, Power25, crc_polynomial
  <2> QED
    BY <1>95, <2>1, PowerJump DEF Word
<1>111. Bits(111, {1, 3, 10, 12, 13, 16} \cup (5..8) \cup (19..21))
  <2>1. Jump({7, 18, 19, 21} \cup (2..5) \cup (11..13),
             {1, 3, 10, 12, 13, 16} \cup (5..8) \cup (19..21))
    BY DEF Jump, JumpAt, Power25, crc_polynomial
  <2> QED
    BY <1>103, <2>1, PowerJump DEF Word
<1> QED
  BY <1>47, <1>71, <1>95, <1>111

LEMMA ShiftInjective ==
  ASSUME NEW a \in Word, NEW c \in Word, Shift(a) = Shift(c)
  PROVE  a = c
<1>1. \A b \in 0..23 : b \in Shift(a) <=> (b - 1 \in a <=> ~(23 \in a /\ b \in crc_polynomial))
  BY ShiftBits
<1>2. \A b \in 0..23 : b \in Shift(c) <=> (b - 1 \in c <=> ~(23 \in c /\ b \in crc_polynomial))
  BY ShiftBits
<1>3. a \subseteq 0..23 /\ c \subseteq 0..23
  BY DEF Word
<1>4. 23 \in a <=> 23 \in c
  <2>1. 0 \in crc_polynomial /\ 0 - 1 \notin a /\ 0 - 1 \notin c
    BY <1>3 DEF crc_polynomial
  <2> QED
    BY <1>1, <1>2, <2>1
<1>5. ASSUME NEW b \in 0..22 PROVE b \in a <=> b \in c
  <2>1. b + 1 \in 0..23 /\ (b + 1) - 1 = b
    OBVIOUS
  <2> QED
    BY <1>1, <1>2, <1>4, <2>1
<1>6. \A b \in 0..23 : b \in a <=> b \in c
  <2>1. \A b \in 0..23 : b \in 0..22 \/ b = 23
    OBVIOUS
  <2> QED
    BY <1>4, <1>5, <2>1
<1> QED
  BY <1>3, <1>6

\* x^d is not 1.
LEMMA PowerNotOne ==
  ASSUME NEW d \in 1..111
  PROVE  Power[d] # {0}
<1>1. CASE d <= 23
  <2>1. Power[d] = {d}
    BY <1>1, PowerLow
  <2> QED
    BY <2>1
<1>2. CASE d >= 24
  <2> SUFFICES ASSUME Power[d] = {0} PROVE FALSE
    OBVIOUS
  <2> DEFINE S == {t \in Nat : d + t <= 111 => Power[d + t] = Power[t]}
  <2>1. 0 \in S
    <3>1. d + 0 = d
      OBVIOUS
    <3> QED
      BY <3>1, PowerSteps
  <2>2. ASSUME NEW t \in Nat, t \in S PROVE t + 1 \in S
    <3> SUFFICES ASSUME d + (t + 1) <= 111 PROVE Power[d + (t + 1)] = Power[t + 1]
      OBVIOUS
    <3>1. d + t \in 0..110 /\ t \in 0..110 /\ (d + t) + 1 = d + (t + 1)
      OBVIOUS
    <3>2. Power[d + t] = Power[t]
      BY <2>2, <3>1
    <3> QED
      BY <3>1, <3>2, PowerSteps
  <2>3. Nat \subseteq S
    <3> HIDE DEF S
    <3> QED
      BY <2>1, <2>2, Induction
  <2> HIDE DEF S
  <2>4. ASSUME NEW e \in {47, 71, 95, 111}
        PROVE  \E i, l \in 0..23 : i # l /\ i \in Power[e] /\ l \in Power[e]
    <3>1. /\ 2 \in Power[47] /\ 3 \in Power[47] /\ 1 \in Power[71] /\ 2 \in Power[71]
          /\ 1 \in Power[95] /\ 3 \in Power[95] /\ 1 \in Power[111] /\ 3 \in Power[111]
      BY PowerTable DEF Bits
    <3>2. 1 \in 0..23 /\ 2 \in 0..23 /\ 3 \in 0..23 /\ 1 # 2 /\ 1 # 3 /\ 2 # 3
      OBVIOUS
    <3> QED
      BY <3>1, <3>2
  <2>5. PICK e \in {47, 71, 95, 111} : d <= e /\ e <= d + 23
    <3>1. CASE d <= 47
      BY <1>2, <3>1
    <3>2. CASE 48 <= d /\ d <= 71
      BY <3>2
    <3>3. CASE 72 <= d /\ d <= 95
      BY <3>3
    <3>4. CASE 96 <= d
      BY <3>4
    <3> QED
      BY <3>1, <3>2, <3>3, <3>4
  <2>6. PICK t \in 0..23 : d + t = e
    <3>1. e - d \in 0..23 /\ d + (e - d) = e
      BY <2>5
    <3> QED
      BY <3>1
  <2>7. Power[e] = {t}
    <3>1. t \in S /\ d + t <= 111
      BY <2>3, <2>6
    <3>2. Power[d + t] = Power[t]
      BY <3>1 DEF S
    <3> QED
      BY <2>6, <3>2, PowerLow
  <2> QED
    BY <2>4, <2>7
<1> QED
  BY <1>1, <1>2

\* Any two powers below x^112 are different.
LEMMA PowerInjective ==
  ASSUME NEW i \in 0..111, NEW j \in 0..111, i # j
  PROVE  Power[i] # Power[j]
<1> DEFINE S == {k \in Nat : \A d \in 1..111 : k + d <= 111 => Power[k] # Power[k + d]}
<1>1. 0 \in S
  <2>1. ASSUME NEW d \in 1..111 PROVE Power[0] # Power[0 + d]
    <3>1. 0 + d = d
      OBVIOUS
    <3> QED
      BY <3>1, PowerNotOne, PowerSteps
  <2> QED
    BY <2>1
<1>2. ASSUME NEW k \in Nat, k \in S PROVE k + 1 \in S
  <2> SUFFICES ASSUME NEW d \in 1..111, (k + 1) + d <= 111, Power[k + 1] = Power[(k + 1) + d]
               PROVE  FALSE
    OBVIOUS
  <2>1. k \in 0..110 /\ k + d \in 0..110 /\ (k + d) + 1 = (k + 1) + d /\ k + d <= 111
    OBVIOUS
  <2>2. Power[k] # Power[k + d]
    BY <1>2, <2>1
  <2>3. Power[k + 1] = Shift(Power[k]) /\ Power[(k + 1) + d] = Shift(Power[k + d])
    BY <2>1, PowerSteps
  <2>4. Power[k] \in Word /\ Power[k + d] \in Word
    BY <2>1, PowerSteps
  <2> QED
    BY <2>2, <2>3, <2>4, ShiftInjective
<1>3. Nat \subseteq S
  <2> HIDE DEF S
  <2> QED
    BY <1>1, <1>2, Induction
<1>4. ASSUME NEW k \in 0..111, NEW l \in 0..111, k < l PROVE Power[k] # Power[l]
  <2>1. l - k \in 1..111 /\ k + (l - k) = l
    BY <1>4
  <2>2. PICK d \in 1..111 : k + d = l
    BY <2>1
  <2>3. k \in S
    BY <1>3
  <2>4. Power[k] # Power[k + d]
    BY <2>2, <2>3
  <2> QED
    BY <2>2, <2>4
<1>5. i < j \/ j < i
  OBVIOUS
<1> HIDE DEF S
<1> QED
  BY <1>4, <1>5

\* The generator has an even number of terms, so every power has an odd one.
LEMMA ShiftOdd ==
  ASSUME NEW c \in Word
  PROVE  Odd(Shift(c)) <=> Odd(c)
<1> DEFINE d == c \ {23}
<1> DEFINE f == [b \in d |-> b + 1]
<1> DEFINE up == {b + 1 : b \in d}
<1>1. IsFiniteSet(c)
  <2>1. 0 \in Int /\ 23 \in Int
    OBVIOUS
  <2>2. IsFiniteSet(0..23)
    BY <2>1, FS_Interval, Zenon
  <2> QED
    BY <2>2, FS_Subset DEF Word
<1>2. IsFiniteSet(d)
  BY <1>1, FS_Difference
<1>3. IsFiniteSet(up) /\ Cardinality(up) = Cardinality(d)
  <2>1. f \in Bijection(d, up)
    <3>1. \A b \in d : b \in Int
      BY DEF Word
    <3>2. f \in [d -> up]
      OBVIOUS
    <3>3. \A a, b \in d : f[a] = f[b] => a = b
      BY <3>1
    <3>4. \A u \in up : \E b \in d : f[b] = u
      OBVIOUS
    <3> HIDE DEF d, f, up
    <3> QED
      BY <3>2, <3>3, <3>4 DEF Bijection, Injection, Surjection, IsInjective
  <2>2. ExistsBijection(d, up)
    BY <2>1 DEF ExistsBijection
  <2> QED
    BY <1>2, <2>2, FS_Bijection
<1>4. Odd(up) <=> Odd(d)
  BY <1>3 DEF Odd
<1>5. CASE 23 \notin c
  <2>1. d = c /\ Shift(c) = up
    BY <1>5, ShiftLow
  <2> HIDE DEF d, up
  <2> QED
    BY <1>4, <2>1
<1>6. CASE 23 \in c
  <2>1. IsFiniteSet(crc_polynomial) /\ Odd(crc_polynomial)
    <3>1. 12 \in Int /\ 23 \in Int
      OBVIOUS
    <3>2. PICK r : r = 12..23 /\ IsFiniteSet(r) /\ Cardinality(r) = 12
      <4>1. IsFiniteSet(12..23) /\ Cardinality(12..23) = IF 12 > 23 THEN 0 ELSE 23 - 12 + 1
        BY <3>1, FS_Interval, Zenon
      <4> QED
        BY <4>1
    <3>3. PICK p : p = r \cup {10} /\ IsFiniteSet(p) /\ Cardinality(p) = 13
      <4>1. 10 \notin r
        BY <3>2
      <4>2. /\ IsFiniteSet(r \cup {10})
            /\ Cardinality(r \cup {10}) = IF 10 \in r THEN Cardinality(r) ELSE Cardinality(r) + 1
        BY <3>2, FS_AddElement, Zenon
      <4> QED
        BY <3>2, <4>1, <4>2
    <3>4. PICK q : q = p \cup {3} /\ IsFiniteSet(q) /\ Cardinality(q) = 14
      <4>1. 3 \notin p
        BY <3>2, <3>3
      <4>2. /\ IsFiniteSet(p \cup {3})
            /\ Cardinality(p \cup {3}) = IF 3 \in p THEN Cardinality(p) ELSE Cardinality(p) + 1
        BY <3>3, FS_AddElement, Zenon
      <4> QED
        BY <3>3, <4>1, <4>2
    <3>5. IsFiniteSet(q \cup {0}) /\ Cardinality(q \cup {0}) = 15
      <4>1. 0 \notin q
        BY <3>2, <3>3, <3>4
      <4>2. /\ IsFiniteSet(q \cup {0})
            /\ Cardinality(q \cup {0}) = IF 0 \in q THEN Cardinality(q) ELSE Cardinality(q) + 1
        BY <3>4, FS_AddElement, Zenon
      <4> QED
        BY <3>4, <4>1, <4>2
    <3>6. crc_polynomial = q \cup {0}
      BY <3>2, <3>3, <3>4 DEF crc_polynomial
    <3>7. 15 % 2 = 1
      OBVIOUS
    <3> QED
      BY <3>5, <3>6, <3>7 DEF Odd
  <2>2. Shift(c) = Xor(up, crc_polynomial)
    BY <1>6 DEF Shift
  <2>3. Odd(Shift(c)) <=> ~Odd(up)
    <3> HIDE DEF up
    <3> QED
      BY <1>3, <2>1, <2>2, OddXor
  <2>4. Odd(c) <=> ~Odd(d)
    <3>1. c = Xor(d, {23}) /\ IsFiniteSet({23}) /\ Odd({23})
      <4>1. c = Xor(d, {23})
        BY <1>6 DEF Xor
      <4> QED
        BY <4>1, FS_Singleton, OddSmall
    <3> HIDE DEF d
    <3> QED
      BY <1>2, <3>1, OddXor
  <2> HIDE DEF up, d
  <2> QED
    BY <1>4, <2>3, <2>4
<1> QED
  BY <1>5, <1>6

LEMMA PowerOdd ==
  ASSUME NEW k \in 0..111
  PROVE  Odd(Power[k]) /\ IsFiniteSet(Power[k]) /\ Power[k] # {}
<1> DEFINE S == {i \in Nat : i <= 111 => Odd(Power[i])}
<1>1. 0 \in S
  BY PowerSteps, OddSmall
<1>2. ASSUME NEW i \in Nat, i \in S PROVE i + 1 \in S
  <2> SUFFICES ASSUME i + 1 <= 111 PROVE Odd(Power[i + 1])
    OBVIOUS
  <2>1. i \in 0..110 /\ i \in 0..111 /\ Odd(Power[i])
    BY <1>2
  <2> QED
    BY <2>1, PowerSteps, ShiftOdd
<1>3. Nat \subseteq S
  <2> HIDE DEF S
  <2> QED
    BY <1>1, <1>2, Induction
<1>4. Odd(Power[k])
  BY <1>3
<1>5. IsFiniteSet(Power[k])
  <2>1. 0 \in Int /\ 23 \in Int
    OBVIOUS
  <2>2. IsFiniteSet(0..23)
    BY <2>1, FS_Interval, Zenon
  <2> QED
    BY <2>2, PowerSteps, FS_Subset DEF Word
<1> QED
  BY <1>4, <1>5, OddSmall

-----------------------------------------------------------------------------
(* The residual of what is received *)

LEMMA FiniteBits ==
  ASSUME NEW S \in SUBSET (0..111)
  PROVE  IsFiniteSet(S)
<1>1. 0 \in Int /\ 111 \in Int
  OBVIOUS
<1>2. IsFiniteSet(0..111)
  BY <1>1, FS_Interval, Zenon
<1> QED
  BY <1>2, FS_Subset

LEMMA RemainderWord ==
  ASSUME NEW data, NEW size
  PROVE  Remainder(data, size) \in Word
BY DEF Remainder, Word

\* The bits of data that put bit b into the remainder.
Hits(data, size, b) == {i \in data : b \in Power[size - 1 - i]}

LEMMA RemainderBits ==
  ASSUME NEW data, NEW size, NEW b \in 0..23
  PROVE  b \in Remainder(data, size) <=> Odd(Hits(data, size, b))
BY DEF Remainder, Odd, Hits

LEMMA HitsFinite ==
  ASSUME NEW data \in SUBSET (0..111), NEW size, NEW b
  PROVE  IsFiniteSet(Hits(data, size, b))
<1>1. Hits(data, size, b) \in SUBSET (0..111)
  BY DEF Hits
<1> QED
  BY <1>1, FiniteBits

LEMMA RemainderXor ==
  ASSUME NEW size \in {56, 112}, NEW a \in SUBSET (0..size - 1), NEW c \in SUBSET (0..size - 1)
  PROVE  Remainder(Xor(a, c), size) = Xor(Remainder(a, size), Remainder(c, size))
<1>1. ASSUME NEW b \in 0..23
      PROVE  b \in Remainder(Xor(a, c), size)
               <=> (b \in Remainder(a, size) <=> ~(b \in Remainder(c, size)))
  <2>1. Hits(Xor(a, c), size, b) = Xor(Hits(a, size, b), Hits(c, size, b))
    BY DEF Xor, Hits
  <2>2. a \in SUBSET (0..111) /\ c \in SUBSET (0..111)
    OBVIOUS
  <2>3. IsFiniteSet(Hits(a, size, b)) /\ IsFiniteSet(Hits(c, size, b))
    BY <2>2, HitsFinite
  <2>4. Odd(Hits(Xor(a, c), size, b)) <=> (Odd(Hits(a, size, b)) <=> ~Odd(Hits(c, size, b)))
    BY <2>1, <2>3, OddXor
  <2>5. PICK x : x = Xor(a, c)
    OBVIOUS
  <2>6. b \in Remainder(x, size) <=> Odd(Hits(x, size, b))
    BY RemainderBits
  <2>7. /\ b \in Remainder(a, size) <=> Odd(Hits(a, size, b))
        /\ b \in Remainder(c, size) <=> Odd(Hits(c, size, b))
    BY RemainderBits
  <2> QED
    BY <2>4, <2>5, <2>6, <2>7
<1>2. PICK x \in Word, y \in Word, z \in Word :
        x = Remainder(a, size) /\ y = Remainder(c, size) /\ z = Remainder(Xor(a, c), size)
  BY RemainderWord
<1>3. Xor(x, y) \in Word /\ \A b : b \in Xor(x, y) <=> (b \in x <=> ~(b \in y))
  BY XorWord DEF Xor
<1>4. z = Xor(x, y)
  BY <1>1, <1>2, <1>3 DEF Word
<1> QED
  BY <1>2, <1>4

LEMMA RemainderOne ==
  ASSUME NEW size \in {56, 112}, NEW i \in 0..size - 1
  PROVE  Remainder({i}, size) = Power[size - 1 - i]
<1>1. size - 1 - i \in 0..111 /\ Power[size - 1 - i] \in Word
  <2>1. size - 1 - i \in 0..111
    OBVIOUS
  <2> QED
    BY <2>1, PowerSteps
<1>2. ASSUME NEW b \in 0..23 PROVE b \in Remainder({i}, size) <=> b \in Power[size - 1 - i]
  <2> DEFINE s == {i}
  <2>0. b \in Remainder(s, size) <=> Odd(Hits(s, size, b))
    BY RemainderBits
  <2>1. CASE b \in Power[size - 1 - i]
    <3>1. Hits(s, size, b) = {i}
      BY <2>1 DEF Hits
    <3>2. Odd({i})
      BY OddSmall
    <3> QED
      BY <2>0, <2>1, <3>1, <3>2
  <2>2. CASE b \notin Power[size - 1 - i]
    <3>1. Hits(s, size, b) = {}
      BY <2>2 DEF Hits
    <3> QED
      BY <2>0, <2>2, <3>1, OddSmall
  <2> QED
    BY <2>1, <2>2
<1> QED
  BY <1>1, <1>2, RemainderWord DEF Word

\* The parity field stands for itself.
LEMMA RemainderParity ==
  ASSUME NEW size \in {56, 112}, NEW c \in Word,
         NEW f, f = {size - 1 - b : b \in c}
  PROVE  /\ f \in SUBSET ((size - 24)..size - 1)
         /\ Remainder(f, size) = c
<1>1. c \subseteq 0..23
  BY DEF Word
<1>3. f \in SUBSET ((size - 24)..size - 1)
  BY <1>1
<1>4. \A b \in 0..23 : size - 1 - b \in f <=> b \in c
  BY <1>1
<1>5. ASSUME NEW b \in 0..23 PROVE b \in Remainder(f, size) <=> b \in c
  <2>1. ASSUME NEW i \in f PROVE i \in Hits(f, size, b) <=> i = size - 1 - b
    <3>1. i \in Int /\ size - 1 - i \in 0..23
      BY <1>3
    <3>2. Power[size - 1 - i] = {size - 1 - i}
      BY <3>1, PowerLow
    <3>3. b = size - 1 - i <=> i = size - 1 - b
      BY <3>1
    <3> QED
      BY <3>2, <3>3 DEF Hits
  <2>0. b \in Remainder(f, size) <=> Odd(Hits(f, size, b))
    BY RemainderBits
  <2>2. CASE b \in c
    <3>1. Hits(f, size, b) = {size - 1 - b}
      BY <1>4, <2>1, <2>2 DEF Hits
    <3>2. Odd({size - 1 - b})
      BY OddSmall
    <3> QED
      BY <2>0, <2>2, <3>1, <3>2
  <2>3. CASE b \notin c
    <3>1. Hits(f, size, b) = {}
      BY <1>4, <2>1, <2>3 DEF Hits
    <3> QED
      BY <2>0, <2>3, <3>1, OddSmall
  <2> QED
    BY <2>2, <2>3
<1>6. Remainder(f, size) = c
  BY <1>1, <1>5, RemainderWord DEF Word
<1> QED
  BY <1>3, <1>6

LEMMA EncodeRemainder ==
  ASSUME NEW w \in Codeword
  PROVE  /\ Size(w.df) \in {56, 112} /\ Encode(w) \in SUBSET (0..Size(w.df) - 1)
         /\ Remainder(Encode(w), Size(w.df)) = w.iid
<1> DEFINE payload == {i \in 0..4 : (w.df \div 2^(4 - i)) % 2 = 1} \cup w.bits
<1>1. PICK size \in {56, 112} : size = Size(w.df)
  BY DEF Size
<1>2. w.bits \subseteq 5..size - 25 /\ w.iid \subseteq 0..6
  BY <1>1 DEF Codeword
<1>3. PICK p : p = payload /\ p \subseteq 0..size - 25 /\ p \in SUBSET (0..size - 1)
  <2>1. ASSUME NEW i \in payload PROVE i \in 0..size - 25
    BY <1>2
  <2>2. 0..size - 25 \subseteq 0..size - 1
    OBVIOUS
  <2>3. PICK p : p = payload
    OBVIOUS
  <2>4. p \subseteq 0..size - 25
    BY <2>1, <2>3
  <2>5. p \in SUBSET (0..size - 1)
    BY <2>2, <2>4
  <2> QED
    BY <2>3, <2>4, <2>5
<1>4. PICK c \in Word : c = Xor(Remainder(p, size), w.iid)
  <2>1. w.iid \in Word
    BY <1>2 DEF Word
  <2> QED
    BY <2>1, RemainderWord, XorWord
<1>5. PICK f \in SUBSET ((size - 24)..size - 1) :
        f = {size - 1 - b : b \in c} /\ Remainder(f, size) = c
  <2>1. PICK f : f = {size - 1 - b : b \in c}
    OBVIOUS
  <2>2. f \in SUBSET ((size - 24)..size - 1) /\ Remainder(f, size) = c
    BY <2>1, RemainderParity
  <2> QED
    BY <2>1, <2>2
<1>6. Encode(w) = p \cup f
  BY <1>1, <1>3, <1>4, <1>5 DEF Encode
<1>7. p \cup f = Xor(p, f)
  <2>1. \A i \in p : i \notin f
    BY <1>3
  <2> QED
    BY <2>1 DEF Xor
<1>8. f \in SUBSET (0..size - 1)
  OBVIOUS
<1>9. Remainder(Encode(w), size) = Xor(Remainder(p, size), c)
  <2>1. Remainder(Xor(p, f), size) = Xor(Remainder(p, size), Remainder(f, size))
    BY <1>3, <1>8, RemainderXor
  <2> QED
    BY <1>5, <1>6, <1>7, <2>1
<1>10. Xor(Remainder(p, size), c) = w.iid
  BY <1>4 DEF Xor
<1>11. Encode(w) \in SUBSET (0..size - 1)
  <2>1. ASSUME NEW i \in p \cup f PROVE i \in 0..size - 1
    BY <1>3, <1>8
  <2> QED
    BY <1>6, <2>1
<1> HIDE DEF payload
<1> QED
  BY <1>1, <1>9, <1>10, <1>11

-----------------------------------------------------------------------------
(* The message and its clients *)

\* What the message tells of itself, whoever asks: its residual, the bit that
\* would mend it, and what a client is handed.
Residual == Remainder(received, n)

MendingBit == CASE df(received) = 11         -> Find(syndromes_short, Residual)
         [] df(received) \in {17, 18} -> Find(syndromes_long, Residual)
         [] OTHER                     -> -1

Handed(on) ==
  IF MayFec(on) /\ MendingBit >= 0 /\ CrcBad(Residual)
  THEN Xor(received, {MendingBit})
  ELSE received

Channel == sent \in Codewords /\ \E e \in ErrorSets : received = Xor(Encode(sent), e)

\* What the message keeps is what it would work out again.
Kept ==
  /\ m_data = received
  /\ m_residual \in {Unknown, Residual}
  /\ m_correctable_bit \in {-2, MendingBit}
  /\ m_corrected_data \in {Empty, Xor(received, {MendingBit})}

Explained == last # Nobody => Wants(last.on, Residual, MendingBit) /\ last.data = Handed(last.on)

MessageInv == Channel /\ Kept /\ Explained

\* The bits that are received are bits of the message.
LEMMA ReceivedBits ==
  ASSUME Channel
  PROVE  n \in {56, 112} /\ received \in SUBSET (0..n - 1) /\ sent \in Codeword
<1>1. sent \in Codeword
  BY CodewordAssumption DEF Channel
<1>2. n \in {56, 112} /\ Encode(sent) \in SUBSET (0..n - 1)
  BY <1>1, EncodeRemainder DEF n
<1>3. PICK e \in ErrorSets : received = Xor(Encode(sent), e)
  BY DEF Channel
<1>4. e \subseteq 0..n - 1
  BY <1>3 DEF ErrorSets
<1>5. ASSUME NEW i \in received PROVE i \in 0..n - 1
  BY <1>2, <1>3, <1>4 DEF Xor
<1> QED
  BY <1>1, <1>2, <1>5

\* The residual that is worked out, or kept, is the remainder.
LEMMA ResidualIs ==
  ASSUME Channel, Kept
  PROVE  crc_residual = Residual
<1>1. message_residual(received, n) = Residual
  BY ReceivedBits, message_residualIsRemainder DEF Residual
<1> QED
  BY <1>1 DEF Kept, crc_residual

LEMMA BitIs ==
  ASSUME Kept
  PROVE  crc_correctable_bit(Residual) = MendingBit
BY DEF Kept, crc_correctable_bit, MendingBit

LEMMA FindInt ==
  ASSUME NEW r
  PROVE  Find(syndromes_short, r) \in Int /\ Find(syndromes_long, r) \in Int
<1>1. DOMAIN syndromes_short \subseteq Int /\ DOMAIN syndromes_long \subseteq Int
  BY DEF syndromes_short, syndromes_long, Syndromes
<1> QED
  BY <1>1 DEF Find

LEMMA MessageInitInv == MessageInit => MessageInv
<1> SUFFICES ASSUME MessageInit PROVE MessageInv
  OBVIOUS
<1>1. Channel
  BY DEF MessageInit, Channel
<1>2. Kept
  BY DEF MessageInit, Kept
<1>3. Explained
  BY DEF MessageInit, Explained
<1> QED
  BY <1>1, <1>2, <1>3 DEF MessageInv

\* What does not depend on what the message keeps does not change.
LEMMA SameMessage ==
  ASSUME UNCHANGED <<sent, received, m_data>>
  PROVE  /\ Residual' = Residual /\ MendingBit' = MendingBit /\ (Channel <=> Channel')
         /\ \A on : Handed(on)' = Handed(on)
         /\ \A on, r, bit : (Wants(on, r, bit) <=> Wants(on, r, bit)')
<1>1. n' = n /\ Residual' = Residual
  BY DEF n, Residual
<1>2. MendingBit' = MendingBit
  BY <1>1 DEF MendingBit
<1>3. \A r : CrcBad(r)' <=> CrcBad(r)
  BY DEF CrcBad
<1>4. ErrorSets' = ErrorSets
  BY <1>1 DEF ErrorSets
<1>5. Channel <=> Channel'
  BY <1>4 DEF Channel
<1>6. \A on : Handed(on)' = Handed(on)
  BY <1>1, <1>2, <1>3 DEF Handed
<1>7. \A on, r, bit : (Wants(on, r, bit) <=> Wants(on, r, bit)')
  BY <1>3 DEF Wants
<1> QED
  BY <1>1, <1>2, <1>5, <1>6, <1>7

LEMMA DeliveredInv ==
  ASSUME MessageInv, NEW on \in Choices, Delivered(on)
  PROVE  MessageInv'
<1>1. Channel /\ Kept
  BY DEF MessageInv
<1>2. crc_residual = Residual /\ crc_correctable_bit(Residual) = MendingBit
  BY <1>1, ResidualIs, BitIs
<1>3. /\ Wants(on, Residual, MendingBit)
      /\ Keeps(on, Residual, MendingBit, TRUE)
      /\ write(on, Residual, MendingBit)
      /\ UNCHANGED <<sent, received>>
  BY <1>2 DEF Delivered
<1>4. m_data' = m_data
  BY <1>3 DEF write
<1>5. /\ Residual' = Residual /\ MendingBit' = MendingBit /\ Channel' /\ Handed(on)' = Handed(on)
      /\ Wants(on, Residual, MendingBit)'
  BY <1>1, <1>3, <1>4, SameMessage
<1>6. MendingBit >= 0 =>
        corrected_data(Residual, MendingBit) =
          IF CrcBad(Residual) THEN Xor(received, {MendingBit}) ELSE received
  <2>1. MendingBit \in Int
    BY FindInt DEF MendingBit
  <2> QED
    BY <1>1, <2>1 DEF corrected_data, Kept
<1>7. last' = [on |-> on, data |-> Handed(on)]
  BY <1>1, <1>3, <1>6 DEF write, Handed, Kept
<1>8. m_corrected_data' \in {Empty, Xor(received, {MendingBit})}
  BY <1>1, <1>3, <1>6 DEF write, Kept
<1>9. m_residual' \in {Unknown, Residual} /\ m_correctable_bit' \in {-2, MendingBit}
  BY <1>1, <1>3 DEF Keeps, Kept
<1>10. Kept'
  BY <1>1, <1>3, <1>4, <1>5, <1>8, <1>9 DEF Kept, Unknown, Empty
<1>11. Explained'
  <2>1. last'.on = on /\ last'.data = Handed(on)
    BY <1>7
  <2> QED
    BY <1>5, <2>1 DEF Explained
<1> QED
  BY <1>5, <1>10, <1>11 DEF MessageInv

LEMMA WithheldInv ==
  ASSUME MessageInv, NEW on \in Choices, Withheld(on)
  PROVE  MessageInv'
<1>1. Channel /\ Kept /\ Explained
  BY DEF MessageInv
<1>2. crc_residual = Residual /\ crc_correctable_bit(Residual) = MendingBit
  BY <1>1, ResidualIs, BitIs
<1>3. /\ Keeps(on, Residual, MendingBit, FALSE)
      /\ UNCHANGED <<sent, received, m_data, m_corrected_data, last>>
  BY <1>2 DEF Withheld
<1>4. Residual' = Residual /\ MendingBit' = MendingBit /\ Channel'
  BY <1>1, <1>3, SameMessage
<1>5. m_residual' \in {Unknown, Residual} /\ m_correctable_bit' \in {-2, MendingBit}
  BY <1>1, <1>3 DEF Keeps, Kept
<1>6. Kept'
  BY <1>1, <1>3, <1>4, <1>5 DEF Kept, Unknown, Empty
<1>7. Explained'
  BY <1>1, <1>3, <1>4, SameMessage DEF Explained
<1> QED
  BY <1>4, <1>6, <1>7 DEF MessageInv

\* Whatever clients a message is broadcast to, in whatever order, what it keeps
\* from one for the next (m_residual, m_correctable_bit, m_corrected_data) is what
\* it would work out again, and a client is handed what it would be handed as the
\* first.
THEOREM MessageInvariance == MessageSpec => []MessageInv
<1>1. ASSUME MessageInv, [MessageNext]_messageVars PROVE MessageInv'
  <2>1. CASE \E on \in Choices : Delivered(on)
    BY <1>1, <2>1, DeliveredInv
  <2>2. CASE \E on \in Choices : Withheld(on)
    BY <1>1, <2>2, WithheldInv
  <2>3. CASE UNCHANGED messageVars
    <3>1. /\ UNCHANGED <<sent, received, m_data>>
          /\ UNCHANGED <<m_residual, m_correctable_bit, m_corrected_data, last>>
      BY <2>3 DEF messageVars, message
    <3>2. Channel /\ Kept /\ Explained
      BY <1>1 DEF MessageInv
    <3>3. Residual' = Residual /\ MendingBit' = MendingBit /\ Channel'
      BY <3>1, <3>2, SameMessage
    <3>4. Kept'
      BY <3>1, <3>2, <3>3 DEF Kept, Unknown, Empty
    <3>5. Explained'
      BY <3>1, <3>2, <3>3, SameMessage DEF Explained
    <3> QED
      BY <3>3, <3>4, <3>5 DEF MessageInv
  <2> QED
    BY <1>1, <2>1, <2>2, <2>3 DEF MessageNext
<1> QED
  BY <1>1, MessageInitInv, PTL DEF MessageSpec

\* The residual that Message::crc_residual keeps is the remainder by the generator
\* polynomial of what was received, whoever asked for it first: of every DF 11, 17
\* and 18 as it was sent or with one or two bits wrong.
THEOREM ResidualIsRemainderHolds == MessageSpec => []ResidualIsRemainder
<1>1. MessageInv => ResidualIsRemainder
  BY DEF MessageInv, Kept, Residual, ResidualIsRemainder
<1> QED
  BY <1>1, MessageInvariance, PTL

\* SocketOutput::write gives a client that asked for messages as they were
\* received, or without error correction, the bits that were received, whoever had
\* them corrected before.
THEOREM AsReceivedHolds == MessageSpec => []AsReceived
<1>1. MessageInv => AsReceived
  BY DEF MessageInv, Explained, Handed, AsReceived
<1> QED
  BY <1>1, MessageInvariance, PTL

-----------------------------------------------------------------------------
(* Wrong bits *)

\* The bits of a format that are 1.
Format == [d \in {11, 17, 18} |-> IF d = 11 THEN {1, 3, 4} ELSE IF d = 17 THEN {0, 4} ELSE {0, 3}]

LEMMA FormatBits ==
  ASSUME NEW w \in Codeword
  PROVE  /\ w.df \in {11, 17, 18}
         /\ \A i \in 0..4 : i \in Encode(w) <=> i \in Format[w.df]
<1>1. w.df \in {11, 17, 18} /\ w.bits \subseteq 5..87 /\ w.iid \subseteq 0..6
  BY DEF Codeword
<1>2. PICK size \in {56, 112} : size = Size(w.df)
  BY DEF Size
<1>3. PICK p : p = {i \in 0..4 : (w.df \div 2^(4 - i)) % 2 = 1}
  OBVIOUS
<1>4. PICK c \in Word : c = Xor(Remainder(p \cup w.bits, size), w.iid)
  <2>1. w.iid \in Word
    BY <1>1 DEF Word
  <2> QED
    BY <2>1, RemainderWord, XorWord
<1>5. PICK f : f = {size - 1 - b : b \in c}
  OBVIOUS
<1>6. f \in SUBSET ((size - 24)..size - 1) /\ Remainder(f, size) = c
  BY <1>5, RemainderParity
<1>7. Encode(w) = (p \cup w.bits) \cup f
  BY <1>2, <1>3, <1>4, <1>5 DEF Encode
<1>8. ASSUME NEW i \in 0..4 PROVE i \in Encode(w) <=> i \in p
  BY <1>1, <1>6, <1>7
<1>9. ASSUME NEW i \in 0..4 PROVE (w.df \div 2^(4 - i)) % 2 = 1 <=> i \in Format[w.df]
  <2>1. 2^(4 - 0) = 16 /\ 2^(4 - 1) = 8 /\ 2^(4 - 2) = 4 /\ 2^(4 - 3) = 2 /\ 2^(4 - 4) = 1
    OBVIOUS
  <2>2. PICK q : q = 2^(4 - i)
    OBVIOUS
  <2>3. \/ i = 0 /\ q = 16
        \/ i = 1 /\ q = 8
        \/ i = 2 /\ q = 4
        \/ i = 3 /\ q = 2
        \/ i = 4 /\ q = 1
    <3>0. CASE i = 0
      BY <2>1, <2>2, <3>0
    <3>1. CASE i = 1
      BY <2>1, <2>2, <3>1
    <3>2. CASE i = 2
      BY <2>1, <2>2, <3>2
    <3>3. CASE i = 3
      BY <2>1, <2>2, <3>3
    <3>4. CASE i = 4
      BY <2>1, <2>2, <3>4
    <3> QED
      BY <3>0, <3>1, <3>2, <3>3, <3>4
  <2>4. CASE w.df = 11
    <3>1. (11 \div q) % 2 = 1 <=> i \in {1, 3, 4}
      BY <2>3
    <3> QED
      BY <2>2, <2>4, <3>1 DEF Format
  <2>5. CASE w.df = 17
    <3>1. (17 \div q) % 2 = 1 <=> i \in {0, 4}
      BY <2>3
    <3> QED
      BY <2>2, <2>5, <3>1 DEF Format
  <2>6. CASE w.df = 18
    <3>1. (18 \div q) % 2 = 1 <=> i \in {0, 3}
      BY <2>3
    <3> QED
      BY <2>2, <2>6, <3>1 DEF Format
  <2> QED
    BY <1>1, <2>4, <2>5, <2>6
<1>10. ASSUME NEW i \in 0..4 PROVE i \in p <=> i \in Format[w.df]
  BY <1>3, <1>9
<1> QED
  BY <1>1, <1>8, <1>10

\* df() reads a format back.
LEMMA dfReads ==
  ASSUME NEW data, NEW d \in {11, 17, 18}
  PROVE  df(data) = d <=> \A i \in 0..4 : i \in data <=> i \in Format[d]
<1>1. 2^(4 - 0) = 16 /\ 2^(4 - 1) = 8 /\ 2^(4 - 2) = 4 /\ 2^(4 - 3) = 2 /\ 2^(4 - 4) = 1
  OBVIOUS
<1>2. PICK b0, b1, b2, b3, b4 :
        /\ b0 = IF 0 \in data THEN 16 ELSE 0
        /\ b1 = IF 1 \in data THEN 8 ELSE 0
        /\ b2 = IF 2 \in data THEN 4 ELSE 0
        /\ b3 = IF 3 \in data THEN 2 ELSE 0
        /\ b4 = IF 4 \in data THEN 1 ELSE 0
  OBVIOUS
<1>3. df(data) = b0 + b1 + b2 + b3 + b4
  BY <1>1, <1>2 DEF df
<1>4. (\A i \in 0..4 : i \in data <=> i \in Format[d])
        <=> /\ 0 \in data <=> 0 \in Format[d]
            /\ 1 \in data <=> 1 \in Format[d]
            /\ 2 \in data <=> 2 \in Format[d]
            /\ 3 \in data <=> 3 \in Format[d]
            /\ 4 \in data <=> 4 \in Format[d]
  <2>1. \A i \in 0..4 : i = 0 \/ i = 1 \/ i = 2 \/ i = 3 \/ i = 4
    OBVIOUS
  <2>2. 0 \in 0..4 /\ 1 \in 0..4 /\ 2 \in 0..4 /\ 3 \in 0..4 /\ 4 \in 0..4
    OBVIOUS
  <2> QED
    BY <2>1, <2>2
<1>5. CASE d = 11
  <2>1. Format[d] = {1, 3, 4}
    BY <1>5 DEF Format
  <2>2. df(data) = 11
          <=> 0 \notin data /\ 1 \in data /\ 2 \notin data /\ 3 \in data /\ 4 \in data
    BY <1>2, <1>3
  <2> QED
    BY <1>4, <1>5, <2>1, <2>2
<1>6. CASE d = 17
  <2>1. Format[d] = {0, 4}
    BY <1>6 DEF Format
  <2>2. df(data) = 17
          <=> 0 \in data /\ 1 \notin data /\ 2 \notin data /\ 3 \notin data /\ 4 \in data
    BY <1>2, <1>3
  <2> QED
    BY <1>4, <1>6, <2>1, <2>2
<1>7. CASE d = 18
  <2>1. Format[d] = {0, 3}
    BY <1>7 DEF Format
  <2>2. df(data) = 18
          <=> 0 \in data /\ 1 \notin data /\ 2 \notin data /\ 3 \in data /\ 4 \notin data
    BY <1>2, <1>3
  <2> QED
    BY <1>4, <1>7, <2>1, <2>2
<1> QED
  BY <1>5, <1>6, <1>7

\* At most two bits are wrong.
LEMMA ErrorShapes ==
  ASSUME NEW e \in ErrorSets
  PROVE  \/ e = {}
         \/ \E i \in 0..n - 1 : e = {i}
         \/ \E i, j \in 0..n - 1 : i # j /\ e = {i, j}
BY DEF ErrorSets

\* A long format does not become DF 11 by two wrong bits.
LEMMA LongStaysLong ==
  ASSUME Channel, sent.df # 11
  PROVE  df(received) # 11
<1> SUFFICES ASSUME df(received) = 11 PROVE FALSE
  OBVIOUS
<1>1. sent \in Codeword
  BY ReceivedBits
<1>2. PICK e \in ErrorSets : received = Xor(Encode(sent), e)
  BY DEF Channel
<1>3. sent.df \in {17, 18} /\ \A i \in 0..4 : i \in Encode(sent) <=> i \in Format[sent.df]
  BY <1>1, FormatBits
<1>4. \A i \in 0..4 : i \in received <=> i \in Format[11]
  BY dfReads
<1>5. 0 \in e /\ 1 \in e /\ (3 \in e \/ 4 \in e)
  <2>1. Format[11] = {1, 3, 4} /\ Format[17] = {0, 4} /\ Format[18] = {0, 3}
    BY DEF Format
  <2>2. /\ 0 \notin received /\ 1 \in received /\ 3 \in received /\ 4 \in received
    BY <1>4, <2>1
  <2>3. /\ 0 \in Encode(sent) /\ 1 \notin Encode(sent)
        /\ 3 \notin Encode(sent) \/ 4 \notin Encode(sent)
    BY <1>3, <2>1
  <2> QED
    BY <1>2, <2>2, <2>3 DEF Xor
<1>6. CASE e = {}
  BY <1>5, <1>6
<1>7. CASE \E i \in 0..n - 1 : e = {i}
  BY <1>5, <1>7
<1>8. CASE \E i, j \in 0..n - 1 : i # j /\ e = {i, j}
  BY <1>5, <1>8
<1> QED
  BY <1>6, <1>7, <1>8, ErrorShapes

LEMMA SyndromeIs ==
  /\ DOMAIN syndromes_long = 5..111
  /\ \A k \in 5..111 : syndromes_long[k] = Power[111 - k]
<1>1. DOMAIN syndromes_long = 5..111
  BY DEF syndromes_long, Syndromes
<1>2. ASSUME NEW k \in 5..111 PROVE syndromes_long[k] = Power[111 - k]
  <2>1. PICK s : s = {k} /\ s \in SUBSET (0..112 - 1) /\ k \in 0..112 - 1
    <3>1. k \in 0..112 - 1
      OBVIOUS
    <3>2. {k} \in SUBSET (0..112 - 1)
      BY <3>1
    <3> QED
      BY <3>1, <3>2
  <2>2. syndromes_long[k] = message_residual(s, 112)
    BY <2>1 DEF syndromes_long, Syndromes
  <2>3. message_residual(s, 112) = Remainder(s, 112)
    BY <2>1, message_residualIsRemainder
  <2>4. Remainder({k}, 112) = Power[112 - 1 - k]
    BY <2>1, RemainderOne
  <2>5. 112 - 1 - k = 111 - k
    OBVIOUS
  <2> QED
    BY <2>1, <2>2, <2>3, <2>4, <2>5
<1> QED
  BY <1>1, <1>2

\* One wrong bit is found, unless it is one of the format.
LEMMA FindOne ==
  ASSUME NEW i \in 0..111
  PROVE  Find(syndromes_long, Power[111 - i]) \in {i, -1}
<1>1. ASSUME NEW k \in DOMAIN syndromes_long, syndromes_long[k] = Power[111 - i] PROVE k = i
  <2>1. k \in 5..111 /\ syndromes_long[k] = Power[111 - k]
    BY SyndromeIs
  <2>2. 111 - k \in 0..111 /\ 111 - i \in 0..111
    BY <2>1
  <2>3. 111 - k = 111 - i
    BY <1>1, <2>1, <2>2, PowerInjective
  <2> QED
    BY <2>1, <2>3
<1> QED
  BY <1>1 DEF Find

\* Two wrong bits are noticed, and do not look like another one: the sum of
\* three powers has an odd number of bits.
LEMMA FindTwo ==
  ASSUME NEW i \in 0..111, NEW j \in 0..111, i # j
  PROVE  /\ Xor(Power[111 - i], Power[111 - j]) # {}
         /\ Find(syndromes_long, Xor(Power[111 - i], Power[111 - j])) = -1
<1>1. 111 - i \in 0..111 /\ 111 - j \in 0..111 /\ 111 - i # 111 - j
  OBVIOUS
<1>2. PICK x, y : x = Power[111 - i] /\ y = Power[111 - j]
  OBVIOUS
<1>3. x # y /\ Odd(x) /\ Odd(y) /\ IsFiniteSet(x) /\ IsFiniteSet(y)
  BY <1>1, <1>2, PowerInjective, PowerOdd
<1>4. Xor(x, y) # {}
  BY <1>3 DEF Xor
<1>5. ~Odd(Xor(x, y))
  BY <1>3, OddXor
<1>6. ASSUME NEW k \in DOMAIN syndromes_long PROVE syndromes_long[k] # Xor(x, y)
  <2>1. k \in 5..111 /\ syndromes_long[k] = Power[111 - k]
    BY SyndromeIs
  <2>2. 111 - k \in 0..111
    BY <2>1
  <2>3. Odd(Power[111 - k])
    BY <2>2, PowerOdd
  <2> QED
    BY <1>5, <2>1, <2>3
<1>7. Find(syndromes_long, Xor(x, y)) = -1
  BY <1>6 DEF Find
<1> QED
  BY <1>2, <1>4, <1>7

\* The residual is that of the wrong bits, and the interrogator's code.
LEMMA ResidualOfErrors ==
  ASSUME Channel, NEW e \in ErrorSets, received = Xor(Encode(sent), e)
  PROVE  Residual = Xor(sent.iid, Remainder(e, n))
<1>1. /\ n \in {56, 112} /\ Encode(sent) \in SUBSET (0..n - 1)
      /\ Remainder(Encode(sent), n) = sent.iid
  BY ReceivedBits, EncodeRemainder DEF n
<1>2. e \in SUBSET (0..n - 1)
  BY DEF ErrorSets
<1> QED
  BY <1>1, <1>2, RemainderXor DEF Residual

LEMMA NoRemainder ==
  ASSUME NEW size
  PROVE  Remainder({}, size) = {}
<1>1. \A b \in 0..23 : Hits({}, size, b) = {}
  BY DEF Hits
<1>2. \A b \in 0..23 : b \notin Remainder({}, size)
  <2>1. PICK s : s = {}
    OBVIOUS
  <2> QED
    BY <1>1, <2>1, OddSmall, RemainderBits
<1> QED
  BY <1>2, RemainderWord DEF Word

LEMMA LongSent ==
  ASSUME Channel, sent.df # 11
  PROVE  n = 112 /\ sent.iid = {}
<1>1. sent \in Codeword
  BY ReceivedBits
<1> QED
  BY <1>1 DEF n, Size, Codeword

\* A long message that is not bad came through well; one that can be mended has
\* just the one wrong bit that is found.
LEMMA LongMended ==
  ASSUME Channel, sent.df # 11, df(received) \in CrcCheckedDF
  PROVE  /\ Residual = {} => received = Encode(sent)
         /\ Residual # {} /\ MendingBit >= 0 => Xor(received, {MendingBit}) = Encode(sent)
<1>1. n = 112 /\ sent.iid = {}
  BY LongSent
<1>2. df(received) \in {17, 18}
  BY LongStaysLong DEF CrcCheckedDF
<1>3. MendingBit = Find(syndromes_long, Residual)
  BY <1>2 DEF MendingBit
<1>4. PICK e \in ErrorSets : received = Xor(Encode(sent), e)
  BY DEF Channel
<1>5. Residual = Remainder(e, 112)
  <2>1. Residual = Xor(sent.iid, Remainder(e, n))
    BY <1>4, ResidualOfErrors
  <2> QED
    BY <1>1, <2>1 DEF Xor
<1>6. CASE e = {}
  <2>1. Residual = {}
    BY <1>5, <1>6, NoRemainder
  <2>2. received = Encode(sent)
    BY <1>4, <1>6 DEF Xor
  <2> QED
    BY <2>1, <2>2
<1>7. CASE \E i \in 0..n - 1 : e = {i}
  <2>1. PICK i \in 0..112 - 1 : e = {i}
    BY <1>1, <1>7
  <2>2. i \in 0..111 /\ 112 - 1 - i = 111 - i /\ 111 - i \in 0..111
    OBVIOUS
  <2>3. Remainder({i}, 112) = Power[112 - 1 - i]
    BY RemainderOne
  <2>4. Residual = Power[111 - i] /\ Residual # {}
    BY <1>5, <2>1, <2>2, <2>3, PowerOdd
  <2>5. MendingBit \in {i, -1}
    BY <1>3, <2>2, <2>4, FindOne
  <2>6. MendingBit >= 0 => MendingBit = i
    BY <2>5
  <2>7. Xor(received, {i}) = Encode(sent)
    BY <1>4, <2>1 DEF Xor
  <2> QED
    BY <2>4, <2>6, <2>7
<1>8. CASE \E i, j \in 0..n - 1 : i # j /\ e = {i, j}
  <2>1. PICK i \in 0..112 - 1, j \in 0..112 - 1 : i # j /\ e = {i, j}
    BY <1>1, <1>8
  <2>2. /\ i \in 0..111 /\ 112 - 1 - i = 111 - i
        /\ j \in 0..111 /\ 112 - 1 - j = 111 - j
    OBVIOUS
  <2>3. PICK a, b : a = {i} /\ b = {j}
    OBVIOUS
  <2>4. e = Xor(a, b) /\ a \in SUBSET (0..112 - 1) /\ b \in SUBSET (0..112 - 1)
    <3>1. e = Xor(a, b)
      BY <2>1, <2>3 DEF Xor
    <3>2. a \in SUBSET (0..112 - 1)
      BY <2>3
    <3>3. b \in SUBSET (0..112 - 1)
      BY <2>3
    <3> QED
      BY <3>1, <3>2, <3>3
  <2>5. Remainder(e, 112) = Xor(Remainder(a, 112), Remainder(b, 112))
    BY <2>4, RemainderXor
  <2>6. Remainder(a, 112) = Power[111 - i] /\ Remainder(b, 112) = Power[111 - j]
    BY <2>2, <2>3, RemainderOne
  <2>7. PICK r : /\ r = Xor(Power[111 - i], Power[111 - j])
                 /\ r # {} /\ Find(syndromes_long, r) = -1
    BY <2>1, <2>2, FindTwo
  <2>8. Residual = r
    BY <1>5, <2>5, <2>6, <2>7
  <2>9. Residual # {} /\ MendingBit = -1
    BY <1>3, <2>7, <2>8
  <2> QED
    BY <2>9
<1> QED
  BY <1>6, <1>7, <1>8, ErrorShapes

\* A client that has the CRC checked is handed no bad message it cannot mend.
LEMMA WantsMeans ==
  ASSUME NEW on, ChecksCrc(on), NEW r, NEW bit, Wants(on, r, bit), CrcBad(r)
  PROVE  bit >= 0 /\ MayFec(on)
<1> DEFINE f == ToFilter(ClientSettings(on))
<1> DEFINE class == IF ~CrcBad(r) THEN "good" ELSE IF bit >= 0 THEN "correctable" ELSE "bad"
<1>1. "crc_disable" \notin on /\ "verbatim" \notin on
  BY DEF ChecksCrc
<1>2. /\ ClientSettings(on)["crc_disable"] = "dontcare"
      /\ ClientSettings(on)["verbatim"] = "dontcare"
      /\ "fec_disable" \in on => ClientSettings(on)["fec_disable"] = "on"
  BY <1>1 DEF ClientSettings, SettingName
<1>3. "bad_crc" \notin f.receive /\ "verbatim" \notin f.receive
  BY <1>2 DEF ToFilter, IsSet, DefaultOn
<1>4. "fec_disable" \in on => "fec" \notin f.receive
  BY <1>2 DEF ToFilter, IsSet, DefaultOn
<1>5. Accepts(f, ModeS(df(m_data), class))
  BY DEF Wants
<1>6. "fec" \in f.receive /\ class = "correctable"
  <2> HIDE DEF f
  <2> QED
    BY <1>3, <1>5 DEF Accepts, ModeS, crc_bad, crc_correctable
<1> QED
  BY <1>1, <1>4, <1>6 DEF MayFec

LEMMA InvClean ==
  ASSUME MessageInv, sent.df # 11 \/ received = Encode(sent)
  PROVE  CleanData
<1> SUFFICES ASSUME last # Nobody, ChecksCrc(last.on), df(received) \in CrcCheckedDF
             PROVE  last.data = Encode(sent)
  BY DEF CleanData, Xor
<1>1. Channel /\ m_data = received
  BY DEF MessageInv, Kept
<1>2. Wants(last.on, Residual, MendingBit) /\ last.data = Handed(last.on)
  BY DEF MessageInv, Explained
<1>3. CrcBad(Residual) => last.data = Xor(received, {MendingBit}) /\ MendingBit >= 0
  BY <1>2, WantsMeans DEF Handed
<1>4. ~CrcBad(Residual) => last.data = received
  BY <1>2 DEF Handed
<1>5. CASE sent.df # 11
  <2>1. df(received) \in {17, 18}
    BY <1>1, <1>5, LongStaysLong DEF CrcCheckedDF
  <2>2. CrcBad(Residual) <=> Residual # {}
    BY <1>1, <2>1 DEF CrcBad
  <2> QED
    BY <1>1, <1>3, <1>4, <1>5, <2>2, LongMended
<1>6. CASE sent.df = 11 /\ received = Encode(sent)
  <2>1. sent \in Codeword
    BY <1>1, ReceivedBits
  <2>2. df(received) = 11
    BY <1>6, <2>1, FormatBits, dfReads
  <2>3. Residual = sent.iid /\ sent.iid \subseteq 0..6
    BY <1>6, <2>1, EncodeRemainder DEF Residual, n, Codeword
  <2>4. ~CrcBad(Residual)
    BY <1>1, <2>2, <2>3 DEF CrcBad
  <2> QED
    BY <1>4, <1>6, <2>4
<1> QED
  BY <1>5, <1>6

\* A client that has the CRC checked is handed only what was sent, whenever a long
\* message (DF 17 or 18, any bits, any bits of it wrong, two at most) or any that
\* came through well is broadcast: Filter::operator() and corrected_data never
\* take two wrong bits for none or for another one.
THEOREM CleanDataHolds ==
  MessageSpec => [](sent.df # 11 \/ received = Encode(sent) => CleanData)
<1>1. MessageInv => (sent.df # 11 \/ received = Encode(sent) => CleanData)
  BY InvClean
<1> QED
  BY <1>1, MessageInvariance, PTL
=============================================================================
