------------------------- MODULE IbConnectionProofs -------------------------
(***************************************************************************)
(* EntryReachesItsPE for any number of PEs and contexts.  The set-up is a  *)
(* sequence of collectives, so the state of a PE is a function of how many *)
(* it has entered: what it gave to them (History), the states of its queue *)
(* pairs (QpsAt) and what it has of the others (NetAt).  No PE is more     *)
(* than one collective ahead of another, which makes the state of the peer *)
(* of an entry known where the entry is posted; the rest is the arithmetic *)
(* of the arrays of queue pairs.                                           *)
(***************************************************************************)
EXTENDS IbConnection, Integers, TLAPS

\* A dynamic connection has one target per PE, as the layout of vec_dct_num needs.
OneTarget == \A w \in Wirings : w.connection = "DC" => w.num_dct = 1

\* What p gives to its n-th collective.
Given(p, n) ==
  IF n = 1 THEN IF Dynamic THEN DC_create_qps_2(p) ELSE RC_create_qps_3(p)
  ELSE IF n = 4 THEN htobe32(Word(Hdp(p)))
  ELSE IF n = 5 THEN Hdp(p)
  ELSE IF n = 6 THEN initialize_rkey_handle(p)
  ELSE <<>>
History(p, k) == [n \in 1 .. k |-> Given(p, n)]

\* Queue pair i of p is connected to the queue pair of the PE it is for that
\* is for p in the same context.
Peer(p, i) == Word(<<i \div wiring.num_blocks, p * wiring.num_blocks + (i % wiring.num_blocks)>>)
QpsAt(p, k) ==
  IF k = 0 THEN <<>>
  ELSE IF Dynamic THEN [i \in QueuePairs |-> connect_dci]
  ELSE IF k = 1 THEN [i \in QueuePairs |-> initqp]
  ELSE IF k = 2 THEN [i \in QueuePairs |-> rtr(Peer(p, i))]
  ELSE [i \in QueuePairs |-> rts(rtr(Peer(p, i)))]

GpuQp(i) ==
  [qp |-> i,
   rkey |-> IF Dynamic THEN htobe32(Nothing) ELSE htobe32(Word(Heap(i \div wiring.num_blocks)))]

Fields == {"mrs", "vec_dct_num", "hdp_rkey", "hdp_address", "heap_rkey", "gpu_qps"}

\* The members m of p after k collectives.
NetAt(p, k, m) ==
  /\ DOMAIN m = Fields /\ m = [f \in Fields |-> m[f]]
  /\ k >= 4 => Hdp(p) \in m.mrs
  /\ k \in 6 .. 8 => Heap(p) \in m.mrs
  /\ k >= 2 /\ Dynamic => \A q \in PE : m.vec_dct_num[q] = htobe32(Word(<<q, 0>>))
  /\ k >= 5 => \A q \in PE : m.hdp_rkey[q] = htobe32(Word(Hdp(q)))
  /\ k >= 6 => \A q \in PE : m.hdp_address[q] = Hdp(q)
  /\ k >= 7 => \A q \in PE : m.heap_rkey[q] = initialize_rkey_handle(q)
  /\ m.gpu_qps # <<>> => k \in 7 .. 8 /\ m.gpu_qps = [i \in QueuePairs |-> GpuQp(i)]

\* What context c of p posts for pe.
Entry(p, c, pe, op) ==
  LET raddr == IF op = "fence" THEN Hdp(pe) ELSE Heap(pe)
  IN  [pe |-> pe, op |-> op,
       from |-> <<p, IF Dynamic THEN c ELSE wiring.num_blocks * pe + c>>,
       to |-> IF Dynamic THEN htobe32(Word(<<pe, 0>>)) ELSE Word(<<pe, wiring.num_blocks * p + c>>),
       rkey |-> htobe32(Word(raddr)), raddr |-> raddr]
Posted(e) ==
  \E p \in PE, c \in Context, pe \in PE, op \in {"put", "fence"} :
    Steps(p) = 7 /\ net[p].gpu_qps # <<>> /\ e = Entry(p, c, pe, op)

ConnInv ==
  /\ wiring \in Wirings
  /\ entered = [p \in PE |-> entered[p]] /\ qps = [p \in PE |-> qps[p]] /\ net = [p \in PE |-> net[p]]
  /\ \A p \in PE : /\ Steps(p) \in 0 .. 9 /\ entered[p] = History(p, Steps(p))
                   /\ qps[p] = QpsAt(p, Steps(p)) /\ NetAt(p, Steps(p), net[p])
                   /\ net[p].gpu_qps # <<>> => \A q \in PE : Steps(q) >= 7
  /\ \A p, q \in PE : Steps(p) <= Steps(q) + 1
  /\ \A e \in entries : Posted(e)

-----------------------------------------------------------------------------
\* The arrays: entry n * q + r, with r below n, is in row q and column r.
LEMMA DivMod ==
  ASSUME NEW i \in Nat, NEW n \in Nat \ {0}
  PROVE /\ i \div n \in Nat /\ i % n \in 0 .. n - 1 /\ i = n * (i \div n) + (i % n)
OBVIOUS

LEMMA RowColumn ==
  ASSUME NEW n \in Nat, NEW q \in Nat, NEW r \in 0 .. n - 1
  PROVE /\ n * q + r \in Nat /\ (n * q + r) \div n = q /\ (n * q + r) % n = r
<1>1. n \in Nat \ {0} /\ n * q \in Nat /\ n * q + r \in Nat
      OBVIOUS
<1>2. PICK d \in Nat : d = (n * q + r) \div n
      BY <1>1, DivMod
<1>3. PICK m \in 0 .. n - 1 : m = (n * q + r) % n
      BY <1>1, DivMod
<1>4. n * q + r = n * d + m
      BY <1>1, <1>2, <1>3, DivMod
<1>5. ~ (d >= q + 1)
  <2>1. SUFFICES ASSUME d >= q + 1 PROVE FALSE
        OBVIOUS
  <2>2. PICK x \in Nat : d = q + 1 + x
        BY <2>1
  <2>3. n * d = n * q + n + n * x /\ n * x \in Nat
        BY <2>2
  <2> QED BY <1>1, <1>4, <2>3
<1>6. ~ (q >= d + 1)
  <2>1. SUFFICES ASSUME q >= d + 1 PROVE FALSE
        OBVIOUS
  <2>2. PICK x \in Nat : q = d + 1 + x
        BY <2>1
  <2>3. n * q = n * d + n + n * x /\ n * x \in Nat
        BY <2>2
  <2> QED BY <1>1, <1>4, <2>3
<1>7. d = q
      BY <1>5, <1>6
<1>8. m = r
      BY <1>1, <1>4, <1>7
<1> QED BY <1>1, <1>2, <1>3, <1>7, <1>8

LEMMA InArray ==
  ASSUME NEW n \in Nat, NEW rows \in Nat, NEW q \in 0 .. rows - 1, NEW r \in 0 .. n - 1
  PROVE n * q + r \in 0 .. rows * n - 1
<1>1. PICK x \in Nat : rows = q + 1 + x
      OBVIOUS
<1>2. rows * n = n * q + n + n * x /\ n * x \in Nat /\ n * q \in Nat
      BY <1>1
<1> QED BY <1>2

LEMMA RowOf ==
  ASSUME NEW n \in Nat, NEW rows \in Nat, NEW i \in 0 .. rows * n - 1
  PROVE /\ n # 0 /\ i \div n \in 0 .. rows - 1 /\ i % n \in 0 .. n - 1
<1>1. n # 0
  <2>1. n = 0 => rows * n = 0
        OBVIOUS
  <2> QED BY <2>1
<1>2. PICK d \in Nat : d = i \div n
      BY <1>1, DivMod
<1>3. i % n \in 0 .. n - 1 /\ i = n * d + (i % n)
      BY <1>1, <1>2, DivMod
<1>4. ~ (d >= rows)
  <2>1. SUFFICES ASSUME d >= rows PROVE FALSE
        OBVIOUS
  <2>2. PICK x \in Nat : d = rows + x
        BY <2>1
  <2>3. n * d = rows * n + n * x /\ n * x \in Nat /\ rows * n \in Nat
        BY <2>2
  <2> QED BY <1>1, <1>3, <2>3
<1> QED BY <1>1, <1>2, <1>3, <1>4

-----------------------------------------------------------------------------
LEMMA WiringFacts ==
  ASSUME wiring \in Wirings
  PROVE /\ wiring.num_pes \in Nat /\ wiring.num_blocks \in Nat /\ wiring.num_dct \in Nat
        /\ PE \subseteq Nat
BY WiringsAssumption DEF PE

\* The definitions that depend on the build alone do not change.
LEMMA SameWiring ==
  ASSUME wiring' = wiring
  PROVE /\ PE' = PE /\ Context' = Context
        /\ \A p, k : Given(p, k)' = Given(p, k) /\ History(p, k)' = History(p, k)
        /\ \A p, k : QpsAt(p, k)' = QpsAt(p, k)
        /\ \A p, k, m : NetAt(p, k, m)' <=> NetAt(p, k, m)
        /\ \A p, c, pe, op : Entry(p, c, pe, op)' = Entry(p, c, pe, op)
<1>1. PE' = PE /\ Context' = Context /\ QueuePairs' = QueuePairs /\ (Dynamic' <=> Dynamic)
      BY Zenon DEF PE, Context, QueuePairs, getNumQueuePairs, Dynamic
<1>2. ASSUME NEW p, NEW k PROVE Given(p, k)' = Given(p, k)
      BY <1>1, Zenon DEF Given, DC_create_qps_2, RC_create_qps_3, initialize_rkey_handle
<1>3. ASSUME NEW p, NEW k PROVE History(p, k)' = History(p, k)
      BY <1>2, Zenon DEF History
<1>4. ASSUME NEW p, NEW k PROVE QpsAt(p, k)' = QpsAt(p, k)
      BY <1>1, Zenon DEF QpsAt, Peer
<1>5. ASSUME NEW p, NEW k, NEW m PROVE NetAt(p, k, m)' <=> NetAt(p, k, m)
      BY <1>1, Zenon DEF NetAt, GpuQp, initialize_rkey_handle
<1>6. ASSUME NEW p, NEW c, NEW pe, NEW op PROVE Entry(p, c, pe, op)' = Entry(p, c, pe, op)
      BY <1>1, Zenon DEF Entry
<1> QED BY <1>1, <1>2, <1>3, <1>4, <1>5, <1>6, Zenon

LEMMA HistoryGrows ==
  ASSUME NEW p, NEW k \in Nat
  PROVE /\ History(p, k) \in Seq({Given(p, n) : n \in 1 .. k}) /\ Len(History(p, k)) = k
        /\ Append(History(p, k), Given(p, k + 1)) = History(p, k + 1)
        /\ \A n \in 1 .. k : History(p, k)[n] = Given(p, n)
<1>1. PICK g : g = [n \in 1 .. k + 1 |-> Given(p, n)]
      BY Zenon
<1>2. \A n \in 1 .. k + 1 : g[n] = Given(p, n)
      BY <1>1, Zenon
<1>3. PICK h : h = [n \in 1 .. k |-> Given(p, n)]
      BY Zenon
<1>4. h \in Seq({Given(p, n) : n \in 1 .. k}) /\ Len(h) = k /\ \A n \in 1 .. k : h[n] = Given(p, n)
      BY <1>3
<1>5. Append(h, Given(p, k + 1)) = g
      BY <1>1, <1>3
<1> QED BY <1>1, <1>3, <1>4, <1>5, Zenon DEF History

\* A PE enters its next collective, and its queue pairs and members become those
\* of the step.
LEMMA Advance ==
  ASSUME ConnInv, NEW p \in PE, NEW k \in 0 .. 8, Steps(p) = k, \A q \in PE : Steps(q) >= k,
         NEW v, v = Given(p, k + 1), Enter(p, v),
         NEW s, s = QpsAt(p, k + 1), qps' = [qps EXCEPT ![p] = s],
         NEW m, NetAt(p, k + 1, m), net' = [net EXCEPT ![p] = m],
         m.gpu_qps # <<>> => \A q \in PE : Steps(q) >= 7,
         wiring' = wiring, entries' = entries, k = 7 => ~ \E e \in entries : e.from[1] = p
  PROVE ConnInv'
<1>1. /\ PE' = PE /\ Context' = Context
      /\ \A q, n : History(q, n)' = History(q, n) /\ QpsAt(q, n)' = QpsAt(q, n)
      /\ \A q, n, x : NetAt(q, n, x)' <=> NetAt(q, n, x)
      /\ \A q, c, pe, op : Entry(q, c, pe, op)' = Entry(q, c, pe, op)
      BY SameWiring, Zenon
<1>2. /\ entered[p] = History(p, k) /\ k \in Nat /\ k + 1 \in 0 .. 9 /\ k + 1 \in Nat
      BY DEF ConnInv
<1>3. entered' = [entered EXCEPT ![p] = History(p, k + 1)]
      BY <1>2, HistoryGrows, Zenon DEF Enter
<1>4. /\ entered' = [q \in PE |-> entered'[q]] /\ qps' = [q \in PE |-> qps'[q]] /\ net' = [q \in PE |-> net'[q]]
      /\ entered'[p] = History(p, k + 1) /\ qps'[p] = s /\ net'[p] = m
      /\ \A q \in PE : q # p => entered'[q] = entered[q] /\ qps'[q] = qps[q] /\ net'[q] = net[q]
  <2>1. entered = [q \in PE |-> entered[q]] /\ qps = [q \in PE |-> qps[q]] /\ net = [q \in PE |-> net[q]]
        BY Zenon DEF ConnInv
  <2>2. /\ entered' = [q \in PE |-> entered'[q]] /\ entered'[p] = History(p, k + 1)
        /\ \A q \in PE : q # p => entered'[q] = entered[q]
        BY <1>3, <2>1, Zenon
  <2>3. qps' = [q \in PE |-> qps'[q]] /\ qps'[p] = s /\ \A q \in PE : q # p => qps'[q] = qps[q]
        BY <2>1, Zenon
  <2>4. net' = [q \in PE |-> net'[q]] /\ net'[p] = m /\ \A q \in PE : q # p => net'[q] = net[q]
        BY <2>1, Zenon
  <2> QED BY <2>2, <2>3, <2>4, Zenon
<1>5. Steps(p)' = k + 1 /\ \A q \in PE : q # p => Steps(q)' = Steps(q)
  <2>1. Len(History(p, k + 1)) = k + 1
        BY <1>2, HistoryGrows, Zenon
  <2> QED BY <1>4, <2>1, Zenon DEF Steps
<1>6. \A q \in PE : Steps(q) \in 0 .. 9 /\ Steps(q)' \in 0 .. 9 /\ Steps(q)' >= Steps(q)
      BY <1>2, <1>5 DEF ConnInv
<1>7. ASSUME NEW q \in PE, NEW r \in PE PROVE Steps(q)' <= Steps(r)' + 1
  <2>1. Steps(q) <= Steps(r) + 1 /\ Steps(r) >= k
        BY Zenon DEF ConnInv
  <2>2. /\ Steps(q) \in 0 .. 9 /\ Steps(q)' \in 0 .. 9 /\ Steps(r) \in 0 .. 9 /\ Steps(r)' \in 0 .. 9
        /\ Steps(r)' >= Steps(r) /\ (Steps(q)' = k + 1 \/ Steps(q)' = Steps(q))
        BY <1>5, <1>6, Zenon
  <2>3. PICK a, b, c, d : a = Steps(q) /\ b = Steps(q)' /\ c = Steps(r) /\ d = Steps(r)'
        BY Zenon
  <2>4. /\ a <= c + 1 /\ c >= k /\ a \in 0 .. 9 /\ b \in 0 .. 9 /\ c \in 0 .. 9 /\ d \in 0 .. 9
        /\ d >= c /\ (b = k + 1 \/ b = a)
        BY <2>1, <2>2, <2>3, Zenon
  <2>5. b <= d + 1
        BY <2>4
  <2> QED BY <2>3, <2>5, Zenon
<1>8. (\A q \in PE : Steps(q) >= 7) => \A q \in PE : Steps(q)' >= 7
      BY <1>6
<1>9. ASSUME NEW q \in PE
      PROVE /\ entered'[q] = History(q, Steps(q)') /\ qps'[q] = QpsAt(q, Steps(q)') /\ NetAt(q, Steps(q)', net'[q])
            /\ net'[q].gpu_qps # <<>> => \A r \in PE : Steps(r)' >= 7
  <2>1. CASE q = p
        BY <1>4, <1>5, <1>8, <2>1, Zenon
  <2>2. CASE q # p
    <3>1. /\ entered[q] = History(q, Steps(q)) /\ qps[q] = QpsAt(q, Steps(q)) /\ NetAt(q, Steps(q), net[q])
          /\ net[q].gpu_qps # <<>> => \A r \in PE : Steps(r) >= 7
          BY Zenon DEF ConnInv
    <3> QED BY <1>4, <1>5, <1>8, <2>2, <3>1, Zenon
  <2> QED BY <2>1, <2>2, Zenon
<1>10. ASSUME NEW e \in entries PROVE Posted(e)'
  <2>1. PICK q \in PE, c \in Context, pe \in PE, op \in {"put", "fence"} :
          Steps(q) = 7 /\ net[q].gpu_qps # <<>> /\ e = Entry(q, c, pe, op)
        BY Zenon DEF ConnInv, Posted
  <2>2. q # p
    <3>1. e.from[1] = q
          BY <2>1 DEF Entry
    <3> QED BY <2>1, <3>1, Zenon
  <2> QED BY <1>1, <1>4, <1>5, <2>1, <2>2, Zenon DEF Posted
<1>11. ASSUME NEW q \in PE
       PROVE /\ Steps(q)' \in 0 .. 9 /\ entered'[q] = History(q, Steps(q))'
             /\ qps'[q] = QpsAt(q, Steps(q))' /\ NetAt(q, Steps(q), net[q])'
       BY <1>1, <1>6, <1>9, Zenon
<1> QED BY <1>1, <1>4, <1>7, <1>9, <1>10, <1>11, Zenon DEF ConnInv

-----------------------------------------------------------------------------
\* A collective gathers what each PE gives to it.
LEMMA GaveIsGiven ==
  ASSUME ConnInv, NEW q \in PE, NEW n \in 1 .. 9, Steps(q) >= n PROVE Gave(q, n) = Given(q, n)
<1>1. Steps(q) \in Nat /\ n \in 1 .. Steps(q) /\ entered[q] = History(q, Steps(q))
      BY DEF ConnInv
<1> QED BY <1>1, HistoryGrows, Zenon DEF Gave

\* Writing one member leaves the others.
LEMMA MemberOf ==
  ASSUME NEW m, m = [f \in Fields |-> m[f]], NEW name \in Fields, NEW v,
         NEW o, o = [m EXCEPT ![name] = v]
  PROVE /\ DOMAIN o = Fields /\ o = [f \in Fields |-> o[f]]
        /\ o[name] = v /\ \A f \in Fields : f # name => o[f] = m[f]
BY Zenon

LEMMA FieldNames ==
  ASSUME NEW m
  PROVE /\ m.mrs = m["mrs"] /\ m.vec_dct_num = m["vec_dct_num"] /\ m.hdp_rkey = m["hdp_rkey"]
        /\ m.hdp_address = m["hdp_address"] /\ m.heap_rkey = m["heap_rkey"] /\ m.gpu_qps = m["gpu_qps"]
OBVIOUS

LEMMA NetStays ==
  ASSUME NEW p, NEW k \in 0 .. 8, NEW m, NetAt(p, k, m), k \in {0, 2, 7} \/ (k = 1 /\ ~Dynamic)
  PROVE NetAt(p, k + 1, m)
<1>1. /\ k + 1 >= 4 => k >= 4
      /\ k + 1 \in 6 .. 8 => k \in 6 .. 8
      /\ k + 1 >= 2 /\ Dynamic => k >= 2
      /\ k + 1 >= 5 => k >= 5
      /\ k + 1 >= 6 => k >= 6
      /\ k + 1 >= 7 => k >= 7
      /\ k \in 7 .. 8 => k + 1 \in 7 .. 8
      BY SMT
<1> QED BY <1>1, Zenon DEF NetAt

LEMMA CreateKeeps ==
  ASSUME ConnInv, NEW p \in PE, create_qps(p) PROVE ConnInv'
<1>1. /\ Steps(p) = 0 /\ 0 \in 0 .. 8 /\ 0 + 1 = 1 /\ \A q \in PE : Steps(q) >= 0
      BY DEF ConnInv, create_qps
<1>2. NetAt(p, 0, net[p]) /\ net = [q \in PE |-> net[q]] /\ (net[p].gpu_qps # <<>> => \A q \in PE : Steps(q) >= 7)
      BY <1>1, Zenon DEF ConnInv
<1>3. NetAt(p, 1, net[p])
      BY <1>1, <1>2, NetStays
<1>4. net' = [net EXCEPT ![p] = net[p]]
      BY <1>2, Zenon DEF create_qps
<1>5. qps' = [qps EXCEPT ![p] = QpsAt(p, 1)]
  <2>1. QpsAt(p, 1) = [i \in QueuePairs |-> IF Dynamic THEN connect_dci ELSE initqp]
        BY DEF QpsAt
  <2> QED BY <2>1, Zenon DEF create_qps
<1>6. Enter(p, Given(p, 1))
      BY Zenon DEF create_qps, Given
<1>7. wiring' = wiring /\ entries' = entries /\ 0 # 7
      BY DEF create_qps
<1> QED BY <1>1, <1>2, <1>3, <1>4, <1>5, <1>6, <1>7, Advance, Zenon

\* Where p has entered k collectives and its members stay.
LEMMA NetUnchanged ==
  ASSUME ConnInv, NEW p \in PE, net' = net
  PROVE /\ NetAt(p, Steps(p), net[p]) /\ net' = [net EXCEPT ![p] = net[p]]
        /\ net[p].gpu_qps # <<>> => \A q \in PE : Steps(q) >= 7
<1>1. NetAt(p, Steps(p), net[p]) /\ net = [q \in PE |-> net[q]] /\ (net[p].gpu_qps # <<>> => \A q \in PE : Steps(q) >= 7)
      BY Zenon DEF ConnInv
<1> QED BY <1>1, Zenon

\* The queue pairs of one context for one PE, and the place of a queue pair.
LEMMA Layout ==
  ASSUME wiring \in Wirings, ~Dynamic, NEW p \in PE, NEW i \in QueuePairs
  PROVE /\ i \div wiring.num_blocks \in PE /\ i % wiring.num_blocks \in Context
        /\ p * wiring.num_blocks + (i % wiring.num_blocks) \in QueuePairs
<1>1. PICK n \in Nat, rows \in Nat : n = wiring.num_blocks /\ rows = wiring.num_pes
      BY WiringFacts, Zenon
<1>2. QueuePairs = 0 .. rows * n - 1 /\ PE = 0 .. rows - 1 /\ Context = 0 .. n - 1
      BY <1>1, Zenon DEF QueuePairs, PE, Context, getNumQueuePairs
<1>3. i \div n \in PE /\ i % n \in Context
      BY <1>2, RowOf, Zenon
<1>4. n * p + (i % n) \in QueuePairs /\ p * n = n * p
  <2>1. p * n = n * p
        BY <1>2
  <2> QED BY <1>2, <1>3, <2>1, InArray, Zenon
<1> QED BY <1>1, <1>3, <1>4, Zenon

LEMMA AllQp ==
  ASSUME ConnInv, ~Dynamic, NEW p \in PE, \A q \in PE : Steps(q) >= 1, NEW i \in QueuePairs
  PROVE all_qp(p, i) = Peer(p, i)
<1>1. PICK q \in PE, j \in QueuePairs : q = i \div wiring.num_blocks /\ j = p * wiring.num_blocks + (i % wiring.num_blocks)
      BY Layout, Zenon DEF ConnInv
<1>2. Gave(q, 1) = RC_create_qps_3(q)
  <2>1. 1 \in 1 .. 9
        OBVIOUS
  <2> QED BY <2>1, GaveIsGiven, Zenon DEF Given
<1>3. Gave(q, 1)[j] = Word(<<q, j>>)
      BY <1>2, Zenon DEF RC_create_qps_3, create_qp
<1> QED BY <1>1, <1>3, Zenon DEF all_qp, Peer

LEMMA ReliableKeeps ==
  ASSUME ConnInv, NEW p \in PE, RC_initialize_1(p) PROVE ConnInv'
<1>1. /\ ~Dynamic /\ wiring' = wiring /\ net' = net /\ entries' = entries /\ Enter(p, <<>>)
      BY Zenon DEF RC_initialize_1
<1>2. PICK k \in {1, 2} : After(p, k) /\ qps' = [qps EXCEPT ![p] = QpsAt(p, k + 1)]
  <2>1. CASE After(p, 1) /\ qps' = [qps EXCEPT ![p] = [i \in QueuePairs |-> rtr(all_qp(p, i))]]
    <3>1. \A i \in QueuePairs : all_qp(p, i) = Peer(p, i)
          BY <1>1, <2>1, AllQp, Zenon DEF After
    <3>2. QpsAt(p, 1 + 1) = [i \in QueuePairs |-> rtr(Peer(p, i))]
          BY <1>1 DEF QpsAt
    <3>3. QpsAt(p, 1 + 1) = [i \in QueuePairs |-> rtr(all_qp(p, i))]
          BY <3>1, <3>2, Zenon
    <3> QED BY <2>1, <3>3, Zenon
  <2>2. CASE After(p, 2) /\ qps' = [qps EXCEPT ![p] = [i \in QueuePairs |-> rts(@[i])]]
    <3>1. QpsAt(p, 2 + 1) = [i \in QueuePairs |-> rts(rtr(Peer(p, i)))] /\ QpsAt(p, 2) = [i \in QueuePairs |-> rtr(Peer(p, i))]
          BY <1>1 DEF QpsAt
    <3>2. qps[p] = QpsAt(p, 2) /\ qps = [q \in PE |-> qps[q]]
          BY <2>2, Zenon DEF ConnInv, After
    <3>3. \A i \in QueuePairs : qps[p][i] = rtr(Peer(p, i))
          BY <3>1, <3>2, Zenon
    <3>4. [i \in QueuePairs |-> rts(qps[p][i])] = QpsAt(p, 2 + 1)
          BY <3>1, <3>3, Zenon
    <3> QED BY <2>2, <3>2, <3>4, Zenon
  <2> QED BY <2>1, <2>2, Zenon DEF RC_initialize_1
<1>3. k \in 0 .. 8 /\ k # 7 /\ (k = 1 \/ k = 2)
      BY <1>2
<1>4. Steps(p) = k /\ \A q \in PE : Steps(q) >= k
      BY <1>2, Zenon DEF After
<1>5. Given(p, k + 1) = <<>>
      BY <1>3 DEF Given
<1>6. NetAt(p, k + 1, net[p]) /\ net' = [net EXCEPT ![p] = net[p]] /\ (net[p].gpu_qps # <<>> => \A q \in PE : Steps(q) >= 7)
      BY <1>1, <1>3, <1>4, NetStays, NetUnchanged
<1> QED BY <1>1, <1>2, <1>3, <1>4, <1>5, <1>6, Advance, Zenon

LEMMA Targets ==
  ASSUME OneTarget, ConnInv, Dynamic, NEW q \in PE, \A r \in PE : Steps(r) >= 1
  PROVE vec_dct_num[q] = htobe32(Word(<<q, 0>>))
<1>1. wiring.num_dct = 1 /\ wiring.num_pes \in Nat
      BY WiringFacts, Zenon DEF OneTarget, Dynamic, ConnInv
<1>2. /\ q \in 0 .. wiring.num_dct * wiring.num_pes - 1 /\ q \div wiring.num_dct = q /\ q % wiring.num_dct = 0
      /\ 0 \in 0 .. wiring.num_dct - 1 /\ 1 \in 1 .. 9
      BY <1>1 DEF PE
<1>3. Gave(q, 1) = DC_create_qps_2(q)
      BY <1>2, GaveIsGiven, Zenon DEF Given
<1>4. Gave(q, 1)[0] = htobe32(Word(<<q, 0>>))
      BY <1>2, <1>3, Zenon DEF DC_create_qps_2, create_dct
<1>5. vec_dct_num[q] = Gave(q \div wiring.num_dct, 1)[q % wiring.num_dct]
      BY <1>2, Zenon DEF vec_dct_num
<1> QED BY <1>2, <1>4, <1>5, Zenon

LEMMA DynamicKeeps ==
  ASSUME OneTarget, ConnInv, NEW p \in PE, DC_initialize_1(p) PROVE ConnInv'
<1>1. /\ Dynamic /\ wiring' = wiring /\ qps' = qps /\ entries' = entries /\ Enter(p, <<>>)
      BY Zenon DEF DC_initialize_1
<1>2. PICK k \in {1, 2} : After(p, k) /\ (k = 1 => Member(p, "vec_dct_num", vec_dct_num)) /\ (k = 2 => net' = net)
  <2>1. CASE After(p, 1) /\ Member(p, "vec_dct_num", vec_dct_num)
        BY <2>1
  <2>2. CASE After(p, 2) /\ net' = net
        BY <2>2
  <2> QED BY <2>1, <2>2, Zenon DEF DC_initialize_1
<1>3. k \in 0 .. 8 /\ k # 7 /\ (k = 1 \/ k = 2)
      BY <1>2
<1>4. Steps(p) = k /\ \A q \in PE : Steps(q) >= k
      BY <1>2, Zenon DEF After
<1>5. Given(p, k + 1) = <<>>
      BY <1>3 DEF Given
<1>6. qps' = [qps EXCEPT ![p] = QpsAt(p, k + 1)]
  <2>1. QpsAt(p, k + 1) = QpsAt(p, k)
        BY <1>1, <1>3 DEF QpsAt
  <2>2. qps[p] = QpsAt(p, k + 1) /\ qps = [q \in PE |-> qps[q]]
        BY <1>4, <2>1, Zenon DEF ConnInv
  <2> QED BY <1>1, <2>2, Zenon
<1>7. PICK m : /\ NetAt(p, k + 1, m) /\ net' = [net EXCEPT ![p] = m]
               /\ m.gpu_qps # <<>> => \A q \in PE : Steps(q) >= 7
  <2>1. CASE k = 2
        BY <1>2, <1>3, <1>4, <2>1, NetStays, NetUnchanged
  <2>2. CASE k = 1
    <3>1. PICK o : o = net[p] /\ NetAt(p, 1, o) /\ (o.gpu_qps # <<>> => \A q \in PE : Steps(q) >= 7)
          BY <1>4, <2>2, Zenon DEF ConnInv
    <3>2. PICK m : m = [o EXCEPT !["vec_dct_num"] = vec_dct_num]
          BY Zenon
    <3>3. net' = [net EXCEPT ![p] = m]
          BY <1>2, <2>2, <3>1, <3>2, Zenon DEF Member
    <3>4. /\ DOMAIN m = Fields /\ m = [f \in Fields |-> m[f]] /\ m.vec_dct_num = vec_dct_num /\ m.gpu_qps = o.gpu_qps
      <4>1. o = [f \in Fields |-> o[f]] /\ "vec_dct_num" \in Fields /\ "gpu_qps" \in Fields /\ "vec_dct_num" # "gpu_qps"
            BY <3>1, Zenon DEF NetAt, Fields
      <4>2. /\ DOMAIN m = Fields /\ m = [f \in Fields |-> m[f]] /\ m["vec_dct_num"] = vec_dct_num /\ m["gpu_qps"] = o["gpu_qps"]
            BY <3>2, <4>1, MemberOf, Zenon
      <4> QED BY <4>2, FieldNames, Zenon
    <3>5. \A q \in PE : m.vec_dct_num[q] = htobe32(Word(<<q, 0>>))
          BY <1>1, <1>4, <2>2, <3>4, Targets, Zenon
    <3>6. NetAt(p, 1 + 1, m)
      <4>1. ~ (1 + 1 >= 4) /\ ~ (1 + 1 >= 5) /\ ~ (1 + 1 >= 6) /\ ~ (1 + 1 >= 7) /\ 1 + 1 \notin 6 .. 8 /\ 1 \notin 7 .. 8
            OBVIOUS
      <4> QED BY <3>1, <3>4, <3>5, <4>1, Zenon DEF NetAt
    <3> QED BY <2>2, <3>1, <3>3, <3>4, <3>6, Zenon
  <2> QED BY <1>3, <2>1, <2>2, Zenon
<1> QED BY <1>1, <1>3, <1>4, <1>5, <1>6, <1>7, Advance, Zenon

\* From the third collective on the queue pairs stay as they are.
LEMMA LaterStep ==
  ASSUME ConnInv, NEW p \in PE, NEW k \in 3 .. 8, Steps(p) = k, \A q \in PE : Steps(q) >= k,
         Enter(p, Given(p, k + 1)), wiring' = wiring, qps' = qps, entries' = entries,
         k = 7 => ~ \E e \in entries : e.from[1] = p,
         NEW m, NetAt(p, k + 1, m), net' = [net EXCEPT ![p] = m],
         m.gpu_qps # <<>> => \A q \in PE : Steps(q) >= 7
  PROVE ConnInv'
<1>1. QpsAt(p, k + 1) = QpsAt(p, k) /\ k \in 0 .. 8
      BY DEF QpsAt
<1>2. qps[p] = QpsAt(p, k + 1) /\ qps = [q \in PE |-> qps[q]]
      BY <1>1, Zenon DEF ConnInv
<1>3. qps' = [qps EXCEPT ![p] = QpsAt(p, k + 1)]
      BY <1>2, Zenon
<1> QED BY <1>1, <1>3, Advance, Zenon

LEMMA Gathered ==
  ASSUME ConnInv, NEW n \in 1 .. 9, \A q \in PE : Steps(q) >= n, NEW q \in PE
  PROVE Gather(n)[q] = Given(q, n)
<1>1. Gave(q, n) = Given(q, n)
      BY GaveIsGiven, Zenon
<1> QED BY <1>1, Zenon DEF Gather

\* The members of p where it enters its next collective.
LEMMA MembersBefore ==
  ASSUME ConnInv, NEW p \in PE
  PROVE /\ NetAt(p, Steps(p), net[p]) /\ net = [q \in PE |-> net[q]]
        /\ net[p].gpu_qps # <<>> => \A q \in PE : Steps(q) >= 7
BY Zenon DEF ConnInv

LEMMA HdpKeeps ==
  ASSUME ConnInv, NEW p \in PE, exchange_hdp_info(p) PROVE ConnInv'
<1>0. wiring' = wiring /\ qps' = qps /\ entries' = entries
      BY Zenon DEF exchange_hdp_info
<1>1. CASE After(p, 3) /\ Member(p, "mrs", net[p].mrs \cup {Hdp(p)}) /\ Enter(p, htobe32(Word(Hdp(p))))
  <2>1. Steps(p) = 3 /\ (\A q \in PE : Steps(q) >= 3) /\ Given(p, 3 + 1) = htobe32(Word(Hdp(p))) /\ 3 \in 3 .. 8 /\ 3 # 7
        BY <1>1 DEF After, Given
  <2>2. PICK o : o = net[p] /\ NetAt(p, 3, o) /\ (o.gpu_qps # <<>> => \A q \in PE : Steps(q) >= 7)
        BY <2>1, MembersBefore, Zenon
  <2>3. PICK m : m = [o EXCEPT !["mrs"] = net[p].mrs \cup {Hdp(p)}]
        BY Zenon
  <2>4. net' = [net EXCEPT ![p] = m]
        BY <1>1, <2>2, <2>3, Zenon DEF Member
  <2>5. /\ DOMAIN m = Fields /\ m = [f \in Fields |-> m[f]] /\ Hdp(p) \in m.mrs
        /\ m.vec_dct_num = o.vec_dct_num /\ m.gpu_qps = o.gpu_qps
    <3>1. o = [f \in Fields |-> o[f]] /\ "mrs" \in Fields
          BY <2>2, Zenon DEF NetAt, Fields
    <3>2. /\ DOMAIN m = Fields /\ m = [f \in Fields |-> m[f]] /\ m["mrs"] = net[p].mrs \cup {Hdp(p)}
          /\ \A f \in Fields : f # "mrs" => m[f] = o[f]
          BY <2>3, <3>1, MemberOf, Zenon
    <3>3. m["vec_dct_num"] = o["vec_dct_num"] /\ m["gpu_qps"] = o["gpu_qps"]
          BY <3>2, Zenon DEF Fields
    <3> QED BY <3>2, <3>3, FieldNames, Zenon
  <2>6. NetAt(p, 3 + 1, m)
    <3>1. 3 >= 2 /\ ~ (3 + 1 >= 5) /\ ~ (3 + 1 >= 6) /\ ~ (3 + 1 >= 7) /\ 3 + 1 \notin 6 .. 8 /\ 3 \notin 7 .. 8
          OBVIOUS
    <3> QED BY <2>2, <2>5, <3>1, Zenon DEF NetAt
  <2> QED BY <1>0, <1>1, <2>1, <2>2, <2>4, <2>5, <2>6, LaterStep, Zenon
<1>2. CASE After(p, 4) /\ Member(p, "hdp_rkey", Gather(4)) /\ Enter(p, Hdp(p))
  <2>1. Steps(p) = 4 /\ (\A q \in PE : Steps(q) >= 4) /\ Given(p, 4 + 1) = Hdp(p) /\ 4 \in 3 .. 8 /\ 4 # 7 /\ 4 \in 1 .. 9
        BY <1>2 DEF After, Given
  <2>2. PICK o : o = net[p] /\ NetAt(p, 4, o) /\ (o.gpu_qps # <<>> => \A q \in PE : Steps(q) >= 7)
        BY <2>1, MembersBefore, Zenon
  <2>3. PICK m : m = [o EXCEPT !["hdp_rkey"] = Gather(4)]
        BY Zenon
  <2>4. net' = [net EXCEPT ![p] = m]
        BY <1>2, <2>2, <2>3, Zenon DEF Member
  <2>5. /\ DOMAIN m = Fields /\ m = [f \in Fields |-> m[f]] /\ m.mrs = o.mrs /\ m.hdp_rkey = Gather(4)
        /\ m.vec_dct_num = o.vec_dct_num /\ m.gpu_qps = o.gpu_qps
    <3>1. o = [f \in Fields |-> o[f]] /\ "hdp_rkey" \in Fields
          BY <2>2, Zenon DEF NetAt, Fields
    <3>2. /\ DOMAIN m = Fields /\ m = [f \in Fields |-> m[f]] /\ m["hdp_rkey"] = Gather(4)
          /\ \A f \in Fields : f # "hdp_rkey" => m[f] = o[f]
          BY <2>3, <3>1, MemberOf, Zenon
    <3>3. m["vec_dct_num"] = o["vec_dct_num"] /\ m["gpu_qps"] = o["gpu_qps"] /\ m["mrs"] = o["mrs"]
          BY <3>2, Zenon DEF Fields
    <3> QED BY <3>2, <3>3, FieldNames, Zenon
  <2>6. \A q \in PE : m.hdp_rkey[q] = htobe32(Word(Hdp(q)))
    <3>1. \A q \in PE : Given(q, 4) = htobe32(Word(Hdp(q)))
          BY DEF Given
    <3> QED BY <2>1, <2>5, <3>1, Gathered, Zenon
  <2>7. NetAt(p, 4 + 1, m)
    <3>1. 4 >= 4 /\ 4 >= 2 /\ ~ (4 + 1 >= 6) /\ ~ (4 + 1 >= 7) /\ 4 + 1 \notin 6 .. 8 /\ 4 \notin 7 .. 8
          OBVIOUS
    <3> QED BY <2>2, <2>5, <2>6, <3>1, Zenon DEF NetAt
  <2> QED BY <1>0, <1>2, <2>1, <2>2, <2>4, <2>5, <2>7, LaterStep, Zenon
<1> QED BY <1>1, <1>2, Zenon DEF exchange_hdp_info

LEMMA HeapKeyKeeps ==
  ASSUME ConnInv, NEW p \in PE, heap_memory_rkey(p) PROVE ConnInv'
<1>1. Steps(p) = 5 /\ (\A q \in PE : Steps(q) >= 5) /\ Given(p, 5 + 1) = initialize_rkey_handle(p) /\ 5 \in 3 .. 8 /\ 5 # 7 /\ 5 \in 1 .. 9
      BY DEF After, Given, heap_memory_rkey
<1>2. PICK o : o = net[p] /\ NetAt(p, 5, o) /\ (o.gpu_qps # <<>> => \A q \in PE : Steps(q) >= 7)
      BY <1>1, MembersBefore, Zenon
<1>3. PICK r : r = [o EXCEPT !["hdp_address"] = Gather(5)]
      BY Zenon
<1>4. PICK m : m = [r EXCEPT !["mrs"] = r["mrs"] \cup {Heap(p)}]
      BY Zenon
<1>5. net' = [net EXCEPT ![p] = m]
  <2>1. net' = [net EXCEPT ![p].hdp_address = Gather(5), ![p].mrs = @ \cup {Heap(p)}]
        BY Zenon DEF heap_memory_rkey
  <2>2. net = [q \in PE |-> net[q]]
        BY MembersBefore, Zenon
  <2> QED BY <1>2, <1>3, <1>4, <2>1, <2>2
<1>6. /\ DOMAIN m = Fields /\ m = [f \in Fields |-> m[f]] /\ Heap(p) \in m.mrs /\ (Hdp(p) \in o.mrs => Hdp(p) \in m.mrs)
      /\ m.hdp_address = Gather(5)
      /\ m.hdp_rkey = o.hdp_rkey /\ m.vec_dct_num = o.vec_dct_num /\ m.gpu_qps = o.gpu_qps
  <2>1. o = [f \in Fields |-> o[f]] /\ "hdp_address" \in Fields /\ "mrs" \in Fields
        BY <1>2, Zenon DEF NetAt, Fields
  <2>2. /\ r = [f \in Fields |-> r[f]] /\ r["hdp_address"] = Gather(5)
        /\ \A f \in Fields : f # "hdp_address" => r[f] = o[f]
        BY <1>3, <2>1, MemberOf, Zenon
  <2>3. /\ DOMAIN m = Fields /\ m = [f \in Fields |-> m[f]] /\ m["mrs"] = r["mrs"] \cup {Heap(p)}
        /\ \A f \in Fields : f # "mrs" => m[f] = r[f]
        BY <1>4, <2>1, <2>2, MemberOf, Zenon
  <2>4. /\ m["vec_dct_num"] = o["vec_dct_num"] /\ m["gpu_qps"] = o["gpu_qps"] /\ m["hdp_rkey"] = o["hdp_rkey"]
        /\ m["hdp_address"] = Gather(5) /\ m["mrs"] = o["mrs"] \cup {Heap(p)}
        BY <2>2, <2>3, Zenon DEF Fields
  <2> QED BY <2>3, <2>4, FieldNames, Zenon
<1>7. \A q \in PE : m.hdp_address[q] = Hdp(q)
  <2>1. \A q \in PE : Given(q, 5) = Hdp(q)
        BY DEF Given
  <2> QED BY <1>1, <1>6, <2>1, Gathered, Zenon
<1>8. NetAt(p, 5 + 1, m)
  <2>1. 5 >= 4 /\ 5 >= 2 /\ 5 >= 5 /\ ~ (5 + 1 >= 7) /\ 5 \notin 7 .. 8
        OBVIOUS
  <2> QED BY <1>2, <1>6, <1>7, <2>1, Zenon DEF NetAt
<1>9. wiring' = wiring /\ qps' = qps /\ entries' = entries /\ Enter(p, initialize_rkey_handle(p))
      BY Zenon DEF heap_memory_rkey
<1> QED BY <1>1, <1>2, <1>5, <1>6, <1>8, <1>9, LaterStep, Zenon

LEMMA InitKeeps ==
  ASSUME ConnInv, NEW p \in PE, rocshmem_g_init(p) PROVE ConnInv'
<1>1. Steps(p) = 6 /\ (\A q \in PE : Steps(q) >= 6) /\ Given(p, 6 + 1) = <<>> /\ 6 \in 3 .. 8 /\ 6 # 7 /\ 6 \in 1 .. 9
      BY DEF After, Given, rocshmem_g_init
<1>2. PICK o : o = net[p] /\ NetAt(p, 6, o) /\ (o.gpu_qps # <<>> => \A q \in PE : Steps(q) >= 7)
      BY <1>1, MembersBefore, Zenon
<1>3. PICK m : m = [o EXCEPT !["heap_rkey"] = Gather(6)]
      BY Zenon
<1>4. net' = [net EXCEPT ![p] = m]
      BY <1>2, <1>3, Zenon DEF Member, rocshmem_g_init
<1>5. /\ DOMAIN m = Fields /\ m = [f \in Fields |-> m[f]] /\ m.mrs = o.mrs /\ m.hdp_rkey = o.hdp_rkey
      /\ m.hdp_address = o.hdp_address /\ m.heap_rkey = Gather(6)
      /\ m.vec_dct_num = o.vec_dct_num /\ m.gpu_qps = o.gpu_qps
  <2>1. o = [f \in Fields |-> o[f]] /\ "heap_rkey" \in Fields
        BY <1>2, Zenon DEF NetAt, Fields
  <2>2. /\ DOMAIN m = Fields /\ m = [f \in Fields |-> m[f]] /\ m["heap_rkey"] = Gather(6)
        /\ \A f \in Fields : f # "heap_rkey" => m[f] = o[f]
        BY <1>3, <2>1, MemberOf, Zenon
  <2>3. /\ m["vec_dct_num"] = o["vec_dct_num"] /\ m["gpu_qps"] = o["gpu_qps"] /\ m["mrs"] = o["mrs"]
        /\ m["hdp_rkey"] = o["hdp_rkey"] /\ m["hdp_address"] = o["hdp_address"]
        BY <2>2, Zenon DEF Fields
  <2> QED BY <2>2, <2>3, FieldNames, Zenon
<1>6. \A q \in PE : m.heap_rkey[q] = initialize_rkey_handle(q)
  <2>1. \A q \in PE : Given(q, 6) = initialize_rkey_handle(q)
        BY DEF Given
  <2> QED BY <1>1, <1>5, <2>1, Gathered, Zenon
<1>7. NetAt(p, 6 + 1, m)
  <2>1. 6 >= 4 /\ 6 >= 2 /\ 6 >= 5 /\ 6 >= 6 /\ 6 \in 6 .. 8 /\ 6 \notin 7 .. 8
        OBVIOUS
  <2> QED BY <1>2, <1>5, <1>6, <2>1, Zenon DEF NetAt
<1>8. wiring' = wiring /\ qps' = qps /\ entries' = entries /\ Enter(p, <<>>)
      BY Zenon DEF rocshmem_g_init
<1> QED BY <1>1, <1>2, <1>4, <1>5, <1>7, <1>8, LaterStep, Zenon

\* The end: the first barrier leaves the members, the second drops them.
LEMMA DestroyKeeps ==
  ASSUME ConnInv, NEW p \in PE, destroy_backend(p) PROVE ConnInv'
<1>1. Steps(p) = 7 /\ net[p].gpu_qps # <<>> /\ Given(p, 7 + 1) = <<>> /\ 7 \in 3 .. 8 /\ 7 \in 0 .. 8
      BY DEF Given, destroy_backend
<1>2. wiring' = wiring /\ qps' = qps /\ net' = net /\ entries' = entries /\ Enter(p, <<>>) /\ ~ \E e \in entries : e.from[1] = p
      BY Zenon DEF destroy_backend
<1>3. NetAt(p, 7, net[p]) /\ net' = [net EXCEPT ![p] = net[p]] /\ \A q \in PE : Steps(q) >= 7
      BY <1>1, <1>2, NetUnchanged, Zenon
<1>4. NetAt(p, 7 + 1, net[p])
      BY <1>1, <1>3, NetStays, Zenon
<1> QED BY <1>1, <1>2, <1>3, <1>4, LaterStep, Zenon

LEMMA FinalizeKeeps ==
  ASSUME ConnInv, NEW p \in PE, networkHostFinalize(p) PROVE ConnInv'
<1>1. Steps(p) = 8 /\ (\A q \in PE : Steps(q) >= 8) /\ Given(p, 8 + 1) = <<>> /\ 8 \in 3 .. 8 /\ 8 # 7
      BY DEF After, Given, networkHostFinalize
<1>2. PICK o : o = net[p] /\ NetAt(p, 8, o)
      BY <1>1, MembersBefore, Zenon
<1>3. PICK r : r = [o EXCEPT !["gpu_qps"] = <<>>]
      BY Zenon
<1>4. PICK m : m = [r EXCEPT !["mrs"] = r["mrs"] \ {Heap(p)}]
      BY Zenon
<1>5. net' = [net EXCEPT ![p] = m]
  <2>1. net' = [net EXCEPT ![p].gpu_qps = <<>>, ![p].mrs = @ \ {Heap(p)}]
        BY Zenon DEF networkHostFinalize
  <2>2. net = [q \in PE |-> net[q]]
        BY MembersBefore, Zenon
  <2> QED BY <1>2, <1>3, <1>4, <2>1, <2>2
<1>6. /\ DOMAIN m = Fields /\ m = [f \in Fields |-> m[f]] /\ m.mrs = o.mrs \ {Heap(p)} /\ m.gpu_qps = <<>>
      /\ m.hdp_rkey = o.hdp_rkey /\ m.vec_dct_num = o.vec_dct_num
      /\ m.hdp_address = o.hdp_address /\ m.heap_rkey = o.heap_rkey
  <2>1. o = [f \in Fields |-> o[f]] /\ "gpu_qps" \in Fields /\ "mrs" \in Fields
        BY <1>2, Zenon DEF NetAt, Fields
  <2>2. /\ r = [f \in Fields |-> r[f]] /\ r["gpu_qps"] = <<>>
        /\ \A f \in Fields : f # "gpu_qps" => r[f] = o[f]
        BY <1>3, <2>1, MemberOf, Zenon
  <2>3. /\ DOMAIN m = Fields /\ m = [f \in Fields |-> m[f]] /\ m["mrs"] = r["mrs"] \ {Heap(p)}
        /\ \A f \in Fields : f # "mrs" => m[f] = r[f]
        BY <1>4, <2>1, <2>2, MemberOf, Zenon
  <2>4. /\ m["vec_dct_num"] = o["vec_dct_num"] /\ m["hdp_rkey"] = o["hdp_rkey"] /\ m["gpu_qps"] = <<>>
        /\ m["hdp_address"] = o["hdp_address"] /\ m["heap_rkey"] = o["heap_rkey"] /\ m["mrs"] = o["mrs"] \ {Heap(p)}
        BY <2>2, <2>3, Zenon DEF Fields
  <2> QED BY <2>3, <2>4, FieldNames, Zenon
<1>7. Hdp(p) # Heap(p)
      BY DEF Hdp, Heap
<1>8. NetAt(p, 8 + 1, m)
  <2>1. 8 >= 4 /\ 8 >= 2 /\ 8 >= 5 /\ 8 >= 6 /\ 8 >= 7 /\ 8 + 1 \notin 6 .. 8
        OBVIOUS
  <2> QED BY <1>2, <1>6, <1>7, <2>1, Zenon DEF NetAt
<1>9. wiring' = wiring /\ qps' = qps /\ entries' = entries /\ Enter(p, <<>>)
      BY Zenon DEF networkHostFinalize
<1> QED BY <1>1, <1>5, <1>6, <1>8, <1>9, LaterStep, Zenon

-----------------------------------------------------------------------------
LEMMA SetupKeeps ==
  ASSUME ConnInv, NEW p \in PE, setup_gpu_qps(p) PROVE ConnInv'
<1>1. /\ Steps(p) = 7 /\ (\A q \in PE : Steps(q) >= 7) /\ net[p].gpu_qps = <<>>
      /\ wiring' = wiring /\ entered' = entered /\ qps' = qps /\ entries' = entries
      BY Zenon DEF After, setup_gpu_qps
<1>2. PICK o : o = net[p] /\ NetAt(p, 7, o)
      BY <1>1, MembersBefore, Zenon
<1>3. PICK g : g = [i \in QueuePairs |-> init_gpu_qp_from_connection(p, i)]
      BY Zenon
<1>4. PICK m : m = [o EXCEPT !["gpu_qps"] = g]
      BY Zenon
<1>5. net' = [net EXCEPT ![p] = m] /\ net = [q \in PE |-> net[q]]
      BY <1>2, <1>3, <1>4, MembersBefore, Zenon DEF Member, setup_gpu_qps
<1>6. g = [i \in QueuePairs |-> GpuQp(i)]
  <2>1. \A q \in PE : net[p].heap_rkey[q] = initialize_rkey_handle(q)
    <3>1. 7 >= 7
          OBVIOUS
    <3> QED BY <1>2, <3>1, Zenon DEF NetAt
  <2>2. ASSUME NEW i \in QueuePairs PROVE init_gpu_qp_from_connection(p, i) = GpuQp(i)
    <3>1. CASE Dynamic
          BY <3>1, Zenon DEF init_gpu_qp_from_connection, GpuQp, post_dv_dc_wqe
    <3>2. CASE ~Dynamic
      <4>1. i \div wiring.num_blocks \in PE
            BY <3>2, Layout, Zenon DEF ConnInv
      <4>2. post_dv_rc_wqe(p, i) = htobe32(Word(Heap(i \div wiring.num_blocks)))
            BY <2>1, <3>2, <4>1, Zenon DEF post_dv_rc_wqe, initialize_rkey_handle
      <4> QED BY <3>2, <4>2, Zenon DEF init_gpu_qp_from_connection, GpuQp
    <3> QED BY <3>1, <3>2, Zenon
  <2> QED BY <1>3, <2>2, Zenon
<1>7. /\ DOMAIN m = Fields /\ m = [f \in Fields |-> m[f]] /\ m.mrs = o.mrs /\ m.hdp_rkey = o.hdp_rkey
      /\ m.hdp_address = o.hdp_address /\ m.heap_rkey = o.heap_rkey
      /\ m.vec_dct_num = o.vec_dct_num /\ m.gpu_qps = g
  <2>1. o = [f \in Fields |-> o[f]] /\ "gpu_qps" \in Fields
        BY <1>2, Zenon DEF NetAt, Fields
  <2>2. /\ DOMAIN m = Fields /\ m = [f \in Fields |-> m[f]] /\ m["gpu_qps"] = g
        /\ \A f \in Fields : f # "gpu_qps" => m[f] = o[f]
        BY <1>4, <2>1, MemberOf, Zenon
  <2>3. /\ m["vec_dct_num"] = o["vec_dct_num"] /\ m["heap_rkey"] = o["heap_rkey"] /\ m["mrs"] = o["mrs"]
        /\ m["hdp_rkey"] = o["hdp_rkey"] /\ m["hdp_address"] = o["hdp_address"]
        BY <2>2, Zenon DEF Fields
  <2> QED BY <2>2, <2>3, FieldNames, Zenon
<1>8. NetAt(p, 7, m)
  <2>1. 7 \in 7 .. 8
        OBVIOUS
  <2> QED BY <1>2, <1>6, <1>7, <2>1, Zenon DEF NetAt
<1>9. /\ PE' = PE /\ Context' = Context
      /\ \A q, n : History(q, n)' = History(q, n) /\ QpsAt(q, n)' = QpsAt(q, n)
      /\ \A q, n, x : NetAt(q, n, x)' <=> NetAt(q, n, x)
      /\ \A q, c, pe, op : Entry(q, c, pe, op)' = Entry(q, c, pe, op)
      BY <1>1, SameWiring, Zenon
<1>10. /\ net' = [q \in PE |-> net'[q]] /\ net'[p] = m /\ (\A q \in PE : q # p => net'[q] = net[q])
       /\ \A q \in PE : Steps(q)' = Steps(q)
       BY <1>1, <1>5, Zenon DEF Steps
<1>11. ASSUME NEW q \in PE
       PROVE /\ NetAt(q, Steps(q), net'[q])
             /\ net'[q].gpu_qps # <<>> => \A r \in PE : Steps(r) >= 7
       BY <1>1, <1>8, <1>10, MembersBefore, Zenon
<1>12. ASSUME NEW e \in entries PROVE Posted(e)'
  <2>1. PICK q \in PE, c \in Context, pe \in PE, op \in {"put", "fence"} :
          Steps(q) = 7 /\ net[q].gpu_qps # <<>> /\ e = Entry(q, c, pe, op)
        BY Zenon DEF ConnInv, Posted
  <2>2. q # p
        BY <1>1, <2>1, Zenon
  <2> QED BY <1>9, <1>10, <2>1, <2>2, Zenon DEF Posted
<1>13. ASSUME NEW q \in PE
       PROVE /\ Steps(q)' \in 0 .. 9 /\ entered'[q] = History(q, Steps(q))'
             /\ qps'[q] = QpsAt(q, Steps(q))' /\ NetAt(q, Steps(q), net[q])'
             /\ net'[q].gpu_qps # <<>> => \A r \in PE : Steps(r)' >= 7
       BY <1>1, <1>9, <1>10, <1>11, Zenon DEF ConnInv
<1>14. \A q, r \in PE : Steps(q)' <= Steps(r)' + 1
       BY <1>10, Zenon DEF ConnInv
<1> QED BY <1>1, <1>9, <1>10, <1>12, <1>13, <1>14, Zenon DEF ConnInv

\* The place of an entry in the arrays.
LEMMA PlaceOf ==
  ASSUME wiring \in Wirings, NEW c \in Context, NEW q \in PE
  PROVE /\ Dynamic => wiring.num_blocks * 0 + c = c /\ c \in QueuePairs
        /\ ~Dynamic => /\ wiring.num_blocks * q + c \in QueuePairs
                       /\ (wiring.num_blocks * q + c) \div wiring.num_blocks = q
                       /\ (wiring.num_blocks * q + c) % wiring.num_blocks = c
<1>1. PICK n \in Nat, rows \in Nat : n = wiring.num_blocks /\ rows = wiring.num_pes
      BY WiringFacts, Zenon
<1>2. PE = 0 .. rows - 1 /\ Context = 0 .. n - 1 /\ q \in Nat
      BY <1>1 DEF PE, Context
<1>3. n * 0 + c = c /\ c \in 0 .. 1 * n - 1
      BY <1>2
<1>4. CASE Dynamic
      BY <1>1, <1>3, <1>4, Zenon DEF QueuePairs, getNumQueuePairs
<1>5. CASE ~Dynamic
  <2>1. QueuePairs = 0 .. rows * n - 1
        BY <1>1, <1>5, Zenon DEF QueuePairs, getNumQueuePairs
  <2>2. n * q + c \in QueuePairs
        BY <1>2, <2>1, InArray, Zenon
  <2>3. (n * q + c) \div n = q /\ (n * q + c) % n = c
        BY <1>2, RowColumn, Zenon
  <2> QED BY <1>1, <1>5, <2>2, <2>3, Zenon
<1> QED BY <1>4, <1>5, Zenon

LEMMA PostIsEntry ==
  ASSUME ConnInv, NEW p \in PE, NEW c \in Context, NEW pe \in PE, NEW op \in {"put", "fence"},
         Steps(p) = 7, net[p].gpu_qps # <<>>, NEW qp, qp = getQueuePair(p, c, pe)
  PROVE [pe |-> pe, op |-> op, from |-> <<p, qp.qp>>, to |-> update_connection_seg(p, qp, pe),
         rkey |-> IF op = "fence" THEN net[p].hdp_rkey[pe] ELSE setRkey(p, qp, pe),
         raddr |-> IF op = "fence" THEN net[p].hdp_address[pe] ELSE Heap(pe)] = Entry(p, c, pe, op)
<1>1. /\ NetAt(p, 7, net[p]) /\ wiring \in Wirings /\ qps[p] = QpsAt(p, 7)
      BY Zenon DEF ConnInv
<1>2. /\ Dynamic => net[p].vec_dct_num[pe] = htobe32(Word(<<pe, 0>>))
      /\ net[p].hdp_rkey[pe] = htobe32(Word(Hdp(pe))) /\ net[p].hdp_address[pe] = Hdp(pe)
      /\ net[p].heap_rkey[pe] = initialize_rkey_handle(pe)
      /\ net[p].gpu_qps = [i \in QueuePairs |-> GpuQp(i)]
  <2>1. 7 >= 2 /\ 7 >= 5 /\ 7 >= 6 /\ 7 >= 7
        OBVIOUS
  <2> QED BY <1>1, <2>1, Zenon DEF NetAt
<1>3. CASE Dynamic
  <2>1. qp = GpuQp(c)
        BY <1>1, <1>2, <1>3, PlaceOf, Zenon DEF getQueuePair, networkHostInit
  <2>2. qp.qp = c
        BY <2>1 DEF GpuQp
  <2>3. update_connection_seg(p, qp, pe) = htobe32(Word(<<pe, 0>>)) /\ setRkey(p, qp, pe) = htobe32(Word(Heap(pe)))
        BY <1>2, <1>3, Zenon DEF update_connection_seg, setRkey, initialize_rkey_handle
  <2>4. CASE op = "fence"
        BY <1>2, <1>3, <2>2, <2>3, <2>4, Zenon DEF Entry
  <2>5. CASE op # "fence"
        BY <1>2, <1>3, <2>2, <2>3, <2>5, Zenon DEF Entry
  <2> QED BY <2>4, <2>5, Zenon
<1>4. CASE ~Dynamic
  <2>1. PICK j \in QueuePairs : /\ j = wiring.num_blocks * pe + c
                                /\ j \div wiring.num_blocks = pe /\ j % wiring.num_blocks = c
        BY <1>1, <1>4, PlaceOf, Zenon
  <2>2. qp = GpuQp(j)
        BY <1>2, <1>4, <2>1, Zenon DEF getQueuePair, networkHostInit
  <2>3. qp.qp = j /\ qp.rkey = htobe32(Word(Heap(pe)))
        BY <1>4, <2>1, <2>2 DEF GpuQp
  <2>4. qps[p][j] = rts(rtr(Peer(p, j)))
    <3>1. QpsAt(p, 7) = [i \in QueuePairs |-> rts(rtr(Peer(p, i)))]
          BY <1>4 DEF QpsAt
    <3> QED BY <1>1, <3>1, Zenon
  <2>5. qps[p][j].dest = Word(<<pe, wiring.num_blocks * p + c>>)
    <3>1. qps[p][j].dest = Peer(p, j)
          BY <2>4 DEF rts, rtr
    <3>2. p * wiring.num_blocks = wiring.num_blocks * p
          BY <1>1, WiringFacts
    <3> QED BY <2>1, <3>1, <3>2, Zenon DEF Peer
  <2>6. /\ update_connection_seg(p, qp, pe) = Word(<<pe, wiring.num_blocks * p + c>>)
        /\ setRkey(p, qp, pe) = htobe32(Word(Heap(pe)))
        BY <1>4, <2>3, <2>5, Zenon DEF update_connection_seg, setRkey
  <2>7. CASE op = "fence"
        BY <1>2, <1>4, <2>1, <2>3, <2>6, <2>7, Zenon DEF Entry
  <2>8. CASE op # "fence"
        BY <1>2, <1>4, <2>1, <2>3, <2>6, <2>8, Zenon DEF Entry
  <2> QED BY <2>7, <2>8, Zenon
<1> QED BY <1>3, <1>4, Zenon

\* Where only the entries change, each new one is as posted.
LEMMA EntriesKeep ==
  ASSUME ConnInv, wiring' = wiring, entered' = entered, qps' = qps, net' = net, \A e \in entries' : Posted(e)
  PROVE ConnInv'
<1>1. /\ PE' = PE /\ Context' = Context
      /\ \A q, n : History(q, n)' = History(q, n) /\ QpsAt(q, n)' = QpsAt(q, n)
      /\ \A q, n, x : NetAt(q, n, x)' <=> NetAt(q, n, x)
      /\ \A q, c, pe, op : Entry(q, c, pe, op)' = Entry(q, c, pe, op)
      BY SameWiring, Zenon
<1>2. \A q : Steps(q)' = Steps(q)
      BY Zenon DEF Steps
<1>3. ASSUME NEW e \in entries' PROVE Posted(e)'
  <2>1. PICK q \in PE, c \in Context, pe \in PE, op \in {"put", "fence"} :
          Steps(q) = 7 /\ net[q].gpu_qps # <<>> /\ e = Entry(q, c, pe, op)
        BY Zenon DEF Posted
  <2>2. Steps(q)' = 7 /\ net'[q].gpu_qps # <<>> /\ e = Entry(q, c, pe, op)'
        BY <1>1, <1>2, <2>1, Zenon
  <2>3. c \in Context' /\ q \in PE' /\ pe \in PE'
        BY <1>1, Zenon
  <2> QED BY <2>2, <2>3, ZenonT(30) DEF Posted
<1>4. ASSUME NEW q \in PE
      PROVE /\ Steps(q)' \in 0 .. 9 /\ entered'[q] = History(q, Steps(q))'
            /\ qps'[q] = QpsAt(q, Steps(q))' /\ NetAt(q, Steps(q), net[q])'
            /\ net'[q].gpu_qps # <<>> => \A r \in PE : Steps(r)' >= 7
      BY <1>1, <1>2, Zenon DEF ConnInv
<1>5. \A q, r \in PE : Steps(q)' <= Steps(r)' + 1
      BY <1>2, Zenon DEF ConnInv
<1> QED BY <1>1, <1>3, <1>4, <1>5, Zenon DEF ConnInv

LEMMA PostKeeps ==
  ASSUME ConnInv, NEW p \in PE, NEW c \in Context, NEW pe \in PE, NEW op \in {"put", "fence"},
         update_posted_wqe(p, c, pe, op)
  PROVE ConnInv'
<1>1. /\ Steps(p) = 7 /\ net[p].gpu_qps # <<>>
      /\ wiring' = wiring /\ entered' = entered /\ qps' = qps /\ net' = net
      BY Zenon DEF update_posted_wqe
<1>2. PICK qp : qp = getQueuePair(p, c, pe)
      BY Zenon
<1>3. entries' = entries \cup {Entry(p, c, pe, op)}
  <2>1. PICK e : e = [pe |-> pe, op |-> op, from |-> <<p, qp.qp>>, to |-> update_connection_seg(p, qp, pe),
                      rkey |-> IF op = "fence" THEN net[p].hdp_rkey[pe] ELSE setRkey(p, qp, pe),
                      raddr |-> IF op = "fence" THEN net[p].hdp_address[pe] ELSE Heap(pe)]
        BY Zenon
  <2>2. e = Entry(p, c, pe, op)
        BY <1>1, <1>2, <2>1, PostIsEntry, ZenonT(60)
  <2>3. entries' = entries \cup {e}
        BY <1>2, <2>1, Zenon DEF update_posted_wqe
  <2> QED BY <2>2, <2>3, Zenon
<1>4. Posted(Entry(p, c, pe, op)) /\ \A e \in entries : Posted(e)
      BY <1>1, Zenon DEF Posted, ConnInv
<1> QED BY <1>1, <1>3, <1>4, EntriesKeep, Zenon

LEMMA PerformKeeps == ASSUME ConnInv, perform PROVE ConnInv'
<1>1. \A e \in entries' : Posted(e)
      BY Zenon DEF perform, ConnInv
<1> QED BY <1>1, EntriesKeep, Zenon DEF perform

LEMMA InitConn == ConnInit => ConnInv
<1> SUFFICES ASSUME ConnInit PROVE ConnInv
    OBVIOUS
<1>1. /\ wiring \in Wirings /\ entries = {}
      /\ entered = [p \in PE |-> entered[p]] /\ qps = [p \in PE |-> qps[p]] /\ net = [p \in PE |-> net[p]]
      BY Zenon DEF ConnInit
<1>2. ASSUME NEW p \in PE
      PROVE /\ Steps(p) = 0 /\ entered[p] = History(p, 0) /\ qps[p] = QpsAt(p, 0)
            /\ NetAt(p, 0, net[p]) /\ net[p].gpu_qps = <<>>
  <2>1. entered[p] = <<>> /\ qps[p] = <<>>
        BY Zenon DEF ConnInit
  <2>2. Steps(p) = 0 /\ History(p, 0) = <<>> /\ QpsAt(p, 0) = <<>>
        BY <2>1 DEF Steps, History, QpsAt
  <2>3. PICK m : m = net[p] /\ m = [mrs |-> {}, vec_dct_num |-> <<>>, hdp_rkey |-> <<>>, hdp_address |-> <<>>,
                                    heap_rkey |-> <<>>, gpu_qps |-> <<>>]
        BY Zenon DEF ConnInit
  <2>4. DOMAIN m = Fields /\ m = [f \in Fields |-> m[f]] /\ m.gpu_qps = <<>>
        BY <2>3 DEF Fields
  <2>5. ~ (0 >= 4) /\ ~ (0 >= 2) /\ ~ (0 >= 5) /\ ~ (0 >= 6) /\ ~ (0 >= 7) /\ 0 \notin 6 .. 8
        OBVIOUS
  <2> QED BY <2>1, <2>2, <2>3, <2>4, <2>5, Zenon DEF NetAt
<1>3. 0 \in 0 .. 9 /\ 0 <= 0 + 1
      OBVIOUS
<1> QED BY <1>1, <1>2, <1>3, Zenon DEF ConnInv

LEMMA NextConn == OneTarget /\ ConnInv /\ [ConnNext]_connVars => ConnInv'
<1> SUFFICES ASSUME OneTarget, ConnInv, [ConnNext]_connVars PROVE ConnInv'
    OBVIOUS
<1>1. CASE UNCHANGED connVars
  <2>1. wiring' = wiring /\ entered' = entered /\ qps' = qps /\ net' = net /\ entries' = entries
        BY <1>1, Zenon DEF connVars
  <2>2. \A e \in entries' : Posted(e)
        BY <2>1, Zenon DEF ConnInv
  <2> QED BY <2>1, <2>2, EntriesKeep, Zenon
<1>2. CASE perform
      BY <1>2, PerformKeeps, Zenon
<1>3. ASSUME NEW p \in PE, ConnStep(p) PROVE ConnInv'
      BY <1>3, CreateKeeps, ReliableKeeps, DynamicKeeps, HdpKeeps, HeapKeyKeeps, InitKeeps, SetupKeeps,
         DestroyKeeps, FinalizeKeeps, PostKeeps, Zenon DEF ConnStep
<1> QED BY <1>1, <1>2, <1>3, Zenon DEF ConnNext

-----------------------------------------------------------------------------
\* A PE with an entry has its peer between the sixth and the eighth collective.
LEMMA PeerIsUp ==
  ASSUME ConnInv, NEW p \in PE, NEW q \in PE, Steps(p) = 7, net[p].gpu_qps # <<>>
  PROVE Steps(q) \in 7 .. 8
<1>1. Steps(q) >= 7 /\ Steps(q) <= Steps(p) + 1 /\ Steps(q) \in 0 .. 9
      BY Zenon DEF ConnInv
<1> QED BY <1>1

\* The queue pairs of a PE that is up.
LEMMA QpsUp ==
  ASSUME ConnInv, NEW p \in PE, Steps(p) \in 7 .. 8, NEW i \in QueuePairs
  PROVE /\ qps[p] # <<>> /\ qps[p][i].state = "RTS"
        /\ ~Dynamic => qps[p][i].dest = Peer(p, i)
<1>1. PICK s : s = qps[p] /\ s = QpsAt(p, Steps(p))
      BY Zenon DEF ConnInv
<1>2. CASE Dynamic
  <2>1. s = [j \in QueuePairs |-> connect_dci]
        BY <1>1, <1>2 DEF QpsAt
  <2>2. s[i] = connect_dci /\ DOMAIN s = QueuePairs
        BY <2>1, Zenon
  <2>3. s[i].state = "RTS"
        BY <2>2 DEF connect_dci, rts, rtr
  <2>4. s # <<>>
        BY <2>2
  <2> QED BY <1>1, <1>2, <2>3, <2>4, Zenon
<1>3. CASE ~Dynamic
  <2>1. s = [j \in QueuePairs |-> rts(rtr(Peer(p, j)))]
        BY <1>1, <1>3 DEF QpsAt
  <2>2. s[i] = rts(rtr(Peer(p, i))) /\ DOMAIN s = QueuePairs
        BY <2>1, Zenon
  <2>3. s[i].state = "RTS" /\ s[i].dest = Peer(p, i)
        BY <2>2 DEF rts, rtr
  <2>4. s # <<>>
        BY <2>2
  <2> QED BY <1>1, <1>3, <2>3, <2>4, Zenon
<1> QED BY <1>2, <1>3, Zenon

\* The memory an entry addresses is registered at its PE.
LEMMA Registered ==
  ASSUME ConnInv, NEW q \in PE, Steps(q) \in 7 .. 8
  PROVE Hdp(q) \in net[q].mrs /\ Heap(q) \in net[q].mrs
<1>1. NetAt(q, Steps(q), net[q])
      BY Zenon DEF ConnInv
<1>2. Steps(q) >= 4 /\ Steps(q) \in 6 .. 8
      OBVIOUS
<1> QED BY <1>1, <1>2, Zenon DEF NetAt

LEMMA EntryReaches == OneTarget /\ ConnInv => EntryReachesItsPE
<1> SUFFICES ASSUME OneTarget, ConnInv, NEW e \in entries
    PROVE /\ qps[e.from[1]][e.from[2]].state = "RTS"
          /\ e.to.is[1] = e.pe /\ e.to.be = Dynamic
          /\ ~Dynamic => /\ qps[e.to.is[1]][e.to.is[2]].state \in {"RTR", "RTS"}
                         /\ qps[e.to.is[1]][e.to.is[2]].dest = Word(e.from)
          /\ Dynamic => qps[e.pe] # <<>> /\ e.to.is[2] < wiring.num_dct
          /\ e.rkey = htobe32(Word(e.raddr))
          /\ e.raddr \in net[e.pe].mrs /\ e.raddr[1] = e.pe
    BY Zenon DEF EntryReachesItsPE
<1>1. PICK p \in PE, c \in Context, pe \in PE, op \in {"put", "fence"} :
        Steps(p) = 7 /\ net[p].gpu_qps # <<>> /\ e = Entry(p, c, pe, op)
      BY Zenon DEF ConnInv, Posted
<1>2. Steps(p) \in 7 .. 8 /\ Steps(pe) \in 7 .. 8 /\ wiring \in Wirings
      BY <1>1, PeerIsUp, Zenon DEF ConnInv
<1>3. PICK raddr : /\ raddr = (IF op = "fence" THEN Hdp(pe) ELSE Heap(pe))
                   /\ e.pe = pe /\ e.raddr = raddr /\ e.rkey = htobe32(Word(raddr))
      BY <1>1 DEF Entry
<1>4. raddr \in net[pe].mrs /\ raddr[1] = pe
  <2>1. Hdp(pe)[1] = pe /\ Heap(pe)[1] = pe
        BY DEF Hdp, Heap
  <2> QED BY <1>2, <1>3, <2>1, Registered, Zenon
<1>5. CASE Dynamic
  <2>1. e.from = <<p, c>> /\ e.to = htobe32(Word(<<pe, 0>>))
        BY <1>1, <1>5 DEF Entry
  <2>2. e.from[1] = p /\ e.from[2] = c /\ e.to.is[1] = pe /\ e.to.is[2] = 0 /\ e.to.be = TRUE
    <3>1. PICK w : w = [is |-> <<pe, 0>>, be |-> FALSE]
          BY Zenon
    <3>2. e.to = [w EXCEPT !.be = ~@]
          BY <2>1, <3>1, Zenon DEF htobe32, Word
    <3>3. e.to.is = <<pe, 0>>
          BY <3>1, <3>2
    <3>4. e.to.be = ~ w.be
          BY <3>1, <3>2
    <3>5. w.be = FALSE
          BY <3>1
    <3>6. e.to.be = TRUE
          BY <3>4, <3>5
    <3> QED BY <2>1, <3>3, <3>6
  <2>3. c \in QueuePairs
        BY <1>2, <1>5, PlaceOf, Zenon
  <2>4. qps[p][c].state = "RTS" /\ qps[pe] # <<>>
        BY <1>2, <2>3, QpsUp, Zenon
  <2>5. 0 < wiring.num_dct
    <3>1. wiring.num_dct = 1
          BY <1>2, <1>5, Zenon DEF OneTarget, Dynamic
    <3> QED BY <3>1
  <2>6. e.to.be = Dynamic
        BY <1>5, <2>2
  <2> QED BY <1>3, <1>4, <1>5, <2>2, <2>4, <2>5, <2>6, Zenon
<1>6. CASE ~Dynamic
  <2>1. PICK i, j : i = wiring.num_blocks * pe + c /\ j = wiring.num_blocks * p + c
        BY Zenon
  <2>2. e.from = <<p, i>> /\ e.to = Word(<<pe, j>>)
        BY <1>1, <1>6, <2>1 DEF Entry
  <2>3. e.from[1] = p /\ e.from[2] = i /\ e.to.is[1] = pe /\ e.to.is[2] = j /\ e.to.be = FALSE
        BY <2>2 DEF Word
  <2>4. /\ i \in QueuePairs /\ j \in QueuePairs
        /\ j \div wiring.num_blocks = p /\ j % wiring.num_blocks = c
        BY <1>2, <1>6, <2>1, PlaceOf, Zenon
  <2>5. qps[p][i].state = "RTS" /\ qps[pe][j].state = "RTS" /\ qps[pe][j].dest = Peer(pe, j)
        BY <1>2, <1>6, <2>4, QpsUp, Zenon
  <2>6. Peer(pe, j) = Word(<<p, i>>)
    <3>1. pe * wiring.num_blocks = wiring.num_blocks * pe
          BY <1>2, WiringFacts
    <3> QED BY <2>1, <2>4, <3>1, Zenon DEF Peer
  <2>7. e.to.be = Dynamic
        BY <1>6, <2>3 DEF Dynamic
  <2> QED BY <1>3, <1>4, <1>6, <2>2, <2>3, <2>5, <2>6, <2>7, Zenon
<1> QED BY <1>5, <1>6, Zenon

\* EntryReachesItsPE, for every number of PEs and of contexts: what
\* networkHostInit and update_posted_wqe take from the arrays that the
\* collectives of the set-up filled leads to a queue pair that is up at the PE
\* meant and, for a reliable connection, connected back, with the key of memory
\* registered there; and so to the end of networkHostFinalize.
THEOREM EntriesReachTheirPE ==
  ASSUME OneTarget PROVE ConnSpec => []EntryReachesItsPE
<1>1. ConnInit => ConnInv
      BY InitConn
<1>2. ConnInv /\ [ConnNext]_connVars => ConnInv'
      BY NextConn
<1>3. ConnInv => EntryReachesItsPE
      BY EntryReaches
<1> QED BY <1>1, <1>2, <1>3, PTL DEF ConnSpec
=============================================================================
