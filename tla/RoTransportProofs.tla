------------------------- MODULE RoTransportProofs -------------------------
(***************************************************************************)
(* No command of the MPI transport is lost or finished twice, no parked    *)
(* quiet is forgotten and none is finished early, for every number of      *)
(* queues, work-items and commands, and whatever MPI_Testsome reports.     *)
(***************************************************************************)
EXTENDS RoTransport, TLAPS

Elem == [hnd : Queue, idx : Nat, tid : Tid, cmd : Cmd]
Req  == {r \in [elem : Elem, queue : Queue] : r.queue = r.elem.hnd}
MpiReq == {r \in Req : ~ Quieting(r.elem.cmd)}

TransportTypes ==
  /\ q \in Seq(Req) /\ requests \in Seq(MpiReq)
  /\ outstanding \in [Queue -> Nat]
  /\ waiting_quiet \in [Queue -> Seq(Elem)]
  /\ \A k \in Queue : \A j \in 1 .. Len(waiting_quiet[k]) :
       waiting_quiet[k][j].hnd = k /\ Quieting(waiting_quiet[k][j].cmd)
  /\ done \subseteq Elem
  /\ issued \in [Queue -> Nat]

\* Indices are kept only from MPI_Testsome to the last erase.
ProgressInv ==
  /\ at \in {"submit", "test", "handle", "erase"}
  /\ completed \subseteq 1 .. Len(requests) /\ unhandled \subseteq completed
  /\ at \in {"submit", "test"} => completed = {}
  /\ at = "erase" => unhandled = {}

\* The requests of queue k that MPI has or that progress has yet to look at.
InFlight(k) == {i \in 1 .. Len(requests) : requests[i].queue = k /\ ~ Handled(i)}

\* f numbers the members of P with 0 .. n - 1, each number once, so P has n members.
Enumerates(f, P, n) ==
  /\ \A p \in P : f[p] \in 0 .. n - 1
  /\ \A i \in 0 .. n - 1 : \E p \in P : f[p] = i
  /\ \A p, r \in P : f[p] = f[r] => p = r

\* The counter of a queue is right, and a quiet is parked only while it is not 0.
CountInv ==
  \A k \in Queue :
    /\ \E f : Enumerates(f, InFlight(k), outstanding[k])
    /\ waiting_quiet[k] # <<>> => outstanding[k] # 0

\* Where the commands of queue k are, and the number of the command at place p.
Held(k) ==
  {<<"q", j>> : j \in {j \in 1 .. Len(q) : q[j].elem.hnd = k}}
  \union {<<"mpi", j>> : j \in {j \in 1 .. Len(requests) :
                                  requests[j].elem.hnd = k /\ ~ Handled(j)}}
  \union {<<"quiet", j>> : j \in 1 .. Len(waiting_quiet[k])}
  \union {<<"done", e>> : e \in {e \in done : e.hnd = k}}
NumberAt(k, p) ==
  CASE p[1] = "q"     -> q[p[2]].elem.idx
    [] p[1] = "mpi"   -> requests[p[2]].elem.idx
    [] p[1] = "quiet" -> waiting_quiet[k][p[2]].idx
    [] p[1] = "done"  -> p[2].idx

Number(k) == [p \in Held(k) |-> NumberAt(k, p)]

\* The places hold every command issued, each once.
Numbered(k) == Enumerates(Number(k), Held(k), issued[k])

\* q is in the order of issue, and what has left it was issued before.
Ordered(k) ==
  \A j \in 1 .. Len(q) : q[j].elem.hnd = k =>
    \A p \in Held(k) :
      (p[1] # "q" \/ p[2] < j) => NumberAt(k, p) < q[j].elem.idx

IInv ==
  /\ TransportTypes /\ ProgressInv /\ CountInv
  /\ \A k \in Queue : Numbered(k) /\ Ordered(k)
  /\ QuietMeansDone

-----------------------------------------------------------------------------
(***************************************************************************)
(* Sequences and enumerations.                                             *)
(***************************************************************************)
LEMMA SeqFacts ==
  ASSUME NEW S, NEW s \in Seq(S)
  PROVE  /\ Len(s) \in Nat /\ DOMAIN s = 1 .. Len(s) /\ \A j \in 1 .. Len(s) : s[j] \in S
         /\ s = <<>> <=> Len(s) = 0
OBVIOUS

LEMMA EmptyFacts == ASSUME NEW S PROVE <<>> \in Seq(S) /\ Len(<<>>) = 0
OBVIOUS

LEMMA AppendFacts ==
  ASSUME NEW S, NEW s \in Seq(S), NEW e \in S
  PROVE  /\ Append(s, e) \in Seq(S) /\ Len(Append(s, e)) = Len(s) + 1
         /\ \A j \in 1 .. Len(s) : Append(s, e)[j] = s[j]
         /\ Append(s, e)[Len(s) + 1] = e
OBVIOUS

LEMMA TailFacts ==
  ASSUME NEW S, NEW s \in Seq(S), s # <<>>
  PROVE  /\ Len(s) \in Nat \ {0} /\ s[1] = Head(s) /\ Head(s) \in S
         /\ Tail(s) \in Seq(S) /\ Len(Tail(s)) = Len(s) - 1
         /\ \A j \in 1 .. Len(s) - 1 : Tail(s)[j] = s[j + 1]
OBVIOUS

LEMMA ConcatFacts ==
  ASSUME NEW S, NEW s \in Seq(S), NEW t \in Seq(S)
  PROVE  /\ s \o t \in Seq(S) /\ Len(s \o t) = Len(s) + Len(t)
         /\ \A j \in 1 .. Len(s) + Len(t) : (s \o t)[j] = IF j <= Len(s) THEN s[j] ELSE t[j - Len(s)]
OBVIOUS

\* requests.erase: the elements behind the erased one move up by one.
LEMMA WithoutProperties ==
  ASSUME NEW S, NEW s \in Seq(S), NEW i \in 1 .. Len(s)
  PROVE  /\ Without(s, i) \in Seq(S)
         /\ Len(Without(s, i)) = Len(s) - 1
         /\ \A j \in 1 .. i - 1 : Without(s, i)[j] = s[j]
         /\ \A j \in i .. Len(s) - 1 : Without(s, i)[j] = s[j + 1]
<1> DEFINE a == SubSeq(s, 1, i - 1)
           b == SubSeq(s, i + 1, Len(s))
<1>1. Len(s) \in Nat /\ i \in Nat /\ i <= Len(s) /\ 1 <= i
      BY SeqFacts
<1>2. a \in Seq(S) /\ Len(a) = i - 1 /\ \A j \in 1 .. i - 1 : a[j] = s[j]
      BY <1>1
<1>3. b \in Seq(S) /\ Len(b) = Len(s) - i /\ \A j \in 1 .. Len(s) - i : b[j] = s[i + j]
      BY <1>1
<1>4. Without(s, i) = a \o b
      BY Zenon DEF Without
<1> HIDE DEF a, b
<1>5. /\ a \o b \in Seq(S) /\ Len(a \o b) = Len(a) + Len(b)
      /\ \A j \in 1 .. Len(a) + Len(b) : (a \o b)[j] = IF j <= Len(a) THEN a[j] ELSE b[j - Len(a)]
      BY <1>2, <1>3, ConcatFacts, Zenon
<1>6. ASSUME NEW j \in i .. Len(s) - 1 PROVE (a \o b)[j] = s[j + 1]
  <2>1. (a \o b)[j] = b[j - (i - 1)] /\ j - (i - 1) \in 1 .. Len(s) - i /\ i + (j - (i - 1)) = j + 1
        BY <1>1, <1>2, <1>3, <1>5
  <2> QED BY <1>3, <2>1, Zenon
<1>7. Len(a \o b) = Len(s) - 1 /\ \A j \in 1 .. i - 1 : (a \o b)[j] = s[j]
      BY <1>1, <1>2, <1>3, <1>5
<1> QED BY <1>4, <1>5, <1>6, <1>7, Zenon

\* Moving commands to other places loses and doubles none.
LEMMA MoveKeeps ==
  ASSUME NEW f, NEW P, NEW g, NEW R, NEW n, Enumerates(f, P, n),
         NEW move, \A p \in P : move[p] \in R /\ g[move[p]] = f[p],
         \A r \in R : \E p \in P : r = move[p]
  PROVE  Enumerates(g, R, n)
<1>1. ASSUME NEW r \in R PROVE g[r] \in 0 .. n - 1
  <2>1. PICK p \in P : r = move[p]
        BY Zenon
  <2>2. g[r] = f[p] /\ f[p] \in 0 .. n - 1
        BY <2>1, Zenon DEF Enumerates
  <2> QED BY <2>2, Zenon
<1>2. ASSUME NEW i \in 0 .. n - 1 PROVE \E r \in R : g[r] = i
  <2>1. PICK p \in P : f[p] = i
        BY Zenon DEF Enumerates
  <2> QED BY <2>1, Zenon
<1>3. ASSUME NEW r \in R, NEW s \in R, g[r] = g[s] PROVE r = s
  <2>1. PICK p \in P : r = move[p]
        BY Zenon
  <2>2. PICK o \in P : s = move[o]
        BY Zenon
  <2>3. f[p] = f[o]
        BY <1>3, <2>1, <2>2, Zenon
  <2>4. p = o
        BY <2>3, Zenon DEF Enumerates
  <2> QED BY <2>1, <2>2, <2>4, Zenon
<1> QED BY <1>1, <1>2, <1>3, Zenon DEF Enumerates

\* One more place, with the next number.
LEMMA OneMore ==
  ASSUME NEW f, NEW P, NEW g, NEW R, NEW n \in Nat, Enumerates(f, P, n),
         NEW d, R = P \union {d}, g[d] = n, \A p \in P : g[p] = f[p]
  PROVE  Enumerates(g, R, n + 1)
<1>1. ASSUME NEW r \in R PROVE g[r] \in 0 .. (n + 1) - 1
      BY DEF Enumerates
<1>2. ASSUME NEW i \in 0 .. (n + 1) - 1 PROVE \E r \in R : g[r] = i
  <2>1. CASE i = n
        BY <2>1, Zenon
  <2>2. CASE i \in 0 .. n - 1
        BY <2>2, Zenon DEF Enumerates
  <2> QED BY <2>1, <2>2
<1>3. ASSUME NEW r \in R, NEW s \in R, g[r] = g[s] PROVE r = s
  <2>1. \A p \in P : g[p] = f[p] /\ f[p] # n
        BY DEF Enumerates
  <2> QED BY <1>3, <2>1, Zenon DEF Enumerates
<1> QED BY <1>1, <1>2, <1>3, Zenon DEF Enumerates

LEMMA OneMember ==
  ASSUME NEW f, NEW P, NEW n \in Nat, Enumerates(f, P, n), NEW d, d \notin P
  PROVE  \E g : Enumerates(g, P \union {d}, n + 1)
<1>1. PICK g : g = [p \in P \union {d} |-> IF p = d THEN n ELSE f[p]]
      BY Zenon
<1>2. g[d] = n /\ \A p \in P : g[p] = f[p]
      BY <1>1, Zenon
<1> QED BY <1>2, OneMore, Zenon

\* One member less: the last number fills the gap.
LEMMA OneLess ==
  ASSUME NEW f, NEW P, NEW n \in Nat, Enumerates(f, P, n), NEW d \in P
  PROVE  n # 0 /\ \E g : Enumerates(g, P \ {d}, n - 1)
<1>1. PICK g : g = [p \in P \ {d} |-> IF f[p] = n - 1 THEN f[d] ELSE f[p]]
      BY Zenon
<1>2. \A p \in P : f[p] \in 0 .. n - 1
      BY Zenon DEF Enumerates
<1>3. \A p, r \in P : f[p] = f[r] => p = r
      BY Zenon DEF Enumerates
<1>4. n # 0
      BY <1>2
<1>5. \A p \in P \ {d} : f[p] # f[d]
      BY <1>3, Zenon
<1>6. ASSUME NEW p \in P \ {d} PROVE g[p] \in 0 .. (n - 1) - 1
      BY <1>1, <1>2, <1>5
<1>7. ASSUME NEW i \in 0 .. (n - 1) - 1 PROVE \E p \in P \ {d} : g[p] = i
  <2>1. PICK p \in P : f[p] = i
        BY DEF Enumerates
  <2>2. CASE p # d
        BY <1>1, <2>1, <2>2
  <2>3. CASE p = d
    <3>1. PICK r \in P : f[r] = n - 1
          BY <1>4 DEF Enumerates
    <3> QED BY <1>1, <2>1, <2>3, <3>1
  <2> QED BY <2>2, <2>3, Zenon
<1>8. ASSUME NEW p \in P \ {d}, NEW r \in P \ {d}, g[p] = g[r] PROVE p = r
      BY <1>1, <1>3, <1>5, <1>8, Zenon
<1> QED BY <1>4, <1>6, <1>7, <1>8, Zenon DEF Enumerates

\* As many members under other names.
LEMMA Renamed ==
  ASSUME NEW f, NEW P, NEW n, Enumerates(f, P, n), NEW R, NEW back,
         \A r \in R : back[r] \in P, \A r, s \in R : back[r] = back[s] => r = s,
         \A p \in P : \E r \in R : back[r] = p
  PROVE  \E g : Enumerates(g, R, n)
<1>1. PICK g : g = [r \in R |-> f[back[r]]]
      BY Zenon
<1>2. \A r \in R : g[r] \in 0 .. n - 1
      BY <1>1, Zenon DEF Enumerates
<1>3. ASSUME NEW i \in 0 .. n - 1 PROVE \E r \in R : g[r] = i
  <2>1. PICK p \in P : f[p] = i
        BY Zenon DEF Enumerates
  <2>2. PICK r \in R : back[r] = p
        BY Zenon
  <2> QED BY <1>1, <2>1, <2>2, Zenon
<1>4. ASSUME NEW r \in R, NEW s \in R, g[r] = g[s] PROVE r = s
      BY <1>1, <1>4, Zenon DEF Enumerates
<1> QED BY <1>2, <1>3, <1>4, Zenon DEF Enumerates

\* The first request of q.
LEMMA HeadOfQueue ==
  ASSUME TransportTypes, q # <<>>
  PROVE  /\ Len(q) \in Nat \ {0} /\ q[1] = Head(q) /\ Head(q) \in Req
         /\ Tail(q) \in Seq(Req) /\ Len(Tail(q)) = Len(q) - 1
         /\ \A j \in 1 .. Len(q) - 1 : Tail(q)[j] = q[j + 1]
<1>1. q \in Seq(Req)
      BY Zenon DEF TransportTypes
<1>2. Head(q) = q[1]
      BY <1>1
<1> QED BY <1>1, <1>2, TailFacts, Zenon

\* What submitRequestsToMPI does with the request r: it is finished, parked or started.
Finishes(r) ==
  /\ done' = done \union {r.elem} /\ UNCHANGED <<requests, outstanding, waiting_quiet>>
  /\ Quieting(r.elem.cmd) => outstanding[r.queue] = 0
Parks(r) ==
  /\ outstanding[r.queue] # 0 /\ Quieting(r.elem.cmd)
  /\ waiting_quiet' = [waiting_quiet EXCEPT ![r.queue] = Append(@, r.elem)]
  /\ UNCHANGED <<requests, outstanding, done>>
Starts(r) ==
  /\ ~ Quieting(r.elem.cmd)
  /\ requests' = Append(requests, r)
  /\ outstanding' = [outstanding EXCEPT ![r.queue] = @ + 1]
  /\ UNCHANGED <<waiting_quiet, done>>

LEMMA DispatchCases ==
  ASSUME NEW r, Dispatch(r) PROVE Finishes(r) \/ Parks(r) \/ Starts(r)
<1>1. CASE Atomic(r.elem.cmd)
      BY <1>1, Zenon DEF Dispatch, DoAtomic, Finishes, Atomic, Quieting
<1>2. CASE ~ Atomic(r.elem.cmd) /\ Quieting(r.elem.cmd)
      BY <1>2, Zenon DEF Dispatch, quiet, Finishes, Parks
<1>3. CASE ~ Atomic(r.elem.cmd) /\ ~ Quieting(r.elem.cmd)
      BY <1>3, Zenon DEF Dispatch, StartMPI, Starts
<1> QED BY <1>1, <1>2, <1>3, Zenon

\* A step of submitRequestsToMPI that takes a request.
Takes ==
  /\ at = "submit" /\ at' = "test" /\ UNCHANGED <<completed, unhandled, issued>>
  /\ q # <<>> /\ q' = Tail(q)
  /\ Finishes(Head(q)) \/ Parks(Head(q)) \/ Starts(Head(q))

LEMMA TakesTypes ==
  ASSUME TransportTypes, ProgressInv, Takes PROVE TransportTypes' /\ ProgressInv'
<1>1. /\ Head(q) \in Req /\ q' \in Seq(Req) /\ issued' = issued
      /\ completed = {} /\ unhandled = {} /\ completed' = {} /\ unhandled' = {}
      BY HeadOfQueue, Zenon DEF Takes, ProgressInv
<1>2. ProgressInv'
      BY <1>1, Zenon DEF Takes, ProgressInv
<1>3. Head(q).queue \in Queue /\ Head(q).elem \in Elem /\ Head(q).queue = Head(q).elem.hnd
      BY <1>1, Zenon DEF Req
<1>4. CASE Finishes(Head(q))
      BY <1>1, <1>2, <1>3, <1>4, Zenon DEF TransportTypes, Finishes
<1>5. CASE Parks(Head(q))
  <2>1. waiting_quiet' \in [Queue -> Seq(Elem)]
        BY <1>3, <1>5 DEF TransportTypes, Parks
  <2>2. ASSUME NEW k \in Queue, NEW j \in 1 .. Len(waiting_quiet'[k])
        PROVE  waiting_quiet'[k][j].hnd = k /\ Quieting(waiting_quiet'[k][j].cmd)
    <3>1. /\ waiting_quiet[k] \in Seq(Elem)
          /\ \A i \in 1 .. Len(waiting_quiet[k]) : waiting_quiet[k][i].hnd = k /\ Quieting(waiting_quiet[k][i].cmd)
          BY Zenon DEF TransportTypes
    <3>2. CASE k # Head(q).queue
          BY <1>3, <1>5, <2>2, <3>1, <3>2, Zenon DEF TransportTypes, Parks
    <3>3. CASE k = Head(q).queue
      <4>1. waiting_quiet'[k] = Append(waiting_quiet[k], Head(q).elem)
            BY <1>3, <1>5, <3>3, Zenon DEF TransportTypes, Parks
      <4>2. PICK e \in Elem, w \in Seq(Elem), m \in Nat : e = Head(q).elem /\ w = waiting_quiet[k] /\ m = Len(w)
            BY <1>3, <3>1, SeqFacts, Zenon
      <4>3. /\ m \in Nat /\ Len(waiting_quiet'[k]) = m + 1 /\ waiting_quiet'[k][m + 1] = e
            /\ \A i \in 1 .. m : waiting_quiet'[k][i] = w[i]
        <5>1. /\ m \in Nat /\ Len(Append(w, e)) = m + 1 /\ Append(w, e)[m + 1] = e
              /\ \A i \in 1 .. m : Append(w, e)[i] = w[i]
              BY <4>2, AppendFacts, SeqFacts
        <5> QED BY <4>1, <4>2, <5>1, Zenon
      <4>4. j \in 1 .. m \/ j = m + 1
            BY <2>2, <4>3
      <4>5. e.hnd = k /\ Quieting(e.cmd)
            BY <1>3, <1>5, <3>3, <4>2, Zenon DEF Parks
      <4> QED BY <3>1, <4>2, <4>3, <4>4, <4>5, Zenon
    <3> QED BY <3>2, <3>3, Zenon
  <2> QED BY <1>1, <1>2, <1>5, <2>1, <2>2, Zenon DEF TransportTypes, Parks
<1>6. CASE Starts(Head(q))
  <2>1. Head(q) \in MpiReq
        BY <1>1, <1>6, Zenon DEF Starts, MpiReq
  <2>2. requests' \in Seq(MpiReq) /\ outstanding' \in [Queue -> Nat]
        BY <1>3, <1>6, <2>1 DEF Starts, TransportTypes
  <2> QED BY <1>1, <1>2, <1>6, <2>2, Zenon DEF TransportTypes, Starts
<1> QED BY <1>2, <1>4, <1>5, <1>6, Zenon DEF Takes

LEMMA TakesCount ==
  ASSUME TransportTypes, ProgressInv, CountInv, Takes PROVE CountInv'
<1> DEFINE r == Head(q)
<1>1. r.queue \in Queue /\ r.elem \in Elem /\ r \in Req /\ r.queue = r.elem.hnd
      BY HeadOfQueue, Zenon DEF Takes, Req
<1>2. completed = {} /\ completed' = {}
      BY Zenon DEF Takes, ProgressInv
<1> HIDE DEF r
<1>3. SUFFICES ASSUME NEW k \in Queue
               PROVE  /\ \E f : Enumerates(f, InFlight(k)', outstanding'[k])
                      /\ waiting_quiet'[k] # <<>> => outstanding'[k] # 0
      BY Zenon DEF CountInv
<1>4. outstanding[k] \in Nat /\ (waiting_quiet[k] # <<>> => outstanding[k] # 0)
      BY Zenon DEF CountInv, TransportTypes
<1>f. PICK f : Enumerates(f, InFlight(k), outstanding[k])
      BY Zenon DEF CountInv
<1>5. CASE Finishes(r)
  <2>1. InFlight(k)' = InFlight(k)
        BY <1>2, <1>5, Zenon DEF InFlight, Handled, Finishes
  <2> QED BY <1>4, <1>5, <1>f, <2>1, Zenon DEF Finishes
<1>6. CASE Parks(r)
  <2>1. InFlight(k)' = InFlight(k) /\ outstanding' = outstanding
        BY <1>2, <1>6, Zenon DEF InFlight, Handled, Parks
  <2>2. k # r.queue => waiting_quiet'[k] = waiting_quiet[k]
        BY <1>6, Zenon DEF Parks, TransportTypes
  <2> QED BY <1>4, <1>6, <1>f, <2>1, <2>2, Zenon DEF Parks
<1>7. CASE Starts(r)
  <2>1. requests \in Seq(MpiReq) /\ r \in MpiReq /\ requests' = Append(requests, r)
        BY <1>1, <1>7, Zenon DEF Starts, TransportTypes, MpiReq
  <2>2. /\ Len(requests) \in Nat /\ Len(requests') = Len(requests) + 1
        /\ \A i \in 1 .. Len(requests) : requests'[i] = requests[i]
        /\ requests'[Len(requests) + 1] = r
        BY <2>1, AppendFacts, SeqFacts
  <2>3. InFlight(k)' = IF k = r.queue THEN InFlight(k) \cup {Len(requests) + 1} ELSE InFlight(k)
        BY <1>2, <2>2 DEF InFlight, Handled
  <2>4. Len(requests) + 1 \notin InFlight(k)
        BY <2>2 DEF InFlight
  <2>5. CASE k = r.queue
    <3>1. PICK d : d = Len(requests) + 1
          BY Zenon
    <3>2. InFlight(k)' = InFlight(k) \union {d} /\ d \notin InFlight(k)
          BY <2>3, <2>4, <2>5, <3>1, Zenon
    <3>3. \E g : Enumerates(g, InFlight(k)', outstanding[k] + 1)
      <4>1. \E g : Enumerates(g, InFlight(k) \union {d}, outstanding[k] + 1)
            BY <1>4, <1>f, <3>2, OneMember, Zenon
      <4> QED BY <3>2, <4>1, Zenon
    <3>4. outstanding'[k] = outstanding[k] + 1
          BY <1>7, <2>5, Zenon DEF Starts, TransportTypes
    <3>5. outstanding'[k] # 0
          BY <1>4, <3>4
    <3> QED BY <3>3, <3>4, <3>5, Zenon
  <2>6. CASE k # r.queue
    <3>1. outstanding'[k] = outstanding[k] /\ waiting_quiet' = waiting_quiet
          BY <1>7, <2>6, Zenon DEF Starts, TransportTypes
    <3> QED BY <1>4, <1>f, <2>3, <2>6, <3>1, Zenon
  <2> QED BY <2>5, <2>6, Zenon
<1> QED BY <1>5, <1>6, <1>7, Zenon DEF Takes, r

\* The places outside q.
Rest(k) == {p \in Held(k) : p[1] # "q"}

\* The request taken from q gets a place, the other places stay as they are.
LEMMA TakesPlaces ==
  ASSUME TransportTypes, ProgressInv, Takes, NEW k \in Queue
  PROVE  \E d : /\ d[1] # "q"
                /\ Rest(k)' = IF Head(q).queue = k THEN Rest(k) \union {d} ELSE Rest(k)
                /\ \A p \in Rest(k) : NumberAt(k, p)' = NumberAt(k, p)
                /\ Head(q).queue = k => NumberAt(k, d)' = Head(q).elem.idx
<1>0. PICK r \in Req : r = Head(q)
      BY HeadOfQueue, Zenon DEF Takes
<1>1. r.queue \in Queue /\ r.elem \in Elem /\ r.queue = r.elem.hnd
      BY Zenon DEF Req
<1>2. completed = {} /\ completed' = {}
      BY Zenon DEF Takes, ProgressInv
<1>3. Rest(k) = {<<"mpi", j>> : j \in {j \in 1 .. Len(requests) : requests[j].elem.hnd = k}}
                \union {<<"quiet", j>> : j \in 1 .. Len(waiting_quiet[k])}
                \union {<<"done", e>> : e \in {e \in done : e.hnd = k}}
      BY <1>2 DEF Rest, Held, Handled
<1>4. Rest(k)' = {<<"mpi", j>> : j \in {j \in 1 .. Len(requests') : requests'[j].elem.hnd = k}}
                \union {<<"quiet", j>> : j \in 1 .. Len(waiting_quiet'[k])}
                \union {<<"done", e>> : e \in {e \in done' : e.hnd = k}}
      BY <1>2 DEF Rest, Held, Handled
<1>5. CASE Finishes(r)
  <2>1. PICK d : d = <<"done", r.elem>>
        BY Zenon
  <2>2. Rest(k)' = IF r.queue = k THEN Rest(k) \union {d} ELSE Rest(k)
        BY <1>1, <1>3, <1>4, <1>5, <2>1 DEF Finishes
  <2>3. \A p \in Rest(k) : NumberAt(k, p)' = NumberAt(k, p)
        BY <1>3, <1>5 DEF Finishes, NumberAt
  <2>4. NumberAt(k, d)' = r.elem.idx /\ d[1] # "q"
        BY <2>1, Zenon DEF NumberAt
  <2> QED BY <1>0, <2>2, <2>3, <2>4, Zenon
<1>6. CASE Parks(r)
  <2>1. PICK d : d = <<"quiet", Len(waiting_quiet[k]) + 1>>
        BY Zenon
  <2>2. /\ waiting_quiet[k] \in Seq(Elem) /\ Len(waiting_quiet[k]) \in Nat
        /\ waiting_quiet'[k] = IF k = r.queue THEN Append(waiting_quiet[k], r.elem) ELSE waiting_quiet[k]
        BY <1>1, <1>6, SeqFacts, Zenon DEF TransportTypes, Parks
  <2>3. k = r.queue => /\ Len(waiting_quiet'[k]) = Len(waiting_quiet[k]) + 1
                       /\ \A j \in 1 .. Len(waiting_quiet[k]) : waiting_quiet'[k][j] = waiting_quiet[k][j]
                       /\ waiting_quiet'[k][Len(waiting_quiet[k]) + 1] = r.elem
        BY <1>1, <2>2, AppendFacts
  <2>4. requests' = requests /\ done' = done
        BY <1>6, Zenon DEF Parks
  <2>5. Rest(k)' = IF r.queue = k THEN Rest(k) \union {d} ELSE Rest(k)
        BY <1>3, <1>4, <2>1, <2>2, <2>3, <2>4
  <2>6. \A p \in Rest(k) : NumberAt(k, p)' = NumberAt(k, p)
        BY <1>3, <2>2, <2>3, <2>4 DEF NumberAt
  <2>7. d[1] # "q" /\ (r.queue = k => NumberAt(k, d)' = r.elem.idx)
        BY <2>1, <2>3, Zenon DEF NumberAt
  <2> QED BY <1>0, <2>5, <2>6, <2>7, Zenon
<1>7. CASE Starts(r)
  <2>1. PICK d : d = <<"mpi", Len(requests) + 1>>
        BY Zenon
  <2>2. requests \in Seq(MpiReq) /\ r \in MpiReq /\ requests' = Append(requests, r)
        BY <1>1, <1>7, Zenon DEF Starts, TransportTypes, MpiReq
  <2>3. /\ Len(requests) \in Nat /\ Len(requests') = Len(requests) + 1
        /\ \A i \in 1 .. Len(requests) : requests'[i] = requests[i]
        /\ requests'[Len(requests) + 1] = r
        BY <2>2, AppendFacts, SeqFacts
  <2>4. waiting_quiet' = waiting_quiet /\ done' = done
        BY <1>7, Zenon DEF Starts
  <2>5. Rest(k)' = IF r.queue = k THEN Rest(k) \union {d} ELSE Rest(k)
        BY <1>1, <1>3, <1>4, <2>1, <2>3, <2>4
  <2>6. \A p \in Rest(k) : NumberAt(k, p)' = NumberAt(k, p)
        BY <1>3, <2>3, <2>4 DEF NumberAt
  <2>7. d[1] # "q" /\ (r.queue = k => NumberAt(k, d)' = r.elem.idx)
        BY <2>1, <2>3, Zenon DEF NumberAt
  <2> QED BY <1>0, <2>5, <2>6, <2>7, Zenon
<1> QED BY <1>0, <1>5, <1>6, <1>7, Zenon DEF Takes

LEMMA HeldSplits ==
  ASSUME NEW k
  PROVE  /\ Held(k) = {<<"q", j>> : j \in {j \in 1 .. Len(q) : q[j].elem.hnd = k}} \union Rest(k)
         /\ \A j : NumberAt(k, <<"q", j>>) = q[j].elem.idx
         /\ Held(k)' = {<<"q", j>> : j \in {j \in 1 .. Len(q') : q'[j].elem.hnd = k}} \union Rest(k)'
         /\ \A j : NumberAt(k, <<"q", j>>)' = q'[j].elem.idx
<1>1. Held(k) = {<<"q", j>> : j \in {j \in 1 .. Len(q) : q[j].elem.hnd = k}} \union Rest(k)
      BY DEF Held, Rest
<1>2. Held(k)' = {<<"q", j>> : j \in {j \in 1 .. Len(q') : q'[j].elem.hnd = k}} \union Rest(k)'
      BY DEF Held, Rest
<1>3. \A j : NumberAt(k, <<"q", j>>) = q[j].elem.idx /\ NumberAt(k, <<"q", j>>)' = q'[j].elem.idx
      BY Zenon DEF NumberAt
<1> QED BY <1>1, <1>2, <1>3, Zenon

LEMMA TakesNumbered ==
  ASSUME TransportTypes, ProgressInv, Takes, NEW k \in Queue, Numbered(k), Ordered(k)
  PROVE  Numbered(k)' /\ Ordered(k)'
<1>1. PICK d : /\ d[1] # "q"
               /\ Rest(k)' = IF Head(q).queue = k THEN Rest(k) \union {d} ELSE Rest(k)
               /\ \A p \in Rest(k) : NumberAt(k, p)' = NumberAt(k, p)
               /\ Head(q).queue = k => NumberAt(k, d)' = Head(q).elem.idx
      BY TakesPlaces, Zenon
<1>2. /\ Len(q) \in Nat \ {0} /\ q[1] = Head(q) /\ Head(q).queue = Head(q).elem.hnd
      /\ Len(q') = Len(q) - 1 /\ \A j \in 1 .. Len(q) - 1 : q'[j] = q[j + 1]
      BY HeadOfQueue, Zenon DEF Takes, Req
<1>3. issued'[k] = issued[k]
      BY Zenon DEF Takes
<1>4. \A p \in Rest(k) : p[1] # "q" /\ p \in Held(k)
      BY Zenon DEF Rest
<1>m. PICK move : move = [p \in Held(k) |-> IF p[1] # "q" THEN p
                                          ELSE IF p[2] = 1 THEN d ELSE <<"q", p[2] - 1>>]
      BY Zenon
<1>5. ASSUME NEW p \in Held(k)
      PROVE  /\ move[p] \in Held(k)' /\ NumberAt(k, move[p])' = NumberAt(k, p)
             /\ move[p][1] = "q" => move[p][2] = p[2] - 1 /\ p[1] = "q"
  <2>1. CASE p \in Rest(k)
        BY <1>m, <1>1, <1>4, <2>1, HeldSplits, Zenon
  <2>2. CASE p \notin Rest(k)
    <3>1. PICK j \in 1 .. Len(q) : p = <<"q", j>> /\ q[j].elem.hnd = k
          BY <2>2, HeldSplits, Zenon
    <3>2. NumberAt(k, p) = q[j].elem.idx
          BY <3>1, HeldSplits, Zenon
    <3>3. CASE j = 1
          BY <1>m, <1>1, <1>2, <3>1, <3>2, <3>3, HeldSplits, Zenon
    <3>4. CASE j # 1
      <4>1. j - 1 \in 1 .. Len(q') /\ q'[j - 1] = q[j] /\ move[p] = <<"q", j - 1>>
            BY <1>m, <1>2, <3>1, <3>4
      <4>2. NumberAt(k, <<"q", j - 1>>)' = q'[j - 1].elem.idx
            BY HeldSplits, Zenon
      <4>3. <<"q", j - 1>> \in Held(k)'
            BY <3>1, <4>1, HeldSplits
      <4> QED BY <3>1, <3>2, <4>1, <4>2, <4>3
    <3> QED BY <3>3, <3>4, Zenon
  <2> QED BY <2>1, <2>2, Zenon
<1>6. ASSUME NEW r \in Held(k)' PROVE \E p \in Held(k) : r = move[p]
  <2>1. CASE r \in Rest(k)
        BY <1>m, <1>4, <2>1, Zenon
  <2>2. CASE r \in Rest(k)' /\ r \notin Rest(k)
    <3>1. r = d /\ Head(q).queue = k
          BY <1>1, <2>2, Zenon
    <3>2. <<"q", 1>> \in Held(k)
          BY <1>2, <3>1, HeldSplits
    <3> QED BY <1>m, <3>1, <3>2, Zenon
  <2>3. CASE r \notin Rest(k)'
    <3>1. PICK j \in 1 .. Len(q') : r = <<"q", j>> /\ q'[j].elem.hnd = k
          BY <2>3, HeldSplits, Zenon
    <3>2. <<"q", j + 1>> \in Held(k) /\ j + 1 # 1 /\ (j + 1) - 1 = j
          BY <1>2, <3>1, HeldSplits
    <3> QED BY <1>m, <3>1, <3>2, Zenon
  <2> QED BY <2>1, <2>2, <2>3, Zenon
<1>7. Numbered(k)'
  <2>1. \A p \in Held(k) : move[p] \in Held(k)' /\ Number(k)'[move[p]] = Number(k)[p]
        BY <1>5, Zenon DEF Number
  <2> QED BY <1>3, <1>6, <2>1, MoveKeeps DEF Numbered
<1>8. Ordered(k)'
  <2> SUFFICES ASSUME NEW j \in 1 .. Len(q'), q'[j].elem.hnd = k, NEW r \in Held(k)',
                      r[1] # "q" \/ r[2] < j
               PROVE  NumberAt(k, r)' < q'[j].elem.idx
      BY Zenon DEF Ordered
  <2>1. PICK p \in Held(k) : r = move[p]
        BY <1>6, Zenon
  <2>2. j + 1 \in 1 .. Len(q) /\ q'[j] = q[j + 1]
        BY <1>2
  <2>3. NumberAt(k, p) = NumberAt(k, r)' /\ (r[1] = "q" => r[2] = p[2] - 1 /\ p[1] = "q")
        BY <1>5, <2>1, Zenon
  <2>4. p[1] # "q" \/ p[2] < j + 1
    <3>1. CASE p \in Rest(k)
          BY <1>4, <3>1, Zenon
    <3>2. CASE p \notin Rest(k)
      <4>1. PICK i \in 1 .. Len(q) : p = <<"q", i>>
            BY <3>2, HeldSplits
      <4>2. CASE i = 1
            BY <1>2, <4>1, <4>2
      <4>3. CASE i # 1
        <5>1. r = <<"q", i - 1>>
              BY <1>m, <2>1, <4>1, <4>3, Zenon
        <5> QED BY <1>2, <4>1, <5>1
      <4> QED BY <4>2, <4>3, Zenon
    <3> QED BY <3>1, <3>2, Zenon
  <2> QED BY <2>2, <2>3, <2>4, Zenon DEF Ordered
<1> QED BY <1>7, <1>8, Zenon

-----------------------------------------------------------------------------
(***************************************************************************)
(* The loop over the completed indices.                                    *)
(***************************************************************************)
LEMMA HandlesTypes ==
  ASSUME TransportTypes, ProgressInv, CountInv, issued' = issued,
         NEW i \in unhandled, HandleCompletion(i)
  PROVE  /\ TransportTypes' /\ ProgressInv' /\ CountInv'
<1>1. PICK r \in MpiReq : r = requests[i]
      BY SeqFacts, Zenon DEF TransportTypes, ProgressInv
<1>2. PICK n \in Queue : n = r.queue /\ n = r.elem.hnd /\ r.elem \in Elem
      BY Zenon DEF MpiReq, Req
<1>3. /\ outstanding' = [outstanding EXCEPT ![n] = Left(n)]
      /\ waiting_quiet' = [waiting_quiet EXCEPT ![n] = Parked(n)]
      /\ done' = done \union {r.elem} \union Woken(n)
      /\ unhandled' = unhandled \ {i} /\ completed' = completed
      /\ requests' = requests /\ q' = q /\ issued' = issued
      /\ at = "handle" /\ at' = IF unhandled' = {} THEN "erase" ELSE "handle"
      BY <1>1, <1>2, Zenon DEF HandleCompletion
<1>4. ProgressInv'
      BY <1>3, Zenon DEF ProgressInv
<1>5. ASSUME NEW k \in Queue
      PROVE  InFlight(k)' = IF k = n THEN InFlight(k) \ {i} ELSE InFlight(k)
      BY <1>1, <1>2, <1>3, Zenon DEF InFlight, Handled, ProgressInv
<1>6. i \in InFlight(n) /\ outstanding[n] \in Nat
      BY <1>1, <1>2, Zenon DEF InFlight, Handled, ProgressInv, TransportTypes
<1>7. outstanding[n] # 0 /\ \E f : Enumerates(f, InFlight(n)', outstanding[n] - 1)
  <2>1. PICK g : Enumerates(g, InFlight(n), outstanding[n])
        BY Zenon DEF CountInv
  <2>2. InFlight(n)' = InFlight(n) \ {i}
        BY <1>5, Zenon
  <2>3. outstanding[n] # 0 /\ \E f : Enumerates(f, InFlight(n) \ {i}, outstanding[n] - 1)
        BY <1>6, <2>1, OneLess, Zenon
  <2> QED BY <2>2, <2>3, Zenon
<1>8. /\ outstanding' \in [Queue -> Nat]
      /\ \A k \in Queue : \E f : Enumerates(f, InFlight(k)', outstanding'[k])
  <2>1. Left(n) \in Nat /\ \E f : Enumerates(f, InFlight(n)', Left(n))
        BY <1>6, <1>7 DEF Left
  <2>2. outstanding' \in [Queue -> Nat] /\ outstanding'[n] = Left(n)
        BY <1>3, <2>1, Zenon DEF TransportTypes
  <2>3. ASSUME NEW k \in Queue, k # n PROVE \E f : Enumerates(f, InFlight(k)', outstanding'[k])
    <3>1. InFlight(k)' = InFlight(k) /\ outstanding'[k] = outstanding[k]
          BY <1>3, <1>5, <2>3, Zenon DEF TransportTypes
    <3> QED BY <3>1, Zenon DEF CountInv
  <2> QED BY <2>1, <2>2, <2>3, Zenon
<1>9. ASSUME NEW k \in Queue
      PROVE  /\ waiting_quiet'[k] \in Seq(Elem)
             /\ waiting_quiet'[k] = <<>> \/ (waiting_quiet'[k] = waiting_quiet[k] /\ outstanding'[k] # 0)
  <2>1. CASE k # n
        BY <1>3, <2>1, Zenon DEF TransportTypes, CountInv
  <2>2. CASE k = n /\ Left(n) = 0
    <3>1. waiting_quiet'[k] = <<>>
          BY <1>3, <2>2, Zenon DEF TransportTypes, Parked
    <3> QED BY <3>1
  <2>3. CASE k = n /\ Left(n) # 0
    <3>1. waiting_quiet'[k] = waiting_quiet[k] /\ outstanding'[k] = Left(n)
          BY <1>3, <2>3, Zenon DEF TransportTypes, Parked
    <3> QED BY <2>3, <3>1, Zenon DEF TransportTypes
  <2> QED BY <2>1, <2>2, <2>3, Zenon
<1>10. Woken(n) \subseteq Elem
  <2>1. waiting_quiet[n] \in Seq(Elem)
        BY Zenon DEF TransportTypes
  <2>2. \A j \in DOMAIN waiting_quiet[n] : waiting_quiet[n][j] \in Elem
        BY <2>1, SeqFacts, SeqFacts, Zenon
  <2> QED BY <2>2, Zenon DEF Woken, Range
<1>11. CountInv'
      BY <1>8, <1>9, Zenon DEF CountInv
<1>12. waiting_quiet' \in [Queue -> Seq(Elem)]
  <2>1. DOMAIN waiting_quiet' = Queue /\ waiting_quiet' = [k \in Queue |-> waiting_quiet'[k]]
        BY <1>3, Zenon DEF TransportTypes
  <2> QED BY <1>9, <2>1, Zenon
<1>13. ASSUME NEW k \in Queue, NEW j \in 1 .. Len(waiting_quiet'[k])
       PROVE  waiting_quiet'[k][j].hnd = k /\ Quieting(waiting_quiet'[k][j].cmd)
  <2>1. waiting_quiet'[k] = waiting_quiet[k]
        BY <1>9, <1>13, EmptyFacts
  <2> QED BY <1>13, <2>1, Zenon DEF TransportTypes
<1>14. done' \subseteq Elem
      BY <1>2, <1>3, <1>10, Zenon DEF TransportTypes
<1>15. TransportTypes'
      BY <1>3, <1>8, <1>12, <1>13, <1>14, Zenon DEF TransportTypes
<1> QED BY <1>4, <1>11, <1>15, Zenon

\* The places outside q in full, before and after a step.
LEMMA RestIs ==
  ASSUME NEW k
  PROVE  /\ Rest(k) = {<<"mpi", j>> : j \in {j \in 1 .. Len(requests) :
                                               requests[j].elem.hnd = k /\ ~ Handled(j)}}
                      \union {<<"quiet", j>> : j \in 1 .. Len(waiting_quiet[k])}
                      \union {<<"done", e>> : e \in {e \in done : e.hnd = k}}
         /\ Rest(k)' = {<<"mpi", j>> : j \in {j \in 1 .. Len(requests') :
                                               requests'[j].elem.hnd = k /\ ~ Handled(j)'}}
                      \union {<<"quiet", j>> : j \in 1 .. Len(waiting_quiet'[k])}
                      \union {<<"done", e>> : e \in {e \in done' : e.hnd = k}}
<1>1. Rest(k) = {<<"mpi", j>> : j \in {j \in 1 .. Len(requests) :
                                          requests[j].elem.hnd = k /\ ~ Handled(j)}}
                \union {<<"quiet", j>> : j \in 1 .. Len(waiting_quiet[k])}
                \union {<<"done", e>> : e \in {e \in done : e.hnd = k}}
      BY DEF Rest, Held
<1>2. Rest(k)' = {<<"mpi", j>> : j \in {j \in 1 .. Len(requests') :
                                          requests'[j].elem.hnd = k /\ ~ Handled(j)'}}
                \union {<<"quiet", j>> : j \in 1 .. Len(waiting_quiet'[k])}
                \union {<<"done", e>> : e \in {e \in done' : e.hnd = k}}
      BY DEF Rest, Held
<1> QED BY <1>1, <1>2, Zenon

\* The same, place by place.
LEMMA RestIff ==
  ASSUME NEW k, NEW p
  PROVE  p \in Rest(k) <=>
           \/ \E j \in 1 .. Len(requests) : p = <<"mpi", j>> /\ requests[j].elem.hnd = k /\ ~ Handled(j)
           \/ \E j \in 1 .. Len(waiting_quiet[k]) : p = <<"quiet", j>>
           \/ \E e \in done : p = <<"done", e>> /\ e.hnd = k
<1> DEFINE mpi == {j \in 1 .. Len(requests) : requests[j].elem.hnd = k /\ ~ Handled(j)}
           fin == {e \in done : e.hnd = k}
           A == {<<"mpi", j>> : j \in mpi}
           B == {<<"quiet", j>> : j \in 1 .. Len(waiting_quiet[k])}
           C == {<<"done", e>> : e \in fin}
<1>1. Rest(k) = A \union B \union C
      BY RestIs, Zenon
<1>2. p \in A <=> \E j \in 1 .. Len(requests) : p = <<"mpi", j>> /\ requests[j].elem.hnd = k /\ ~ Handled(j)
      BY Zenon
<1>3. p \in B <=> \E j \in 1 .. Len(waiting_quiet[k]) : p = <<"quiet", j>>
      BY Zenon
<1>4. p \in C <=> \E e \in done : p = <<"done", e>> /\ e.hnd = k
      BY Zenon
<1> HIDE DEF A, B, C
<1>5. p \in Rest(k) <=> p \in A \/ p \in B \/ p \in C
      BY <1>1, Zenon
<1> QED BY <1>2, <1>3, <1>4, <1>5, Zenon

LEMMA RestHas ==
  ASSUME NEW k
  PROVE  /\ \A j \in 1 .. Len(requests) :
              requests[j].elem.hnd = k /\ ~ Handled(j) => <<"mpi", j>> \in Rest(k)
         /\ \A j \in 1 .. Len(waiting_quiet[k]) : <<"quiet", j>> \in Rest(k)
         /\ \A e \in done : e.hnd = k => <<"done", e>> \in Rest(k)
BY RestIff, Zenon

LEMMA RestIffNext ==
  ASSUME NEW k, NEW p
  PROVE  p \in Rest(k)' <=>
           \/ \E j \in 1 .. Len(requests') : p = <<"mpi", j>> /\ requests'[j].elem.hnd = k /\ ~ Handled(j)'
           \/ \E j \in 1 .. Len(waiting_quiet'[k]) : p = <<"quiet", j>>
           \/ \E e \in done' : p = <<"done", e>> /\ e.hnd = k
<1> DEFINE mpi == {j \in 1 .. Len(requests') : requests'[j].elem.hnd = k /\ ~ Handled(j)'}
           fin == {e \in done' : e.hnd = k}
           A == {<<"mpi", j>> : j \in mpi}
           B == {<<"quiet", j>> : j \in 1 .. Len(waiting_quiet'[k])}
           C == {<<"done", e>> : e \in fin}
<1>1. Rest(k)' = A \union B \union C
      BY RestIs, Zenon
<1>2. p \in A <=> \E j \in 1 .. Len(requests') : p = <<"mpi", j>> /\ requests'[j].elem.hnd = k /\ ~ Handled(j)'
      BY Zenon
<1>3. p \in B <=> \E j \in 1 .. Len(waiting_quiet'[k]) : p = <<"quiet", j>>
      BY Zenon
<1>4. p \in C <=> \E e \in done' : p = <<"done", e>> /\ e.hnd = k
      BY Zenon
<1> HIDE DEF A, B, C
<1>5. p \in Rest(k)' <=> p \in A \/ p \in B \/ p \in C
      BY <1>1, Zenon
<1> QED BY <1>2, <1>3, <1>4, <1>5, Zenon

LEMMA RestHasNext ==
  ASSUME NEW k
  PROVE  /\ \A j \in 1 .. Len(requests') :
              requests'[j].elem.hnd = k /\ ~ Handled(j)' => <<"mpi", j>> \in Rest(k)'
         /\ \A j \in 1 .. Len(waiting_quiet'[k]) : <<"quiet", j>> \in Rest(k)'
         /\ \A e \in done' : e.hnd = k => <<"done", e>> \in Rest(k)'
BY RestIffNext, Zenon

\* A step that leaves q alone and moves the commands outside of it keeps the order.
LEMMA RestMoves ==
  ASSUME NEW k \in Queue, Numbered(k), Ordered(k), q' = q, issued' = issued,
         NEW move, \A p \in Rest(k) : move[p] \in Rest(k)' /\ NumberAt(k, move[p])' = NumberAt(k, p),
         \A r \in Rest(k)' : \E p \in Rest(k) : r = move[p]
  PROVE  Numbered(k)' /\ Ordered(k)'
<1>1. /\ \A p \in Rest(k) : p[1] # "q" /\ p \in Held(k)
      /\ \A p \in Rest(k)' : p[1] # "q" /\ p \in Held(k)'
      BY Zenon DEF Rest
<1>2. \A p \in Held(k) \ Rest(k) : /\ p \in Held(k)' /\ p \notin Rest(k)'
                                     /\ NumberAt(k, p)' = NumberAt(k, p)
  <2> SUFFICES ASSUME NEW p \in Held(k), p \notin Rest(k)
               PROVE  p \in Held(k)' /\ p \notin Rest(k)' /\ NumberAt(k, p)' = NumberAt(k, p)
      BY Zenon
  <2>1. PICK j \in 1 .. Len(q) : p = <<"q", j>> /\ q[j].elem.hnd = k
        BY HeldSplits
  <2> QED BY <1>1, <2>1, HeldSplits
<1>3. \A p \in Held(k)' \ Rest(k)' : p \in Held(k) /\ p \notin Rest(k)
  <2> SUFFICES ASSUME NEW p \in Held(k)', p \notin Rest(k)' PROVE p \in Held(k) /\ p \notin Rest(k)
      BY Zenon
  <2>1. PICK j \in 1 .. Len(q) : p = <<"q", j>> /\ q[j].elem.hnd = k
        BY HeldSplits
  <2> QED BY <1>1, <2>1, HeldSplits
<1>4. PICK all : all = [p \in Held(k) |-> IF p \in Rest(k) THEN move[p] ELSE p]
      BY Zenon
<1>5. \A p \in Held(k) : all[p] \in Held(k)' /\ NumberAt(k, all[p])' = NumberAt(k, p)
      BY <1>1, <1>2, <1>4, Zenon
<1>6. \A r \in Held(k)' : \E p \in Held(k) : r = all[p]
      BY <1>1, <1>3, <1>4, Zenon
<1>7. Numbered(k)'
  <2>1. \A p \in Held(k) : all[p] \in Held(k)' /\ Number(k)'[all[p]] = Number(k)[p]
        BY <1>5, Zenon DEF Number
  <2>2. issued'[k] = issued[k]
        BY Zenon
  <2> QED BY <1>6, <2>1, <2>2, MoveKeeps DEF Numbered
<1>8. Ordered(k)'
  <2> SUFFICES ASSUME NEW j \in 1 .. Len(q'), q'[j].elem.hnd = k, NEW r \in Held(k)',
                      r[1] # "q" \/ r[2] < j
               PROVE  NumberAt(k, r)' < q'[j].elem.idx
      BY Zenon DEF Ordered
  <2>1. CASE r \in Rest(k)'
    <3>1. PICK p \in Rest(k) : r = move[p]
          BY <2>1, Zenon
    <3> QED BY <1>1, <3>1 DEF Ordered
  <2>2. CASE r \notin Rest(k)'
        BY <1>2, <1>3, <2>2 DEF Ordered
  <2> QED BY <2>1, <2>2, Zenon
<1> QED BY <1>7, <1>8, Zenon

LEMMA HandlesNumbered ==
  ASSUME TransportTypes, ProgressInv, issued' = issued, NEW i \in unhandled, HandleCompletion(i),
         NEW k \in Queue, Numbered(k), Ordered(k)
  PROVE  Numbered(k)' /\ Ordered(k)'
<1>1. PICK r \in MpiReq : r = requests[i]
      BY SeqFacts, Zenon DEF TransportTypes, ProgressInv
<1>2. PICK n \in Queue : n = r.queue /\ n = r.elem.hnd /\ r.elem \in Elem
      BY Zenon DEF MpiReq, Req
<1>3. /\ waiting_quiet' = [waiting_quiet EXCEPT ![n] = Parked(n)]
      /\ done' = done \union {r.elem} \union Woken(n)
      /\ unhandled' = unhandled \ {i} /\ completed' = completed
      /\ requests' = requests /\ q' = q /\ issued' = issued
      BY <1>1, <1>2, Zenon DEF HandleCompletion
<1>4. i \in 1 .. Len(requests) /\ i \in completed /\ ~ Handled(i)
      /\ \A j : Handled(j)' <=> Handled(j) \/ j = i
      BY <1>3, Zenon DEF ProgressInv, Handled
<1>5. PICK wq : wq = waiting_quiet[k]
      BY Zenon
<1>6. wq \in Seq(Elem) /\ DOMAIN wq = 1 .. Len(wq) /\ \A j \in 1 .. Len(wq) : wq[j].hnd = k
      BY <1>5, SeqFacts, Zenon DEF TransportTypes
<1>7. PICK move :
        move = [p \in Rest(k) |->
                  IF k = n /\ p = <<"mpi", i>> THEN <<"done", r.elem>>
                  ELSE IF k = n /\ Left(n) = 0 /\ p[1] = "quiet" THEN <<"done", wq[p[2]]>>
                  ELSE p]
      BY Zenon
<1>8. CASE k # n
  <2>1. waiting_quiet'[k] = waiting_quiet[k]
        BY <1>3, <1>8, Zenon DEF TransportTypes
  <2>2. Woken(n) \subseteq {e \in Woken(n) : e.hnd = n}
        BY SeqFacts DEF Woken, Range, TransportTypes
  <2>3. Rest(k)' = Rest(k)
    <3>1. \A j \in 1 .. Len(requests) :
            (requests'[j].elem.hnd = k /\ ~ Handled(j)') <=> (requests[j].elem.hnd = k /\ ~ Handled(j))
          BY <1>1, <1>2, <1>3, <1>4, <1>8, Zenon
    <3>2. {e \in done' : e.hnd = k} = {e \in done : e.hnd = k}
          BY <1>2, <1>3, <1>8, <2>2, Zenon
    <3>3. {j \in 1 .. Len(requests') : requests'[j].elem.hnd = k /\ ~ Handled(j)'}
          = {j \in 1 .. Len(requests) : requests[j].elem.hnd = k /\ ~ Handled(j)}
          BY <1>3, <3>1, Zenon
    <3> QED BY <2>1, <3>2, <3>3, RestIs, Zenon
  <2>4. \A p \in Rest(k) : move[p] = p
        BY <1>7, <1>8, Zenon
  <2>5. \A p \in Rest(k) : NumberAt(k, p)' = NumberAt(k, p)
        BY <1>3, <2>1, RestIs, Zenon DEF NumberAt
  <2> QED BY <1>3, <2>3, <2>4, <2>5, RestMoves, Zenon
<1>9. CASE k = n /\ Left(n) # 0
  <2>1. waiting_quiet'[k] = waiting_quiet[k] /\ Woken(n) = {}
        BY <1>3, <1>9, Zenon DEF TransportTypes, Parked, Woken
  <2>2. Rest(k)' = (Rest(k) \ {<<"mpi", i>>}) \union {<<"done", r.elem>>}
    <3>1. \A j \in 1 .. Len(requests) :
            (requests'[j].elem.hnd = k /\ ~ Handled(j)') <=>
              (requests[j].elem.hnd = k /\ ~ Handled(j) /\ j # i)
          BY <1>3, <1>4, Zenon
    <3>2. ASSUME NEW p \in Rest(k)' PROVE (p \in Rest(k) /\ p # <<"mpi", i>>) \/ p = <<"done", r.elem>>
      <4>1. CASE \E j \in 1 .. Len(requests') :
                   p = <<"mpi", j>> /\ requests'[j].elem.hnd = k /\ ~ Handled(j)'
        <5>1. PICK j \in 1 .. Len(requests) : p = <<"mpi", j>> /\ requests'[j].elem.hnd = k /\ ~ Handled(j)'
              BY <1>3, <4>1, Zenon
        <5>2. p \in Rest(k) /\ j # i
              BY <3>1, <5>1, RestHas, Zenon
        <5> QED BY <5>1, <5>2, Zenon
      <4>2. CASE \E j \in 1 .. Len(waiting_quiet'[k]) : p = <<"quiet", j>>
        <5>1. p \in Rest(k)
              BY <2>1, <4>2, RestHas, Zenon
        <5> QED BY <4>2, <5>1
      <4>3. CASE \E e \in done' : p = <<"done", e>> /\ e.hnd = k
        <5>1. p \in Rest(k) \/ p = <<"done", r.elem>>
              BY <1>3, <2>1, <4>3, RestHas, Zenon
        <5> QED BY <4>3, <5>1
      <4> QED BY <4>1, <4>2, <4>3, RestIffNext, Zenon
    <3>3. ASSUME NEW p \in Rest(k), p # <<"mpi", i>> PROVE p \in Rest(k)'
      <4>1. CASE \E j \in 1 .. Len(requests) :
                   p = <<"mpi", j>> /\ requests[j].elem.hnd = k /\ ~ Handled(j)
            BY <1>3, <3>1, <3>3, <4>1, RestHasNext, Zenon
      <4>2. CASE \E j \in 1 .. Len(waiting_quiet[k]) : p = <<"quiet", j>>
            BY <2>1, <4>2, RestHasNext, Zenon
      <4>3. CASE \E e \in done : p = <<"done", e>> /\ e.hnd = k
            BY <1>3, <4>3, RestHasNext, Zenon
      <4> QED BY <4>1, <4>2, <4>3, RestIff, Zenon
    <3>4. <<"done", r.elem>> \in Rest(k)'
          BY <1>2, <1>3, <1>9, RestHasNext, Zenon
    <3> QED BY <3>2, <3>3, <3>4, Zenon
  <2>3. <<"mpi", i>> \in Rest(k)
        BY <1>1, <1>2, <1>4, <1>9, RestHas, Zenon
  <2>4. ASSUME NEW p \in Rest(k) PROVE move[p] \in Rest(k)' /\ NumberAt(k, move[p])' = NumberAt(k, p)
    <3>1. CASE p = <<"mpi", i>>
          BY <1>1, <1>7, <1>9, <2>2, <3>1, Zenon DEF NumberAt
    <3>2. CASE p # <<"mpi", i>>
      <4>1. move[p] = p /\ p \in Rest(k)'
            BY <1>7, <1>9, <2>2, <3>2, Zenon
      <4>2. NumberAt(k, p)' = NumberAt(k, p)
            BY <1>3, <2>1, RestIs, Zenon DEF NumberAt
      <4> QED BY <4>1, <4>2, Zenon
    <3> QED BY <3>1, <3>2, Zenon
  <2>5. ASSUME NEW o \in Rest(k)' PROVE \E p \in Rest(k) : o = move[p]
    <3>1. CASE o = <<"done", r.elem>>
          BY <1>7, <1>9, <2>3, <3>1, Zenon
    <3>2. CASE o \in Rest(k) \ {<<"mpi", i>>}
          BY <1>7, <1>9, <3>2, Zenon
    <3> QED BY <2>2, <3>1, <3>2, Zenon
  <2> QED BY <1>3, <2>4, <2>5, RestMoves, Zenon
<1>10. CASE k = n /\ Left(n) = 0
  <2>1. waiting_quiet'[k] = <<>> /\ Woken(n) = {wq[j] : j \in 1 .. Len(wq)}
    <3>1. waiting_quiet'[k] = <<>>
          BY <1>3, <1>10, Zenon DEF TransportTypes, Parked
    <3>2. Woken(n) = Range(wq)
          BY <1>5, <1>10, Zenon DEF Woken
    <3>3. Range(wq) = {wq[j] : j \in 1 .. Len(wq)}
          BY <1>6, Zenon DEF Range
    <3> QED BY <3>1, <3>2, <3>3, Zenon
  <2>2. Len(waiting_quiet'[k]) = 0
        BY <2>1, EmptyFacts, Zenon
  <2>3. ASSUME NEW p \in Rest(k) PROVE move[p] \in Rest(k)' /\ NumberAt(k, move[p])' = NumberAt(k, p)
    <3>1. CASE \E j \in 1 .. Len(requests) : p = <<"mpi", j>> /\ requests[j].elem.hnd = k /\ ~ Handled(j)
      <4>1. PICK j \in 1 .. Len(requests) : p = <<"mpi", j>> /\ requests[j].elem.hnd = k /\ ~ Handled(j)
            BY <3>1, Zenon
      <4>2. CASE j = i
            BY <1>1, <1>2, <1>3, <1>7, <1>10, <4>1, <4>2, RestIs DEF NumberAt
      <4>3. CASE j # i
        <5>1. move[p] = p
              BY <1>7, <4>1, <4>3, Zenon
        <5> QED BY <1>3, <1>4, <4>1, <4>3, <5>1, RestIs DEF NumberAt
      <4> QED BY <4>2, <4>3, Zenon
    <3>2. CASE \E j \in 1 .. Len(wq) : p = <<"quiet", j>>
      <4>1. PICK j \in 1 .. Len(wq) : p = <<"quiet", j>>
            BY <3>2, Zenon
      <4>2. move[p] = <<"done", wq[j]>> /\ wq[j] \in done' /\ wq[j].hnd = k
            BY <1>3, <1>6, <1>7, <1>10, <2>1, <4>1, Zenon
      <4> QED BY <1>5, <4>1, <4>2, RestIs DEF NumberAt
    <3>3. CASE \E e \in done : p = <<"done", e>> /\ e.hnd = k
      <4>1. PICK e \in done : p = <<"done", e>> /\ e.hnd = k
            BY <3>3, Zenon
      <4>2. move[p] = p
            BY <1>7, <4>1, Zenon
      <4> QED BY <1>3, <4>1, <4>2, RestIs DEF NumberAt
    <3> QED BY <1>5, <3>1, <3>2, <3>3, RestIff, Zenon
  <2>4. ASSUME NEW o \in Rest(k)' PROVE \E p \in Rest(k) : o = move[p]
    <3>1. CASE \E j \in 1 .. Len(requests) : o = <<"mpi", j>> /\ requests[j].elem.hnd = k /\ ~ Handled(j)'
      <4>1. PICK j \in 1 .. Len(requests) : o = <<"mpi", j>> /\ requests[j].elem.hnd = k /\ ~ Handled(j)'
            BY <3>1, Zenon
      <4>2. o \in Rest(k) /\ j # i
            BY <1>4, <4>1, RestIs
      <4>3. move[o] = o
            BY <1>7, <4>1, <4>2, Zenon
      <4> QED BY <4>2, <4>3, Zenon
    <3>2. CASE \E e \in done : o = <<"done", e>> /\ e.hnd = k
      <4>1. o \in Rest(k)
            BY <3>2, RestIs
      <4>2. move[o] = o
            BY <1>7, <3>2, <4>1
      <4> QED BY <4>1, <4>2, Zenon
    <3>3. CASE o = <<"done", r.elem>>
      <4>1. <<"mpi", i>> \in Rest(k)
            BY <1>1, <1>2, <1>4, <1>10, RestHas, Zenon
      <4> QED BY <1>7, <1>10, <3>3, <4>1, Zenon
    <3>4. CASE \E j \in 1 .. Len(wq) : o = <<"done", wq[j]>>
      <4>1. PICK j \in 1 .. Len(wq) : o = <<"done", wq[j]>>
            BY <3>4, Zenon
      <4>2. <<"quiet", j>> \in Rest(k)
            BY <1>5, <4>1, RestHas, Zenon
      <4> QED BY <1>7, <1>10, <4>1, <4>2, Zenon
    <3> QED BY <1>2, <1>3, <2>1, <2>2, <3>1, <3>2, <3>3, <3>4, RestIs
  <2> QED BY <1>3, <2>3, <2>4, RestMoves, Zenon
<1> QED BY <1>8, <1>9, <1>10, Zenon
-----------------------------------------------------------------------------
(***************************************************************************)
(* requests.erase and MPI_Testsome.                                        *)
(***************************************************************************)

\* What erasing index i does to the requests: those behind it move up by one,
\* and no index that is still to be erased is among them.
LEMMA EraseMoves ==
  ASSUME TransportTypes, ProgressInv, NEW i \in completed, Erase(i)
  PROVE  /\ Len(requests) \in Nat /\ i \in 1 .. Len(requests)
         /\ requests' \in Seq(MpiReq) /\ Len(requests') = Len(requests) - 1
         /\ \A j \in 1 .. i - 1 : requests'[j] = requests[j] /\ (Handled(j)' <=> Handled(j))
         /\ \A j \in i .. Len(requests) - 1 : requests'[j] = requests[j + 1]
         /\ \A j : j \in i .. Len(requests) - 1 => ~ Handled(j)' /\ ~ Handled(j + 1)
         /\ Handled(i) /\ at = "erase" /\ unhandled = {} /\ unhandled' = {}
<1>1. /\ requests \in Seq(MpiReq) /\ Len(requests) \in Nat /\ i \in 1 .. Len(requests)
      /\ completed \subseteq 1 .. Len(requests) /\ unhandled = {} /\ unhandled' = {} /\ at = "erase"
      BY SeqFacts, Zenon DEF TransportTypes, ProgressInv, Erase
<1>2. requests' = Without(requests, i) /\ completed' = completed \ {i} /\ \A j \in completed : j <= i
      BY Zenon DEF Erase, NextToErase
<1>3. /\ requests' \in Seq(MpiReq) /\ Len(requests') = Len(requests) - 1
      /\ \A j \in 1 .. i - 1 : requests'[j] = requests[j]
      /\ \A j \in i .. Len(requests) - 1 : requests'[j] = requests[j + 1]
      BY <1>1, <1>2, WithoutProperties, Zenon
<1>4. \A j : (Handled(j) <=> j \in completed) /\ (Handled(j)' <=> j \in completed /\ j # i)
      BY <1>1, <1>2, Zenon DEF Handled
<1>5. \A j \in i .. Len(requests) - 1 : (j \notin completed \/ j = i) /\ j + 1 \notin completed
      BY <1>1, <1>2
<1>6. \A j \in 1 .. i - 1 : j # i
      BY <1>1
<1> QED BY <1>1, <1>3, <1>4, <1>5, <1>6, Zenon

LEMMA EraseRange ==
  ASSUME TransportTypes, ProgressInv, NEW i \in completed, Erase(i)
  PROVE  Len(requests) \in Nat /\ i \in 1 .. Len(requests) /\ Len(requests') = Len(requests) - 1
BY EraseMoves, Zenon

LEMMA EraseTypes ==
  ASSUME TransportTypes, ProgressInv, CountInv, issued' = issued,
         NEW i \in completed, Erase(i)
  PROVE  TransportTypes' /\ ProgressInv' /\ CountInv'
<1>1. /\ q' = q /\ outstanding' = outstanding /\ waiting_quiet' = waiting_quiet /\ done' = done
      /\ issued' = issued /\ completed' = completed \ {i} /\ unhandled' = unhandled
      /\ \A j \in completed : j <= i
      /\ at' = IF completed' = {} THEN "submit" ELSE "erase"
      BY Zenon DEF Erase, NextToErase
<1>2. TransportTypes'
      BY <1>1, EraseMoves, Zenon DEF TransportTypes
<1>3. ProgressInv'
  <2>1. completed' \subseteq 1 .. Len(requests')
        BY <1>1, EraseMoves DEF ProgressInv
  <2> QED BY <1>1, <2>1, EraseMoves, Zenon DEF ProgressInv
<1>4. ASSUME NEW k \in Queue PROVE \E g : Enumerates(g, InFlight(k)', outstanding[k])
  <2>f. PICK f : Enumerates(f, InFlight(k), outstanding[k])
        BY Zenon DEF CountInv
  <2>1. PICK back : back = [o \in InFlight(k)' |-> IF o < i THEN o ELSE o + 1]
        BY Zenon
  <2>2. \A j \in InFlight(k) : j \in 1 .. Len(requests) /\ requests[j].queue = k /\ ~ Handled(j) /\ j # i
        BY EraseMoves, Zenon DEF InFlight
  <2>3. \A j \in InFlight(k)' : j \in 1 .. Len(requests) - 1 /\ requests'[j].queue = k /\ ~ Handled(j)'
        BY EraseMoves, Zenon DEF InFlight
  <2>4. ASSUME NEW o \in InFlight(k)' PROVE back[o] \in InFlight(k)
    <3>1. CASE o < i
      <4>1. o \in 1 .. i - 1 /\ o \in 1 .. Len(requests)
            BY <2>3, <3>1, EraseRange
      <4> QED BY <2>1, <2>3, <3>1, <4>1, EraseMoves, Zenon DEF InFlight
    <3>2. CASE ~ o < i
      <4>1. o \in i .. Len(requests) - 1 /\ o + 1 \in 1 .. Len(requests)
            BY <2>3, <3>2, EraseRange
      <4> QED BY <2>1, <2>3, <3>2, <4>1, EraseMoves, Zenon DEF InFlight
    <3> QED BY <3>1, <3>2, Zenon
  <2>5. ASSUME NEW j \in InFlight(k) PROVE \E o \in InFlight(k)' : back[o] = j
    <3>1. CASE j < i
      <4>1. j \in 1 .. i - 1 /\ j \in 1 .. Len(requests')
            BY <2>2, <3>1, EraseRange
      <4>2. j \in InFlight(k)'
            BY <2>2, <4>1, EraseMoves, Zenon DEF InFlight
      <4> QED BY <2>1, <3>1, <4>2, Zenon
    <3>2. CASE ~ j < i
      <4>1. j - 1 \in i .. Len(requests) - 1 /\ (j - 1) + 1 = j /\ j - 1 \in 1 .. Len(requests) - 1
            BY <2>2, <3>2, EraseRange
      <4>2. requests'[j - 1] = requests[j] /\ ~ Handled(j - 1)'
            BY <4>1, EraseMoves
      <4>3. j - 1 \in InFlight(k)' /\ ~ (j - 1 < i)
            BY <2>2, <4>1, <4>2, EraseMoves DEF InFlight
      <4> QED BY <2>1, <4>1, <4>3, Zenon
    <3> QED BY <3>1, <3>2, Zenon
  <2>6. \A o, l \in InFlight(k)' : back[o] = back[l] => o = l
        BY <2>1, <2>3, EraseRange
  <2> QED BY <2>f, <2>4, <2>5, <2>6, Renamed
<1>5. CountInv'
      BY <1>1, <1>4, Zenon DEF CountInv
<1> QED BY <1>2, <1>3, <1>5, Zenon

LEMMA EraseNumbered ==
  ASSUME TransportTypes, ProgressInv, issued' = issued, NEW i \in completed, Erase(i),
         NEW k \in Queue, Numbered(k), Ordered(k)
  PROVE  Numbered(k)' /\ Ordered(k)'
<1>1. /\ q' = q /\ waiting_quiet' = waiting_quiet /\ done' = done /\ issued' = issued
      BY Zenon DEF Erase
<1>2. PICK move :
        move = [p \in Rest(k) |-> IF p[1] = "mpi" /\ p[2] > i THEN <<"mpi", p[2] - 1>> ELSE p]
      BY Zenon
<1>3. ASSUME NEW p \in Rest(k) PROVE move[p] \in Rest(k)' /\ NumberAt(k, move[p])' = NumberAt(k, p)
  <2>1. CASE \E j \in 1 .. Len(requests) : p = <<"mpi", j>> /\ requests[j].elem.hnd = k /\ ~ Handled(j)
    <3>1. PICK j \in 1 .. Len(requests) : p = <<"mpi", j>> /\ requests[j].elem.hnd = k /\ ~ Handled(j)
          BY <2>1, Zenon
    <3>2. j # i
          BY <3>1, EraseMoves, Zenon
    <3>3. PICK o : o = IF j < i THEN j ELSE j - 1
          BY Zenon
    <3>4. o \in 1 .. Len(requests') /\ requests'[o] = requests[j] /\ ~ Handled(o)'
      <4>1. CASE j < i
            BY <3>1, <3>3, <4>1, EraseMoves
      <4>2. CASE ~ j < i
        <5>1. o \in i .. Len(requests) - 1 /\ o + 1 = j
              BY <3>2, <3>3, <4>2, EraseRange
        <5>2. requests'[o] = requests[j] /\ ~ Handled(o)'
              BY <5>1, EraseMoves, Zenon
        <5> QED BY <5>1, <5>2, EraseMoves
      <4> QED BY <4>1, <4>2, Zenon
    <3>5. move[p] = <<"mpi", o>>
          BY <1>2, <3>1, <3>2, <3>3, EraseRange
    <3> QED BY <3>1, <3>4, <3>5, RestIs DEF NumberAt
  <2>2. CASE p[1] # "mpi"
    <3>1. move[p] = p
          BY <1>2, <2>2, Zenon
    <3> QED BY <1>1, <2>2, <3>1, RestIs DEF NumberAt
  <2>3. (\E j \in 1 .. Len(waiting_quiet[k]) : p = <<"quiet", j>>) => p[1] # "mpi"
        OBVIOUS
  <2>4. (\E e \in done : p = <<"done", e>> /\ e.hnd = k) => p[1] # "mpi"
        OBVIOUS
  <2> QED BY <2>1, <2>2, <2>3, <2>4, RestIff, Zenon
<1>4. ASSUME NEW o \in Rest(k)' PROVE \E p \in Rest(k) : o = move[p]
  <2>1. CASE \E j \in 1 .. Len(requests') : o = <<"mpi", j>> /\ requests'[j].elem.hnd = k /\ ~ Handled(j)'
    <3>1. PICK j \in 1 .. Len(requests') : o = <<"mpi", j>> /\ requests'[j].elem.hnd = k /\ ~ Handled(j)'
          BY <2>1, Zenon
    <3>2. PICK l : l = IF j < i THEN j ELSE j + 1
          BY Zenon
    <3>3. l \in 1 .. Len(requests) /\ requests[l] = requests'[j] /\ ~ Handled(l)
      <4>1. CASE j < i
        <5>1. l = j /\ j \in 1 .. i - 1 /\ j \in 1 .. Len(requests)
              BY <3>1, <3>2, <4>1, EraseRange
        <5> QED BY <3>1, <5>1, EraseMoves, Zenon
      <4>2. CASE ~ j < i
        <5>1. j \in i .. Len(requests) - 1 /\ l = j + 1 /\ l \in 1 .. Len(requests)
              BY <3>1, <3>2, <4>2, EraseRange
        <5> QED BY <5>1, EraseMoves, Zenon
      <4> QED BY <4>1, <4>2, Zenon
    <3>4. <<"mpi", l>> \in Rest(k)
          BY <3>1, <3>3, RestHas, Zenon
    <3>5. move[<<"mpi", l>>] = <<"mpi", j>>
          BY <1>2, <3>2, <3>4, EraseRange
    <3> QED BY <3>1, <3>4, <3>5, Zenon
  <2>2. CASE \E j \in 1 .. Len(waiting_quiet'[k]) : o = <<"quiet", j>>
    <3>1. o \in Rest(k)
          BY <1>1, <2>2, RestHas, Zenon
    <3> QED BY <1>2, <2>2, <3>1, Zenon
  <2>3. CASE \E e \in done' : o = <<"done", e>> /\ e.hnd = k
    <3>1. o \in Rest(k)
          BY <1>1, <2>3, RestHas, Zenon
    <3> QED BY <1>2, <2>3, <3>1, Zenon
  <2> QED BY <2>1, <2>2, <2>3, RestIffNext, Zenon
<1> QED BY <1>1, <1>3, <1>4, RestMoves, Zenon

\* A step that leaves the requests, the parked quiets and what is done alone.
LEMMA SameRest ==
  ASSUME UNCHANGED <<requests, waiting_quiet, done>>, \A j : Handled(j)' <=> Handled(j), NEW k
  PROVE  Rest(k)' = Rest(k) /\ \A p \in Rest(k) : NumberAt(k, p)' = NumberAt(k, p) /\ p[1] # "q"
<1>1. {j \in 1 .. Len(requests') : requests'[j].elem.hnd = k /\ ~ Handled(j)'}
      = {j \in 1 .. Len(requests) : requests[j].elem.hnd = k /\ ~ Handled(j)}
      BY Zenon
<1>2. Rest(k)' = Rest(k)
      BY <1>1, RestIs, Zenon
<1>3. \A p \in Rest(k) : p[1] # "q"
      BY Zenon DEF Rest
<1>4. \A p \in Rest(k) : NumberAt(k, p)' = NumberAt(k, p)
      BY RestIs DEF NumberAt
<1> QED BY <1>2, <1>3, <1>4, Zenon

\* A step that leaves every command where it is.
LEMMA SamePlaces ==
  ASSUME UNCHANGED <<q, requests, waiting_quiet, done, issued>>, \A j : Handled(j)' <=> Handled(j),
         NEW k \in Queue, Numbered(k), Ordered(k)
  PROVE  Numbered(k)' /\ Ordered(k)'
<1>1. Rest(k)' = Rest(k)
      BY SameRest, Zenon
<1>2. \A p \in Rest(k) : NumberAt(k, p)' = NumberAt(k, p)
      BY SameRest, Zenon
<1>3. PICK move : move = [p \in Rest(k) |-> p]
      BY Zenon
<1>4. /\ \A p \in Rest(k) : move[p] \in Rest(k)' /\ NumberAt(k, move[p])' = NumberAt(k, p)
      /\ \A r \in Rest(k)' : \E p \in Rest(k) : r = move[p]
      BY <1>1, <1>2, <1>3, Zenon
<1> QED BY <1>4, RestMoves, Zenon

\* MPI_Testsome only picks indices.
LEMMA TestsomeKeeps ==
  ASSUME TransportTypes, ProgressInv, CountInv, issued' = issued, Testsome
  PROVE  /\ TransportTypes' /\ ProgressInv' /\ CountInv'
         /\ \A j : Handled(j)' <=> Handled(j)
<1>1. /\ UNCHANGED <<q, requests, outstanding, waiting_quiet, done, issued>>
      /\ completed = {} /\ unhandled = {} /\ unhandled' = completed' /\ at' \in {"submit", "handle"}
      /\ at' = "submit" => completed' = {}
      BY Zenon DEF Testsome, ProgressInv
<1>2. completed' \subseteq 1 .. Len(requests)
  <2>1. Len(requests) \in Nat
        BY SeqFacts, Zenon DEF TransportTypes
  <2>2. InCount \in 0 .. Len(requests)
        BY <2>1, TransportAssumption DEF InCount
  <2>3. completed' \subseteq 1 .. InCount
        BY <1>1, Zenon DEF Testsome
  <2> QED BY <2>1, <2>2, <2>3
<1>3. TransportTypes'
      BY <1>1, Zenon DEF TransportTypes
<1>4. ProgressInv'
      BY <1>1, <1>2, Zenon DEF ProgressInv
<1>5. \A j : ~ Handled(j) /\ ~ Handled(j)'
      BY <1>1, Zenon DEF Handled
<1>6. \A k \in Queue : InFlight(k)' = InFlight(k)
      BY <1>1, <1>5, Zenon DEF InFlight
<1>7. CountInv'
      BY <1>1, <1>6, Zenon DEF CountInv
<1> QED BY <1>3, <1>4, <1>5, <1>7, Zenon

-----------------------------------------------------------------------------
(***************************************************************************)
(* A new command.                                                          *)
(***************************************************************************)

\* insertRequest appends the next command of queue n.
Accepts(n, e) ==
  /\ e.hnd = n /\ e.idx = issued[n]
  /\ q' = Append(q, [elem |-> e, queue |-> n])
  /\ issued' = [issued EXCEPT ![n] = @ + 1]
  /\ UNCHANGED <<engineVars, done>>

LEMMA AcceptTypes ==
  ASSUME TransportTypes, ProgressInv, CountInv, NEW n \in Queue, NEW e \in Elem, Accepts(n, e)
  PROVE  /\ TransportTypes' /\ ProgressInv' /\ CountInv'
         /\ \A k \in Queue : Numbered(k) /\ Ordered(k) => Numbered(k)' /\ Ordered(k)'
<1>1. e.hnd = n /\ e.idx = issued[n]
      BY Zenon DEF Accepts
<1>2. PICK r : r = [elem |-> e, queue |-> n]
      BY Zenon
<1>3. /\ q' = Append(q, r) /\ issued' = [issued EXCEPT ![n] = @ + 1] /\ UNCHANGED <<engineVars, done>>
      BY <1>2, Zenon DEF Accepts
<1>4. issued[n] \in Nat /\ e \in Elem /\ r \in Req /\ q \in Seq(Req)
  <2>1. issued[n] \in Nat /\ q \in Seq(Req)
        BY Zenon DEF TransportTypes
  <2> QED BY <1>1, <1>2, <2>1, Zenon DEF Req
<1>5. /\ Len(q) \in Nat /\ Len(q') = Len(q) + 1 /\ q'[Len(q) + 1] = r
      /\ \A j \in 1 .. Len(q) : q'[j] = q[j]
      BY <1>3, <1>4, AppendFacts, SeqFacts
<1>6. TransportTypes'
      BY <1>3, <1>4 DEF TransportTypes, engineVars
<1>7. ProgressInv'
      BY <1>3, Zenon DEF ProgressInv, engineVars
<1>8. /\ \A j : Handled(j)' <=> Handled(j)
      /\ requests' = requests /\ waiting_quiet' = waiting_quiet /\ outstanding' = outstanding /\ done' = done
      BY <1>3, Zenon DEF Handled, engineVars
<1>9. CountInv'
  <2>1. \A k \in Queue : InFlight(k)' = InFlight(k)
        BY <1>8, Zenon DEF InFlight
  <2> QED BY <1>8, <2>1, Zenon DEF CountInv
<1>10. ASSUME NEW k \in Queue, Numbered(k), Ordered(k) PROVE Numbered(k)' /\ Ordered(k)'
  <2>1. Rest(k)' = Rest(k) /\ \A p \in Rest(k) : NumberAt(k, p)' = NumberAt(k, p) /\ p[1] # "q"
        BY <1>8, SameRest, Zenon
  <2>2. PICK d : d = <<"q", Len(q) + 1>>
        BY Zenon
  <2>3. Held(k)' = IF k = n THEN Held(k) \union {d} ELSE Held(k)
    <3>1. r.elem.hnd = n
          BY <1>1, <1>2, Zenon
    <3>2. {<<"q", j>> : j \in {j \in 1 .. Len(q') : q'[j].elem.hnd = k}}
          = {<<"q", j>> : j \in {j \in 1 .. Len(q) : q[j].elem.hnd = k}}
            \union (IF k = n THEN {d} ELSE {})
      <4>1. {j \in 1 .. Len(q') : q'[j].elem.hnd = k}
            = {j \in 1 .. Len(q) : q[j].elem.hnd = k} \union (IF k = n THEN {Len(q) + 1} ELSE {})
            BY <1>5, <3>1
      <4> QED BY <2>2, <4>1, Zenon
    <3>3. Held(k) = {<<"q", j>> : j \in {j \in 1 .. Len(q) : q[j].elem.hnd = k}} \union Rest(k)
          BY HeldSplits, Zenon
    <3>4. Held(k)' = {<<"q", j>> : j \in {j \in 1 .. Len(q') : q'[j].elem.hnd = k}} \union Rest(k)'
          BY HeldSplits, Zenon
    <3> QED BY <2>1, <3>2, <3>3, <3>4, Zenon
  <2>4. \A p \in Held(k) : NumberAt(k, p)' = NumberAt(k, p)
    <3> SUFFICES ASSUME NEW p \in Held(k), p \notin Rest(k) PROVE NumberAt(k, p)' = NumberAt(k, p)
        BY <2>1, Zenon
    <3>1. PICK j \in 1 .. Len(q) : p = <<"q", j>>
          BY HeldSplits
    <3>2. q'[j] = q[j]
          BY <1>5, Zenon
    <3> QED BY <3>1, <3>2, HeldSplits, Zenon
  <2>5. NumberAt(k, d)' = issued[n]
    <3>1. r.elem.idx = issued[n]
          BY <1>1, <1>2, Zenon
    <3>2. PICK m : m = Len(q) + 1
          BY Zenon
    <3>3. NumberAt(k, <<"q", m>>)' = q'[m].elem.idx
          BY HeldSplits, Zenon
    <3> QED BY <1>5, <2>2, <3>1, <3>2, <3>3, Zenon
  <2>6. Numbered(k)'
    <3>1. CASE k = n
      <4>1. /\ Number(k)'[d] = issued[n] /\ Held(k)' = Held(k) \union {d}
            /\ \A p \in Held(k) : Number(k)'[p] = Number(k)[p]
            BY <2>3, <2>4, <2>5, <3>1, Zenon DEF Number
      <4>2. issued'[k] = issued[n] + 1 /\ Enumerates(Number(k), Held(k), issued[n])
            BY <1>3, <1>10, <3>1, Zenon DEF TransportTypes, Numbered
      <4>3. Enumerates(Number(k)', Held(k)', issued[n] + 1)
            BY <1>4, <4>1, <4>2, OneMore, Zenon
      <4> QED BY <4>2, <4>3, Zenon DEF Numbered
    <3>2. CASE k # n
      <4>1. Held(k)' = Held(k) /\ issued'[k] = issued[k]
            BY <1>3, <2>3, <3>2, Zenon DEF TransportTypes
      <4>2. Number(k)' = Number(k)
            BY <2>4, <4>1, Zenon DEF Number
      <4> QED BY <1>10, <4>1, <4>2, Zenon DEF Numbered
    <3> QED BY <3>1, <3>2, Zenon
  <2>7. Ordered(k)'
    <3> SUFFICES ASSUME NEW j \in 1 .. Len(q'), q'[j].elem.hnd = k, NEW p \in Held(k)',
                        p[1] # "q" \/ p[2] < j
                 PROVE  NumberAt(k, p)' < q'[j].elem.idx
        BY Zenon DEF Ordered
    <3>1. p # d
      <4>1. d[1] = "q" /\ d[2] = Len(q) + 1
            BY <2>2, Zenon
      <4>2. ~ (Len(q) + 1 < j)
            BY <1>5
      <4> QED BY <4>1, <4>2, Zenon
    <3>2. p \in Held(k) /\ NumberAt(k, p)' = NumberAt(k, p)
          BY <2>3, <2>4, <3>1, Zenon
    <3>3. CASE j \in 1 .. Len(q)
          BY <1>5, <1>10, <3>2, <3>3, Zenon DEF Ordered
    <3>4. CASE j = Len(q) + 1
      <4>1. k = n /\ q'[j].elem.idx = issued[k]
        <5>1. q'[j] = r
              BY <1>5, <3>4, Zenon
        <5>2. r.elem.hnd = n /\ r.elem.idx = issued[n]
              BY <1>1, <1>2, Zenon
        <5> QED BY <5>1, <5>2, Zenon
      <4>2. NumberAt(k, p) \in 0 .. issued[k] - 1
            BY <1>10, <3>2, Zenon DEF Numbered, Enumerates, Number
      <4> QED BY <1>4, <3>2, <4>1, <4>2
    <3>5. j \in 1 .. Len(q) \/ j = Len(q) + 1
          BY <1>5
    <3> QED BY <3>3, <3>4, <3>5, Zenon
  <2> QED BY <2>6, <2>7, Zenon
<1> QED BY <1>6, <1>7, <1>9, <1>10, Zenon

-----------------------------------------------------------------------------
(***************************************************************************)
(* Quiets, and the invariant.                                              *)
(***************************************************************************)

\* With nothing in flight and nothing parked, what is issued before a finished
\* command is finished: it can only be in q, and q is behind.
LEMMA NothingBefore ==
  ASSUME TransportTypes', NEW k \in Queue, Numbered(k)', Ordered(k)',
         InFlight(k)' = {}, waiting_quiet'[k] = <<>>, NEW e \in done', e.hnd = k
  PROVE  \A i \in 0 .. e.idx - 1 : \E d \in done' : d.hnd = e.hnd /\ d.idx = i
<1> SUFFICES ASSUME NEW i \in 0 .. e.idx - 1 PROVE \E d \in done' : d.hnd = k /\ d.idx = i
    BY Zenon
<1>1. PICK o : o = <<"done", e>>
      BY Zenon
<1>2. o \in Held(k)' /\ NumberAt(k, o)' = e.idx /\ o[1] # "q"
  <2>1. o \in Rest(k)' /\ NumberAt(k, o)' = e.idx
        BY <1>1, RestIs DEF NumberAt
  <2> QED BY <2>1, Zenon DEF Rest
<1>3. \A p \in Held(k)' : Number(k)'[p] = NumberAt(k, p)'
      BY Zenon DEF Number
<1>4. e.idx \in 0 .. issued'[k] - 1 /\ issued'[k] \in Nat
  <2>1. Number(k)'[o] \in 0 .. issued'[k] - 1
        BY <1>2, Zenon DEF Numbered, Enumerates
  <2>2. Number(k)'[o] = e.idx
        BY <1>2, <1>3, Zenon
  <2>3. issued'[k] \in Nat
        BY Zenon DEF TransportTypes
  <2> QED BY <2>1, <2>2, <2>3, Zenon
<1>5. PICK p \in Held(k)' : NumberAt(k, p)' = i
  <2>1. i \in 0 .. issued'[k] - 1
        BY <1>4
  <2> QED BY <1>3, <2>1 DEF Numbered, Enumerates
<1>6. CASE p \notin Rest(k)'
  <2>1. PICK j \in 1 .. Len(q') : p = <<"q", j>> /\ q'[j].elem.hnd = k
        BY <1>6, HeldSplits, Zenon
  <2>2. e.idx < q'[j].elem.idx
        BY <1>2, <2>1, Zenon DEF Ordered
  <2>3. q'[j].elem.idx = i
        BY <1>5, <2>1, HeldSplits, Zenon
  <2> QED BY <1>4, <2>2, <2>3
<1>7. CASE \E j \in 1 .. Len(requests') : p = <<"mpi", j>> /\ requests'[j].elem.hnd = k /\ ~ Handled(j)'
  <2>1. PICK j \in 1 .. Len(requests') : requests'[j].elem.hnd = k /\ ~ Handled(j)'
        BY <1>7, Zenon
  <2>2. requests'[j] \in MpiReq
        BY SeqFacts, Zenon DEF TransportTypes
  <2>3. j \in InFlight(k)'
        BY <2>1, <2>2, Zenon DEF InFlight, MpiReq, Req
  <2> QED BY <2>3, Zenon
<1>8. CASE \E j \in 1 .. Len(waiting_quiet'[k]) : p = <<"quiet", j>>
      BY <1>8, EmptyFacts
<1>9. CASE \E d \in done' : p = <<"done", d>> /\ d.hnd = k
  <2>1. PICK d \in done' : p = <<"done", d>> /\ d.hnd = k
        BY <1>9, Zenon
  <2>2. NumberAt(k, p)' = d.idx
        BY <2>1, Zenon DEF NumberAt
  <2> QED BY <1>5, <2>1, <2>2, Zenon
<1>10. p \in Rest(k)' =>
         \/ \E j \in 1 .. Len(requests') : p = <<"mpi", j>> /\ requests'[j].elem.hnd = k /\ ~ Handled(j)'
         \/ \E j \in 1 .. Len(waiting_quiet'[k]) : p = <<"quiet", j>>
         \/ \E d \in done' : p = <<"done", d>> /\ d.hnd = k
      BY RestIffNext
<1> QED BY <1>6, <1>7, <1>8, <1>9, <1>10, Zenon

\* A step keeps QuietMeansDone when the quiets it finishes find the counter at 0.
LEMMA QuietStep ==
  ASSUME TransportTypes', CountInv', \A k \in Queue : Numbered(k)' /\ Ordered(k)', QuietMeansDone,
         done \subseteq done',
         \A e \in done' \ done : Quieting(e.cmd) => outstanding'[e.hnd] = 0
  PROVE  QuietMeansDone'
<1> SUFFICES ASSUME NEW e \in done', Quieting(e.cmd)
             PROVE  \A i \in 0 .. e.idx - 1 : \E d \in done' : d.hnd = e.hnd /\ d.idx = i
    BY Zenon DEF QuietMeansDone
<1>1. CASE e \in done
      BY <1>1, Zenon DEF QuietMeansDone
<1>2. CASE e \notin done
  <2>1. PICK k \in Queue : k = e.hnd
        BY Zenon DEF TransportTypes, Elem
  <2>2. outstanding'[k] = 0
        BY <1>2, <2>1, Zenon
  <2>3. PICK f : Enumerates(f, InFlight(k)', outstanding'[k])
        BY Zenon DEF CountInv
  <2>4. InFlight(k)' = {} /\ waiting_quiet'[k] = <<>>
        BY <2>2, <2>3 DEF CountInv, Enumerates
  <2> QED BY <2>1, <2>4, NothingBefore, Zenon
<1> QED BY <1>1, <1>2, Zenon

LEMMA InitIInv ==
  ASSUME q = <<>>, EngineInit, issued = [k \in Queue |-> 0] PROVE IInv
<1>1. /\ q = <<>> /\ requests = <<>> /\ outstanding = [k \in Queue |-> 0] /\ done = {}
      /\ waiting_quiet = [k \in Queue |-> <<>>] /\ issued = [k \in Queue |-> 0]
      /\ completed = {} /\ unhandled = {} /\ at = "submit"
      BY Zenon DEF EngineInit
<1>2. Len(q) = 0 /\ Len(requests) = 0 /\ \A k \in Queue : Len(waiting_quiet[k]) = 0
      BY <1>1, EmptyFacts, Zenon
<1>3. TransportTypes
      BY <1>1, <1>2, EmptyFacts DEF TransportTypes
<1>4. ProgressInv
      BY <1>1, Zenon DEF ProgressInv
<1>5. CountInv
  <2>1. \A k \in Queue : InFlight(k) = {}
        BY <1>2 DEF InFlight
  <2>2. \A k \in Queue : outstanding[k] = 0 /\ waiting_quiet[k] = <<>>
        BY <1>1, Zenon
  <2>3. \A f : Enumerates(f, {}, 0)
        BY DEF Enumerates
  <2> QED BY <2>1, <2>2, <2>3, Zenon DEF CountInv
<1>6. ASSUME NEW k \in Queue PROVE Numbered(k) /\ Ordered(k)
  <2>1. Held(k) = {} /\ issued[k] = 0
        BY <1>1, <1>2 DEF Held
  <2> QED BY <1>2, <2>1 DEF Numbered, Ordered, Enumerates
<1>7. QuietMeansDone
      BY <1>1, Zenon DEF QuietMeansDone
<1> QED BY <1>3, <1>4, <1>5, <1>6, <1>7, Zenon DEF IInv

LEMMA TakesKeeps == IInv /\ Takes => IInv'
<1> SUFFICES ASSUME IInv, Takes PROVE IInv'
    BY Zenon
<1>1. TransportTypes' /\ ProgressInv' /\ CountInv' /\ \A k \in Queue : Numbered(k)' /\ Ordered(k)'
      BY TakesTypes, TakesCount, TakesNumbered, Zenon DEF IInv
<1>2. done \subseteq done' /\ \A e \in done' \ done : Quieting(e.cmd) => outstanding'[e.hnd] = 0
  <2>1. Head(q).queue = Head(q).elem.hnd
        BY HeadOfQueue, Zenon DEF Takes, Req, IInv
  <2> QED BY <2>1, Zenon DEF Takes, Finishes, Parks, Starts
<1> QED BY <1>1, <1>2, QuietStep, Zenon DEF IInv

LEMMA HandlesKeeps ==
  ASSUME IInv, issued' = issued, NEW i \in unhandled, HandleCompletion(i) PROVE IInv'
<1>1. TransportTypes' /\ ProgressInv' /\ CountInv' /\ \A k \in Queue : Numbered(k)' /\ Ordered(k)'
      BY HandlesTypes, HandlesNumbered, Zenon DEF IInv
<1>2. PICK r \in MpiReq : r = requests[i]
      BY SeqFacts, Zenon DEF TransportTypes, ProgressInv, IInv
<1>3. PICK n \in Queue : n = r.queue /\ n = r.elem.hnd /\ ~ Quieting(r.elem.cmd)
      BY Zenon DEF MpiReq, Req
<1>4. /\ done' = done \union {r.elem} \union Woken(n)
      /\ outstanding' = [outstanding EXCEPT ![n] = Left(n)]
      BY <1>2, <1>3, Zenon DEF HandleCompletion
<1>5. ASSUME NEW e \in Woken(n) PROVE outstanding'[e.hnd] = 0
  <2>1. Left(n) = 0 /\ e \in Range(waiting_quiet[n])
        BY Zenon DEF Woken
  <2>2. waiting_quiet[n] \in Seq(Elem) /\ outstanding'[n] = 0
        BY <1>4, <2>1, Zenon DEF IInv, TransportTypes
  <2>3. PICK j \in 1 .. Len(waiting_quiet[n]) : e = waiting_quiet[n][j]
        BY <2>1, <2>2, SeqFacts, Zenon DEF Range
  <2>4. e.hnd = n
        BY <2>3, Zenon DEF IInv, TransportTypes
  <2> QED BY <2>2, <2>4, Zenon
<1>6. done \subseteq done' /\ \A e \in done' \ done : Quieting(e.cmd) => outstanding'[e.hnd] = 0
      BY <1>3, <1>4, <1>5, Zenon
<1> QED BY <1>1, <1>6, QuietStep, Zenon DEF IInv

\* A step that changes nothing of the invariant.
LEMMA IdleKeeps ==
  ASSUME IInv, UNCHANGED <<q, engineVars, done, issued>> \/ (at = "submit" /\ at' = "test" /\
           UNCHANGED <<q, requests, outstanding, waiting_quiet, completed, unhandled, done, issued>>)
  PROVE  IInv'
<1>1. /\ UNCHANGED <<q, requests, outstanding, waiting_quiet, completed, unhandled, done, issued>>
      /\ at' = at \/ (at = "submit" /\ at' = "test")
      BY Zenon DEF engineVars
<1>2. TransportTypes' /\ ProgressInv'
      BY <1>1, Zenon DEF IInv, TransportTypes, ProgressInv
<1>3. \A j : Handled(j)' <=> Handled(j)
      BY <1>1, Zenon DEF Handled
<1>4. \A k \in Queue : InFlight(k)' = InFlight(k)
      BY <1>1, <1>3, Zenon DEF InFlight
<1>5. CountInv'
      BY <1>1, <1>4, Zenon DEF IInv, CountInv
<1>6. \A k \in Queue : Numbered(k)' /\ Ordered(k)'
      BY <1>1, <1>3, SamePlaces, Zenon DEF IInv
<1>7. QuietMeansDone'
      BY <1>1, Zenon DEF IInv, QuietMeansDone
<1> QED BY <1>2, <1>5, <1>6, <1>7, Zenon DEF IInv

LEMMA AcceptKeeps ==
  ASSUME IInv, NEW n \in Queue, NEW e \in Elem, Accepts(n, e) PROVE IInv'
<1>1. TransportTypes /\ ProgressInv /\ CountInv /\ QuietMeansDone /\ \A k \in Queue : Numbered(k) /\ Ordered(k)
      BY Zenon DEF IInv
<1>2. /\ TransportTypes' /\ ProgressInv' /\ CountInv'
      /\ \A j \in Queue : Numbered(j)' /\ Ordered(j)'
      BY <1>1, AcceptTypes, Zenon
<1>3. QuietMeansDone'
      BY <1>1, Zenon DEF QuietMeansDone, Accepts
<1> QED BY <1>2, <1>3, Zenon DEF IInv

LEMMA EngineKeeps == ASSUME IInv, Engine, issued' = issued PROVE IInv'
<1>0. TransportTypes /\ ProgressInv /\ CountInv /\ QuietMeansDone /\ \A k \in Queue : Numbered(k) /\ Ordered(k)
      BY Zenon DEF IInv
<1>1. CASE submitRequestsToMPI
  <2>1. CASE q = <<>>
        BY <1>1, <2>1, IdleKeeps, Zenon DEF submitRequestsToMPI
  <2>2. CASE q # <<>>
    <3>1. Takes
          BY <1>1, <2>2, DispatchCases, Zenon DEF submitRequestsToMPI, Takes
    <3> QED BY <3>1, TakesKeeps, Zenon
  <2> QED BY <2>1, <2>2, Zenon
<1>2. CASE Testsome
  <2>1. TransportTypes' /\ ProgressInv' /\ CountInv' /\ \A j : Handled(j)' <=> Handled(j)
        BY <1>0, <1>2, TestsomeKeeps, Zenon
  <2>2. UNCHANGED <<q, requests, waiting_quiet, done, issued>>
        BY <1>2, Zenon DEF Testsome
  <2>3. \A k \in Queue : Numbered(k)' /\ Ordered(k)'
        BY <1>0, <2>1, <2>2, SamePlaces, Zenon
  <2>4. QuietMeansDone'
        BY <1>0, <2>2, Zenon DEF QuietMeansDone
  <2> QED BY <2>1, <2>3, <2>4, Zenon DEF IInv
<1>3. CASE \E i \in unhandled : HandleCompletion(i)
      BY <1>3, HandlesKeeps, Zenon
<1>4. CASE \E i \in completed : Erase(i)
  <2>1. PICK i \in completed : Erase(i)
        BY <1>4, Zenon
  <2>2. TransportTypes' /\ ProgressInv' /\ CountInv'
        BY <1>0, <2>1, EraseTypes, Zenon
  <2>3. \A k \in Queue : Numbered(k)' /\ Ordered(k)'
        BY <1>0, <2>1, EraseNumbered, Zenon
  <2>4. QuietMeansDone'
        BY <1>0, <2>1, Zenon DEF QuietMeansDone, Erase
  <2> QED BY <2>2, <2>3, <2>4, Zenon DEF IInv
<1> QED BY <1>1, <1>2, <1>3, <1>4, Zenon DEF Engine

LEMMA NextIInv == IInv /\ [Next]_vars => IInv'
<1> SUFFICES ASSUME IInv, [Next]_vars PROVE IInv'
    BY Zenon
<1>1. CASE Engine /\ UNCHANGED clientVars
      BY <1>1, EngineKeeps, Zenon DEF clientVars
<1>2. CASE \E k \in Queue, t \in Tid : Return(k, t)
      BY <1>2, IdleKeeps, Zenon DEF Return
<1>3. CASE \E k \in Queue, t \in Tid : \E c \in Cmd : Issue(k, t, c)
  <2>1. PICK k \in Queue, t \in Tid, c \in Cmd : Issue(k, t, c)
        BY <1>3, Zenon
  <2>2. PICK e : e = [hnd |-> k, idx |-> issued[k], tid |-> t, cmd |-> c]
        BY Zenon
  <2>3. issued[k] \in Nat
        BY Zenon DEF IInv, TransportTypes
  <2>4. e \in Elem /\ e.hnd = k /\ e.idx = issued[k]
        BY <2>2, <2>3, Zenon DEF Elem
  <2>5. Accepts(k, e)
        BY <2>1, <2>2, <2>4, Zenon DEF Accepts, Issue
  <2> QED BY <2>4, <2>5, AcceptKeeps, Zenon
<1>4. CASE UNCHANGED vars
      BY <1>4, IdleKeeps, Zenon DEF vars, clientVars
<1> QED BY <1>1, <1>2, <1>3, <1>4, Zenon DEF Next, Clients

-----------------------------------------------------------------------------
(***************************************************************************)
(* What a step of the progress thread means to the work-items: commands    *)
(* are pending or done, and only those that become done are told of.       *)
(***************************************************************************)
IsPending(e) ==
  \/ \E j \in 1 .. Len(q) : e = q[j].elem
  \/ \E j \in 1 .. Len(requests) : e = requests[j].elem /\ ~ Handled(j)
  \/ \E k \in Queue : \E j \in 1 .. Len(waiting_quiet[k]) : e = waiting_quiet[k][j]

Pending == {e \in Elem : IsPending(e)}

ElemAt(k, p) ==
  CASE p[1] = "q"     -> q[p[2]].elem
    [] p[1] = "mpi"   -> requests[p[2]].elem
    [] p[1] = "quiet" -> waiting_quiet[k][p[2]]
    [] p[1] = "done"  -> p[2]

LEMMA HeldIff ==
  ASSUME NEW k, NEW p
  PROVE  p \in Held(k) <=>
           \/ \E j \in 1 .. Len(q) : p = <<"q", j>> /\ q[j].elem.hnd = k
           \/ \E j \in 1 .. Len(requests) : p = <<"mpi", j>> /\ requests[j].elem.hnd = k /\ ~ Handled(j)
           \/ \E j \in 1 .. Len(waiting_quiet[k]) : p = <<"quiet", j>>
           \/ \E e \in done : p = <<"done", e>> /\ e.hnd = k
<1>1. Held(k) = {<<"q", j>> : j \in {j \in 1 .. Len(q) : q[j].elem.hnd = k}} \union Rest(k)
      BY HeldSplits, Zenon
<1>2. p \in {<<"q", j>> : j \in {j \in 1 .. Len(q) : q[j].elem.hnd = k}}
      <=> \E j \in 1 .. Len(q) : p = <<"q", j>> /\ q[j].elem.hnd = k
      BY Zenon
<1> QED BY <1>1, <1>2, RestIff, Zenon

LEMMA QueuedElem == ASSUME TransportTypes, NEW j \in 1 .. Len(q) PROVE q[j].elem \in Elem
<1>1. q[j] \in Req
      BY SeqFacts, Zenon DEF TransportTypes
<1> QED BY <1>1, Zenon DEF Req

LEMMA RequestedElem == ASSUME TransportTypes, NEW j \in 1 .. Len(requests) PROVE requests[j].elem \in Elem
<1>1. requests[j] \in MpiReq
      BY SeqFacts, Zenon DEF TransportTypes
<1> QED BY <1>1, Zenon DEF MpiReq, Req

LEMMA ParkedElem ==
  ASSUME TransportTypes, NEW k \in Queue, NEW j \in 1 .. Len(waiting_quiet[k])
  PROVE  waiting_quiet[k][j] \in Elem /\ waiting_quiet[k][j].hnd = k /\ Quieting(waiting_quiet[k][j].cmd)
<1>1. waiting_quiet[k] \in Seq(Elem)
      BY Zenon DEF TransportTypes
<1> QED BY <1>1, SeqFacts, Zenon DEF TransportTypes

LEMMA PendingIff == ASSUME TransportTypes, NEW e PROVE e \in Pending <=> IsPending(e)
BY QueuedElem, RequestedElem, ParkedElem, Zenon DEF Pending, IsPending

\* A pending command is at a place of its queue, under its number.
LEMMA PendingPlace ==
  ASSUME TransportTypes, NEW e \in Pending
  PROVE  e.hnd \in Queue /\ \E p \in Held(e.hnd) :
           p[1] # "done" /\ NumberAt(e.hnd, p) = e.idx /\ ElemAt(e.hnd, p) = e
<1>1. e.hnd \in Queue
      BY Zenon DEF Pending, Elem
<1>2. CASE \E j \in 1 .. Len(q) : e = q[j].elem
  <2>1. PICK j \in 1 .. Len(q) : e = q[j].elem
        BY <1>2
  <2>2. <<"q", j>> \in Held(e.hnd) /\ <<"q", j>>[1] # "done"
        BY <2>1, HeldIff
  <2>4. NumberAt(e.hnd, <<"q", j>>) = e.idx /\ ElemAt(e.hnd, <<"q", j>>) = e
        BY <2>1, <2>2 DEF NumberAt, ElemAt
  <2> QED BY <1>1, <2>2, <2>4, Zenon
<1>3. CASE \E j \in 1 .. Len(requests) : e = requests[j].elem /\ ~ Handled(j)
  <2>1. PICK j \in 1 .. Len(requests) : e = requests[j].elem /\ ~ Handled(j)
        BY <1>3
  <2>2. <<"mpi", j>> \in Held(e.hnd) /\ <<"mpi", j>>[1] # "done"
        BY <2>1, HeldIff
  <2>4. NumberAt(e.hnd, <<"mpi", j>>) = e.idx /\ ElemAt(e.hnd, <<"mpi", j>>) = e
        BY <2>1, <2>2 DEF NumberAt, ElemAt
  <2> QED BY <1>1, <2>2, <2>4, Zenon
<1>4. CASE \E k \in Queue : \E j \in 1 .. Len(waiting_quiet[k]) : e = waiting_quiet[k][j]
  <2>0. PICK k \in Queue : \E j \in 1 .. Len(waiting_quiet[k]) : e = waiting_quiet[k][j]
        BY <1>4
  <2>1. PICK j \in 1 .. Len(waiting_quiet[k]) : e = waiting_quiet[k][j]
        BY <2>0
  <2>2. e.hnd = k
        BY <2>1, ParkedElem, Zenon
  <2>3. <<"quiet", j>> \in Held(e.hnd) /\ <<"quiet", j>>[1] # "done"
        BY <2>1, <2>2, HeldIff
  <2>4. NumberAt(e.hnd, <<"quiet", j>>) = e.idx /\ ElemAt(e.hnd, <<"quiet", j>>) = e
        BY <2>1, <2>2, <2>3 DEF NumberAt, ElemAt
  <2> QED BY <1>1, <2>3, <2>4, Zenon
<1> QED BY <1>2, <1>3, <1>4, Zenon DEF Pending, IsPending

LEMMA DonePlace ==
  ASSUME TransportTypes, NEW e \in done
  PROVE  e.hnd \in Queue /\ \E p \in Held(e.hnd) :
           p[1] = "done" /\ NumberAt(e.hnd, p) = e.idx /\ ElemAt(e.hnd, p) = e
<1>1. e.hnd \in Queue
      BY Zenon DEF TransportTypes, Elem
<1>2. <<"done", e>> \in Held(e.hnd) /\ <<"done", e>>[1] = "done"
      BY HeldIff
<1>3. NumberAt(e.hnd, <<"done", e>>) = e.idx /\ ElemAt(e.hnd, <<"done", e>>) = e
      BY DEF NumberAt, ElemAt
<1> QED BY <1>1, <1>2, <1>3, Zenon

\* A number of a queue is held by one command, which is pending or done.
LEMMA OneCommand ==
  ASSUME IInv
  PROVE  /\ \A d, e \in Pending \union done : d.hnd = e.hnd /\ d.idx = e.idx => d = e
         /\ Pending \cap done = {}
         /\ \A k \in Queue : \A i \in 0 .. issued[k] - 1 :
              \E e \in Pending \union done : e.hnd = k /\ e.idx = i
<1>1. TransportTypes /\ \A k \in Queue : Numbered(k)
      BY Zenon DEF IInv
<1>2. \A k \in Queue : \A p, r \in Held(k) : NumberAt(k, p) = NumberAt(k, r) => p = r
      BY <1>1, Zenon DEF Numbered, Enumerates, Number
<1>3. ASSUME NEW d \in Pending \union done, NEW e \in Pending \union done, d.hnd = e.hnd, d.idx = e.idx PROVE d = e
  <2>1. PICK p \in Held(d.hnd) : NumberAt(d.hnd, p) = d.idx /\ ElemAt(d.hnd, p) = d
        BY <1>1, PendingPlace, DonePlace, Zenon
  <2>2. e.hnd \in Queue /\ \E r \in Held(e.hnd) : NumberAt(e.hnd, r) = e.idx /\ ElemAt(e.hnd, r) = e
        BY <1>1, PendingPlace, DonePlace, Zenon
  <2> QED BY <1>2, <1>3, <2>1, <2>2, Zenon
<1>4. ASSUME NEW e \in Pending, e \in done PROVE FALSE
  <2>1. PICK p \in Held(e.hnd) : p[1] # "done" /\ NumberAt(e.hnd, p) = e.idx
        BY <1>1, PendingPlace, Zenon
  <2>2. e.hnd \in Queue /\ \E r \in Held(e.hnd) : r[1] = "done" /\ NumberAt(e.hnd, r) = e.idx
        BY <1>1, <1>4, DonePlace, Zenon
  <2> QED BY <1>2, <2>1, <2>2, Zenon
<1>5. ASSUME NEW k \in Queue, NEW i \in 0 .. issued[k] - 1
      PROVE  \E e \in Pending \union done : e.hnd = k /\ e.idx = i
  <2>1. PICK p \in Held(k) : NumberAt(k, p) = i
        BY <1>1, Zenon DEF Numbered, Enumerates, Number
  <2>2. CASE \E j \in 1 .. Len(q) : p = <<"q", j>> /\ q[j].elem.hnd = k
    <3>1. PICK j \in 1 .. Len(q) : p = <<"q", j>> /\ q[j].elem.hnd = k
          BY <2>2
    <3>2. q[j].elem \in Pending
          BY <1>1, <3>1, PendingIff, Zenon DEF IsPending
    <3>3. q[j].elem.idx = i
          BY <2>1, <3>1 DEF NumberAt, ElemAt
    <3> QED BY <3>1, <3>2, <3>3, Zenon
  <2>3. CASE \E j \in 1 .. Len(requests) : p = <<"mpi", j>> /\ requests[j].elem.hnd = k /\ ~ Handled(j)
    <3>1. PICK j \in 1 .. Len(requests) : p = <<"mpi", j>> /\ requests[j].elem.hnd = k /\ ~ Handled(j)
          BY <2>3
    <3>2. requests[j].elem \in Pending
          BY <1>1, <3>1, PendingIff, Zenon DEF IsPending
    <3>3. requests[j].elem.idx = i
          BY <2>1, <3>1 DEF NumberAt, ElemAt
    <3> QED BY <3>1, <3>2, <3>3, Zenon
  <2>4. CASE \E j \in 1 .. Len(waiting_quiet[k]) : p = <<"quiet", j>>
    <3>1. PICK j \in 1 .. Len(waiting_quiet[k]) : p = <<"quiet", j>>
          BY <2>4
    <3>2. waiting_quiet[k][j] \in Pending /\ waiting_quiet[k][j].hnd = k
          BY <1>1, PendingIff, ParkedElem, Zenon DEF IsPending
    <3>3. waiting_quiet[k][j].idx = i
          BY <2>1, <3>1 DEF NumberAt, ElemAt
    <3> QED BY <3>2, <3>3, Zenon
  <2>5. CASE \E e \in done : p = <<"done", e>> /\ e.hnd = k
    <3>1. PICK e \in done : p = <<"done", e>> /\ e.hnd = k
          BY <2>5
    <3>2. e.idx = i
          BY <2>1, <3>1 DEF NumberAt, ElemAt
    <3> QED BY <3>1, <3>2, Zenon
  <2> QED BY <2>1, <2>2, <2>3, <2>4, <2>5, HeldIff, Zenon
<1> QED BY <1>3, <1>4, <1>5, Zenon

\* What a step makes of the commands: those that cease to be pending are done,
\* and no other work-item than theirs is notified.
Moves ==
  /\ \A e : IsPending(e)' => IsPending(e)
  /\ \A e : IsPending(e) => IsPending(e)' \/ e \in done'
  /\ done \subseteq done' /\ \A e \in done' : e \in done \/ IsPending(e)
  /\ \A a \in Addr : status'[a] = 1 =>
       status[a] = 1 \/ \E e \in done' : IsPending(e) /\ ~ NonBlocking(e.cmd) /\ a = StatusAddr(e.hnd, e.tid)

LEMMA DispatchStatus ==
  ASSUME NEW r, Dispatch(r)
  PROVE  status' = status \/ (NotifyAll(r.queue, {r.elem.tid}) /\ ~ NonBlocking(r.elem.cmd) /\ r.elem \in done')
<1>1. CASE Atomic(r.elem.cmd)
  <2>1. ~ NonBlocking(r.elem.cmd) /\ ~ Quieting(r.elem.cmd)
        BY <1>1 DEF Atomic, NonBlocking, Quieting
  <2>2. DoAtomic(r)
        BY <1>1, <2>1, Zenon DEF Dispatch
  <2> QED BY <2>1, <2>2, Zenon DEF DoAtomic
<1>2. CASE ~ Atomic(r.elem.cmd) /\ Quieting(r.elem.cmd)
  <2>1. ~ NonBlocking(r.elem.cmd)
        BY <1>2 DEF Quieting, NonBlocking
  <2> QED BY <1>2, <2>1, Zenon DEF Dispatch, quiet
<1>3. CASE ~ Atomic(r.elem.cmd) /\ ~ Quieting(r.elem.cmd)
      BY <1>3, Zenon DEF Dispatch, StartMPI
<1> QED BY <1>1, <1>2, <1>3, Zenon

LEMMA TakesMoves ==
  ASSUME TransportTypes, ProgressInv, Takes, Dispatch(Head(q)) PROVE Moves
<1>1. PICK r \in Req, n \in Nat : r = Head(q) /\ n = Len(q)
      BY HeadOfQueue, Zenon DEF Takes
<1>2. /\ n # 0 /\ q[1] = r /\ Len(q') = n - 1 /\ \A j \in 1 .. n - 1 : q'[j] = q[j + 1]
      BY <1>1, HeadOfQueue, Zenon DEF Takes
<1>3. /\ r.queue \in Queue /\ r.elem \in Elem /\ r.queue = r.elem.hnd
      BY Zenon DEF Req
<1>4. \A j : ~ Handled(j) /\ ~ Handled(j)'
      BY Zenon DEF Takes, ProgressInv, Handled
<1>5. \A e : (\E j \in 1 .. n : e = q[j].elem) <=> e = r.elem \/ \E j \in 1 .. n - 1 : e = q'[j].elem
  <2>1. ASSUME NEW j \in 1 .. n PROVE q[j] = r \/ \E i \in 1 .. n - 1 : q[j] = q'[i]
    <3>1. CASE j = 1
          BY <1>2, <3>1, Zenon
    <3>2. CASE j # 1
      <4>1. j - 1 \in 1 .. n - 1 /\ (j - 1) + 1 = j
            BY <3>2
      <4> QED BY <1>2, <4>1, Zenon
    <3> QED BY <3>1, <3>2
  <2>2. ASSUME NEW j \in 1 .. n - 1 PROVE j + 1 \in 1 .. n /\ q'[j] = q[j + 1]
        BY <1>2
  <2>3. 1 \in 1 .. n
        BY <1>2
  <2>4. ASSUME NEW e, NEW j \in 1 .. n, e = q[j].elem
        PROVE  e = r.elem \/ \E i \in 1 .. n - 1 : e = q'[i].elem
    <3>1. CASE q[j] = r
          BY <2>4, <3>1, Zenon
    <3>2. CASE \E i \in 1 .. n - 1 : q[j] = q'[i]
          BY <2>4, <3>2, Zenon
    <3> QED BY <2>1, <3>1, <3>2, Zenon
  <2>5. ASSUME NEW e, NEW j \in 1 .. n - 1, e = q'[j].elem PROVE \E i \in 1 .. n : e = q[i].elem
        BY <2>2, <2>5, Zenon
  <2>6. \E i \in 1 .. n : r.elem = q[i].elem
        BY <1>2, <2>3, Zenon
  <2> QED BY <2>4, <2>5, <2>6, Zenon
<1>. DEFINE InQ(e) == \E j \in 1 .. Len(q) : e = q[j].elem
            InReq(e) == \E j \in 1 .. Len(requests) : e = requests[j].elem /\ ~ Handled(j)
            InQuiet(e) == \E k \in Queue : \E j \in 1 .. Len(waiting_quiet[k]) : e = waiting_quiet[k][j]
<1>a. ASSUME NEW e PROVE InQ(e) <=> e = r.elem \/ InQ(e)'
  <2>1. InQ(e) <=> \E j \in 1 .. n : e = q[j].elem
        BY <1>1, Zenon
  <2>2. InQ(e)' <=> \E j \in 1 .. n - 1 : e = q'[j].elem
        BY <1>2, Zenon
  <2> QED BY <1>5, <2>1, <2>2, Zenon
<1>b. \A e : /\ IsPending(e) <=> InQ(e) \/ InReq(e) \/ InQuiet(e)
             /\ IsPending(e)' <=> InQ(e)' \/ InReq(e)' \/ InQuiet(e)'
      BY Zenon DEF IsPending
<1>. HIDE DEF InQ, InReq, InQuiet
<1>6. IsPending(r.elem)
      BY <1>a, <1>b, Zenon
<1>7. \A a \in Addr : status'[a] = 1 =>
        status[a] = 1 \/ \E e \in done' : IsPending(e) /\ ~ NonBlocking(e.cmd) /\ a = StatusAddr(e.hnd, e.tid)
  <2> SUFFICES ASSUME NEW a \in Addr, status'[a] = 1, status[a] # 1
               PROVE  \E e \in done' : IsPending(e) /\ ~ NonBlocking(e.cmd) /\ a = StatusAddr(e.hnd, e.tid)
      BY Zenon
  <2>1. NotifyAll(r.queue, {r.elem.tid}) /\ ~ NonBlocking(r.elem.cmd) /\ r.elem \in done'
        BY <1>1, DispatchStatus, Zenon
  <2>2. a = StatusAddr(r.elem.hnd, r.elem.tid)
        BY <1>3, <2>1, Zenon DEF NotifyAll
  <2> QED BY <1>6, <2>1, <2>2, Zenon
<1>8. CASE Finishes(r)
  <2>1. /\ requests' = requests /\ waiting_quiet' = waiting_quiet /\ done' = done \union {r.elem}
        BY <1>8, Zenon DEF Finishes
  <2>2. \A e : IsPending(e) <=> IsPending(e)' \/ e = r.elem
    <3>1. \A e : (InReq(e)' <=> InReq(e)) /\ (InQuiet(e)' <=> InQuiet(e))
          BY <1>4, <2>1, Zenon DEF InReq, InQuiet
    <3> QED BY <1>a, <1>b, <3>1, Zenon
  <2> QED BY <1>6, <1>7, <2>1, <2>2, Zenon DEF Moves
<1>9. CASE Parks(r)
  <2>1. /\ requests' = requests /\ done' = done
        /\ waiting_quiet' = [waiting_quiet EXCEPT ![r.queue] = Append(@, r.elem)]
        /\ waiting_quiet \in [Queue -> Seq(Elem)]
        BY <1>9, Zenon DEF Parks, TransportTypes
  <2>2. PICK k \in Queue, w \in Seq(Elem), m \in Nat : k = r.queue /\ w = waiting_quiet[k] /\ m = Len(w)
        BY <1>3, <2>1, SeqFacts, Zenon
  <2>3. /\ waiting_quiet'[k] = Append(w, r.elem) /\ \A i \in Queue : i # k => waiting_quiet'[i] = waiting_quiet[i]
        BY <2>1, <2>2, Zenon
  <2>4. /\ Len(waiting_quiet'[k]) = m + 1 /\ waiting_quiet'[k][m + 1] = r.elem
        /\ \A j \in 1 .. m : waiting_quiet'[k][j] = w[j]
    <3>1. /\ Len(Append(w, r.elem)) = Len(w) + 1 /\ Append(w, r.elem)[Len(w) + 1] = r.elem
          /\ \A j \in 1 .. Len(w) : Append(w, r.elem)[j] = w[j]
          BY <1>3
    <3> QED BY <2>2, <2>3, <3>1, Zenon
  <2>5. 1 .. m + 1 = (1 .. m) \union {m + 1}
        OBVIOUS
  <2>6. \A e : (\E j \in 1 .. Len(waiting_quiet'[k]) : e = waiting_quiet'[k][j])
               <=> e = r.elem \/ \E j \in 1 .. m : e = w[j]
        BY <2>4, <2>5, Zenon
  <2>7. \A e : (\E i \in Queue : \E j \in 1 .. Len(waiting_quiet'[i]) : e = waiting_quiet'[i][j])
               <=> e = r.elem \/ \E i \in Queue : \E j \in 1 .. Len(waiting_quiet[i]) : e = waiting_quiet[i][j]
    <3> SUFFICES ASSUME NEW e
                 PROVE (\E i \in Queue : \E j \in 1 .. Len(waiting_quiet'[i]) : e = waiting_quiet'[i][j])
                   <=> e = r.elem \/ \E i \in Queue : \E j \in 1 .. Len(waiting_quiet[i]) : e = waiting_quiet[i][j]
        OBVIOUS
    <3>1. ASSUME NEW i \in Queue
          PROVE  (\E j \in 1 .. Len(waiting_quiet'[i]) : e = waiting_quiet'[i][j])
                 <=> (e = r.elem /\ i = k) \/ \E j \in 1 .. Len(waiting_quiet[i]) : e = waiting_quiet[i][j]
      <4>1. CASE i = k
        <5>1. (\E j \in 1 .. m : e = w[j]) <=> \E j \in 1 .. Len(waiting_quiet[k]) : e = waiting_quiet[k][j]
              BY <2>2, Zenon
        <5> QED BY <2>6, <4>1, <5>1, Zenon
      <4>2. CASE i # k
            BY <2>3, <4>2, Zenon
      <4> QED BY <4>1, <4>2
    <3> QED BY <3>1, Zenon
  <2>8. \A e : IsPending(e) <=> IsPending(e)'
    <3>1. \A e : InReq(e)' <=> InReq(e)
          BY <1>4, <2>1, Zenon DEF InReq
    <3>2. \A e : InQuiet(e)' <=> e = r.elem \/ InQuiet(e)
          BY <2>7, Zenon DEF InQuiet
    <3> QED BY <1>a, <1>b, <3>1, <3>2, Zenon
  <2> QED BY <1>7, <2>1, <2>8, Zenon DEF Moves
<1>10. CASE Starts(r)
  <2>1. /\ requests' = Append(requests, r) /\ waiting_quiet' = waiting_quiet /\ done' = done
        /\ ~ Quieting(r.elem.cmd) /\ requests \in Seq(MpiReq) /\ r \in MpiReq
        BY <1>10, Zenon DEF Starts, TransportTypes, MpiReq
  <2>2. PICK m \in Nat : m = Len(requests)
        BY <2>1, SeqFacts, Zenon
  <2>3. /\ Len(requests') = m + 1 /\ requests'[m + 1] = r /\ \A j \in 1 .. m : requests'[j] = requests[j]
    <3>1. /\ Len(Append(requests, r)) = Len(requests) + 1 /\ Append(requests, r)[Len(requests) + 1] = r
          /\ \A j \in 1 .. Len(requests) : Append(requests, r)[j] = requests[j]
          BY <2>1
    <3> QED BY <2>1, <2>2, <3>1, Zenon
  <2>4. 1 .. m + 1 = (1 .. m) \union {m + 1}
        OBVIOUS
  <2>5. \A e : (\E j \in 1 .. Len(requests') : e = requests'[j].elem /\ ~ Handled(j)')
               <=> e = r.elem \/ \E j \in 1 .. m : e = requests[j].elem /\ ~ Handled(j)
        BY <1>4, <2>3, <2>4, Zenon
  <2>6. \A e : IsPending(e) <=> IsPending(e)'
    <3>1. \A e : InReq(e)' <=> e = r.elem \/ InReq(e)
          BY <2>2, <2>5, Zenon DEF InReq
    <3>2. \A e : InQuiet(e)' <=> InQuiet(e)
          BY <2>1, Zenon DEF InQuiet
    <3> QED BY <1>a, <1>b, <3>1, <3>2, Zenon
  <2> QED BY <1>7, <2>1, <2>6, Zenon DEF Moves
<1> QED BY <1>1, <1>8, <1>9, <1>10, Zenon DEF Takes

LEMMA HandlesMoves ==
  ASSUME TransportTypes, ProgressInv, NEW i \in unhandled, HandleCompletion(i) PROVE Moves
<1>1. PICK r \in MpiReq : r = requests[i]
      BY SeqFacts, Zenon DEF TransportTypes, ProgressInv
<1>2. PICK n \in Queue : n = r.queue /\ n = r.elem.hnd /\ r.elem \in Elem
      BY Zenon DEF MpiReq, Req
<1>3. PICK tell : tell = {e \in {r.elem} : ~ NonBlocking(e.cmd)} \union Woken(n)
      BY Zenon
<1>4. /\ waiting_quiet' = [waiting_quiet EXCEPT ![n] = Parked(n)]
      /\ NotifyAll(n, {e.tid : e \in tell})
      /\ done' = done \union {r.elem} \union Woken(n)
      /\ unhandled' = unhandled \ {i} /\ completed' = completed
      /\ requests' = requests /\ q' = q
      BY <1>1, <1>2, <1>3, Zenon DEF HandleCompletion
<1>5. /\ i \in 1 .. Len(requests) /\ ~ Handled(i)
      /\ \A j : Handled(j)' <=> Handled(j) \/ j = i
      BY <1>4, Zenon DEF ProgressInv, Handled
<1>6. /\ waiting_quiet'[n] = Parked(n) /\ \A k \in Queue : k # n => waiting_quiet'[k] = waiting_quiet[k]
      BY <1>4, Zenon DEF TransportTypes
<1>7. \A e \in Woken(n) : \E j \in 1 .. Len(waiting_quiet[n]) : e = waiting_quiet[n][j]
  <2>1. waiting_quiet[n] \in Seq(Elem)
        BY Zenon DEF TransportTypes
  <2> QED BY <2>1, SeqFacts, Zenon DEF Woken, Range
<1>8. \A j \in 1 .. Len(waiting_quiet[n]) : waiting_quiet[n][j] \in Woken(n) \/ waiting_quiet'[n] = waiting_quiet[n]
  <2>1. waiting_quiet[n] \in Seq(Elem)
        BY Zenon DEF TransportTypes
  <2> QED BY <1>6, <2>1, SeqFacts, Zenon DEF Woken, Parked, Range
<1>9. waiting_quiet'[n] = <<>> \/ waiting_quiet'[n] = waiting_quiet[n]
      BY <1>6, Zenon DEF Parked
<1>10. \A j \in 1 .. Len(<<>>) : FALSE
      BY EmptyFacts
<1>11. \A e : IsPending(e)' => IsPending(e)
  <2> SUFFICES ASSUME NEW e, IsPending(e)' PROVE IsPending(e)
      OBVIOUS
  <2>1. CASE \E j \in 1 .. Len(q') : e = q'[j].elem
        BY <1>4, <2>1, Zenon DEF IsPending
  <2>2. CASE \E j \in 1 .. Len(requests') : e = requests'[j].elem /\ ~ Handled(j)'
        BY <1>4, <1>5, <2>2, Zenon DEF IsPending
  <2>3. CASE \E k \in Queue : \E j \in 1 .. Len(waiting_quiet'[k]) : e = waiting_quiet'[k][j]
    <3>1. PICK k \in Queue : \E j \in 1 .. Len(waiting_quiet'[k]) : e = waiting_quiet'[k][j]
          BY <2>3, Zenon
    <3>2. waiting_quiet'[k] = waiting_quiet[k]
      <4>1. CASE k = n
        <5>1. waiting_quiet'[n] # <<>>
              BY <1>10, <3>1, <4>1, Zenon
        <5> QED BY <1>9, <4>1, <5>1, Zenon
      <4>2. CASE k # n
            BY <1>6, <4>2, Zenon
      <4> QED BY <4>1, <4>2
    <3> QED BY <3>1, <3>2, Zenon DEF IsPending
  <2> QED BY <2>1, <2>2, <2>3, Zenon DEF IsPending
<1>12. \A e : IsPending(e) => IsPending(e)' \/ e \in done'
  <2> SUFFICES ASSUME NEW e, IsPending(e) PROVE IsPending(e)' \/ e \in done'
      OBVIOUS
  <2>1. CASE \E j \in 1 .. Len(q) : e = q[j].elem
        BY <1>4, <2>1, Zenon DEF IsPending
  <2>2. CASE \E j \in 1 .. Len(requests) : e = requests[j].elem /\ ~ Handled(j)
        BY <1>1, <1>4, <1>5, <2>2, Zenon DEF IsPending
  <2>3. CASE \E k \in Queue : \E j \in 1 .. Len(waiting_quiet[k]) : e = waiting_quiet[k][j]
    <3>1. PICK k \in Queue : \E j \in 1 .. Len(waiting_quiet[k]) : e = waiting_quiet[k][j]
          BY <2>3, Zenon
    <3>2. PICK j \in 1 .. Len(waiting_quiet[k]) : e = waiting_quiet[k][j]
          BY <3>1, Zenon
    <3>3. CASE waiting_quiet'[k] = waiting_quiet[k]
          BY <3>1, <3>3, Zenon DEF IsPending
    <3>4. CASE waiting_quiet'[k] # waiting_quiet[k]
      <4>1. k = n
            BY <1>6, <3>4, Zenon
      <4>2. e \in Woken(n)
            BY <1>8, <3>2, <3>4, <4>1, Zenon
      <4> QED BY <1>4, <4>2, Zenon
    <3> QED BY <3>3, <3>4
  <2> QED BY <2>1, <2>2, <2>3, Zenon DEF IsPending
<1>13. IsPending(r.elem) /\ \A e \in Woken(n) : IsPending(e)
      BY <1>1, <1>5, <1>7, Zenon DEF IsPending
<1>14. \A e \in tell : e \in done' /\ IsPending(e) /\ e.hnd = n /\ ~ NonBlocking(e.cmd)
  <2>1. ASSUME NEW e \in Woken(n) PROVE e.hnd = n /\ Quieting(e.cmd)
    <3>1. PICK j \in 1 .. Len(waiting_quiet[n]) : e = waiting_quiet[n][j]
          BY <1>7, Zenon
    <3> QED BY <3>1, ParkedElem, Zenon
  <2>2. \A e : Quieting(e.cmd) => ~ NonBlocking(e.cmd)
        BY DEF Quieting, NonBlocking
  <2> QED BY <1>2, <1>3, <1>4, <1>13, <2>1, <2>2, Zenon
<1>15. \A a \in Addr : status'[a] = 1 =>
         status[a] = 1 \/ \E e \in done' : IsPending(e) /\ ~ NonBlocking(e.cmd) /\ a = StatusAddr(e.hnd, e.tid)
      BY <1>4, <1>14, Zenon DEF NotifyAll
<1> QED BY <1>4, <1>11, <1>12, <1>13, <1>15, Zenon DEF Moves

LEMMA EraseKeepsPending ==
  ASSUME TransportTypes, ProgressInv, NEW i \in completed, Erase(i) PROVE Moves
<1>1. PICK n \in Nat : n = Len(requests) /\ i \in 1 .. n /\ Len(requests') = n - 1
      BY EraseMoves, Zenon
<1>2. /\ \A j \in 1 .. i - 1 : requests'[j] = requests[j] /\ (Handled(j)' <=> Handled(j))
      /\ \A j \in i .. n - 1 : requests'[j] = requests[j + 1]
      /\ \A j : j \in i .. n - 1 => ~ Handled(j)' /\ ~ Handled(j + 1)
      /\ Handled(i)
      BY <1>1, EraseMoves, Zenon
<1>3. q' = q /\ waiting_quiet' = waiting_quiet /\ done' = done /\ status' = status
      BY Zenon DEF Erase
<1>4. ASSUME NEW j \in 1 .. n - 1
      PROVE  \E m \in 1 .. n : requests'[j] = requests[m] /\ (Handled(j)' <=> Handled(m))
  <2>1. CASE j \in 1 .. i - 1
    <3>1. j \in 1 .. n
          BY <1>1
    <3> QED BY <1>2, <2>1, <3>1, Zenon
  <2>2. CASE j \in i .. n - 1
    <3>1. j + 1 \in 1 .. n
          BY <1>1
    <3> QED BY <1>2, <2>2, <3>1, Zenon
  <2>3. j \in 1 .. i - 1 \/ j \in i .. n - 1
        BY <1>1
  <2> QED BY <2>1, <2>2, <2>3
<1>5. ASSUME NEW m \in 1 .. n, ~ Handled(m)
      PROVE  \E j \in 1 .. n - 1 : requests'[j] = requests[m] /\ ~ Handled(j)'
  <2>1. CASE m \in 1 .. i - 1
    <3>1. m \in 1 .. n - 1
          BY <1>1, <2>1
    <3> QED BY <1>2, <1>5, <2>1, <3>1, Zenon
  <2>2. CASE m - 1 \in i .. n - 1
    <3>1. m - 1 \in 1 .. n - 1 /\ (m - 1) + 1 = m
          BY <1>1, <2>2
    <3> QED BY <1>2, <2>2, <3>1, Zenon
  <2>3. m = i \/ m \in 1 .. i - 1 \/ m - 1 \in i .. n - 1
        BY <1>1
  <2> QED BY <1>2, <1>5, <2>1, <2>2, <2>3, Zenon
<1>6. \A e : (\E j \in 1 .. Len(requests') : e = requests'[j].elem /\ ~ Handled(j)')
             <=> \E j \in 1 .. Len(requests) : e = requests[j].elem /\ ~ Handled(j)
      BY <1>1, <1>4, <1>5, Zenon
<1>7. \A e : IsPending(e)' <=> IsPending(e)
      BY <1>3, <1>6, Zenon DEF IsPending
<1> QED BY <1>3, <1>7, Zenon DEF Moves

\* Every step of the progress thread.
LEMMA EngineMoves == ASSUME IInv, Engine, issued' = issued PROVE Moves
<1>0. TransportTypes /\ ProgressInv /\ CountInv
      BY Zenon DEF IInv
<1>1. CASE submitRequestsToMPI /\ q # <<>>
  <2>1. Takes /\ Dispatch(Head(q))
        BY <1>1, DispatchCases, Zenon DEF submitRequestsToMPI, Takes
  <2> QED BY <1>0, <2>1, TakesMoves, Zenon
<1>2. CASE (submitRequestsToMPI /\ q = <<>>) \/ Testsome
  <2>1. UNCHANGED <<q, requests, waiting_quiet, done, status>>
        BY <1>2, Zenon DEF submitRequestsToMPI, Testsome
  <2>2. \A j : Handled(j)' <=> Handled(j)
        BY <1>0, <1>2, TestsomeKeeps, Zenon DEF submitRequestsToMPI, Handled
  <2>3. \A e : IsPending(e)' <=> IsPending(e)
        BY <2>1, <2>2, Zenon DEF IsPending
  <2> QED BY <2>1, <2>3, Zenon DEF Moves
<1>3. CASE \E i \in unhandled : HandleCompletion(i)
      BY <1>0, <1>3, HandlesMoves, Zenon
<1>4. CASE \E i \in completed : Erase(i)
      BY <1>0, <1>4, EraseKeepsPending, Zenon
<1> QED BY <1>1, <1>2, <1>3, <1>4, Zenon DEF Engine

\* The list q and the bytes of every step of the progress thread.
LEMMA EngineOutputs ==
  ASSUME Engine, status \in [Addr -> {0, 1}]
  PROVE  /\ q' = q \/ (q # <<>> /\ q' = Tail(q))
         /\ status' \in [Addr -> {0, 1}]
<1>1. ASSUME NEW k, NEW tids, NotifyAll(k, tids) PROVE status' \in [Addr -> {0, 1}]
      BY <1>1, Zenon DEF NotifyAll
<1>2. CASE submitRequestsToMPI
  <2>1. CASE q = <<>>
        BY <1>2, <2>1, Zenon DEF submitRequestsToMPI
  <2>2. CASE q # <<>>
    <3>1. q' = Tail(q) /\ Dispatch(Head(q))
          BY <1>2, <2>2, Zenon DEF submitRequestsToMPI
    <3> QED BY <1>1, <2>2, <3>1, DispatchStatus, Zenon
  <2> QED BY <2>1, <2>2
<1>3. CASE Testsome
      BY <1>3, Zenon DEF Testsome
<1>4. CASE \E i \in unhandled : HandleCompletion(i)
      BY <1>1, <1>4, Zenon DEF HandleCompletion
<1>5. CASE \E i \in completed : Erase(i)
      BY <1>5, Zenon DEF Erase
<1> QED BY <1>2, <1>3, <1>4, <1>5, Zenon DEF Engine

\* No command is pending and finished at once.
LEMMA PendingNotDone == IInv => Pending \cap done = {}
BY OneCommand, Zenon

\* EngineMoves for the set of the pending commands: those that leave it are
\* finished, and the bytes that are set are theirs.
LEMMA EnginePending ==
  ASSUME IInv, Engine, issued' = issued
  PROVE  /\ Pending' \subseteq Pending
         /\ Pending' \union done' = Pending \union done
         /\ \A a \in Addr : status'[a] = 1 =>
              status[a] = 1 \/ \E e \in Pending \ Pending' :
                                  ~ NonBlocking(e.cmd) /\ a = StatusAddr(e.hnd, e.tid)
<1>1. Moves
      BY EngineMoves, Zenon
<1>2. IInv'
      BY EngineKeeps, Zenon
<1>3. (Pending \cap done = {})'
      BY <1>2, PendingNotDone, PTL
<1>4. \A e : e \in Pending <=> IsPending(e)
      BY PendingIff, Zenon DEF IInv
<1>5. \A e : e \in Pending' <=> e \in Pending /\ IsPending(e)'
  <2>1. \A e : e \in Pending' <=> e \in Elem /\ IsPending(e)'
        BY Zenon DEF Pending
  <2>2. \A e \in Pending : e \in Elem
        BY Zenon DEF Pending
  <2>3. \A e : IsPending(e)' => IsPending(e)
        BY <1>1, Zenon DEF Moves
  <2> QED BY <1>4, <2>1, <2>2, <2>3, Zenon
<1>6. Pending' \subseteq Pending
      BY <1>5, Zenon
<1>7. Pending' \union done' = Pending \union done
      BY <1>1, <1>4, <1>5, Zenon DEF Moves
<1>8. ASSUME NEW a \in Addr, status'[a] = 1
      PROVE  status[a] = 1 \/ \E e \in Pending \ Pending' : ~ NonBlocking(e.cmd) /\ a = StatusAddr(e.hnd, e.tid)
  <2> SUFFICES ASSUME status[a] # 1
               PROVE  \E e \in Pending \ Pending' : ~ NonBlocking(e.cmd) /\ a = StatusAddr(e.hnd, e.tid)
      OBVIOUS
  <2>1. PICK e \in done' : IsPending(e) /\ ~ NonBlocking(e.cmd) /\ a = StatusAddr(e.hnd, e.tid)
        BY <1>1, <1>8, Zenon DEF Moves
  <2>2. e \in Pending \ Pending'
        BY <1>3, <1>4, <2>1, Zenon
  <2> QED BY <2>1, <2>2, Zenon
<1> QED BY <1>6, <1>7, <1>8, Zenon

\* insertRequest makes one more command pending.
LEMMA AcceptPending ==
  ASSUME TransportTypes, NEW n \in Queue, NEW e \in Elem, Accepts(n, e) PROVE Pending' = Pending \union {e}
<1>1. PICK r : r = [elem |-> e, queue |-> n]
      BY Zenon
<1>2. /\ q' = Append(q, r) /\ UNCHANGED <<requests, waiting_quiet, completed, unhandled>>
      BY <1>1, Zenon DEF Accepts, engineVars
<1>3. r.elem = e /\ q \in Seq(Req)
      BY <1>1, Zenon DEF TransportTypes
<1>4. PICK m \in Nat : m = Len(q)
      BY <1>3, SeqFacts, Zenon
<1>5. /\ Len(q') = m + 1 /\ q'[m + 1] = r /\ \A j \in 1 .. m : q'[j] = q[j]
  <2>1. r \in Req
        BY <1>1 DEF Accepts, Req
  <2> QED BY <1>2, <1>3, <1>4, <2>1
<1>6. 1 .. m + 1 = 1 .. m \union {m + 1}
      OBVIOUS
<1>7. ASSUME NEW d PROVE IsPending(d)' <=> IsPending(d) \/ d = e
  <2>1. (\E j \in 1 .. Len(q') : d = q'[j].elem) <=> d = e \/ \E j \in 1 .. Len(q) : d = q[j].elem
        BY <1>3, <1>4, <1>5, <1>6, Zenon
  <2>2. \A j : Handled(j)' <=> Handled(j)
        BY <1>2, Zenon DEF Handled
  <2>3. /\ (\E j \in 1 .. Len(requests') : d = requests'[j].elem /\ ~ Handled(j)')
           <=> \E j \in 1 .. Len(requests) : d = requests[j].elem /\ ~ Handled(j)
        /\ waiting_quiet' = waiting_quiet
        BY <1>2, <2>2, Zenon
  <2> QED BY <2>1, <2>3, Zenon DEF IsPending
<1> QED BY <1>7, Zenon DEF Pending

-----------------------------------------------------------------------------
(***************************************************************************)
(* Theorems.                                                               *)
(***************************************************************************)
LEMMA AlwaysIInv == Spec => []IInv
<1>1. Init => IInv
      BY InitIInv, Zenon DEF Init
<1> QED BY <1>1, NextIInv, PTL DEF Spec

\* No wake-up of a quiet is lost: the counter outstanding that parks and wakes
\* the quiets of a queue in mpi_transport.cpp is the number of its requests that
\* progress has yet to handle, so a parked quiet always has one to wait for.
THEOREM ParkedQuietWakes == Spec => []QuietHasReason
<1>1. ASSUME IInv PROVE QuietHasReason
  <2> SUFFICES ASSUME NEW k \in Queue, waiting_quiet[k] # <<>>
               PROVE  \E i \in DOMAIN requests : requests[i].queue = k /\ ~ Handled(i)
      BY Zenon DEF QuietHasReason
  <2>1. DOMAIN requests = 1 .. Len(requests) /\ outstanding[k] \in Nat /\ outstanding[k] # 0
        BY <1>1, SeqFacts, Zenon DEF IInv, CountInv, TransportTypes
  <2>2. PICK i : i \in InFlight(k)
    <3>1. PICK f : Enumerates(f, InFlight(k), outstanding[k])
          BY <1>1, Zenon DEF IInv, CountInv
    <3> QED BY <2>1, <3>1 DEF Enumerates
  <2> QED BY <2>1, <2>2, Zenon DEF InFlight
<1> QED BY <1>1, AlwaysIInv, PTL

\* A quiet, fence or finalize completes only after every command its queue
\* submitted before it, however MPI_Testsome orders the completions.
THEOREM QuietIsLast == Spec => []QuietMeansDone
<1>1. IInv => QuietMeansDone
      BY Zenon DEF IInv
<1> QED BY <1>1, AlwaysIInv, PTL

\* The commands with number i of queue k are at the places with that number.
LEMMA PlacesNumbered ==
  ASSUME TransportTypes, NEW k \in Queue, NEW i
  PROVE  Places(k, i) = {p \in Held(k) : NumberAt(k, p) = i}
<1>1. /\ DOMAIN q = 1 .. Len(q) /\ DOMAIN requests = 1 .. Len(requests)
      /\ DOMAIN waiting_quiet[k] = 1 .. Len(waiting_quiet[k])
      /\ \A j \in 1 .. Len(waiting_quiet[k]) : waiting_quiet[k][j].hnd = k
      BY SeqFacts, Zenon DEF TransportTypes
<1>2. ASSUME NEW p \in Places(k, i) PROVE p \in Held(k) /\ NumberAt(k, p) = i
  <2>1. CASE \E j \in 1 .. Len(q) : p = <<"q", j>> /\ q[j].elem.hnd = k /\ q[j].elem.idx = i
        BY <2>1 DEF Held, NumberAt
  <2>2. CASE \E j \in 1 .. Len(requests) : /\ p = <<"mpi", j>> /\ requests[j].elem.hnd = k
                                           /\ requests[j].elem.idx = i /\ ~ Handled(j)
        BY <2>2 DEF Held, NumberAt
  <2>3. CASE \E j \in 1 .. Len(waiting_quiet[k]) : p = <<"quiet", j>> /\ waiting_quiet[k][j].idx = i
        BY <2>3 DEF Held, NumberAt
  <2>4. CASE \E e \in done : p = <<"done", e>> /\ e.hnd = k /\ e.idx = i
        BY <2>4 DEF Held, NumberAt
  <2> QED BY <1>1, <2>1, <2>2, <2>3, <2>4, Zenon DEF Places
<1>3. ASSUME NEW p \in Held(k), NumberAt(k, p) = i PROVE p \in Places(k, i)
  <2>1. CASE \E j \in 1 .. Len(q) : p = <<"q", j>> /\ q[j].elem.hnd = k
        BY <1>1, <1>3, <2>1 DEF Places, NumberAt
  <2>2. CASE \E j \in 1 .. Len(requests) : /\ p = <<"mpi", j>> /\ requests[j].elem.hnd = k /\ ~ Handled(j)
        BY <1>1, <1>3, <2>2 DEF Places, NumberAt
  <2>3. CASE \E j \in 1 .. Len(waiting_quiet[k]) : p = <<"quiet", j>>
        BY <1>1, <1>3, <2>3 DEF Places, NumberAt
  <2>4. CASE \E e \in done : p = <<"done", e>> /\ e.hnd = k
        BY <1>3, <2>4 DEF Places, NumberAt
  <2> QED BY <2>1, <2>2, <2>3, <2>4, Zenon DEF Held
<1> QED BY <1>2, <1>3, Zenon

\* Every command is in exactly one place from issue to completion: taking it
\* from q, completing it out of order and erasing requests by index from the
\* largest down (mpi_transport.cpp) lose no command and finish none twice.
THEOREM RequestsAccounted == Spec => []EveryRequestAccounted
<1>1. ASSUME IInv PROVE EveryRequestAccounted
  <2> SUFFICES ASSUME NEW k \in Queue, NEW i \in 0 .. issued[k] - 1
               PROVE  \E p \in Places(k, i) : Places(k, i) = {p}
      BY Zenon DEF EveryRequestAccounted
  <2>1. \A p \in Held(k) : Number(k)[p] = NumberAt(k, p)
        BY Zenon DEF Number
  <2>2. PICK p \in Held(k) : NumberAt(k, p) = i
        BY <1>1, <2>1 DEF IInv, Numbered, Enumerates
  <2>3. \A r \in Held(k) : NumberAt(k, r) = i => r = p
        BY <1>1, <2>1, <2>2, Zenon DEF IInv, Numbered, Enumerates
  <2>4. Places(k, i) = {p}
        BY <1>1, <2>2, <2>3, PlacesNumbered DEF IInv
  <2> QED BY <2>4, Zenon
<1> QED BY <1>1, AlwaysIInv, PTL
=============================================================================
