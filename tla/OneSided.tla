------------------------------ MODULE OneSided ------------------------------
(***************************************************************************)
(* Processing elements that run straight-line programs over one-sided      *)
(* memory.  A program stands for the calls one work-group makes: every     *)
(* function of a backend is an operator (modules IpcPrograms, IbPrograms,  *)
(* RoPrograms, DeviceApi and HostApi) that yields the instructions its     *)
(* body performs, and this module says what an instruction does.           *)
(*                                                                         *)
(* A store to another PE takes effect some time after it was issued.       *)
(*   "ipc": the work-items read the source at once and store into the      *)
(*          memory of the other PE; nothing orders the stores until a      *)
(*          fence or an atomic of the system scope.                        *)
(*   "ib" : the operation is a work request of the queue pair to that PE;  *)
(*          the network card performs the requests of a queue pair in the  *)
(*          order they were posted and reads the source when it does so.   *)
(*   "mpi": a command of the queue; the progress thread handles them in    *)
(*          order and flushes its puts, so only a get is left behind; the  *)
(*          puts of one handler are performed in any order.                *)
(*   "host": MPI's one-sided operations called by the host: in any order;  *)
(*          a blocking put has read its source when it returns.            *)
(***************************************************************************)
EXTENDS Instructions

LOCAL INSTANCE Bitwise

CONSTANTS
  num_pes,   \* number of PEs
  Scripts,   \* names of the scripts: one is chosen when the program starts
  Net,       \* Net[s]: the network of script s
  Code,      \* Code[s][p]: the instructions PE p performs in script s, the last is End
  Memory     \* Memory[s]: the arrays of every PE when script s starts

VARIABLES
  script,    \* the script that runs
  pc,        \* pc[p]: the instruction PE p performs next
  mem,       \* mem[p][a][i]: entry i of array a in the memory of p
  flight,    \* flight[p]: operations p has issued and that have no effect yet
  met        \* met[g][p]: the values p brought to each meeting of group g

vars == <<script, pc, mem, flight, met>>

PE == 0 .. num_pes - 1

-----------------------------------------------------------------------------
Read(m, p, a, map) == [k \in DOMAIN map |-> m[p][a][map[k]]]
Write(m, p, a, vals) == [m EXCEPT ![p][a] = vals @@ @]

\* v as a signed integer of w bits.
Signed(v, w) == ((v + 2^(w - 1)) % 2^w) - 2^(w - 1)

Compare(x, cmp, v) ==
  CASE cmp = "EQ" -> x = v
    [] cmp = "NE" -> x # v
    [] cmp = "GT" -> x > v
    [] cmp = "GE" -> x >= v
    [] cmp = "LT" -> x < v
    [] cmp = "LE" -> x <= v

\* Memory m after PE p has performed operation o.
Perform(m, p, o) ==
  CASE o.op \in {"put", "rput"} -> Write(m, o.pe, o.to, Read(m, p, o.from, o.map))
    [] o.op = "get"    -> Write(m, p, o.to, Read(m, o.pe, o.from, o.map))
    [] o.op = "store"  -> Write(m, o.pe, o.to, o.vals)
    [] o.op = "add"    -> Write(m, o.pe, o.to, [k \in DOMAIN o.map |-> m[o.pe][o.to][k] + o.v])
    [] o.op = "reduce" -> Write(m, p, o.to,
                            [k \in DOMAIN o.map |-> m[p][o.to][k] + m[p][o.from][o.map[k]]])
    [] o.op = "cas"    -> Write(m, o.pe, o.to, [k \in DOMAIN o.map |->
                            IF m[o.pe][o.to][k] = o.cond THEN o.v ELSE m[o.pe][o.to][k]])
    [] o.op = "test"   -> Write(m, p, "ret",
                            0 :> IF Compare(m[p][o.at][o.i], o.cmp, o.v) THEN 1 ELSE 0)
    [] o.op = "load"   -> Write(m, p, "ret", 0 :> m[p][o.at][o.i])
    [] o.op = "return" -> Write(m, p, "ret", 0 :> o.v)
    [] o.op = "narrow" -> Write(m, p, "ret", 0 :> Signed(m[p]["ret"][0], o.width))

\* What is in flight once PE p has issued o: the work-items of the "ipc"
\* network, and a blocking put of the host, have read the source already.
InFlight(p, o) ==
  IF Net[script] \in {"ipc", "host"} /\ o.op = "put"
  THEN Store(o.pe, o.to, Read(mem, p, o.from, o.map))
  ELSE o

Written(o) == IF o.op = "store" THEN DOMAIN o.vals ELSE DOMAIN o.map

\* Operation b may not overtake a.
Ordered(a, b) ==
  CASE Net[script] = "ib"  -> a.pe = b.pe
    [] Net[script] = "mpi" -> a.op \in {"put", "store"}
    [] Net[script] = "host" -> FALSE
    [] Net[script] = "ipc" -> a.pe = b.pe /\ a.to = b.to /\ Written(a) \cap Written(b) # {}

-----------------------------------------------------------------------------
Init ==
  /\ script \in Scripts
  /\ pc = [p \in PE |-> 1]
  /\ mem = [p \in PE |-> Memory[script]]
  /\ flight = [p \in PE |-> <<>>]
  /\ met = [g \in {} |-> <<>>]

Advance(p) == pc' = [pc EXCEPT ![p] = @ + 1]

(***************************************************************************)
(* PE p can perform instruction c: the flag it waits for is up; what it    *)
(* issued to these PEs has taken effect; all members have joined the       *)
(* collective.                                                             *)
(***************************************************************************)
Ready(p, c) ==
  CASE c.do = "wait"  -> Compare(mem[p][c.at][c.i], c.cmp, c.v)
    [] c.do = "drain" -> \A k \in DOMAIN flight[p] :
                           \/ flight[p][k].pe \notin c.pes
                           \/ flight[p][k].op = "get" /\ ~c.gets
    [] c.do = "take"  -> \A q \in c.members : Len(met[c.group][q]) >= Len(met[c.group][p])
    [] OTHER          -> c.do \notin {"abort", "end"}

(***************************************************************************)
(* What PE p does when its next instruction is c.                          *)
(***************************************************************************)
\* Operations another PE sees later.
IssueOps(p, c) ==
  /\ c.do = "issue"
  /\ Advance(p)
  /\ flight' = [flight EXCEPT ![p] = @ \o [k \in DOMAIN c.ops |-> InFlight(p, c.ops[k])]]
  /\ UNCHANGED <<script, mem, met>>

\* Operations that take effect at once: on the PE's own memory, or loads.
PerformNow(p, c) ==
  /\ c.do = "now"
  /\ Advance(p)
  /\ mem' = FoldLeft(LAMBDA m, o : Perform(m, p, o), mem, c.ops)
  /\ UNCHANGED <<script, flight, met>>

\* wait_until
AwaitValue(p, c) ==
  /\ c.do = "wait"
  /\ Advance(p)
  /\ UNCHANGED <<script, mem, flight, met>>

\* One turn of the loop of wait_until_any and wait_until_some: entry i is
\* tested; at the end of a scan that found nothing the next one begins.
ScanEntry(p, c) ==
  /\ c.do = "scan"
  /\ LET i == mem[p]["ret"][1]
         last == i = c.n - 1
         hit == i \notin c.skip /\ Compare(mem[p][c.at][i], c.cmp, c.v)
         found == mem[p]["ret"][0] + (IF hit THEN 1 ELSE 0)
     IN  IF c.some
         THEN /\ mem' = Write(Write(mem, p, "ret", (0 :> found) @@ (1 :> IF last THEN c.from ELSE i + 1)),
                             p, "indices", IF hit THEN (found - 1) :> i ELSE <<>>)
              /\ IF last /\ found > 0 THEN Advance(p) ELSE UNCHANGED pc
         ELSE /\ mem' = Write(mem, p, "ret",
                          IF hit THEN 0 :> i ELSE 1 :> IF last THEN c.from ELSE i + 1)
              /\ IF hit THEN Advance(p) ELSE UNCHANGED pc
  /\ UNCHANGED <<script, flight, met>>

Drained(p, c) ==
  /\ c.do = "drain"
  /\ Advance(p)
  /\ UNCHANGED <<script, mem, flight, met>>

\* Joining a collective of the group.
BringValues(p, c) ==
  /\ c.do = "bring"
  /\ Advance(p)
  /\ LET old == IF c.group \in DOMAIN met THEN met[c.group] ELSE [q \in PE |-> <<>>]
         vals == IF c.from = "" THEN <<>> ELSE mem[p][c.from]
     IN  met' = (c.group :> [old EXCEPT ![p] = Append(@, vals)]) @@ met
  /\ UNCHANGED <<script, mem, flight>>

\* The collective is complete.  Entry k of the result is the sum of the parts
\* <<q, i>>: entry i of what member q brought.
TakeValues(p, c) ==
  /\ c.do = "take"
  /\ Advance(p)
  /\ LET round == Len(met[c.group][p])
         part(x) == met[c.group][x[1]][round][x[2]]
     IN  mem' = IF c.to = "" THEN mem
                ELSE Write(mem, p, c.to, [k \in DOMAIN c.parts |->
                       FoldLeft(LAMBDA s, x : s + part(x), 0, c.parts[k])])
  /\ UNCHANGED <<script, flight, met>>

\* An atomic that returns the old value.  "set" is the loop of compare and
\* swap: it tries again with the value it found, unless that is zero.
FetchOp(p, c) ==
  /\ c.do = "fetch"
  /\ LET old == mem[c.pe][c.at][c.i]
         guess == mem[p]["ret"][0]
         new == CASE c.kind = "add"  -> old + c.v
                  [] c.kind = "swap" -> c.v
                  [] c.kind = "and"  -> old & c.v
                  [] c.kind = "or"   -> old | c.v
                  [] c.kind = "xor"  -> old ^^ c.v
                  [] c.kind = "cas"  -> IF old = c.cond THEN c.v ELSE old
                  [] c.kind = "set"  -> IF old = guess THEN c.v ELSE old
     IN  /\ mem' = Write(Write(mem, c.pe, c.at, c.i :> new), p, "ret", 0 :> old)
         /\ IF c.kind = "set" /\ old \notin {0, guess} THEN UNCHANGED pc ELSE Advance(p)
  /\ UNCHANGED <<script, flight, met>>

\* A call returns to the application.
ReturnFromCall(p, c) ==
  /\ c.do = "return"
  /\ Advance(p)
  /\ UNCHANGED <<script, mem, flight, met>>

\* An operation in flight takes effect.
Deliver(p, k) ==
  /\ k \in DOMAIN flight[p]
  /\ UNCHANGED <<script, pc, met>>
  /\ \A j \in 1 .. k - 1 : ~Ordered(flight[p][j], flight[p][k])
  /\ flight' = [flight EXCEPT ![p] = RemoveAt(@, k)]
  /\ mem' = Perform(mem, p, flight[p][k])

-----------------------------------------------------------------------------
\* The instruction PE p performs next.
Current(p) == Code[script][p][pc[p]]

Step(p, c) ==
  /\ Ready(p, c)
  /\ \/ IssueOps(p, c) \/ PerformNow(p, c) \/ AwaitValue(p, c) \/ Drained(p, c)
     \/ ScanEntry(p, c) \/ BringValues(p, c) \/ TakeValues(p, c) \/ FetchOp(p, c)
     \/ ReturnFromCall(p, c)

Arrive(p) == \E k \in DOMAIN flight[p] : Deliver(p, k)

AllDone == \A p \in PE : Current(p) = End

\* The next instruction c of p neither reads nor writes what another step can
\* write or read, and no other step disables it: it may as well come first.
Private(p, c) ==
  \/ c.do = "return"
  \/ c.do = "drain" /\ Ready(p, c)
  \/ c.do = "issue" /\ (Net[script] \notin {"ipc", "host"} \/ \A k \in DOMAIN c.ops : c.ops[k].op # "put")
Eager(now) == {p \in PE : Private(p, now[p])}

Act(p) ==
  \E now \in {[q \in PE |-> Current(q)]} : \E eager \in {Eager(now)} :
    \/ (eager # {} => p = Min(eager)) /\ Step(p, now[p])
    \/ eager = {} /\ Arrive(p)

Next == \E p \in PE : Act(p)

Spec == Init /\ [][Next]_vars

-----------------------------------------------------------------------------
\* When a call returns to the application, the array it was to fill holds
\* exactly what the call promises: the data of every PE for this very call,
\* and nothing written beside it.
ResultExact ==
  \A p \in PE : \A c \in {Current(p)} : c.do = "return" => mem[p][c.at] \in c.allowed

\* Nobody waits in vain: while a call is not back, some PE or some operation
\* can go on.  Where no program polls, every step brings one of them forward,
\* and so every call returns.
NobodyStuck ==
  \E now \in {[q \in PE |-> Current(q)]} :
    \/ \A p \in PE : now[p] = End
    \/ \E p \in PE : flight[p] # <<>> \/ Ready(p, now[p])
=============================================================================
