---------------------------- MODULE Instructions ----------------------------
(***************************************************************************)
(* The instructions of the one-sided machine (module OneSided), and what   *)
(* the three backends share when they build programs of them: teams, loops *)
(* over the PEs of a team, and copies.                                     *)
(***************************************************************************)
EXTENDS Integers, Sequences, SequencesExt

(***************************************************************************)
(* Operations on memory.  PE pe is the other side of the operation; to and *)
(* from are arrays; a map takes the entries written to the entries read.   *)
(***************************************************************************)
Span(d, s, n) == [k \in d .. d + n - 1 |-> s + (k - d)]

Put(pe, to, from, map) == [op |-> "put", pe |-> pe, to |-> to, from |-> from, map |-> map]
Get(pe, to, from, map) == [op |-> "get", pe |-> pe, to |-> to, from |-> from, map |-> map]
\* A put of a handler that waits for several at once.
Rput(pe, to, from, map) == [Put(pe, to, from, map) EXCEPT !.op = "rput"]
Store(pe, to, vals) == [op |-> "store", pe |-> pe, to |-> to, vals |-> vals]
Flag(pe, to, i, v) == Store(pe, to, i :> v)
Add(pe, to, i, v) == [op |-> "add", pe |-> pe, to |-> to, map |-> i :> i, v |-> v]
Cas(pe, to, i, v, cond) ==
  [op |-> "cas", pe |-> pe, to |-> to, map |-> i :> i, v |-> v, cond |-> cond]
Accumulate(pe, to, from, map) ==
  [op |-> "reduce", pe |-> pe, to |-> to, from |-> from, map |-> map]

(***************************************************************************)
(* Instructions.  The value a call returns is entry 0 of the PE's own      *)
(* array "ret"; entry 1 is the cursor of a scan.                           *)
(***************************************************************************)
Issue(ops) == [do |-> "issue", ops |-> ops]
Now(ops)   == [do |-> "now", ops |-> ops]
Await(at, i, cmp, v) == [do |-> "wait", at |-> at, i |-> i, cmp |-> cmp, v |-> v]
\* Scan entries from .. n - 1 of an array, those in skip excepted, again and
\* again until one passes the test; all those of one scan when some is true.
Scan(at, from, n, skip, cmp, v, some) ==
  [do |-> "scan", at |-> at, from |-> from, n |-> n, skip |-> skip, cmp |-> cmp, v |-> v,
   some |-> some]
\* Wait for what was issued to pes; gets are waited for if told so.
DrainTo(pes) == [do |-> "drain", pes |-> pes, gets |-> TRUE]
FlushTo(pes) == [do |-> "drain", pes |-> pes, gets |-> FALSE]
Bring(group, from) == [do |-> "bring", group |-> group, from |-> from]
Take(group, members, to, parts) ==
  [do |-> "take", group |-> group, members |-> members, to |-> to, parts |-> parts]
Fetch(pe, at, i, kind, v, cond) ==
  [do |-> "fetch", pe |-> pe, at |-> at, i |-> i, kind |-> kind, v |-> v, cond |-> cond]
Return(at, allowed) == [do |-> "return", at |-> at, allowed |-> allowed]

Test(at, i, cmp, v) == Now(<<[op |-> "test", at |-> at, i |-> i, cmp |-> cmp, v |-> v]>>)
\* An assertion that fails, or a call without end: the program goes no further.
Abort == [do |-> "abort"]
\* The last instruction of a program.
End == [do |-> "end"]

\* The call returns an entry of its PE, or v; what it returns is converted to a signed integer.
Loaded(at, i) == Now(<<[op |-> "load", at |-> at, i |-> i]>>)
Returned(v) == Now(<<[op |-> "return", v |-> v]>>)
Narrowed(width) == Now(<<[op |-> "narrow", width |-> width]>>)

(***************************************************************************)
(* A team is the PEs start, start + stride, ... of the world.              *)
(***************************************************************************)
InWorld(t, j) == t.start + j * t.stride
InTeam(t, pe) == (pe - t.start) \div t.stride
Members(t) == {InWorld(t, j) : j \in 0 .. t.size - 1}

\* for (i = lo; i <= hi; i++) body
Loop(lo, hi, Body(_)) == FlattenSeq([k \in 1 .. hi - lo + 1 |-> Body(lo + k - 1)])
\* The loop over the PEs of the team, in order, and the one that skips me.
Each(t, Body(_)) == Loop(0, t.size - 1, LAMBDA j : Body(InWorld(t, j)))
Others(t, me, Body(_)) == Each(t, LAMBDA i : IF i = me THEN <<>> ELSE Body(i))
=============================================================================
