------------------------------ MODULE MCRuntime ------------------------------
(***************************************************************************)
(* Programs of three PEs.  Every position of a program offers a set of     *)
(* calls; the first PE to arrive chooses.  Teams asked for lie within the  *)
(* world, and every PE or none reaches the limit of teams in a split.      *)
(*                                                                         *)
(* Besides, what a team of the IPC backend is for: its two barriers, with  *)
(* five PEs and three rounds, so that a fast PE is a round ahead of a slow *)
(* one more than once.  The buffers of the atomic barrier are laid out so  *)
(* that every amo_add reaches the counter, and so that the one of PE 1     *)
(* does not.  part says whether the host or a barrier runs.                *)
(***************************************************************************)
EXTENDS Runtime, IpcBarrier, IpcAtomicBarrier

VARIABLE part

Plan(backend, connection, teams_, ctxs_, middle) ==
  [backend |-> backend, connection |-> connection, max_num_teams |-> teams_, max_num_ctxs |-> ctxs_,
   calls |-> <<{<<"init">>}>> \o middle \o <<{<<"finalize">>}>>]

Split(parent, start, stride, size) == <<"split", parent, start, stride, size>>

\* The members and the order of the teams vary.
Pairs == {Split(0, 0, 1, 2), Split(0, 1, 1, 2), Split(0, 0, 2, 2)}
ThreeTeams(backend) ==
  Plan(backend, "", 4, 2, <<Pairs, Pairs \cup {<<"destroy", 2>>}, Pairs>>)

\* One team per PE and two indices, and PEs 0 and 2 have no index in common.
Fragmented ==
  Plan("IPC", "", 3, 2, <<{Split(0, 0, 1, 2)}, {Split(0, 1, 1, 2)}, {<<"destroy", 2>>}, {Split(0, 0, 1, 1)}, Pairs>>)

\* A team split from a team, an invalid parent at PE 0, refused arguments.
Nested(backend) ==
  Plan(backend, "", 4, 2,
       <<{Split(0, 0, 1, 3), Split(0, 1, 1, 2)},
         {Split(2, 1, 1, 1), Split(2, 0, 1, 2), Split(2, 0, 0, 1), Split(2, 5, 1, 1)},
         {<<"destroy", 2>>, <<"destroy", 3>>}>>)

\* The limit of user teams.
Limit == Plan("IPC", "", 2, 2, <<{Split(0, 0, 1, 3)}, {Split(0, 0, 1, 3)}, {<<"destroy", 2>>}, {Split(0, 0, 1, 3)}>>)

\* Sizes of one unit, of a bin, between bins, and larger than the heap.
Memory(backend, connection) ==
  Plan(backend, connection, 2, 2,
       <<{<<"malloc", n>> : n \in {2, 3, 64}}, {<<"malloc", n>> : n \in {1, 4}},
         {<<"free", 2>>, <<"free", 3>>}, {<<"malloc", n>> : n \in {2, 4}}, {<<"free", 5>>}>>)

Contexts(backend, n) ==
  Plan(backend, "", 2, n,
       <<{<<"ctx_create">>}, {<<"ctx_create">>, <<"ctx_destroy", 2>>}, {<<"ctx_destroy", 2>>, <<"ctx_create">>},
         {<<"ctx_create">>}>>)

MCPlans ==
  {ThreeTeams("IPC"), ThreeTeams("GPU_IB"), ThreeTeams("RO"), Fragmented, Nested("IPC"), Nested("RO"), Limit,
   Memory("GPU_IB", "RC"), Memory("IPC", ""), Memory("RO", ""), Plan("GPU_IB", "DC", 2, 2, <<>>),
   Contexts("IPC", 5), Contexts("IPC", 3), Contexts("RO", 3)}

-----------------------------------------------------------------------------
SameLayout == [p \in Other |-> [own |-> 0, root |-> 0]]
MCLayouts == {SameLayout, [SameLayout EXCEPT ![1].root = 1]}

MCInit ==
  /\ Init /\ DirectInit /\ AtomicInit
  /\ part \in {"host", "direct", "atomic"}
  /\ part # "host" => plan = Limit
  /\ part # "atomic" => layout = SameLayout

\* wait_until goes round and round where an amo_add has gone astray.
Spin == ~AllReach /\ UNCHANGED atomicVars

MCNext ==
  /\ \/ part = "host" /\ Next /\ UNCHANGED <<directVars, atomicVars>>
     \/ part = "direct" /\ DirectNext /\ UNCHANGED <<vars, atomicVars>>
     \/ part = "atomic" /\ (AtomicNext \/ Spin) /\ UNCHANGED <<vars, directVars>>
  /\ UNCHANGED part

\* The fairness of the two barriers.
MCSpec ==
  /\ MCInit /\ [][MCNext]_<<vars, directVars, atomicVars, part>>
  /\ WF_directVars(part = "direct" /\ Root)
  /\ \A p \in Other : WF_directVars(part = "direct" /\ Peer(p))
  /\ WF_atomicVars(part = "atomic" /\ AtomicRoot)
  /\ \A p \in Other : WF_atomicVars(part = "atomic" /\ AtomicPeer(p))
=============================================================================
