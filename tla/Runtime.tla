------------------------------- MODULE Runtime -------------------------------
(***************************************************************************)
(* The host side of the library from rocshmem_init to rocshmem_finalize:   *)
(* start-up of the three backends, the symmetric heap, teams with their    *)
(* pool of work arrays, host contexts with their pool of MPI windows.      *)
(*                                                                         *)
(* Every PE runs the same sequence of calls, as these calls require; the   *)
(* first PE to get to a call chooses it.  A call runs to the next          *)
(* collective of MPI in one step, since the rest of its state is its own.  *)
(* MPI's collectives are external: one returns after every PE of its       *)
(* communicator has entered it, with what they contributed.                *)
(***************************************************************************)
EXTENDS Pow2Bins, FiniteSets

CONSTANTS
  num_pes,
  Plans     \* [backend, connection, max_num_teams, max_num_ctxs, calls]: the
            \* build, its limits and, per position, the calls to choose from

\* A program starts with rocshmem_init and calls it once; the default host context
\* needs a window.
ASSUME PlansAssumption ==
  \A pl \in Plans :
    /\ pl.backend \in {"IPC", "GPU_IB", "RO"}
    /\ pl.max_num_teams \in Nat /\ pl.max_num_ctxs \in Nat \ {0}
    /\ Len(pl.calls) \in Nat
    /\ \A i \in 1 .. Len(pl.calls) : \A c \in pl.calls[i] : c[1] = "init" <=> i = 1

VARIABLES
  plan,
  calls,    \* the calls of the program so far
  pc,       \* pc[p]: how many of them have returned at p
  at,       \* at[p]: the collective p is in, or "app"
  mpi,      \* mpi[p]: what p gave to the collectives it entered
  ready,    \* ready[p]: what p has set up for its peers
  heap,     \* heap[p]: the symmetric heap
  arrays,   \* arrays[p]: the library's own allocations on it
  ptr,      \* ptr[p][i]: what call i returned, while allocated
  pool,     \* pool[p]: the free indices of pool_bitmask_
  teams,    \* teams[p][i]: the team call i returned, while it lives
  windows,  \* windows[p]: the windows marked available
  ctxs,     \* ctxs[p][i]: the window of the context call i returned
  aborted

vars == <<plan, calls, pc, at, mpi, ready, heap, arrays, ptr, pool, teams, windows, ctxs, aborted>>

PE == 0 .. num_pes - 1

-----------------------------------------------------------------------------
(***************************************************************************)
(* Position of a PE.  A collective is known by the call and the step of    *)
(* the call it belongs to.                                                 *)
(***************************************************************************)
With(f, i, v) == [j \in DOMAIN f \cup {i} |-> IF j = i THEN v ELSE f[j]]
Without(f, i) == [j \in DOMAIN f \ {i} |-> f[j]]

InApp(p) == at[p].fn = "app"
Call(p) == calls[pc[p] + 1]
Key(p) == <<pc[p] + 1, at[p].step>>

Calls(p, c) ==
  /\ InApp(p) /\ ~aborted
  /\ \/ pc[p] < Len(calls) /\ c = Call(p) /\ UNCHANGED calls
     \/ /\ pc[p] = Len(calls) /\ pc[p] < Len(plan.calls) /\ c \in plan.calls[pc[p] + 1]
        /\ calls' = Append(calls, c)

Enters(p, fn, step, value) ==
  /\ at' = [at EXCEPT ![p] = [fn |-> fn, step |-> step]]
  /\ mpi' = [mpi EXCEPT ![p] = With(@, <<pc[p] + 1, step>>, value)]

Gathered(p, fn, comm) ==
  /\ at[p].fn = fn /\ ~aborted
  /\ \A q \in comm : Key(p) \in DOMAIN mpi[q]

Returns(p) ==
  /\ pc' = [pc EXCEPT ![p] = @ + 1]
  /\ at' = [at EXCEPT ![p] = [fn |-> "app", step |-> 0]]

-----------------------------------------------------------------------------
(***************************************************************************)
(* Start-up: per backend the steps that end in a collective of the world,  *)
(* each with what the PE has set up before it and whether it takes memory  *)
(* of the symmetric heap.  Copies of communicators are left out.           *)
(***************************************************************************)
Sets(facts) == [does |-> facts, takes |-> 0]
Takes(n, facts) == [does |-> facts, takes |-> n]

RemoteHeapInfo == <<Sets({"heap"})>>
HostInterface == <<Sets({})>>            \* the windows of the pool

ipcHostInit == <<Sets({})>>              \* the handles of the heaps
init_wrk_sync_buffer == <<Sets({"wrk_sync"})>>
ipc_collective_init == <<Sets({"barrier_sync"})>>
ipc_teams_init == <<Sets({"pSync"})>>

IPCBackend ==
  RemoteHeapInfo \o ipcHostInit \o HostInterface
  \o init_wrk_sync_buffer \o ipc_collective_init \o ipc_teams_init

\* The six pools of the teams, then the values in them.
ib_collective_init == <<Takes(ALIGNMENT, {"barrier_sync"})>>
ib_teams_init == [i \in 1 .. 6 |-> Takes(ALIGNMENT, {})] \o <<Sets({"pSync"})>>

\* Mutant: no barrier between ready to receive and ready to send.
ReliableConnectionRace == <<Sets({"INIT"}), Sets({"RTR", "RTS"})>>
ReliableConnection == <<Sets({"INIT"}), Sets({"RTR"})>>
DynamicConnection == <<Sets({"DCT"}), Sets({})>>
\* Both end in a barrier; before it a reliable connection gets ready to send.
connection_initialize(connection) ==
  IF connection = "RC" THEN ReliableConnection \o <<Sets({"RTS"})>>
                       ELSE DynamicConnection \o <<Sets({})>>
exchange_hdp_info == <<Sets({}), Sets({})>>
heap_memory_rkey == <<Sets({"heap_mr"})>>
rocshmem_g_init == <<Takes(ALIGNMENT, {})>>

networkHostSetup(connection) ==
  connection_initialize(connection) \o exchange_hdp_info \o heap_memory_rkey \o rocshmem_g_init

GPUIBBackend(connection) ==
  RemoteHeapInfo \o HostInterface \o ib_collective_init \o ib_teams_init
  \o <<Sets({})>> \o networkHostSetup(connection)

\* The windows of the contexts, then the results of g, then the transport.
ROBackend == RemoteHeapInfo \o <<Sets({})>> \o rocshmem_g_init \o HostInterface

StartUp ==
  CASE plan.backend = "IPC" -> IPCBackend
    [] plan.backend = "GPU_IB" -> GPUIBBackend(plan.connection)
    [] plan.backend = "RO" -> ROBackend

Next_step(p) == IF InApp(p) THEN 1 ELSE at[p].step + 1

\* The next step of the constructor, into its collective.
start_up_step(p) ==
  LET step == StartUp[Next_step(p)]
      got == alloc(heap[p], step.takes)
  IN  /\ Next_step(p) <= Len(StartUp)
      /\ Enters(p, "rocshmem_init", Next_step(p), {})
      /\ ready' = [ready EXCEPT ![p] = @ \cup step.does]
      /\ heap' = [heap EXCEPT ![p] = got.heap]
      /\ arrays' = [arrays EXCEPT ![p] = IF step.takes = 0 THEN @ ELSE Append(@, got.ptr)]
      /\ UNCHANGED <<plan, pc, ptr, pool, teams, windows, ctxs, aborted>>

rocshmem_init(p) == Calls(p, <<"init">>) /\ start_up_step(p)

start_up(p) == Gathered(p, "rocshmem_init", PE) /\ start_up_step(p) /\ UNCHANGED calls

\* The default host context has taken the first window.
start_up_done(p) ==
  /\ Gathered(p, "rocshmem_init", PE) /\ at[p].step = Len(StartUp)
  /\ windows' = [windows EXCEPT ![p] = @ \ {0}]
  /\ ctxs' = [ctxs EXCEPT ![p] = With(@, 0, 0)]
  /\ Returns(p)
  /\ UNCHANGED <<plan, calls, mpi, ready, heap, arrays, ptr, pool, teams, aborted>>

-----------------------------------------------------------------------------
(***************************************************************************)
(* The symmetric heap.  rocshmem_barrier_all is MPI_Barrier of the host    *)
(* interface: after the allocation, before the release.                    *)
(***************************************************************************)
rocshmem_malloc(p, size) ==
  LET got == alloc(heap[p], size)
  IN  /\ Calls(p, <<"malloc", size>>)
      /\ heap' = [heap EXCEPT ![p] = got.heap]
      /\ Enters(p, "rocshmem_malloc", 1, got.ptr)
      /\ UNCHANGED <<plan, pc, ready, arrays, ptr, pool, teams, windows, ctxs, aborted>>

rocshmem_malloc_returns(p) ==
  /\ Gathered(p, "rocshmem_malloc", PE)
  /\ ptr' = [ptr EXCEPT ![p] = With(@, pc[p] + 1, mpi[p][Key(p)])]
  /\ Returns(p)
  /\ UNCHANGED <<plan, calls, mpi, ready, heap, arrays, pool, teams, windows, ctxs, aborted>>

\* Mutant: the memory is released before the barrier.
rocshmem_freeEarly(p, i) ==
  /\ i \in DOMAIN ptr[p]
  /\ Calls(p, <<"free", i>>)
  /\ ptr' = [ptr EXCEPT ![p] = Without(@, i)]
  /\ heap' = [heap EXCEPT ![p] = free(@, ptr[p][i])]
  /\ Enters(p, "rocshmem_free", 1, 0)
  /\ UNCHANGED <<plan, pc, ready, arrays, pool, teams, windows, ctxs, aborted>>
rocshmem_free(p, i) ==
  /\ i \in DOMAIN ptr[p]
  /\ Calls(p, <<"free", i>>)
  /\ ptr' = [ptr EXCEPT ![p] = Without(@, i)]
  /\ Enters(p, "rocshmem_free", 1, ptr[p][i])
  /\ UNCHANGED <<plan, pc, ready, heap, arrays, pool, teams, windows, ctxs, aborted>>

rocshmem_free_returns(p) ==
  /\ Gathered(p, "rocshmem_free", PE)
  /\ heap' = [heap EXCEPT ![p] = free(@, mpi[p][Key(p)])]
  /\ Returns(p)
  /\ UNCHANGED <<plan, calls, mpi, ready, arrays, ptr, pool, teams, windows, ctxs, aborted>>

-----------------------------------------------------------------------------
(***************************************************************************)
(* Teams.  Call 0 stands for ROCSHMEM_TEAM_WORLD.                          *)
(***************************************************************************)
TeamWorld == [start |-> 0, stride |-> 1, size |-> num_pes, comm |-> PE, index |-> 0]

\* The team the handle of call i denotes at p, or {} for TEAM_INVALID.
Handle(p, i) ==
  IF i = 0 THEN {TeamWorld} ELSE IF i \in DOMAIN teams[p] THEN {teams[p][i]} ELSE {}

get_pe_in_world(t, pe) == t.start + t.stride * pe

pe_in_active_set(start, stride, size, pe) ==
  pe >= start /\ (pe - start) % stride = 0 /\ (pe - start) \div stride < size

\* The team asked for, with respect to the world.
Wanted(t, start, stride, size) ==
  [start |-> get_pe_in_world(t, start), stride |-> stride * t.stride, size |-> size]

rejects(t, start, stride, size) ==
  LET new == Wanted(t, start, stride, size)
  IN  \/ start < 0 \/ start >= t.size \/ size < 1 \/ size > t.size \/ stride < 1
      \/ new.start + new.stride * (size - 1) > num_pes

get_num_user_teams(p) == Cardinality(DOMAIN teams[p])

\* A return without a new team: no team left, no parent, or a bad argument.
team_split_refused(p, i, start, stride, size) ==
  /\ Calls(p, <<"split", i, start, stride, size>>)
  /\ \/ get_num_user_teams(p) >= plan.max_num_teams - 1
     \/ \A t \in Handle(p, i) : rejects(t, start, stride, size)
  /\ Returns(p)
  /\ UNCHANGED <<plan, mpi, ready, heap, arrays, ptr, pool, teams, windows, ctxs, aborted>>

rocshmem_team_split_strided(p, i, start, stride, size) ==
  /\ Calls(p, <<"split", i, start, stride, size>>)
  /\ get_num_user_teams(p) < plan.max_num_teams - 1
  /\ \E t \in Handle(p, i) :
       LET new == Wanted(t, start, stride, size)
       IN  /\ ~rejects(t, start, stride, size)
           /\ Enters(p, "MPI_Comm_split", 1,
                     pe_in_active_set(new.start, new.stride, size, p))
  /\ UNCHANGED <<plan, pc, ready, heap, arrays, ptr, pool, teams, windows, ctxs, aborted>>

\* The PEs that gave a colour to the MPI_Comm_split of p's call.
TeamComm(p) ==
  LET key == <<pc[p] + 1, 1>>
  IN  {q \in PE : key \in DOMAIN mpi[q] /\ mpi[q][key] = TRUE}

\* Team and TeamTracker::track: the object p makes of the call it is in.
NewTeam(p, index) ==
  LET c == Call(p)
      new == Wanted(CHOOSE t \in Handle(p, c[2]) : TRUE, c[3], c[4], c[5])
  IN  [start |-> new.start, stride |-> new.stride, size |-> new.size,
       comm |-> TeamComm(p), index |-> index]

SplitGathered(p) ==
  \E t \in Handle(p, Call(p)[2]) : Gathered(p, "MPI_Comm_split", t.comm)

not_in_new_team(p) ==
  /\ at[p].fn = "MPI_Comm_split"
  /\ SplitGathered(p) /\ ~mpi[p][Key(p)]
  /\ Returns(p)
  /\ UNCHANGED <<plan, calls, mpi, ready, heap, arrays, ptr, pool, teams, windows, ctxs, aborted>>

\* MPITransport::createNewTeam has no pool.
createNewTeam(p) ==
  /\ at[p].fn = "MPI_Comm_split" /\ plan.backend = "RO"
  /\ SplitGathered(p) /\ mpi[p][Key(p)]
  /\ teams' = [teams EXCEPT ![p] = With(@, pc[p] + 1, NewTeam(p, 0))]
  /\ Returns(p)
  /\ UNCHANGED <<plan, calls, mpi, ready, heap, arrays, ptr, pool, windows, ctxs, aborted>>

create_new_team(p) ==
  /\ at[p].fn = "MPI_Comm_split" /\ plan.backend # "RO"
  /\ SplitGathered(p) /\ mpi[p][Key(p)]
  /\ Enters(p, "MPI_Allreduce", 2, pool[p])
  /\ UNCHANGED <<plan, calls, pc, ready, heap, arrays, ptr, pool, teams, windows, ctxs, aborted>>

\* Mutant: the PE's own bitmask is used.
reduced_bitmaskOwn(p) == mpi[p][Key(p)]
reduced_bitmask(p) == {i \in mpi[p][Key(p)] : \A q \in TeamComm(p) : i \in mpi[q][Key(p)]}

get_ls_non_zero_bit(bits) == CHOOSE i \in bits : \A j \in bits : i <= j

no_common_index(p) ==
  /\ Gathered(p, "MPI_Allreduce", TeamComm(p)) /\ reduced_bitmask(p) = {}
  /\ aborted' = TRUE
  /\ UNCHANGED <<plan, calls, pc, at, mpi, ready, heap, arrays, ptr, pool, teams, windows, ctxs>>

team_created(p) ==
  LET common_index == get_ls_non_zero_bit(reduced_bitmask(p))
  IN  /\ Gathered(p, "MPI_Allreduce", TeamComm(p)) /\ reduced_bitmask(p) # {}
      /\ pool' = [pool EXCEPT ![p] = @ \ {common_index}]
      /\ teams' = [teams EXCEPT ![p] = With(@, pc[p] + 1, NewTeam(p, common_index))]
      /\ Returns(p)
      /\ UNCHANGED <<plan, calls, mpi, ready, heap, arrays, ptr, windows, ctxs, aborted>>

\* Backend::team_destroy of the teams of p that calls is returned: the indices go
\* back.  Not collective.  Mutant: they do not.
team_destroyKept(p, is) == pool
team_destroy(p, is) ==
  [pool EXCEPT ![p] = IF plan.backend = "RO" THEN @
                      ELSE @ \cup {teams[p][i].index : i \in is \cap DOMAIN teams[p]}]

rocshmem_team_destroy(p, i) ==
  /\ Calls(p, <<"destroy", i>>)
  /\ pool' = team_destroy(p, {i})
  /\ teams' = [teams EXCEPT ![p] = Without(@, i)]
  /\ Returns(p)
  /\ UNCHANGED <<plan, mpi, ready, heap, arrays, ptr, windows, ctxs, aborted>>

-----------------------------------------------------------------------------
(***************************************************************************)
(* Host contexts: each takes the first available window of the pool.       *)
(***************************************************************************)
find_avail_pool_entry(p) == CHOOSE w \in windows[p] : \A v \in windows[p] : w <= v

rocshmem_ctx_create(p) ==
  /\ Calls(p, <<"ctx_create">>)
  /\ windows[p] # {}
  /\ windows' = [windows EXCEPT ![p] = @ \ {find_avail_pool_entry(p)}]
  /\ ctxs' = [ctxs EXCEPT ![p] = With(@, pc[p] + 1, find_avail_pool_entry(p))]
  /\ Returns(p)
  /\ UNCHANGED <<plan, mpi, ready, heap, arrays, ptr, pool, teams, aborted>>

\* assert(false); a build without assertions goes on with index -1, which is outside
\* the pool: nothing is known of the program after that.
no_window(p) ==
  /\ Calls(p, <<"ctx_create">>)
  /\ windows[p] = {}
  /\ aborted' = TRUE
  /\ UNCHANGED <<plan, pc, at, mpi, ready, heap, arrays, ptr, pool, teams, windows, ctxs>>

\* The destructor of ROHostContext does not release the window.
release_window_context(p, is) ==
  [windows EXCEPT ![p] = IF plan.backend = "RO" THEN @ ELSE @ \cup {ctxs[p][i] : i \in is}]

rocshmem_ctx_destroy(p, i) ==
  /\ i \in DOMAIN ctxs[p]
  /\ Calls(p, <<"ctx_destroy", i>>)
  /\ windows' = release_window_context(p, {i})
  /\ ctxs' = [ctxs EXCEPT ![p] = Without(@, i)]
  /\ Returns(p)
  /\ UNCHANGED <<plan, mpi, ready, heap, arrays, ptr, pool, teams, aborted>>

-----------------------------------------------------------------------------
(***************************************************************************)
(* rocshmem_finalize: contexts and teams the application left, then the    *)
(* destructor of the backend.  GPUIBBackend frees its team pools one by    *)
(* one, each behind a barrier; every backend ends in MPI_Finalize.         *)
(***************************************************************************)
PoolsToFree == IF plan.backend = "GPU_IB" THEN 6 ELSE 0

rocshmem_finalize(p) ==
  /\ Calls(p, <<"finalize">>)
  /\ windows' = release_window_context(p, DOMAIN ctxs[p])
  /\ ctxs' = [ctxs EXCEPT ![p] = <<>>]
  /\ pool' = team_destroy(p, DOMAIN teams[p])
  /\ teams' = [teams EXCEPT ![p] = <<>>]
  /\ Enters(p, "rocshmem_finalize", 1, {})
  /\ UNCHANGED <<plan, pc, ready, heap, arrays, ptr, aborted>>

\* The barrier of rocshmem_free is behind, the next pool is up.
teams_destroy(p) ==
  /\ Gathered(p, "rocshmem_finalize", PE) /\ at[p].step <= PoolsToFree
  /\ heap' = [heap EXCEPT ![p] = free(@, arrays[p][at[p].step + 1])]
  /\ Enters(p, "rocshmem_finalize", at[p].step + 1, {})
  /\ UNCHANGED <<plan, calls, pc, ready, arrays, ptr, pool, teams, windows, ctxs, aborted>>

finalize_returns(p) ==
  /\ Gathered(p, "rocshmem_finalize", PE) /\ at[p].step = PoolsToFree + 1
  /\ Returns(p)
  /\ UNCHANGED <<plan, calls, mpi, ready, heap, arrays, ptr, pool, teams, windows, ctxs, aborted>>

-----------------------------------------------------------------------------
Init ==
  /\ plan \in Plans
  /\ calls = <<>> /\ pc = [p \in PE |-> 0] /\ at = [p \in PE |-> [fn |-> "app", step |-> 0]]
  /\ mpi = [p \in PE |-> <<>>] /\ ready = [p \in PE |-> {}]
  /\ heap = [p \in PE |-> assign_heap_to_bins] /\ arrays = [p \in PE |-> <<>>]
  /\ ptr = [p \in PE |-> <<>>] /\ teams = [p \in PE |-> <<>>] /\ ctxs = [p \in PE |-> <<>>]
  /\ pool = [p \in PE |-> 1 .. plan.max_num_teams - 1]
  /\ windows = [p \in PE |-> 0 .. plan.max_num_ctxs - 1]
  /\ aborted = FALSE

\* The calls p may make: the next of the program, or one of the choices.
Callable(p) == IF pc[p] < Len(calls) THEN {Call(p)}
              ELSE IF pc[p] < Len(plan.calls) THEN plan.calls[pc[p] + 1] ELSE {}

Step(p) ==
  \/ rocshmem_init(p) \/ start_up(p) \/ start_up_done(p)
  \/ rocshmem_malloc_returns(p) \/ rocshmem_free_returns(p)
  \/ not_in_new_team(p) \/ createNewTeam(p) \/ create_new_team(p)
  \/ no_common_index(p) \/ team_created(p)
  \/ rocshmem_ctx_create(p) \/ no_window(p)
  \/ rocshmem_finalize(p) \/ teams_destroy(p) \/ finalize_returns(p)
  \/ \E c \in Callable(p) :
       \/ c[1] = "malloc" /\ rocshmem_malloc(p, c[2])
       \/ c[1] = "free" /\ rocshmem_free(p, c[2])
       \/ c[1] = "split" /\ (\/ team_split_refused(p, c[2], c[3], c[4], c[5])
                             \/ rocshmem_team_split_strided(p, c[2], c[3], c[4], c[5]))
       \/ c[1] = "destroy" /\ rocshmem_team_destroy(p, c[2])
       \/ c[1] = "ctx_destroy" /\ rocshmem_ctx_destroy(p, c[2])

\* The program is over.
Over == aborted \/ \A p \in PE : pc[p] = Len(plan.calls)
Finished == Over /\ UNCHANGED vars

Next == (\E p \in PE : Step(p)) \/ Finished

Spec == Init /\ [][Next]_vars

-----------------------------------------------------------------------------
(***************************************************************************)
(* Properties.                                                             *)
(***************************************************************************)
\* Two teams of a PE never share an index of the pool of work arrays, no user
\* team has the index of the world, and an index is free exactly when no team of
\* the PE has it: create_new_team and team_destroy keep pool_bitmask_ in step.
PoolExclusive ==
  plan.backend # "RO" =>
    \A p \in PE :
      /\ \A i \in DOMAIN teams[p] : teams[p][i].index \in 1 .. plan.max_num_teams - 1
      /\ \A i, j \in DOMAIN teams[p] : i # j => teams[p][i].index # teams[p][j].index
      /\ pool[p] = (1 .. plan.max_num_teams - 1) \ {teams[p][i].index : i \in DOMAIN teams[p]}

\* A team's communicator holds the PEs its start, stride and size name, as many as
\* its size: what MPI_Comm_split gave rocshmem_team_split_strided is what
\* get_pe_in_world computes with, also for a team split from a team.  The members
\* use the same work arrays: their bitmasks met in the MPI_Allreduce.
TeamsAgree ==
  \A p \in PE : \A i \in DOMAIN teams[p] :
    LET t == teams[p][i]
    IN  /\ t.comm = {get_pe_in_world(t, k) : k \in 0 .. t.size - 1}
        /\ p \in t.comm /\ Cardinality(t.comm) = t.size
        /\ \A q \in PE : i \in DOMAIN teams[q] => teams[q][i] = t

\* An address rocshmem_malloc returned is, from the return to the call of
\* rocshmem_free at any PE, memory of at least the size asked for at every PE: the
\* barriers are after the allocation and before the release.
AddressUsable ==
  \A p, q \in PE : \A i \in DOMAIN ptr[p] :
    ptr[p][i] # 0 => /\ ptr[p][i] \in DOMAIN heap[q].proffered
                     /\ heap[q].proffered[ptr[p][i]] >= calls[i][2]

\* The records of a PE, in the bins or handed out, tile its aligned heap: pairwise
\* disjoint, none lost by split_larger_bin, each aligned.
Records(h) ==
  {<<a, h.proffered[a]>> : a \in DOMAIN h.proffered}
  \cup UNION {{<<h.bins[s][k], s>> : k \in DOMAIN h.bins[s]} : s \in Sizes}
HeapTiled ==
  \A p \in PE :
    LET all == Records(heap[p])
        whole == ignore_unaligned_heap_memory
    IN  /\ \A r, s \in all : r # s => r[1] + r[2] <= s[1] \/ s[1] + s[2] <= r[1]
        /\ \A r \in all : r[1] % ALIGNMENT = 0 /\ r[1] >= heap_ptr
        /\ FoldSet(LAMBDA r, n : r[2] + n, 0, all) = whole.left - (whole.left % ALIGNMENT)

\* When rocshmem_init has returned at a PE, every PE it can address has set up what
\* the PE uses of it: the barriers of the constructors are in the right places.  A
\* reliable connection is ready to send at a PE only when its peers receive.
NeededFrom ==
  CASE plan.backend = "IPC" -> {"heap", "wrk_sync", "barrier_sync", "pSync"}
    [] plan.backend = "RO" -> {"heap"}
    [] plan.backend = "GPU_IB" -> {"heap", "heap_mr", "barrier_sync", "pSync"}
                                  \cup (IF plan.connection = "RC" THEN {"RTR", "RTS"} ELSE {"DCT"})
InitMeansReady ==
  \A p, q \in PE : /\ pc[p] > 0 => NeededFrom \subseteq ready[q]
                   /\ "RTS" \in ready[p] => "RTR" \in ready[q]
=============================================================================
