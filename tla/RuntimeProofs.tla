---------------------------- MODULE RuntimeProofs ----------------------------
(***************************************************************************)
(* The host side for every number of PEs and every program: the pool of    *)
(* team work arrays and what rocshmem_init leaves ready.                   *)
(***************************************************************************)
EXTENDS Runtime, TLAPS, WellFoundedInduction

RuntimeTypes ==
  /\ pc \in [PE -> Nat] /\ plan.max_num_teams \in Nat
  /\ DOMAIN at = PE /\ DOMAIN mpi = PE /\ DOMAIN pool = PE /\ DOMAIN teams = PE
  /\ \A p \in PE : \A i \in DOMAIN teams[p] : i \in Nat /\ i <= pc[p]

\* What a PE gave to MPI_Allreduce is its bitmask still, since the PE is in there.
MaskCurrent == \A p \in PE : at[p].fn = "MPI_Allreduce" => mpi[p][Key(p)] = pool[p]

\* PoolExclusive at one PE.
Exclusive(ts, free_, max) ==
  /\ \A i \in DOMAIN ts : ts[i].index \in 1 .. max - 1
  /\ \A i, j \in DOMAIN ts : i # j => ts[i].index # ts[j].index
  /\ free_ = (1 .. max - 1) \ {ts[i].index : i \in DOMAIN ts}

PInv == RuntimeTypes /\ MaskCurrent /\ PoolExclusive

Less == {s \in Nat \X Nat : s[1] < s[2]}

\* get_ls_non_zero_bit picks a bit that is set.
LEMMA LowestBitIsSet ==
  ASSUME NEW S \in SUBSET Nat, S # {}
  PROVE  get_ls_non_zero_bit(S) \in S
<1>1. IsWellFoundedOn(Less, Nat)
      BY NatLessThanWellFounded DEF OpToRel, Less
<1>2. PICK x \in S : \A y \in S : ~ (<<y, x>> \in Less)
      BY <1>1, WFMin
<1>3. ASSUME NEW y \in S PROVE x <= y
  <2>1. x \in Nat /\ y \in Nat
        OBVIOUS
  <2>2. y < x => <<y, x>> \in Less
        BY <2>1 DEF Less
  <2> QED BY <1>2, <2>1, <2>2
<1> QED BY <1>3 DEF get_ls_non_zero_bit

LEMMA PerPE ==
  PoolExclusive <=> (plan.backend # "RO" =>
                       \A p \in PE : Exclusive(teams[p], pool[p], plan.max_num_teams))
  BY DEF PoolExclusive, Exclusive

\* Taking a free index for a new team, and giving back the one of a team.
LEMMA TakeIndex ==
  ASSUME NEW ts, NEW free_, NEW max \in Nat, Exclusive(ts, free_, max),
         NEW i, i \notin DOMAIN ts, NEW t, t.index \in free_
  PROVE  Exclusive(With(ts, i, t), free_ \ {t.index}, max)
<1>1. /\ DOMAIN With(ts, i, t) = DOMAIN ts \cup {i} /\ With(ts, i, t)[i] = t
      /\ \A j \in DOMAIN ts : With(ts, i, t)[j] = ts[j]
      BY DEF With
<1>2. t.index \in 1 .. max - 1 /\ \A j \in DOMAIN ts : ts[j].index # t.index
      BY DEF Exclusive
<1>3. {With(ts, i, t)[j].index : j \in DOMAIN With(ts, i, t)}
        = {ts[j].index : j \in DOMAIN ts} \cup {t.index}
      BY <1>1
<1> QED BY <1>1, <1>2, <1>3 DEF Exclusive

LEMMA GiveBack ==
  ASSUME NEW ts, NEW free_, NEW max \in Nat, Exclusive(ts, free_, max), NEW i
  PROVE  Exclusive(Without(ts, i), free_ \cup {ts[j].index : j \in {i} \cap DOMAIN ts}, max)
<1>1. /\ DOMAIN Without(ts, i) = DOMAIN ts \ {i}
      /\ \A j \in DOMAIN ts \ {i} : Without(ts, i)[j] = ts[j]
      BY DEF Without
<1>2. {Without(ts, i)[j].index : j \in DOMAIN Without(ts, i)}
        = {ts[j].index : j \in DOMAIN ts} \ {ts[j].index : j \in {i} \cap DOMAIN ts}
      BY <1>1 DEF Exclusive
<1> QED BY <1>1, <1>2 DEF Exclusive

LEMMA GiveAllBack ==
  ASSUME NEW ts, NEW free_, NEW max \in Nat, Exclusive(ts, free_, max)
  PROVE  Exclusive(<<>>, free_ \cup {ts[j].index : j \in DOMAIN ts}, max)
<1>1. {ts[j].index : j \in DOMAIN ts} \subseteq 1 .. max - 1
      BY DEF Exclusive
<1> QED BY <1>1 DEF Exclusive

\* No team, no index taken.
LEMMA InitPInv == Init => PInv
  BY PlansAssumption DEF Init, PInv, RuntimeTypes, MaskCurrent, PoolExclusive

\* A step of p that touches neither its teams nor its bitmask and leaves p outside
\* MPI_Allreduce.
Aside(p) ==
  /\ plan' = plan /\ pool' = pool /\ teams' = teams
  /\ pc' = pc \/ pc' = [pc EXCEPT ![p] = @ + 1]
  /\ \E v : at' = [at EXCEPT ![p] = v] /\ v.fn # "MPI_Allreduce"
  /\ mpi' = mpi \/ \E v : mpi' = [mpi EXCEPT ![p] = v]

LEMMA EntersAside ==
  ASSUME NEW p \in PE, NEW fn, NEW step, NEW value, fn # "MPI_Allreduce",
         Enters(p, fn, step, value), UNCHANGED <<plan, pool, teams, pc>>
  PROVE  Aside(p)
<1> DEFINE v == [fn |-> fn, step |-> step]
<1>1. at' = [at EXCEPT ![p] = v] /\ v.fn # "MPI_Allreduce"
      BY DEF Enters
<1>2. \E w : mpi' = [mpi EXCEPT ![p] = w]
      BY DEF Enters
<1> QED BY <1>1, <1>2, Zenon DEF Aside

LEMMA ReturnsAside ==
  ASSUME NEW p \in PE, Returns(p), UNCHANGED <<plan, pool, teams, mpi>>
  PROVE  Aside(p)
<1> DEFINE v == [fn |-> "app", step |-> 0]
<1>1. at' = [at EXCEPT ![p] = v] /\ v.fn # "MPI_Allreduce"
      BY DEF Returns
<1> QED BY <1>1, Zenon DEF Aside, Returns

LEMMA AsideKeeps ==
  ASSUME PInv, NEW p \in PE, Aside(p) PROVE PInv'
<1>0. RuntimeTypes /\ MaskCurrent /\ PoolExclusive
      BY DEF PInv
<1>1. /\ pc' \in [PE -> Nat] /\ \A q \in PE : pc[q] <= pc'[q] /\ (q # p => pc'[q] = pc[q])
      /\ \A q \in PE : q # p => at'[q] = at[q] /\ mpi'[q] = mpi[q]
      /\ at'[p].fn # "MPI_Allreduce" /\ DOMAIN at' = PE /\ DOMAIN mpi' = PE
      BY <1>0 DEF RuntimeTypes, Aside
<1>2. RuntimeTypes'
  <2>1. ASSUME NEW q \in PE, NEW i \in DOMAIN teams'[q] PROVE i \in Nat /\ i <= pc'[q]
    <3>1. i \in Nat /\ i <= pc[q] /\ pc[q] \in Nat /\ pc'[q] \in Nat /\ pc[q] <= pc'[q]
          BY <1>0, <1>1, <2>1 DEF RuntimeTypes, Aside
    <3> QED BY <3>1
  <2> QED BY <1>0, <1>1, <2>1 DEF RuntimeTypes, Aside, PE
<1>3. MaskCurrent'
      BY <1>0, <1>1 DEF MaskCurrent, Aside, Key, PE
<1>4. PoolExclusive'
      BY <1>0 DEF PoolExclusive, Aside, PE
<1> QED BY <1>2, <1>3, <1>4 DEF PInv

\* The steps of a PE that change its teams or its bitmask, or show the bitmask.
LEMMA TeamStepsKeep ==
  ASSUME PInv, NEW p \in PE,
         \/ createNewTeam(p) \/ create_new_team(p) \/ team_created(p)
         \/ \E i : rocshmem_team_destroy(p, i)
         \/ rocshmem_finalize(p)
  PROVE  PInv'
<1>0. RuntimeTypes /\ MaskCurrent /\ PoolExclusive
      BY DEF PInv
<1>1. ASSUME createNewTeam(p) PROVE PInv'
  <2>1. plan' = plan /\ plan.backend = "RO" /\ mpi' = mpi /\ pool' = pool
        BY <1>1 DEF createNewTeam
  <2>2. /\ pc' = [pc EXCEPT ![p] = @ + 1] /\ DOMAIN at' = PE /\ at'[p].fn = "app"
        /\ \A q \in PE : q # p => at'[q] = at[q] /\ teams'[q] = teams[q]
        /\ DOMAIN teams' = PE /\ DOMAIN teams'[p] = DOMAIN teams[p] \cup {pc[p] + 1}
        BY <1>0, <1>1 DEF createNewTeam, Returns, With, RuntimeTypes
  <2>3. RuntimeTypes'
        BY <1>0, <2>1, <2>2 DEF RuntimeTypes, PE
  <2> QED BY <1>0, <2>1, <2>2, <2>3 DEF PInv, MaskCurrent, PoolExclusive, Key, PE, RuntimeTypes
<1>2. ASSUME create_new_team(p) PROVE PInv'
  <2>1. /\ plan' = plan /\ pc' = pc /\ pool' = pool /\ teams' = teams /\ DOMAIN at' = PE
        /\ DOMAIN mpi' = PE /\ at'[p].step = 2 /\ mpi'[p][<<pc[p] + 1, 2>>] = pool[p]
        /\ \A q \in PE : q # p => at'[q] = at[q] /\ mpi'[q] = mpi[q]
        BY <1>0, <1>2 DEF create_new_team, Enters, With, RuntimeTypes
  <2> QED BY <1>0, <2>1 DEF PInv, RuntimeTypes, MaskCurrent, PoolExclusive, Key, PE
<1>3. ASSUME team_created(p) PROVE PInv'
  <2> DEFINE index == get_ls_non_zero_bit(reduced_bitmask(p))
  <2>1. /\ plan' = plan /\ mpi' = mpi /\ at[p].fn = "MPI_Allreduce" /\ reduced_bitmask(p) # {}
        /\ pool' = [pool EXCEPT ![p] = @ \ {index}]
        /\ teams' = [teams EXCEPT ![p] = With(@, pc[p] + 1, NewTeam(p, index))]
        /\ pc' = [pc EXCEPT ![p] = @ + 1] /\ DOMAIN at' = PE /\ at'[p].fn = "app"
        /\ \A q \in PE : q # p => at'[q] = at[q]
        BY <1>0, <1>3 DEF team_created, Returns, Gathered, RuntimeTypes
  <2>2. reduced_bitmask(p) \subseteq pool[p]
        BY <1>0, <2>1 DEF reduced_bitmask, MaskCurrent
  <2>3. /\ DOMAIN teams'[p] = DOMAIN teams[p] \cup {pc[p] + 1} /\ DOMAIN teams' = PE
        /\ teams'[p][pc[p] + 1].index = index
        /\ \A i \in DOMAIN teams[p] : i # pc[p] + 1 => teams'[p][i] = teams[p][i]
        /\ \A q \in PE : q # p => teams'[q] = teams[q]
        BY <1>0, <2>1 DEF RuntimeTypes, With, NewTeam
  <2>4. RuntimeTypes'
        BY <1>0, <2>1, <2>3 DEF RuntimeTypes, PE
  <2>5. MaskCurrent'
        BY <1>0, <2>1 DEF MaskCurrent, Key, PE, RuntimeTypes
  <2>6. ASSUME plan.backend # "RO", NEW q \in PE
        PROVE  Exclusive(teams'[q], pool'[q], plan.max_num_teams)
    <3>0. \A r \in PE : Exclusive(teams[r], pool[r], plan.max_num_teams)
          BY <1>0, <2>6, PerPE
    <3>1. CASE q # p
      <4>1. teams'[q] = teams[q] /\ pool'[q] = pool[q]
            BY <1>0, <2>1, <2>3, <3>1 DEF RuntimeTypes
      <4> QED BY <3>0, <4>1
    <3>2. CASE q = p
      <4>1. pool[p] \in SUBSET Nat
            BY <1>0, <3>0 DEF RuntimeTypes, Exclusive
      <4>2. index \in reduced_bitmask(p)
            BY <2>1, <2>2, <4>1, LowestBitIsSet
      <4>3. NewTeam(p, index).index = index /\ index \in pool[p]
            BY <2>2, <4>2 DEF NewTeam
      <4>4. pc[p] + 1 \notin DOMAIN teams[p] /\ plan.max_num_teams \in Nat
            BY <1>0 DEF RuntimeTypes
      <4>5. Exclusive(With(teams[p], pc[p] + 1, NewTeam(p, index)), pool[p] \ {index},
                      plan.max_num_teams)
            BY <3>0, <4>3, <4>4, TakeIndex
      <4>6. /\ teams'[p] = With(teams[p], pc[p] + 1, NewTeam(p, index))
            /\ pool'[p] = pool[p] \ {index}
            BY <1>0, <2>1 DEF RuntimeTypes
      <4> QED BY <3>2, <4>5, <4>6
    <3> QED BY <3>1, <3>2
  <2>7. PoolExclusive'
        BY <2>1, <2>6 DEF PoolExclusive, Exclusive, PE
  <2> QED BY <2>4, <2>5, <2>7 DEF PInv
<1>4. ASSUME NEW i, rocshmem_team_destroy(p, i) PROVE PInv'
  <2>1. /\ plan' = plan /\ mpi' = mpi /\ pool' = team_destroy(p, {i})
        /\ teams' = [teams EXCEPT ![p] = Without(@, i)]
        /\ pc' = [pc EXCEPT ![p] = @ + 1] /\ DOMAIN at' = PE /\ at'[p].fn = "app"
        /\ \A q \in PE : q # p => at'[q] = at[q]
        BY <1>0, <1>4 DEF rocshmem_team_destroy, Returns, RuntimeTypes
  <2>2. /\ DOMAIN teams' = PE /\ DOMAIN pool' = PE /\ teams'[p] = Without(teams[p], i)
        /\ \A q \in PE : q # p => teams'[q] = teams[q] /\ pool'[q] = pool[q]
        /\ plan.backend # "RO" =>
             pool'[p] = pool[p] \cup {teams[p][j].index : j \in {i} \cap DOMAIN teams[p]}
    <3>1. DOMAIN teams' = PE /\ teams'[p] = Without(teams[p], i)
          BY <1>0, <2>1 DEF RuntimeTypes
    <3>2. \A q \in PE : q # p => teams'[q] = teams[q]
          BY <1>0, <2>1 DEF RuntimeTypes
    <3>3. DOMAIN pool' = PE /\ \A q \in PE : q # p => pool'[q] = pool[q]
          BY <1>0, <2>1 DEF RuntimeTypes, team_destroy
    <3>4. plan.backend # "RO" =>
            pool'[p] = pool[p] \cup {teams[p][j].index : j \in {i} \cap DOMAIN teams[p]}
          BY <1>0, <2>1, Zenon DEF RuntimeTypes, team_destroy
    <3> QED BY <3>1, <3>2, <3>3, <3>4
  <2>3. RuntimeTypes'
    <3>1. DOMAIN teams'[p] = DOMAIN teams[p] \ {i}
          BY <2>2 DEF Without
    <3> QED BY <1>0, <2>1, <2>2, <3>1 DEF RuntimeTypes, PE
  <2>4. MaskCurrent'
    <3> SUFFICES ASSUME NEW q \in PE, at'[q].fn = "MPI_Allreduce"
                 PROVE  mpi'[q][Key(q)'] = pool'[q]
        BY DEF MaskCurrent, PE
    <3>1. q # p /\ at'[q] = at[q] /\ pool'[q] = pool[q] /\ pc'[q] = pc[q] /\ mpi'[q] = mpi[q]
          BY <1>0, <2>1, <2>2 DEF RuntimeTypes
    <3> QED BY <1>0, <3>1 DEF MaskCurrent, Key
  <2>5. ASSUME plan.backend # "RO", NEW q \in PE
        PROVE  Exclusive(teams'[q], pool'[q], plan.max_num_teams)
    <3>0. Exclusive(teams[q], pool[q], plan.max_num_teams) /\ plan.max_num_teams \in Nat
          BY <1>0, <2>5, PerPE DEF RuntimeTypes
    <3> QED BY <2>2, <2>5, <3>0, GiveBack, SMTT(15)
  <2>6. PoolExclusive'
        BY <2>1, <2>5 DEF PoolExclusive, Exclusive, PE
  <2> QED BY <2>3, <2>4, <2>6 DEF PInv
<1>5. ASSUME rocshmem_finalize(p) PROVE PInv'
  <2>1. /\ plan' = plan /\ pc' = pc /\ pool' = team_destroy(p, DOMAIN teams[p])
        /\ teams' = [teams EXCEPT ![p] = <<>>]
        /\ DOMAIN at' = PE /\ DOMAIN mpi' = PE /\ at'[p].fn = "rocshmem_finalize"
        /\ \A q \in PE : q # p => at'[q] = at[q] /\ mpi'[q] = mpi[q]
        BY <1>0, <1>5 DEF rocshmem_finalize, Enters, RuntimeTypes
  <2>2. /\ DOMAIN teams' = PE /\ DOMAIN pool' = PE /\ teams'[p] = <<>>
        /\ \A q \in PE : q # p => teams'[q] = teams[q] /\ pool'[q] = pool[q]
        /\ plan.backend # "RO" =>
             pool'[p] = pool[p] \cup {teams[p][j].index : j \in DOMAIN teams[p]}
        BY <1>0, <2>1 DEF RuntimeTypes, team_destroy
  <2>3. RuntimeTypes'
        BY <1>0, <2>1, <2>2 DEF RuntimeTypes, PE
  <2>4. MaskCurrent'
        BY <1>0, <2>1, <2>2 DEF MaskCurrent, Key, PE
  <2>5. ASSUME plan.backend # "RO", NEW q \in PE
        PROVE  Exclusive(teams'[q], pool'[q], plan.max_num_teams)
    <3>0. Exclusive(teams[q], pool[q], plan.max_num_teams) /\ plan.max_num_teams \in Nat
          BY <1>0, <2>5, PerPE DEF RuntimeTypes
    <3> QED BY <2>2, <2>5, <3>0, GiveAllBack
  <2>6. PoolExclusive'
        BY <2>1, <2>5 DEF PoolExclusive, Exclusive, PE
  <2> QED BY <2>3, <2>4, <2>6 DEF PInv
<1> QED BY <1>1, <1>2, <1>3, <1>4, <1>5

\* Every step keeps the inductive invariant.
LEMMA NextPInv == PInv /\ [Next]_vars => PInv'
<1> SUFFICES ASSUME PInv, [Next]_vars PROVE PInv'
    OBVIOUS
<1>1. CASE UNCHANGED vars
      BY <1>1 DEF vars, PInv, RuntimeTypes, MaskCurrent, PoolExclusive, Key, PE
<1>2. ASSUME NEW p \in PE, Step(p) PROVE PInv'
  <2>1. CASE rocshmem_init(p) \/ start_up(p)
    <3>1. Aside(p)
          BY <2>1, EntersAside DEF rocshmem_init, start_up, start_up_step
    <3> QED BY <3>1, AsideKeeps
  <2>2. CASE start_up_done(p) \/ rocshmem_malloc_returns(p) \/ rocshmem_free_returns(p)
    <3>1. Aside(p)
          BY <2>2, ReturnsAside DEF start_up_done, rocshmem_malloc_returns, rocshmem_free_returns
    <3> QED BY <3>1, AsideKeeps
  <2>3. CASE createNewTeam(p) \/ create_new_team(p) \/ team_created(p) \/ rocshmem_finalize(p)
        BY <2>3, TeamStepsKeep
  <2>4. CASE no_common_index(p) \/ no_window(p)
    <3>1. UNCHANGED <<plan, pc, at, mpi, pool, teams>>
          BY <2>4 DEF no_common_index, no_window
    <3> QED BY <3>1 DEF PInv, RuntimeTypes, MaskCurrent, PoolExclusive, Key, PE
  <2>5. CASE not_in_new_team(p) \/ rocshmem_ctx_create(p) \/ finalize_returns(p)
    <3>1. Aside(p)
          BY <2>5, ReturnsAside DEF not_in_new_team, rocshmem_ctx_create, finalize_returns
    <3> QED BY <3>1, AsideKeeps
  <2>6. CASE teams_destroy(p)
    <3>1. Aside(p)
          BY <2>6, EntersAside DEF teams_destroy
    <3> QED BY <3>1, AsideKeeps
  <2>8. ASSUME NEW c, rocshmem_malloc(p, c[2]) \/ rocshmem_free(p, c[2])
        PROVE  PInv'
    <3>1. Aside(p)
          BY <2>8, EntersAside DEF rocshmem_malloc, rocshmem_free
    <3> QED BY <3>1, AsideKeeps
  <2>9. ASSUME NEW c, team_split_refused(p, c[2], c[3], c[4], c[5]) \/ rocshmem_ctx_destroy(p, c[2])
        PROVE  PInv'
    <3>1. Aside(p)
          BY <2>9, ReturnsAside DEF team_split_refused, rocshmem_ctx_destroy
    <3> QED BY <3>1, AsideKeeps
  <2>10. ASSUME NEW c, rocshmem_team_split_strided(p, c[2], c[3], c[4], c[5])
         PROVE  PInv'
    <3>1. Aside(p)
          BY <2>10, EntersAside DEF rocshmem_team_split_strided
    <3> QED BY <3>1, AsideKeeps
  <2>7. ASSUME NEW c, rocshmem_team_destroy(p, c[2]) PROVE PInv'
        BY <2>7, TeamStepsKeep
  <2> QED BY <1>2, <2>1, <2>2, <2>3, <2>4, <2>5, <2>6, <2>7, <2>8, <2>9, <2>10, Zenon DEF Step
<1> QED BY <1>1, <1>2 DEF Next, Finished

\* The bitmasks of create_new_team and team_destroy never hand an index of the pool of
\* work arrays to two live teams of a PE, for every number of PEs and teams and every
\* program.
THEOREM PoolStaysExclusive == Spec => []PoolExclusive
<1>1. Init => PInv
      BY InitPInv
<1>2. PInv /\ [Next]_vars => PInv'
      BY NextPInv
<1>3. PInv => PoolExclusive
      BY DEF PInv
<1> QED BY <1>1, <1>2, <1>3, PTL DEF Spec

-----------------------------------------------------------------------------
(***************************************************************************)
(* Start-up.  Provides and Ordered are about a list of steps; both pass    *)
(* from two lists to the list of all their steps, so that a constructor is *)
(* covered by what it is put together from.                                *)
(***************************************************************************)
Fact == {"heap", "wrk_sync", "barrier_sync", "pSync", "heap_mr", "INIT", "RTR", "RTS", "DCT"}
StartStep == [does : SUBSET Fact, takes : {0, ALIGNMENT}]

Provides(s, f) == \E k \in 1 .. Len(s) : f \in s[k].does

\* Ready to send directly follows ready to receive.
Ordered(s) ==
  \A k \in 1 .. Len(s) : "RTS" \in s[k].does => k > 1 /\ "RTR" \in s[k - 1].does

LEMMA ConcatSteps ==
  ASSUME NEW s \in Seq(StartStep), NEW t \in Seq(StartStep)
  PROVE  /\ s \o t \in Seq(StartStep) /\ Len(s \o t) = Len(s) + Len(t)
         /\ \A k \in 1 .. Len(s) : (s \o t)[k] = s[k]
         /\ \A k \in 1 .. Len(t) : (s \o t)[Len(s) + k] = t[k]
         /\ \A k \in 1 .. Len(s) + Len(t) : k > Len(s) => (s \o t)[k] = t[k - Len(s)]
  OBVIOUS

LEMMA ConcatProvides ==
  ASSUME NEW s \in Seq(StartStep), NEW t \in Seq(StartStep), NEW f,
         Provides(s, f) \/ Provides(t, f)
  PROVE  Provides(s \o t, f)
<1> DEFINE u == s \o t
<1>1. /\ Len(u) = Len(s) + Len(t) /\ Len(s) \in Nat /\ Len(t) \in Nat
      /\ \A k \in 1 .. Len(s) : u[k] = s[k]
      /\ \A k \in 1 .. Len(t) : u[Len(s) + k] = t[k]
      BY ConcatSteps
<1> HIDE DEF u
<1>2. CASE Provides(s, f)
  <2>1. PICK k \in 1 .. Len(s) : f \in s[k].does
        BY <1>2, Zenon DEF Provides
  <2>2. k \in 1 .. Len(u)
        BY <1>1
  <2> QED BY <1>1, <2>1, <2>2, Zenon DEF Provides, u
<1>3. CASE Provides(t, f)
  <2>1. PICK k \in 1 .. Len(t) : f \in t[k].does
        BY <1>3, Zenon DEF Provides
  <2>2. Len(s) + k \in 1 .. Len(u)
        BY <1>1
  <2> QED BY <1>1, <2>1, <2>2, Zenon DEF Provides, u
<1> QED BY <1>2, <1>3

LEMMA ConcatOrdered ==
  ASSUME NEW s \in Seq(StartStep), NEW t \in Seq(StartStep), Ordered(s), Ordered(t)
  PROVE  Ordered(s \o t)
<1> DEFINE u == s \o t
<1>1. /\ Len(u) = Len(s) + Len(t) /\ Len(s) \in Nat /\ Len(t) \in Nat
      /\ \A k \in 1 .. Len(s) : u[k] = s[k]
      /\ \A k \in 1 .. Len(t) : u[Len(s) + k] = t[k]
      /\ \A k \in 1 .. Len(s) + Len(t) : k > Len(s) => u[k] = t[k - Len(s)]
      BY ConcatSteps
<1> HIDE DEF u
<1>2. ASSUME NEW k \in 1 .. Len(u), "RTS" \in u[k].does
      PROVE  k > 1 /\ "RTR" \in u[k - 1].does
  <2>1. CASE k <= Len(s)
    <3>1. k \in 1 .. Len(s) /\ u[k] = s[k]
          BY <1>1, <2>1
    <3>2. k > 1 /\ "RTR" \in s[k - 1].does
          BY <1>2, <3>1, Zenon DEF Ordered
    <3>3. k - 1 \in 1 .. Len(s)
          BY <1>1, <2>1, <3>2
    <3> QED BY <1>1, <3>2, <3>3, Zenon
  <2>2. CASE k > Len(s)
    <3>1. k - Len(s) \in 1 .. Len(t) /\ u[k] = t[k - Len(s)]
          BY <1>1, <2>2
    <3>2. k - Len(s) > 1 /\ "RTR" \in t[k - Len(s) - 1].does
          BY <1>2, <3>1, Zenon DEF Ordered
    <3>3. k - Len(s) - 1 \in 1 .. Len(t) /\ k > 1 /\ Len(s) + (k - Len(s) - 1) = k - 1
          BY <1>1, <3>2
    <3>4. u[Len(s) + (k - Len(s) - 1)] = t[k - Len(s) - 1]
          BY <1>1, <3>3, Zenon
    <3> QED BY <3>2, <3>3, <3>4, Zenon
  <2> QED BY <1>1, <2>1, <2>2
<1> QED BY <1>2, Zenon DEF Ordered, u

LEMMA OneStep ==
  ASSUME NEW F \in SUBSET Fact, NEW n \in {0, ALIGNMENT}
  PROVE  /\ <<Takes(n, F)>> \in Seq(StartStep)
         /\ \A f \in F : Provides(<<Takes(n, F)>>, f)
         /\ "RTS" \notin F => Ordered(<<Takes(n, F)>>)
<1>1. Takes(n, F) \in StartStep /\ Takes(n, F).does = F
      BY DEF Takes, StartStep
<1>2. PICK x : x = Takes(n, F)
      BY Zenon
<1>3. <<x>> \in Seq(StartStep) /\ Len(<<x>>) = 1 /\ <<x>>[1] = x /\ x.does = F
      BY <1>1, <1>2
<1>4. 1 \in 1 .. Len(<<x>>) /\ \A k \in 1 .. Len(<<x>>) : k = 1
      BY <1>3
<1>5. \A f \in F : Provides(<<x>>, f)
      BY <1>3, <1>4, Zenon DEF Provides
<1>6. "RTS" \notin F => Ordered(<<x>>)
      BY <1>3, <1>4, Zenon DEF Ordered
<1> QED BY <1>2, <1>3, <1>5, <1>6, Zenon

LEMMA SetsStep ==
  ASSUME NEW F \in SUBSET Fact
  PROVE  /\ <<Sets(F)>> \in Seq(StartStep)
         /\ \A f \in F : Provides(<<Sets(F)>>, f)
         /\ "RTS" \notin F => Ordered(<<Sets(F)>>)
<1>1. Sets(F) = Takes(0, F)
      BY Zenon DEF Sets, Takes
<1> QED BY <1>1, OneStep, Zenon

\* A list of steps that can be part of a constructor.
Part(s) == s \in Seq(StartStep) /\ Ordered(s)

LEMMA Parts ==
  ASSUME NEW s, NEW t, Part(s), Part(t)
  PROVE  /\ Part(s \o t)
         /\ \A f : Provides(s, f) \/ Provides(t, f) => Provides(s \o t, f)
<1>1. s \in Seq(StartStep) /\ t \in Seq(StartStep) /\ Ordered(s) /\ Ordered(t)
      BY Zenon DEF Part
<1>2. s \o t \in Seq(StartStep)
      BY <1>1, ConcatSteps, Zenon
<1>3. Ordered(s \o t)
      BY <1>1, ConcatOrdered, Zenon
<1>4. ASSUME NEW f, Provides(s, f) \/ Provides(t, f) PROVE Provides(s \o t, f)
      BY <1>1, <1>4, ConcatProvides, Zenon
<1> QED BY <1>2, <1>3, <1>4, Zenon DEF Part

LEMMA SmallParts ==
  /\ Part(RemoteHeapInfo) /\ Provides(RemoteHeapInfo, "heap")
  /\ Part(HostInterface) /\ Part(ipcHostInit) /\ Part(<<Sets({})>>)
  /\ Part(init_wrk_sync_buffer) /\ Provides(init_wrk_sync_buffer, "wrk_sync")
  /\ Part(ipc_collective_init) /\ Provides(ipc_collective_init, "barrier_sync")
  /\ Part(ipc_teams_init) /\ Provides(ipc_teams_init, "pSync")
  /\ Part(ib_collective_init) /\ Provides(ib_collective_init, "barrier_sync")
  /\ Part(heap_memory_rkey) /\ Provides(heap_memory_rkey, "heap_mr")
  /\ Part(rocshmem_g_init)
<1>1. ASSUME NEW f \in Fact, f # "RTS"
      PROVE  Part(<<Sets({f})>>) /\ Provides(<<Sets({f})>>, f)
            /\ Part(<<Takes(ALIGNMENT, {f})>>) /\ Provides(<<Takes(ALIGNMENT, {f})>>, f)
  <2>1. {f} \in SUBSET Fact /\ f \in {f} /\ "RTS" \notin {f} /\ ALIGNMENT \in {0, ALIGNMENT}
        BY <1>1, Zenon
  <2> QED BY <2>1, OneStep, SetsStep, Zenon DEF Part
<1>2. Part(<<Sets({})>>) /\ Part(<<Takes(ALIGNMENT, {})>>)
  <2>1. {} \in SUBSET Fact /\ "RTS" \notin {} /\ ALIGNMENT \in {0, ALIGNMENT}
        BY Zenon
  <2> QED BY <2>1, OneStep, SetsStep, Zenon DEF Part
<1>3. /\ "heap" # "RTS" /\ "wrk_sync" # "RTS" /\ "barrier_sync" # "RTS" /\ "pSync" # "RTS"
      /\ "heap_mr" # "RTS"
      /\ {"heap", "wrk_sync", "barrier_sync", "pSync", "heap_mr"} \subseteq Fact
      BY Zenon DEF Fact
<1>4. Part(RemoteHeapInfo) /\ Provides(RemoteHeapInfo, "heap")
      BY <1>1, <1>3, Zenon DEF RemoteHeapInfo
<1>5. Part(HostInterface) /\ Part(ipcHostInit) /\ Part(rocshmem_g_init)
      BY <1>2, Zenon DEF HostInterface, ipcHostInit, rocshmem_g_init
<1>6. Part(init_wrk_sync_buffer) /\ Provides(init_wrk_sync_buffer, "wrk_sync")
      BY <1>1, <1>3, Zenon DEF init_wrk_sync_buffer
<1>7. Part(ipc_collective_init) /\ Provides(ipc_collective_init, "barrier_sync")
      BY <1>1, <1>3, Zenon DEF ipc_collective_init
<1>8. Part(ipc_teams_init) /\ Provides(ipc_teams_init, "pSync")
      BY <1>1, <1>3, Zenon DEF ipc_teams_init
<1>9. Part(ib_collective_init) /\ Provides(ib_collective_init, "barrier_sync")
      BY <1>1, <1>3, Zenon DEF ib_collective_init
<1>10. Part(heap_memory_rkey) /\ Provides(heap_memory_rkey, "heap_mr")
      BY <1>1, <1>3, Zenon DEF heap_memory_rkey
<1> QED BY <1>2, <1>4, <1>5, <1>6, <1>7, <1>8, <1>9, <1>10, Zenon

\* The pools of the teams, then the values in them.
LEMMA TeamPools == Part(ib_teams_init) /\ Provides(ib_teams_init, "pSync")
<1> DEFINE s == [i \in 1 .. 6 |-> Takes(ALIGNMENT, {})]
           t == <<Sets({"pSync"})>>
<1>1. Takes(ALIGNMENT, {}) \in StartStep /\ Takes(ALIGNMENT, {}).does = {}
      BY DEF Takes, StartStep
<1>2. s \in Seq(StartStep) /\ Len(s) = 6 /\ \A k \in 1 .. 6 : s[k] = Takes(ALIGNMENT, {})
      BY <1>1
<1>3. Part(s)
  <2> HIDE DEF s
  <2>1. \A k \in 1 .. Len(s) : s[k].does = {}
        BY <1>1, <1>2
  <2> QED BY <1>2, <2>1, Zenon DEF Part, Ordered
<1>4. Part(t) /\ Provides(t, "pSync")
      BY SmallParts, Zenon DEF ipc_teams_init
<1> HIDE DEF s, t
<1>5. Part(s \o t) /\ Provides(s \o t, "pSync")
      BY <1>3, <1>4, Parts, Zenon
<1> QED BY <1>5, Zenon DEF ib_teams_init, s, t

LEMMA ThreeSteps ==
  ASSUME NEW A \in SUBSET Fact, NEW B \in SUBSET Fact, NEW C \in SUBSET Fact,
         NEW s, s = <<Sets(A), Sets(B)>> \o <<Sets(C)>>
  PROVE  /\ Len(s) = 3 /\ s \in Seq(StartStep)
         /\ s[1].does = A /\ s[2].does = B /\ s[3].does = C
<1>1. PICK a, b, c \in StartStep : /\ a = Sets(A) /\ b = Sets(B) /\ c = Sets(C)
                                   /\ a.does = A /\ b.does = B /\ c.does = C
  <2>1. ASSUME NEW F \in SUBSET Fact PROVE Sets(F) \in StartStep /\ Sets(F).does = F
        BY DEF Sets, StartStep
  <2> QED BY <2>1, Zenon
<1>2. /\ <<a, b>> \in Seq(StartStep) /\ Len(<<a, b>>) = 2 /\ <<a, b>>[1] = a /\ <<a, b>>[2] = b
      /\ <<c>> \in Seq(StartStep) /\ Len(<<c>>) = 1 /\ <<c>>[1] = c
      OBVIOUS
<1>3. s = <<a, b>> \o <<c>>
      BY <1>1, Zenon
<1>4. Len(s) = 3 /\ s \in Seq(StartStep) /\ s[1] = a /\ s[2] = b /\ s[3] = c
      BY <1>2, <1>3, ConcatSteps
<1> QED BY <1>1, <1>3, <1>4, Zenon

\* A queue pair sends only behind the barrier at which every peer receives.
LEMMA ConnectionParts ==
  ASSUME NEW c
  PROVE  /\ Part(connection_initialize(c))
         /\ c = "RC" => /\ Provides(connection_initialize(c), "RTR")
                        /\ Provides(connection_initialize(c), "RTS")
         /\ c # "RC" => Provides(connection_initialize(c), "DCT")
<1>1. CASE c = "RC"
  <2> DEFINE s == ReliableConnection \o <<Sets({"RTS"})>>
  <2>0. {"INIT"} \in SUBSET Fact /\ {"RTR"} \in SUBSET Fact /\ {"RTS"} \in SUBSET Fact
        /\ {"DCT"} \in SUBSET Fact /\ {} \in SUBSET Fact
        BY Zenon DEF Fact
  <2>1. /\ Len(s) = 3 /\ s \in Seq(StartStep)
        /\ s[1].does = {"INIT"} /\ s[2].does = {"RTR"} /\ s[3].does = {"RTS"}
    <3>1. s = <<Sets({"INIT"}), Sets({"RTR"})>> \o <<Sets({"RTS"})>>
          BY Zenon DEF ReliableConnection
    <3>2. PICK A, B, C \in SUBSET Fact : A = {"INIT"} /\ B = {"RTR"} /\ C = {"RTS"}
          BY <2>0, Zenon
    <3>3. s = <<Sets(A), Sets(B)>> \o <<Sets(C)>>
          BY <3>1, <3>2, Zenon
    <3> HIDE DEF s
    <3>4. Len(s) = 3 /\ s \in Seq(StartStep) /\ s[1].does = A /\ s[2].does = B /\ s[3].does = C
          BY <3>3, ThreeSteps
    <3> QED BY <3>2, <3>4, Zenon
  <2> HIDE DEF s
  <2>2. Part(s)
        BY <2>1 DEF Part, Ordered
  <2>3. Provides(s, "RTR") /\ Provides(s, "RTS")
        BY <2>1 DEF Provides
  <2>4. connection_initialize(c) = s
        BY <1>1, Zenon DEF connection_initialize, s
  <2> QED BY <1>1, <2>2, <2>3, <2>4, Zenon
<1>2. CASE c # "RC"
  <2> DEFINE s == DynamicConnection \o <<Sets({})>>
  <2>0. {"INIT"} \in SUBSET Fact /\ {"RTR"} \in SUBSET Fact /\ {"RTS"} \in SUBSET Fact
        /\ {"DCT"} \in SUBSET Fact /\ {} \in SUBSET Fact
        BY Zenon DEF Fact
  <2>1. /\ Len(s) = 3 /\ s \in Seq(StartStep)
        /\ s[1].does = {"DCT"} /\ s[2].does = {} /\ s[3].does = {}
    <3>1. s = <<Sets({"DCT"}), Sets({})>> \o <<Sets({})>>
          BY Zenon DEF DynamicConnection
    <3>2. PICK A, B, C \in SUBSET Fact : A = {"DCT"} /\ B = {} /\ C = {}
          BY <2>0, Zenon
    <3>3. s = <<Sets(A), Sets(B)>> \o <<Sets(C)>>
          BY <3>1, <3>2, Zenon
    <3> HIDE DEF s
    <3>4. Len(s) = 3 /\ s \in Seq(StartStep) /\ s[1].does = A /\ s[2].does = B /\ s[3].does = C
          BY <3>3, ThreeSteps
    <3> QED BY <3>2, <3>4, Zenon
  <2> HIDE DEF s
  <2>2. Part(s)
        BY <2>1 DEF Part, Ordered
  <2>3. Provides(s, "DCT")
        BY <2>1 DEF Provides
  <2>4. connection_initialize(c) = s
        BY <1>2, Zenon DEF connection_initialize, s
  <2> QED BY <1>2, <2>2, <2>3, <2>4, Zenon
<1> QED BY <1>1, <1>2

LEMMA HdpPart == Part(exchange_hdp_info)
<1>1. PICK a \in StartStep : a = Sets({}) /\ a.does = {}
  <2>1. Sets({}) \in StartStep /\ Sets({}).does = {}
        BY DEF Sets, StartStep
  <2> QED BY <2>1, Zenon
<1>2. PICK s : s = <<a, a>>
      BY Zenon
<1>3. s \in Seq(StartStep) /\ Len(s) = 2 /\ s[1] = a /\ s[2] = a
      BY <1>2
<1>4. Ordered(s)
      BY <1>1, <1>3 DEF Ordered
<1> QED BY <1>1, <1>2, <1>3, <1>4, Zenon DEF Part, exchange_hdp_info

LEMMA IPCStartUp ==
  /\ Part(IPCBackend)
  /\ \A f \in {"heap", "wrk_sync", "barrier_sync", "pSync"} : Provides(IPCBackend, f)
<1> DEFINE a == RemoteHeapInfo
           b == ipcHostInit
           c == HostInterface
           d == init_wrk_sync_buffer
           e == ipc_collective_init
           g == ipc_teams_init
<1>0. /\ Part(a) /\ Part(b) /\ Part(c) /\ Part(d) /\ Part(e) /\ Part(g)
      /\ Provides(a, "heap") /\ Provides(d, "wrk_sync") /\ Provides(e, "barrier_sync")
      /\ Provides(g, "pSync") /\ IPCBackend = a \o b \o c \o d \o e \o g
      BY SmallParts, Zenon DEF IPCBackend
<1> HIDE DEF a, b, c, d, e, g
<1>1. Part(a \o b) /\ Provides(a \o b, "heap")
      BY <1>0, Parts, Zenon
<1>2. Part(a \o b \o c) /\ Provides(a \o b \o c, "heap")
      BY <1>0, <1>1, Parts, Zenon
<1>3. PICK u : u = a \o b \o c
      BY Zenon
<1>4. Part(u \o d) /\ Provides(u \o d, "heap") /\ Provides(u \o d, "wrk_sync")
      BY <1>0, <1>2, <1>3, Parts, Zenon
<1>5. PICK v : v = u \o d
      BY Zenon
<1>6. /\ Part(v \o e) /\ Provides(v \o e, "heap") /\ Provides(v \o e, "wrk_sync")
      /\ Provides(v \o e, "barrier_sync")
      BY <1>0, <1>4, <1>5, Parts, Zenon
<1>7. PICK w : w = v \o e
      BY Zenon
<1>8. /\ Part(w \o g) /\ Provides(w \o g, "heap") /\ Provides(w \o g, "wrk_sync")
      /\ Provides(w \o g, "barrier_sync") /\ Provides(w \o g, "pSync")
      BY <1>0, <1>6, <1>7, Parts, Zenon
<1>9. IPCBackend = w \o g
      BY <1>0, <1>3, <1>5, <1>7, Zenon
<1> QED BY <1>8, <1>9, Zenon

LEMMA ROStartUp == Part(ROBackend) /\ Provides(ROBackend, "heap")
<1> DEFINE a == RemoteHeapInfo
           b == <<Sets({})>>
           c == rocshmem_g_init
           d == HostInterface
<1>0. /\ Part(a) /\ Part(b) /\ Part(c) /\ Part(d) /\ Provides(a, "heap")
      /\ ROBackend = a \o b \o c \o d
      BY SmallParts, Zenon DEF ROBackend
<1> HIDE DEF a, b, c, d
<1>1. Part(a \o b) /\ Provides(a \o b, "heap")
      BY <1>0, Parts, Zenon
<1>2. Part(a \o b \o c) /\ Provides(a \o b \o c, "heap")
      BY <1>0, <1>1, Parts, Zenon
<1>3. Part(a \o b \o c \o d) /\ Provides(a \o b \o c \o d, "heap")
      BY <1>0, <1>2, Parts, Zenon
<1> QED BY <1>0, <1>3, Zenon

\* What connection_initialize provides, and the rkeys of the heap.
LEMMA NetworkStartUp ==
  ASSUME NEW cn
  PROVE  /\ Part(networkHostSetup(cn)) /\ Provides(networkHostSetup(cn), "heap_mr")
         /\ \A f : Provides(connection_initialize(cn), f) => Provides(networkHostSetup(cn), f)
<1> DEFINE a == connection_initialize(cn)
           b == exchange_hdp_info
           c == heap_memory_rkey
           d == rocshmem_g_init
<1>0. /\ Part(a) /\ Part(b) /\ Part(c) /\ Part(d) /\ Provides(c, "heap_mr")
      /\ networkHostSetup(cn) = a \o b \o c \o d
      BY SmallParts, HdpPart, ConnectionParts, Zenon DEF networkHostSetup
<1> HIDE DEF a, b, c, d
<1>1. Part(a \o b) /\ \A f : Provides(a, f) => Provides(a \o b, f)
      BY <1>0, Parts, Zenon
<1>2. PICK u : u = a \o b
      BY Zenon
<1>3. Part(u \o c) /\ Provides(u \o c, "heap_mr") /\ \A f : Provides(u, f) => Provides(u \o c, f)
      BY <1>0, <1>1, <1>2, Parts, Zenon
<1>4. PICK v : v = u \o c
      BY Zenon
<1>5. Part(v \o d) /\ \A f : Provides(v, f) => Provides(v \o d, f)
      BY <1>0, <1>3, <1>4, Parts, Zenon
<1>6. networkHostSetup(cn) = v \o d
      BY <1>0, <1>2, <1>4, Zenon
<1>7. \A f : Provides(a, f) => Provides(v \o d, f)
      BY <1>1, <1>2, <1>3, <1>4, <1>5, Zenon
<1> QED BY <1>3, <1>4, <1>5, <1>6, <1>7, Zenon DEF a

LEMMA GPUIBStartUp ==
  ASSUME NEW cn
  PROVE  /\ Part(GPUIBBackend(cn))
         /\ \A f \in {"heap", "heap_mr", "barrier_sync", "pSync"} : Provides(GPUIBBackend(cn), f)
         /\ \A f : Provides(connection_initialize(cn), f) => Provides(GPUIBBackend(cn), f)
<1> DEFINE a == RemoteHeapInfo
           b == HostInterface
           c == ib_collective_init
           d == ib_teams_init
           e == <<Sets({})>>
           g == networkHostSetup(cn)
<1>0. /\ Part(a) /\ Part(b) /\ Part(c) /\ Part(d) /\ Part(e) /\ Part(g)
      /\ Provides(a, "heap") /\ Provides(c, "barrier_sync") /\ Provides(d, "pSync")
      /\ Provides(g, "heap_mr") /\ GPUIBBackend(cn) = a \o b \o c \o d \o e \o g
      BY SmallParts, TeamPools, NetworkStartUp, Zenon DEF GPUIBBackend
<1>00. \A f : Provides(connection_initialize(cn), f) => Provides(g, f)
      BY NetworkStartUp, Zenon
<1> HIDE DEF a, b, c, d, e, g
<1>1. Part(a \o b) /\ Provides(a \o b, "heap")
      BY <1>0, Parts, Zenon
<1>2. PICK u : u = a \o b
      BY Zenon
<1>3. Part(u \o c) /\ Provides(u \o c, "heap") /\ Provides(u \o c, "barrier_sync")
      BY <1>0, <1>1, <1>2, Parts, Zenon
<1>4. PICK v : v = u \o c
      BY Zenon
<1>5. /\ Part(v \o d) /\ Provides(v \o d, "heap") /\ Provides(v \o d, "barrier_sync")
      /\ Provides(v \o d, "pSync")
      BY <1>0, <1>3, <1>4, Parts, Zenon
<1>6. PICK w : w = v \o d
      BY Zenon
<1>7. /\ Part(w \o e) /\ Provides(w \o e, "heap") /\ Provides(w \o e, "barrier_sync")
      /\ Provides(w \o e, "pSync")
      BY <1>0, <1>5, <1>6, Parts, Zenon
<1>8. PICK x : x = w \o e
      BY Zenon
<1>9. /\ Part(x \o g) /\ Provides(x \o g, "heap") /\ Provides(x \o g, "barrier_sync")
      /\ Provides(x \o g, "pSync") /\ Provides(x \o g, "heap_mr")
      /\ \A f : Provides(g, f) => Provides(x \o g, f)
      BY <1>0, <1>7, <1>8, Parts, Zenon
<1>10. GPUIBBackend(cn) = x \o g
      BY <1>0, <1>2, <1>4, <1>6, <1>8, Zenon
<1> QED BY <1>00, <1>9, <1>10, Zenon

\* Whichever the backend: the steps of its constructor set up all that a peer uses,
\* and ready to send directly follows ready to receive.
LEMMA StartUpFacts ==
  ASSUME plan \in Plans
  PROVE  /\ StartUp \in Seq(StartStep) /\ Len(StartUp) \in Nat /\ Len(StartUp) >= 1
         /\ Ordered(StartUp)
         /\ \A f \in NeededFrom : Provides(StartUp, f)
<1>1. plan.backend \in {"IPC", "GPU_IB", "RO"}
      BY PlansAssumption, Zenon
<1>2. Part(StartUp) /\ (\A f \in NeededFrom : Provides(StartUp, f)) /\ Provides(StartUp, "heap")
  <2>1. CASE plan.backend = "IPC"
    <3>1. StartUp = IPCBackend /\ NeededFrom = {"heap", "wrk_sync", "barrier_sync", "pSync"}
          BY <2>1 DEF StartUp, NeededFrom
    <3> QED BY <3>1, IPCStartUp, Zenon
  <2>2. CASE plan.backend = "RO"
    <3>1. StartUp = ROBackend /\ NeededFrom = {"heap"}
          BY <2>2 DEF StartUp, NeededFrom
    <3> QED BY <3>1, ROStartUp, Zenon
  <2>3. CASE plan.backend = "GPU_IB"
    <3>1. PICK cn : cn = plan.connection
          BY Zenon
    <3>2. StartUp = GPUIBBackend(cn)
          BY <2>3, <3>1 DEF StartUp
    <3>3. NeededFrom = {"heap", "heap_mr", "barrier_sync", "pSync"}
                         \cup (IF cn = "RC" THEN {"RTR", "RTS"} ELSE {"DCT"})
          BY <2>3, <3>1 DEF NeededFrom
    <3>4. ASSUME NEW f \in NeededFrom PROVE Provides(GPUIBBackend(cn), f)
      <4>1. CASE f \in {"heap", "heap_mr", "barrier_sync", "pSync"}
            BY <4>1, GPUIBStartUp, Zenon
      <4>2. CASE f \notin {"heap", "heap_mr", "barrier_sync", "pSync"}
        <5>1. CASE cn = "RC"
          <6>1. f = "RTR" \/ f = "RTS"
                BY <3>3, <3>4, <4>2, <5>1, Zenon
          <6>2. Provides(connection_initialize(cn), f)
                BY <5>1, <6>1, ConnectionParts, Zenon
          <6> QED BY <6>2, GPUIBStartUp, Zenon
        <5>2. CASE cn # "RC"
          <6>1. f = "DCT"
                BY <3>3, <3>4, <4>2, <5>2, Zenon
          <6>2. Provides(connection_initialize(cn), f)
                BY <5>2, <6>1, ConnectionParts, Zenon
          <6> QED BY <6>2, GPUIBStartUp, Zenon
        <5> QED BY <5>1, <5>2, Zenon
      <4> QED BY <4>1, <4>2, Zenon
    <3> QED BY <3>2, <3>4, GPUIBStartUp, Zenon
  <2> QED BY <1>1, <2>1, <2>2, <2>3, Zenon
<1>3. StartUp \in Seq(StartStep) /\ Ordered(StartUp)
      BY <1>2, Zenon DEF Part
<1>4. PICK s \in Seq(StartStep) : s = StartUp
      BY <1>3, Zenon
<1>5. Len(s) \in Nat /\ (Provides(s, "heap") => Len(s) >= 1)
      BY DEF Provides
<1> QED BY <1>2, <1>3, <1>4, <1>5, Zenon

-----------------------------------------------------------------------------
(***************************************************************************)
(* The program so far is one of the plan, so that a PE that has not        *)
(* returned from rocshmem_init is not in any other call.                   *)
(***************************************************************************)
Planned == UNION {plan.calls[i] : i \in 1 .. Len(plan.calls)}

ProgramInv ==
  /\ plan \in Plans
  /\ calls \in Seq(Planned) /\ Len(calls) <= Len(plan.calls)
  /\ \A i \in 1 .. Len(calls) : calls[i] \in plan.calls[i]
  /\ pc \in [PE -> Nat]
  /\ DOMAIN at = PE /\ DOMAIN mpi = PE /\ DOMAIN ready = PE

\* PE p has entered the k-th collective of the start-up; it has set up what the
\* steps up to there set up.
Entered(p, k) == <<1, k>> \in DOMAIN mpi[p]
SetUp(p, k) == \A j \in 1 .. k : StartUp[j].does \subseteq ready[p]

StartInv ==
  /\ \A p \in PE : at[p].fn = "rocshmem_init" =>
       pc[p] = 0 /\ at[p].step \in 1 .. Len(StartUp) /\ SetUp(p, at[p].step)
  /\ \A p \in PE : pc[p] = 0 => at[p].fn \in {"app", "rocshmem_init"}
  /\ \A p \in PE : \A k \in 1 .. Len(StartUp) : Entered(p, k) => SetUp(p, k)
  /\ \A p \in PE : pc[p] > 0 => \A q \in PE : Entered(q, Len(StartUp))
  /\ \A p \in PE : \A f \in ready[p] : \E k \in 1 .. Len(StartUp) :
       f \in StartUp[k].does /\ (k > 1 => \A q \in PE : Entered(q, k - 1))

\* The next call of p is one of the plan's, the first is rocshmem_init.
CallsGrow ==
  \/ calls' = calls
  \/ /\ Len(calls) < Len(plan.calls)
     /\ \E c \in plan.calls[Len(calls) + 1] : calls' = Append(calls, c)

LEMMA NextCall ==
  ASSUME ProgramInv, NEW p \in PE, NEW c, Calls(p, c)
  PROVE  CallsGrow /\ (c[1] = "init" <=> pc[p] = 0) /\ InApp(p)
<1>1. /\ plan \in Plans /\ pc[p] \in Nat /\ Len(calls) \in Nat /\ Len(plan.calls) \in Nat
      /\ Len(calls) <= Len(plan.calls)
  <2>1. plan \in Plans /\ pc[p] \in Nat /\ calls \in Seq(Planned) /\ Len(calls) <= Len(plan.calls)
        BY Zenon DEF ProgramInv
  <2>2. Len(plan.calls) \in Nat
        BY <2>1, PlansAssumption, Zenon
  <2>3. Len(calls) \in Nat
        BY <2>1
  <2> QED BY <2>1, <2>2, <2>3, Zenon
<1>2. InApp(p)
      BY Zenon DEF Calls
<1>3. CASE pc[p] < Len(calls) /\ c = Call(p) /\ UNCHANGED calls
  <2>1. pc[p] + 1 \in 1 .. Len(calls) /\ pc[p] + 1 \in 1 .. Len(plan.calls)
        BY <1>1, <1>3
  <2>2. c \in plan.calls[pc[p] + 1]
        BY <1>3, <2>1, Zenon DEF ProgramInv, Call
  <2>3. c[1] = "init" <=> pc[p] + 1 = 1
        BY <1>1, <2>1, <2>2, PlansAssumption, Zenon
  <2>4. pc[p] + 1 = 1 <=> pc[p] = 0
        BY <1>1
  <2> QED BY <1>2, <1>3, <2>3, <2>4, Zenon DEF CallsGrow
<1>4. CASE pc[p] = Len(calls) /\ pc[p] < Len(plan.calls) /\ c \in plan.calls[pc[p] + 1]
           /\ calls' = Append(calls, c)
  <2>1. pc[p] + 1 \in 1 .. Len(plan.calls)
        BY <1>1, <1>4
  <2>3. c[1] = "init" <=> pc[p] + 1 = 1
        BY <1>1, <1>4, <2>1, PlansAssumption, Zenon
  <2>4. pc[p] + 1 = 1 <=> pc[p] = 0
        BY <1>1
  <2>5. CallsGrow
        BY <1>4, Zenon DEF CallsGrow
  <2> QED BY <1>2, <2>3, <2>4, <2>5, Zenon
<1> QED BY <1>3, <1>4, Zenon DEF Calls

LEMMA ProgramGrows ==
  ASSUME ProgramInv, CallsGrow, plan' = plan, NEW p \in PE,
         pc' = pc \/ pc' = [pc EXCEPT ![p] = @ + 1],
         at' = at \/ \E v : at' = [at EXCEPT ![p] = v],
         mpi' = mpi \/ \E v : mpi' = [mpi EXCEPT ![p] = v],
         ready' = ready \/ \E v : ready' = [ready EXCEPT ![p] = v]
  PROVE  ProgramInv'
<1>1. /\ plan' \in Plans /\ calls \in Seq(Planned) /\ Len(calls) <= Len(plan.calls)
      /\ (\A i \in 1 .. Len(calls) : calls[i] \in plan.calls[i]) /\ pc \in [PE -> Nat]
      /\ DOMAIN at = PE /\ DOMAIN mpi = PE /\ DOMAIN ready = PE /\ PE' = PE
      BY Zenon DEF ProgramInv, PE
<1>2. pc' \in [PE -> Nat]
      BY <1>1
<1>3. DOMAIN at' = PE /\ DOMAIN mpi' = PE /\ DOMAIN ready' = PE
      BY <1>1, Zenon
<1>4. Planned' = Planned /\ plan'.calls = plan.calls /\ Len(plan.calls) \in Nat
  <2>1. plan \in Plans
        BY Zenon DEF ProgramInv
  <2>2. Len(plan.calls) \in Nat
        BY <2>1, PlansAssumption, Zenon
  <2>3. Planned' = Planned /\ plan'.calls = plan.calls
        BY DEF Planned
  <2> QED BY <2>2, <2>3, Zenon
<1>5. /\ calls' \in Seq(Planned) /\ Len(calls') <= Len(plan.calls)
      /\ \A i \in 1 .. Len(calls') : calls'[i] \in plan.calls[i]
  <2>1. CASE calls' = calls
        BY <1>1, <2>1, Zenon
  <2>2. CASE ~ (calls' = calls)
    <3>1. PICK c \in plan.calls[Len(calls) + 1] : calls' = Append(calls, c)
          BY <2>2, Zenon DEF CallsGrow
    <3>2. PICK L, M \in Nat : L = Len(calls) /\ M = Len(plan.calls) /\ L < M
      <4>1. Len(calls) \in Nat
            BY <1>1
      <4> QED BY <1>4, <2>2, <4>1, Zenon DEF CallsGrow
    <3>3. L + 1 \in 1 .. M
          BY <3>2
    <3>4. c \in Planned
          BY <3>1, <3>2, <3>3, Zenon DEF Planned
    <3>5. PICK S : S = Planned
          BY Zenon
    <3>6. /\ calls' \in Seq(S) /\ Len(calls') = L + 1 /\ calls'[L + 1] = c
          /\ \A i \in 1 .. L : calls'[i] = calls[i]
          BY <1>1, <3>1, <3>2, <3>4, <3>5
    <3>7. L + 1 <= M /\ \A i \in 1 .. L + 1 : i \in 1 .. L \/ i = L + 1
          BY <3>2
    <3>8. ASSUME NEW i \in 1 .. L + 1 PROVE calls'[i] \in plan.calls[i]
          BY <1>1, <3>1, <3>2, <3>6, <3>7, Zenon
    <3> QED BY <3>2, <3>5, <3>6, <3>7, <3>8, Zenon
  <2> QED BY <2>1, <2>2, Zenon
<1> QED BY <1>1, <1>2, <1>3, <1>4, <1>5, Zenon DEF ProgramInv

\* A step of a PE that has returned from rocshmem_init.
Elsewhere(p) ==
  /\ pc[p] > 0 /\ plan' = plan /\ ready' = ready /\ CallsGrow
  /\ pc' = pc \/ pc' = [pc EXCEPT ![p] = @ + 1]
  /\ at' = at \/ \E v : at' = [at EXCEPT ![p] = v] /\ v.fn # "rocshmem_init"
  /\ mpi' = mpi \/ \E k, v : mpi' = [mpi EXCEPT ![p] = With(@, <<pc[p] + 1, k>>, v)]

LEMMA SetUpKept ==
  ASSUME plan' = plan, NEW q, ready[q] \subseteq ready'[q], NEW k, SetUp(q, k)
  PROVE  SetUp(q, k)'
<1>1. StartUp' = StartUp
      BY Zenon DEF StartUp
<1> QED BY <1>1, Zenon DEF SetUp

LEMMA ElsewhereKeeps ==
  ASSUME ProgramInv, StartInv, NEW p \in PE, Elsewhere(p)
  PROVE  ProgramInv' /\ StartInv'
<1>1. ProgramInv'
      BY ProgramGrows, Zenon DEF Elsewhere
<1>2. StartUp' = StartUp /\ PE' = PE /\ ready' = ready /\ plan' = plan
      BY Zenon DEF StartUp, Elsewhere, PE
<1>3. /\ pc \in [PE -> Nat] /\ DOMAIN at = PE /\ DOMAIN mpi = PE /\ pc[p] > 0
      BY Zenon DEF ProgramInv, Elsewhere
<1>4. \A q \in PE : (q # p => pc'[q] = pc[q]) /\ (pc'[q] > 0 <=> pc[q] > 0) /\ (pc'[q] = 0 <=> pc[q] = 0)
      BY <1>3 DEF Elsewhere
<1>5. \A q \in PE : at'[q] = at[q] \/ (q = p /\ at'[q].fn # "rocshmem_init")
      BY <1>3, Zenon DEF Elsewhere
<1>6. \A q \in PE : \A k : Entered(q, k)' <=> Entered(q, k)
  <2>1. CASE mpi' = mpi
        BY <2>1, Zenon DEF Entered
  <2>2. CASE ~ (mpi' = mpi)
    <3>1. PICK n, v : mpi' = [mpi EXCEPT ![p] = With(@, <<pc[p] + 1, n>>, v)]
          BY <2>2, Zenon DEF Elsewhere
    <3>2. PICK m : m = pc[p] + 1
          BY Zenon
    <3>3. m # 1
          BY <1>3, <3>2
    <3>4. \A k : <<1, k>> # <<m, n>>
          BY <3>3
    <3>5. /\ DOMAIN mpi'[p] = DOMAIN mpi[p] \cup {<<m, n>>}
          /\ \A q \in PE : q # p => mpi'[q] = mpi[q]
          BY <1>3, <3>1, <3>2, Zenon DEF With
    <3>6. \A k : <<1, k>> \in DOMAIN mpi'[p] <=> <<1, k>> \in DOMAIN mpi[p]
          BY <3>4, <3>5
    <3>7. \A q \in PE : q # p => DOMAIN mpi'[q] = DOMAIN mpi[q]
          BY <3>5, Zenon
    <3> QED BY <3>6, <3>7, Zenon DEF Entered
  <2> QED BY <2>1, <2>2, Zenon
<1>7. \A q \in PE : \A k : SetUp(q, k)' <=> SetUp(q, k)
      BY <1>2, Zenon DEF SetUp
<1>8. \A q \in PE : at'[q].fn = "rocshmem_init" =>
        pc'[q] = 0 /\ at'[q].step \in 1 .. Len(StartUp) /\ SetUp(q, at'[q].step)
      BY <1>4, <1>5, Zenon DEF StartInv
<1>9. \A q \in PE : pc'[q] = 0 => at'[q].fn \in {"app", "rocshmem_init"}
  <2> SUFFICES ASSUME NEW q \in PE, pc'[q] = 0 PROVE at'[q].fn \in {"app", "rocshmem_init"}
      BY Zenon
  <2>1. pc[q] = 0 /\ q # p
        BY <1>3, <1>4
  <2> QED BY <1>5, <2>1, Zenon DEF StartInv
<1>10. StartInv'
  <2>1. \A q \in PE : pc'[q] > 0 => \A r \in PE : Entered(r, Len(StartUp))
        BY <1>4, Zenon DEF StartInv
  <2>2. \A q \in PE : \A k \in 1 .. Len(StartUp) : Entered(q, k)' => SetUp(q, k)'
        BY <1>6, <1>7, Zenon DEF StartInv
  <2>3. \A q \in PE : \A f \in ready[q] : \E k \in 1 .. Len(StartUp) :
          f \in StartUp[k].does /\ (k > 1 => \A r \in PE : Entered(r, k - 1))
        BY Zenon DEF StartInv
  <2>4. \A q \in PE : at'[q].fn = "rocshmem_init" =>
          pc'[q] = 0 /\ at'[q].step \in 1 .. Len(StartUp) /\ SetUp(q, at[q].step)'
        BY <1>5, <1>7, <1>8, Zenon
  <2> QED BY <1>2, <1>5, <1>6, <1>9, <2>1, <2>2, <2>3, <2>4, Zenon DEF StartInv
<1> QED BY <1>1, <1>10

\* The next step of a constructor: every PE has entered the collective before it.
LEMMA StartStepKeeps ==
  ASSUME ProgramInv, StartInv, NEW p \in PE, CallsGrow, start_up_step(p), pc[p] = 0,
         NEW n \in Nat, n = Next_step(p), n >= 1,
         n > 1 => SetUp(p, n - 1) /\ \A q \in PE : Entered(q, n - 1)
  PROVE  ProgramInv' /\ StartInv'
<1>0. /\ pc \in [PE -> Nat] /\ DOMAIN at = PE /\ DOMAIN mpi = PE /\ DOMAIN ready = PE /\ plan \in Plans
      BY Zenon DEF ProgramInv
<1>1. /\ plan' = plan /\ pc' = pc /\ n <= Len(StartUp)
      /\ at' = [at EXCEPT ![p] = [fn |-> "rocshmem_init", step |-> n]]
      /\ mpi' = [mpi EXCEPT ![p] = With(@, <<pc[p] + 1, n>>, {})]
      /\ ready' = [ready EXCEPT ![p] = @ \cup StartUp[n].does]
      BY Zenon DEF start_up_step, Enters
<1>2. StartUp' = StartUp /\ PE' = PE /\ Len(StartUp) \in Nat
      BY <1>0, <1>1, StartUpFacts, Zenon DEF StartUp, PE
<1>3. ProgramInv'
      BY <1>1, ProgramGrows, Zenon
<1>4. n \in 1 .. Len(StartUp) /\ pc[p] + 1 = 1
      BY <1>1, <1>2, SMTT(15)
<1>5. /\ at'[p].fn = "rocshmem_init" /\ at'[p].step = n
      /\ \A q \in PE : q # p => at'[q] = at[q] /\ mpi'[q] = mpi[q] /\ ready'[q] = ready[q]
      BY <1>0, <1>1
<1>6. DOMAIN mpi'[p] = DOMAIN mpi[p] \cup {<<1, n>>} /\ ready'[p] = ready[p] \cup StartUp[n].does
  <2>1. DOMAIN mpi'[p] = DOMAIN mpi[p] \cup {<<pc[p] + 1, n>>} /\ ready'[p] = ready[p] \cup StartUp[n].does
        BY <1>0, <1>1, Zenon DEF With
  <2> QED BY <1>4, <2>1
<1>7. \A q \in PE : ready[q] \subseteq ready'[q]
      BY <1>5, <1>6, Zenon
<1>8. \A q \in PE : \A k : Entered(q, k) => Entered(q, k)'
  <2> SUFFICES ASSUME NEW q \in PE, NEW k, Entered(q, k) PROVE Entered(q, k)'
      BY Zenon
  <2>1. CASE q = p
        BY <1>6, <2>1, Zenon DEF Entered
  <2>2. CASE q # p
        BY <1>5, <2>2, Zenon DEF Entered
  <2> QED BY <2>1, <2>2, Zenon
<1>9. SetUp(p, n)'
  <2> SUFFICES ASSUME NEW j \in 1 .. n PROVE StartUp[j].does \subseteq ready'[p]
      BY <1>2, Zenon DEF SetUp
  <2>1. j = n \/ (n > 1 /\ j \in 1 .. n - 1)
        OBVIOUS
  <2>2. CASE j = n
        BY <1>6, <2>2, Zenon
  <2>3. CASE n > 1 /\ j \in 1 .. n - 1
        BY <1>7, <2>3, Zenon DEF SetUp
  <2> QED BY <2>1, <2>2, <2>3, Zenon
<1>10. \A q \in PE : \A k : SetUp(q, k) => SetUp(q, k)'
      BY <1>1, <1>7, SetUpKept, Zenon
<1>11. \A q \in PE : \A k : Entered(q, k)' => Entered(q, k) \/ (q = p /\ k = n)
  <2> SUFFICES ASSUME NEW q \in PE, NEW k, Entered(q, k)', ~ Entered(q, k)
               PROVE  q = p /\ k = n
      BY Zenon
  <2>1. q = p
        BY <1>5, Zenon DEF Entered
  <2>2. <<1, k>> = <<1, n>>
        BY <1>6, <2>1, Zenon DEF Entered
  <2> QED BY <2>1, <2>2
<1>12. \A q \in PE : at'[q].fn = "rocshmem_init" =>
         pc'[q] = 0 /\ at'[q].step \in 1 .. Len(StartUp) /\ SetUp(q, at[q].step)'
  <2> SUFFICES ASSUME NEW q \in PE, at'[q].fn = "rocshmem_init"
               PROVE  pc'[q] = 0 /\ at'[q].step \in 1 .. Len(StartUp) /\ SetUp(q, at[q].step)'
      BY Zenon
  <2>1. CASE q = p
        BY <1>1, <1>4, <1>5, <1>9, <2>1, Zenon
  <2>2. CASE q # p
    <3>1. at'[q] = at[q] /\ pc'[q] = 0 /\ at[q].step \in 1 .. Len(StartUp) /\ SetUp(q, at[q].step)
          BY <1>1, <1>5, <2>2, Zenon DEF StartInv
    <3>2. PICK s : s = at[q].step /\ s = at'[q].step
          BY <3>1, Zenon
    <3>3. SetUp(q, s)'
          BY <1>10, <3>1, <3>2, Zenon
    <3> QED BY <3>1, <3>2, <3>3, Zenon
  <2> QED BY <2>1, <2>2, Zenon
<1>13. \A q \in PE : pc'[q] = 0 => at'[q].fn \in {"app", "rocshmem_init"}
  <2> SUFFICES ASSUME NEW q \in PE, pc'[q] = 0 PROVE at'[q].fn \in {"app", "rocshmem_init"}
      BY Zenon
  <2>1. CASE q = p
        BY <1>5, <2>1, Zenon
  <2>2. CASE q # p
        BY <1>1, <1>5, <2>2, Zenon DEF StartInv
  <2> QED BY <2>1, <2>2, Zenon
<1>14. \A q \in PE : \A k \in 1 .. Len(StartUp) : Entered(q, k)' => SetUp(q, k)'
  <2> SUFFICES ASSUME NEW q \in PE, NEW k \in 1 .. Len(StartUp), Entered(q, k)' PROVE SetUp(q, k)'
      BY Zenon
  <2>1. CASE Entered(q, k)
    <3>1. SetUp(q, k)
          BY <2>1, Zenon DEF StartInv
    <3> QED BY <1>10, <3>1, Zenon
  <2>2. CASE q = p /\ k = n
        BY <1>9, <2>2, Zenon
  <2> QED BY <1>11, <2>1, <2>2, Zenon
<1>15. \A q \in PE : pc'[q] > 0 => \A r \in PE : Entered(r, Len(StartUp))'
  <2>1. \A q \in PE : pc[q] > 0 => \A r \in PE : Entered(r, Len(StartUp))
        BY Zenon DEF StartInv
  <2>2. PICK len : len = Len(StartUp) /\ len = Len(StartUp')
        BY <1>2, Zenon
  <2>3. \A q \in PE : pc'[q] > 0 => \A r \in PE : Entered(r, len)'
        BY <1>1, <1>8, <2>1, <2>2, Zenon
  <2> QED BY <2>2, <2>3, Zenon
<1>16. \A q \in PE : \A f \in ready'[q] : \E k \in 1 .. Len(StartUp) :
         f \in StartUp[k].does /\ (k > 1 => \A r \in PE : Entered(r, k - 1)')
  <2> SUFFICES ASSUME NEW q \in PE, NEW f \in ready'[q]
               PROVE  \E k \in 1 .. Len(StartUp) :
                        f \in StartUp[k].does /\ (k > 1 => \A r \in PE : Entered(r, k - 1)')
      BY Zenon
  <2>1. CASE f \in ready[q]
    <3>1. PICK k \in 1 .. Len(StartUp) :
            f \in StartUp[k].does /\ (k > 1 => \A r \in PE : Entered(r, k - 1))
          BY <2>1, Zenon DEF StartInv
    <3>2. PICK j : j = k - 1
          BY Zenon
    <3>3. k > 1 => \A r \in PE : Entered(r, j)'
          BY <1>8, <3>1, <3>2, Zenon
    <3> QED BY <3>1, <3>2, <3>3, Zenon
  <2>2. CASE q = p /\ f \in StartUp[n].does
    <3>1. PICK j : j = n - 1
          BY Zenon
    <3>2. n > 1 => \A r \in PE : Entered(r, j)'
          BY <1>8, <3>1, Zenon
    <3> QED BY <1>4, <2>2, <3>1, <3>2, Zenon
  <2> QED BY <1>5, <1>6, <2>1, <2>2, Zenon
<1>17. StartInv'
      BY <1>2, <1>12, <1>13, <1>14, <1>15, <1>16, Zenon DEF StartInv
<1> QED BY <1>3, <1>17

\* The barrier that p passes has been entered by all.
LEMMA InitGathered ==
  ASSUME ProgramInv, StartInv, NEW p \in PE, Gathered(p, "rocshmem_init", PE)
  PROVE  /\ pc[p] = 0 /\ at[p].step \in 1 .. Len(StartUp) /\ SetUp(p, at[p].step)
         /\ \A q \in PE : Entered(q, at[p].step)
<1>1. pc[p] = 0 /\ at[p].step \in 1 .. Len(StartUp) /\ SetUp(p, at[p].step)
      BY Zenon DEF Gathered, StartInv
<1>2. PICK s : s = at[p].step
      BY Zenon
<1>3. Key(p) = <<1, s>>
      BY <1>1, <1>2 DEF Key
<1>4. \A q \in PE : <<1, s>> \in DOMAIN mpi[q]
      BY <1>3, Zenon DEF Gathered
<1> QED BY <1>1, <1>2, <1>4, Zenon DEF Entered

LEMMA StartStepsKeep ==
  ASSUME ProgramInv, StartInv, NEW p \in PE,
         rocshmem_init(p) \/ start_up(p) \/ start_up_done(p)
  PROVE  ProgramInv' /\ StartInv'
<1>1. CASE rocshmem_init(p)
  <2>1. Calls(p, <<"init">>) /\ start_up_step(p)
        BY <1>1, Zenon DEF rocshmem_init
  <2>2. <<"init">>[1] = "init"
        OBVIOUS
  <2>3. CallsGrow /\ pc[p] = 0 /\ InApp(p)
        BY <2>1, <2>2, NextCall, Zenon
  <2>4. Next_step(p) = 1
        BY <2>3, Zenon DEF Next_step
  <2>5. 1 \in Nat /\ 1 >= 1 /\ ~ (1 > 1)
        OBVIOUS
  <2> QED BY <2>1, <2>3, <2>4, <2>5, StartStepKeeps, Zenon
<1>2. CASE start_up(p)
  <2>1. start_up_step(p) /\ Gathered(p, "rocshmem_init", PE) /\ CallsGrow
        BY <1>2, Zenon DEF start_up, CallsGrow
  <2>2. /\ pc[p] = 0 /\ at[p].step \in 1 .. Len(StartUp) /\ SetUp(p, at[p].step)
        /\ \A q \in PE : Entered(q, at[p].step)
        BY <2>1, InitGathered, Zenon
  <2>3. PICK s \in Nat : s = at[p].step /\ s >= 1
    <3>1. Len(StartUp) \in Nat
          BY StartUpFacts, Zenon DEF ProgramInv
    <3>2. at[p].step \in Nat /\ at[p].step >= 1
          BY <2>2, <3>1
    <3> QED BY <3>2, Zenon
  <2>4. ~ InApp(p)
    <3>1. at[p].fn = "rocshmem_init"
          BY <2>1, Zenon DEF Gathered
    <3> QED BY <3>1, Zenon DEF InApp
  <2>5. PICK n \in Nat : n = Next_step(p) /\ n >= 1 /\ n - 1 = s
    <3>1. s + 1 \in Nat /\ s + 1 >= 1 /\ (s + 1) - 1 = s
          BY <2>3
    <3> QED BY <2>3, <2>4, <3>1, Zenon DEF Next_step
  <2>6. SetUp(p, n - 1) /\ \A q \in PE : Entered(q, n - 1)
        BY <2>2, <2>3, <2>5, Zenon
  <2> QED BY <2>1, <2>2, <2>5, <2>6, StartStepKeeps, Zenon
<1>3. CASE start_up_done(p)
  <2>1. /\ Gathered(p, "rocshmem_init", PE) /\ at[p].step = Len(StartUp)
        /\ pc' = [pc EXCEPT ![p] = @ + 1] /\ at' = [at EXCEPT ![p] = [fn |-> "app", step |-> 0]]
        /\ plan' = plan /\ calls' = calls /\ mpi' = mpi /\ ready' = ready
        BY <1>3, Zenon DEF start_up_done, Returns
  <2>2. ProgramInv'
        BY <2>1, ProgramGrows, Zenon DEF CallsGrow
  <2>3. \A q \in PE : Entered(q, Len(StartUp))
        BY <2>1, InitGathered, Zenon
  <2>4. StartUp' = StartUp /\ PE' = PE
        BY <2>1, Zenon DEF StartUp, PE
  <2>5. pc \in [PE -> Nat] /\ DOMAIN at = PE
        BY Zenon DEF ProgramInv
  <2>6. \A q \in PE : (q # p => pc'[q] = pc[q] /\ at'[q] = at[q]) /\ (pc'[q] = 0 => q # p)
        BY <2>1, <2>5
  <2>7. at'[p].fn = "app"
        BY <2>1, <2>5
  <2>8. \A q \in PE : \A k : (Entered(q, k)' <=> Entered(q, k)) /\ (SetUp(q, k)' <=> SetUp(q, k))
        BY <2>1, <2>4, Zenon DEF Entered, SetUp
  <2>9. \A q \in PE : at'[q].fn = "rocshmem_init" =>
          pc'[q] = 0 /\ at'[q].step \in 1 .. Len(StartUp) /\ SetUp(q, at[q].step)'
    <3> SUFFICES ASSUME NEW q \in PE, at'[q].fn = "rocshmem_init"
                 PROVE  pc'[q] = 0 /\ at'[q].step \in 1 .. Len(StartUp) /\ SetUp(q, at[q].step)'
        BY Zenon
    <3>1. q # p /\ at'[q] = at[q] /\ pc'[q] = pc[q]
      <4>1. q # p
            BY <2>7, Zenon
      <4> QED BY <2>6, <4>1, Zenon
    <3>2. PICK s : s = at[q].step /\ s = at'[q].step
          BY <3>1, Zenon
    <3>3. pc[q] = 0 /\ s \in 1 .. Len(StartUp) /\ SetUp(q, s)
          BY <3>1, <3>2, Zenon DEF StartInv
    <3>4. SetUp(q, s)'
          BY <2>8, <3>3, Zenon
    <3> QED BY <3>1, <3>2, <3>3, <3>4, Zenon
  <2>10. \A q \in PE : pc'[q] = 0 => at'[q].fn \in {"app", "rocshmem_init"}
        BY <2>6, Zenon DEF StartInv
  <2>11. \A q \in PE : \A k \in 1 .. Len(StartUp) : Entered(q, k)' => SetUp(q, k)'
        BY <2>8, Zenon DEF StartInv
  <2>12. \A q \in PE : \A f \in ready[q] : \E k \in 1 .. Len(StartUp) :
          f \in StartUp[k].does /\ (k > 1 => \A r \in PE : Entered(r, k - 1)')
    <3> SUFFICES ASSUME NEW q \in PE, NEW f \in ready[q]
                 PROVE  \E k \in 1 .. Len(StartUp) :
                          f \in StartUp[k].does /\ (k > 1 => \A r \in PE : Entered(r, k - 1)')
        BY Zenon
    <3>1. PICK k \in 1 .. Len(StartUp) :
            f \in StartUp[k].does /\ (k > 1 => \A r \in PE : Entered(r, k - 1))
          BY Zenon DEF StartInv
    <3>2. PICK j : j = k - 1
          BY Zenon
    <3>3. k > 1 => \A r \in PE : Entered(r, j)'
          BY <2>8, <3>1, <3>2, Zenon
    <3> QED BY <3>1, <3>2, <3>3, Zenon
  <2>13. StartInv'
        BY <2>1, <2>3, <2>4, <2>8, <2>9, <2>10, <2>11, <2>12, Zenon DEF StartInv
  <2> QED BY <2>2, <2>13
<1> QED BY <1>1, <1>2, <1>3

LEMMA LaterEnters ==
  ASSUME NEW p \in PE, pc[p] > 0, CallsGrow, NEW fn, NEW step, NEW value,
         Enters(p, fn, step, value), fn # "rocshmem_init",
         plan' = plan, ready' = ready, pc' = pc
  PROVE  Elsewhere(p)
<1> DEFINE v == [fn |-> fn, step |-> step]
<1>1. v.fn # "rocshmem_init"
      OBVIOUS
<1>2. at' = [at EXCEPT ![p] = v] /\ mpi' = [mpi EXCEPT ![p] = With(@, <<pc[p] + 1, step>>, value)]
      BY Zenon DEF Enters
<1> HIDE DEF v
<1> QED BY <1>1, <1>2, Zenon DEF Elsewhere

LEMMA LaterReturns ==
  ASSUME NEW p \in PE, pc[p] > 0, CallsGrow, Returns(p),
         plan' = plan, ready' = ready, mpi' = mpi
  PROVE  Elsewhere(p)
<1> DEFINE v == [fn |-> "app", step |-> 0]
<1>1. v.fn # "rocshmem_init"
      OBVIOUS
<1>2. at' = [at EXCEPT ![p] = v] /\ pc' = [pc EXCEPT ![p] = @ + 1]
      BY Zenon DEF Returns
<1> HIDE DEF v
<1> QED BY <1>1, <1>2, Zenon DEF Elsewhere

\* A PE in another collective, or making another call, has returned from rocshmem_init.
LEMMA InAnother ==
  ASSUME ProgramInv, StartInv, NEW p \in PE, NEW fn, at[p].fn = fn, fn # "app", fn # "rocshmem_init"
  PROVE  pc[p] > 0
<1>1. pc[p] \in Nat /\ pc[p] # 0
      BY Zenon DEF ProgramInv, StartInv
<1> QED BY <1>1

LEMMA MakesAnother ==
  ASSUME ProgramInv, StartInv, NEW p \in PE, NEW c, Calls(p, c), c[1] # "init"
  PROVE  pc[p] > 0 /\ CallsGrow
<1>1. pc[p] \in Nat /\ pc[p] # 0 /\ CallsGrow
      BY NextCall, Zenon DEF ProgramInv
<1> QED BY <1>1

LEMMA GatheredElsewhere ==
  ASSUME ProgramInv, StartInv, NEW p \in PE,
         \/ rocshmem_malloc_returns(p) \/ rocshmem_free_returns(p)
         \/ not_in_new_team(p) \/ createNewTeam(p) \/ create_new_team(p)
         \/ no_common_index(p) \/ team_created(p)
         \/ teams_destroy(p) \/ finalize_returns(p)
  PROVE  Elsewhere(p)
<1>1. pc[p] > 0
  <2>1. \E fn \in {"rocshmem_malloc", "rocshmem_free", "MPI_Comm_split", "MPI_Allreduce", "rocshmem_finalize"} :
          at[p].fn = fn
        BY Zenon DEF rocshmem_malloc_returns, rocshmem_free_returns, not_in_new_team, createNewTeam,
             create_new_team, no_common_index, team_created, teams_destroy, finalize_returns, Gathered
  <2>2. \A fn \in {"rocshmem_malloc", "rocshmem_free", "MPI_Comm_split", "MPI_Allreduce", "rocshmem_finalize"} :
          fn # "app" /\ fn # "rocshmem_init"
        OBVIOUS
  <2> QED BY <2>1, <2>2, InAnother, Zenon
<1>2. CallsGrow /\ plan' = plan /\ ready' = ready
      BY Zenon DEF CallsGrow, rocshmem_malloc_returns, rocshmem_free_returns, not_in_new_team, createNewTeam,
           create_new_team, no_common_index, team_created, teams_destroy, finalize_returns
<1>3. CASE \/ rocshmem_malloc_returns(p) \/ rocshmem_free_returns(p) \/ not_in_new_team(p)
           \/ createNewTeam(p) \/ team_created(p) \/ finalize_returns(p)
  <2>1. Returns(p) /\ mpi' = mpi
        BY <1>3, Zenon DEF rocshmem_malloc_returns, rocshmem_free_returns, not_in_new_team, createNewTeam,
             team_created, finalize_returns
  <2> QED BY <1>1, <1>2, <2>1, LaterReturns, Zenon
<1>4. CASE create_new_team(p)
  <2>1. Enters(p, "MPI_Allreduce", 2, pool[p]) /\ pc' = pc
        BY <1>4, Zenon DEF create_new_team
  <2> QED BY <1>1, <1>2, <2>1, LaterEnters
<1>5. CASE teams_destroy(p)
  <2>1. Enters(p, "rocshmem_finalize", at[p].step + 1, {}) /\ pc' = pc
        BY <1>5, Zenon DEF teams_destroy
  <2> QED BY <1>1, <1>2, <2>1, LaterEnters
<1>6. CASE no_common_index(p)
  <2>1. at' = at /\ pc' = pc /\ mpi' = mpi
        BY <1>6, Zenon DEF no_common_index
  <2> QED BY <1>1, <1>2, <2>1, Zenon DEF Elsewhere
<1> QED BY <1>3, <1>4, <1>5, <1>6, Zenon

\* The calls other than rocshmem_init.
AnotherCall(p) ==
  \/ rocshmem_ctx_create(p) \/ no_window(p) \/ rocshmem_finalize(p)
  \/ \E n : rocshmem_malloc(p, n)
  \/ \E i : rocshmem_free(p, i) \/ rocshmem_team_destroy(p, i) \/ rocshmem_ctx_destroy(p, i)
  \/ \E i, start, stride, size : \/ team_split_refused(p, i, start, stride, size)
                                 \/ rocshmem_team_split_strided(p, i, start, stride, size)

LEMMA CallElsewhere ==
  ASSUME ProgramInv, StartInv, NEW p \in PE, AnotherCall(p)
  PROVE  Elsewhere(p)
<1>0. /\ <<"ctx_create">>[1] # "init" /\ <<"finalize">>[1] # "init"
      /\ \A n : /\ <<"malloc", n>>[1] # "init" /\ <<"free", n>>[1] # "init"
                /\ <<"destroy", n>>[1] # "init" /\ <<"ctx_destroy", n>>[1] # "init"
      /\ \A i, a, b, c : <<"split", i, a, b, c>>[1] # "init"
      OBVIOUS
<1>1. CASE rocshmem_ctx_create(p)
  <2>1. Calls(p, <<"ctx_create">>) /\ Returns(p) /\ plan' = plan /\ ready' = ready /\ mpi' = mpi
        BY <1>1, Zenon DEF rocshmem_ctx_create
  <2>2. pc[p] > 0 /\ CallsGrow
        BY <1>0, <2>1, MakesAnother, Zenon
  <2> QED BY <2>1, <2>2, LaterReturns, Zenon
<1>2. CASE rocshmem_finalize(p)
  <2>1. /\ Calls(p, <<"finalize">>) /\ Enters(p, "rocshmem_finalize", 1, {})
        /\ plan' = plan /\ ready' = ready /\ pc' = pc
        BY <1>2, Zenon DEF rocshmem_finalize
  <2>2. pc[p] > 0 /\ CallsGrow
        BY <1>0, <2>1, MakesAnother, Zenon
  <2> QED BY <2>1, <2>2, LaterEnters
<1>3. ASSUME NEW n, rocshmem_malloc(p, n) PROVE Elsewhere(p)
  <2>1. PICK v : /\ Calls(p, <<"malloc", n>>) /\ Enters(p, "rocshmem_malloc", 1, v)
                 /\ plan' = plan /\ ready' = ready /\ pc' = pc
        BY <1>3, Zenon DEF rocshmem_malloc
  <2>2. pc[p] > 0 /\ CallsGrow
        BY <1>0, <2>1, MakesAnother, Zenon
  <2> QED BY <2>1, <2>2, LaterEnters
<1>4. ASSUME NEW i, rocshmem_free(p, i) PROVE Elsewhere(p)
  <2>1. PICK v : /\ Calls(p, <<"free", i>>) /\ Enters(p, "rocshmem_free", 1, v)
                 /\ plan' = plan /\ ready' = ready /\ pc' = pc
        BY <1>4, Zenon DEF rocshmem_free
  <2>2. pc[p] > 0 /\ CallsGrow
        BY <1>0, <2>1, MakesAnother, Zenon
  <2> QED BY <2>1, <2>2, LaterEnters
<1>5. ASSUME NEW i, rocshmem_team_destroy(p, i) \/ rocshmem_ctx_destroy(p, i) PROVE Elsewhere(p)
  <2>1. /\ Calls(p, <<"destroy", i>>) \/ Calls(p, <<"ctx_destroy", i>>)
        /\ Returns(p) /\ plan' = plan /\ ready' = ready /\ mpi' = mpi
        BY <1>5, Zenon DEF rocshmem_team_destroy, rocshmem_ctx_destroy
  <2>2. pc[p] > 0 /\ CallsGrow
        BY <1>0, <2>1, MakesAnother, Zenon
  <2> QED BY <2>1, <2>2, LaterReturns, Zenon
<1>6. ASSUME NEW i, NEW a, NEW b, NEW c, team_split_refused(p, i, a, b, c) PROVE Elsewhere(p)
  <2>1. /\ Calls(p, <<"split", i, a, b, c>>) /\ Returns(p)
        /\ plan' = plan /\ ready' = ready /\ mpi' = mpi
        BY <1>6, Zenon DEF team_split_refused
  <2>2. pc[p] > 0 /\ CallsGrow
        BY <1>0, <2>1, MakesAnother, Zenon
  <2> QED BY <2>1, <2>2, LaterReturns, Zenon
<1>7. ASSUME NEW i, NEW a, NEW b, NEW c, rocshmem_team_split_strided(p, i, a, b, c) PROVE Elsewhere(p)
  <2>1. PICK v : /\ Calls(p, <<"split", i, a, b, c>>) /\ Enters(p, "MPI_Comm_split", 1, v)
                 /\ plan' = plan /\ ready' = ready /\ pc' = pc
        BY <1>7, Zenon DEF rocshmem_team_split_strided
  <2>2. pc[p] > 0 /\ CallsGrow
        BY <1>0, <2>1, MakesAnother, Zenon
  <2> QED BY <2>1, <2>2, LaterEnters
<1>8. CASE no_window(p)
  <2>1. /\ Calls(p, <<"ctx_create">>) /\ plan' = plan /\ ready' = ready
        /\ at' = at /\ pc' = pc /\ mpi' = mpi
        BY <1>8, Zenon DEF no_window
  <2>2. pc[p] > 0 /\ CallsGrow
        BY <1>0, <2>1, MakesAnother, Zenon
  <2> QED BY <2>1, <2>2, Zenon DEF Elsewhere
<1> QED BY <1>1, <1>2, <1>3, <1>4, <1>5, <1>6, <1>7, <1>8, Zenon DEF AnotherCall

LEMMA StepKinds ==
  ASSUME ProgramInv, StartInv, NEW p \in PE, Step(p)
  PROVE  rocshmem_init(p) \/ start_up(p) \/ start_up_done(p) \/ Elsewhere(p)
<1>1. CASE \/ rocshmem_malloc_returns(p) \/ rocshmem_free_returns(p)
           \/ not_in_new_team(p) \/ createNewTeam(p) \/ create_new_team(p)
           \/ no_common_index(p) \/ team_created(p)
           \/ teams_destroy(p) \/ finalize_returns(p)
      BY <1>1, GatheredElsewhere, Zenon
<1>2. CASE AnotherCall(p)
      BY <1>2, CallElsewhere, Zenon
<1>3. ASSUME NEW c,
             \/ rocshmem_malloc(p, c[2]) \/ rocshmem_free(p, c[2])
             \/ team_split_refused(p, c[2], c[3], c[4], c[5])
             \/ rocshmem_team_split_strided(p, c[2], c[3], c[4], c[5])
             \/ rocshmem_team_destroy(p, c[2]) \/ rocshmem_ctx_destroy(p, c[2])
      PROVE  AnotherCall(p)
      BY <1>3, Zenon DEF AnotherCall
<1>4. CASE rocshmem_ctx_create(p) \/ no_window(p) \/ rocshmem_finalize(p)
  <2>1. AnotherCall(p)
        BY <1>4, Zenon DEF AnotherCall
  <2> QED BY <1>2, <2>1, Zenon
<1> QED BY <1>1, <1>2, <1>3, <1>4, Zenon DEF Step

LEMMA NextStartInv ==
  ASSUME ProgramInv, StartInv, [Next]_vars
  PROVE  ProgramInv' /\ StartInv'
<1>1. CASE UNCHANGED vars
  <2>1. /\ plan' = plan /\ calls' = calls /\ pc' = pc /\ at' = at /\ mpi' = mpi /\ ready' = ready
        BY <1>1 DEF vars
  <2>2. ProgramInv'
        BY <2>1 DEF ProgramInv, Planned, PE
  <2>3. StartUp' = StartUp /\ PE' = PE
        BY <2>1, Zenon DEF StartUp, PE
  <2>4. StartInv'
        BY <2>1, <2>3 DEF StartInv, Entered, SetUp
  <2> QED BY <2>2, <2>4
<1>2. ASSUME NEW p \in PE, Step(p) PROVE ProgramInv' /\ StartInv'
  <2>1. CASE rocshmem_init(p) \/ start_up(p) \/ start_up_done(p)
        BY <2>1, StartStepsKeep, Zenon
  <2>2. CASE Elsewhere(p)
        BY <2>2, ElsewhereKeeps, Zenon
  <2> QED BY <1>2, <2>1, <2>2, StepKinds, Zenon
<1> QED BY <1>1, <1>2, Zenon DEF Next, Finished

LEMMA InitStartInv == Init => ProgramInv /\ StartInv
<1> SUFFICES ASSUME Init PROVE ProgramInv /\ StartInv
    OBVIOUS
<1>1. /\ plan \in Plans /\ calls = <<>> /\ pc = [p \in PE |-> 0]
      /\ at = [p \in PE |-> [fn |-> "app", step |-> 0]]
      /\ mpi = [p \in PE |-> <<>>] /\ ready = [p \in PE |-> {}]
      BY Zenon DEF Init
<1>2. Len(plan.calls) \in Nat
      BY <1>1, PlansAssumption, Zenon
<1>3. ProgramInv
      BY <1>1, <1>2 DEF ProgramInv
<1>4. /\ \A p \in PE : pc[p] = 0 /\ ~ (pc[p] > 0) /\ at[p].fn = "app" /\ ready[p] = {}
      /\ \A p \in PE : DOMAIN mpi[p] = {}
      BY <1>1
<1>5. StartInv
      BY <1>4, Zenon DEF StartInv, Entered
<1> QED BY <1>3, <1>5

LEMMA StartInvReady == ProgramInv /\ StartInv => InitMeansReady
<1> SUFFICES ASSUME ProgramInv, StartInv, NEW p \in PE, NEW q \in PE
             PROVE  /\ pc[p] > 0 => NeededFrom \subseteq ready[q]
                    /\ "RTS" \in ready[p] => "RTR" \in ready[q]
    BY Zenon DEF InitMeansReady
<1>1. /\ Len(StartUp) \in Nat /\ Len(StartUp) >= 1 /\ Ordered(StartUp)
      /\ \A f \in NeededFrom : Provides(StartUp, f)
      BY StartUpFacts, Zenon DEF ProgramInv
<1>2. PICK len \in Nat : len = Len(StartUp) /\ len \in 1 .. len
  <2>1. Len(StartUp) \in 1 .. Len(StartUp)
        BY <1>1
  <2> QED BY <1>1, <2>1, Zenon
<1>3. ASSUME pc[p] > 0, NEW f \in NeededFrom PROVE f \in ready[q]
  <2>1. SetUp(q, len)
        BY <1>2, <1>3, Zenon DEF StartInv
  <2>2. PICK k \in 1 .. len : f \in StartUp[k].does
        BY <1>1, <1>2, Zenon DEF Provides
  <2> QED BY <2>1, <2>2, Zenon DEF SetUp
<1>4. ASSUME "RTS" \in ready[p] PROVE "RTR" \in ready[q]
  <2>1. PICK k \in 1 .. Len(StartUp) :
          "RTS" \in StartUp[k].does /\ (k > 1 => \A r \in PE : Entered(r, k - 1))
        BY <1>4, Zenon DEF StartInv
  <2>2. k > 1 /\ "RTR" \in StartUp[k - 1].does
        BY <1>1, <2>1, Zenon DEF Ordered
  <2>3. k - 1 \in 1 .. Len(StartUp) /\ k - 1 \in 1 .. k - 1
        BY <1>1, <2>2
  <2>4. SetUp(q, k - 1)
        BY <2>1, <2>2, <2>3, Zenon DEF StartInv
  <2> QED BY <2>2, <2>3, <2>4, Zenon DEF SetUp
<1> QED BY <1>3, <1>4, Zenon

\* InitMeansReady for every number of PEs, every backend and connection and every
\* program that starts with rocshmem_init: when the call has returned at a PE, every PE
\* has set up its heap, keys, queue pairs and synchronisation arrays, and no queue pair
\* sends before all peers receive.
THEOREM ReadyAfterInit == Spec => []InitMeansReady
<1> DEFINE Inv == ProgramInv /\ StartInv
<1>1. Init => Inv
      BY InitStartInv, Zenon
<1>2. Inv /\ [Next]_vars => Inv'
      BY NextStartInv, Zenon
<1>3. Inv => InitMeansReady
      BY StartInvReady, Zenon
<1> QED BY <1>1, <1>2, <1>3, PTL DEF Spec
=============================================================================
