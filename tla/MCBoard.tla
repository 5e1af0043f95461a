------------------------------- MODULE MCBoard ------------------------------
(***************************************************************************)
(* What the board has besides memory banks and WiFi: the page exchange and *)
(* the job queue and services of experiments/mmu-poc (Board), the launcher *)
(* of experiments/mmu-poc, the RSA accelerator, and the script that keeps  *)
(* the configuration.  They do not interact; one behaviour exercises one   *)
(* of them.                                                                *)
(***************************************************************************)
EXTENDS Board, Sequences

CONSTANTS
    Window, Frames,
    Tfms, Messages, Lows, Rounds,
    Edits,
    CachedLines \* bound: lines the cache holds at a time

VARIABLES
    part,
    r_pc, r_call, r_count, r_programs, r_active, r_fatal, r_alias, r_ram, r_native, r_line, r_code,
    r_autoload, r_killed,
    a_driver, a_key, a_pc, a_x, a_y, a_result, a_lock, a_regs, a_run, a_z, a_int_raised, a_timed_out,
    k_pc, k_k, k_stage, k_new, k_home, k_etc, k_stamp, k_backup, k_generation, k_disabled, k_failed,
    k_saved, k_spoiled, k_restored, k_touched, k_mine

swapVars == <<count, region, pages, mmu, psram, cache, dirty, autoload, was, tmp, i, pc>>
runVars == <<r_pc, r_call, r_count, r_programs, r_active, r_fatal, r_alias, r_ram, r_native, r_line,
             r_code, r_autoload, r_killed>>
serviceVars == <<s_pc, s_blocked, s_pending, s_in_payload, s_mapped, s_files, s_open, s_blocks,
                 s_size, s_allocated, s_heap_used, s_arg, s_slot>>
jobVars == <<j_pc, j_i, j_next, j_finished, j_active, j_failed, j_cancelled, j_pid, j_proc, j_late,
             j_starved>>
rsaVars == <<a_driver, a_key, a_pc, a_x, a_y, a_result, a_lock, a_regs, a_run, a_z, a_int_raised,
             a_timed_out>>
keepVars == <<k_pc, k_k, k_stage, k_new, k_home, k_etc, k_stamp, k_backup, k_generation, k_disabled,
              k_failed, k_saved, k_spoiled, k_restored, k_touched, k_mine>>
allVars == <<part, swapVars, runVars, serviceVars, jobVars, rsaVars, keepVars>>

\* image.page_mask of the two programs.
Masks == <<Window, {2}>>

R == INSTANCE MmuRun WITH
       Pages <- Frames, Mask <- Masks,
       pc <- r_pc, call <- r_call, count <- r_count, programs <- r_programs, active <- r_active,
       fatal <- r_fatal, alias <- r_alias, ram <- r_ram, native <- r_native, line <- r_line,
       code <- r_code, autoload <- r_autoload, killed <- r_killed
A == INSTANCE Rsa WITH
       driver <- a_driver, key <- a_key, pc <- a_pc, x <- a_x, y <- a_y, result <- a_result,
       lock <- a_lock, regs <- a_regs, run <- a_run, z <- a_z, int_raised <- a_int_raised,
       timed_out <- a_timed_out
C == INSTANCE KeepConfig WITH
       Files <- <<"wpa_supplicant.conf", "shadow">>,
       pc <- k_pc, k <- k_k, stage <- k_stage, new <- k_new, home <- k_home, etc <- k_etc,
       stamp <- k_stamp, backup <- k_backup, generation <- k_generation, disabled <- k_disabled,
       failed <- k_failed, saved <- k_saved, spoiled <- k_spoiled, restored <- k_restored,
       touched <- k_touched, mine <- k_mine

\* The banks: a whole chunk and a page, a page with its shadow in the same
\* chunk before a whole one, and a chunk whose shadow pages are scattered.
\* Each is <<first page, shadow pages>>.
Banks == {
    << <<0, 0>>, << <<2, 0>>, <<2, 1>>, <<1, 1>> >> >>,
    << <<0, 1>>, << <<0, 0>>, <<2, 0>>, <<2, 1>> >> >>,
    << <<0, 0>>, << <<2, 0>>, <<1, 1>> >> >> }

PageAt(n) == <<n \div K, n % K>>

SwapInit ==
    /\ \E b \in Banks :
         /\ part # "swap" => Len(b[2]) = 2
         /\ count = Len(b[2])
         /\ region = [j \in 0 .. Len(b[2]) - 1 |-> PageAt(Address(b[1]) + j)]
         /\ pages = [j \in 0 .. Len(b[2]) - 1 |-> b[2][j + 1]]
    /\ Init
    /\ part # "swap" => ~autoload /\ \A p \in Pages : psram[p] = CHOOSE v \in Values : TRUE

MCInit ==
    /\ part \in {"swap", "run", "services", "jobs", "rsa", "keep"}
    /\ SwapInit
    /\ R!Init /\ (part # "run" => ~r_autoload)
    /\ S!Init
    /\ J!Init
    /\ A!Init
    /\ C!Init

MCNext ==
    \/ /\ part = "swap" /\ Next
       /\ Cardinality({p \in Pages : cache'[p] # None}) <= CachedLines
       /\ UNCHANGED <<part, runVars, serviceVars, jobVars, rsaVars, keepVars>>
    \/ /\ part = "run" /\ R!Next
       /\ UNCHANGED <<part, swapVars, serviceVars, jobVars, rsaVars, keepVars>>
    \/ /\ part = "services" /\ S!Next
       /\ UNCHANGED <<part, swapVars, runVars, jobVars, rsaVars, keepVars>>
    \/ /\ part = "jobs" /\ J!Next
       /\ UNCHANGED <<part, swapVars, runVars, serviceVars, rsaVars, keepVars>>
    \/ /\ part = "rsa" /\ A!Next
       /\ UNCHANGED <<part, swapVars, runVars, serviceVars, jobVars, keepVars>>
    \/ /\ part = "keep" /\ C!Next
       /\ UNCHANGED <<part, swapVars, runVars, serviceVars, jobVars, rsaVars>>

\* JobQueue's fairness.
JobFairness ==
    /\ WF_jobVars(part = "jobs" /\ J!main)
    /\ WF_jobVars(part = "jobs" /\ J!Starve)
    /\ \A j \in 0 .. JobCount - 1 :
         WF_jobVars(part = "jobs" /\ J!TimeIsUp(j)) /\ WF_jobVars(part = "jobs" /\ J!Dies(j))

MCSpec == MCInit /\ [][MCNext]_allVars /\ JobFairness

----------------------------------------------------------------------------
\* The properties, stated in the modules of the components; Coherent and
\* ExchangeIsAtomic are those of MmuSwap itself, NothingLeaks and JobsAccounted
\* are in Board.

\* A program finds its own pages, data and code in the window, what it wrote can
\* be read back natively, and a page that is mapped belongs to a launcher
\* (MmuRun).
OwnWindow == R!OwnWindow /\ R!NativeReadback /\ R!RetainedWhileMapped

\* A request gets its own result (Rsa).
ResultIsRight == A!ResultIsRight

\* An update keeps what was saved, no file is ever half a copy, and what a user
\* changed stays (KeepConfig).
ConfigurationSurvives == C!ConfigurationSurvives /\ C!WholeFiles /\ C!EditsStay

\* jobq returns (JobQueue).
QueueEnds == part = "jobs" => J!QueueEnds
=============================================================================
