-------------------------------- MODULE Rsa ---------------------------------
(***************************************************************************)
(* The driver of the RSA accelerator (esp32s3_rsa.c): bring-up, keys, and  *)
(* modular exponentiation by an engine of which there is one for all       *)
(* transforms.  Big numbers are names; only the lowest word of a modulus   *)
(* has a value, for the Montgomery constant the driver computes from it.   *)
(* Callers may interleave between any two accesses to the engine.          *)
(***************************************************************************)
EXTENDS Naturals, Integers

CONSTANTS
    Tfms,   \* transforms, each with one caller
    Messages,
    Lows,   \* lowest words of moduli
    Rounds, \* of the Newton iteration; words have 2^Rounds bits
    None

VARIABLES
    driver,    \* "off", "ready" or "failed"
    key,       \* struct esp_rsa_key of each transform, None without nwords
    pc, x, y,  \* the request of each caller
    result,
    lock,      \* holder of esp_rsa_lock
    regs,      \* the engine's operand memory
    run,       \* what the engine computes, None when it is idle
    z,         \* its result memory
    int_raised,
    timed_out  \* a request was given up while the engine ran

engineVars == <<lock, regs, run, z, int_raised>>
vars == <<driver, key, pc, x, y, result, engineVars, timed_out>>

Word == 2 ^ (2 ^ Rounds)
Garbage == [x |-> 0, y |-> "garbage", n |-> 0, rr |-> 0, mprime |-> 0]
Power(o) == <<o.x, o.y, o.n>>
One == <<1, "one", 1>>

Init ==
    /\ driver = "off"
    /\ key = [t \in Tfms |-> None]
    /\ pc = [t \in Tfms |-> "idle"]
    /\ x = [t \in Tfms |-> 0] /\ y = [t \in Tfms |-> None]
    /\ result = [t \in Tfms |-> None]
    /\ lock = None /\ regs = Garbage /\ run = None /\ z = Power(Garbage) /\ int_raised = FALSE
    /\ timed_out = FALSE

\* rsa_hw_enable reports a block that is not clean in time; registration may
\* fail as well.
esp_rsa_init ==
    /\ driver = "off"
    /\ driver' \in {"ready", "failed"}
    /\ UNCHANGED <<key, pc, x, y, result, engineVars, timed_out>>

----------------------------------------------------------------------------
\* Fault: one round too few.
compute_mprime_Short(m0) ==
    LET inv[k \in 0 .. Rounds - 1] == IF k = 0 THEN 1 ELSE (inv[k - 1] * (2 - m0 * inv[k - 1])) % Word
    IN  (0 - inv[Rounds - 1]) % Word

\* Each round doubles the number of correct bits: five for 32 of them.
compute_mprime(m0) ==
    LET inv[k \in 0 .. Rounds] == IF k = 0 THEN 1 ELSE (inv[k - 1] * (2 - m0 * inv[k - 1])) % Word
    IN  (0 - inv[Rounds]) % Word

\* Of a private key, of a public one, and of one that is degenerate.
Exponents == {[e |-> "e", d |-> "d"], [e |-> "e", d |-> None], [e |-> "zero", d |-> None]}

\* The key before is gone whatever happens.  The rest fails without memory,
\* for a modulus that is too long or even, or in compute_rr.
esp_rsa_setup(t) ==
    /\ driver = "ready" /\ pc[t] = "idle"
    /\ \/ key' = [key EXCEPT ![t] = None]
       \/ \E n \in Lows, exp \in Exponents :
            /\ n % 2 = 1
            /\ key' = [key EXCEPT ![t] = [n |-> n, e |-> exp.e, d |-> exp.d,
                                          mprime |-> compute_mprime(n), rr |-> n]]
    /\ UNCHANGED <<driver, pc, x, y, result, engineVars, timed_out>>

esp_rsa_exit_tfm(t) ==
    /\ pc[t] = "idle"
    /\ key[t] # None
    /\ key' = [key EXCEPT ![t] = None]
    /\ UNCHANGED <<driver, pc, x, y, result, engineVars, timed_out>>

----------------------------------------------------------------------------
\* Requests.

\* esp_rsa_enc and esp_rsa_dec, for an operand in range: the others, and
\* those without memory, return at once.  An exponent of zero needs no engine.
esp_rsa_op(t) ==
    /\ pc[t] = "idle" /\ key[t] # None
    /\ \E v \in Messages, exp \in {key[t].e, key[t].d} \ {None} :
         /\ x' = [x EXCEPT ![t] = v] /\ y' = [y EXCEPT ![t] = exp]
         /\ IF exp = "zero"
            THEN pc' = [pc EXCEPT ![t] = "done"] /\ result' = [result EXCEPT ![t] = One]
            ELSE pc' = [pc EXCEPT ![t] = "lock"] /\ result' = [result EXCEPT ![t] = None]
    /\ UNCHANGED <<driver, key, engineVars, timed_out>>

TakeLock(t) ==
    /\ pc[t] = "lock" /\ lock = None
    /\ lock' = t
    /\ pc' = [pc EXCEPT ![t] = "write"]
    /\ UNCHANGED <<driver, key, x, y, result, regs, run, z, int_raised, timed_out>>

Operands(t) == [x |-> x[t], y |-> y[t], n |-> key[t].n, rr |-> key[t].rr, mprime |-> key[t].mprime]

\* A running engine works in the memory that is written here.
WriteOperands(t) ==
    /\ pc[t] = "write"
    /\ regs' = Operands(t)
    /\ run' = IF run = None THEN None ELSE Garbage
    /\ pc' = [pc EXCEPT ![t] = "start"]
    /\ UNCHANGED <<driver, key, x, y, result, lock, z, int_raised, timed_out>>

StartEngine(t) ==
    /\ pc[t] = "start"
    /\ int_raised' = FALSE
    /\ run' = IF run = None THEN regs ELSE Garbage
    /\ pc' = [pc EXCEPT ![t] = "poll"]
    /\ UNCHANGED <<driver, key, x, y, result, lock, regs, z, timed_out>>

Collect(t) ==
    /\ pc[t] = "poll" /\ int_raised
    /\ result' = [result EXCEPT ![t] = z]
    /\ int_raised' = FALSE
    /\ lock' = None
    /\ pc' = [pc EXCEPT ![t] = "done"]
    /\ UNCHANGED <<driver, key, x, y, regs, run, z, timed_out>>

Forget(t) ==
    /\ pc' = [pc EXCEPT ![t] = "idle"]
    /\ x' = [x EXCEPT ![t] = 0] /\ y' = [y EXCEPT ![t] = None]
    /\ result' = [result EXCEPT ![t] = None]

\* The polls are used up.  The engine is not stopped.
PollTimeout(t) ==
    /\ pc[t] = "poll" /\ ~int_raised
    /\ timed_out' = TRUE
    /\ lock' = None
    /\ Forget(t)
    /\ UNCHANGED <<driver, key, regs, run, z, int_raised>>

Return(t) ==
    /\ pc[t] = "done"
    /\ Forget(t)
    /\ UNCHANGED <<driver, key, engineVars, timed_out>>

\* The engine: right for R^2 mod n and -1/n mod the word size, else useless.
EngineDone ==
    /\ run # None
    /\ z' = Power(IF run.rr = run.n /\ (run.n * run.mprime + 1) % Word = 0 THEN run ELSE Garbage)
    /\ run' = None
    /\ int_raised' = TRUE
    /\ UNCHANGED <<driver, key, pc, x, y, result, lock, regs, timed_out>>

hw_modexp(t) ==
    TakeLock(t) \/ WriteOperands(t) \/ StartEngine(t) \/ Collect(t) \/ PollTimeout(t) \/ Return(t)

Next ==
    \/ esp_rsa_init \/ EngineDone
    \/ \E t \in Tfms : esp_rsa_setup(t) \/ esp_rsa_exit_tfm(t) \/ esp_rsa_op(t) \/ hw_modexp(t)

Spec == Init /\ [][Next]_vars

----------------------------------------------------------------------------
\* A request that succeeds returns the power of its own operand under the key
\* of its own transform, however requests and new keys overlap, as long as no
\* request was given up: a timeout leaves the engine running, and the next
\* request takes the old one's interrupt for its own.
ResultIsRight ==
    \A t \in Tfms :
      pc[t] = "done" /\ ~timed_out
        => result[t] = IF y[t] = "zero" THEN One ELSE Power(Operands(t))
=============================================================================
