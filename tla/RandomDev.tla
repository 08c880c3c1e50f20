----------------------------- MODULE RandomDev -----------------------------
(***************************************************************************)
(* /dev/random (tree 4, kernel/random.c): a linear feedback shift register *)
(* in one global, read byte by byte and written by any process.            *)
(*                                                                         *)
(* The spin lock of the device covers the computation of the next value,   *)
(* not the load of random_seed before it and the store after it, so each   *)
(* of these accesses is a step.                                            *)
(***************************************************************************)
EXTENDS Integers

CONSTANTS
  Proc,
  Seeds,          \* bytes that are written to the device
  MaxRead,        \* bound of the model: no read() asks for more bytes
  MaxDraws        \* bound of the model: bytes asked for in all

ASSUME RandomAssumption ==
  /\ Seeds \subseteq 0..255
  /\ MaxRead \in Nat /\ MaxDraws \in Nat

VARIABLES
  random_seed,
  rpc,              \* rpc[p]: where p is in random_read(), or "idle"
  left, value,      \* bytes that p still wants; lfsr_char()'s argument
  due,              \* history: the value if every draw counted
  draws             \* bytes asked for so far

randomVars == <<random_seed, rpc, left, value, due, draws>>

RandomInit ==
  /\ random_seed = 42
  /\ rpc = [p \in Proc |-> "idle"]
  /\ left = [p \in Proc |-> 0]
  /\ value = [p \in Proc |-> 0]
  /\ due = 42
  /\ draws = 0

\* A bug: the tap at bit 0 is missing.
LfsrTapless(x) == x \div 2 + 128 * ((x \div 4 + x \div 8 + x \div 16) % 2)

\* lfsr_char(): the bits 0, 2, 3 and 4 make the new bit 7.
Lfsr(x) == x \div 2 + 128 * ((x + x \div 4 + x \div 8 + x \div 16) % 2)

RandomRead(p, n) ==
  /\ rpc[p] = "idle"
  /\ rpc' = [rpc EXCEPT ![p] = "load"]
  /\ left' = [left EXCEPT ![p] = n]
  /\ draws + n <= MaxDraws
  /\ draws' = draws + n
  /\ UNCHANGED <<random_seed, value, due>>

Load(p) ==
  /\ rpc[p] = "load"
  /\ value' = [value EXCEPT ![p] = random_seed]
  /\ rpc' = [rpc EXCEPT ![p] = "store"]
  /\ UNCHANGED <<random_seed, left, due, draws>>

Store(p) ==
  /\ rpc[p] = "store"
  /\ random_seed' = Lfsr(value[p])
  /\ value' = [value EXCEPT ![p] = 0]
  /\ rpc' = [rpc EXCEPT ![p] = "copy"]
  /\ due' = Lfsr(due)
  /\ UNCHANGED <<left, draws>>

\* copyout() of one byte of random_seed, whatever that is by now, or its
\* failure, which ends the read.
CopyOut(p) ==
  /\ rpc[p] = "copy"
  /\ \E ok \in {0, 1} :
       /\ left' = [left EXCEPT ![p] = IF ok = 1 THEN @ - 1 ELSE 0]
       /\ rpc' = [rpc EXCEPT ![p] = IF left'[p] > 0 THEN "load" ELSE "idle"]
  /\ UNCHANGED <<random_seed, value, due, draws>>

RandomWrite(p, seed) ==
  /\ rpc[p] = "idle"
  /\ random_seed' = seed
  /\ due' = seed
  /\ UNCHANGED <<rpc, left, value, draws>>

RandomStep(p) == Load(p) \/ Store(p) \/ CopyOut(p)

RandomCall(p) ==
  \/ \E n \in 1..MaxRead : RandomRead(p, n)
  \/ \E seed \in Seeds : RandomWrite(p, seed)

RandomNext == \E p \in Proc : RandomCall(p) \/ RandomStep(p)

RandomSpec == RandomInit /\ [][RandomNext]_randomVars

-----------------------------------------------------------------------------
(* Properties.                                                             *)

\* The bytes that are drawn one after the other from 1.
Drawn[n \in 0..254] == IF n = 0 THEN 1 ELSE Lfsr(Drawn[n - 1])

\* They are all bytes but 0, and then they begin again: wherever the draws start,
\* they go through all of them.
OneCycle == {Drawn[n] : n \in 0..254} = 1..255 /\ Lfsr(Drawn[254]) = 1

\* Wherever reads and writes in a race leave the generator, it is alive: the
\* next 255 draws by one process go through all bytes but 0, so they end
\* where they began (test_looping() of user/random_test.c).  Only a process
\* that writes the seed 0 can stop it.
FullPeriod == OneCycle /\ (0 \notin Seeds => random_seed \in 1..255)

\* "Checks whether multiple processes generating with the same PRG result in
\* the proper amount of calls generated with correct values"
\* (user/random_test.c): when nobody is in a call, the generator has advanced
\* once for every byte drawn since a seed was written.
EveryDrawCounts ==
  (\A p \in Proc : rpc[p] = "idle") => random_seed = due
=============================================================================
